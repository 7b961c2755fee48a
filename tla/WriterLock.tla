----------------------------- MODULE WriterLock -----------------------------
(***************************************************************************)
(* The writer lock of a state directory and the record updates it guards   *)
(* (lib/task-store.js createTaskStore).  Every process that opens the      *)
(* directory runs the same synchronous code, one system call per step;     *)
(* processes interleave between system calls, may crash at any of them and *)
(* may stall, in which case the lease on the lock file runs out.           *)
(*                                                                         *)
(* The lock file is an inode with the token of its owner in it.  A process *)
(* of the model is one operating system process: a restart is another one. *)
(***************************************************************************)
EXTENDS Naturals, FiniteSets

CONSTANTS
  Processes,      \* the processes that open the directory
  Spaces,         \* the ways they may be spread over PID namespaces
  Inodes,         \* inode numbers the file system hands out, reused once free
  None,           \* no inode, no owner
  MaxUpdates      \* bound: updates one process makes

ASSUME LockAssumption ==
  /\ None \notin Processes
  /\ None \notin Inodes
  /\ MaxUpdates \in Nat

VARIABLES
  lock,      \* the lock file: inode, owner token (None while empty), lease unexpired
  proc,      \* per process: program counter and what it has read
  data,      \* a record on disk: how many updates of each process it contains
  namespaceOf, \* the PID namespace of each process
  outrun     \* history: a start has unlinked another lock than the one it judged

lockVars == <<lock, proc, data, namespaceOf, outrun>>

Absent == [ino |-> None, owner |-> None, fresh |-> FALSE]

Opening == {"new", "stat", "read", "judge", "recheck", "unlink", "create", "write"}
Working == {"idle", "got", "asserted"}
Over    == {"refused", "failed", "closed", "dead"}
Steps   == Opening \union Working \union {"closing"} \union Over

LockType ==
  [ino   : Inodes \union {None},
   owner : Processes \union {None},
   fresh : BOOLEAN]

ProcFields ==
  [pc        : Steps,
   ino       : Inodes \union {None},      \* inode of lockFd
   seenIno   : Inodes \union {None},      \* st.ino
   seenFresh : BOOLEAN,                   \* st.mtimeMs within the lease
   seenOwner : Processes \union {None},   \* previous
   old       : [Processes -> Nat],        \* the record an update starts from
   updates   : 0..MaxUpdates]

ProcType ==
  {r \in ProcFields : r.pc \in {"got", "asserted"} => r.updates < MaxUpdates}

LockTypeOK ==
  /\ lock \in LockType
  /\ proc \in [Processes -> ProcType]
  /\ data \in [Processes -> Nat]
  /\ namespaceOf \in Spaces
  /\ outrun \in BOOLEAN

Nothing == [p \in Processes |-> 0]

LockInit ==
  /\ lock = Absent
  /\ proc = [p \in Processes |->
               [pc |-> "new", ino |-> None, seenIno |-> None, seenFresh |-> FALSE,
                seenOwner |-> None, old |-> Nothing, updates |-> 0]]
  /\ data = Nothing
  /\ namespaceOf \in Spaces
  /\ outrun = FALSE

LockExists == lock.ino # None

Owns(p)    == LockExists /\ lock.ino = proc[p].ino /\ lock.owner = p

Goto(p, pc) == proc' = [proc EXCEPT ![p].pc = pc]

(* leaving forgets what was read; the descriptor is closed                  *)
Leave(p, pc) ==
  proc' = [proc EXCEPT ![p] = [@ EXCEPT !.pc = pc, !.ino = None, !.seenIno = None,
             !.seenFresh = FALSE, !.seenOwner = None, !.old = Nothing]]

-----------------------------------------------------------------------------
(* Opening the store                                                       *)

Exists(p) ==
  /\ proc[p].pc = "new"
  /\ Goto(p, IF LockExists THEN "stat" ELSE "create")
  /\ UNCHANGED <<lock, data>>

(* statSync; an error of a vanished file is not caught *)
Stat(p) ==
  /\ proc[p].pc = "stat"
  /\ \/ /\ LockExists
        /\ proc' = [proc EXCEPT ![p].pc = "read", ![p].seenIno = lock.ino,
                                ![p].seenFresh = lock.fresh]
     \/ /\ ~LockExists
        /\ Leave(p, "failed")
  /\ UNCHANGED <<lock, data>>

(* an unreadable or empty lock is a conflict *)
Read(p) ==
  /\ proc[p].pc = "read"
  /\ \/ /\ lock.owner # None
        /\ proc' = [proc EXCEPT ![p].pc = "judge", ![p].seenOwner = lock.owner]
     \/ /\ lock.owner = None
        /\ Leave(p, "refused")
  /\ UNCHANGED <<lock, data>>

(* mutant: an expired lease is enough in one namespace, too *)
ReclaimableByLease(p) ==
  \/ proc[p].seenOwner \in {r \in Processes : proc[r].pc = "dead"}
  \/ ~proc[p].seenFresh

(* mutant: an owner of another namespace is never given up *)
ReclaimableAtHome(p) ==
  LET owner == proc[p].seenOwner
  IN  namespaceOf[owner] = namespaceOf[p] /\ proc[owner].pc = "dead"

(* Only in its own namespace can a process tell that the owner is dead;     *)
(* across namespaces an expired lease stands for it.                        *)
Reclaimable(p) ==
  LET owner == proc[p].seenOwner
  IN  IF namespaceOf[owner] = namespaceOf[p]
      THEN proc[owner].pc = "dead"
      ELSE ~proc[p].seenFresh

Judge(p) ==
  /\ proc[p].pc = "judge"
  /\ IF Reclaimable(p) THEN Goto(p, "recheck") ELSE Leave(p, "refused")
  /\ UNCHANGED <<lock, data>>

Recheck(p) ==
  /\ proc[p].pc = "recheck"
  /\ IF lock.ino = proc[p].seenIno THEN Goto(p, "unlink")
     ELSE Leave(p, IF LockExists THEN "refused" ELSE "failed")
  /\ UNCHANGED <<lock, data>>

(* unlinkSync removes whatever file has the name by now *)
Unlink(p) ==
  /\ proc[p].pc = "unlink"
  /\ \/ LockExists /\ lock' = Absent /\ Goto(p, "create")
     \/ ~LockExists /\ UNCHANGED lock /\ Leave(p, "failed")
  /\ UNCHANGED data

(* inodes that are free: not named, and not held open by a live process *)
FreeInodes == Inodes \ ({lock.ino} \union {proc[p].ino : p \in Processes})

(* openSync with "wx" *)
Create(p) ==
  /\ proc[p].pc = "create"
  /\ \/ /\ ~LockExists
        /\ \E ino \in FreeInodes :
             /\ lock' = [ino |-> ino, owner |-> None, fresh |-> TRUE]
             /\ proc' = [proc EXCEPT ![p].pc = "write", ![p].ino = ino]
     \/ /\ LockExists
        /\ Leave(p, "refused")
        /\ UNCHANGED lock
  /\ UNCHANGED data

(* the owner is written through the descriptor, so into this process's inode *)
WriteOwner(p) ==
  /\ proc[p].pc = "write"
  /\ lock' = IF lock.ino = proc[p].ino
             THEN [lock EXCEPT !.owner = p, !.fresh = TRUE] ELSE lock
  /\ Goto(p, "idle")
  /\ UNCHANGED data

-----------------------------------------------------------------------------
(* Working with the store                                                  *)

(* the interval timer, which runs only between synchronous updates *)
Heartbeat(p) ==
  /\ proc[p].pc = "idle" /\ Owns(p) /\ ~lock.fresh
  /\ lock' = [lock EXCEPT !.fresh = TRUE]
  /\ UNCHANGED <<proc, data>>

(* get: assertOwnership, then the record is read (a takeover between the     *)
(* two shows when ownership is asserted again); when ownership is lost the   *)
(* conflict is thrown to the request and the process stays                   *)
Get(p) ==
  /\ proc[p].pc = "idle" /\ proc[p].updates < MaxUpdates
  /\ Owns(p)
  /\ proc' = [proc EXCEPT ![p].pc = "got", ![p].old = data]
  /\ UNCHANGED <<lock, data>>

(* the temporary file is written and ownership asserted again *)
AssertOwned(p) ==
  /\ proc[p].pc = "got"
  /\ proc' = IF Owns(p) THEN [proc EXCEPT ![p].pc = "asserted"]
             ELSE [proc EXCEPT ![p].pc = "idle", ![p].old = Nothing]
  /\ UNCHANGED <<lock, data>>

(* renameSync makes the update visible *)
Rename(p) ==
  /\ proc[p].pc = "asserted"
  /\ data' = [proc[p].old EXCEPT ![p] = @ + 1]
  /\ proc' = [proc EXCEPT ![p].pc = "idle", ![p].old = Nothing,
                          ![p].updates = @ + 1]
  /\ UNCHANGED lock

(* close: the lock is removed if it is still this process's *)
Close(p) ==
  /\ proc[p].pc = "idle"
  /\ IF Owns(p) THEN Goto(p, "closing") ELSE Leave(p, "closed")
  /\ UNCHANGED <<lock, data>>

CloseUnlink(p) ==
  /\ proc[p].pc = "closing"
  /\ lock' = Absent
  /\ Leave(p, IF LockExists THEN "closed" ELSE "failed")
  /\ UNCHANGED data

-----------------------------------------------------------------------------
(* What happens to a process                                               *)

Crash(p) ==
  /\ proc[p].pc \notin {"new", "refused", "failed", "dead"}
  /\ Leave(p, "dead")
  /\ UNCHANGED <<lock, data>>

(* two seconds without a heartbeat *)
Expire ==
  /\ lock.fresh
  /\ lock' = [lock EXCEPT !.fresh = FALSE]
  /\ UNCHANGED <<proc, data>>

Open(p) ==
  \/ Exists(p) \/ Stat(p) \/ Read(p) \/ Judge(p) \/ Recheck(p)
  \/ Unlink(p) \/ Create(p) \/ WriteOwner(p)

Work(p) ==
  \/ Heartbeat(p) \/ Get(p) \/ AssertOwned(p) \/ Rename(p)
  \/ Close(p) \/ CloseUnlink(p)

(* The lock p is about to unlink is not the one it has read and judged any   *)
(* more: a faster start has put its own there.                               *)
Outrun(p) ==
  proc[p].pc = "unlink" /\ LockExists /\ lock.owner # proc[p].seenOwner

(* what no process changes, and the history of such unlinkings *)
Aside ==
  /\ UNCHANGED namespaceOf
  /\ outrun' = (outrun \/ \E p \in Processes : Outrun(p) /\ proc'[p].pc = "create")

LockNext ==
  /\ (\E p \in Processes : Open(p) \/ Work(p) \/ Crash(p)) \/ Expire
  /\ Aside

LockSpec == LockInit /\ [][LockNext]_lockVars

(* The constructor is synchronous: a process that opens the store runs on.  *)
FairLockSpec ==
  LockSpec /\ \A p \in Processes : WF_lockVars(Open(p) /\ Aside)

-----------------------------------------------------------------------------
(* Properties                                                              *)

(* The inode of the lock and the token in it never disagree for a process    *)
(* that has opened the store, although the file system reuses inode numbers: *)
(* a process whose lock was taken over cannot mistake the new file for its   *)
(* own, because it keeps its descriptor open (task-store.js:82, ownsLock).   *)
InodeMeansToken ==
  \A p \in Processes :
    proc[p].pc \in Working \union {"closing"} /\ lock.ino = proc[p].ino
      => lock.owner = p

OneSpace == \A p, r \in Processes : namespaceOf[p] = namespaceOf[r]

(* the register the processes of one namespace share *)
Register == INSTANCE TaskRegister
  WITH Writers <- Processes, count <- data, guarded <- OneSpace /\ ~outrun

(* Among any number of processes of one PID namespace updates are atomic,     *)
(* whatever crashes, stalls, takeovers and reused inodes come in between:     *)
(* each rename adds one update to the record as it is on disk.  Only when a   *)
(* start unlinks a lock other than the one it judged (task-store.js:64) is    *)
(* the promise of limits.md:21, "Concurrent writers to one data directory     *)
(* fail closed", lost.                                                        *)
UpdatesAreAtomic == Register!Spec

(* r takes the lock of a working process away *)
Displaces(r, p) ==
  /\ p # r /\ Owns(p) /\ proc[p].pc \in Working
  /\ proc[r].pc = "unlink" /\ lock' # lock

NobodyDisplaced ==
  \A p, r \in Processes : Displaces(r, p) => namespaceOf[p] # namespaceOf[r]

(* A working process loses its lock to another only in two ways: the other    *)
(* is of another namespace and has seen the lease of this lock run out        *)
(* (task-store.js:57-62); or it had read the lock before this process wrote   *)
(* its own, which has taken the place of the one the other judged by the time *)
(* it unlinks the name (line 64).  A start that begins once a process works   *)
(* never takes the lock of one in its own namespace.                          *)
LockIsKept ==
  [][\A p, r \in Processes :
       Displaces(r, p) =>
         \/ namespaceOf[p] # namespaceOf[r] /\ ~proc[r].seenFresh
         \/ Outrun(r) /\ (namespaceOf[proc[r].seenOwner] = namespaceOf[r]
                            => proc[proc[r].seenOwner].pc = "dead")]_lockVars

(* limits.md:21: "A healthy writer in the same PID namespace is never        *)
(* displaced merely because a request took longer": the lock of a working    *)
(* process is taken away by nobody else of its namespace.                    *)
HealthyWriterStays == [][NobodyDisplaced]_lockVars

(* another process than p opens or has the store *)
Rivals(p) == \E q \in Processes \ {p} : proc[q].pc \notin {"new"} \union Over

(* A start that finds the lock of a crashed process with the owner in it, its *)
(* lease run out, gets the store unless it crashes itself or another process  *)
(* opens the store as well.  (A lock whose owner was never written stops      *)
(* every start, task-store.js:45-47.)                                         *)
CrashedLockIsTaken ==
  \A p \in Processes :
    (/\ proc[p].pc = "stat" /\ ~lock.fresh
     /\ lock.owner # None /\ proc[lock.owner].pc = "dead")
    ~> (proc[p].pc \in Working \union {"dead"} \/ Rivals(p))
=============================================================================
