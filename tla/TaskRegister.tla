---------------------------- MODULE TaskRegister ----------------------------
(***************************************************************************)
(* What the task store promises of a record: as long as the store is       *)
(* guarded, updates by any process of the directory happen one at a time   *)
(* and none is lost.  The record is the number of updates of each process  *)
(* it contains.  Once the guard is lost nothing is promised any more.      *)
(***************************************************************************)
EXTENDS Naturals

CONSTANT Writers

VARIABLES count, guarded

Init ==
  /\ count = [w \in Writers |-> 0]
  /\ guarded \in BOOLEAN

Update(w) == count' = [count EXCEPT ![w] = @ + 1]

Next ==
  \/ guarded /\ UNCHANGED guarded /\ \E w \in Writers : Update(w)
  \/ guarded /\ ~guarded' /\ UNCHANGED count
  \/ ~guarded /\ ~guarded'

Spec == Init /\ [][Next]_<<count, guarded>>
=============================================================================
