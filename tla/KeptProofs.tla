----------------------------- MODULE KeptProofs -----------------------------
(***************************************************************************)
(* What is kept beyond a request.  For any seeds and endpoints, the proxy   *)
(* revives a provider by proof only.  For any stores, sizes and limits, the *)
(* retained stores account for exactly the bytes they hold.  For any number *)
(* of processes: the inode of the task store's lock and its token never     *)
(* disagree for a process with an open store, a working process loses its   *)
(* lock in two ways only, and in one PID namespace the store is an atomic   *)
(* register until a start unlinks a lock it has not judged.                 *)
(***************************************************************************)
EXTENDS ProviderFile, StateRetention, WriterLock, Inductions, TLAPS

-----------------------------------------------------------------------------
(* The provider file.                                                        *)

Verdicts == [Seeds -> [alive : BOOLEAN, tested : {"never", "no_key", "recent", "due"}]]

Scans == [pc : {"test", "endpoint", "write", "fill", "last"}, todo : SUBSET Seeds,
          found : Verdicts, left : Nat, before : Verdicts]

DiscoveryType ==
  /\ file \in [is : {"missing", "torn", "whole"}, says : Verdicts]
  /\ scan \in {Disc!Off} \union Scans
  /\ keyed \in SUBSET Seeds
  /\ proxy \in [alive : SUBSET Seeds, timer : {"none", "pending"}]
  /\ proven \in SUBSET Seeds

(* taking a provider for alive is right *)
Right(p) ==
  \/ p \in proven \union CatalogOnly
  \/ file.says[p].alive /\ p \in proxy.alive

(* whatever the file or the scan says is alive, or was tested of late and    *)
(* alive when the scan began, is rightly so                                  *)
DiscoveryInv ==
  /\ DiscoveryType
  /\ file.is = "missing" => proxy.alive = Seeds
  /\ \A p \in Seeds : file.says[p].alive => Right(p)
  /\ scan # Disc!Off =>
       /\ scan.pc # "test" => scan.todo = {}
       /\ \A p \in Seeds : p \notin scan.todo /\ scan.found[p].alive => Right(p)
       /\ \A p \in Seeds : scan.pc = "test" /\ scan.before[p].alive
                           /\ scan.before[p].tested = "recent" => Right(p)

Revived ==
  file.is = "whole" =>
    \A p \in proxy'.alive \ proxy.alive : p \in proven \union CatalogOnly

LEMMA OffIsOff == Disc!Off \notin Scans /\ Disc!Off.pc = "off"
BY DEF Disc!Off, Scans

LEMMA AllAliveFacts ==
  /\ Disc!AllAlive \in Verdicts
  /\ \A p \in Seeds : Disc!AllAlive[p].tested = "never" /\ Disc!AllAlive[p].alive
BY DEF Disc!AllAlive, Verdicts

LEMMA DiscoveryInitInv == Disc!Init => DiscoveryInv
<1> SUFFICES ASSUME Disc!Init PROVE DiscoveryInv
  OBVIOUS
<1>1. DiscoveryType
  BY AllAliveFacts DEF Disc!Init, DiscoveryType
<1>2. file.says = Disc!AllAlive /\ proxy.alive = Seeds /\ scan = Disc!Off
  BY DEF Disc!Init
<1> QED
  BY <1>1, <1>2 DEF DiscoveryInv, Right

LEMMA DiscoveryLoad ==
  ASSUME DiscoveryInv, Disc!Reload \/ Disc!ProxyStarts
  PROVE  DiscoveryInv' /\ Revived
<1>1. /\ proxy' = [alive |-> IF file.is = "whole" THEN Disc!Alive(file.says) ELSE Seeds,
                   timer |-> "none"]
      /\ file' = file /\ scan' = scan /\ keyed' = keyed /\ proven' = proven
  BY DEF Disc!Reload, Disc!ProxyStarts, Disc!Load
<1>2. DiscoveryType'
  BY <1>1 DEF DiscoveryInv, DiscoveryType, Disc!Alive
<1>3. \A p \in Seeds : Right(p) => Right(p)'
  BY <1>1 DEF Right, Disc!Alive
<1>4. Revived
  BY <1>1 DEF Revived, DiscoveryInv, DiscoveryType, Right, Disc!Alive
<1> QED
  BY <1>1, <1>2, <1>3, <1>4 DEF DiscoveryInv

LEMMA DiscoveryStart ==
  ASSUME DiscoveryInv, Disc!Start
  PROVE  DiscoveryInv' /\ Revived
<1>1. CASE /\ file.is = "missing"
           /\ file' = [is |-> "whole", says |-> Disc!AllAlive] /\ Disc!Changed
           /\ UNCHANGED scan
  <2>1. /\ proxy'.alive = proxy.alive /\ proxy.alive = Seeds
        /\ proxy' \in [alive : SUBSET Seeds, timer : {"none", "pending"}]
    BY <1>1 DEF Disc!Changed, DiscoveryInv, DiscoveryType
  <2>2. keyed' = keyed /\ proven' = proven /\ scan = Disc!Off
    BY OffIsOff DEF Disc!Start, DiscoveryInv, DiscoveryType, Scans
  <2>3. DiscoveryType'
    BY <1>1, <2>1, <2>2, AllAliveFacts DEF DiscoveryInv, DiscoveryType
  <2>4. \A p \in Seeds : Right(p)'
    BY <1>1, <2>1, AllAliveFacts DEF Right
  <2> QED
    BY <1>1, <2>1, <2>2, <2>3, <2>4 DEF DiscoveryInv, Revived
<1>2. CASE /\ scan' = [pc |-> "test", todo |-> Seeds, found |-> Disc!AllAlive,
                       left |-> Endpoints,
                       before |-> IF file.is = "whole" THEN file.says ELSE Disc!AllAlive]
           /\ UNCHANGED <<file, proxy>>
  <2>1. keyed' = keyed /\ proven' = proven
    BY DEF Disc!Start
  <2>2. scan' \in Scans /\ scan'.pc = "test" /\ scan'.todo = Seeds
    BY <1>2, AllAliveFacts, DaemonAssumption DEF Scans, DiscoveryInv, DiscoveryType
  <2>3. DiscoveryType'
    BY <1>2, <2>1, <2>2 DEF DiscoveryInv, DiscoveryType
  <2>4. \A p \in Seeds : scan'.before[p].tested = "recent" => scan'.before[p] = file.says[p]
    BY <1>2, AllAliveFacts
  <2>5. \A p \in Seeds : Right(p)' <=> Right(p)
    BY <1>2, <2>1 DEF Right
  <2> QED
    BY <1>2, <2>2, <2>3, <2>4, <2>5 DEF DiscoveryInv, Revived
<1> QED
  BY <1>1, <1>2 DEF Disc!Start

LEMMA DiscoveryTest ==
  ASSUME DiscoveryInv, NEW p \in Seeds, Disc!Test(p)
  PROVE  DiscoveryInv' /\ Revived
<1>1. PICK ok \in BOOLEAN :
        /\ scan' = [scan EXCEPT
             !.todo = @ \ {p},
             !.pc = IF scan.todo = {p} THEN "endpoint" ELSE "test",
             !.found[p] = Disc!Verdict(p, ok)]
        /\ proven' = IF ok /\ p \in keyed \ CatalogOnly /\ ~Disc!Stands(p)
                     THEN proven \union {p} ELSE proven
  BY DEF Disc!Test
<1>2. /\ file' = file /\ keyed' = keyed /\ proxy' = proxy
      /\ scan.pc = "test" /\ scan \in Scans /\ p \in scan.todo
  BY OffIsOff DEF Disc!Test, DiscoveryInv, DiscoveryType, Scans
<1>3. Disc!Verdict(p, ok) \in [alive : BOOLEAN, tested : {"never", "no_key", "recent", "due"}]
  BY <1>2 DEF Disc!Verdict, Scans, Verdicts, Disc!Standing
<1>4. \A q \in Seeds : Right(q) => Right(q)'
  BY <1>1, <1>2 DEF Right
<1>5. Disc!Verdict(p, ok).alive => Right(p)'
  <2>1. CASE p \notin keyed
    <3>1. Disc!Verdict(p, ok).alive = FALSE
      BY <2>1 DEF Disc!Verdict
    <3> QED
      BY <3>1
  <2>2. CASE p \in CatalogOnly
    BY <2>2 DEF Right
  <2>3. CASE p \in keyed \ CatalogOnly /\ Disc!Stands(p)
    <3>1. Disc!Verdict(p, ok) = scan.before[p]
      BY <2>3 DEF Disc!Verdict, Disc!Standing
    <3> QED
      BY <1>2, <1>4, <2>3, <3>1, OffIsOff DEF DiscoveryInv, Disc!Stands
  <2>4. CASE p \in keyed \ CatalogOnly /\ ~Disc!Stands(p)
    <3>1. Disc!Verdict(p, ok).alive = ok
      BY <2>4 DEF Disc!Verdict
    <3> QED
      BY <1>1, <2>4, <3>1 DEF Right
  <2> QED
    BY <2>1, <2>2, <2>3, <2>4
<1>6. /\ scan' \in Scans /\ scan'.todo = scan.todo \ {p}
      /\ scan'.found = [scan.found EXCEPT ![p] = Disc!Verdict(p, ok)]
      /\ scan'.before = scan.before
      /\ scan'.pc = IF scan.todo = {p} THEN "endpoint" ELSE "test"
  BY <1>1, <1>2, <1>3 DEF Scans, Verdicts
<1>7. DiscoveryType'
  BY <1>1, <1>2, <1>6 DEF DiscoveryInv, DiscoveryType
<1>8. \A q \in Seeds : q \notin scan'.todo /\ scan'.found[q].alive => Right(q)'
  BY <1>2, <1>4, <1>5, <1>6, OffIsOff DEF DiscoveryInv, Scans, Verdicts
<1>9. scan'.pc # "test" => scan'.todo = {}
  BY <1>6
<1>10. \A q \in Seeds : scan'.pc = "test" /\ scan'.before[q].alive
                        /\ scan'.before[q].tested = "recent" => Right(q)'
  BY <1>2, <1>4, <1>6, OffIsOff DEF DiscoveryInv
<1> QED
  BY <1>2, <1>4, <1>7, <1>8, <1>9, <1>10 DEF DiscoveryInv, Revived

LEMMA DiscoveryScanned ==
  ASSUME DiscoveryInv, Disc!Scanned
  PROVE  DiscoveryInv' /\ Revived
<1>1. /\ file' = file /\ keyed' = keyed /\ proxy' = proxy /\ proven' = proven
      /\ scan.pc = "endpoint" /\ scan \in Scans /\ scan.left > 0
  BY OffIsOff DEF Disc!Scanned, DiscoveryInv, DiscoveryType, Scans
<1>2. /\ scan' \in Scans /\ scan'.pc # "test" /\ scan'.todo = scan.todo
      /\ \A p \in Seeds : scan'.found[p].alive => scan.found[p].alive
  <2>1. CASE scan' = [scan EXCEPT !.left = @ - 1]
    BY <1>1, <2>1 DEF Scans
  <2>2. ASSUME NEW missing \in SUBSET Seeds, NEW write \in BOOLEAN,
               scan' = [scan EXCEPT
                  !.left = @ - 1, !.pc = IF write THEN "write" ELSE @,
                  !.found = [p \in Seeds |-> IF p \in missing
                    THEN [alive |-> FALSE, tested |-> "recent"] ELSE scan.found[p]]]
        PROVE  /\ scan' \in Scans /\ scan'.pc # "test" /\ scan'.todo = scan.todo
               /\ \A p \in Seeds : scan'.found[p].alive => scan.found[p].alive
    <3> DEFINE found == [p \in Seeds |-> IF p \in missing
                    THEN [alive |-> FALSE, tested |-> "recent"] ELSE scan.found[p]]
    <3>1. found \in Verdicts /\ \A p \in Seeds : found[p].alive => scan.found[p].alive
      BY <1>1 DEF Scans, Verdicts
    <3>2. scan' = [scan EXCEPT !.left = @ - 1, !.pc = IF write THEN "write" ELSE @,
                               !.found = found]
      BY <2>2
    <3> HIDE DEF found
    <3> DEFINE pc == IF write THEN "write" ELSE scan.pc
    <3>3. pc \in {"write", "endpoint"} /\ scan.left - 1 \in Nat
      BY <1>1 DEF Scans
    <3>4. scan' = [scan EXCEPT !.left = @ - 1, !.pc = pc, !.found = found]
      BY <3>2
    <3> HIDE DEF pc
    <3> QED
      BY <1>1, <3>1, <3>3, <3>4 DEF Scans
  <2> QED
    BY <2>1, <2>2 DEF Disc!Scanned
<1>3. DiscoveryType'
  BY <1>1, <1>2 DEF DiscoveryInv, DiscoveryType
<1>4. \A p \in Seeds : Right(p)' <=> Right(p)
  BY <1>1 DEF Right
<1> QED
  BY <1>1, <1>2, <1>3, <1>4, OffIsOff DEF DiscoveryInv, Revived

LEMMA DiscoveryWrite ==
  ASSUME DiscoveryInv, Disc!Empty \/ Disc!Fill
  PROVE  DiscoveryInv' /\ Revived
<1>1. CASE Disc!Empty
  <2>1. /\ file' = [file EXCEPT !.is = "torn"] /\ proxy' = [proxy EXCEPT !.timer = "pending"]
        /\ scan' = [scan EXCEPT !.pc = IF @ = "write" THEN "fill" ELSE "last"]
        /\ keyed' = keyed /\ proven' = proven /\ scan.pc \in {"write", "endpoint"}
    BY <1>1 DEF Disc!Empty, Disc!Changed
  <2>2. /\ scan \in Scans /\ scan' \in Scans /\ scan'.pc # "test" /\ scan.pc # "test"
        /\ scan'.found = scan.found /\ scan'.todo = scan.todo
    BY <2>1, OffIsOff DEF DiscoveryInv, DiscoveryType, Scans
  <2>3. DiscoveryType' /\ file'.says = file.says /\ file'.is = "torn" /\ proxy'.alive = proxy.alive
    BY <2>1, <2>2 DEF DiscoveryInv, DiscoveryType
  <2>4. \A p \in Seeds : Right(p)' <=> Right(p)
    BY <2>1, <2>3 DEF Right
  <2> QED
    BY <2>2, <2>3, <2>4, OffIsOff DEF DiscoveryInv, Revived
<1>2. CASE Disc!Fill
  <2>1. /\ file' = [is |-> "whole", says |-> scan.found]
        /\ proxy' = [proxy EXCEPT !.timer = "pending"]
        /\ scan' = IF scan.pc = "last" THEN Disc!Off ELSE [scan EXCEPT !.pc = "endpoint"]
        /\ proven' = proven \intersect Disc!Alive(scan.found)
        /\ keyed' = keyed /\ scan.pc \in {"fill", "last"}
    BY <1>2 DEF Disc!Fill, Disc!Changed
  <2>2. /\ scan \in Scans /\ scan.todo = {}
        /\ \A p \in Seeds : scan.found[p].alive => Right(p)
    BY <2>1, OffIsOff DEF DiscoveryInv, DiscoveryType
  <2>3. scan' = Disc!Off \/ (/\ scan' \in Scans /\ scan'.pc = "endpoint"
                             /\ scan'.found = scan.found /\ scan'.todo = {})
    BY <2>1, <2>2 DEF Scans
  <2>4. DiscoveryType' /\ proxy'.alive = proxy.alive
    BY <2>1, <2>2, <2>3 DEF DiscoveryInv, DiscoveryType, Scans
  <2>5. \A p \in Seeds : scan.found[p].alive => Right(p)'
    BY <2>1, <2>2, <2>4 DEF Right, Disc!Alive
  <2> QED
    BY <2>1, <2>3, <2>4, <2>5 DEF DiscoveryInv, Revived
<1> QED
  BY <1>1, <1>2

LEMMA DiscoveryRest ==
  ASSUME DiscoveryInv, Disc!Crash \/ \E p \in Seeds : Disc!Age(p)
  PROVE  DiscoveryInv' /\ Revived
<1>1. CASE Disc!Crash
  <2>1. DiscoveryType' /\ scan' = Disc!Off
    BY <1>1 DEF Disc!Crash, DiscoveryInv, DiscoveryType
  <2>2. file' = file /\ proxy' = proxy /\ proven' = proven
    BY <1>1 DEF Disc!Crash
  <2> QED
    BY <2>1, <2>2 DEF DiscoveryInv, Right, Revived
<1>2. ASSUME NEW p \in Seeds, Disc!Age(p) PROVE DiscoveryInv' /\ Revived
  <2>1. /\ file' = [file EXCEPT !.says[p].tested = "due"] /\ scan' = scan
        /\ keyed' = keyed /\ proxy' = proxy /\ proven' = proven
        /\ scan = Disc!Off
    BY <1>2, OffIsOff DEF Disc!Age, DiscoveryInv, DiscoveryType, Scans
  <2>2. /\ file' \in [is : {"missing", "torn", "whole"}, says : Verdicts]
        /\ file'.is = file.is
        /\ \A q \in Seeds : file'.says[q].alive = file.says[q].alive
    BY <2>1 DEF DiscoveryInv, DiscoveryType, Verdicts
  <2>3. DiscoveryType'
    BY <2>1, <2>2 DEF DiscoveryInv, DiscoveryType
  <2> QED
    BY <2>1, <2>2, <2>3 DEF DiscoveryInv, Right, Revived
<1> QED
  BY <1>1, <1>2

LEMMA DiscoverySteps ==
  ASSUME DiscoveryInv, [Disc!Next]_(Disc!discoveryVars)
  PROVE  DiscoveryInv' /\ [Revived]_(Disc!discoveryVars)
<1>1. CASE UNCHANGED Disc!discoveryVars
  BY <1>1 DEF DiscoveryInv, DiscoveryType, Right, Disc!discoveryVars
<1>2. CASE Disc!Next
  BY <1>2, DiscoveryLoad, DiscoveryStart, DiscoveryTest, DiscoveryScanned,
     DiscoveryWrite, DiscoveryRest
  DEF Disc!Next
<1> QED
  BY <1>1, <1>2

(* Whatever writes, tears, loads or ages the file, and whenever the daemon   *)
(* or the proxy starts again: a provider that is dead to the proxy comes     *)
(* back by a probe.                                                          *)
THEOREM RevivedByProof == Disc!Spec => RevivedByProofOnly
<1>1. DiscoveryInv /\ [Disc!Next]_(Disc!discoveryVars)
        => DiscoveryInv' /\ [Revived]_(Disc!discoveryVars)
  BY DiscoverySteps
<1> QED
  BY <1>1, DiscoveryInitInv, PTL
  DEF Disc!Spec, RevivedByProofOnly, Disc!RevivedByProofOnly, Revived

-----------------------------------------------------------------------------
Once(seq) == \A i, j \in 1..Len(seq) : seq[i] = seq[j] => i = j

(* what Without does with one element *)
Leaving(X, S) ==
  [p \in Seq(X) \X X |-> IF p[2] \in S THEN p[1] ELSE Append(p[1], p[2])]

LEMMA WithoutIs ==
  ASSUME NEW X, NEW S, NEW seq \in Seq(X)
  PROVE  Without(seq, S) = Stepwise(Leaving(X, S), <<>>, seq)
<1> DEFINE n == Len(seq)
           iter(h) == [T \in SUBSET (1..n) |->
                         IF T = {} THEN <<>>
                         ELSE IF seq[Max(T)] \in S THEN h[T \ {Max(T)}]
                         ELSE Append(h[T \ {Max(T)}], seq[Max(T)])]
           it == CHOOSE h : h = iter(h)
<1>1. Leaving(X, S) \in [Seq(X) \X X -> Seq(X)] /\ <<>> \in Seq(X) /\ n \in Nat
  BY DEF Leaving
<1>2. PICK g \in Values(n, Seq(X)) : FoldsTo(g, Leaving(X, S), <<>>, seq)
  BY <1>1, StepwiseIs
<1>3. ASSUME NEW T \in SUBSET (1..n)
      PROVE  g[T] = IF T = {} THEN <<>>
                    ELSE IF seq[Max(T)] \in S THEN g[T \ {Max(T)}]
                    ELSE Append(g[T \ {Max(T)}], seq[Max(T)])
  <2>1. g[T] = IF T = {} THEN <<>> ELSE Leaving(X, S)[<<g[T \ {Max(T)}], seq[Max(T)]>>]
    BY <1>2 DEF FoldsTo
  <2>2. CASE T # {}
    <3>1. Max(T) \in 1..n
      BY <1>1, <2>2, MaxIn
    <3>2. g[T \ {Max(T)}] \in Seq(X) /\ seq[Max(T)] \in X
      <4>1. g \in [SUBSET (1..n) -> Seq(X)] /\ T \ {Max(T)} \in SUBSET (1..n)
        BY <1>2 DEF Values
      <4> QED
        BY <3>1, <4>1
    <3> QED
      BY <2>1, <2>2, <3>2 DEF Leaving
  <2> QED
    BY <2>1, <2>2
<1>4. g = iter(g)
  BY <1>2, <1>3 DEF Values
<1>5. it = iter(it)
  <2> HIDE DEF iter
  <2> QED
    BY <1>4
<1>6. \A T \in SUBSET (1..n) :
        it[T] = IF T = {} THEN <<>>
                ELSE IF seq[Max(T)] \in S THEN it[T \ {Max(T)}]
                ELSE Append(it[T \ {Max(T)}], seq[Max(T)])
  <2> HIDE DEF it
  <2> QED
    BY <1>5
<1>7. it[1..n] = g[1..n]
  <2> HIDE DEF it, n
  <2>1. it[{}] = g[{}]
    BY <1>3, <1>6
  <2>2. \A T \in SUBSET (1..n) :
          T # {} /\ it[T \ {Max(T)}] = g[T \ {Max(T)}] => it[T] = g[T]
    BY <1>3, <1>6
  <2> QED
    BY <1>1, <2>1, <2>2, FoldsAgree
<1>8. DOMAIN seq = 1..n
  OBVIOUS
<1>9. Without(seq, S) = it[1..n]
  BY <1>8 DEF Without, FoldLeft, MapThenFoldSet
<1> QED
  BY <1>2, <1>7, <1>9 DEF FoldsTo

LEMMA WithoutEmpty ==
  ASSUME NEW S
  PROVE  Without(<<>>, S) = <<>>
<1>1. Without(<<>>, S) = Stepwise(Leaving({}, S), <<>>, <<>>)
  <2>1. <<>> \in Seq({})
    OBVIOUS
  <2> QED
    BY <2>1, WithoutIs
<1>2. PICK V, step : V = Seq({}) /\ step = Leaving({}, S)
  OBVIOUS
<1>3. Stepwise(step, <<>>, <<>>) = <<>>
  <2>1. <<>> \in V /\ step \in [V \X {} -> V]
    BY <1>2 DEF Leaving
  <2> QED
    BY <2>1, StepwiseEmpty
<1> QED
  BY <1>1, <1>2, <1>3

LEMMA WithoutSteps ==
  ASSUME NEW X, NEW S, NEW seq \in Seq(X), NEW e \in X
  PROVE  /\ Without(seq, S) \in Seq(X)
         /\ Without(Append(seq, e), S) =
              IF e \in S THEN Without(seq, S) ELSE Append(Without(seq, S), e)
<1>1. Append(seq, e) \in Seq(X)
  OBVIOUS
<1>2. PICK V, step : V = Seq(X) /\ step = Leaving(X, S)
  OBVIOUS
<1>3. <<>> \in V /\ step \in [V \X X -> V]
  BY <1>2 DEF Leaving
<1>4. GoesOnWith(step, <<>>, V, seq, e)
  BY <1>3, StepwiseAppend
<1>5. Without(seq, S) = Stepwise(Leaving(X, S), <<>>, seq)
  BY WithoutIs
<1>6. Without(Append(seq, e), S) = Stepwise(Leaving(X, S), <<>>, Append(seq, e))
  BY <1>1, WithoutIs
<1> QED
  BY <1>2, <1>4, <1>5, <1>6 DEF Leaving, GoesOnWith

LEMMA ToSetAppend ==
  ASSUME NEW X, NEW seq \in Seq(X), NEW e \in X
  PROVE  /\ ToSet(Append(seq, e)) = ToSet(seq) \union {e}
         /\ Once(Append(seq, e)) <=> Once(seq) /\ e \notin ToSet(seq)
<1>1. /\ Append(seq, e) \in Seq(X) /\ Len(Append(seq, e)) = Len(seq) + 1
      /\ Append(seq, e)[Len(seq) + 1] = e
      /\ \A i \in 1..Len(seq) : Append(seq, e)[i] = seq[i]
      /\ \A i \in 1..(Len(seq) + 1) : i \in 1..Len(seq) \/ i = Len(seq) + 1
      /\ \A i \in 1..Len(seq) : i \in 1..(Len(seq) + 1) /\ i # Len(seq) + 1
      /\ Len(seq) + 1 \in 1..(Len(seq) + 1)
      /\ DOMAIN seq = 1..Len(seq) /\ DOMAIN Append(seq, e) = 1..(Len(seq) + 1)
  OBVIOUS
<1>2. ToSet(Append(seq, e)) = ToSet(seq) \union {e}
  BY <1>1 DEF ToSet
<1>3. Once(Append(seq, e)) => Once(seq) /\ e \notin ToSet(seq)
  BY <1>1 DEF ToSet, Once
<1>4. Once(seq) /\ e \notin ToSet(seq) => Once(Append(seq, e))
  BY <1>1 DEF ToSet, Once
<1> QED
  BY <1>2, <1>3, <1>4

LEMMA WithoutFacts ==
  ASSUME NEW X, NEW S, NEW seq \in Seq(X)
  PROVE  /\ Without(seq, S) \in Seq(X)
         /\ ToSet(Without(seq, S)) = ToSet(seq) \ S
         /\ Once(seq) => Once(Without(seq, S))
<1> DEFINE F == {s \in Seq(X) : /\ Without(s, S) \in Seq(X)
                                /\ ToSet(Without(s, S)) = ToSet(s) \ S
                                /\ Once(s) => Once(Without(s, S))}
<1>1. <<>> \in F
  <2>1. Without(<<>>, S) = <<>>
    BY WithoutEmpty
  <2>2. ToSet(<<>>) = {} /\ Once(<<>>) /\ <<>> \in Seq(X)
    BY DEF ToSet, Once
  <2> QED
    BY <2>1, <2>2
<1>2. ASSUME NEW s \in Seq(X), NEW e \in X, s \in F PROVE Append(s, e) \in F
  <2> DEFINE w == Without(s, S)
  <2>1. /\ Append(s, e) \in Seq(X) /\ w \in Seq(X)
        /\ Without(Append(s, e), S) = IF e \in S THEN w ELSE Append(w, e)
    <3>1. Append(s, e) \in Seq(X)
      OBVIOUS
    <3> QED
      BY <3>1, WithoutSteps
  <2>2. /\ ToSet(Append(s, e)) = ToSet(s) \union {e}
        /\ Once(Append(s, e)) <=> Once(s) /\ e \notin ToSet(s)
    BY ToSetAppend
  <2>3. /\ ToSet(Append(w, e)) = ToSet(w) \union {e}
        /\ Once(Append(w, e)) <=> Once(w) /\ e \notin ToSet(w)
    BY <2>1, ToSetAppend
  <2>4. ToSet(w) = ToSet(s) \ S /\ (Once(s) => Once(w)) /\ Append(w, e) \in Seq(X)
    BY <1>2, <2>1
  <2> HIDE DEF w
  <2>5. CASE e \in S
    BY <2>1, <2>2, <2>4, <2>5
  <2>6. CASE e \notin S
    BY <2>1, <2>2, <2>3, <2>4, <2>6
  <2> QED
    BY <2>5, <2>6
<1>3. Seq(X) \subseteq F
  <2> HIDE DEF F
  <2> QED
    BY <1>1, <1>2, SeqInduction
<1> QED
  BY <1>3

(* as many members as places *)
LEMMA OnceCounts ==
  ASSUME NEW X, NEW seq \in Seq(X), Once(seq)
  PROVE  IsFiniteSet(ToSet(seq)) /\ Cardinality(ToSet(seq)) = Len(seq)
<1> DEFINE F == {s \in Seq(X) : Once(s) => /\ IsFiniteSet(ToSet(s))
                                           /\ Cardinality(ToSet(s)) = Len(s)}
<1>1. <<>> \in F
  <2>1. ToSet(<<>>) = {} /\ Len(<<>>) = 0
    BY DEF ToSet
  <2>2. IsFiniteSet({}) /\ Cardinality({}) = 0
    BY FS_EmptySet
  <2>3. IsFiniteSet(ToSet(<<>>)) /\ Cardinality(ToSet(<<>>)) = Len(<<>>)
    BY <2>1, <2>2
  <2>4. <<>> \in Seq(X)
    OBVIOUS
  <2> QED
    BY <2>3, <2>4
<1>2. ASSUME NEW s \in Seq(X), NEW e \in X, s \in F PROVE Append(s, e) \in F
  <2>1. /\ ToSet(Append(s, e)) = ToSet(s) \union {e}
        /\ Once(Append(s, e)) <=> Once(s) /\ e \notin ToSet(s)
    BY ToSetAppend
  <2>2. Append(s, e) \in Seq(X) /\ Len(Append(s, e)) = Len(s) + 1
    OBVIOUS
  <2>3. ASSUME Once(s), e \notin ToSet(s)
        PROVE  /\ IsFiniteSet(ToSet(s) \union {e})
               /\ Cardinality(ToSet(s) \union {e}) = Len(s) + 1
    BY <1>2, <2>3, FS_AddElement
  <2> QED
    BY <2>1, <2>2, <2>3
<1>3. Seq(X) \subseteq F
  <2> HIDE DEF F
  <2> QED
    BY <1>1, <1>2, SeqInduction
<1> QED
  BY <1>3

Slots == 1..MaxKnown

Entry == [store : Stores \union {"none"}, key : Keys \union {"none"},
          bytes : Nat, old : BOOLEAN]

Caches == [entry : [Slots -> Entry], entries : [Stores -> Seq(Slots)],
           leases : Seq(Slots), bytes : Nat]

Placed(c) == UNION {ToSet(c.entries[s]) : s \in Stores}

(* the bytes are those of the entries with a lease, which have it once *)
Books(c) ==
  /\ c \in Caches
  /\ Once(c.leases)
  /\ c.bytes = BytesOf(c, ToSet(c.leases)) /\ c.bytes <= MaxBytes

RetentionInv ==
  /\ Books(cache)
  /\ ToSet(cache.leases) = Alive
  /\ held \subseteq Slots

LEMMA SlotsFinite == IsFiniteSet(Slots)
<1>1. 1 \in Int /\ MaxKnown \in Int
  BY RetentionAssumption
<1> QED
  BY <1>1, FS_Interval DEF Slots

LEMMA Members ==
  ASSUME NEW X, NEW seq \in Seq(X)
  PROVE  ToSet(seq) \subseteq X
BY DEF ToSet

LEMMA PlacedIn ==
  ASSUME NEW c \in Caches
  PROVE  /\ Placed(c) \subseteq Slots /\ ToSet(c.leases) \subseteq Slots
         /\ \A s \in Stores : ToSet(c.entries[s]) \subseteq Placed(c)
<1>1. c.leases \in Seq(Slots) /\ \A s \in Stores : c.entries[s] \in Seq(Slots)
  BY DEF Caches
<1>2. \A s \in Stores : ToSet(c.entries[s]) \subseteq Slots
  BY <1>1, Members
<1>3. ToSet(c.leases) \subseteq Slots
  BY <1>1, Members
<1> QED
  BY <1>2, <1>3 DEF Placed

LEMMA BytesFacts ==
  ASSUME NEW c \in Caches, NEW S \in SUBSET Slots
  PROVE  /\ BytesOf(c, S) \in Nat
         /\ \A P \in SUBSET S : BytesOf(c, S) = BytesOf(c, P) + BytesOf(c, S \ P)
<1> DEFINE f == [e \in Slots |-> c.entry[e].bytes]
<1>1. \A e \in S : f[e] \in Nat
  BY DEF Caches, Entry
<1>2. IsFiniteSet(S)
  BY SlotsFinite, FS_Subset
<1>3. \A T : BytesOf(c, T) = SumFunctionOnSet(f, T)
  BY DEF BytesOf, Slots
<1> HIDE DEF f
<1>4. SumFunctionOnSet(f, S) \in Nat
  BY <1>1, <1>2, SumType
<1>5. ASSUME NEW P \in SUBSET S
      PROVE  SumFunctionOnSet(f, S) = SumFunctionOnSet(f, P) + SumFunctionOnSet(f, S \ P)
  BY <1>1, <1>2, SumSplit
<1> QED
  BY <1>3, <1>4, <1>5

(* the bytes of some entries depend on these alone *)
LEMMA BytesSame ==
  ASSUME NEW c \in Caches, NEW d \in Caches, NEW S \in SUBSET Slots,
         \A e \in S : d.entry[e].bytes = c.entry[e].bytes
  PROVE  BytesOf(d, S) = BytesOf(c, S)
<1> DEFINE f == [e \in Slots |-> c.entry[e].bytes]
           g == [e \in Slots |-> d.entry[e].bytes]
<1>1. \A e \in S : f[e] = g[e]
  OBVIOUS
<1>2. IsFiniteSet(S)
  BY SlotsFinite, FS_Subset
<1>3. BytesOf(c, S) = SumFunctionOnSet(f, S) /\ BytesOf(d, S) = SumFunctionOnSet(g, S)
  BY DEF BytesOf, Slots
<1> HIDE DEF f, g
<1> QED
  BY <1>1, <1>2, <1>3, SumSame

LEMMA BytesAdded ==
  ASSUME NEW c \in Caches, NEW S \in SUBSET Slots, NEW e \in Slots, e \notin S
  PROVE  BytesOf(c, S \union {e}) = BytesOf(c, S) + c.entry[e].bytes
<1> DEFINE f == [x \in Slots |-> c.entry[x].bytes]
<1>1. \A x \in S \union {e} : f[x] \in Nat
  BY DEF Caches, Entry
<1>2. IsFiniteSet(S)
  BY SlotsFinite, FS_Subset
<1>3. \A T : BytesOf(c, T) = SumFunctionOnSet(f, T)
  BY DEF BytesOf, Slots
<1>4. f[e] = c.entry[e].bytes
  OBVIOUS
<1>6. BytesOf(c, S) \in Nat /\ f[e] \in Nat
  BY <1>1, BytesFacts
<1> HIDE DEF f
<1>5. SumFunctionOnSet(f, S \union {e}) = f[e] + SumFunctionOnSet(f, S)
  BY <1>1, <1>2, SumAdd
<1> QED
  BY <1>3, <1>4, <1>5, <1>6

(* a cache with some entries forgotten, or changed otherwise, that have no lease *)
LEMMA BooksSame ==
  ASSUME NEW c, Books(c), NEW d \in Caches,
         d.leases = c.leases, d.bytes = c.bytes,
         \A e \in ToSet(c.leases) : d.entry[e].bytes = c.entry[e].bytes
  PROVE  Books(d)
<1>1. ToSet(c.leases) \in SUBSET Slots
  BY PlacedIn DEF Books
<1>2. BytesOf(d, ToSet(c.leases)) = BytesOf(c, ToSet(c.leases))
  BY <1>1, BytesSame DEF Books
<1> QED
  BY <1>2 DEF Books

LEMMA Unleased ==
  ASSUME NEW c, Books(c), NEW S \in SUBSET Slots, NEW d \in Caches,
         d.leases = Without(c.leases, S),
         d.bytes = c.bytes - BytesOf(c, S \intersect ToSet(c.leases)),
         \A e \in Slots \ S : d.entry[e] = c.entry[e]
  PROVE  Books(d) /\ ToSet(d.leases) = ToSet(c.leases) \ S
<1> DEFINE L == ToSet(c.leases)
<1>1. /\ ToSet(d.leases) = L \ S /\ Once(d.leases)
      /\ c \in Caches /\ L \in SUBSET Slots
  <2>1. c \in Caches /\ c.leases \in Seq(Slots) /\ Once(c.leases)
    BY DEF Books, Caches
  <2> QED
    BY <2>1, WithoutFacts, PlacedIn
<1>2. L \ S \in SUBSET Slots /\ S \intersect L \in SUBSET L /\ L \ (S \intersect L) = L \ S
  BY <1>1
<1>3. /\ BytesOf(c, L) = BytesOf(c, S \intersect L) + BytesOf(c, L \ S)
      /\ BytesOf(c, L) \in Nat /\ BytesOf(c, L \ S) \in Nat
      /\ BytesOf(c, S \intersect L) \in Nat
  BY <1>1, <1>2, BytesFacts
<1>4. BytesOf(d, L \ S) = BytesOf(c, L \ S)
  BY <1>1, <1>2, BytesSame
<1>5. c.bytes = BytesOf(c, L) /\ c.bytes <= MaxBytes
  BY DEF Books
<1>6. d.bytes = BytesOf(d, L \ S) /\ d.bytes <= MaxBytes
  <2> HIDE DEF L
  <2> QED
    BY <1>3, <1>4, <1>5, RetentionAssumption DEF L
<1> QED
  BY <1>1, <1>6 DEF Books

(* what can be taken off the bytes *)
LEMMA Lessened ==
  ASSUME NEW c, Books(c), NEW S
  PROVE  /\ BytesOf(c, S \intersect ToSet(c.leases)) \in Nat
         /\ c.bytes - BytesOf(c, S \intersect ToSet(c.leases)) \in Nat
<1>1. ToSet(c.leases) \in SUBSET Slots /\ c \in Caches
  BY PlacedIn DEF Books
<1>2. S \intersect ToSet(c.leases) \in SUBSET ToSet(c.leases)
  OBVIOUS
<1>3. /\ BytesOf(c, S \intersect ToSet(c.leases)) \in Nat
      /\ BytesOf(c, ToSet(c.leases) \ (S \intersect ToSet(c.leases))) \in Nat
      /\ BytesOf(c, ToSet(c.leases)) =
           BytesOf(c, S \intersect ToSet(c.leases))
             + BytesOf(c, ToSet(c.leases) \ (S \intersect ToSet(c.leases)))
  BY <1>1, <1>2, BytesFacts
<1> QED
  BY <1>3 DEF Books

LEMMA DroppedFacts ==
  ASSUME NEW c, Books(c), NEW S \in SUBSET Slots, NEW d, d = Dropped(c, S)
  PROVE  /\ Books(d)
         /\ ToSet(d.leases) = ToSet(c.leases) \ S
         /\ Placed(d) = Placed(c) \ S
         /\ d.bytes = c.bytes - BytesOf(c, S \intersect ToSet(c.leases))
<1>1. /\ c \in Caches
      /\ c.leases \in Seq(Slots) /\ Once(c.leases)
      /\ \A s \in Stores : c.entries[s] \in Seq(Slots)
  BY DEF Books, Caches
<1>2. /\ d.entries = [s \in Stores |-> Without(c.entries[s], S)]
      /\ d.leases = Without(c.leases, S)
      /\ d.bytes = c.bytes - BytesOf(c, S \intersect ToSet(c.leases))
      /\ d.entry = [e \in Slots |-> IF e \in S \ held THEN NoEntry ELSE c.entry[e]]
      /\ d = [entry |-> d.entry, entries |-> d.entries, leases |-> d.leases,
              bytes |-> d.bytes]
  BY <1>1 DEF Dropped, Forgotten, Slots, Caches
<1>3. d \in Caches
  <2>1. d.leases \in Seq(Slots)
    BY <1>1, <1>2, WithoutFacts
  <2>2. \A s \in Stores : Without(c.entries[s], S) \in Seq(Slots)
    BY <1>1, WithoutFacts
  <2>3. d.bytes \in Nat
    BY <1>2, Lessened
  <2>4. d.entry \in [Slots -> Entry]
    BY <1>1, <1>2 DEF NoEntry, Entry, Caches
  <2>5. d.entries \in [Stores -> Seq(Slots)]
    BY <1>2, <2>2
  <2> QED
    BY <1>2, <2>1, <2>3, <2>4, <2>5 DEF Caches
<1>4. \A e \in Slots \ S : d.entry[e] = c.entry[e]
  BY <1>2
<1>5. Books(d) /\ ToSet(d.leases) = ToSet(c.leases) \ S
  <2>1. /\ d.leases = Without(c.leases, S)
        /\ d.bytes = c.bytes - BytesOf(c, S \intersect ToSet(c.leases))
    BY <1>2
  <2> QED
    BY <1>3, <1>4, <2>1, Unleased
<1>6. Placed(d) = Placed(c) \ S
  <2>1. \A s \in Stores : ToSet(Without(c.entries[s], S)) = ToSet(c.entries[s]) \ S
    BY <1>1, WithoutFacts
  <2> QED
    BY <1>2, <2>1 DEF Placed
<1> QED
  BY <1>2, <1>4, <1>5, <1>6

LEMMA ReservedFacts ==
  ASSUME NEW c, Books(c), NEW e \in Slots, e \in Placed(c),
         ToSet(c.leases) \union {e} = Placed(c),
         NEW amount \in Nat, NEW d, d = Reserved(c, e, amount)
  PROVE  Books(d) /\ ToSet(d.leases) = Placed(d)
<1> DEFINE freed == [c EXCEPT !.leases = Without(@, {e}),
                              !.bytes = @ - BytesOf(c, {e} \intersect ToSet(c.leases))]
           first(m) == ToSet(SubSeq(freed.leases, 1, m))
           room(m)  == freed.bytes - BytesOf(freed, first(m)) + amount <= MaxBytes
           N == {m \in 0..Len(freed.leases) : room(m)}
           n == Min(N)
           S == first(n)
           g == Dropped(freed, S)
<1>1. d = IF amount > MaxBytes THEN Dropped(freed, {e})
          ELSE [g EXCEPT !.entry[e].bytes = amount, !.leases = Append(@, e),
                         !.bytes = @ + amount]
  BY DEF Reserved
<1>2. /\ freed.entry = c.entry /\ freed.entries = c.entries
      /\ freed.leases = Without(c.leases, {e})
      /\ freed.bytes = c.bytes - BytesOf(c, {e} \intersect ToSet(c.leases))
      /\ freed \in Caches
  <2>1. c \in Caches /\ c.leases \in Seq(Slots)
    BY DEF Books, Caches
  <2>2. Without(c.leases, {e}) \in Seq(Slots)
    BY <2>1, WithoutFacts
  <2>3. c.bytes - BytesOf(c, {e} \intersect ToSet(c.leases)) \in Nat
    BY Lessened
  <2> QED
    BY <2>1, <2>2, <2>3 DEF Caches
<1> HIDE DEF freed
<1>3. Books(freed) /\ ToSet(freed.leases) = ToSet(c.leases) \ {e}
  <2>1. PICK T : T = {e}
    OBVIOUS
  <2>2. T \in SUBSET Slots /\ \A x \in Slots \ T : freed.entry[x] = c.entry[x]
    BY <1>2, <2>1
  <2>3. /\ freed.leases = Without(c.leases, T)
        /\ freed.bytes = c.bytes - BytesOf(c, T \intersect ToSet(c.leases))
    BY <1>2, <2>1
  <2>4. Books(freed) /\ ToSet(freed.leases) = ToSet(c.leases) \ T
    BY <1>2, <2>2, <2>3, Unleased
  <2> QED
    BY <2>1, <2>4
<1>4. Placed(freed) = Placed(c)
  BY <1>2 DEF Placed
<1>5. CASE amount > MaxBytes
  <2>1. PICK T : T = {e}
    OBVIOUS
  <2>2. T \in SUBSET Slots /\ d = Dropped(freed, T) /\ Books(freed)
    BY <1>1, <1>3, <1>5, <2>1
  <2>3. /\ Books(d) /\ ToSet(d.leases) = ToSet(freed.leases) \ T
        /\ Placed(d) = Placed(freed) \ T
    <3> HIDE DEF first, room, N, n, S, g
    <3>1. T \in SUBSET Slots
      BY <2>2
    <3>2. d = Dropped(freed, T) /\ Books(freed)
      BY <2>2
    <3> QED
      BY <3>1, <3>2, DroppedFacts, ZenonT(20)
  <2>4. ToSet(d.leases) = ToSet(c.leases) \ {e}
    BY <1>3, <2>1, <2>3
  <2>5. Placed(d) = Placed(c) \ {e}
    BY <1>4, <2>1, <2>3
  <2>6. ToSet(c.leases) \ {e} = Placed(c) \ {e}
    OBVIOUS
  <2> QED
    BY <2>3, <2>4, <2>5, <2>6
<1>6. CASE ~(amount > MaxBytes)
  <2>1. /\ freed.leases \in Seq(Slots) /\ freed.bytes \in Nat /\ Len(freed.leases) \in Nat
        /\ freed.bytes = BytesOf(freed, ToSet(freed.leases))
    BY <1>3 DEF Books, Caches
  <2>2. N # {} /\ N \subseteq Nat
    <3>1. first(Len(freed.leases)) = ToSet(freed.leases)
      <4>1. SubSeq(freed.leases, 1, Len(freed.leases)) = freed.leases
        BY <2>1
      <4> QED
        BY <4>1
    <3>2. room(Len(freed.leases))
      BY <1>6, <2>1, <3>1, RetentionAssumption
    <3> HIDE DEF room
    <3> QED
      BY <2>1, <3>2
  <2>3. n \in N
    <3> HIDE DEF N
    <3> QED
      BY <2>2, MinIn
  <2>4. n \in 0..Len(freed.leases) /\ room(n)
    BY <2>3
  <2>5. S \subseteq ToSet(freed.leases) /\ S \subseteq Slots
    <3> HIDE DEF n
    <3>1. \A m \in 1..n : m \in 1..Len(freed.leases)
      BY <2>1, <2>4
    <3>2. /\ SubSeq(freed.leases, 1, n) \in Seq(Slots)
          /\ Len(SubSeq(freed.leases, 1, n)) = n
          /\ \A m \in 1..n : SubSeq(freed.leases, 1, n)[m] = freed.leases[m]
      BY <2>1, <2>4, <3>1
    <3> QED
      BY <2>1, <3>1, <3>2, Members DEF ToSet
  <2> HIDE DEF n, N, S
  <2>6. room(n) <=> freed.bytes - BytesOf(freed, S) + amount <= MaxBytes
    BY DEF S
  <2>7. S \intersect ToSet(freed.leases) = S
    BY <2>5
  <2>8. /\ Books(g)
        /\ ToSet(g.leases) = ToSet(freed.leases) \ S
        /\ Placed(g) = Placed(freed) \ S
        /\ g.bytes = freed.bytes - BytesOf(freed, S)
    BY <1>3, <2>5, <2>7, DroppedFacts
  <2> HIDE DEF g
  <2>9. /\ g \in Caches /\ Once(g.leases) /\ g.leases \in Seq(Slots) /\ g.bytes \in Nat
        /\ g.bytes = BytesOf(g, ToSet(g.leases)) /\ ToSet(g.leases) \in SUBSET Slots
    BY <2>8, PlacedIn DEF Books, Caches
  <2>10. /\ d.entry = [g.entry EXCEPT ![e].bytes = amount]
         /\ d.entries = g.entries /\ d.leases = Append(g.leases, e)
         /\ d.bytes = g.bytes + amount
         /\ d = [entry |-> d.entry, entries |-> d.entries, leases |-> d.leases,
                 bytes |-> d.bytes]
    BY <1>1, <1>6, <2>9 DEF Caches
  <2>11. d \in Caches /\ d.entry[e].bytes = amount
    <3>1. d.entry \in [Slots -> Entry] /\ d.entry[e].bytes = amount
      <4>1. g.entry \in [Slots -> Entry]
        BY <2>9 DEF Caches
      <4>2. [g.entry[e] EXCEPT !.bytes = amount] \in Entry
        BY <4>1 DEF Entry
      <4>3. g.entry[e] \in Entry
        BY <4>1
      <4>4. [g.entry[e] EXCEPT !.bytes = amount].bytes = amount
        BY <4>3 DEF Entry
      <4>5. d.entry = [g.entry EXCEPT ![e] = [g.entry[e] EXCEPT !.bytes = amount]]
        BY <2>10
      <4> QED
        BY <4>1, <4>2, <4>4, <4>5
    <3>2. d.leases \in Seq(Slots) /\ d.bytes \in Nat /\ d.entries \in [Stores -> Seq(Slots)]
      BY <2>9, <2>10 DEF Caches
    <3> QED
      BY <2>10, <3>1, <3>2 DEF Caches
  <2>12. e \notin ToSet(g.leases)
    BY <1>3, <2>8
  <2>13. ToSet(d.leases) = ToSet(g.leases) \union {e} /\ Once(d.leases)
    BY <2>9, <2>10, <2>12, ToSetAppend
  <2>14. BytesOf(d, ToSet(g.leases)) = BytesOf(g, ToSet(g.leases))
    <3>1. \A x \in ToSet(g.leases) : d.entry[x].bytes = g.entry[x].bytes
      BY <2>9, <2>10, <2>12 DEF Caches
    <3> QED
      BY <2>9, <2>11, <3>1, BytesSame
  <2>15. BytesOf(d, ToSet(d.leases)) = BytesOf(d, ToSet(g.leases)) + amount
    BY <2>9, <2>11, <2>12, <2>13, BytesAdded
  <2>16. Books(d)
    <3>1. d.bytes = BytesOf(d, ToSet(d.leases))
      BY <2>9, <2>10, <2>14, <2>15
    <3>2. d.bytes <= MaxBytes
      BY <2>4, <2>6, <2>8, <2>10
    <3> QED
      BY <2>11, <2>13, <3>1, <3>2 DEF Books
  <2>17. Placed(d) = Placed(c) \ S
    <3>1. Placed(d) = Placed(g)
      BY <2>10 DEF Placed
    <3> QED
      BY <1>4, <2>8, <3>1
  <2> QED
    BY <1>3, <2>5, <2>8, <2>13, <2>16, <2>17
<1> QED
  BY <1>5, <1>6

LEMMA DroppedExact ==
  ASSUME NEW c, Books(c), ToSet(c.leases) = Placed(c), NEW S \in SUBSET Slots,
         NEW d, d = Dropped(c, S)
  PROVE  Books(d) /\ ToSet(d.leases) = Placed(d)
<1>1. /\ Books(d) /\ ToSet(d.leases) = ToSet(c.leases) \ S
      /\ Placed(d) = Placed(c) \ S
  BY DroppedFacts
<1> QED
  BY <1>1

LEMMA AliveIsPlaced == Alive = Placed(cache)
BY DEF Alive, Placed

LEMMA AtFacts ==
  ASSUME RetentionInv, NEW s \in Stores, NEW k
  PROVE  At(s, k) \in SUBSET Alive /\ At(s, k) \in SUBSET Slots
<1>1. cache \in Caches
  BY DEF RetentionInv, Books
<1> QED
  BY <1>1, PlacedIn, AliveIsPlaced DEF At

LEMMA RetentionHolds ==
  ASSUME Books(cache'), ToSet(cache'.leases) = Placed(cache'), held' \subseteq Slots
  PROVE  RetentionInv'
BY DEF RetentionInv, Alive, Placed

LEMMA RetentionDrops ==
  ASSUME RetentionInv, NEW S \in SUBSET Slots, cache' = Dropped(cache, S), UNCHANGED held
  PROVE  RetentionInv'
<1>1. ToSet(cache.leases) = Placed(cache) /\ Books(cache)
  BY AliveIsPlaced DEF RetentionInv
<1>2. Books(cache') /\ ToSet(cache'.leases) = Placed(cache')
  BY <1>1, DroppedExact
<1> QED
  BY <1>2, RetentionHolds DEF RetentionInv

LEMMA RetentionSets ==
  ASSUME RetentionInv, NEW s \in Stores, NEW k \in Keys, NEW amount \in Sizes,
         set(s, k, amount)
  PROVE  RetentionInv'
<1>0. amount \in Nat
  BY RetentionAssumption
<1>1. CASE amount > MaxBytes
  BY <1>1, AtFacts, RetentionDrops DEF set
<1>2. CASE ~(amount > MaxBytes)
  <2>1. PICK e \in Slots :
          /\ e \notin Alive \union held
          /\ LET added == [Dropped(cache, At(s, k)) EXCEPT
                             !.entries[s] = Append(@, e),
                             !.entry[e] = [store |-> s, key |-> k, bytes |-> 0, old |-> FALSE]]
                 roomy == Reserved(added, e, amount) IN
             cache' = IF Len(roomy.entries[s]) > MaxEntries
                      THEN Dropped(roomy, {Head(roomy.entries[s])}) ELSE roomy
          /\ UNCHANGED held
    BY <1>2 DEF set, Slots
  <2> DEFINE fresh == [store |-> s, key |-> k, bytes |-> 0, old |-> FALSE]
             c == Dropped(cache, At(s, k))
             added == [c EXCEPT !.entries[s] = Append(@, e), !.entry[e] = fresh]
             roomy == Reserved(added, e, amount)
  <2>2. cache' = IF Len(roomy.entries[s]) > MaxEntries
                 THEN Dropped(roomy, {Head(roomy.entries[s])}) ELSE roomy
    BY <2>1
  <2>3. /\ Books(c) /\ ToSet(c.leases) = Placed(c)
        /\ Placed(c) = Placed(cache) \ At(s, k)
    <3>1. Books(cache) /\ At(s, k) \in SUBSET Slots
      BY AtFacts DEF RetentionInv
    <3>2. /\ Books(c) /\ ToSet(c.leases) = ToSet(cache.leases) \ At(s, k)
          /\ Placed(c) = Placed(cache) \ At(s, k)
      BY <3>1, DroppedFacts
    <3> QED
      BY <3>2, AliveIsPlaced DEF RetentionInv
  <2> HIDE DEF c
  <2>4. e \notin Placed(c)
    BY <2>1, <2>3, AliveIsPlaced
  <2>5. /\ c \in Caches /\ c.entry \in [Slots -> Entry] /\ c.leases \in Seq(Slots)
        /\ c.entries \in [Stores -> Seq(Slots)] /\ c.bytes \in Nat
    BY <2>3 DEF Books, Caches
  <2>6. /\ added.entries = [c.entries EXCEPT ![s] = Append(@, e)]
        /\ added.entry = [c.entry EXCEPT ![e] = fresh]
        /\ added.leases = c.leases /\ added.bytes = c.bytes
    BY <2>5 DEF Caches
  <2>7. added \in Caches
    <3>1. fresh \in Entry
      BY DEF Entry
    <3>2. Append(c.entries[s], e) \in Seq(Slots)
      BY <2>5
    <3> HIDE DEF fresh
    <3> QED
      BY <2>5, <3>1, <3>2 DEF Caches
  <2> HIDE DEF added
  <2>8. Books(added)
    <3>1. \A x \in ToSet(c.leases) : added.entry[x].bytes = c.entry[x].bytes
      BY <2>3, <2>4, <2>5, <2>6
    <3> QED
      BY <2>3, <2>6, <2>7, <3>1, BooksSame
  <2>9. Placed(added) = Placed(c) \union {e}
    <3>1. ToSet(Append(c.entries[s], e)) = ToSet(c.entries[s]) \union {e}
      BY <2>5, ToSetAppend
    <3>2. \A t \in Stores : added.entries[t] =
                              IF t = s THEN Append(c.entries[s], e) ELSE c.entries[t]
      BY <2>5, <2>6
    <3>3. \A t \in Stores : ToSet(added.entries[t]) =
                              IF t = s THEN ToSet(c.entries[s]) \union {e} ELSE ToSet(c.entries[t])
      BY <3>1, <3>2
    <3> QED
      BY <3>3 DEF Placed
  <2>10. Books(roomy) /\ ToSet(roomy.leases) = Placed(roomy)
    <3>1. e \in Placed(added) /\ ToSet(added.leases) \union {e} = Placed(added)
      BY <2>3, <2>6, <2>9
    <3> QED
      BY <1>0, <2>8, <3>1, ReservedFacts
  <2> HIDE DEF roomy
  <2>11. Books(cache') /\ ToSet(cache'.leases) = Placed(cache')
    <3>1. CASE Len(roomy.entries[s]) > MaxEntries
      <4>1. roomy.entries[s] \in Seq(Slots) /\ Len(roomy.entries[s]) > 0
        BY <2>10, <3>1, RetentionAssumption DEF Books, Caches
      <4>2. {Head(roomy.entries[s])} \in SUBSET Slots
        BY <4>1
      <4> QED
        BY <2>2, <2>10, <3>1, <4>2, DroppedExact
    <3>2. CASE ~(Len(roomy.entries[s]) > MaxEntries)
      BY <2>2, <2>10, <3>2
    <3> QED
      BY <3>1, <3>2
  <2>12. held' \subseteq Slots
    BY <2>1 DEF RetentionInv
  <2> QED
    BY <2>11, <2>12, RetentionHolds
<1> QED
  BY <1>1, <1>2

LEMMA RetentionGets ==
  ASSUME RetentionInv, NEW s \in Stores, NEW k \in Keys, get(s, k)
  PROVE  RetentionInv'
<1>1. PICK e \in At(s, k) :
        IF cache.entry[e].old THEN cache' = Dropped(cache, {e}) /\ UNCHANGED held
        ELSE held' = held \union {e} /\ UNCHANGED cache
  BY DEF get
<1>2. e \in Slots /\ {e} \in SUBSET Slots
  BY AtFacts
<1>3. CASE cache.entry[e].old
  BY <1>1, <1>2, <1>3, RetentionDrops
<1>4. CASE ~cache.entry[e].old
  BY <1>1, <1>2, <1>4 DEF RetentionInv, Alive
<1> QED
  BY <1>3, <1>4

LEMMA RetentionWrites ==
  ASSUME RetentionInv, NEW e \in Slots, NEW amount \in Sizes, Write(e, amount)
  PROVE  RetentionInv'
<1>1. cache' = Accounted(e, amount) /\ UNCHANGED held /\ amount \in Nat
  BY RetentionAssumption DEF Write
<1>2. CASE e \in Alive
  <2>1. /\ Books(cache) /\ e \in Placed(cache)
        /\ ToSet(cache.leases) \union {e} = Placed(cache)
        /\ cache' = Reserved(cache, e, amount)
    BY <1>1, <1>2, AliveIsPlaced DEF RetentionInv, Accounted
  <2>2. Books(cache') /\ ToSet(cache'.leases) = Placed(cache')
    BY <1>1, <2>1, ReservedFacts
  <2> QED
    BY <1>1, <2>2, RetentionHolds DEF RetentionInv
<1>3. CASE e \notin Alive
  BY <1>1, <1>3 DEF Accounted, RetentionInv, Alive
<1> QED
  BY <1>2, <1>3

LEMMA RetentionAges ==
  ASSUME RetentionInv, NEW e \in Slots, Age(e) \/ LetGo(e)
  PROVE  RetentionInv'
<1>1. /\ Books(cache) /\ cache \in Caches /\ cache.entry \in [Slots -> Entry]
      /\ ToSet(cache.leases) = Alive
  BY DEF RetentionInv, Books, Caches
<1>2. /\ cache' \in Caches
      /\ cache'.leases = cache.leases /\ cache'.bytes = cache.bytes
      /\ cache'.entries = cache.entries
      /\ \A x \in ToSet(cache.leases) : cache'.entry[x].bytes = cache.entry[x].bytes
  <2>1. CASE Age(e)
    <3>1. /\ cache'.entry = [cache.entry EXCEPT ![e].old = TRUE]
          /\ cache'.leases = cache.leases /\ cache'.bytes = cache.bytes
          /\ cache'.entries = cache.entries
          /\ cache' = [cache EXCEPT !.entry = cache'.entry]
      BY <1>1, <2>1 DEF Age, Caches
    <3>2. /\ cache'.entry \in [Slots -> Entry]
          /\ \A x \in Slots : cache'.entry[x].bytes = cache.entry[x].bytes
      <4>1. /\ [cache.entry[e] EXCEPT !.old = TRUE] \in Entry
            /\ [cache.entry[e] EXCEPT !.old = TRUE].bytes = cache.entry[e].bytes
        <5>1. cache.entry[e] \in Entry
          BY <1>1
        <5> QED
          BY <5>1 DEF Entry
      <4>2. cache'.entry = [cache.entry EXCEPT ![e] = [cache.entry[e] EXCEPT !.old = TRUE]]
        BY <3>1
      <4> QED
        BY <1>1, <4>1, <4>2
    <3> QED
      BY <1>1, <3>1, <3>2, PlacedIn DEF Caches
  <2>2. CASE LetGo(e)
    <3>1. /\ cache'.entry = [x \in Slots |-> IF x \in {e} \ Alive THEN NoEntry
                                             ELSE cache.entry[x]]
          /\ cache'.leases = cache.leases /\ cache'.bytes = cache.bytes
          /\ cache'.entries = cache.entries
          /\ cache' = [cache EXCEPT !.entry = cache'.entry]
      BY <1>1, <2>2 DEF LetGo, Forgotten, Slots, Caches
    <3>2. /\ cache'.entry \in [Slots -> Entry]
          /\ \A x \in Alive \intersect Slots : cache'.entry[x].bytes = cache.entry[x].bytes
      BY <1>1, <3>1 DEF Entry, NoEntry
    <3> QED
      BY <1>1, <3>1, <3>2, PlacedIn DEF Caches
  <2> QED
    BY <2>1, <2>2
<1>3. Books(cache')
  BY <1>1, <1>2, BooksSame
<1>4. held' \subseteq Slots
  BY DEF Age, LetGo, RetentionInv
<1>5. ToSet(cache'.leases) = Placed(cache')
  BY <1>1, <1>2, AliveIsPlaced DEF Placed
<1> QED
  BY <1>3, <1>4, <1>5, RetentionHolds

LEMMA RetentionStep ==
  ASSUME RetentionInv, [RetentionNext]_retentionVars
  PROVE  RetentionInv'
<1>1. ASSUME NEW s \in Stores, NEW k \in Keys, delete(s, k) PROVE RetentionInv'
  BY <1>1, AtFacts, RetentionDrops DEF delete
<1>2. ASSUME NEW s \in Stores, clearExpired(s) PROVE RetentionInv'
  <2> DEFINE S == {e \in ToSet(cache.entries[s]) : cache.entry[e].old}
  <2>1. S \in SUBSET Slots
    BY PlacedIn DEF RetentionInv, Books
  <2>2. cache' = Dropped(cache, S) /\ UNCHANGED held
    BY <1>2 DEF clearExpired
  <2> QED
    BY <2>1, <2>2, RetentionDrops
<1>3. CASE UNCHANGED retentionVars
  BY <1>3 DEF retentionVars, RetentionInv, Alive, Books
<1>4. CASE RetentionNext
  BY <1>1, <1>2, <1>4, RetentionSets, RetentionGets, RetentionWrites, RetentionAges
  DEF RetentionNext, Slots
<1> QED
  BY <1>3, <1>4

LEMMA RetentionInitInv == RetentionInit => RetentionInv
<1> SUFFICES ASSUME RetentionInit PROVE RetentionInv
  OBVIOUS
<1>1. /\ cache.entry = [e \in Slots |-> NoEntry]
      /\ cache.entries = [s \in Stores |-> <<>>]
      /\ cache.leases = <<>> /\ cache.bytes = 0 /\ held = {}
      /\ cache = [entry |-> cache.entry, entries |-> cache.entries,
                  leases |-> cache.leases, bytes |-> cache.bytes]
  BY DEF RetentionInit, Slots
<1>2. cache \in Caches
  <2>1. cache.entry \in [Slots -> Entry]
    BY <1>1 DEF Entry, NoEntry
  <2>2. cache.entries \in [Stores -> Seq(Slots)] /\ cache.leases \in Seq(Slots)
        /\ cache.bytes \in Nat
    BY <1>1
  <2> QED
    BY <1>1, <2>1, <2>2 DEF Caches
<1>3. ToSet(<<>>) = {} /\ Once(<<>>)
  BY DEF ToSet, Once
<1>4. BytesOf(cache, {}) = 0
  BY SumEmpty DEF BytesOf
<1>5. Alive = {}
  BY <1>1, <1>3 DEF Alive
<1> QED
  <2>1. Once(cache.leases) /\ ToSet(cache.leases) = {} /\ held \subseteq Slots
    BY <1>1, <1>3
  <2>2. cache.bytes = 0 /\ 0 <= MaxBytes
    BY <1>1, RetentionAssumption
  <2> QED
    BY <1>2, <1>4, <1>5, <2>1, <2>2 DEF RetentionInv, Books

(* For any stores, keys, sizes and limits: whatever is set, written through a *)
(* held value, evicted, expired or deleted, the accounted bytes are those of  *)
(* what the stores hold, each entry counted once, and within the limit.       *)
THEOREM BytesAreExact == RetentionSpec => []BytesExact
<1>1. RetentionInv => BytesExact
  <2> SUFFICES ASSUME RetentionInv PROVE BytesExact
    OBVIOUS
  <2>1. cache.leases \in Seq(Slots) /\ Once(cache.leases)
    BY DEF RetentionInv, Books, Caches
  <2>2. Cardinality(ToSet(cache.leases)) = Len(cache.leases)
    BY <2>1, OnceCounts
  <2> QED
    BY <2>2 DEF RetentionInv, Books, BytesExact
<1> QED
  BY <1>1, RetentionInitInv, RetentionStep, PTL DEF RetentionSpec

-----------------------------------------------------------------------------
(* The writer lock: types                                                    *)

LEMMA InitType == LockInit => LockTypeOK
<1> SUFFICES ASSUME LockInit PROVE LockTypeOK
  OBVIOUS
<1>1. outrun \in BOOLEAN
  BY DEF LockInit
<1>2. lock \in LockType /\ data \in [Processes -> Nat] /\ namespaceOf \in Spaces
  BY DEF LockInit, LockType, Absent, Nothing
<1>3. proc \in [Processes -> ProcType]
  BY LockAssumption DEF LockInit, ProcType, ProcFields, Nothing, Steps, Opening
<1> QED
  BY <1>1, <1>2, <1>3 DEF LockTypeOK

LEMMA LeaveType ==
  ASSUME LockTypeOK, NEW p \in Processes, NEW pc \in Over, Leave(p, pc)
  PROVE  proc' \in [Processes -> ProcType]
<1> DEFINE left == [proc[p] EXCEPT !.pc = pc, !.ino = None, !.seenIno = None,
                      !.seenFresh = FALSE, !.seenOwner = None, !.old = Nothing]
<1>1. proc[p] \in ProcFields
  BY DEF LockTypeOK, ProcType
<1>2. pc \in Steps /\ pc \notin {"got", "asserted"}
  BY DEF Steps, Over
<1>3. Nothing \in [Processes -> Nat]
  BY DEF Nothing
<1>4. left \in ProcFields
  BY <1>1, <1>2, <1>3 DEF ProcFields
<1>5. left.pc = pc
  BY <1>1 DEF ProcFields
<1>6. left \in ProcType
  BY <1>2, <1>4, <1>5, Zenon DEF ProcType
<1> QED
  BY <1>6 DEF LockTypeOK, Leave

LEMMA GotoType ==
  ASSUME LockTypeOK, NEW p \in Processes,
         NEW pc \in Steps \ {"got", "asserted"}, Goto(p, pc)
  PROVE  proc' \in [Processes -> ProcType]
<1>1. [proc[p] EXCEPT !.pc = pc] \in ProcType
  BY DEF LockTypeOK, ProcType, ProcFields
<1> QED
  BY <1>1 DEF LockTypeOK, Goto

LEMMA PcTypes ==
  /\ {"stat", "read", "judge", "recheck", "unlink", "create", "write",
      "idle", "got", "asserted", "closing"} \subseteq Steps
  /\ {"refused", "failed", "closed", "dead"} \subseteq Over
BY DEF Steps, Opening, Working, Over

LEMMA OpenType ==
  ASSUME LockTypeOK, NEW p \in Processes, Open(p), UNCHANGED namespaceOf,
         outrun' \in BOOLEAN
  PROVE  LockTypeOK'
<1>1. CASE Exists(p)
  <2>1. \E pc \in Steps \ {"got", "asserted"} : Goto(p, pc)
    BY <1>1, PcTypes DEF Exists
  <2> QED
    BY <1>1, <2>1, GotoType DEF Exists, LockTypeOK
<1>2. CASE Stat(p)
  <2>1. CASE ~LockExists
    BY <1>2, <2>1, LeaveType, PcTypes DEF Stat, LockTypeOK
  <2>2. CASE LockExists
    <3>1. [proc[p] EXCEPT !.pc = "read", !.seenIno = lock.ino,
                          !.seenFresh = lock.fresh] \in ProcType
      <4>1. proc[p] \in ProcFields /\ lock.ino \in Inodes \union {None}
            /\ lock.fresh \in BOOLEAN
        BY DEF LockTypeOK, LockType, ProcType
      <4>2. [proc[p] EXCEPT !.pc = "read", !.seenIno = lock.ino,
                            !.seenFresh = lock.fresh] \in ProcFields
        BY <4>1, PcTypes DEF ProcFields
      <4>3. [proc[p] EXCEPT !.pc = "read", !.seenIno = lock.ino,
                            !.seenFresh = lock.fresh].pc = "read"
        BY <4>1 DEF ProcFields
      <4> QED
        BY <4>2, <4>3 DEF ProcType
    <3>2. proc' = [proc EXCEPT ![p] = [proc[p] EXCEPT !.pc = "read",
                     !.seenIno = lock.ino, !.seenFresh = lock.fresh]]
      BY <1>2, <2>2 DEF Stat
    <3> QED
      BY <1>2, <3>1, <3>2 DEF Stat, LockTypeOK
  <2> QED
    BY <2>1, <2>2
<1>3. CASE Read(p)
  <2>1. CASE lock.owner = None
    BY <1>3, <2>1, LeaveType, PcTypes DEF Read, LockTypeOK
  <2>2. CASE lock.owner # None
    <3>1. [proc[p] EXCEPT !.pc = "judge", !.seenOwner = lock.owner] \in ProcType
      <4>1. proc[p] \in ProcFields /\ lock.owner \in Processes \union {None}
        BY DEF LockTypeOK, LockType, ProcType
      <4>2. [proc[p] EXCEPT !.pc = "judge", !.seenOwner = lock.owner] \in ProcFields
        BY <4>1, PcTypes DEF ProcFields
      <4>3. [proc[p] EXCEPT !.pc = "judge", !.seenOwner = lock.owner].pc = "judge"
        BY <4>1 DEF ProcFields
      <4> QED
        BY <4>2, <4>3 DEF ProcType
    <3>2. proc' = [proc EXCEPT ![p] = [proc[p] EXCEPT !.pc = "judge",
                     !.seenOwner = lock.owner]]
      BY <1>3, <2>2 DEF Read
    <3> QED
      BY <1>3, <3>1, <3>2 DEF Read, LockTypeOK
  <2> QED
    BY <2>1, <2>2
<1>4. CASE Judge(p)
  BY <1>4, GotoType, LeaveType, PcTypes DEF Judge, LockTypeOK
<1>5. CASE Recheck(p)
  <2>1. Goto(p, "unlink") \/ Leave(p, "refused") \/ Leave(p, "failed")
    BY <1>5, Zenon DEF Recheck
  <2> QED
    BY <1>5, <2>1, GotoType, LeaveType, PcTypes DEF Recheck, LockTypeOK
<1>6. CASE Unlink(p)
  <2>1. Absent \in LockType
    BY DEF Absent, LockType
  <2> QED
    BY <1>6, <2>1, GotoType, LeaveType, PcTypes DEF Unlink, LockTypeOK
<1>7. CASE Create(p)
  <2>1. CASE LockExists
    BY <1>7, <2>1, LeaveType, PcTypes DEF Create, LockTypeOK
  <2>2. CASE ~LockExists
    <3>1. PICK ino \in FreeInodes :
            /\ lock' = [ino |-> ino, owner |-> None, fresh |-> TRUE]
            /\ proc' = [proc EXCEPT ![p].pc = "write", ![p].ino = ino]
      BY <1>7, <2>2 DEF Create
    <3>2. ino \in Inodes
      BY DEF FreeInodes
    <3>3. [proc[p] EXCEPT !.pc = "write", !.ino = ino] \in ProcType
      BY <3>2, PcTypes DEF LockTypeOK, ProcType, ProcFields
    <3>4. proc' = [proc EXCEPT ![p] = [proc[p] EXCEPT !.pc = "write", !.ino = ino]]
      BY <3>1
    <3>5. lock' \in LockType
      BY <3>1, <3>2 DEF LockType
    <3>6. proc' \in [Processes -> ProcType]
      BY <3>3, <3>4 DEF LockTypeOK
    <3>7. UNCHANGED data
      BY <1>7 DEF Create
    <3> QED
      BY <3>5, <3>6, <3>7 DEF LockTypeOK
  <2> QED
    BY <2>1, <2>2
<1>8. CASE WriteOwner(p)
  BY <1>8, GotoType, PcTypes DEF WriteOwner, LockTypeOK, LockType
<1> QED
  BY <1>1, <1>2, <1>3, <1>4, <1>5, <1>6, <1>7, <1>8 DEF Open

LEMMA WorkType ==
  ASSUME LockTypeOK, NEW p \in Processes, Work(p), UNCHANGED namespaceOf,
         outrun' \in BOOLEAN
  PROVE  LockTypeOK'
<1>1. CASE Heartbeat(p)
  BY <1>1 DEF Heartbeat, LockTypeOK, LockType
<1>2. CASE Get(p)
  <2>1. [proc[p] EXCEPT !.pc = "got", !.old = data] \in ProcType
    <3>1. /\ proc[p] \in ProcFields /\ data \in [Processes -> Nat]
          /\ proc[p].updates < MaxUpdates
      BY <1>2 DEF Get, LockTypeOK, ProcType
    <3>2. [proc[p] EXCEPT !.pc = "got", !.old = data] \in ProcFields
      BY <3>1, PcTypes DEF ProcFields
    <3>3. [proc[p] EXCEPT !.pc = "got", !.old = data].updates = proc[p].updates
      BY <3>1 DEF ProcFields
    <3> QED
      BY <3>1, <3>2, <3>3 DEF ProcType
  <2>2. proc' = [proc EXCEPT ![p] = [proc[p] EXCEPT !.pc = "got", !.old = data]]
    BY <1>2 DEF Get
  <2> QED
    BY <1>2, <2>1, <2>2 DEF Get, LockTypeOK
<1>3. CASE AssertOwned(p)
  <2>1. /\ [proc[p] EXCEPT !.pc = "asserted"] \in ProcType
        /\ [proc[p] EXCEPT !.pc = "idle", !.old = Nothing] \in ProcType
    BY <1>3, PcTypes DEF AssertOwned, LockTypeOK, ProcType, ProcFields, Nothing
  <2>2. proc' = [proc EXCEPT ![p] =
                   IF Owns(p) THEN [proc[p] EXCEPT !.pc = "asserted"]
                   ELSE [proc[p] EXCEPT !.pc = "idle", !.old = Nothing]]
    BY <1>3 DEF AssertOwned
  <2> QED
    BY <1>3, <2>1, <2>2 DEF AssertOwned, LockTypeOK
<1>4. CASE Rename(p)
  <2>1. [proc[p] EXCEPT !.pc = "idle", !.old = Nothing, !.updates = @ + 1] \in ProcType
    BY <1>4, LockAssumption, PcTypes DEF Rename, LockTypeOK, ProcType, ProcFields, Nothing
  <2>2. proc' = [proc EXCEPT ![p] =
                   [proc[p] EXCEPT !.pc = "idle", !.old = Nothing, !.updates = @ + 1]]
    BY <1>4 DEF Rename
  <2>3. data' \in [Processes -> Nat]
    BY <1>4 DEF Rename, LockTypeOK, ProcType, ProcFields
  <2> QED
    BY <1>4, <2>1, <2>2, <2>3 DEF Rename, LockTypeOK
<1>5. CASE Close(p)
  BY <1>5, GotoType, LeaveType, PcTypes DEF Close, LockTypeOK
<1>6. CASE CloseUnlink(p)
  <2>1. Absent \in LockType
    BY DEF Absent, LockType
  <2>2. \E pc \in Over : Leave(p, pc)
    BY <1>6, PcTypes DEF CloseUnlink
  <2> QED
    BY <1>6, <2>1, <2>2, LeaveType DEF CloseUnlink, LockTypeOK
<1> QED
  BY <1>1, <1>2, <1>3, <1>4, <1>5, <1>6 DEF Work

LEMMA NextType == LockTypeOK /\ [LockNext]_lockVars => LockTypeOK'
<1> SUFFICES ASSUME LockTypeOK, [LockNext]_lockVars PROVE LockTypeOK'
  OBVIOUS
<1>0. UNCHANGED namespaceOf /\ outrun' \in BOOLEAN
  BY DEF LockNext, Aside, lockVars, LockTypeOK
<1>1. ASSUME NEW p \in Processes, Crash(p) PROVE LockTypeOK'
  BY <1>0, <1>1, LeaveType, PcTypes DEF Crash, LockTypeOK
<1>2. CASE Expire
  BY <1>0, <1>2 DEF Expire, LockTypeOK, LockType
<1>3. CASE UNCHANGED lockVars
  BY <1>3 DEF lockVars, LockTypeOK
<1> QED
  BY <1>0, <1>1, <1>2, <1>3, OpenType, WorkType DEF LockNext

(* Every variable of the lock keeps its type, whoever opens the directory.  *)
THEOREM TypeCorrect == LockSpec => []LockTypeOK
BY InitType, NextType, PTL DEF LockSpec

-----------------------------------------------------------------------------
(* Inodes and tokens                                                       *)

Holding == {"write"} \union Working \union {"closing"}

(* who holds a descriptor holds an inode, and no two hold the same one       *)
InodesApart ==
  /\ \A p \in Processes : proc[p].pc \in Holding => proc[p].ino # None
  /\ \A p, r \in Processes :
       p # r /\ proc[p].ino # None => proc[p].ino # proc[r].ino

InodeInv == LockTypeOK /\ InodesApart /\ InodeMeansToken

LEMMA InitInode == LockInit => InodeInv
BY InitType DEF LockInit, InodeInv, InodesApart, InodeMeansToken, Holding, Working

(* what a step that names only process p may do to it *)
LEMMA LeaveInode ==
  ASSUME InodeInv, NEW p \in Processes, NEW pc \in Over, Leave(p, pc),
         lock' = lock \/ lock'.ino = None
  PROVE  InodesApart' /\ InodeMeansToken'
<1>1. proc'[p].ino = None /\ proc'[p].pc \notin Holding
  BY DEF Leave, InodeInv, LockTypeOK, ProcType, ProcFields, Over, Holding, Working
<1>2. \A r \in Processes \ {p} : proc'[r] = proc[r]
  BY DEF Leave, InodeInv, LockTypeOK
<1> QED
  BY <1>1, <1>2 DEF InodeInv, InodesApart, InodeMeansToken, Holding

(* a process that stays as it is in respect of its descriptor *)
LEMMA StayInode ==
  ASSUME InodeInv, NEW p \in Processes,
         \A r \in Processes \ {p} : proc'[r] = proc[r],
         proc'[p].ino = proc[p].ino,
         proc'[p].pc \in Holding => proc[p].pc \in Holding \ {"write"},
         lock'.ino = None \/ (lock'.ino = lock.ino /\ lock'.owner = lock.owner)
  PROVE  InodesApart' /\ InodeMeansToken'
<1>1. InodesApart'
  BY DEF InodeInv, InodesApart, Holding
<1>2. ASSUME NEW r \in Processes, proc'[r].pc \in Working \union {"closing"},
             lock'.ino = proc'[r].ino
      PROVE  lock'.owner = r
  <2>1. proc[r].pc \in Working \union {"closing"} /\ proc'[r].ino = proc[r].ino
    BY <1>2 DEF Holding
  <2>2. proc[r].ino # None
    BY <2>1 DEF InodeInv, InodesApart, Holding
  <2> QED
    BY <1>2, <2>1, <2>2 DEF InodeInv, InodeMeansToken
<1> QED
  BY <1>1, <1>2 DEF InodeMeansToken

LEMMA OpenInode ==
  ASSUME InodeInv, NEW p \in Processes, Open(p)
  PROVE  InodesApart' /\ InodeMeansToken'
<1> USE DEF InodeInv
<1>0. {"stat", "read", "judge", "recheck", "unlink", "create"} \intersect Holding = {}
  BY DEF Holding, Working
<1>1. CASE Exists(p)
  BY <1>0, <1>1, StayInode DEF Exists, Goto, LockTypeOK, ProcType, ProcFields
<1>2. CASE Stat(p)
  <2>1. CASE LockExists
    BY <1>0, <1>2, <2>1, StayInode DEF Stat, LockTypeOK, ProcType, ProcFields
  <2>2. CASE ~LockExists
    BY <1>2, <2>2, LeaveInode, PcTypes DEF Stat
  <2> QED
    BY <2>1, <2>2
<1>3. CASE Read(p)
  <2>1. CASE lock.owner # None
    BY <1>0, <1>3, <2>1, StayInode DEF Read, LockTypeOK, ProcType, ProcFields
  <2>2. CASE lock.owner = None
    BY <1>3, <2>2, LeaveInode, PcTypes DEF Read
  <2> QED
    BY <2>1, <2>2
<1>4. CASE Judge(p)
  <2>1. CASE Goto(p, "recheck")
    BY <1>0, <1>4, <2>1, StayInode DEF Judge, Goto, LockTypeOK, ProcType, ProcFields
  <2>2. CASE Leave(p, "refused")
    BY <1>4, <2>2, LeaveInode, PcTypes DEF Judge
  <2> QED
    BY <1>4, <2>1, <2>2, Zenon DEF Judge
<1>5. CASE Recheck(p)
  <2>1. CASE Goto(p, "unlink")
    BY <1>0, <1>5, <2>1, StayInode DEF Recheck, Goto, LockTypeOK, ProcType, ProcFields
  <2>2. CASE Leave(p, "refused") \/ Leave(p, "failed")
    BY <1>5, <2>2, LeaveInode, PcTypes DEF Recheck
  <2> QED
    BY <1>5, <2>1, <2>2, Zenon DEF Recheck
<1>6. CASE Unlink(p)
  <2>1. CASE LockExists
    BY <1>0, <1>6, <2>1, StayInode DEF Unlink, Goto, Absent, LockTypeOK, ProcType, ProcFields
  <2>2. CASE ~LockExists
    BY <1>6, <2>2, LeaveInode, PcTypes DEF Unlink
  <2> QED
    BY <2>1, <2>2
<1>7. CASE Create(p)
  <2>1. CASE LockExists
    BY <1>7, <2>1, LeaveInode, PcTypes DEF Create
  <2>2. CASE ~LockExists
    <3>1. PICK ino \in FreeInodes :
            /\ lock' = [ino |-> ino, owner |-> None, fresh |-> TRUE]
            /\ proc' = [proc EXCEPT ![p].pc = "write", ![p].ino = ino]
      BY <1>7, <2>2 DEF Create
    <3>2. ino # None /\ \A r \in Processes : proc[r].ino # ino
      BY LockAssumption DEF FreeInodes
    <3>3. proc'[p].pc = "write" /\ proc'[p].ino = ino
      BY <3>1 DEF LockTypeOK, ProcType, ProcFields
    <3>4. \A r \in Processes \ {p} : proc'[r] = proc[r]
      BY <3>1 DEF LockTypeOK
    <3>5. InodesApart'
      BY <3>2, <3>3, <3>4 DEF InodesApart
    <3>6. InodeMeansToken'
      BY <3>1, <3>2, <3>3, <3>4 DEF InodeMeansToken, Working
    <3> QED
      BY <3>5, <3>6
  <2> QED
    BY <2>1, <2>2
<1>8. CASE WriteOwner(p)
  <2>1. proc'[p].pc = "idle" /\ proc'[p].ino = proc[p].ino
    BY <1>8 DEF WriteOwner, Goto, LockTypeOK, ProcType, ProcFields
  <2>2. \A r \in Processes \ {p} : proc'[r] = proc[r]
    BY <1>8 DEF WriteOwner, Goto, LockTypeOK
  <2>3. proc[p].ino # None
    BY <1>8 DEF WriteOwner, InodesApart, Holding
  <2>4. lock'.ino = lock.ino /\ (lock.ino = proc[p].ino => lock'.owner = p)
        /\ (lock.ino # proc[p].ino => lock' = lock)
    BY <1>8 DEF WriteOwner, LockTypeOK, LockType
  <2>5. InodesApart'
    BY <2>1, <2>2, <2>3 DEF InodesApart
  <2>6. InodeMeansToken'
    BY <2>1, <2>2, <2>3, <2>4 DEF InodesApart, InodeMeansToken
  <2> QED
    BY <2>5, <2>6
<1> QED
  BY <1>1, <1>2, <1>3, <1>4, <1>5, <1>6, <1>7, <1>8 DEF Open

LEMMA WorkInode ==
  ASSUME InodeInv, NEW p \in Processes, Work(p)
  PROVE  InodesApart' /\ InodeMeansToken'
<1> USE DEF InodeInv
<1>0. {"idle", "got", "asserted", "closing"} = Holding \ {"write"}
  BY DEF Holding, Working
<1>1. CASE Heartbeat(p)
  BY <1>0, <1>1, StayInode DEF Heartbeat, LockTypeOK, LockType
<1>2. CASE Get(p)
  <2>1. /\ proc[p].pc = "idle" /\ proc'[p].pc = "got" /\ proc'[p].ino = proc[p].ino
        /\ \A r \in Processes \ {p} : proc'[r] = proc[r]
    BY <1>2 DEF Get, LockTypeOK, ProcType, ProcFields
  <2> QED
    BY <1>0, <1>2, <2>1, StayInode DEF Get
<1>3. CASE AssertOwned(p)
  <2>1. proc'[p].ino = proc[p].ino /\ \A r \in Processes \ {p} : proc'[r] = proc[r]
    BY <1>3 DEF AssertOwned, LockTypeOK, ProcType, ProcFields
  <2> QED
    BY <1>0, <1>3, <2>1, StayInode DEF AssertOwned
<1>4. CASE Rename(p)
  BY <1>0, <1>4, StayInode DEF Rename, LockTypeOK, ProcType, ProcFields
<1>5. CASE Close(p)
  <2>1. CASE Goto(p, "closing")
    BY <1>0, <1>5, <2>1, StayInode DEF Close, Goto, LockTypeOK, ProcType, ProcFields
  <2>2. CASE Leave(p, "closed")
    BY <1>5, <2>2, LeaveInode, PcTypes DEF Close
  <2> QED
    BY <1>5, <2>1, <2>2, Zenon DEF Close
<1>6. CASE CloseUnlink(p)
  <2>1. \E pc \in Over : Leave(p, pc)
    BY <1>6, PcTypes DEF CloseUnlink
  <2>2. lock'.ino = None
    BY <1>6 DEF CloseUnlink, Absent
  <2> QED
    BY <2>1, <2>2, LeaveInode
<1> QED
  BY <1>1, <1>2, <1>3, <1>4, <1>5, <1>6 DEF Work

LEMMA NextInode == InodeInv /\ [LockNext]_lockVars => InodeInv'
<1> SUFFICES ASSUME InodeInv, [LockNext]_lockVars PROVE InodeInv'
  OBVIOUS
<1>1. LockTypeOK'
  BY NextType DEF InodeInv
<1>2. ASSUME NEW p \in Processes, Crash(p) PROVE InodeInv'
  BY <1>1, <1>2, LeaveInode, PcTypes DEF Crash, InodeInv
<1>3. CASE Expire
  BY <1>1, <1>3 DEF Expire, InodeInv, InodesApart, InodeMeansToken, LockTypeOK, LockType
<1>4. CASE UNCHANGED lockVars
  BY <1>1, <1>4 DEF lockVars, InodeInv, InodesApart, InodeMeansToken, Holding, Working
<1>5. ASSUME NEW p \in Processes, Open(p) \/ Work(p) PROVE InodeInv'
  BY <1>1, <1>5, OpenInode, WorkInode DEF InodeInv
<1> QED
  BY <1>2, <1>3, <1>4, <1>5 DEF LockNext

(* Reused inode numbers never make a displaced process take the lock of     *)
(* another for its own.                                                     *)
THEOREM TokensAgree == LockSpec => []InodeMeansToken
<1>1. InodeInv => InodeMeansToken
  BY DEF InodeInv
<1> QED
  BY <1>1, InitInode, NextInode, PTL DEF LockSpec

-----------------------------------------------------------------------------
(* Who may take a lock over, in one namespace and across several           *)

Seeing == {"judge", "recheck", "unlink"}

(* the lock is never found by the process that wrote it *)
TokensWritten ==
  /\ \A p \in Processes : lock.owner = p => proc[p].pc \notin Opening
  /\ \A p \in Processes :
       proc[p].pc \in Seeing => proc[p].seenOwner \in Processes \ {p}

PcClasses == /\ Over \intersect (Opening \union Seeing \union Holding) = {}
             /\ Seeing \subseteq Opening /\ Seeing \intersect Holding = {}

LEMMA Classes == PcClasses
BY DEF PcClasses, Over, Opening, Seeing, Holding, Working

(* a process that takes a lock over has seen its owner dead, where it can   *)
(* tell, and its lease run out where it cannot                              *)
Judged(p) ==
  LET owner == proc[p].seenOwner
  IN  IF namespaceOf[owner] = namespaceOf[p]
      THEN proc[owner].pc = "dead" ELSE ~proc[p].seenFresh

JudgedRightly ==
  \A p \in Processes : proc[p].pc \in {"recheck", "unlink"} => Judged(p)

SightInv == LockTypeOK /\ TokensWritten /\ JudgedRightly

LEMMA InitSight == LockInit => SightInv
BY InitType, LockAssumption
   DEF LockInit, SightInv, TokensWritten, JudgedRightly, Absent, Seeing

LEMMA StaySight ==
  ASSUME SightInv, NEW p \in Processes, proc[p].pc # "dead",
         UNCHANGED namespaceOf,
         \A r \in Processes \ {p} : proc'[r] = proc[r],
         proc'[p].pc \in Opening => proc[p].pc \in Opening,
         \/ lock'.owner \in {lock.owner, None}
         \/ lock'.owner = p /\ proc'[p].pc \notin Opening,
         proc'[p].pc \in Seeing => proc'[p].seenOwner \in Processes \ {p},
         proc'[p].pc \in {"recheck", "unlink"}
           => /\ proc'[p].seenOwner = proc[p].seenOwner
              /\ proc'[p].seenFresh = proc[p].seenFresh
              /\ Judged(p)
  PROVE  TokensWritten' /\ JudgedRightly'
<1>1. TokensWritten'
  BY LockAssumption DEF SightInv, TokensWritten
<1>2. ASSUME NEW r \in Processes, proc'[r].pc \in {"recheck", "unlink"}
      PROVE  Judged(r)'
  <2>1. /\ Judged(r) /\ proc'[r].seenOwner = proc[r].seenOwner
        /\ proc'[r].seenFresh = proc[r].seenFresh
    BY <1>2 DEF SightInv, JudgedRightly
  <2>2. proc'[r].seenOwner \in Processes
    BY <1>1, <1>2 DEF TokensWritten, Seeing
  <2>3. proc[proc[r].seenOwner].pc = "dead" => proc'[proc[r].seenOwner].pc = "dead"
    BY <2>1, <2>2
  <2> QED
    BY <2>1, <2>3 DEF Judged
<1> QED
  BY <1>1, <1>2 DEF JudgedRightly

(* a process that leaves sees nothing any more *)
LEMMA LeaveSight ==
  ASSUME SightInv, NEW p \in Processes, NEW pc \in Over, Leave(p, pc),
         proc[p].pc # "dead", UNCHANGED namespaceOf,
         lock'.owner \in {lock.owner, None}
  PROVE  TokensWritten' /\ JudgedRightly'
<1>1. proc'[p].pc = pc /\ \A r \in Processes \ {p} : proc'[r] = proc[r]
  BY DEF Leave, SightInv, LockTypeOK, ProcType, ProcFields
<1>2. pc \notin Opening \union Seeing
  BY Classes DEF PcClasses
<1> QED
  BY <1>1, <1>2, StaySight DEF Seeing

LEMMA GotoSight ==
  ASSUME SightInv, NEW p \in Processes, NEW pc \in Steps \ Seeing, Goto(p, pc),
         proc[p].pc # "dead", pc \in Opening => proc[p].pc \in Opening,
         UNCHANGED namespaceOf,
         \/ lock'.owner \in {lock.owner, None}
         \/ lock'.owner = p /\ pc \notin Opening
  PROVE  TokensWritten' /\ JudgedRightly'
<1>1. proc'[p].pc = pc /\ \A r \in Processes \ {p} : proc'[r] = proc[r]
  BY DEF Goto, SightInv, LockTypeOK, ProcType, ProcFields
<1> QED
  BY <1>1, StaySight DEF Seeing

LEMMA OpenSight ==
  ASSUME SightInv, NEW p \in Processes, Open(p), UNCHANGED namespaceOf
  PROVE  TokensWritten' /\ JudgedRightly'
<1> USE DEF SightInv
<1>0. {"stat", "create", "write", "idle"} \subseteq Steps \ Seeing
  BY DEF Steps, Opening, Working, Seeing
<1>1. CASE Exists(p)
  <2>1. \E pc \in {"stat", "create"} : Goto(p, pc)
    BY <1>1 DEF Exists
  <2> QED
    BY <1>0, <1>1, <2>1, GotoSight DEF Exists, Opening
<1>2. CASE Stat(p)
  <2>1. CASE LockExists
    BY <1>2, <2>1, StaySight DEF Stat, LockTypeOK, ProcType, ProcFields, Opening, Seeing
  <2>2. CASE ~LockExists
    BY <1>2, <2>2, LeaveSight, PcTypes DEF Stat
  <2> QED
    BY <2>1, <2>2
<1>3. CASE Read(p)
  <2>1. CASE lock.owner # None
    <3>1. lock.owner \in Processes \ {p}
      BY <1>3, <2>1 DEF Read, LockTypeOK, LockType, TokensWritten, Opening
    <3> QED
      BY <1>3, <2>1, <3>1, StaySight
         DEF Read, LockTypeOK, ProcType, ProcFields, Opening
  <2>2. CASE lock.owner = None
    BY <1>3, <2>2, LeaveSight, PcTypes DEF Read
  <2> QED
    BY <2>1, <2>2
<1>4. CASE Judge(p)
  <2>1. CASE Reclaimable(p)
    <3>1. proc[p].pc = "judge" /\ UNCHANGED lock /\ Goto(p, "recheck")
      BY <1>4, <2>1 DEF Judge
    <3>2. Judged(p) /\ proc[p].seenOwner \in Processes \ {p}
      BY <2>1, <3>1 DEF Reclaimable, Judged, TokensWritten, Seeing
    <3>3. /\ proc'[p].pc = "recheck" /\ proc'[p].seenOwner = proc[p].seenOwner
          /\ proc'[p].seenFresh = proc[p].seenFresh
          /\ \A r \in Processes \ {p} : proc'[r] = proc[r]
      BY <3>1 DEF Goto, LockTypeOK, ProcType, ProcFields
    <3> QED
      BY <3>1, <3>2, <3>3, StaySight DEF Opening
  <2>2. CASE ~Reclaimable(p)
    BY <1>4, <2>2, LeaveSight, PcTypes DEF Judge
  <2> QED
    BY <2>1, <2>2
<1>5. CASE Recheck(p)
  <2>1. CASE lock.ino = proc[p].seenIno
    <3>1. proc[p].pc = "recheck" /\ UNCHANGED lock /\ Goto(p, "unlink")
      BY <1>5, <2>1 DEF Recheck
    <3>2. Judged(p) /\ proc[p].seenOwner \in Processes \ {p}
      BY <3>1 DEF JudgedRightly, TokensWritten, Seeing
    <3>3. /\ proc'[p].pc = "unlink" /\ proc'[p].seenOwner = proc[p].seenOwner
          /\ proc'[p].seenFresh = proc[p].seenFresh
          /\ \A r \in Processes \ {p} : proc'[r] = proc[r]
      BY <3>1 DEF Goto, LockTypeOK, ProcType, ProcFields
    <3> QED
      BY <3>1, <3>2, <3>3, StaySight DEF Opening
  <2>2. CASE lock.ino # proc[p].seenIno
    <3>1. Leave(p, "refused") \/ Leave(p, "failed")
      BY <1>5, <2>2, Zenon DEF Recheck
    <3> QED
      BY <1>5, <3>1, LeaveSight, PcTypes DEF Recheck
  <2> QED
    BY <2>1, <2>2
<1>6. CASE Unlink(p)
  <2>1. CASE LockExists
    BY <1>0, <1>6, <2>1, GotoSight DEF Unlink, Absent, Opening
  <2>2. CASE ~LockExists
    BY <1>6, <2>2, LeaveSight, PcTypes DEF Unlink
  <2> QED
    BY <2>1, <2>2
<1>7. CASE Create(p)
  <2>1. CASE LockExists
    BY <1>7, <2>1, LeaveSight, PcTypes DEF Create
  <2>2. CASE ~LockExists
    BY <1>7, <2>2, StaySight DEF Create, LockTypeOK, ProcType, ProcFields, Opening, Seeing
  <2> QED
    BY <2>1, <2>2
<1>8. CASE WriteOwner(p)
  <2>1. lock'.owner = p \/ lock' = lock
    BY <1>8 DEF WriteOwner, LockTypeOK, LockType
  <2>2. Goto(p, "idle") /\ proc[p].pc = "write" /\ "idle" \notin Opening
    BY <1>8 DEF WriteOwner, Opening
  <2> QED
    BY <1>0, <2>1, <2>2, GotoSight
<1> QED
  BY <1>1, <1>2, <1>3, <1>4, <1>5, <1>6, <1>7, <1>8 DEF Open

LEMMA WorkSight ==
  ASSUME SightInv, NEW p \in Processes, Work(p), UNCHANGED namespaceOf
  PROVE  TokensWritten' /\ JudgedRightly'
<1> USE DEF SightInv
<1>0. {"idle", "got", "asserted", "closing"} \intersect (Opening \union Seeing) = {}
  BY DEF Opening, Seeing
<1>1. CASE Heartbeat(p)
  BY <1>0, <1>1, StaySight DEF Heartbeat, LockTypeOK, LockType, Seeing
<1>2. CASE Get(p)
  BY <1>0, <1>2, StaySight DEF Get, LockTypeOK, ProcType, ProcFields, Seeing
<1>3. CASE AssertOwned(p)
  <2>1. proc'[p].pc \in {"asserted", "idle"} /\ \A r \in Processes \ {p} : proc'[r] = proc[r]
    BY <1>3 DEF AssertOwned, LockTypeOK, ProcType, ProcFields
  <2> QED
    BY <1>0, <1>3, <2>1, StaySight DEF AssertOwned, Seeing
<1>4. CASE Rename(p)
  BY <1>0, <1>4, StaySight DEF Rename, LockTypeOK, ProcType, ProcFields, Seeing
<1>5. CASE Close(p)
  <2>1. CASE Goto(p, "closing")
    <3>1. "closing" \in Steps \ Seeing
      BY DEF Steps, Seeing
    <3> QED
      BY <1>0, <1>5, <2>1, <3>1, GotoSight DEF Close
  <2>2. CASE Leave(p, "closed")
    BY <1>5, <2>2, LeaveSight, PcTypes DEF Close
  <2> QED
    BY <1>5, <2>1, <2>2, Zenon DEF Close
<1>6. CASE CloseUnlink(p)
  <2>1. \E pc \in Over : Leave(p, pc)
    BY <1>6, PcTypes DEF CloseUnlink
  <2> QED
    BY <1>6, <2>1, LeaveSight DEF CloseUnlink, Absent
<1> QED
  BY <1>1, <1>2, <1>3, <1>4, <1>5, <1>6 DEF Work

LEMMA NextSight == SightInv /\ [LockNext]_lockVars => SightInv'
<1> SUFFICES ASSUME SightInv, [LockNext]_lockVars PROVE SightInv'
  OBVIOUS
<1>1. LockTypeOK' /\ UNCHANGED namespaceOf
  BY NextType DEF SightInv, LockNext, Aside, lockVars
<1>2. ASSUME NEW p \in Processes, Open(p) \/ Work(p) \/ Crash(p) PROVE SightInv'
  <2>1. CASE Crash(p)
    BY <1>1, <2>1, LeaveSight, PcTypes DEF Crash, SightInv
  <2> QED
    BY <1>1, <1>2, <2>1, OpenSight, WorkSight DEF SightInv
<1>3. CASE Expire
  BY <1>1, <1>3
     DEF Expire, SightInv, TokensWritten, JudgedRightly, Judged, LockTypeOK, LockType
<1>4. CASE UNCHANGED lockVars
  BY <1>1, <1>4 DEF lockVars, SightInv, TokensWritten, JudgedRightly, Judged
<1> QED
  BY <1>2, <1>3, <1>4 DEF LockNext

(* However many processes open the store, in whatever namespaces: a working *)
(* process loses its lock to another only if the other cannot see it and    *)
(* has seen its lease run out, or if the other had judged the lock of a     *)
(* process it held for dead before this one put its own there               *)
(* (task-store.js:48-64).                                                   *)
THEOREM LocksAreKept == LockSpec => LockIsKept
<1>1. SightInv => \A p, r \in Processes :
        Displaces(r, p) =>
          \/ namespaceOf[p] # namespaceOf[r] /\ ~proc[r].seenFresh
          \/ Outrun(r) /\ (namespaceOf[proc[r].seenOwner] = namespaceOf[r]
                             => proc[proc[r].seenOwner].pc = "dead")
  <2> SUFFICES ASSUME SightInv, NEW p \in Processes, NEW r \in Processes, Displaces(r, p)
               PROVE  \/ namespaceOf[p] # namespaceOf[r] /\ ~proc[r].seenFresh
                      \/ Outrun(r) /\ (namespaceOf[proc[r].seenOwner] = namespaceOf[r]
                                         => proc[proc[r].seenOwner].pc = "dead")
    OBVIOUS
  <2>1. proc[r].pc = "unlink" /\ Owns(p) /\ proc[p].pc # "dead"
    BY DEF Displaces, Working
  <2>2. Judged(r)
    BY <2>1 DEF SightInv, JudgedRightly
  <2>3. CASE proc[r].seenOwner = p
    BY <2>1, <2>2, <2>3 DEF Judged
  <2>4. CASE proc[r].seenOwner # p
    BY <2>1, <2>2, <2>4 DEF Judged, Outrun, Owns
  <2> QED
    BY <2>3, <2>4
<1> QED
  BY <1>1, InitSight, NextSight, PTL DEF LockSpec, LockIsKept

-----------------------------------------------------------------------------
(* One writer at a time: what the processes of one namespace keep until a   *)
(* start unlinks a lock other than the one it judged                        *)

Guarded == OneSpace /\ ~outrun

(* the lock is that of whoever holds a descriptor, empty until it is written *)
HoldersHold ==
  \A p \in Processes :
    proc[p].pc \in Holding => /\ lock.ino = proc[p].ino
                              /\ proc[p].pc = "write" => lock.owner = None

(* the record an update starts from is still the record on disk *)
ReadsCurrent ==
  \A p \in Processes : proc[p].pc \in {"got", "asserted"} => proc[p].old = data

GuardInv == InodeInv /\ SightInv /\ (Guarded => HoldersHold /\ ReadsCurrent)

LEMMA InitGuard == LockInit => GuardInv
BY InitInode, InitSight
   DEF LockInit, GuardInv, HoldersHold, ReadsCurrent, Holding, Working

(* at most one process holds a descriptor *)
LEMMA OneHolder ==
  ASSUME InodeInv, HoldersHold, NEW p \in Processes, NEW r \in Processes,
         proc[p].pc \in Holding, proc[r].pc \in Holding
  PROVE  p = r
BY DEF InodeInv, InodesApart, HoldersHold

(* the lock that a start has judged rightly is held by nobody *)
LEMMA NoHolderToDisplace ==
  ASSUME InodeInv, SightInv, OneSpace, HoldersHold, NEW p \in Processes,
         proc[p].pc = "unlink", LockExists, ~Outrun(p)
  PROVE  \A r \in Processes : proc[r].pc \notin Holding
<1>1. proc[p].seenOwner \in Processes
      /\ proc[proc[p].seenOwner].pc = "dead"
  BY DEF SightInv, TokensWritten, JudgedRightly, Judged, OneSpace, Seeing
<1>2. lock.owner = proc[p].seenOwner
  BY DEF Outrun
<1>3. ASSUME NEW r \in Processes, proc[r].pc \in Holding PROVE FALSE
  <2>1. CASE proc[r].pc = "write"
    BY <1>1, <1>2, <1>3, <2>1, LockAssumption DEF HoldersHold
  <2>2. CASE proc[r].pc # "write"
    <3>1. lock.owner = r
      BY <1>3, <2>2 DEF HoldersHold, InodeInv, InodeMeansToken, Holding
    <3> QED
      BY <1>1, <1>2, <1>3, <3>1 DEF Holding, Working
  <2> QED
    BY <2>1, <2>2
<1> QED
  BY <1>3

LEMMA LeaveGuard ==
  ASSUME InodeInv, HoldersHold, ReadsCurrent,
         NEW p \in Processes, NEW pc \in Over, Leave(p, pc),
         lock' = lock \/ proc[p].pc = "closing",
         data' = data
  PROVE  HoldersHold' /\ ReadsCurrent'
<1>1. proc'[p].pc = pc /\ \A r \in Processes \ {p} : proc'[r] = proc[r]
  BY DEF Leave, InodeInv, LockTypeOK, ProcType, ProcFields
<1>2. pc \notin Holding /\ pc \notin {"got", "asserted"}
  BY Classes DEF PcClasses, Holding, Working
<1>3. HoldersHold'
  <2> SUFFICES ASSUME NEW r \in Processes, proc'[r].pc \in Holding
               PROVE  lock'.ino = proc'[r].ino /\ (proc'[r].pc = "write" => lock'.owner = None)
    BY DEF HoldersHold
  <2>1. r # p /\ proc'[r] = proc[r]
    BY <1>1, <1>2
  <2>2. proc[p].pc # "closing"
    BY <2>1, OneHolder DEF Holding
  <2> QED
    BY <2>1, <2>2 DEF HoldersHold
<1>4. ReadsCurrent'
  BY <1>1, <1>2 DEF ReadsCurrent
<1> QED
  BY <1>3, <1>4

LEMMA StayGuard ==
  ASSUME HoldersHold, ReadsCurrent, NEW p \in Processes,
         \A r \in Processes \ {p} : proc'[r] = proc[r],
         proc'[p].ino = proc[p].ino,
         proc'[p].pc \in Holding => proc[p].pc \in Holding /\ proc'[p].pc # "write",
         \/ lock'.ino = lock.ino /\ lock'.owner = lock.owner
         \/ \A r \in Processes : proc[r].pc \notin Holding,
         proc'[p].pc \in {"got", "asserted"} => proc'[p].old = data,
         data' = data
  PROVE  HoldersHold' /\ ReadsCurrent'
<1>1. HoldersHold'
  BY DEF HoldersHold
<1>2. ReadsCurrent'
  BY DEF ReadsCurrent
<1> QED
  BY <1>1, <1>2

LEMMA OpenGuard ==
  ASSUME InodeInv, SightInv, OneSpace, HoldersHold, ReadsCurrent,
         NEW p \in Processes, Open(p), Outrun(p) => proc'[p].pc # "create"
  PROVE  HoldersHold' /\ ReadsCurrent'
<1> USE DEF InodeInv
<1>0. {"stat", "read", "judge", "recheck", "unlink", "create"}
        \intersect (Holding \union {"got", "asserted"}) = {}
  BY DEF Holding, Working
<1>1. CASE Exists(p)
  BY <1>0, <1>1, StayGuard DEF Exists, Goto, LockTypeOK, ProcType, ProcFields
<1>2. CASE Stat(p)
  <2>1. CASE LockExists
    BY <1>0, <1>2, <2>1, StayGuard DEF Stat, LockTypeOK, ProcType, ProcFields
  <2>2. CASE ~LockExists
    BY <1>2, <2>2, LeaveGuard, PcTypes DEF Stat
  <2> QED
    BY <2>1, <2>2
<1>3. CASE Read(p)
  <2>1. CASE lock.owner # None
    BY <1>0, <1>3, <2>1, StayGuard DEF Read, LockTypeOK, ProcType, ProcFields
  <2>2. CASE lock.owner = None
    BY <1>3, <2>2, LeaveGuard, PcTypes DEF Read
  <2> QED
    BY <2>1, <2>2
<1>4. CASE Judge(p)
  <2>1. CASE Goto(p, "recheck")
    BY <1>0, <1>4, <2>1, StayGuard DEF Judge, Goto, LockTypeOK, ProcType, ProcFields
  <2>2. CASE Leave(p, "refused")
    BY <1>4, <2>2, LeaveGuard, PcTypes DEF Judge
  <2> QED
    BY <1>4, <2>1, <2>2, Zenon DEF Judge
<1>5. CASE Recheck(p)
  <2>1. CASE Goto(p, "unlink")
    BY <1>0, <1>5, <2>1, StayGuard DEF Recheck, Goto, LockTypeOK, ProcType, ProcFields
  <2>2. CASE Leave(p, "refused") \/ Leave(p, "failed")
    BY <1>5, <2>2, LeaveGuard, PcTypes DEF Recheck
  <2> QED
    BY <1>5, <2>1, <2>2, Zenon DEF Recheck
<1>6. CASE Unlink(p)
  <2>1. CASE LockExists
    <3>1. /\ proc[p].pc = "unlink" /\ proc'[p].pc = "create"
          /\ proc'[p].ino = proc[p].ino /\ data' = data
          /\ \A r \in Processes \ {p} : proc'[r] = proc[r]
      BY <1>6, <2>1 DEF Unlink, Goto, LockTypeOK, ProcType, ProcFields
    <3>2. \A r \in Processes : proc[r].pc \notin Holding
      BY <2>1, <3>1, NoHolderToDisplace
    <3> QED
      BY <1>0, <3>1, <3>2, StayGuard
  <2>2. CASE ~LockExists
    BY <1>6, <2>2, LeaveGuard, PcTypes DEF Unlink
  <2> QED
    BY <2>1, <2>2
<1>7. CASE Create(p)
  <2>1. CASE LockExists
    BY <1>7, <2>1, LeaveGuard, PcTypes DEF Create
  <2>2. CASE ~LockExists
    <3>1. PICK ino \in FreeInodes :
            /\ lock' = [ino |-> ino, owner |-> None, fresh |-> TRUE]
            /\ proc' = [proc EXCEPT ![p].pc = "write", ![p].ino = ino]
      BY <1>7, <2>2 DEF Create
    <3>2. proc'[p].pc = "write" /\ proc'[p].ino = ino
      BY <3>1 DEF LockTypeOK, ProcType, ProcFields
    <3>3. \A r \in Processes \ {p} : proc'[r] = proc[r]
      BY <3>1 DEF LockTypeOK
    <3>4. \A r \in Processes : proc[r].pc \notin Holding
      BY <2>2 DEF LockExists, HoldersHold, InodesApart
    <3>5. HoldersHold'
      BY <3>1, <3>2, <3>3, <3>4 DEF HoldersHold
    <3>6. ReadsCurrent'
      BY <1>7, <3>2, <3>3 DEF Create, ReadsCurrent
    <3> QED
      BY <3>5, <3>6
  <2> QED
    BY <2>1, <2>2
<1>8. CASE WriteOwner(p)
  <2>1. /\ proc[p].pc = "write" /\ proc'[p].pc = "idle" /\ proc'[p].ino = proc[p].ino
        /\ lock'.ino = lock.ino /\ data' = data
    BY <1>8 DEF WriteOwner, Goto, LockTypeOK, LockType, ProcType, ProcFields
  <2>2. \A r \in Processes \ {p} : proc'[r] = proc[r]
    BY <1>8 DEF WriteOwner, Goto, LockTypeOK
  <2>3. \A r \in Processes \ {p} : proc[r].pc \notin Holding
    BY <2>1, OneHolder DEF Holding
  <2>4. HoldersHold'
    BY <2>1, <2>2, <2>3 DEF HoldersHold, Holding
  <2>5. ReadsCurrent'
    BY <2>1, <2>2 DEF ReadsCurrent
  <2> QED
    BY <2>4, <2>5
<1> QED
  BY <1>1, <1>2, <1>3, <1>4, <1>5, <1>6, <1>7, <1>8 DEF Open

LEMMA WorkGuard ==
  ASSUME InodeInv, HoldersHold, ReadsCurrent, NEW p \in Processes, Work(p)
  PROVE  HoldersHold' /\ ReadsCurrent'
<1> USE DEF InodeInv
<1>0. {"idle", "got", "asserted", "closing"} = Holding \ {"write"}
  BY DEF Holding, Working
<1>1. CASE Heartbeat(p)
  BY <1>1, StayGuard DEF Heartbeat, LockTypeOK, LockType
<1>2. CASE Get(p)
  BY <1>0, <1>2, StayGuard DEF Get, LockTypeOK, ProcType, ProcFields
<1>3. CASE AssertOwned(p)
  <2>1. \A r \in Processes \ {p} : proc'[r] = proc[r]
    BY <1>3 DEF AssertOwned, LockTypeOK
  <2>2. CASE Owns(p)
    <3>1. /\ proc'[p].pc = "asserted" /\ proc'[p].ino = proc[p].ino
          /\ proc'[p].old = proc[p].old
      BY <1>3, <2>2 DEF AssertOwned, LockTypeOK, ProcType, ProcFields
    <3>2. proc[p].pc = "got" /\ proc[p].old = data /\ lock' = lock /\ data' = data
      BY <1>3 DEF AssertOwned, ReadsCurrent
    <3> QED
      BY <1>0, <2>1, <3>1, <3>2, StayGuard
  <2>3. CASE ~Owns(p)
    BY <1>0, <1>3, <2>1, <2>3, StayGuard
       DEF AssertOwned, LockTypeOK, ProcType, ProcFields
  <2> QED
    BY <2>2, <2>3
<1>4. CASE Rename(p)
  <2>1. proc'[p].pc = "idle" /\ proc'[p].ino = proc[p].ino
    BY <1>4 DEF Rename, LockTypeOK, ProcType, ProcFields
  <2>2. \A r \in Processes \ {p} : proc'[r] = proc[r]
    BY <1>4 DEF Rename, LockTypeOK
  <2>3. proc[p].pc = "asserted" /\ proc[p].pc \in Holding /\ lock' = lock
    BY <1>4 DEF Rename, Holding, Working
  <2>4. HoldersHold'
    BY <2>1, <2>2, <2>3 DEF HoldersHold
  <2>5. ASSUME NEW r \in Processes, proc'[r].pc \in {"got", "asserted"} PROVE FALSE
    <3>1. r # p /\ proc[r].pc \in Holding
      BY <2>1, <2>2, <2>5 DEF Holding, Working
    <3> QED
      BY <2>3, <3>1, OneHolder
  <2>6. ReadsCurrent'
    BY <2>5 DEF ReadsCurrent
  <2> QED
    BY <2>4, <2>6
<1>5. CASE Close(p)
  <2>1. CASE Owns(p)
    BY <1>0, <1>5, <2>1, StayGuard DEF Close, Goto, LockTypeOK, ProcType, ProcFields
  <2>2. CASE ~Owns(p)
    BY <1>5, <2>2, LeaveGuard, PcTypes DEF Close
  <2> QED
    BY <2>1, <2>2
<1>6. CASE CloseUnlink(p)
  <2>1. \E pc \in Over : Leave(p, pc)
    BY <1>6, PcTypes DEF CloseUnlink
  <2> QED
    BY <1>6, <2>1, LeaveGuard DEF CloseUnlink
<1> QED
  BY <1>1, <1>2, <1>3, <1>4, <1>5, <1>6 DEF Work

(* the guard is never regained, and what keeps it is no unlinking of another *)
(* lock than the one judged                                                  *)
LEMMA GuardFalls ==
  ASSUME [LockNext]_lockVars, Guarded'
  PROVE  /\ Guarded
         /\ UNCHANGED lockVars
              \/ \A p \in Processes : Outrun(p) => proc'[p].pc # "create"
<1>1. OneSpace' = OneSpace
  BY DEF LockNext, Aside, lockVars, OneSpace
<1>2. UNCHANGED lockVars
        \/ outrun' = (outrun \/ \E p \in Processes : Outrun(p) /\ proc'[p].pc = "create")
  BY DEF LockNext, Aside
<1>3. OneSpace' /\ ~outrun'
  BY DEF Guarded
<1>4. CASE UNCHANGED lockVars
  <2>1. outrun' = outrun
    BY <1>4 DEF lockVars
  <2> QED
    BY <1>1, <1>3, <1>4, <2>1, Zenon DEF Guarded
<1>5. CASE outrun' = (outrun \/ \E p \in Processes : Outrun(p) /\ proc'[p].pc = "create")
  BY <1>1, <1>3, <1>5, Zenon DEF Guarded
<1> QED
  BY <1>2, <1>4, <1>5

LEMMA NextGuard == GuardInv /\ [LockNext]_lockVars => GuardInv'
<1> SUFFICES ASSUME GuardInv, [LockNext]_lockVars PROVE GuardInv'
  OBVIOUS
<1>1. InodeInv' /\ SightInv'
  BY NextInode, NextSight DEF GuardInv
<1> SUFFICES ASSUME Guarded' PROVE HoldersHold' /\ ReadsCurrent'
  BY <1>1 DEF GuardInv
<1>2. OneSpace /\ HoldersHold /\ ReadsCurrent /\ InodeInv /\ SightInv
  BY GuardFalls DEF GuardInv, Guarded
<1>3. CASE UNCHANGED lockVars
  BY <1>2, <1>3 DEF lockVars, HoldersHold, ReadsCurrent
<1>4. CASE Expire
  BY <1>2, <1>4
     DEF Expire, HoldersHold, ReadsCurrent, InodeInv, LockTypeOK, LockType
<1>5. ASSUME NEW p \in Processes, Crash(p) PROVE HoldersHold' /\ ReadsCurrent'
  BY <1>2, <1>5, LeaveGuard, PcTypes DEF Crash
<1>6. ASSUME NEW p \in Processes, Open(p) \/ Work(p), ~UNCHANGED lockVars
      PROVE  HoldersHold' /\ ReadsCurrent'
  BY <1>2, <1>6, GuardFalls, OpenGuard, WorkGuard
<1> QED
  BY <1>3, <1>4, <1>5, <1>6 DEF LockNext

(* every step is a step of the register or leaves it alone *)
LEMMA StepIsUpdate ==
  GuardInv /\ [LockNext]_lockVars => [Register!Next]_<<data, OneSpace /\ ~outrun>>
<1> SUFFICES ASSUME GuardInv, [LockNext]_lockVars
             PROVE  Register!Next \/ UNCHANGED <<data, OneSpace /\ ~outrun>>
  OBVIOUS
<1>1. ASSUME NEW p \in Processes, Open(p) \/ Crash(p) PROVE data' = data
  BY <1>1 DEF Open, Exists, Stat, Read, Judge, Recheck, Unlink, Create, WriteOwner, Crash
<1>2. ASSUME NEW p \in Processes, Work(p), ~Rename(p) PROVE data' = data
  BY <1>2 DEF Work, Heartbeat, Get, AssertOwned, Close, CloseUnlink
<1>3. data' = data \/ \E p \in Processes : Rename(p)
  BY <1>1, <1>2 DEF LockNext, Expire, lockVars
<1>4. CASE ~Guarded
  BY <1>4, GuardFalls DEF Guarded, Register!Next
<1>5. CASE Guarded /\ data' = data
  BY <1>5 DEF Guarded, Register!Next
<1>6. ASSUME Guarded, NEW p \in Processes, Rename(p) PROVE Register!Next
  <2>1. proc[p].old = data
    BY <1>6 DEF Rename, GuardInv, ReadsCurrent
  <2>2. Register!Update(p)
    BY <1>6, <2>1 DEF Rename, Register!Update
  <2>3. \A r \in Processes : Outrun(r) => proc'[r].pc # "create"
    BY <1>6 DEF Rename, Outrun, GuardInv, InodeInv, LockTypeOK, ProcType, ProcFields
  <2>4. Guarded'
    <3>1. OneSpace' = OneSpace
      BY DEF LockNext, Aside, lockVars, OneSpace
    <3>2. CASE outrun' = outrun
      BY <1>6, <3>1, <3>2, Zenon DEF Guarded
    <3>3. CASE outrun' = (outrun \/ \E r \in Processes : Outrun(r) /\ proc'[r].pc = "create")
      BY <1>6, <2>3, <3>1, <3>3, Zenon DEF Guarded
    <3> QED
      BY <3>2, <3>3 DEF LockNext, Aside, lockVars
  <2> QED
    BY <1>6, <2>2, <2>4 DEF Guarded, Register!Next
<1> QED
  BY <1>3, <1>4, <1>5, <1>6

(* Any number of processes in one PID namespace implement the register:     *)
(* whatever crashes, restarts and lease expiries come in between, no update *)
(* is lost and none is made from an outdated record, until a start unlinks  *)
(* a lock other than the one it judged (task-store.js:64).                  *)
THEOREM RegisterImplemented == LockSpec => UpdatesAreAtomic
<1>1. LockInit => Register!Init
  BY DEF LockInit, Nothing, Register!Init
<1> QED
  BY <1>1, InitGuard, NextGuard, StepIsUpdate, PTL
     DEF LockSpec, UpdatesAreAtomic, Register!Spec
=============================================================================
