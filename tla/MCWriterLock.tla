---------------------------- MODULE MCWriterLock ----------------------------
(***************************************************************************)
(* Instances of WriterLock: processes of one PID namespace (one host or    *)
(* container), or of two.                                                  *)
(***************************************************************************)
EXTENDS WriterLock

CONSTANTS p1, p2, p3, here, there, i1, i2, i3

OneNamespace  == [p \in Processes |-> here]
TwoNamespaces == [p \in Processes |-> IF p = p1 THEN here ELSE there]

(* p3 is in a namespace of its own *)
ThirdApart    == [p \in Processes |-> IF p = p3 THEN there ELSE here]

OnlyHere    == {OneNamespace}
HereOrApart == {OneNamespace, TwoNamespaces, ThirdApart}

Before(pc) ==
  /\ proc = [p \in Processes |->
               [pc |-> IF p = p3 THEN pc ELSE "new", ino |-> None, seenIno |-> None,
                seenFresh |-> FALSE, seenOwner |-> None, old |-> Nothing, updates |-> 0]]
  /\ lock = IF pc = "closed" THEN Absent
            ELSE [ino |-> i1, owner |-> p3, fresh |-> TRUE]

(* p3 has opened the store before the other processes start; it has closed   *)
(* it, or it has crashed and left its lock.                                  *)
AfterThird ==
  /\ Before("closed") \/ Before("dead")
  /\ data = Nothing
  /\ namespaceOf \in Spaces
  /\ outrun = FALSE
=============================================================================
