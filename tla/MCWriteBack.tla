----------------------------- MODULE MCWriteBack -----------------------------
(* WriteBack for TLC: which of the tasks goes to which queue. *)
EXTENDS WriteBack

ByName ==
  [t \in Tasks |-> IF t = "p1" THEN "profile" ELSE "memory"]
=============================================================================
