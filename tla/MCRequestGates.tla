---------------------------- MODULE MCRequestGates ----------------------------
(* RequestGates for TLC: the limit of each subject, and the requests and   *)
(* the clients, which are alike.                                           *)
EXTENDS RequestGates, TLC

OneForEach == [s \in Subjects |-> 1]

Alike == Permutations(Requests) \cup Permutations(Clients)
=============================================================================
