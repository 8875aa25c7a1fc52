------------------------------ MODULE MCHubspot ------------------------------
(***************************************************************************)
(* Two units of one company, the second with the newer notification.       *)
(***************************************************************************)
EXTENDS HubspotWriter

CONSTANTS u1, u2, c1, c2

OneVersion == [u \in Unit |-> u1]
NewerSecond == [u \in Unit |-> IF u = u1 THEN 1 ELSE 2]

Fresh == [done |-> {}, generation |-> 2, faults |-> 1]
Submitted == [done |-> {u1}, generation |-> 1, faults |-> 0]
Starts == {Fresh, Submitted}
Symmetry == Permutations(Caller)
=============================================================================
