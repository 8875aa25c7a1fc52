------------------------------ MODULE MCCrmTokens ------------------------------
(***************************************************************************)
(* Two processes with one credential directory.                            *)
(***************************************************************************)
EXTENDS CrmTokens, TLC

CONSTANTS p1, p2, s1, s2, s3

Symmetry == Permutations(Process) \cup Permutations(Session)
================================================================================
