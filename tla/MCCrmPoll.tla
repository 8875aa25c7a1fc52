------------------------------- MODULE MCCrmPoll -------------------------------
(* Instances of CrmPoll: one target and three ticks, two targets and two ticks. *)
EXTENDS CrmPoll, TLC

CONSTANTS x1, x2, t1, t2, t3, a, b
OneTarget == <<x1>>
TwoTargets == <<x1, x2>>
TickSymmetry == Permutations(Tick)
================================================================================
