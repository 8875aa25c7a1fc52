----------------------------- MODULE MCCrmWriter -----------------------------
(* Small instances of CrmWriter for TLC. *)
EXTENDS CrmWriterInv

CONSTANTS t1, t2  \* the targets
=============================================================================
