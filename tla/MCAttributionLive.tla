--------------------------- MODULE MCAttributionLive ---------------------------
(***************************************************************************)
(* The instances of MCAttributionService, with fairness.                   *)
(***************************************************************************)
EXTENDS MCAttributionService, AttributionLive
================================================================================
