------------------------ MODULE MCAttributionService ------------------------
(***************************************************************************)
(* Instances of AttributionService: a small scored account whose actions   *)
(* and corrections arrive while runs are under way.                        *)
(***************************************************************************)
EXTENDS AttributionService

CONSTANTS acme, e1, e2, e3, e4, e5, e6, e7, e8, r1, r2

L == INSTANCE LedgerCases WITH globex <- acme, e9 <- e8, e10 <- e8, e11 <- e8, e12 <- e8

Base == { L!Account(e1, acme, "first"), L!Artifact(e2, L!Scoring),
          L!Evidence(e3, acme, 0, {L!Item(1, "size", 10, NoId)}),
          L!Decision(e4, acme, 1, {L!Input(1, "size", 10)}, L!Scoring),
          L!Outcome(e5, 2, acme, 3, NoId, NoId, NoId) }

Symmetry == Permutations(Run)

\* an outcome, then two actions that change its result and a correction
Late == Base \cup { L!Action(e6, acme, 2, e4, "sent"),
                    L!Outcome(e7, 2, acme, 3, e6, NoId, e5) }

\* two chains, one of which is corrected
Chains == Base \cup { L!Action(e6, acme, 2, e4, "sent"),
                      L!Outcome(e7, 2, acme, 3, NoId, e4, e5),
                      L!Outcome(e8, 2, acme, 3, e6, NoId, NoId) }
=============================================================================
