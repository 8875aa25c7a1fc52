------------------------------ MODULE LedgerInv ------------------------------
(***************************************************************************)
(* The inductive invariant of Ledger: what the checks at ingest establish  *)
(* about the events there already are, and no later append takes away.     *)
(***************************************************************************)
EXTENDS Ledger

TypeInv == /\ events \in Seq({events[i] : i \in 1..Maximum})
           /\ Maximum <= MaxEvents

\* the kinds of event that Provenance adds, which nothing here reads
CapturedKind == {"captured_evidence", "captured_decision"}

\* an event is a producer's envelope, a result at a snapshot from before it, or captured
OriginInv ==
    \A i \in 1..Maximum :
        \/ events[i] \in Submittable
        \/ /\ events[i].kind = "attribution" /\ events[i].cutoff \in 1..(i - 1)
           /\ events[i].id # NoId
        \/ events[i].kind \in CapturedKind /\ events[i].id # NoId

IdInv == \A i, j \in 1..Maximum : events[i].id = events[j].id => i = j

\* what is superseded was recorded before
SupersessionInv ==
    \A i \in 1..Maximum :
        events[i].kind \in {"outcome", "attribution"} /\ events[i].supersedes # NoId =>
            \E j \in 1..(i - 1) :
                events[j].kind = events[i].kind /\ events[j].id = events[i].supersedes

\* an action was linked to a decision of its account that was taken before it
ActionInv ==
    \A i \in Recorded("action", Maximum) :
        \E d \in Find("decision", events[i].decision, i - 1) :
            events[d].account = events[i].account /\ events[d].at <= events[i].at

IInv ==
    /\ TypeInv /\ OriginInv /\ IdInv /\ SupersessionInv /\ ActionInv
    /\ OutcomeChainsAreLinear /\ OneEffectiveResult /\ ResultsAreReproducible
==============================================================================
