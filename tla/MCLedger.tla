------------------------------- MODULE MCLedger -------------------------------
(***************************************************************************)
(* The instance of Ledger, Provenance, Replay and Insights that TLC        *)
(* checks: every behaviour over one of the catalogues of LedgerCases or    *)
(* CaptureCases.                                                           *)
(***************************************************************************)
EXTENDS CaptureCases

\* A behaviour takes its envelopes from one of the catalogues.  Attributions may be
\* submitted for three of them; one result is enough to tell accounts apart, and every
\* cutoff is tried for the first, elsewhere the newest, as the command takes it.
CapturedCatalogues ==
    {e \in Captures2 \cup Captures3 : e.kind \in {"captured_evidence", "captured_decision"}}
Catalogues ==
    Sourced \cup Attributed \cup Accounts \cup Measured
        \cup ((Captures2 \cup Captures3) \ CapturedCatalogues)

SizeSignals == { [kind |-> "rule", key |-> "size", rule |-> Between("size", 10, 20)],
                 [kind |-> "context_value", key |-> "size", equals |-> Number(10)] }

\* Two of the catalogues are tried from one scored account on, registered in this order;
\* the others are submitted in every order.
Opening == << Account(e1, acme, "first"), Artifact(e2, Scoring),
              Evidence(e3, acme, 0, {Item(1, "size", 10, NoId)}) >>
InTurn(c, e) ==
    c \in {Attributed, Accounts} /\ Maximum < Len(Opening) => e = Opening[Maximum + 1]

VARIABLE catalogue

MCInit == Init /\ catalogue \in {Sourced, Attributed, Accounts, Measured, Captures2, Captures3}

MCNext ==
    /\ UNCHANGED catalogue
    /\ \/ \E e \in catalogue \ CapturedCatalogues : InTurn(catalogue, e) /\ Produce(e)
       \/ \E e \in catalogue \cap CapturedCatalogues : ProduceCaptured(e)
       \/ /\ catalogue \in {Attributed, Accounts, Measured}
          /\ catalogue = Accounts => Results = {}
          /\ \E i \in Recorded("outcome", Maximum),
                c \in IF catalogue = Attributed THEN 1..Maximum ELSE {Maximum},
                s \in Results \cup {NoId}, t \in Stamp : Attribution(events[i], c, s, t)

MCSpec == MCInit /\ [][MCNext]_<<vars, catalogue>>
===============================================================================
