---------------------------- MODULE ProvenanceInv ----------------------------
(***************************************************************************)
(* The inductive invariant of the ledger over version 1 and captured       *)
(* events: that of Ledger, and what the checks of Provenance add to it.    *)
(***************************************************************************)
EXTENDS Replay, LedgerInv

\* an event is a producer's envelope, a result, or a submitter's captured one
CapturedInv ==
    \A i \in 1..Maximum :
        events[i] \in Submittable \/ events[i] \in Captured \/ events[i].kind = "attribution"

\* an identity of evidence has one row
MintedOnce(rows) == \A r, s \in rows : r.item.version = s.item.version => r = s

VersionInv ==
    /\ MintedOnce(Items(Maximum))
    /\ \A schema \in {2, 3} : MintedOnce(Minted(schema, Maximum))

\* every version that a decision cites has a row from before it, with what it preserved
Resolves(d, i, rows) ==
    \A x \in Cited(d) :
        \E r \in rows : /\ r.item.version = x.version
                        /\ r.pos < i /\ r.available <= d.at /\ r.account = d.account
                        /\ r.item.type = x.key /\ r.item.value = x.value

ResolveInv ==
    \A i \in Recorded("decision", Maximum) \cup Recorded("captured_decision", Maximum) :
        Resolves(events[i], i, VersionsFor(events[i]))

\* what the collector required of a captured decision, and a replay will read again
HoldsUp(d) ==
    IF d.schema = 2
    THEN Lineage2(d.capture) /\ Context2(d) /\ Evaluates2(d)
    ELSE PredecessorIsSound(d.capture) /\ Context3(d) /\ Evaluates3(d)

ReplayInv ==
    \A i \in Recorded("captured_decision", Maximum) : HoldsUp(events[i])

\* a decision is of a registered artifact and of a recorded account
RegistryInv ==
    \A i \in Recorded("decision", Maximum) :
        /\ \E j \in Recorded("artifact", Maximum) : events[j].artifact = events[i].artifact
        /\ \E j \in Recorded("account", Maximum) : events[j].account = events[i].account

PInv ==
    /\ IInv /\ CapturedInv /\ VersionInv /\ ResolveInv /\ OneOriginalDecision
    /\ ReplayInv /\ RegistryInv
==============================================================================
