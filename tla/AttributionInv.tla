---------------------------- MODULE AttributionInv ----------------------------
(***************************************************************************)
(* The inductive invariant behind the theorems of AttributionProofs: that  *)
(* of the ledger, and what the envelopes in flight and the kept ones owe   *)
(* to the snapshot they were built from.                                   *)
(***************************************************************************)
EXTENDS AttributionService, LedgerInv

\* every event but an artifact comes after the discovery of its account
AccountInv ==
    \A i \in 1..Maximum : events[i].kind # "artifact" =>
        \E j \in Recorded("account", i) : events[j].account = events[i].account

\* what no producer submitted is a result, with the identity of its operation
DerivedInv ==
    \A i \in 1..Maximum :
        \/ events[i] \in Submittable
        \/ /\ events[i].kind = "attribution"
           /\ events[i].id = AttributionId(events[i].outcome, events[i].cutoff)

\* what a submitter of results may send
Envelopes ==
    {AttributionEnvelope(events[x[1]], x[2], x[3], x[4]) :
        x \in Recorded("outcome", Maximum) \X (1..Maximum) \X (Results \cup {NoId}) \X Stamp}

RunRecord ==
    [at : {"idle", "read", "send"}, reevaluate : BOOLEAN, cutoff : 0..Maximum,
     todo : SUBSET (1..Maximum), envelope : Envelopes \cup {NoEnvelope}, tries : Nat]

TypeOK == run \in [Run -> RunRecord] /\ held \subseteq Envelopes

\* e is the result of a version i that the snapshot c has as effective, in the place of the
\* one effective there
BuiltFrom(e, i, c) ==
    /\ i \in Recorded("outcome", c) /\ Successors(events[i].id, c) = {}
    /\ \E s \in {events[t].id : t \in Tips(events[i].id, c)} \cup {NoId}, t \in Stamp :
          /\ Tips(events[i].id, c) # {} => s # NoId
          /\ e = AttributionEnvelope(events[i], c, s, t)

\* a run has chains of its snapshot left to visit, and sends what it built from it
Sound(r) ==
    run[r].at # "idle" =>
        /\ run[r].cutoff # 0 /\ run[r].todo # {} /\ run[r].todo \subseteq ChainRoots(run[r].cutoff)
        /\ run[r].at = "send" => \E i \in 1..run[r].cutoff : BuiltFrom(run[r].envelope, i, run[r].cutoff)

RunInv == \A r \in Run : Sound(r)

SInv == IInv /\ AccountInv /\ DerivedInv /\ TypeOK /\ RunInv
===============================================================================
