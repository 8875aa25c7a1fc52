--------------------------------- MODULE Replay ---------------------------------
(***************************************************************************)
(* What is read back from the ledger about a decision: its exact           *)
(* reconstruction (replay/reconstruct.py, replay/crm_context.py,           *)
(* collector/provenance.py:load_v2_context), and the counterfactual that   *)
(* evaluates another artifact over the same preserved context              *)
(* (replay/counterfactual.py).  Nothing here writes.                       *)
(*                                                                         *)
(* A decision is the position of its event, whatever its version.  A       *)
(* failure names the step that failed.                                     *)
(***************************************************************************)
EXTENDS Provenance

Decided == {i \in 1..Maximum : events[i].kind \in {"decision", "captured_decision"}}

Failed(step) == [reconstructed |-> FALSE, failure |-> step]

--------------------------------------------------------------------------------
(* reconstruct.py                                                             *)

\* mutant: what is read is the last version that corrects the one preserved
LatestVersion(x) ==
    LET later == {r \in Items(Maximum) : r.item.supersedes = x.version}
    IN  IF later = {} THEN {r \in Items(Maximum) : r.item.version = x.version} ELSE later

\* load_evidence_version: by the immutable id that the decision preserved
EvidenceVersion(x) == {r \in Items(Maximum) : r.item.version = x.version}

\* load_context: a preserved reference that was available only later refuses the replay
ContextIsIntact(d) ==
    \A x \in {y \in d.context : y.available} :
        \E r \in EvidenceVersion(x) : r.at <= d.at

DatedContext1(d) ==
    {x @@ [observed |-> IF ~x.available THEN NoId
                        ELSE (CHOOSE r \in EvidenceVersion(x) : TRUE).item.observed]
     : x \in d.context}

\* load_v2_context: lineage and context are verified again, and what was consumed
PreservedContext2(d) ==
    /\ Lineage2(d.capture) /\ Context2(d)
    /\ \A u \in d.consumed :
          /\ \E x \in d.context : x.key = u.key /\ x.available
                                  /\ x.value = u.value /\ x.version = u.version
          /\ d.capture.inputs[u.key].state # "ignored"

\* crm_context.py:_lineage: the recorded predecessor of a unit
Predecessor(cap) ==
    {i \in Decisions(3, Maximum) : cap.reprocesses # NoId /\ Unit(events[i].capture) = cap.reprocesses}

PredecessorIsSound(cap) ==
    cap.reprocesses # NoId =>
        \E i \in Predecessor(cap) :
            LET prior == events[i].capture
            IN  /\ prior.account = cap.account /\ LogicalKey(prior) = LogicalKey(cap)
                /\ Processing(prior) # Processing(cap)
                /\ prior.sequence < cap.sequence /\ prior.boundary <= cap.boundary

\* _history_step
HistoryStep(d) == WireDecision(d) /\ Context3(d) /\ PredecessorIsSound(d.capture)

\* verified_crm_history: the decision and everything it goes back to
History(i) ==
    LET back[n \in 0..Maximum] ==
            IF n = 0 THEN {i}
            ELSE UNION {{j} \cup Predecessor(events[j].capture) : j \in back[n - 1]}
    IN  back[Maximum]

PreservedContext(i) ==
    CASE events[i].kind = "decision" -> ContextIsIntact(events[i])
      [] events[i].kind = "captured_decision" /\ events[i].schema = 2 ->
            PreservedContext2(events[i])
      [] events[i].kind = "captured_decision" /\ events[i].schema = 3 ->
            \A j \in History(i) : HistoryStep(events[j])

\* H(d)
HistoricalContext(i) ==
    IF events[i].kind = "decision" THEN DatedContext1(events[i]) ELSE DatedContext(events[i])

\* compare_with_recorded
AgreesWithRecord(d, result) ==
    /\ result.verdict = d.result
    /\ ConsumedTriples(result) = {<<u.key, u.version, u.contribution>> : u \in d.consumed}

Reproduced(d, result) ==
    IF ~result.evaluated THEN Failed("evaluation")
    ELSE IF ~AgreesWithRecord(d, result) THEN Failed("mismatch")
    ELSE [reconstructed |-> TRUE, artifact |-> d.artifact, result |-> result]

\* what a reconstruction reads of a decision, and what it makes of that
Read(i) ==
    [decision |-> events[i], verified |-> VerifiedArtifact(events[i].artifact),
     preserved |-> PreservedContext(i), context |-> HistoricalContext(i)]

Replayed(read) ==
    LET d == read.decision
    IN  IF ~read.verified THEN Failed("artifact")
        ELSE IF ~read.preserved THEN Failed("context")
        ELSE Reproduced(d, Evaluate(d.artifact, read.context, d.at))

Reconstruct(i) == Replayed(Read(i))

--------------------------------------------------------------------------------
(* counterfactual.py                                                          *)

\* replay: the selected artifact over the context of a decision that reproduces
Instead(original, artifact, result) ==
    IF ~original.reconstructed THEN original
    ELSE IF ~VerifiedArtifact(artifact) THEN Failed("artifact")
    ELSE IF ~result.evaluated THEN Failed("evaluation")
    ELSE [reconstructed |-> TRUE, original |-> original.result, result |-> result]

Counterfactual(i, artifact) ==
    Instead(Reconstruct(i), artifact, Evaluate(artifact, HistoricalContext(i), events[i].at))

NoFactor == [weight |-> 0, contribution |-> 0, version |-> NoId, state |-> "none"]

FactorOf(result, key) ==
    IF \E f \in result.factors : f.key = key
    THEN CHOOSE f \in result.factors : f.key = key ELSE NoFactor

\* mutant: two factors with one rule and one match are the same
ClassifyByRule(before, after) ==
    CASE before = NoFactor -> "added"
      [] after = NoFactor  -> "removed"
      [] OTHER -> IF /\ before.rule = after.rule
                     /\ before.state = after.state /\ before.verdict = after.verdict
                  THEN "unchanged" ELSE "changed"

Classify(before, after) ==
    CASE before = NoFactor -> "added"
      [] after = NoFactor  -> "removed"
      [] OTHER ->
         IF /\ before.rule = after.rule
            /\ before.state = after.state /\ before.verdict = after.verdict
         THEN IF before.weight = after.weight THEN "unchanged" ELSE "reweighted"
         ELSE "changed"

\* compare: one change for every key that either artifact has a factor on
ContributionChanges(replayed) ==
    {LET before == FactorOf(replayed.original, k)
         after == FactorOf(replayed.result, k)
     IN  [key |-> k, version |-> IF before.version # NoId THEN before.version ELSE after.version,
          delta |-> after.contribution - before.contribution,
          change |-> Classify(before, after)]
     : k \in {f.key : f \in replayed.original.factors \cup replayed.result.factors}}

MissingInputs(replayed) ==
    {[key |-> f.key, state |-> f.state] :
        f \in {g \in replayed.result.factors : g.state \in {"unavailable", "absent"}}}

--------------------------------------------------------------------------------
(* Properties                                                                 *)

\* INV-05: a decision of a capture reproduces as long as it is kept: the collector
\* evaluates it before it records it, with the context that a replay will read back.
CapturedDecisionsReplay ==
    \A i \in Decided : events[i].kind = "captured_decision" => Reconstruct(i).reconstructed

\* INV-01, INV-02: what is reconstructed of a decision, or why it is not, was settled
\* when it was recorded, and so was the context over which a comparison replays any other
\* artifact.  No correction of its evidence, no later artifact, and no later decision on
\* the same observation changes either.
VerdictsAreSealed ==
    [][\A i \in Decided : \A read \in {Read(i)'} :
          Replayed(read) = Reconstruct(i) /\ read.context = HistoricalContext(i)]_vars

\* compare explains the whole difference: the contributions of the keys that changed
\* add up to the change of the score, an artifact differs from itself in nothing, and what
\* the context lacks it lacks for either artifact, so it explains nothing.
ComparisonExplains ==
    \A i \in Decided, j \in Recorded("artifact", Maximum) :
        \A replayed \in {Counterfactual(i, events[j].artifact)} :
            replayed.reconstructed =>
            LET changes == ContributionChanges(replayed)
                told == {c \in changes : c.change # "unchanged"}
            IN
              /\ replayed.result.verdict.score - replayed.original.verdict.score
                    = SumFunction([c \in told |-> c.delta])
              /\ events[i].artifact = events[j].artifact => told = {}
              /\ \A x \in MissingInputs(replayed), c \in changes : c.key = x.key => c.delta = 0
              /\ ThresholdExceedsBound(events[j].artifact) =>
                    replayed.result.verdict.output = events[j].artifact.below
================================================================================
