-------------------------------- MODULE Insights --------------------------------
(***************************************************************************)
(* The decision metrics (analytics/insights.py), as functions of the       *)
(* ledger and a cutoff.  Only version 1 decisions are counted: the         *)
(* population is the decisions table, joined with the accounts.            *)
(***************************************************************************)
EXTENDS Replay

CONSTANTS
    QualifyingPeriod,      \* 90 days, in units of "at"
    Signals,               \* the signals: a rule, or a value of the context
    UnderComparison,       \* WORKFLOW_UNDER_COMPARISON
    ComparedWith           \* the workflow it is compared with

Share(n, total) == IF total = 0 THEN NoId ELSE <<n, total>>

--------------------------------------------------------------------------------
(* Facts.                                                                     *)

Population(cutoff) ==
    {i \in Recorded("decision", cutoff) :
        /\ events[i].account # System
        /\ \E j \in Recorded("account", Maximum) : events[j].account = events[i].account}

PeriodQualifies(o) == o.closes - o.opened = QualifyingPeriod

State(o) ==
    CASE o.schema = 1     -> "closed known"
      [] o.schema = 2 /\ o.state = "open" -> "open"
      [] o.schema = 2 /\ o.state # "open" ->
            IF o.opportunity = NoId THEN "closed unknown" ELSE "closed known"

\* mutant: versions are replaced by those recorded after the cutoff too
EffectiveIdsNow(cutoff) ==
    {i \in Recorded("outcome", cutoff) : Successors(events[i].id, Maximum) = {}}

\* _effective_ids: the versions that nothing supersedes by the cutoff
EffectiveIds(cutoff) ==
    {i \in Recorded("outcome", cutoff) : Successors(events[i].id, cutoff) = {}}

\* _observations: every effective version with its effective attribution
ObservationFact(i, cutoff) ==
    LET tips == Tips(events[i].id, cutoff)
        result == events[CHOOSE t \in tips : TRUE].result
    IN  [outcome |-> i, account |-> events[i].account, state |-> State(events[i]),
         exact |-> PeriodQualifies(events[i]), opportunity |-> events[i].opportunity,
         standing |-> IF tips = {} THEN "awaiting attribution" ELSE result.status,
         decision |-> IF tips = {} THEN NoId ELSE result.decision]

Observations(cutoff) == {ObservationFact(i, cutoff) : i \in EffectiveIds(cutoff)}

Credited(x) == x.standing \in {"direct", "inferred"}
Qualifying(x) == Credited(x) /\ x.state = "closed known" /\ x.exact

RuleSignalState(signal, result) ==
    LET factors == {f \in result.factors : f.key = signal.key /\ f.rule = signal.rule}
        factor == CHOOSE f \in factors : TRUE
    IN  CASE factors = {} -> "not applicable"
          [] OTHER -> CASE factor.state = "absent" -> "absent"
                        [] factor.state = "unavailable" -> "unavailable"
                        [] OTHER -> IF factor.verdict = "match" THEN "known true"
                                    ELSE "known false"

ContextValueSignalState(signal, d, result) ==
    LET states == {s \in result.states : s.key = signal.key}
        entry == CHOOSE x \in d.context : x.key = signal.key
    IN  CASE states = {} -> "absent"
          [] \E s \in states : s.state = "unavailable" -> "unavailable"
          [] OTHER -> IF entry.value = signal.equals THEN "known true" ELSE "known false"

SignalState(signal, d, reconstruction) ==
    IF ~reconstruction.reconstructed THEN "reconstruction failed"
    ELSE IF signal.kind = "rule" THEN RuleSignalState(signal, reconstruction.result)
    ELSE ContextValueSignalState(signal, d, reconstruction.result)

\* DecisionFacts, with the observations credited to the decision
Facts(read, observations) ==
    LET d == read.decision
        reconstruction == Replayed(read)
    IN  [decision |-> d.id, workflow |-> d.workflow, artifact |-> d.artifact,
         reconstructed |-> reconstruction.reconstructed,
         available |-> {x.key : x \in {y \in d.context : y.available}},
         consumed |-> {x.key : x \in d.consumed},
         observations |-> {x \in observations : Credited(x) /\ x.decision = d.id},
         signals |-> [s \in Signals |-> SignalState(s, d, reconstruction)],
         factors |-> IF reconstruction.reconstructed THEN reconstruction.result.factors ELSE {}]

FactsOf(reads, observations) == {Facts(read, observations) : read \in reads}

Reads(cutoff) == {Read(i) : i \in Population(cutoff)}
AllFacts(cutoff) == FactsOf(Reads(cutoff), Observations(cutoff))

\* decision_facts: one decision, with the observations of its own account
DecisionFacts(i, cutoff) ==
    Facts(Read(i), {x \in Observations(cutoff) : x.account = events[i].account})

Standing(f) ==
    LET states == {x.state : x \in f.observations}
    IN  CASE "closed known" \in states   -> "evaluated"
          [] "closed known" \notin states /\ "closed unknown" \in states -> "unknown"
          [] states = {"open"}           -> "open"
          [] states = {}                 -> "unattributed"

QualifyingObservations(f) == {x \in f.observations : Qualifying(x)}

--------------------------------------------------------------------------------
(* Aggregation.                                                               *)

CountEligible(f) == f.reconstructed /\ QualifyingObservations(f) # {}
CountPositive(f) ==
    CountEligible(f) /\ \E x \in QualifyingObservations(f) : x.opportunity = TRUE

ExcludedOtherPeriod(facts) ==
    {f \in facts : Standing(f) = "evaluated" /\ QualifyingObservations(f) = {}}
ExcludedFailed(facts) == {f \in facts : ~f.reconstructed}
ExcludedNotEvaluated(facts) == {f \in facts : Standing(f) # "evaluated"}

\* the value is of the eligible decisions, and there is none when no decision is
Rate(facts) ==
    LET eligible == Cardinality({f \in facts : CountEligible(f)})
        positives == Cardinality({f \in facts : CountPositive(f)})
    IN  [cohort |-> Cardinality(facts), eligible |-> eligible, positives |-> positives,
         otherPeriod |-> Cardinality(ExcludedOtherPeriod(facts)),
         failed |-> Cardinality(ExcludedFailed(facts)),
         notEvaluated |-> Cardinality(ExcludedNotEvaluated(facts)),
         value |-> Share(positives, eligible)]

\* in points, as a fraction of the two cohorts' sizes
Comparison(present, absent) ==
    [present |-> Rate(present), absent |-> Rate(absent),
     difference |->
        IF Rate(present).eligible = 0 \/ Rate(absent).eligible = 0 THEN NoId
        ELSE <<100 * (Rate(present).positives * Rate(absent).eligible
                      - Rate(absent).positives * Rate(present).eligible),
               Rate(present).eligible * Rate(absent).eligible>>]

Standings(facts) ==
    [s \in {"evaluated", "unknown", "open", "unattributed"} |->
        Cardinality({f \in facts : Standing(f) = s})]

Coverage(observations) ==
    LET Count(P(_)) == Cardinality({x \in observations : P(x)})
    IN  [standings |-> [s \in {"awaiting attribution", "unresolved", "direct", "inferred"} |->
                           Cardinality({x \in observations : x.standing = s})],
         states |-> [s \in {"open", "closed known", "closed unknown"} |->
                        Cardinality({x \in observations : x.state = s})],
         otherPeriod |-> Cardinality({x \in observations : ~x.exact}),
         qualifying |-> Count(Qualifying), total |-> Cardinality(observations)]

\* the decisions of one artifact, and those whose factor on the signal's key matched
RuleMatches(signal, facts) ==
    {LET members == {f \in facts : f.reconstructed /\ f.artifact = artifact}
         matched == {f \in members : \E x \in f.factors :
                                        x.key = signal.key /\ x.verdict = "match"}
     IN  [artifact |-> artifact, decisions |-> Cardinality(members),
          matched |-> Cardinality(matched)]
     : artifact \in {f.artifact : f \in {g \in facts : g.reconstructed}}}

SignalRow(signal, facts) ==
    LET In(state) == {f \in facts : f.signals[signal] = state}
    IN  [states |-> [s \in {"known true", "known false", "unavailable", "absent",
                            "not applicable", "reconstruction failed"} |-> Cardinality(In(s))],
         available |-> Cardinality({f \in facts : signal.key \in f.available}),
         consumed |-> Cardinality({f \in facts : signal.key \in f.consumed}),
         matched |-> RuleMatches(signal, facts),
         comparison |-> Comparison(In("known true"), In("known false"))]

\* insights: every metric of the decisions and the observations at one cutoff
Aggregate(facts, observations) ==
    LET Cohort(w) == {f \in facts : f.workflow = w}
    IN  [population |-> Cardinality(facts),
         reconstructed |-> Cardinality({f \in facts : f.reconstructed}),
         observations |-> Coverage(observations),
         standings |-> Standings(facts), overall |-> Rate(facts),
         signals |-> [s \in Signals |-> SignalRow(s, facts)],
         workflows |-> [w \in {f.workflow : f \in facts} |->
                           [standings |-> Standings(Cohort(w)), rate |-> Rate(Cohort(w))]],
         comparison |-> Comparison(Cohort(UnderComparison), Cohort(ComparedWith))]

MetricsOf(reads, observations) == Aggregate(FactsOf(reads, observations), observations)
Metrics(cutoff) == MetricsOf(Reads(cutoff), Observations(cutoff))

--------------------------------------------------------------------------------
(* Properties                                                                 *)

\* The facts of a decision are those that the metrics count it with, although only
\* the observations of its own account are read for it: nothing of another account
\* is ever credited to it.
FactsAreOfTheAccount ==
    \A i \in Population(Maximum) : DecisionFacts(i, Maximum) \in AllFacts(Maximum)

\* D-014: the metrics at a cutoff are those of the ledger as it stood: no event that is
\* recorded later, a correction, an attribution or an artifact, moves any of them.
InsightsAreReproducible ==
    [][\A c \in 1..Maximum :
          \A reads \in {Reads(c)'}, observations \in {Observations(c)'} :
              MetricsOf(reads, observations) = Metrics(c)]_vars
================================================================================
