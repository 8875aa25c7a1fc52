--------------------------------- MODULE Logic ---------------------------------
(***************************************************************************)
(* Logic artifacts and their evaluation (logic/rules.py,                   *)
(* logic/evaluator.py), as functions.                                      *)
(*                                                                         *)
(* A scalar is a pair of its type and its value, since the code never      *)
(* takes true for 1 (same_scalar).  A rule is the record that its text     *)
(* parses to, a text of no supported form is a rule of another shape.  An  *)
(* instant and a calendar date are a number of the same unit.  An artifact *)
(* stands for its content, which artifact_hash digests: two artifacts have *)
(* the same hash exactly when they are equal.                              *)
(***************************************************************************)
EXTENDS Integers, FiniteSets, Functions

CONSTANT NoId    \* an absent reference

Number(n) == <<"int", n>>
Text(s) == <<"text", s>>
NullValue == <<"null", 0>>

\* EVALUATOR_VERSION of this runtime
EvaluatorVersion == "evaluator-v1"

UniqueKeys(entries) == \A x, y \in entries : x.key = y.key => x = y

\* LogicArtifact: an artifact has factors, one for a key
ArtifactPayload(artifact) ==
    /\ artifact.factors # {} /\ IsFiniteSet(artifact.factors) /\ UniqueKeys(artifact.factors)
    /\ artifact.threshold \in Int /\ \A f \in artifact.factors : f.weight \in Int

--------------------------------------------------------------------------------
(* rules.py: what a rule says of an input.  An error refuses the evaluation.  *)

Verdict(holds) == IF holds THEN "match" ELSE "no_match"

BetweenMatches(rule, x) ==
    IF x.value[1] # "int" THEN "error"
    ELSE Verdict(rule.low <= x.value[2] /\ x.value[2] <= rule.high)

EqualsMatches(rule, x) ==
    IF x.value[1] # "text" THEN "error" ELSE Verdict(x.value[2] = rule.literal)

AtLeastMatches(rule, x) ==
    IF x.value[1] # "int" THEN "error" ELSE Verdict(x.value[2] >= rule.minimum)

\* the date of the evidence is compared, not the value
ObservedWithinMatches(rule, x, boundary) ==
    IF x.value[1] = "bool" \/ x.observed = NoId THEN "error"
    ELSE Verdict(x.observed <= boundary /\ boundary - x.observed <= rule.days)

Matches(rule, x, boundary) ==
    CASE rule.shape = "between"  -> BetweenMatches(rule, x)
      [] rule.shape = "equals"   -> EqualsMatches(rule, x)
      [] rule.shape = "at_least" -> AtLeastMatches(rule, x)
      [] rule.shape = "within"   -> ObservedWithinMatches(rule, x, boundary)

\* parse_rule: the closed grammar, and the rule is about its factor's key
Parses(factor) ==
    factor.rule.shape \in {"between", "equals", "at_least", "within"}
    /\ factor.rule.key = factor.key

--------------------------------------------------------------------------------
(* evaluator.py                                                                *)

InputState(entries) ==
    IF entries = {} THEN "absent"
    ELSE IF \E x \in entries : ~x.available THEN "unavailable" ELSE "consumed"

Contribution(factor, state, version, verdict) ==
    [key |-> factor.key, rule |-> factor.rule, weight |-> factor.weight, state |-> state,
     verdict |-> verdict,
     contribution |-> IF verdict = "match" THEN factor.weight ELSE 0,
     version |-> version]

\* one factor over the preserved inputs of the context
FactorResult(factor, context, boundary) ==
    LET entries == {x \in context : x.key = factor.key}
        entry == CHOOSE x \in entries : TRUE
    IN  IF InputState(entries) = "consumed"
        THEN Contribution(factor, "consumed", entry.version, Matches(factor.rule, entry, boundary))
        ELSE Contribution(factor, InputState(entries), NoId, "no_match")

Consumed(factors) == {f \in factors : f.state = "consumed"}

ContextState(x, artifact) ==
    IF ~x.available THEN "unavailable"
    ELSE IF \E f \in artifact.factors : f.key = x.key THEN "consumed" ELSE "ignored"

Refusal == [evaluated |-> FALSE]

\* the rules are parsed before any is applied, also of an absent input
Evaluable(artifact, context) ==
    /\ artifact.missing = "no_match_contributes_zero"
    /\ UniqueKeys(context)
    /\ \A f \in artifact.factors : Parses(f)

Scored(artifact, score) ==
    [score |-> score, threshold |-> artifact.threshold,
     output |-> IF score >= artifact.threshold THEN artifact.above ELSE artifact.below]

Total(artifact, context, factors) ==
    IF \E f \in factors : f.verdict = "error" THEN Refusal
    ELSE [evaluated |-> TRUE, factors |-> factors,
          verdict |-> Scored(artifact, SumFunction([f \in factors |-> f.contribution])),
          states |-> {[key |-> x.key, state |-> ContextState(x, artifact)] : x \in context}]

Evaluate(artifact, context, boundary) ==
    IF ~Evaluable(artifact, context) THEN Refusal
    ELSE Total(artifact, context,
               {FactorResult(f, context, boundary) : f \in artifact.factors})

\* what a decision records of the factors whose input was consumed
ConsumedTriples(result) ==
    {<<f.key, f.version, f.contribution>> : f \in Consumed(result.factors)}

PositiveWeightBound(artifact) ==
    SumFunction([f \in {g \in artifact.factors : g.weight > 0} |-> f.weight])

ThresholdExceedsBound(artifact) == PositiveWeightBound(artifact) < artifact.threshold
===============================================================================
