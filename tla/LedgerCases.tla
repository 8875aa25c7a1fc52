------------------------------ MODULE LedgerCases ------------------------------
(***************************************************************************)
(* Catalogues of envelopes for Ledger.  Producers submit any of them, in   *)
(* any order and any number of times, so every order that the collector    *)
(* accepts is explored; the catalogues hold the cases it must refuse too.  *)
(***************************************************************************)
EXTENDS Ledger

CONSTANTS acme, globex,                          \* accounts
          e1, e2, e3, e4, e5, e6, e7, e8, e9, e10, e11, e12   \* event ids

Account(id, a, identity) == [kind |-> "account", id |-> id, account |-> a, at |-> 0,
                             identity |-> identity]
Artifact(id, artifact) == [kind |-> "artifact", id |-> id, account |-> System, at |-> 0,
                           artifact |-> artifact]
Item(version, type, value, supersedes) ==
    [version |-> version, type |-> type, value |-> Number(value), observed |-> NoId,
     supersedes |-> supersedes]
Evidence(id, a, at, items) == [kind |-> "evidence", id |-> id, account |-> a, at |-> at,
                               items |-> items]

Factor(key, rule, weight) == [key |-> key, rule |-> rule, weight |-> weight]
Between(key, low, high) == [shape |-> "between", key |-> key, low |-> low, high |-> high]
Scores(factors, threshold) ==
    [name |-> "scoring", evaluator |-> EvaluatorVersion, factors |-> factors, threshold |-> threshold,
     missing |-> "no_match_contributes_zero", above |-> "PRIORITIZE", below |-> "DO_NOT_PRIORITIZE"]
Named(name, artifact) == [artifact EXCEPT !.name = name]
Scoring == Scores({Factor("size", Between("size", 10, 20), 1)}, 1)
Rescoring == Scores({Factor("size", Between("size", 10, 20), 1)}, 2)

\* a preserved input, and the date of its evidence, which is not part of the decision
Input(version, key, value) ==
    [entry |-> [key |-> key, available |-> TRUE, value |-> Number(value), version |-> version],
     observed |-> NoId]
Missing(key) ==
    [entry |-> [key |-> key, available |-> FALSE, value |-> NullValue, version |-> NoId],
     observed |-> NoId]
Dated(x) == [key |-> x.entry.key, available |-> x.entry.available, value |-> x.entry.value,
             version |-> x.entry.version, observed |-> x.observed]
Used(f, context) ==
    [key |-> f.key, value |-> (CHOOSE x \in context : x.key = f.key).value,
     version |-> f.version, contribution |-> f.contribution]

\* a decision as a producer who evaluates the artifact records it
Decision(id, a, at, inputs, artifact) ==
    LET context == {Dated(x) : x \in inputs}
        result == Evaluate(artifact, context, at)
    IN  [kind |-> "decision", id |-> id, account |-> a, at |-> at, workflow |-> "assisted",
         context |-> {x.entry : x \in inputs},
         consumed |-> {Used(f, context) : f \in Consumed(result.factors)},
         name |-> artifact.name, artifact |-> artifact, result |-> result.verdict]
Persona(id, a, at, d) == [kind |-> "persona", id |-> id, account |-> a, at |-> at, decision |-> d]
Action(id, a, at, d, status) == [kind |-> "action", id |-> id, account |-> a, at |-> at,
                                 decision |-> d, status |-> status]
Outcome(id, schema, a, at, action, d, supersedes) ==
    [kind |-> "outcome", id |-> id, schema |-> schema, account |-> a, at |-> at,
     action |-> action, decision |-> d, supersedes |-> supersedes,
     opened |-> 0, closes |-> at, state |-> "closed", opportunity |-> TRUE]

\* two accounts, one of them rediscovered under another identity, one artifact name
\* with two contents, evidence versions 1 to 3 with corrections forwards and
\* backwards in time and within one envelope, decisions on either side of the
\* availability of what they cite
Sourced ==
    { Account(e1, acme, "first"), Account(e2, acme, "second"), Account(e2, globex, "first"),
      Artifact(e3, Scoring), Artifact(e4, Rescoring), Artifact(e4, Scoring),
      Evidence(e5, acme, 2, {Item(1, "size", 10, NoId)}),
      Evidence(e6, acme, 3, {Item(1, "size", 20, NoId)}),
      Evidence(e6, acme, 3, {Item(2, "size", 20, 1), Item(3, "roles", 1, NoId)}),
      Evidence(e7, acme, 1, {Item(2, "size", 30, 1)}),
      Evidence(e7, globex, 3, {Item(2, "size", 30, 1)}),
      Evidence(e7, acme, 3, {Item(2, "size", 30, NoId), Item(3, "size", 40, 2)}),
      Decision(e8, acme, 2, {Input(1, "size", 10)}, Scoring),
      Decision(e8, acme, 2, {Input(2, "size", 20)}, Scoring),
      Decision(e8, globex, 3, {Input(1, "size", 10)}, Rescoring),
      Decision(e9, acme, 3, {Input(2, "size", 20), Input(3, "roles", 1)}, Rescoring),
      Persona(e10, acme, 2, e8), Persona(e10, acme, 1, e8),
      Action(e11, acme, 3, e8, "sent"), Action(e11, acme, 3, e9, "sent"),
      Outcome(e12, 1, acme, 3, e11, NoId, NoId), Outcome(e12, 1, acme, 4, e11, NoId, NoId) }
\* one scored account: two decisions, actions that tie, fail, lie outside the lookback
\* or belong to the other decision, and outcomes without a claim, with a claim that
\* resolves later, with claims that disagree, and with a correction of each kind
Attributed ==
    { Account(e1, acme, "first"), Artifact(e2, Scoring),
      Evidence(e3, acme, 0, {Item(1, "size", 10, NoId)}),
      Decision(e4, acme, 1, {Input(1, "size", 10)}, Scoring),
      Decision(e5, acme, 2, {Input(1, "size", 10)}, Scoring),
      Action(e6, acme, 2, e4, "sent"),
      Action(e7, acme, 2, e5, "sent"), Action(e7, acme, 3, e4, "failed"),
      Outcome(e8, 2, acme, 3, e7, e5, NoId), Outcome(e8, 2, acme, 3, NoId, NoId, NoId),
      Outcome(e9, 2, acme, 4, e6, NoId, e8), Outcome(e9, 1, acme, 3, e6, NoId, NoId),
      Outcome(e10, 2, acme, 2, e6, e4, e8), Outcome(e10, 2, acme, 3, e7, e4, e9) }

\* claims across accounts: the other account's decision, action and outcome chain
Accounts ==
    { Account(e1, acme, "first"), Artifact(e2, Scoring),
      Evidence(e3, acme, 0, {Item(1, "size", 10, NoId)}),
      Decision(e4, acme, 1, {Input(1, "size", 10)}, Scoring),
      Action(e5, acme, 2, e4, "sent"), Action(e5, globex, 2, e4, "sent"),
      Account(e6, globex, "first"),
      Evidence(e7, globex, 0, {Item(2, "size", 10, NoId)}),
      Decision(e8, globex, 1, {Input(2, "size", 10)}, Scoring),
      Outcome(e9, 2, acme, 3, NoId, NoId, NoId), Outcome(e9, 2, globex, 3, e5, NoId, NoId),
      Outcome(e10, 2, globex, 3, NoId, e4, NoId), Outcome(e10, 2, globex, 3, NoId, e8, e9),
      Outcome(e10, 1, globex, 3, e5, NoId, NoId) }

\* an account whose decisions are counted: of two workflows, one of them with a result
\* that does not reproduce; observations of the counted period and of another, open,
\* closed, closed without an answer, and a correction that moves the standing
Open(o) == [o EXCEPT !.closes = o.at + 1, !.state = "open", !.opportunity = NoId]
Unanswered(o) == [o EXCEPT !.opportunity = NoId]
Measured ==
    LET Manual(d) == [d EXCEPT !.workflow = "manual"]
        Misstated(d) == [d EXCEPT !.result.score = @ + 1]
    IN  { Account(e1, acme, "first"), Artifact(e2, Scoring),
          Evidence(e4, acme, 0, {Item(1, "size", 10, NoId)}),
          Decision(e5, acme, 1, {Input(1, "size", 10), Missing("roles")}, Scoring),
          Misstated(Manual(Decision(e6, acme, 1, {Input(1, "size", 10)}, Scoring))),
          Manual(Decision(e6, acme, 1, {Input(1, "size", 10)}, Scoring)),
          Open(Outcome(e7, 2, acme, 2, NoId, e5, NoId)), Outcome(e7, 2, acme, 3, NoId, e6, NoId),
          Outcome(e8, 2, acme, 3, NoId, e5, e7), Unanswered(Outcome(e8, 2, acme, 4, NoId, e5, e7)) }
===============================================================================
