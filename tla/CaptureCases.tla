------------------------------ MODULE CaptureCases ------------------------------
(***************************************************************************)
(* Catalogues of captured envelopes for Provenance, built the way that an  *)
(* adapter builds them, and the wrong ones that the collector must refuse. *)
(***************************************************************************)
EXTENDS LedgerCases, Insights

CONSTANTS p1, p2, p3, p4, p5, p6, p7, p8   \* ids of captured events of version 2

Within(key, days) == [shape |-> "within", key |-> key, days |-> days]

\* two rules that an adapter selects from, and one that only the second can be told by
SizeRule == Named("size", Scores({Factor("size", Between("size", 10, 20), 2),
                    Factor("stage", Between("stage", 1, 2), 1)}, 2))
DatedRule == Named("dated", Scores({Factor("size", Between("size", 10, 20), 1),
                     Factor("funding", Within("funding", 1), 2)}, 3))
RolesRule == Named("roles", Scores({Factor("roles", Between("roles", 1, 5), 2)}, 3))

\* version 3: the size is one field, the funding a value and its date
FieldMap ==
    [key \in {"size", "funding"} |->
        IF key = "size" THEN [all |-> {"Employees"}, value |-> "Employees", date |-> NoId]
        ELSE [all |-> {"Funding", "FundingDate"}, value |-> "Funding", date |-> "FundingDate"]]

ConsumedInput(value, source) ==
    [state |-> "consumed", value |-> Number(value), observed |-> NoId, source |-> source]
IgnoredInput(value) ==
    [state |-> "ignored", value |-> Number(value), observed |-> NoId, source |-> NoId]
NoInput == [state |-> "unavailable", value |-> NullValue, observed |-> NoId, source |-> NoId]

Capture2(sequence, notification, selection, reprocesses, finish, boundary, size) ==
    [schema |-> 2, account |-> acme, notification |-> notification, selection |-> selection,
     rule |-> CASE selection = "s1" -> SizeRule [] selection = "s2" -> Scoring
                [] selection = "s3" -> RolesRule,
     reprocesses |-> reprocesses, sequence |-> sequence, finish |-> finish,
     boundary |-> boundary,
     inputs |-> [size |-> ConsumedInput(size, 1), roles |-> IgnoredInput(1), stage |-> NoInput]]

Capture3(sequence, selection, reprocesses, finish, boundary, properties, unavailable) ==
    [schema |-> 3, account |-> acme, selection |-> selection,
     rule |-> IF selection = "s1" THEN Scoring ELSE DatedRule,
     reprocesses |-> reprocesses, sequence |-> sequence, finish |-> finish,
     updated |-> finish, boundary |-> boundary, properties |-> properties,
     unavailable |-> unavailable]

CapturedEvidence(id, cap, keys, supersedes) ==
    [kind |-> "captured_evidence", schema |-> cap.schema, id |-> id, account |-> cap.account,
     at |-> cap.finish, capture |-> cap,
     items |-> {BoundItem(cap, k, supersedes[k]) : k \in keys}]

NoneSuperseded == [k \in {"size", "roles", "stage", "funding"} |-> NoId]

\* a preserved input of a capture, over the version that was minted for it
Preserved(cap, x) ==
    IF x.type \in AvailableKeys(cap)
    THEN [key |-> x.type, available |-> TRUE, value |-> x.value, version |-> x.version,
          observed |-> x.observed]
    ELSE [key |-> x.type, available |-> FALSE, value |-> NullValue, version |-> NoId,
          observed |-> NoId]

Recording(id, cap, dated, result) ==
    [kind |-> "captured_decision", schema |-> cap.schema, id |-> id,
     account |-> cap.account, at |-> cap.boundary, capture |-> cap,
     workflow |-> Processing(cap), name |-> cap.rule.name, artifact |-> cap.rule,
     context |-> {[key |-> x.key, available |-> x.available, value |-> x.value,
                   version |-> x.version] : x \in dated},
     consumed |-> {Used(f, dated) : f \in Consumed(result.factors)},
     result |-> result.verdict]

Evaluated(id, cap, dated) == Recording(id, cap, dated, Evaluate(cap.rule, dated, cap.boundary))

\* a decision as an adapter makes it over the versions that were minted, "given" per key
\* the capture that minted it and what it superseded there
CapturedDecision(id, cap, given) ==
    LET inputs == Inputs(cap)
    IN  Evaluated(id, cap,
            {Preserved(cap, BoundItem(given[k].capture, k, given[k].supersedes)) :
                k \in {j \in DOMAIN inputs : inputs[j].state # "absent"}})

From(cap) == [k \in {"size", "roles", "stage", "funding"} |-> [capture |-> cap, supersedes |-> NoId]]

Untruthful(e) == [e EXCEPT !.result.score = @ + 1]

--------------------------------------------------------------------------------
(* Version 2: a notification that is processed, reprocessed under another     *)
(* selection, and captured again at another place; and a later notification   *)
(* that corrects it.                                                          *)

First2 == Capture2(1, "n1", "s1", NoId, 1, 2, 10)
Again2 == Capture2(2, "n1", "s1", NoId, 1, 2, 20)
Reprocessed2 == Capture2(2, "n1", "s2", Unit(First2), 1, 3, 10)
Ignored2 == Capture2(2, "n1", "s3", Unit(First2), 1, 3, 10)
Earlier2 == Capture2(1, "n2", "s2", NoId, 2, 3, 20)
Next2 == Capture2(3, "n2", "s1", NoId, 2, 3, 20)
Corrects2 == [NoneSuperseded EXCEPT !["size"] = BoundItem(First2, "size", NoId).version]
FromNext2 == [From(Next2) EXCEPT !["size"].supersedes = Corrects2["size"]]

Evidence2 ==
    {CapturedEvidence(x[1], x[2], x[3], x[4]) : x \in
        { <<p1, First2, {"size", "roles"}, NoneSuperseded>>,
          <<p1, First2, {"size"}, NoneSuperseded>>, <<p2, Again2, {"size"}, NoneSuperseded>>,
          <<p2, Earlier2, {"size"}, NoneSuperseded>>,
          <<p3, Next2, {"size", "roles"}, Corrects2>> }}
Decisions2 ==
    {CapturedDecision(x[1], x[2], x[3]) : x \in
        { <<p4, First2, From(First2)>>, <<p5, Again2, From(Again2)>>,
          <<p5, Ignored2, From(First2)>>, <<p6, Reprocessed2, From(First2)>>,
          <<p7, Next2, FromNext2>>, <<p8, Next2, From(Next2)>> }}

Captures2 ==
    { Account(e1, acme, "first"), Artifact(e2, SizeRule), Artifact(e3, Scoring),
      Artifact(e4, RolesRule) }
        \cup Evidence2 \cup Decisions2 \cup {Untruthful(d) : d \in {x \in Decisions2 : x.id = p4}}

--------------------------------------------------------------------------------
(* Version 3: an observation that is decided on, decided on again with and    *)
(* without a predecessor, and a later observation that corrects it.           *)

Seen == [Employees |-> Number(10), Funding |-> Text("A"), FundingDate |-> <<"date", 1>>]
SeenLater == [Employees |-> Number(20)]

First3 == Capture3(1, "s1", NoId, 1, 2, Seen, {})
Reprocessed3 == Capture3(2, "s2", Unit(First3), 1, 2, Seen, {})
Unlinked3 == Capture3(2, "s2", NoId, 1, 2, Seen, {})
Back3 == Capture3(3, "s1", Unit(Reprocessed3), 1, 2, Seen, {})
Next3 == Capture3(3, "s2", NoId, 2, 3, SeenLater, {"Funding", "FundingDate"})
Early3 == Capture3(2, "s1", NoId, 0, 3, SeenLater, {})
Corrects3 == [NoneSuperseded EXCEPT !["size"] = BoundItem(First3, "size", NoId).version]
FromNext3 == [From(Next3) EXCEPT !["size"].supersedes = Corrects3["size"]]

Id(kind, cap) == <<kind, Unit(cap)>>
Evidence3 ==
    {CapturedEvidence(Id("captured_evidence", x[1]), x[1], AvailableKeys3(x[1]), x[2]) : x \in
        { <<First3, NoneSuperseded>>, <<Next3, Corrects3>>, <<Early3, Corrects3>> }}
Decisions3 ==
    {CapturedDecision(Id("captured_decision", x[1]), x[1], x[2]) : x \in
        { <<First3, From(First3)>>, <<Reprocessed3, From(First3)>>,
          <<Unlinked3, From(First3)>>, <<Back3, From(First3)>>, <<Next3, FromNext3>>,
          <<Next3, From(Next3)>> }}

Captures3 ==
    { Account(e1, acme, "first"), Artifact(e2, Scoring), Artifact(e3, DatedRule) }
        \cup Evidence3 \cup Decisions3
        \cup {Untruthful(d) : d \in {x \in Decisions3 : x.capture = First3}}
================================================================================
