-------------------------------- MODULE Ledger --------------------------------
(***************************************************************************)
(* The collector and the domain ledger (collector/service.py,              *)
(* collector/projections.py, ledger/schema.py) with the attribution policy *)
(* it recomputes (attribution/policy.py), for the version 1 events and the *)
(* version 2 outcome.                                                      *)
(*                                                                         *)
(* The ledger is the events table in ingest_sequence order.  Every other   *)
(* table is a copy of the event that wrote it, made in the same            *)
(* transaction, so a row is its event; only the reasons retained beside an *)
(* outcome's source claims are computed at ingest and have a variable of   *)
(* their own.  An ingest is one SQLite transaction over all its reads and  *)
(* writes, hence one step; a duplicate, a conflict, a rejection and a      *)
(* rolled back transaction write nothing, hence no step.                   *)
(*                                                                         *)
(* "at" is the instant the rules compare: recorded_at for evidence (its    *)
(* available_at), occurred_at for everything else (the decision boundary,  *)
(* the observation instant).  A decision has one class, as in the schema,  *)
(* and one attribution policy is implemented.  An artifact stands for its  *)
(* content and hash, its name for the identity registered with it.         *)
(***************************************************************************)
EXTENDS Integers, Sequences, FiniteSets, Logic

CONSTANTS
    Submittable,   \* the envelopes producers may submit, attributions apart
    System,        \* the _system principal
    Lookback,      \* LOOKBACK, in units of "at"
    Stamp,         \* distinguishable instants an attribution may be stamped with
    MaxEvents,     \* bound: events recorded
    MaxResults     \* bound: attribution results recorded

\* EvidenceRecordedPayload: every item has a version, and an envelope declares it once
EvidencePayload(e) ==
    /\ e.items # {} /\ \A x \in e.items : x.version # NoId
    /\ \A x, y \in e.items : x.version = y.version => x = y

\* HistoricalContextEntry: what was unavailable carries no value and no evidence
ContextEntry(x) ==
    IF x.available THEN x.version # NoId ELSE x.version = NoId /\ x.value = NullValue

\* DecisionRecordedPayload: what was consumed is an available entry, unchanged
DecisionPayload(e) ==
    /\ e.context # {} /\ UniqueKeys(e.context) /\ \A x \in e.context : ContextEntry(x)
    /\ e.consumed # {} /\ UniqueKeys(e.consumed)
    /\ \A u \in e.consumed : \E x \in e.context :
          x.key = u.key /\ x.available /\ x.value = u.value /\ x.version = u.version

OutcomePayload(e) == e.action # NoId /\ e.decision = NoId /\ e.supersedes = NoId

\* OutcomeEvaluatedV2Payload: the evaluation period and the state as of the observation
OutcomeV2Payload(e) ==
    /\ e.opened < e.closes /\ e.opened <= e.at
    /\ e.state = IF e.at < e.closes THEN "open" ELSE "closed"

\* what the envelope schema guarantees of a producer's envelope
WellFormed(e) ==
    /\ e.at \in Nat
    /\ e.id # NoId
    /\ e.kind \in {"account", "artifact", "evidence", "decision", "persona",
                   "action", "outcome"}
    /\ e.kind = "artifact" <=> e.account = System
    /\ e.kind = "artifact" => ArtifactPayload(e.artifact)
    /\ e.kind = "evidence" => EvidencePayload(e)
    /\ e.kind = "decision" => DecisionPayload(e)
    /\ e.kind = "outcome" => e.schema \in {1, 2}
    /\ e.kind = "outcome" /\ e.schema = 1 => OutcomePayload(e)
    /\ e.kind = "outcome" /\ e.schema = 2 => OutcomeV2Payload(e)

ASSUME SubmittableAssumption == \A e \in Submittable : WellFormed(e)
ASSUME BoundsAssumption == Lookback \in Nat /\ MaxEvents \in Nat /\ MaxResults \in Nat

VARIABLES
    events,     \* the events table, in ingest order
    retained    \* per event, the reasons retained beside an outcome's claims

vars == <<events, retained>>

Recorded(kind, cutoff) == {i \in 1..cutoff : events[i].kind = kind}
Find(kind, id, cutoff) == {i \in Recorded(kind, cutoff) : events[i].id = id}
Maximum == Len(events)

--------------------------------------------------------------------------------
(* attribution/policy.py                                                      *)

OK == "ok"

\* mutant: the last instant of the lookback lies outside of it
ActionProblemInside(found, account, observed, cutoff) ==
    IF found = {} THEN "not_recorded_by_cutoff"
    ELSE LET a == events[CHOOSE i \in found : TRUE]
         IN  CASE a.account # account -> "other_account"
               [] a.status = "failed" -> "failed"
               [] ~\E d \in Find("decision", a.decision, cutoff) :
                      events[d].account = account -> "not_linked_to_decision"
               [] ~(a.at < observed) -> "not_before_observation"
               [] observed - a.at >= Lookback -> "outside_lookback"
               [] OTHER -> OK

ActionProblem(found, account, observed, cutoff) ==
    IF found = {} THEN "not_recorded_by_cutoff"
    ELSE LET a == events[CHOOSE i \in found : TRUE]
         IN  CASE a.account # account -> "other_account"
               [] a.status = "failed" -> "failed"
               [] ~\E d \in Find("decision", a.decision, cutoff) :
                      events[d].account = account -> "not_linked_to_decision"
               [] ~(a.at < observed) -> "not_before_observation"
               [] observed - a.at > Lookback -> "outside_lookback"
               [] OTHER -> OK

\* mutant: a claim on another account's decision is good
DecisionProblemAnyAccount(found, account, observed) ==
    IF found = {} THEN "not_recorded_by_cutoff"
    ELSE LET d == events[CHOOSE i \in found : TRUE]
         IN  IF d.at < observed THEN OK ELSE "not_before_observation"

DecisionProblem(found, account, observed) ==
    IF found = {} THEN "not_recorded_by_cutoff"
    ELSE LET d == events[CHOOSE i \in found : TRUE]
         IN  CASE d.account # account -> "other_account"
               [] ~(d.at < observed) -> "not_before_observation"
               [] OTHER -> OK

\* source_claim_problems: each claim judged alone, OK when absent or usable
ClaimProblems(o, cutoff) ==
    [action   |-> IF o.action = NoId THEN OK
                  ELSE ActionProblem(Find("action", o.action, cutoff), o.account, o.at, cutoff),
     decision |-> IF o.decision = NoId THEN OK
                  ELSE DecisionProblem(Find("decision", o.decision, cutoff), o.account, o.at)]

NoReasons == [action |-> OK, decision |-> OK]

\* two claims, each valid, of an action and of a decision that is not its own
Disagree(o, cutoff) ==
    /\ o.action # NoId /\ o.decision # NoId
    /\ ClaimProblems(o, cutoff) = NoReasons
    /\ \E i \in Find("action", o.action, cutoff) : events[i].decision # o.decision

\* mutant: the account's actions are read past the cutoff
EligibleNow(o, cutoff) ==
    {i \in Recorded("action", Maximum) :
        /\ events[i].account = o.account
        /\ ActionProblem({i}, o.account, o.at, Maximum) = OK}

Eligible(o, cutoff) ==
    {i \in Recorded("action", cutoff) :
        /\ events[i].account = o.account
        /\ ActionProblem({i}, o.account, o.at, cutoff) = OK}

\* latest occurrence, then highest ingest sequence
MostRecent(found) ==
    CHOOSE i \in found : \A j \in found :
        \/ events[j].at < events[i].at
        \/ events[j].at = events[i].at /\ j <= i

Direct(o, cutoff) ==
    /\ o.action # NoId \/ o.decision # NoId
    /\ ClaimProblems(o, cutoff) = NoReasons
    /\ ~Disagree(o, cutoff)

\* the resolved references of a direct result
DirectAction(o, cutoff) ==
    IF ClaimProblems(o, cutoff).action = OK THEN o.action ELSE NoId
DirectDecision(o, cutoff) ==
    IF o.decision # NoId THEN o.decision
    ELSE events[CHOOSE i \in Find("action", o.action, cutoff) : TRUE].decision

Result(status, action, decision, claims, disagree) ==
    [status |-> status, action |-> action, decision |-> decision,
     claims |-> claims, disagree |-> disagree]

\* attribute: the result for the outcome version o at the snapshot cutoff
Attribute(o, cutoff) ==
    LET eligible == Eligible(o, cutoff)
        chosen == events[MostRecent(eligible)]
        claims == ClaimProblems(o, cutoff)
    IN  IF Direct(o, cutoff)
        THEN Result("direct", DirectAction(o, cutoff), DirectDecision(o, cutoff), claims, FALSE)
        ELSE IF eligible # {}
        THEN Result("inferred", chosen.id, chosen.decision, claims, Disagree(o, cutoff))
        ELSE Result("unresolved", NoId, NoId, claims, Disagree(o, cutoff))

\* the versions that supersede an outcome version, by the cutoff
Successors(outcome, cutoff) ==
    {i \in Recorded("outcome", cutoff) : events[i].supersedes = outcome}

\* the results of exactly this outcome version that nothing supersedes
Tips(outcome, cutoff) ==
    LET rows == {i \in Recorded("attribution", cutoff) : events[i].outcome = outcome}
    IN  {i \in rows : \A j \in rows : events[j].supersedes # events[i].id}

--------------------------------------------------------------------------------
(* collector/projections.py:validate_references, one operator per event type  *)

Items(cutoff) ==
    UNION {{[item |-> x, account |-> events[i].account, at |-> events[i].at, pos |-> i] :
               x \in events[i].items} : i \in Recorded("evidence", cutoff)}

ArtifactIdentity(e) ==
    \A i \in Recorded("artifact", Maximum) :
        events[i].artifact.name = e.artifact.name => events[i].artifact = e.artifact

\* mutant: a version may be minted again
EvidenceAnyVersion(e) ==
    \A x \in e.items : x.supersedes # NoId =>
        \E r \in Items(Maximum) : r.item.version = x.supersedes /\ r.at <= e.at

EvidenceResolves(e) ==
    \A x \in e.items :
        /\ \A r \in Items(Maximum) : r.item.version # x.version
        /\ x.supersedes # NoId =>
              \E r \in Items(Maximum) :
                  /\ r.item.version = x.supersedes
                  /\ r.account = e.account /\ r.item.type = x.type /\ r.at <= e.at

\* _decision_references: every version the context or the consumed inputs name
Cited(e) ==
    LET Reference(x) == [key |-> x.key, version |-> x.version, value |-> x.value]
    IN  {Reference(x) : x \in {y \in e.context : y.available}} \cup {Reference(x) : x \in e.consumed}

DecisionResolves(e) ==
    /\ \A x \in Cited(e) :
          \E r \in Items(Maximum) :
              /\ r.item.version = x.version
              /\ r.account = e.account /\ r.at <= e.at
              /\ r.item.type = x.key /\ r.item.value = x.value
    /\ \E i \in Recorded("artifact", Maximum) :
          events[i].artifact = e.artifact /\ e.artifact.name = e.name

\* persona.selected and action.recorded
DecisionReference(e) ==
    \E i \in Find("decision", e.decision, Maximum) :
        events[i].account = e.account /\ events[i].at <= e.at

\* outcome.evaluated version 1
ActionReference(e) ==
    \E i \in Find("action", e.action, Maximum) :
        events[i].account = e.account /\ events[i].at < e.at

\* mutant: a version may be superseded from another account
OutcomeSupersessionAcross(e) ==
    e.supersedes # NoId =>
        Find("outcome", e.supersedes, Maximum) # {} /\ Successors(e.supersedes, Maximum) = {}

\* outcome.evaluated version 2: the claims are not checked
OutcomeSupersession(e) ==
    e.supersedes # NoId =>
        /\ \E i \in Find("outcome", e.supersedes, Maximum) : events[i].account = e.account
        /\ Successors(e.supersedes, Maximum) = {}

\* mutant: a result without a link is always a first one
AttributionSupersessionUnlinked(e) ==
    e.supersedes # NoId =>
        \E i \in Tips(e.outcome, Maximum) :
            events[i].id = e.supersedes /\ events[i].cutoff < e.cutoff

AttributionSupersession(e) ==
    IF e.supersedes = NoId
    THEN Tips(e.outcome, Maximum) = {}
    ELSE \E i \in Tips(e.outcome, Maximum) :
            events[i].id = e.supersedes /\ events[i].cutoff < e.cutoff

\* attribution_event_id: derived from the operation, never chosen
AttributionId(outcome, cutoff) == <<outcome, cutoff>>

\* an id is never the absent reference
ASSUME IdAssumption == \A e \in Submittable, c \in 1..MaxEvents : AttributionId(e.id, c) # NoId

AttributionAgrees(e) ==
    \E i \in Find("outcome", e.outcome, Maximum) :
        /\ events[i].account = e.account
        /\ Successors(e.outcome, Maximum) = {}
        /\ e.cutoff \in 1..Maximum /\ i <= e.cutoff
        /\ ~\E j \in Recorded("attribution", Maximum) :
              events[j].outcome = e.outcome /\ events[j].cutoff = e.cutoff
        /\ e.id = AttributionId(e.outcome, e.cutoff)
        /\ AttributionSupersession(e)
        /\ e.result = Attribute(events[i], e.cutoff)

References(e) ==
    CASE e.kind = "account"     -> TRUE
      [] e.kind = "artifact"    -> ArtifactIdentity(e)
      [] e.kind = "evidence"    -> EvidenceResolves(e)
      [] e.kind = "decision"    -> DecisionResolves(e)
      [] e.kind \in {"persona", "action"} -> DecisionReference(e)
      [] e.kind = "outcome" /\ e.schema = 1 -> ActionReference(e)
      [] e.kind = "outcome" /\ e.schema = 2 -> OutcomeSupersession(e)
      [] e.kind = "attribution" -> AttributionAgrees(e)

--------------------------------------------------------------------------------
(* collector/service.py:ingest                                                *)

AccountRules(e) ==
    LET known == {i \in Recorded("account", Maximum) : events[i].account = e.account}
    IN  CASE e.kind = "artifact" -> TRUE
          [] e.kind = "account"  -> \A i \in known : events[i].identity = e.identity
          [] OTHER               -> known # {}

Accepts(e) ==
    /\ \A i \in 1..Maximum : events[i].id # e.id
    /\ AccountRules(e)
    /\ References(e)

\* the snapshot a claim is judged in includes the outcome itself
Reasons(e) == IF e.kind = "outcome" /\ e.schema = 2 THEN ClaimProblems(e, Maximum) ELSE NoReasons

Store(e) == /\ events' = Append(events, e)
            /\ retained' = Append(retained, Reasons(e))

Ingest(e) == Store(e) /\ Accepts(e)

Init == events = <<>> /\ retained = <<>>

Produce(e) == Maximum < MaxEvents /\ Ingest(e)

\* any submitter of outcome.attributed: every operation and every link may be tried,
\* and a result other than the policy's is refused
AttributionEnvelope(o, cutoff, supersedes, stamp) ==
    [kind |-> "attribution", id |-> AttributionId(o.id, cutoff), account |-> o.account,
     at |-> stamp, outcome |-> o.id, cutoff |-> cutoff, supersedes |-> supersedes,
     result |-> Attribute(o, cutoff)]

Results == {events[i].id : i \in Recorded("attribution", Maximum)}

Attribution(o, cutoff, supersedes, stamp) ==
    /\ Maximum < MaxEvents /\ Cardinality(Results) < MaxResults
    /\ Ingest(AttributionEnvelope(o, cutoff, supersedes, stamp))

Next == \/ \E e \in Submittable : Produce(e)
        \/ \E i \in Recorded("outcome", Maximum), c \in 1..Maximum,
              s \in Results \cup {NoId}, t \in Stamp : Attribution(events[i], c, s, t)

Spec == Init /\ [][Next]_vars

--------------------------------------------------------------------------------
(* Properties                                                                 *)

\* D-013: a version is replaced at most once, so that at every snapshot the effective
\* version of a chain is unambiguous, and by a later version of the same account.
OutcomeChainsAreLinear ==
    \A i, j \in Recorded("outcome", Maximum) :
        /\ events[i].supersedes = events[j].supersedes /\ events[i].supersedes # NoId => i = j
        /\ events[i].supersedes = events[j].id =>
              j < i /\ events[i].account = events[j].account

\* D-013: at every snapshot an outcome version has at most one effective result, and
\* exactly one once it has any: selection never has to choose and never comes up empty;
\* and it is the one computed from the newest snapshot, in whatever order runs submit.
OneEffectiveResult ==
    \A c \in 0..Maximum : \A i \in Recorded("attribution", c) :
        \E t \in Tips(events[i].outcome, c) :
            Tips(events[i].outcome, c) = {t} /\ events[i].cutoff <= events[t].cutoff

\* A result is reproducible after any later append: recomputed now, at its cutoff,
\* from the ledger as it has grown since, it is the result that was recorded.
ResultsAreReproducible ==
    \A i \in Recorded("attribution", Maximum) :
        \E o \in Find("outcome", events[i].outcome, events[i].cutoff) :
            events[i].cutoff < i /\ events[i].result = Attribute(events[o], events[i].cutoff)

\* the action is of the outcome's account and lies within the lookback before it
WithinReach(a, o) == a.account = o.account /\ a.at < o.at /\ o.at - a.at <= Lookback

\* Credit goes backwards in time only, and not too far: the decision a result names was
\* taken before the observation, and the action it names happened before it and within
\* the lookback, in the same account.  And no credit is missed: a result is unresolved
\* only if no action on a decision of the account, up to the last instant of the
\* lookback, was recorded by the cutoff.
CreditLooksBack ==
    \A i \in Recorded("attribution", Maximum) :
        LET r == events[i].result
        IN  \A o \in Find("outcome", events[i].outcome, Maximum) :
              /\ r.status # "unresolved" =>
                    \E d \in Find("decision", r.decision, events[i].cutoff) :
                        events[d].at < events[o].at /\ events[d].account = events[o].account
              /\ r.action # NoId =>
                    \E a \in Find("action", r.action, events[i].cutoff) :
                        WithinReach(events[a], events[o]) /\ events[a].decision = r.decision
              /\ r.status = "unresolved" =>
                    \A a \in Recorded("action", events[i].cutoff) :
                        WithinReach(events[a], events[o]) /\ events[a].status # "failed" =>
                            ~\E d \in Find("decision", events[a].decision, events[i].cutoff) :
                                events[d].account = events[o].account
================================================================================
