------------------------------- MODULE Provenance -------------------------------
(***************************************************************************)
(* Captured evidence and decisions in the ledger: version 2                *)
(* (collector/capture_contract.py, collector/provenance.py), and version 3 *)
(* (collector/crm_schema.py, collector/crm_provenance.py).                 *)
(*                                                                         *)
(* Either event carries the capture it was made from, a document that is   *)
(* its own hash.  Every identity in it is a digest of other parts of it,   *)
(* so it is the record of those parts: a unit, a version of evidence, the  *)
(* observation.  The tables of each version are the events of its schema,  *)
(* as in Ledger; a capture row is the first event with that capture.       *)
(***************************************************************************)
EXTENDS Ledger, TLC

CONSTANTS
    Captured,   \* the envelopes that submitters of captures may send
    Fields      \* per input key of version 3, the source fields it is mapped from

Later(s, t) == IF s > t THEN s ELSE t

--------------------------------------------------------------------------------
(* mapping.py: the inputs of a version 3 capture                              *)

FieldState(cap, field) ==
    IF \/ field \in cap.unavailable
       \/ field \in DOMAIN cap.properties /\ cap.properties[field] = NullValue
    THEN "unavailable"
    ELSE IF field \in DOMAIN cap.properties THEN "available" ELSE "absent"

InputStates(cap, key) == {FieldState(cap, f) : f \in Fields[key].all}

\* map_inputs: the fields of an input have one state; the second one dates it
MapInputs(cap) ==
    [key \in DOMAIN Fields |->
        LET state == CHOOSE s \in InputStates(cap, key) : TRUE
            available == state = "available"
        IN  [state |-> state,
             value |-> IF available THEN cap.properties[Fields[key].value] ELSE NullValue,
             observed |-> IF available /\ Fields[key].date # NoId
                          THEN cap.properties[Fields[key].date][2] ELSE NoId,
             source |-> cap.updated]]

--------------------------------------------------------------------------------
(* The identities of a capture.                                               *)

Inputs(cap) == IF cap.schema = 2 THEN cap.inputs ELSE MapInputs(cap)

\* identities: what was observed, and how it is processed
Observation(cap) ==
    [account |-> cap.account, finish |-> cap.finish, updated |-> cap.updated,
     properties |-> cap.properties, unavailable |-> cap.unavailable]

LogicalKey(cap) ==
    IF cap.schema = 2 THEN <<cap.account, cap.notification>> ELSE <<cap.account, Observation(cap)>>

Processing(cap) ==
    IF cap.schema = 2 THEN <<cap.selection>> ELSE <<cap.selection, cap.rule>>

\* in version 3 the unit that is reprocessed is part of the identity
Unit(cap) ==
    IF cap.schema = 2 THEN [key |-> LogicalKey(cap), processing |-> Processing(cap)]
    ELSE [key |-> LogicalKey(cap), processing |-> Processing(cap), reprocesses |-> cap.reprocesses]

AvailableKeys2(cap) ==
    {k \in DOMAIN cap.inputs : cap.inputs[k].state \in {"consumed", "ignored"}}
AvailableKeys3(cap) == {k \in DOMAIN Fields : MapInputs(cap)[k].state = "available"}
AvailableKeys(cap) == IF cap.schema = 2 THEN AvailableKeys2(cap) ELSE AvailableKeys3(cap)

\* evidence is available when it was read and its source had it
AvailableAt(cap, key) ==
    LET source == Inputs(cap)[key].source
    IN  IF source = NoId THEN cap.finish ELSE Later(cap.finish, source)

\* semantic_item: version 2 keeps no date for an input dated by its own value
SemanticItem(cap, key, supersedes) ==
    [type |-> key, value |-> Inputs(cap)[key].value, observed |-> Inputs(cap)[key].observed,
     supersedes |-> supersedes]

ObservationBody2(cap, item) ==
    [account |-> cap.account, item |-> item, finish |-> cap.finish,
     source |-> cap.inputs[item.type].source, available |-> AvailableAt(cap, item.type)]

ObservationBody3(cap, item) ==
    [account |-> cap.account, item |-> item, observation |-> Observation(cap),
     available |-> AvailableAt(cap, item.type)]

\* bound_item: the version of evidence is the digest of the observation
Versioned(item, body) ==
    [type |-> item.type, value |-> item.value, observed |-> item.observed,
     supersedes |-> item.supersedes, version |-> body]

BoundItem2(cap, key, supersedes) ==
    LET item == SemanticItem(cap, key, supersedes)
    IN  Versioned(item, ObservationBody2(cap, item))
BoundItem3(cap, key, supersedes) ==
    LET item == SemanticItem(cap, key, supersedes)
    IN  Versioned(item, ObservationBody3(cap, item))
BoundItem(cap, key, supersedes) ==
    IF cap.schema = 2 THEN BoundItem2(cap, key, supersedes) ELSE BoundItem3(cap, key, supersedes)

--------------------------------------------------------------------------------
(* What the envelope schema guarantees of a captured event.                   *)

ValidCapture2(cap) ==
    /\ cap.sequence \in Nat \ {0} /\ cap.finish <= cap.boundary
    /\ cap.reprocesses # Unit(cap)
    /\ \A k \in AvailableKeys2(cap) : AvailableAt(cap, k) <= cap.boundary

\* CaptureDocument
ValidCapture3(cap) ==
    /\ cap.sequence \in Nat \ {0}
    /\ cap.finish <= cap.boundary /\ cap.updated <= cap.boundary
    /\ cap.unavailable \cap DOMAIN cap.properties = {}
    /\ \A k \in DOMAIN Fields :
          /\ Cardinality(InputStates(cap, k)) = 1
          /\ LET x == MapInputs(cap)[k]
             IN  x.state = "available" /\ x.observed # NoId => x.observed <= cap.boundary

WireDecision(e) ==
    /\ e.at = e.capture.boundary /\ e.workflow = Processing(e.capture)
    /\ e.artifact = e.capture.rule /\ DecisionPayload(e)

\* a version 2 evidence event may leave out items
ValidateWire2(e) ==
    /\ ValidCapture2(e.capture) /\ e.account = e.capture.account
    /\ IF e.kind = "captured_decision" THEN WireDecision(e)
       ELSE /\ e.at = e.capture.finish /\ EvidencePayload(e)
            /\ \A x, y \in e.items : x.type = y.type => x = y
            /\ \A x \in e.items : /\ x.type \in AvailableKeys2(e.capture)
                                  /\ x = BoundItem2(e.capture, x.type, x.supersedes)

\* a unit of version 3 has one evidence event and one decision event, by their ids
ValidateWire3(e) ==
    /\ ValidCapture3(e.capture) /\ e.account = e.capture.account
    /\ e.id = <<e.kind, Unit(e.capture)>>
    /\ IF e.kind = "captured_decision" THEN WireDecision(e)
       ELSE /\ e.at = e.capture.finish /\ EvidencePayload(e)
            /\ {x.type : x \in e.items} = AvailableKeys3(e.capture)
            /\ \A x \in e.items : x = BoundItem3(e.capture, x.type, x.supersedes)

ASSUME CapturedAssumption ==
    \A e \in Captured : /\ e.kind \in {"captured_evidence", "captured_decision"}
                        /\ e.id # NoId
                        /\ e.schema \in {2, 3} /\ e.capture.schema = e.schema
                        /\ IF e.schema = 2 THEN ValidateWire2(e) ELSE ValidateWire3(e)

--------------------------------------------------------------------------------
(* The rows that a version has by a cutoff.                                   *)

Rows(kind, schema, cutoff) == {i \in Recorded(kind, cutoff) : events[i].schema = schema}
Decisions(schema, cutoff) == Rows("captured_decision", schema, cutoff)

CaptureRows(schema, cutoff) ==
    {events[i].capture : i \in Decisions(schema, cutoff)
                               \cup Rows("captured_evidence", schema, cutoff)}

\* the versions of evidence, with the capture that minted them
Minted(schema, cutoff) ==
    UNION {{[item |-> x, account |-> events[i].account, capture |-> events[i].capture,
             available |-> AvailableAt(events[i].capture, x.type), pos |-> i]
            : x \in events[i].items}
           : i \in Rows("captured_evidence", schema, cutoff)}

\* verify_artifact_row: the artifact is registered, and this runtime evaluates it
VerifiedArtifact(artifact) ==
    /\ \E i \in Recorded("artifact", Maximum) : events[i].artifact = artifact
    /\ artifact.evaluator = EvaluatorVersion

\* the rows that a historical context refers to
Referenced(e) ==
    {r \in Minted(e.schema, Maximum) :
        \E x \in e.context : x.key = r.item.type /\ x.version = r.item.version}

\* every input that is not absent, with the version of evidence that it had
ExpectedContext(cap, rows) ==
    {LET row == CHOOSE r \in rows : r.item.type = k
         available == k \in AvailableKeys(cap)
     IN  [key |-> k, available |-> available,
          value |-> IF available THEN Inputs(cap)[k].value ELSE NullValue,
          version |-> IF available THEN BoundItem(cap, k, row.item.supersedes).version ELSE NoId]
     : k \in {j \in DOMAIN Inputs(cap) : Inputs(cap)[j].state # "absent"}}

\* the context as it is evaluated: the date is that of the evidence
DatedContext(e) ==
    {LET rows == {r \in Referenced(e) : r.item.type = x.key}
     IN  x @@ [observed |-> IF rows = {} THEN NoId
                            ELSE (CHOOSE r \in rows : TRUE).item.observed]
     : x \in e.context}

UsedBy(e, result) ==
    {LET x == CHOOSE y \in e.context : y.key = f.key
     IN  [key |-> f.key, value |-> x.value, version |-> f.version,
          contribution |-> f.contribution] : f \in Consumed(result.factors)}

--------------------------------------------------------------------------------
(* provenance.py: what the collector requires of a version 2 event             *)

\* _capture_row: a unit, and a place in the order of an account, is one capture
Binds2(e) ==
    \A c \in CaptureRows(2, Maximum) :
        \/ Unit(c) = Unit(e.capture)
        \/ c.account = e.account /\ c.sequence = e.capture.sequence
        => c = e.capture

\* _verify_evidence: the version is that of the observation that the capture holds
Verified2(r, cap, key) == r.item = BoundItem2(cap, key, r.item.supersedes)

\* a correction names an earlier version of the same input of the account
Supersedes2(e, x) ==
    x.supersedes # NoId =>
        \E r \in Minted(2, Maximum) :
            /\ r.item.version = x.supersedes /\ r.item.version # x.version
            /\ r.account = e.account /\ r.item.type = x.type
            /\ r.available <= AvailableAt(e.capture, x.type)

\* _lineage: a unit reprocesses an earlier decision on its notification
Lineage2(cap) ==
    cap.reprocesses # NoId =>
        \E i \in Decisions(2, Maximum) :
            LET prior == events[i].capture
            IN  /\ Unit(prior) = cap.reprocesses
                /\ prior.account = cap.account /\ LogicalKey(prior) = LogicalKey(cap)
                /\ Processing(prior) # Processing(cap)
                /\ prior.sequence < cap.sequence

Context2(e) ==
    /\ \A k \in AvailableKeys2(e.capture) :
          \E r \in Referenced(e) : Verified2(r, e.capture, k)
    /\ e.context = ExpectedContext(e.capture, Referenced(e))

\* mutant: only the inputs are compared, not what the artifact makes of them
Evaluates2Inputs(e) ==
    LET result == Evaluate(e.artifact, DatedContext(e), e.at)
    IN  /\ VerifiedArtifact(e.artifact) /\ e.name = e.artifact.name /\ result.evaluated
        /\ \A f \in Consumed(result.factors) : e.capture.inputs[f.key].state # "ignored"
        /\ e.consumed # {} /\ e.consumed = UsedBy(e, result)

\* _evaluate: the decision is what the artifact makes of the context
Evaluates2(e) ==
    LET result == Evaluate(e.artifact, DatedContext(e), e.at)
    IN  /\ VerifiedArtifact(e.artifact) /\ e.name = e.artifact.name /\ result.evaluated
        /\ \A f \in Consumed(result.factors) : e.capture.inputs[f.key].state # "ignored"
        /\ e.consumed # {} /\ e.consumed = UsedBy(e, result)
        /\ e.result = result.verdict

Validates2(e) ==
    /\ Binds2(e)
    /\ IF e.kind = "captured_evidence"
       THEN \A x \in e.items : /\ \A r \in Minted(2, Maximum) : r.item.version # x.version
                               /\ Supersedes2(e, x)
       ELSE /\ \A i \in Decisions(2, Maximum) : Unit(events[i].capture) # Unit(e.capture)
            /\ Lineage2(e.capture) /\ Context2(e) /\ Evaluates2(e)

--------------------------------------------------------------------------------
(* crm_provenance.py: what the collector requires of a version 3 event         *)

Binds3(e) ==
    \A c \in CaptureRows(3, Maximum) :
        \/ Unit(c) = Unit(e.capture)
        \/ c.account = e.account /\ c.sequence = e.capture.sequence
        => c = e.capture

\* the evidence was also available when the decision was taken
Verified3(r, cap, key) ==
    r.item = BoundItem3(cap, key, r.item.supersedes) /\ r.available <= cap.boundary

\* _verify_origin: the capture that minted a version holds it
Origin3(r) == Verified3(r, r.capture, r.item.type) /\ r.account = r.capture.account

Supersedes3(e, x) ==
    x.supersedes # NoId =>
        \E r \in Minted(3, Maximum) :
            /\ r.item.version = x.supersedes /\ r.item.version # x.version /\ Origin3(r)
            /\ r.account = e.account /\ r.item.type = x.type
            /\ r.capture.sequence < e.capture.sequence
            /\ r.available <= AvailableAt(e.capture, x.type)

\* mutant: a further decision on an observation needs no predecessor
LineageUnlinked3(cap) ==
    cap.reprocesses # NoId =>
        \E i \in Decisions(3, Maximum) :
            LET prior == events[i].capture
            IN  /\ Unit(prior) = cap.reprocesses /\ Processing(prior) # Processing(cap)
                /\ prior.sequence < cap.sequence /\ prior.boundary <= cap.boundary

\* an observation is decided on once, unless a decision on it is reprocessed
Lineage3(cap) ==
    IF cap.reprocesses = NoId
    THEN \A i \in Decisions(3, Maximum) : LogicalKey(events[i].capture) # LogicalKey(cap)
    ELSE \E i \in Decisions(3, Maximum) :
            LET prior == events[i].capture
            IN  /\ Unit(prior) = cap.reprocesses
                /\ prior.account = cap.account /\ LogicalKey(prior) = LogicalKey(cap)
                /\ Processing(prior) # Processing(cap)
                /\ prior.sequence < cap.sequence /\ prior.boundary <= cap.boundary

Context3(e) ==
    /\ \A k \in AvailableKeys3(e.capture) :
          \E r \in Referenced(e) : Verified3(r, e.capture, k) /\ Origin3(r)
    /\ e.context = ExpectedContext(e.capture, Referenced(e))

Evaluates3(e) ==
    LET result == Evaluate(e.artifact, DatedContext(e), e.at)
    IN  /\ VerifiedArtifact(e.artifact) /\ e.name = e.artifact.name /\ result.evaluated
        /\ e.consumed # {} /\ e.consumed = UsedBy(e, result)
        /\ e.result = result.verdict

Validates3(e) ==
    /\ Binds3(e)
    /\ IF e.kind = "captured_evidence"
       THEN \A x \in e.items : /\ \A r \in Minted(3, Maximum) : r.item.version # x.version
                               /\ Supersedes3(e, x)
       ELSE /\ \A i \in Decisions(3, Maximum) : Unit(events[i].capture) # Unit(e.capture)
            /\ Lineage3(e.capture) /\ Context3(e) /\ Evaluates3(e)

--------------------------------------------------------------------------------
(* projections.py: the ingest of a captured event                              *)

ProduceCaptured(e) ==
    /\ Maximum < MaxEvents
    /\ \A i \in 1..Maximum : events[i].id # e.id
    /\ AccountRules(e)
    /\ IF e.schema = 2 THEN Validates2(e) ELSE Validates3(e)
    /\ Store(e)

\* every behaviour of the collector, over version 1 and captured events
CapturedNext == Next \/ \E e \in Captured : ProduceCaptured(e)

CapturedSpec == Init /\ [][CapturedNext]_vars

--------------------------------------------------------------------------------
(* Properties                                                                  *)

\* the versions of evidence that a decision may refer to: those of its own schema
VersionsFor(e) ==
    IF e.kind = "captured_decision" THEN Minted(e.schema, Maximum)
    ELSE {[item |-> r.item, account |-> r.account, available |-> r.at, pos |-> r.pos] :
             r \in Items(Maximum)}

\* INV-02, INV-04: every input a decision preserves resolves to one version of the
\* evidence of its account, the only one of that identity, recorded before the
\* decision, available by its boundary, and with the value the decision preserved.
InputsResolve ==
    \A i \in Recorded("decision", Maximum) \cup Recorded("captured_decision", Maximum) :
        \A x \in Cited(events[i]) :
            LET minted == {r \in VersionsFor(events[i]) : r.item.version = x.version}
            IN  /\ Cardinality(minted) = 1
                /\ \A r \in minted : /\ r.pos < i /\ r.available <= events[i].at
                                      /\ r.account = events[i].account
                                      /\ r.item.type = x.key /\ r.item.value = x.value

\* A version 3 observation of an account has one original decision, whatever its
\* processing: every other one goes back to it, each step to an earlier capture that
\* was decided on before.
OneOriginalDecision ==
    \A i \in Decisions(3, Maximum) :
        LET same == {j \in Decisions(3, Maximum) :
                        LogicalKey(events[j].capture) = LogicalKey(events[i].capture)}
            cap == events[i].capture
        IN  /\ \E j \in same : \A k \in same : events[k].capture.reprocesses = NoId <=> k = j
            /\ cap.reprocesses # NoId =>
                  \E j \in same : /\ Unit(events[j].capture) = cap.reprocesses /\ j < i
                                  /\ events[j].capture.sequence < cap.sequence
================================================================================
