--------------------------- MODULE ProvenanceProofs ---------------------------
(***************************************************************************)
(* Theorems about the ledger over version 1 and captured events, for every *)
(* catalogue of envelopes, every map of source fields and every bound.     *)
(***************************************************************************)
EXTENDS ProvenanceInv, Insights, LedgerProofs

--------------------------------------------------------------------------------
(* What a step is                                                             *)

\* What the collector checked of an event that it appended.
Checked(e) ==
    \/ e \in Submittable /\ AccountRules(e) /\ References(e)
    \/ e.kind = "attribution"
    \/ e \in Captured /\ IF e.schema = 2 THEN Validates2(e) ELSE Validates3(e)

\* The kind of an event says what it is.
LEMMA KindsOf ==
    ASSUME NEW e
    PROVE  /\ e \in Submittable => e.kind \notin CapturedKind \cup {"attribution"} /\ WellFormed(e)
           /\ e \in Captured => /\ e.kind \in CapturedKind /\ e.id # NoId
                                /\ e.schema \in {2, 3} /\ e.capture.schema = e.schema
                                /\ e.schema = 2 => ValidateWire2(e)
                                /\ e.schema = 3 => ValidateWire3(e)
<1>1. ASSUME e \in Submittable
      PROVE  e.kind \notin CapturedKind \cup {"attribution"} /\ WellFormed(e)
  BY <1>1, SubmittableAssumption DEF WellFormed, CapturedKind
<1>2. ASSUME e \in Captured
      PROVE  /\ e.kind \in CapturedKind /\ e.id # NoId
             /\ e.schema \in {2, 3} /\ e.capture.schema = e.schema
             /\ e.schema = 2 => ValidateWire2(e)
             /\ e.schema = 3 => ValidateWire3(e)
  BY <1>2, CapturedAssumption DEF CapturedKind
<1> QED BY <1>1, <1>2

\* A step that changes the ledger appends one event that was checked.
LEMMA CapturedStepAppends ==
    ASSUME [CapturedNext]_vars
    PROVE  \/ UNCHANGED events
           \/ \E e : /\ events' = Append(events, e) /\ Admits(e) /\ Checked(e)
                     /\ Maximum < MaxEvents
<1>1. CASE [Next]_vars
  <2>1. CASE \E e \in Submittable : Produce(e)
    BY <2>1 DEF Produce, Ingest, Store, Accepts, Admits, Checked
  <2>2. CASE \E e : /\ events' = Append(events, e) /\ Accepts(e) /\ Maximum < MaxEvents
                    /\ e \in Submittable \/ e.kind = "attribution"
    BY <2>2 DEF Accepts, Admits, Checked
  <2> QED BY <1>1, <2>2, StepAppends
<1>2. CASE \E e \in Captured : ProduceCaptured(e)
  <2>1. PICK e \in Captured : ProduceCaptured(e)
    BY <1>2
  <2>2. Admits(e)
    BY <2>1, KindsOf DEF ProduceCaptured, Admits
  <2>3. Checked(e) /\ events' = Append(events, e) /\ Maximum < MaxEvents
    BY <2>1 DEF ProduceCaptured, Checked, Store
  <2> QED BY <2>2, <2>3
<1> QED BY <1>1, <1>2 DEF CapturedNext

\* Every event is an envelope of a submitter, or a result.
LEMMA CapturedIsKept ==
    ASSUME CapturedInv, NEW e, NEW M, Grown(e, M), Checked(e)
    PROVE  CapturedInv'
<1>1. 1..Maximum' = 1..M \cup {M + 1} /\ events'[M + 1] = e /\ Maximum = M
  BY DEF Grown
<1>2. \A i \in 1..M : events'[i] = events[i]
  BY DEF Grown
<1> QED BY <1>1, <1>2 DEF CapturedInv, Checked

--------------------------------------------------------------------------------
(* The rows of evidence                                                       *)

\* The row of a version 1 item, and of a captured one.
ItemRow(e, i, x) == [item |-> x, account |-> e.account, at |-> e.at, pos |-> i]
MintedRow(e, i, x) ==
    [item |-> x, account |-> e.account, capture |-> e.capture,
     available |-> AvailableAt(e.capture, x.type), pos |-> i]

\* What the rows of a ledger are.
LEMMA RowsOf ==
    ASSUME NEW c
    PROVE  /\ \A r : r \in Items(c) <=>
                 \E i \in 1..c : /\ events[i].kind = "evidence"
                                 /\ \E x \in events[i].items : r = ItemRow(events[i], i, x)
           /\ \A r, schema : r \in Minted(schema, c) <=>
                 \E i \in 1..c : /\ events[i].kind = "captured_evidence"
                                 /\ events[i].schema = schema
                                 /\ \E x \in events[i].items : r = MintedRow(events[i], i, x)
<1>1. ASSUME NEW r
      PROVE  r \in Items(c) <=>
                 \E i \in 1..c : /\ events[i].kind = "evidence"
                                 /\ \E x \in events[i].items : r = ItemRow(events[i], i, x)
  BY DEF Items, Recorded, ItemRow
<1>2. ASSUME NEW r, NEW schema
      PROVE  r \in Minted(schema, c) <=>
                 \E i \in 1..c : /\ events[i].kind = "captured_evidence"
                                 /\ events[i].schema = schema
                                 /\ \E x \in events[i].items : r = MintedRow(events[i], i, x)
  BY DEF Minted, Rows, Recorded, MintedRow
<1> QED BY <1>1, <1>2

\* The rows after an append are those there were and those of the new event.
LEMMA RowsGrow ==
    ASSUME NEW e, NEW M, Grown(e, M)
    PROVE  /\ \A r : r \in Items(Maximum)' <=>
                 \/ r \in Items(M)
                 \/ e.kind = "evidence" /\ \E x \in e.items : r = ItemRow(e, M + 1, x)
           /\ \A r, schema : r \in Minted(schema, Maximum)' <=>
                 \/ r \in Minted(schema, M)
                 \/ /\ e.kind = "captured_evidence" /\ e.schema = schema
                    /\ \E x \in e.items : r = MintedRow(e, M + 1, x)
<1>1. /\ 1..Maximum' = 1..M \cup {M + 1} /\ events'[M + 1] = e /\ Maximum = M
      /\ \A i \in 1..M : events'[i] = events[i]
  BY DEF Grown
<1>2. ASSUME NEW r
      PROVE  r \in Items(Maximum)' <=>
                 \/ r \in Items(M)
                 \/ e.kind = "evidence" /\ \E x \in e.items : r = ItemRow(e, M + 1, x)
  <2>1. r \in Items(Maximum)' <=>
           \E i \in 1..Maximum' : /\ events'[i].kind = "evidence"
                                  /\ \E x \in events'[i].items : r = ItemRow(events'[i], i, x)
    BY DEF Items, Recorded, ItemRow
  <2>2. r \in Items(M) <=>
           \E i \in 1..M : /\ events[i].kind = "evidence"
                           /\ \E x \in events[i].items : r = ItemRow(events[i], i, x)
    BY RowsOf
  <2> QED BY <1>1, <2>1, <2>2
<1>3. ASSUME NEW r, NEW schema
      PROVE  r \in Minted(schema, Maximum)' <=>
                 \/ r \in Minted(schema, M)
                 \/ /\ e.kind = "captured_evidence" /\ e.schema = schema
                    /\ \E x \in e.items : r = MintedRow(e, M + 1, x)
  <2>1. r \in Minted(schema, Maximum)' <=>
           \E i \in 1..Maximum' : /\ events'[i].kind = "captured_evidence"
                                  /\ events'[i].schema = schema
                                  /\ \E x \in events'[i].items : r = MintedRow(events'[i], i, x)
    BY DEF Minted, Rows, Recorded, MintedRow
  <2>2. r \in Minted(schema, M) <=>
           \E i \in 1..M : /\ events[i].kind = "captured_evidence" /\ events[i].schema = schema
                           /\ \E x \in events[i].items : r = MintedRow(events[i], i, x)
    BY RowsOf
  <2> QED BY <1>1, <2>1, <2>2
<1> QED BY <1>2, <1>3

\* validate_references, validate_v2, validate_v3: a version is minted once.
LEMMA VersionsStayUnique ==
    ASSUME VersionInv, NEW e, NEW M, Grown(e, M), Checked(e)
    PROVE  VersionInv'
<1>1. Maximum = M
  BY DEF Grown
<1>2. MintedOnce(Items(Maximum)')
  <2>1. \A r, s \in Items(M) : r.item.version = s.item.version => r = s
    BY <1>1 DEF VersionInv, MintedOnce
  <2>2. ASSUME e.kind = "evidence", NEW x \in e.items
        PROVE  /\ \A y \in e.items : x.version = y.version => x = y
               /\ \A r \in Items(M) : r.item.version # x.version
    <3>1. References(e) /\ WellFormed(e)
      BY <2>2, KindsOf DEF Checked, CapturedKind
    <3>2. EvidenceResolves(e) /\ EvidencePayload(e)
      BY <2>2, <3>1 DEF References, WellFormed
    <3> QED BY <1>1, <2>2, <3>2 DEF EvidenceResolves, EvidencePayload
  <2>3. \A x : ItemRow(e, M + 1, x).item = x
    BY DEF ItemRow
  <2>4. \A r : r \in Items(Maximum)' <=>
           \/ r \in Items(M)
           \/ e.kind = "evidence" /\ \E x \in e.items : r = ItemRow(e, M + 1, x)
    BY RowsGrow
  <2> QED BY <2>1, <2>2, <2>3, <2>4 DEF MintedOnce
<1>3. ASSUME NEW schema \in {2, 3} PROVE MintedOnce(Minted(schema, Maximum)')
  <2>1. \A r, s \in Minted(schema, M) : r.item.version = s.item.version => r = s
    BY <1>1 DEF VersionInv, MintedOnce
  <2>2. ASSUME e.kind = "captured_evidence", e.schema = schema, NEW x \in e.items
        PROVE  /\ \A y \in e.items : x.version = y.version => x = y
               /\ \A r \in Minted(schema, M) : r.item.version # x.version
    <3>1. e \in Captured
      BY <2>2, KindsOf DEF Checked, CapturedKind
    <3>2. EvidencePayload(e)
      BY <2>2, <3>1, KindsOf DEF ValidateWire2, ValidateWire3
    <3>3. e \notin Submittable
      BY <3>1, KindsOf
    <3>4. schema = 2 => Validates2(e)
      BY <2>2, <3>1, <3>3, KindsOf DEF Checked, CapturedKind
    <3>5. schema = 3 => Validates3(e)
      BY <2>2, <3>1, <3>3, KindsOf DEF Checked, CapturedKind
    <3>6. \A r \in Minted(schema, M) : r.item.version # x.version
      BY <1>1, <2>2, <3>4, <3>5 DEF Validates2, Validates3
    <3> QED BY <2>2, <3>2, <3>6 DEF EvidencePayload
  <2>3. \A x : MintedRow(e, M + 1, x).item = x
    BY DEF MintedRow
  <2>4. \A r : r \in Minted(schema, Maximum)' <=>
           \/ r \in Minted(schema, M)
           \/ /\ e.kind = "captured_evidence" /\ e.schema = schema
              /\ \E x \in e.items : r = MintedRow(e, M + 1, x)
    BY RowsGrow
  <2> QED BY <2>1, <2>2, <2>3, <2>4 DEF MintedOnce
<1>4. \A schema \in {2, 3} : MintedOnce(Minted(schema, Maximum)')
  BY <1>3
<1> QED BY <1>2, <1>4 DEF VersionInv, MintedOnce

\* Where a row is, and what its capture says of it.
LEMMA MintedRowsAreBound ==
    ASSUME CapturedInv, NEW schema \in {2, 3}, NEW r \in Minted(schema, Maximum)
    PROVE  /\ r.pos \in 1..Maximum
           /\ r.account = r.capture.account
           /\ r.available = AvailableAt(r.capture, r.item.type)
           /\ r.item = IF schema = 2 THEN BoundItem2(r.capture, r.item.type, r.item.supersedes)
                       ELSE BoundItem3(r.capture, r.item.type, r.item.supersedes)
<1>1. PICK i, x :
         /\ i \in 1..Maximum /\ events[i].kind = "captured_evidence" /\ events[i].schema = schema
         /\ x \in events[i].items /\ r = MintedRow(events[i], i, x)
  <2>1. r \in Minted(schema, Maximum) <=>
           \E i \in 1..Maximum : /\ events[i].kind = "captured_evidence"
                                 /\ events[i].schema = schema
                                 /\ \E x \in events[i].items : r = MintedRow(events[i], i, x)
    BY RowsOf
  <2> QED BY <2>1
<1>2. PICK e : e = events[i]
  OBVIOUS
<1>3. /\ r.pos = i /\ r.item = x /\ r.account = e.account /\ r.capture = e.capture
      /\ r.available = AvailableAt(e.capture, x.type)
  BY <1>1, <1>2 DEF MintedRow
<1>4. e \in Captured
  BY <1>1, <1>2, KindsOf DEF CapturedInv, CapturedKind
<1>5. /\ schema = 2 => ValidateWire2(e)
      /\ schema = 3 => ValidateWire3(e)
  BY <1>1, <1>2, <1>4, KindsOf
<1>6. /\ e.account = e.capture.account
      /\ x = IF schema = 2 THEN BoundItem2(e.capture, x.type, x.supersedes)
             ELSE BoundItem3(e.capture, x.type, x.supersedes)
  BY <1>1, <1>2, <1>5 DEF ValidateWire2, ValidateWire3
<1> QED BY <1>1, <1>3, <1>6

--------------------------------------------------------------------------------
(* What a decision cites                                                      *)

\* Every field of an expected entry that replays and readers look at.
LEMMA ExpectedEntry ==
    ASSUME NEW cap, NEW rows, NEW x \in ExpectedContext(cap, rows)
    PROVE  /\ x.available = (x.key \in AvailableKeys(cap))
           /\ x.available => x.value = Inputs(cap)[x.key].value
<1>1. PICK k, version :
         x = [key |-> k, available |-> k \in AvailableKeys(cap),
              value |-> IF k \in AvailableKeys(cap) THEN Inputs(cap)[k].value ELSE NullValue,
              version |-> version]
  BY DEF ExpectedContext
<1>2. /\ x.key = k /\ x.available = (k \in AvailableKeys(cap))
      /\ x.value = IF k \in AvailableKeys(cap) THEN Inputs(cap)[k].value ELSE NullValue
  BY <1>1
<1> QED BY <1>2

\* validate_v2, validate_v3: what is available in the context of a captured decision is
\* the value of a version that was minted for its account and available by its boundary.
LEMMA ContextIsMinted ==
    ASSUME CapturedInv, NEW e \in Captured, e.kind = "captured_decision",
           IF e.schema = 2 THEN Context2(e) ELSE Context3(e),
           NEW x \in e.context, x.available
    PROVE  \E r \in Minted(e.schema, Maximum) :
              /\ r.item.version = x.version /\ r.available <= e.at /\ r.account = e.account
              /\ r.item.type = x.key /\ r.item.value = x.value
<1> DEFINE cap == e.capture
<1>1. e.schema \in {2, 3} /\ cap.schema = e.schema
  BY KindsOf
<1>2. WireDecision(e) /\ e.account = cap.account
  BY <1>1, KindsOf DEF ValidateWire2, ValidateWire3
<1>3. UniqueKeys(e.context) /\ e.at = cap.boundary
  BY <1>2 DEF WireDecision, DecisionPayload
<1>4. e.context = ExpectedContext(cap, Referenced(e))
  BY <1>1 DEF Context2, Context3
<1>5. x.key \in AvailableKeys(cap) /\ x.value = Inputs(cap)[x.key].value
  <2>1. x \in ExpectedContext(cap, Referenced(e))
    BY <1>4
  <2>2. /\ x.available = (x.key \in AvailableKeys(cap))
        /\ x.available => x.value = Inputs(cap)[x.key].value
    <3> HIDE DEF cap
    <3> QED BY <2>1, ExpectedEntry
  <2> QED BY <2>2
<1>6. PICK r \in Referenced(e) :
         /\ e.schema = 2 => Verified2(r, cap, x.key)
         /\ e.schema = 3 => Verified3(r, cap, x.key)
  BY <1>1, <1>5 DEF Context2, Context3, AvailableKeys
<1>7. r \in Minted(e.schema, Maximum)
      /\ \E y \in e.context : y.key = r.item.type /\ y.version = r.item.version
  BY DEF Referenced
<1>8. r.item = IF e.schema = 2 THEN BoundItem2(cap, x.key, r.item.supersedes)
               ELSE BoundItem3(cap, x.key, r.item.supersedes)
  BY <1>1, <1>6 DEF Verified2, Verified3
<1>9. r.item.type = x.key /\ r.item.value = x.value
  BY <1>5, <1>8 DEF BoundItem2, BoundItem3, Versioned, SemanticItem
<1>10. r.item.version = x.version
  BY <1>3, <1>7, <1>9 DEF UniqueKeys
<1>11. /\ r.account = r.capture.account /\ r.available = AvailableAt(r.capture, x.key)
       /\ r.item = IF e.schema = 2 THEN BoundItem2(r.capture, x.key, r.item.supersedes)
                   ELSE BoundItem3(r.capture, x.key, r.item.supersedes)
  BY <1>1, <1>7, <1>9, MintedRowsAreBound
<1>12. CASE e.schema = 2
  <2>1. /\ r.item.version.account = cap.account /\ r.item.version.account = r.capture.account
        /\ r.item.version.available = AvailableAt(cap, x.key)
        /\ r.item.version.available = AvailableAt(r.capture, x.key)
    BY <1>8, <1>11, <1>12 DEF BoundItem2, Versioned, SemanticItem, ObservationBody2
  <2>2. AvailableAt(cap, x.key) <= cap.boundary
    <3>1. ValidCapture2(cap)
      BY <1>12, KindsOf DEF ValidateWire2
    <3> QED BY <1>1, <1>5, <1>12, <3>1 DEF ValidCapture2, AvailableKeys
  <2> QED BY <1>2, <1>3, <1>7, <1>9, <1>10, <1>11, <2>1, <2>2
<1>13. CASE e.schema = 3
  <2>1. /\ r.item.version.account = cap.account /\ r.item.version.account = r.capture.account
    BY <1>8, <1>11, <1>13 DEF BoundItem3, Versioned, SemanticItem, ObservationBody3
  <2>2. r.available <= cap.boundary
    BY <1>6, <1>13 DEF Verified3
  <2> QED BY <1>2, <1>3, <1>7, <1>9, <1>10, <1>11, <2>1, <2>2
<1> QED BY <1>1, <1>12, <1>13

\* What is cited is an available entry of the context, or what was consumed of one.
LEMMA CitedEntry ==
    ASSUME NEW e, NEW u \in Cited(e)
    PROVE  \/ \E x \in e.context : /\ x.available /\ u.key = x.key
                                   /\ u.version = x.version /\ u.value = x.value
           \/ \E x \in e.consumed : u.key = x.key /\ u.version = x.version /\ u.value = x.value
<1>1. PICK x : /\ (x \in e.context /\ x.available) \/ x \in e.consumed
               /\ u = [key |-> x.key, version |-> x.version, value |-> x.value]
  BY DEF Cited
<1>2. u.key = x.key /\ u.version = x.version /\ u.value = x.value
  BY <1>1
<1> QED BY <1>1, <1>2

\* An accepted decision cites versions that were recorded before it.
LEMMA NewDecisionResolves ==
    ASSUME CapturedInv, NEW e, NEW M, Grown(e, M), Checked(e),
           e.kind \in {"decision", "captured_decision"}
    PROVE  Resolves(e, M + 1, VersionsFor(e))
<1>1. M \in Nat /\ Maximum = M
  BY DEF Grown
<1>2. SUFFICES ASSUME NEW u \in Cited(e)
               PROVE  \E r \in VersionsFor(e) :
                         /\ r.item.version = u.version
                         /\ r.pos < M + 1 /\ r.available <= e.at /\ r.account = e.account
                         /\ r.item.type = u.key /\ r.item.value = u.value
  BY DEF Resolves
<1>3. CASE e.kind = "decision"
  <2>1. DecisionResolves(e)
    BY <1>3, KindsOf DEF Checked, CapturedKind, References
  <2>2. PICK r \in Items(M) :
           /\ r.item.version = u.version /\ r.account = e.account /\ r.at <= e.at
           /\ r.item.type = u.key /\ r.item.value = u.value
    BY <1>1, <2>1 DEF DecisionResolves
  <2>3. r.pos \in 1..M
    <3>1. \E i \in 1..M : \E x \in events[i].items : r = ItemRow(events[i], i, x)
      BY RowsOf
    <3> QED BY <3>1 DEF ItemRow
  <2>4. PICK v : v = [item |-> r.item, account |-> r.account, available |-> r.at, pos |-> r.pos]
    OBVIOUS
  <2>5. v.item = r.item /\ v.account = r.account /\ v.available = r.at /\ v.pos = r.pos
    BY <2>4
  <2>6. v \in VersionsFor(e)
    BY <1>1, <1>3, <2>4 DEF VersionsFor
  <2>7. v.pos < M + 1
    BY <1>1, <2>3, <2>5
  <2> QED BY <2>2, <2>5, <2>6, <2>7
<1>4. CASE e.kind = "captured_decision"
  <2>1. e \in Captured /\ e.schema \in {2, 3}
    BY <1>4, KindsOf DEF Checked, CapturedKind
  <2>2. IF e.schema = 2 THEN Validates2(e) ELSE Validates3(e)
    BY <1>4, <2>1, KindsOf DEF Checked, CapturedKind
  <2>3. IF e.schema = 2 THEN Context2(e) ELSE Context3(e)
    BY <1>4, <2>2 DEF Validates2, Validates3
  <2>4. DecisionPayload(e)
    BY <1>4, <2>1, KindsOf DEF ValidateWire2, ValidateWire3, WireDecision
  <2>5. PICK x \in e.context : /\ x.available /\ u.key = x.key
                               /\ u.version = x.version /\ u.value = x.value
    BY <2>4, CitedEntry DEF DecisionPayload
  <2>6. PICK r \in Minted(e.schema, Maximum) :
           /\ r.item.version = x.version /\ r.available <= e.at /\ r.account = e.account
           /\ r.item.type = x.key /\ r.item.value = x.value
    BY <1>4, <2>1, <2>3, <2>5, ContextIsMinted
  <2>7. r.pos < M + 1
    BY <1>1, <2>1, MintedRowsAreBound
  <2>8. r \in VersionsFor(e)
    BY <1>4 DEF VersionsFor
  <2> QED BY <2>5, <2>6, <2>7, <2>8
<1> QED BY <1>3, <1>4

\* No append takes a version away.
LEMMA VersionsGrow ==
    ASSUME NEW e, NEW M, Grown(e, M), NEW d
    PROVE  VersionsFor(d) \subseteq VersionsFor(d)'
<1>1. Maximum = M
  BY DEF Grown
<1>2. Items(M) \subseteq Items(Maximum)' /\ Minted(d.schema, M) \subseteq Minted(d.schema, Maximum)'
  BY RowsGrow
<1> QED BY <1>1, <1>2 DEF VersionsFor

\* Every decision stays resolved, and the new one is.
LEMMA DecisionsStayResolved ==
    ASSUME CapturedInv, ResolveInv, NEW e, NEW M, Grown(e, M), Checked(e)
    PROVE  ResolveInv'
<1>1. /\ M \in Nat /\ Maximum = M /\ Maximum' = M + 1 /\ events'[M + 1] = e
      /\ \A i \in 1..M : events'[i] = events[i]
  BY DEF Grown
<1>2. ASSUME NEW i \in 1..(M + 1), events'[i].kind \in {"decision", "captured_decision"}
      PROVE  Resolves(events'[i], i, VersionsFor(events[i])')
  <2>1. PICK d : d = events'[i]
    OBVIOUS
  <2>2. Resolves(d, i, VersionsFor(d))
    <3>1. CASE i \in 1..M
      BY <1>1, <1>2, <2>1, <3>1 DEF ResolveInv, Recorded
    <3>2. CASE i = M + 1
      BY <1>1, <1>2, <2>1, <3>2, NewDecisionResolves
    <3> QED BY <1>1, <3>1, <3>2
  <2>3. VersionsFor(d) \subseteq VersionsFor(d)'
    BY VersionsGrow
  <2>4. Resolves(d, i, VersionsFor(d)')
    BY <2>2, <2>3 DEF Resolves
  <2>5. VersionsFor(d)' = VersionsFor(events[i])'
    BY <2>1
  <2> QED BY <2>1, <2>4, <2>5
<1> QED BY <1>1, <1>2 DEF ResolveInv, Recorded

\* What is resolved, and minted once, is resolved by exactly one version.
LEMMA ResolvedOnce ==
    ASSUME PInv
    PROVE  InputsResolve
<1> DEFINE minted(i, x) == {s \in VersionsFor(events[i]) : s.item.version = x.version}
           Good(i, x, r) == /\ r.pos < i /\ r.available <= events[i].at
                            /\ r.account = events[i].account
                            /\ r.item.type = x.key /\ r.item.value = x.value
           IsDecision(i) == i \in Recorded("decision", Maximum) \cup Recorded("captured_decision", Maximum)
<1>1. SUFFICES \A i, x : IsDecision(i) /\ x \in Cited(events[i]) =>
                  \E r : minted(i, x) = {r} /\ Good(i, x, r)
  <2>1. ASSUME NEW i, NEW x, NEW r, minted(i, x) = {r}, Good(i, x, r)
        PROVE  Cardinality(minted(i, x)) = 1 /\ \A q \in minted(i, x) : Good(i, x, q)
    <3> HIDE DEF minted, Good
    <3> QED BY <2>1, FS_Singleton
  <2>2. \A i, x : IsDecision(i) /\ x \in Cited(events[i]) =>
           Cardinality(minted(i, x)) = 1 /\ \A q \in minted(i, x) : Good(i, x, q)
    <3> HIDE DEF minted, Good, Decided
    <3> QED BY <1>1, <2>1
  <2> QED BY <2>2 DEF InputsResolve
<1> TAKE i, x
<1> HAVE IsDecision(i) /\ x \in Cited(events[i])
<1>2. PICK r \in VersionsFor(events[i]) :
         /\ r.item.version = x.version
         /\ r.pos < i /\ r.available <= events[i].at /\ r.account = events[i].account
         /\ r.item.type = x.key /\ r.item.value = x.value
  BY DEF PInv, ResolveInv, Resolves
<1>3. ASSUME NEW s \in VersionsFor(events[i]), s.item.version = x.version
      PROVE  s = r
  <2>1. CASE events[i].kind = "captured_decision"
    <3>1. events[i].schema \in {2, 3}
      BY <2>1, KindsOf DEF PInv, CapturedInv, CapturedKind, Recorded
    <3> QED BY <1>2, <1>3, <2>1, <3>1 DEF PInv, VersionInv, MintedOnce, VersionsFor
  <2>2. CASE events[i].kind # "captured_decision"
    <3>1. PICK q \in Items(Maximum) :
             r = [item |-> q.item, account |-> q.account, available |-> q.at, pos |-> q.pos]
      BY <1>2, <2>2 DEF VersionsFor
    <3>2. PICK p \in Items(Maximum) :
             s = [item |-> p.item, account |-> p.account, available |-> p.at, pos |-> p.pos]
      BY <1>3, <2>2 DEF VersionsFor
    <3>3. r.item = q.item /\ s.item = p.item
      BY <3>1, <3>2
    <3>4. p = q
      BY <1>2, <1>3, <3>3 DEF PInv, VersionInv, MintedOnce
    <3> QED BY <3>1, <3>2, <3>4
  <2> QED BY <2>1, <2>2
<1>4. {s \in VersionsFor(events[i]) : s.item.version = x.version} = {r}
  BY <1>2, <1>3
<1> QED BY <1>2, <1>4

--------------------------------------------------------------------------------
(* Decisions on one observation                                               *)

\* _validate_lineage: a new decision on an observation either is its first, or goes back
\* to one that was recorded on it.
LEMMA OriginalsStayOne ==
    ASSUME CapturedInv, OneOriginalDecision, NEW e, NEW M, Grown(e, M), Checked(e)
    PROVE  OneOriginalDecision'
<1> DEFINE D == Decisions(3, M)
           Key(i) == LogicalKey(events[i].capture)
           Same(i) == {j \in D : Key(j) = Key(i)}
           K == LogicalKey(e.capture)
           New == e.kind = "captured_decision" /\ e.schema = 3
           D1 == IF New THEN D \cup {M + 1} ELSE D
           Key1(i) == LogicalKey(events'[i].capture)
           Same1(i) == {j \in D1 : Key1(j) = Key1(i)}
<1>1. /\ M \in Nat /\ Maximum = M /\ Maximum' = M + 1 /\ events'[M + 1] = e
      /\ \A i \in 1..M : events'[i] = events[i]
  BY DEF Grown
<1>2. Decisions(3, Maximum)' = D1
  BY <1>1 DEF Decisions, Rows, Recorded
<1>3. D \subseteq 1..M
  BY DEF Decisions, Rows, Recorded
<1>4. \A i \in D : /\ events'[i] = events[i] /\ Key1(i) = Key(i)
  BY <1>1, <1>3
<1>5. \A i \in D :
        /\ \E j \in Same(i) : \A k \in Same(i) : events[k].capture.reprocesses = NoId <=> k = j
        /\ events[i].capture.reprocesses # NoId =>
              \E j \in Same(i) : /\ Unit(events[j].capture) = events[i].capture.reprocesses /\ j < i
                                 /\ events[j].capture.sequence < events[i].capture.sequence
  BY <1>1 DEF OneOriginalDecision
<1>6. ASSUME New PROVE Lineage3(e.capture)
  <2>1. e \in Captured
    BY <1>6, KindsOf DEF Checked, CapturedKind
  <2>2. Validates3(e)
    BY <1>6, <2>1, KindsOf DEF Checked, CapturedKind
  <2> QED BY <1>6, <2>2 DEF Validates3
<1>7. ASSUME New, \E j \in D : Key(j) = K
      PROVE  /\ e.capture.reprocesses # NoId
             /\ \E p \in D : /\ Unit(events[p].capture) = e.capture.reprocesses
                             /\ Key(p) = K /\ events[p].capture.sequence < e.capture.sequence
  BY <1>1, <1>6, <1>7 DEF Lineage3
<1>8. ASSUME New, \A j \in D : Key(j) # K
      PROVE  e.capture.reprocesses = NoId
  BY <1>1, <1>6, <1>8 DEF Lineage3
<1>9. ASSUME NEW i \in D1
      PROVE  /\ \E j \in Same1(i) : \A k \in Same1(i) : events'[k].capture.reprocesses = NoId <=> k = j
             /\ events'[i].capture.reprocesses # NoId =>
                   \E j \in Same1(i) :
                      /\ Unit(events'[j].capture) = events'[i].capture.reprocesses /\ j < i
                      /\ events'[j].capture.sequence < events'[i].capture.sequence
  <2>1. \A x \in D : Same(x) \subseteq D /\ Same(x) \subseteq Same1(x)
    BY <1>4
  <2>2. CASE i \in D
    <3>1. /\ \E j \in Same(i) : \A k \in Same(i) : events[k].capture.reprocesses = NoId <=> k = j
          /\ events[i].capture.reprocesses # NoId =>
                \E j \in Same(i) : /\ Unit(events[j].capture) = events[i].capture.reprocesses /\ j < i
                                   /\ events[j].capture.sequence < events[i].capture.sequence
      BY <1>5, <2>2
    <3>2. \A k \in Same1(i) : k \in Same(i) \/ (k = M + 1 /\ New /\ Key(i) = K)
      BY <1>1, <1>4, <2>2
    <3>3. New /\ Key(i) = K => e.capture.reprocesses # NoId
      BY <1>7, <2>2
    <3>4. \A k \in Same(i) : k # M + 1 /\ events'[k] = events[k]
      BY <1>1, <1>3, <1>4, <2>1, <2>2
    <3>5. \A j \in Same(i), k \in Same1(i) :
             k \notin Same(i) => k # j /\ events'[k].capture.reprocesses # NoId
      BY <1>1, <3>2, <3>3, <3>4
    <3>6. events'[i] = events[i] /\ Same(i) \subseteq Same1(i)
      BY <1>4, <2>1, <2>2
    <3> HIDE DEF Same, Same1, D, D1, New, Key, Key1, K
    <3> QED BY <3>1, <3>4, <3>5, <3>6
  <2>3. CASE i = M + 1 /\ New /\ \A j \in D : Key(j) # K
    <3>1. Same1(i) = {M + 1}
      BY <1>1, <1>3, <1>4, <2>3
    <3>2. events'[i].capture.reprocesses = NoId
      BY <1>1, <1>8, <2>3
    <3> QED BY <2>3, <3>1, <3>2
  <2>4. CASE i = M + 1 /\ New /\ \E j \in D : Key(j) = K
    <3>1. PICK p \in D : /\ Unit(events[p].capture) = e.capture.reprocesses
                         /\ Key(p) = K /\ events[p].capture.sequence < e.capture.sequence
      BY <1>7, <2>4
    <3>2. e.capture.reprocesses # NoId
      BY <1>7, <2>4
    <3>3. PICK j \in Same(p) : \A k \in Same(p) : events[k].capture.reprocesses = NoId <=> k = j
      BY <1>5
    <3>4. \A k : k \in Same1(i) <=> k \in Same(p) \/ k = M + 1
      BY <1>1, <1>4, <2>4, <3>1
    <3>5. \A k \in Same(p) : k # M + 1 /\ events'[k] = events[k]
      BY <1>1, <1>3, <1>4
    <3>6. events'[i] = e /\ p < i /\ p \in Same(p) /\ events'[p] = events[p]
      BY <1>1, <1>3, <1>4, <2>4
    <3> HIDE DEF Same, Same1, D, D1, New, Key, Key1, K
    <3> QED BY <1>1, <2>4, <3>1, <3>2, <3>3, <3>4, <3>5, <3>6
  <2> QED BY <2>2, <2>3, <2>4
<1> HIDE DEF D1
<1> QED BY <1>2, <1>9 DEF OneOriginalDecision

--------------------------------------------------------------------------------
(* What a replay reads again                                                  *)

\* A later event mints no version that a recorded decision refers to.
LEMMA ReferencedIsKept ==
    ASSUME CapturedInv, NEW e, NEW M, Grown(e, M), Checked(e),
           NEW d \in Captured, d.kind = "captured_decision",
           \A x \in d.context : x.available =>
              \E r \in Minted(d.schema, Maximum) : r.item.version = x.version
    PROVE  Referenced(d)' = Referenced(d)
<1>1. Maximum = M /\ d.schema \in {2, 3}
  BY KindsOf DEF Grown
<1>2. \A r : r \in Minted(d.schema, Maximum)' <=>
         \/ r \in Minted(d.schema, M)
         \/ /\ e.kind = "captured_evidence" /\ e.schema = d.schema
            /\ \E y \in e.items : r = MintedRow(e, M + 1, y)
  BY RowsGrow
<1>3. ASSUME NEW y \in e.items, e.kind = "captured_evidence", e.schema = d.schema,
             NEW x \in d.context, x.version = y.version
      PROVE  FALSE
  <2>1. e \in Captured
    BY <1>3, KindsOf DEF Checked, CapturedKind
  <2>2. EvidencePayload(e) /\ IF e.schema = 2 THEN Validates2(e) ELSE Validates3(e)
    BY <1>1, <1>3, <2>1, KindsOf DEF Checked, CapturedKind, ValidateWire2, ValidateWire3
  <2>3. y.version # NoId /\ \A r \in Minted(e.schema, Maximum) : r.item.version # y.version
    BY <1>1, <1>3, <2>2 DEF EvidencePayload, Validates2, Validates3
  <2>4. ContextEntry(x)
    BY <1>1, <1>3, KindsOf DEF ValidateWire2, ValidateWire3, WireDecision, DecisionPayload
  <2> QED BY <1>3, <2>3, <2>4 DEF ContextEntry
<1>4. \A y : MintedRow(e, M + 1, y).item = y
  BY DEF MintedRow
<1> QED BY <1>1, <1>2, <1>3, <1>4 DEF Referenced

\* What held up when a decision was recorded holds up in every longer ledger that it
\* refers to the same rows in.
LEMMA HoldsUpStays ==
    ASSUME NEW M \in Nat, Maximum = M, NEW N \in Nat, Maximum' = N, M <= N,
           \A i \in 1..M : events'[i] = events[i],
           NEW d, Referenced(d)' = Referenced(d), HoldsUp(d)
    PROVE  HoldsUp(d)'
<1>1. \A i : i \in 1..M => i \in 1..N
  OBVIOUS
<1>2. VerifiedArtifact(d.artifact) => VerifiedArtifact(d.artifact)'
  BY <1>1 DEF VerifiedArtifact, Recorded
<1>3. ASSUME NEW schema
      PROVE  /\ Decisions(schema, Maximum) \subseteq Decisions(schema, Maximum)'
             /\ \A i \in Decisions(schema, Maximum) : events'[i] = events[i]
  BY <1>1 DEF Decisions, Rows, Recorded
<1>4. DatedContext(d)' = DatedContext(d)
  BY DEF DatedContext
<1>5. CASE d.schema = 2
  <2>1. Lineage2(d.capture) /\ Context2(d) /\ Evaluates2(d)
    BY <1>5 DEF HoldsUp
  <2>2. Lineage2(d.capture)'
    BY <1>3, <2>1 DEF Lineage2
  <2>3. Context2(d)'
    BY <2>1 DEF Context2
  <2>4. Evaluates2(d)'
    BY <1>2, <1>4, <2>1 DEF Evaluates2
  <2> QED BY <1>5, <2>2, <2>3, <2>4 DEF HoldsUp
<1>6. CASE d.schema # 2
  <2>1. PredecessorIsSound(d.capture) /\ Context3(d) /\ Evaluates3(d)
    BY <1>6 DEF HoldsUp
  <2>2. PredecessorIsSound(d.capture)'
    BY <1>3, <2>1 DEF PredecessorIsSound, Predecessor
  <2>3. Context3(d)'
    BY <2>1 DEF Context3
  <2>4. Evaluates3(d)'
    BY <1>2, <1>4, <2>1 DEF Evaluates3
  <2> QED BY <1>6, <2>2, <2>3, <2>4 DEF HoldsUp
<1> QED BY <1>5, <1>6

\* The collector records a captured decision only when a replay of it would hold up.
LEMMA NewDecisionHoldsUp ==
    ASSUME NEW e, Checked(e), e.kind = "captured_decision"
    PROVE  HoldsUp(e)
<1>1. e \in Captured /\ e.schema \in {2, 3}
      /\ IF e.schema = 2 THEN Validates2(e) ELSE Validates3(e)
  BY KindsOf DEF Checked, CapturedKind
<1>2. CASE e.schema = 2
  BY <1>1, <1>2 DEF HoldsUp, Validates2
<1>3. CASE e.schema = 3
  <2>1. Lineage3(e.capture) /\ Context3(e) /\ Evaluates3(e)
    BY <1>1, <1>3 DEF Validates3
  <2>2. PredecessorIsSound(e.capture)
    BY <2>1 DEF Lineage3, PredecessorIsSound, Predecessor
  <2> QED BY <1>3, <2>1, <2>2 DEF HoldsUp
<1> QED BY <1>1, <1>2, <1>3

\* What is available in the context of a decision that resolves was minted.
LEMMA AvailableIsMinted ==
    ASSUME NEW d, d.kind = "captured_decision", NEW i, Resolves(d, i, VersionsFor(d)),
           NEW x \in d.context, x.available
    PROVE  \E r \in Minted(d.schema, Maximum) : r.item.version = x.version
<1>1. [key |-> x.key, version |-> x.version, value |-> x.value] \in Cited(d)
  BY DEF Cited
<1> QED BY <1>1 DEF Resolves, VersionsFor

\* Every captured decision stays as a replay will read it, and the new one is.
LEMMA DecisionsStayUp ==
    ASSUME CapturedInv, ResolveInv, ReplayInv, NEW e, NEW M, Grown(e, M), Checked(e)
    PROVE  ReplayInv'
<1>1. /\ M \in Nat /\ Maximum = M /\ Maximum' = M + 1 /\ events'[M + 1] = e
      /\ \A i \in 1..M : events'[i] = events[i]
  BY DEF Grown
<1>2. ASSUME NEW i \in 1..(M + 1), events'[i].kind = "captured_decision"
      PROVE  HoldsUp(events[i])'
  <2>1. PICK d : d = events'[i]
    OBVIOUS
  <2>2. HoldsUp(d) /\ Resolves(d, i, VersionsFor(d)) /\ d \in Captured
    <3>1. CASE i \in 1..M
      <4>1. d = events[i] /\ i \in Recorded("captured_decision", Maximum)
        BY <1>1, <1>2, <2>1, <3>1 DEF Recorded
      <4>2. d \in Captured
        BY <1>1, <1>2, <2>1, <3>1, <4>1, KindsOf DEF CapturedInv, CapturedKind
      <4> QED BY <4>1, <4>2 DEF ReplayInv, ResolveInv
    <3>2. CASE i = M + 1
      <4>1. d = e
        BY <1>1, <2>1, <3>2
      <4>2. d \in Captured
        BY <1>2, <2>1, <4>1, KindsOf DEF Checked, CapturedKind
      <4> QED BY <1>2, <2>1, <3>2, <4>1, <4>2, NewDecisionHoldsUp, NewDecisionResolves
    <3> QED BY <1>1, <3>1, <3>2
  <2>3. \A x \in d.context : x.available =>
           \E r \in Minted(d.schema, Maximum) : r.item.version = x.version
    BY <1>2, <2>1, <2>2, AvailableIsMinted
  <2>4. Referenced(d)' = Referenced(d)
    BY <1>2, <2>1, <2>2, <2>3, ReferencedIsKept
  <2>5. HoldsUp(d)'
    <3>1. M + 1 \in Nat /\ M <= M + 1
      BY <1>1
    <3> QED BY <1>1, <2>2, <2>4, <3>1, HoldsUpStays
  <2> QED BY <2>1, <2>5
<1> QED BY <1>1, <1>2 DEF ReplayInv, Recorded

\* A decision is accepted for a registered artifact and a recorded account, and neither
\* is ever taken away.
LEMMA RegistryIsKept ==
    ASSUME RegistryInv, NEW e, NEW M, Grown(e, M), Checked(e)
    PROVE  RegistryInv'
<1>1. /\ M \in Nat /\ Maximum = M /\ Maximum' = M + 1 /\ events'[M + 1] = e
      /\ 1..(M + 1) = 1..M \cup {M + 1} /\ \A i \in 1..M : events'[i] = events[i]
  BY DEF Grown
<1>2. ASSUME NEW kind, NEW j \in Recorded(kind, M)
      PROVE  j \in Recorded(kind, Maximum)' /\ events'[j] = events[j]
  BY <1>1, <1>2 DEF Recorded
<1>3. ASSUME NEW d, \/ \E i \in Recorded("decision", M) : d = events[i]
                    \/ d = e /\ e.kind = "decision"
      PROVE  /\ \E j \in Recorded("artifact", M) : events[j].artifact = d.artifact
             /\ \E j \in Recorded("account", M) : events[j].account = d.account
  <2>1. CASE \E i \in Recorded("decision", M) : d = events[i]
    BY <1>1, <2>1 DEF RegistryInv
  <2>2. CASE d = e /\ e.kind = "decision"
    <3>1. AccountRules(e) /\ References(e)
      BY <2>2, KindsOf DEF Checked, CapturedKind
    <3>2. DecisionResolves(e)
      BY <2>2, <3>1 DEF References
    <3>3. {j \in Recorded("account", Maximum) : events[j].account = e.account} # {}
      BY <2>2, <3>1 DEF AccountRules
    <3> QED BY <1>1, <2>2, <3>2, <3>3 DEF DecisionResolves
  <2> QED BY <1>3, <2>1, <2>2
<1>4. ASSUME NEW i \in Recorded("decision", Maximum)'
      PROVE  \/ \E k \in Recorded("decision", M) : events'[i] = events[k]
             \/ events'[i] = e /\ e.kind = "decision"
  BY <1>1 DEF Recorded
<1>5. ASSUME NEW i \in Recorded("decision", Maximum)'
      PROVE  /\ \E j \in Recorded("artifact", Maximum)' : events'[j].artifact = events'[i].artifact
             /\ \E j \in Recorded("account", Maximum)' : events'[j].account = events'[i].account
  BY <1>2, <1>3, <1>4
<1> QED BY <1>5 DEF RegistryInv

--------------------------------------------------------------------------------
(* The theorems                                                               *)

\* The empty ledger satisfies the invariant, and every step keeps it.
LEMMA CapturedInvariantStarts ==
    ASSUME Init
    PROVE  PInv
<1>1. IInv
  BY InvariantStarts
<1>2. 1..Maximum = {} /\ \A kind : Recorded(kind, Maximum) = {}
  BY DEF Init, Maximum, Recorded
<1>3. Items(Maximum) = {} /\ \A schema : Minted(schema, Maximum) = {} /\ Decisions(schema, Maximum) = {}
  BY <1>2 DEF Items, Minted, Rows, Decisions
<1> QED BY <1>1, <1>2, <1>3 DEF PInv, CapturedInv, VersionInv, MintedOnce, ResolveInv,
           OneOriginalDecision, ReplayInv, RegistryInv

\* A step appends one checked event, under which every part of the invariant is kept.
LEMMA CapturedInvariantIsKept ==
    ASSUME PInv, [CapturedNext]_vars
    PROVE  PInv'
<1>1. CASE UNCHANGED events
  <2>1. IInv'
    <3>1. ResultsAreReproducible' /\ OneEffectiveResult'
      BY <1>1, StutterKeepsResults DEF PInv
    <3>2. TypeInv' /\ OriginInv' /\ IdInv'
      BY <1>1 DEF PInv, IInv, TypeInv, OriginInv, IdInv, Maximum, Recorded
    <3>3. SupersessionInv' /\ ActionInv' /\ OutcomeChainsAreLinear'
      BY <1>1 DEF PInv, IInv, SupersessionInv, ActionInv, OutcomeChainsAreLinear, Maximum,
               Recorded, Find
    <3> QED BY <3>1, <3>2, <3>3 DEF IInv
  <2>2. CapturedInv' /\ VersionInv'
    <3>1. Items(Maximum)' = Items(Maximum)
      BY <1>1 DEF Items, Recorded, Maximum
    <3>2. \A schema : Minted(schema, Maximum)' = Minted(schema, Maximum)
      BY <1>1 DEF Minted, Rows, Recorded, Maximum
    <3>3. CapturedInv'
      BY <1>1 DEF PInv, CapturedInv, Maximum
    <3> QED BY <3>1, <3>2, <3>3 DEF PInv, VersionInv, MintedOnce
  <2>3. ResolveInv'
    <3>1. ASSUME NEW d PROVE VersionsFor(d)' = VersionsFor(d)
      BY <1>1 DEF VersionsFor, Items, Minted, Rows, Recorded, Maximum
    <3>2. \A i : VersionsFor(events[i])' = VersionsFor(events[i])
      <4>1. ASSUME NEW i PROVE VersionsFor(events[i])' = VersionsFor(events[i])
        <5>1. PICK d : d = events[i]
          OBVIOUS
        <5>2. VersionsFor(events[i])' = VersionsFor(d)'
          BY <1>1, <5>1
        <5> QED BY <3>1, <5>1, <5>2
      <4> QED BY <4>1
    <3> QED BY <1>1, <3>2 DEF PInv, ResolveInv, Recorded, Maximum
  <2>4. OneOriginalDecision'
    BY <1>1 DEF PInv, OneOriginalDecision, Decisions, Rows, Recorded, Maximum
  <2>5. ReplayInv'
    <3>1. Maximum \in Nat /\ Maximum' = Maximum /\ \A i : events'[i] = events[i]
      BY <1>1, LenProperties DEF PInv, IInv, TypeInv, Maximum
    <3>2. ASSUME NEW d PROVE Referenced(d)' = Referenced(d)
      BY <1>1 DEF Referenced, Minted, Rows, Recorded, Maximum
    <3>3. ASSUME NEW d, HoldsUp(d) PROVE HoldsUp(d)'
      BY <3>1, <3>2, <3>3, HoldsUpStays
    <3>4. ASSUME NEW i \in Recorded("captured_decision", Maximum) PROVE HoldsUp(events[i])'
      <4>1. PICK d : d = events[i]
        OBVIOUS
      <4>2. HoldsUp(d)'
        BY <3>3, <4>1 DEF PInv, ReplayInv
      <4> QED BY <3>1, <4>1, <4>2
    <3> QED BY <1>1, <3>4 DEF ReplayInv, Recorded, Maximum
  <2>6. RegistryInv'
    BY <1>1 DEF PInv, RegistryInv, Recorded, Maximum
  <2> QED BY <2>1, <2>2, <2>3, <2>4, <2>5, <2>6 DEF PInv
<1>2. ASSUME NEW e, events' = Append(events, e), Admits(e), Checked(e), Maximum < MaxEvents
      PROVE  PInv'
  <2>1. PICK M : M = Maximum
    OBVIOUS
  <2>2. Grown(e, M)
    BY <1>2, <2>1, AppendGrows DEF PInv, IInv
  <2>3. IInv'
    BY <1>2, AppendKeepsInvariant DEF PInv
  <2>4. CapturedInv' /\ VersionInv' /\ ResolveInv' /\ OneOriginalDecision'
    BY <1>2, <2>2, CapturedIsKept, VersionsStayUnique, DecisionsStayResolved, OriginalsStayOne DEF PInv
  <2>5. ReplayInv'
    BY <1>2, <2>2, DecisionsStayUp DEF PInv
  <2>6. RegistryInv'
    BY <1>2, <2>2, RegistryIsKept DEF PInv
  <2> QED BY <2>3, <2>4, <2>5, <2>6 DEF PInv
<1> QED BY <1>1, <1>2, CapturedStepAppends

\* What the checks at ingest rely on holds whatever version 1, version 2 and version 3
\* events are submitted, in whatever order; with it, everything that LedgerProofs concludes.
THEOREM CapturedInductive == CapturedSpec => []PInv
<1>1. Init => PInv
  BY CapturedInvariantStarts
<1>2. PInv /\ [CapturedNext]_vars => PInv'
  BY CapturedInvariantIsKept
<1> QED BY <1>1, <1>2, PTL DEF CapturedSpec

\* INV-02, INV-04: what a decision of either version preserves and consumed is one version
\* of the evidence of its account, from before it and available by its boundary.
THEOREM InputsAlwaysResolve == CapturedSpec => []InputsResolve
BY CapturedInductive, ResolvedOnce, PTL

\* A version 3 observation has one original decision, and every other one goes back to it.
THEOREM OriginalDecisionIsOne == CapturedSpec => []OneOriginalDecision
BY CapturedInductive, PTL DEF PInv

--------------------------------------------------------------------------------
(* Insights                                                                   *)

\* effective_attribution: a result credits the decision of one account only.
LEMMA CreditedIsOfTheAccount ==
    ASSUME IInv, NEW i \in Recorded("decision", Maximum),
           NEW x \in Observations(Maximum), Credited(x), x.decision = events[i].id
    PROVE  x.account = events[i].account
<1>1. Maximum \in Nat /\ CreditLooksBack
  BY LenProperties, CreditFollows DEF IInv, TypeInv, Maximum
<1>2. PICK o \in EffectiveIds(Maximum) : x = ObservationFact(o, Maximum)
  BY DEF Observations
<1>3. PICK tips : tips = Tips(events[o].id, Maximum)
  OBVIOUS
<1>4. PICK t : t = CHOOSE s \in tips : TRUE
  OBVIOUS
<1>5. /\ x.account = events[o].account
      /\ x.standing = IF tips = {} THEN "awaiting attribution" ELSE events[t].result.status
      /\ x.decision = IF tips = {} THEN NoId ELSE events[t].result.decision
  BY <1>2, <1>3, <1>4 DEF ObservationFact
<1>6. tips # {} /\ t \in tips
  BY <1>4, <1>5 DEF Credited
<1>7. /\ t \in Recorded("attribution", Maximum) /\ events[t].outcome = events[o].id
      /\ o \in Find("outcome", events[t].outcome, Maximum)
  BY <1>2, <1>3, <1>6 DEF Tips, EffectiveIds, Find
<1>8. events[t].result.status # "unresolved"
  BY <1>5, <1>6 DEF Credited
<1>9. PICK d \in Find("decision", events[t].result.decision, events[t].cutoff) :
         events[d].account = events[o].account
  BY <1>1, <1>7, <1>8 DEF CreditLooksBack
<1>10. events[t].cutoff \in 1..(t - 1) /\ t \in 1..Maximum
  BY <1>7, SubmittableAssumption DEF IInv, OriginInv, CapturedKind, WellFormed, Recorded
<1>11. d \in 1..Maximum /\ i \in 1..Maximum /\ events[d].id = events[i].id
  <2>1. events[t].result.decision = events[i].id
    BY <1>5, <1>6
  <2>2. d \in 1..events[t].cutoff /\ events[d].id = events[t].result.decision
    BY <1>9 DEF Find, Recorded
  <2>3. d \in 1..Maximum
    BY <1>1, <1>10, <2>2
  <2>4. i \in 1..Maximum
    BY DEF Recorded
  <2> QED BY <2>1, <2>2, <2>3, <2>4
<1>12. d = i
  BY <1>11 DEF IInv, IdInv
<1> QED BY <1>5, <1>9, <1>12

\* decision_facts: what is read for the account alone is what the metrics count.
LEMMA FactsAgree ==
    ASSUME IInv
    PROVE  FactsAreOfTheAccount
<1>1. SUFFICES ASSUME NEW i \in Population(Maximum)
               PROVE  DecisionFacts(i, Maximum) \in AllFacts(Maximum)
  BY DEF FactsAreOfTheAccount
<1>2. i \in Recorded("decision", Maximum)
  BY DEF Population
<1> DEFINE all == Observations(Maximum)
           own == {x \in all : x.account = events[i].account}
<1>3. {x \in own : Credited(x) /\ x.decision = events[i].id}
         = {x \in all : Credited(x) /\ x.decision = events[i].id}
  BY <1>2, CreditedIsOfTheAccount
<1>4. Facts(Read(i), own) = Facts(Read(i), all)
  <2> HIDE DEF all, own
  <2>1. Read(i).decision = events[i]
    BY DEF Read
  <2> QED BY <1>3, <2>1 DEF Facts
<1> QED BY <1>1, <1>4 DEF DecisionFacts, AllFacts, FactsOf, Reads

\* insights: nothing of another account is credited to a decision, also with captured
\* events in the ledger.
THEOREM FactsStayWithTheAccount == CapturedSpec => []FactsAreOfTheAccount
<1>1. PInv => FactsAreOfTheAccount
  BY FactsAgree DEF PInv
<1> QED BY <1>1, CapturedInductive, PTL

--------------------------------------------------------------------------------
(* Replay                                                                     *)

\* verified_crm_history as a function: after n steps, what a decision goes back to.
GoBack(S) == UNION {{j} \cup Predecessor(events[j].capture) : j \in S}
Backs(f, i, N) == f = [n \in 0..N |-> IF n = 0 THEN {i} ELSE GoBack(f[n - 1])]

\* There is one for any number of steps.
LEMMA BacksExist ==
    ASSUME NEW i, NEW N \in Nat
    PROVE  \E f : Backs(f, i, N)
<1> DEFINE T == {n \in Nat : ~ \E f : Backs(f, i, n)}
<1>1. SUFFICES ASSUME T # {} PROVE FALSE
  OBVIOUS
<1>2. PICK m \in T : \A y \in T : m <= y
  <2>1. T \subseteq Nat
    OBVIOUS
  <2> HIDE DEF T
  <2> QED BY <1>1, <2>1, LeastElement
<1>3. m \in Nat /\ ~ \E f : Backs(f, i, m)
  OBVIOUS
<1>4. CASE m = 0
  <2> DEFINE f == [n \in {0} |-> {i}]
  <2>1. 0..0 = {0}
    OBVIOUS
  <2>2. f = [n \in 0..0 |-> IF n = 0 THEN {i} ELSE GoBack(f[n - 1])]
    BY <2>1
  <2>3. Backs(f, i, 0)
    BY <2>2 DEF Backs
  <2> HIDE DEF f
  <2> QED BY <1>3, <1>4, <2>3
<1>5. CASE m # 0
  <2>1. m - 1 \in Nat /\ m - 1 \notin T
    BY <1>2, <1>3, <1>5
  <2>2. PICK f : Backs(f, i, m - 1)
    BY <2>1
  <2> DEFINE g == [n \in 0..m |-> IF n = 0 THEN {i} ELSE GoBack(f[n - 1])]
  <2>3. ASSUME NEW n \in 0..(m - 1) PROVE g[n] = f[n]
    <3>1. f[n] = IF n = 0 THEN {i} ELSE GoBack(f[n - 1])
      BY <2>2, Zenon DEF Backs
    <3>2. n \in 0..m
      BY <1>3
    <3> QED BY <3>1, <3>2
  <2>4. ASSUME NEW n \in 0..m, n # 0 PROVE g[n - 1] = f[n - 1]
    <3>1. n - 1 \in 0..(m - 1)
      BY <1>3, <2>4
    <3> QED BY <2>3, <3>1
  <2>5. g = [n \in 0..m |-> IF n = 0 THEN {i} ELSE GoBack(g[n - 1])]
    BY <2>4
  <2>6. Backs(g, i, m)
    BY <2>5 DEF Backs
  <2> HIDE DEF g
  <2> QED BY <1>3, <2>6
<1> QED BY <1>4, <1>5

\* All that a decision goes back to are decisions of version 3.
LEMMA HistoryOfDecisions ==
    ASSUME Maximum \in Nat, NEW i \in Decisions(3, Maximum)
    PROVE  History(i) \subseteq Decisions(3, Maximum)
<1> DEFINE f == CHOOSE g : Backs(g, i, Maximum)
<1>1. Backs(f, i, Maximum)
  BY BacksExist
<1>2. History(i) = f[Maximum]
  BY DEF History, Backs, GoBack
<1> HIDE DEF f
<1>3. \A n \in 0..Maximum : f[n] = IF n = 0 THEN {i} ELSE GoBack(f[n - 1])
  BY <1>1, Zenon DEF Backs
<1>4. \A S : S \subseteq Decisions(3, Maximum) => GoBack(S) \subseteq Decisions(3, Maximum)
  BY DEF GoBack, Predecessor
<1> DEFINE T == {n \in 0..Maximum : ~ (f[n] \subseteq Decisions(3, Maximum))}
<1>5. T = {}
  <2>1. SUFFICES ASSUME T # {} PROVE FALSE
    OBVIOUS
  <2>2. PICK m \in T : \A y \in T : m <= y
    <3>1. T \subseteq Nat
      OBVIOUS
    <3> HIDE DEF T
    <3> QED BY <2>1, <3>1, LeastElement
  <2>3. m \in 0..Maximum /\ ~ (f[m] \subseteq Decisions(3, Maximum))
    OBVIOUS
  <2>4. m # 0
    BY <1>3, <2>3
  <2>5. m - 1 \in 0..Maximum /\ m - 1 \notin T
    BY <2>2, <2>3, <2>4
  <2>6. f[m - 1] \subseteq Decisions(3, Maximum)
    BY <2>5
  <2> HIDE DEF T
  <2> QED BY <1>3, <1>4, <2>3, <2>4, <2>6
<1>6. Maximum \in 0..Maximum
  OBVIOUS
<1> QED BY <1>2, <1>5, <1>6

\* What is evaluated again agrees with what was recorded.
LEMMA ResultAgrees ==
    ASSUME NEW d, NEW result, result.evaluated, d.result = result.verdict,
           d.consumed = UsedBy(d, result)
    PROVE  Reproduced(d, result).reconstructed
<1>1. ConsumedTriples(result) = {<<u.key, u.version, u.contribution>> : u \in d.consumed}
  <2> DEFINE C == Consumed(result.factors)
             Value(f) == (CHOOSE y \in d.context : y.key = f.key).value
             U(f) == [key |-> f.key, value |-> Value(f), version |-> f.version,
                      contribution |-> f.contribution]
  <2>1. d.consumed = {U(f) : f \in C}
    BY DEF UsedBy
  <2>2. \A f : U(f).key = f.key /\ U(f).version = f.version /\ U(f).contribution = f.contribution
    OBVIOUS
  <2> HIDE DEF U, C
  <2>3. {<<u.key, u.version, u.contribution>> : u \in d.consumed}
           = {<<f.key, f.version, f.contribution>> : f \in C}
    BY <2>1, <2>2
  <2> QED BY <2>3 DEF ConsumedTriples, C
<1>2. AgreesWithRecord(d, result)
  BY <1>1 DEF AgreesWithRecord
<1> QED BY <1>2 DEF Reproduced

\* load_v2_context, verified_crm_history: what a replay reads of a decision is in order.
LEMMA ContextIsPreserved ==
    ASSUME PInv, Maximum \in Nat, NEW i \in Recorded("captured_decision", Maximum)
    PROVE  PreservedContext(i)
<1>1. ASSUME NEW j \in Recorded("captured_decision", Maximum)
      PROVE  /\ HoldsUp(events[j]) /\ events[j].schema \in {2, 3} /\ WireDecision(events[j])
             /\ events[j].kind = "captured_decision"
  <2>1. events[j] \in Captured /\ events[j].kind = "captured_decision"
    BY KindsOf DEF PInv, CapturedInv, CapturedKind, Recorded
  <2>2. events[j].schema \in {2, 3} /\ WireDecision(events[j])
    BY <2>1, KindsOf DEF ValidateWire2, ValidateWire3
  <2> QED BY <2>1, <2>2 DEF PInv, ReplayInv
<1>2. CASE events[i].schema = 2
  <2>1. PICK d : d = events[i]
    OBVIOUS
  <2>2. Lineage2(d.capture) /\ Context2(d) /\ Evaluates2(d) /\ DecisionPayload(d)
    BY <1>1, <1>2, <2>1 DEF HoldsUp, WireDecision
  <2>3. ASSUME NEW u \in d.consumed PROVE d.capture.inputs[u.key].state # "ignored"
    <3>1. PICK result : result = Evaluate(d.artifact, DatedContext(d), d.at)
      OBVIOUS
    <3>2. /\ d.consumed = UsedBy(d, result)
          /\ \A f \in Consumed(result.factors) : d.capture.inputs[f.key].state # "ignored"
      BY <2>2, <3>1 DEF Evaluates2
    <3> DEFINE Value(f) == (CHOOSE y \in d.context : y.key = f.key).value
               U(f) == [key |-> f.key, value |-> Value(f), version |-> f.version,
                        contribution |-> f.contribution]
    <3>3. d.consumed = {U(f) : f \in Consumed(result.factors)}
      BY <3>2 DEF UsedBy
    <3>4. PICK f \in Consumed(result.factors) : u = U(f)
      BY <3>3
    <3>5. \A g : U(g).key = g.key
      OBVIOUS
    <3> HIDE DEF U
    <3>6. u.key = f.key
      BY <3>4, <3>5
    <3> QED BY <3>2, <3>6
  <2>4. PreservedContext2(d)
    BY <2>2, <2>3 DEF PreservedContext2, DecisionPayload
  <2>5. events[i].kind = "captured_decision" /\ events[i].kind # "decision" /\ events[i].schema # 3
    BY <1>1, <1>2
  <2>6. PreservedContext(i) = PreservedContext2(events[i])
    BY <1>2, <2>5 DEF PreservedContext
  <2> QED BY <2>1, <2>4, <2>6
<1>3. CASE events[i].schema = 3
  <2>1. i \in Decisions(3, Maximum)
    BY <1>3 DEF Decisions, Rows
  <2>2. ASSUME NEW j \in History(i) PROVE HistoryStep(events[j])
    <3>1. j \in Recorded("captured_decision", Maximum) /\ events[j].schema = 3
      BY <2>1, HistoryOfDecisions DEF Decisions, Rows
    <3> QED BY <1>1, <3>1 DEF HistoryStep, HoldsUp
  <2>3. events[i].kind = "captured_decision" /\ events[i].kind # "decision" /\ events[i].schema # 2
    BY <1>1, <1>3
  <2>4. PreservedContext(i) = (\A j \in History(i) : HistoryStep(events[j]))
    BY <1>3, <2>3 DEF PreservedContext
  <2> QED BY <2>2, <2>4
<1> QED BY <1>1, <1>2, <1>3

\* reconstruct: every step of the replay of a captured decision succeeds.
LEMMA ReplayFollows ==
    ASSUME PInv
    PROVE  CapturedDecisionsReplay
<1>1. Maximum \in Nat
  BY LenProperties DEF PInv, IInv, TypeInv, Maximum
<1>2. SUFFICES ASSUME NEW i \in Recorded("captured_decision", Maximum)
               PROVE  Reconstruct(i).reconstructed
  BY DEF CapturedDecisionsReplay, Decided, Recorded
<1>3. PICK d : d = events[i]
  OBVIOUS
<1>4. PICK result : result = Evaluate(d.artifact, DatedContext(d), d.at)
  OBVIOUS
<1>5. /\ VerifiedArtifact(d.artifact) /\ result.evaluated
      /\ d.consumed = UsedBy(d, result) /\ d.result = result.verdict
  <2>1. HoldsUp(d)
    BY <1>3 DEF PInv, ReplayInv
  <2>2. CASE d.schema = 2
    BY <1>4, <2>1, <2>2 DEF HoldsUp, Evaluates2
  <2>3. CASE d.schema # 2
    BY <1>4, <2>1, <2>3 DEF HoldsUp, Evaluates3
  <2> QED BY <2>2, <2>3
<1>6. PreservedContext(i)
  BY <1>1, ContextIsPreserved
<1>7. HistoricalContext(i) = DatedContext(d)
  BY <1>3 DEF HistoricalContext, Recorded
<1>8. Reproduced(d, result).reconstructed
  BY <1>5, ResultAgrees
<1> QED BY <1>3, <1>4, <1>5, <1>6, <1>7, <1>8 DEF Reconstruct, Read, Replayed

\* INV-05: a decision of a capture reproduces as long as it is kept, whatever is recorded
\* after it.
THEOREM CapturedDecisionsReproduce == CapturedSpec => []CapturedDecisionsReplay
BY CapturedInductive, ReplayFollows, PTL

--------------------------------------------------------------------------------
(* Comparison: compare explains the whole difference.                          *)


\* what a factor's result says: an input that was not consumed contributes nothing
Contributes(x, context) ==
    /\ x.weight \in Int /\ x.contribution \in Int
    /\ x.contribution = IF x.verdict = "match" THEN x.weight ELSE 0
    /\ x.state = InputState({y \in context : y.key = x.key})
    /\ x.state # "consumed" => x.contribution = 0

\* The factors of an evaluation are those of the artifact, one for a key, and what the
\* context lacks contributes nothing to any of them.
LEMMA FactorsAre ==
    ASSUME NEW artifact, ArtifactPayload(artifact), NEW context, NEW boundary,
           NEW F, F = {FactorResult(f, context, boundary) : f \in artifact.factors}
    PROVE  /\ IsFiniteSet(F) /\ UniqueKeys(F)
           /\ \A x \in F : Contributes(x, context) /\ x # NoFactor
<1> DEFINE r(f) == FactorResult(f, context, boundary)
           h == [f \in artifact.factors |-> r(f)]
<1>1. /\ IsFiniteSet(artifact.factors) /\ UniqueKeys(artifact.factors)
      /\ \A f \in artifact.factors : f.weight \in Int
  BY DEF ArtifactPayload
<1>2. ASSUME NEW f \in artifact.factors
      PROVE  /\ r(f).key = f.key /\ r(f).weight = f.weight
             /\ r(f).contribution = IF r(f).verdict = "match" THEN f.weight ELSE 0
             /\ r(f).state = InputState({y \in context : y.key = f.key})
             /\ r(f).state # "consumed" => r(f).verdict = "no_match"
             /\ "key" \in DOMAIN r(f)
  <2>1. PICK s, v, w : r(f) = Contribution(f, s, v, w)
                       /\ s = InputState({y \in context : y.key = f.key})
                       /\ (s # "consumed" => w = "no_match")
    BY DEF FactorResult
  <2> QED BY <2>1 DEF Contribution
<1>3. IsFiniteSet(F)
  <2>1. h \in Surjection(artifact.factors, F)
    BY DEF Surjection
  <2> HIDE DEF h
  <2> QED BY <1>1, <2>1, FS_Surjection
<1>4. UniqueKeys(F)
  <2> HIDE DEF r
  <2>1. F = {r(f) : f \in artifact.factors}
    BY DEF r
  <2>2. ASSUME NEW x \in F, NEW y \in F, x.key = y.key PROVE x = y
    <3>1. PICK f \in artifact.factors : x = r(f)
      BY <2>1
    <3>2. PICK g \in artifact.factors : y = r(g)
      BY <2>1
    <3>3. f.key = g.key
      BY <1>2, <2>2, <3>1, <3>2
    <3>4. f = g
      BY <1>1, <3>3 DEF UniqueKeys
    <3> QED BY <3>1, <3>2, <3>4
  <2> QED BY <2>2 DEF UniqueKeys
<1>5. ASSUME NEW x \in F
      PROVE  Contributes(x, context) /\ x # NoFactor
  <2>1. PICK f \in artifact.factors : x = r(f)
    OBVIOUS
  <2> HIDE DEF r
  <2>2. "key" \notin DOMAIN NoFactor
    BY DEF NoFactor
  <2>3. x # NoFactor
    BY <1>2, <2>1, <2>2
  <2>4. x.weight \in Int
    BY <1>1, <1>2, <2>1
  <2>5. x.contribution = IF x.verdict = "match" THEN x.weight ELSE 0
    BY <1>2, <2>1
  <2>6. x.state = InputState({y \in context : y.key = x.key})
    BY <1>2, <2>1
  <2>7. x.state # "consumed" => x.verdict = "no_match"
    BY <1>2, <2>1
  <2> QED BY <2>3, <2>4, <2>5, <2>6, <2>7 DEF Contributes
<1> QED BY <1>3, <1>4, <1>5

\* The score of an evaluation is the sum over any keys that cover its factors.
LEMMA ScoreByKeys ==
    ASSUME NEW result, IsFiniteSet(result.factors), UniqueKeys(result.factors),
           \A x \in result.factors : x.contribution \in Int,
           NEW K, IsFiniteSet(K), \A x \in result.factors : x.key \in K
    PROVE  /\ \A k \in K : FactorOf(result, k).contribution \in Int
           /\ SumFunctionOnSet([k \in K |-> FactorOf(result, k).contribution], K)
                 = SumFunction([x \in result.factors |-> x.contribution])
<1> DEFINE F == result.factors
           h == [x \in F |-> x.key]
           a == [x \in F |-> x.contribution]
           b == [k \in K |-> FactorOf(result, k).contribution]
<1>1. \A x \in F : FactorOf(result, x.key) = x
  BY DEF FactorOf, UniqueKeys
<1>2. \A k \in K : \/ \E x \in F : x.key = k /\ FactorOf(result, k) = x
                   \/ (\A x \in F : x.key # k) /\ FactorOf(result, k) = NoFactor
  BY <1>1 DEF FactorOf
<1>3. \A k \in K : /\ FactorOf(result, k).contribution \in Int
                   /\ (\A x \in F : x.key # k) => FactorOf(result, k).contribution = 0
  BY <1>2 DEF NoFactor
<1>4. h \in Surjection(F, {h[x] : x \in F})
  BY DEF Surjection
<1>5. \A x \in F : a[x] \in Int /\ b[h[x]] = a[x]
  BY <1>1
<1>6. \A x, y \in F : h[x] = h[y] => x = y
  BY DEF UniqueKeys
<1> DEFINE Keys == {h[x] : x \in F}
<1>7. SumFunctionOnSet(b, Keys) = SumFunctionOnSet(a, F)
  <2>1. IsFiniteSet(F) /\ h \in Surjection(F, Keys)
    BY <1>4
  <2> HIDE DEF h, a, b, F, Keys
  <2> QED BY <1>5, <1>6, <2>1, SumIsRenamed
<1>8. SumFunctionOnSet(b, K) = SumFunctionOnSet(b, Keys)
  <2>1. Keys \in SUBSET K
    OBVIOUS
  <2>2. \A k \in K : b[k] \in Int /\ (k \notin Keys => b[k] = 0)
    BY <1>3
  <2> HIDE DEF Keys, b
  <2> QED BY <2>1, <2>2, SumOfZeros
<1>9. SumFunction(a) = SumFunctionOnSet(a, F)
  BY DEF SumFunction
<1> QED BY <1>3, <1>7, <1>8, <1>9

\* No score exceeds the sum of the positive weights.
LEMMA ScoreIsBounded ==
    ASSUME NEW artifact, ArtifactPayload(artifact), NEW context, NEW boundary,
           NEW F, F = {FactorResult(f, context, boundary) : f \in artifact.factors}
    PROVE  /\ SumFunction([x \in F |-> x.contribution]) \in Int
           /\ PositiveWeightBound(artifact) \in Int
           /\ SumFunction([x \in F |-> x.contribution]) <= PositiveWeightBound(artifact)
<1> DEFINE A == artifact.factors
           P == {f \in A : f.weight > 0}
           h == [f \in A |-> FactorResult(f, context, boundary)]
           a == [f \in A |-> h[f].contribution]
           b == [f \in A |-> IF f.weight > 0 THEN f.weight ELSE 0]
           c == [x \in F |-> x.contribution]
           w == [f \in P |-> f.weight]
<1>1. /\ IsFiniteSet(A) /\ UniqueKeys(A) /\ \A f \in A : f.weight \in Int
      /\ IsFiniteSet(P) /\ P \in SUBSET A
  <2>1. IsFiniteSet(A)
    BY DEF ArtifactPayload
  <2> QED BY <2>1, FS_Subset DEF ArtifactPayload
<1>2. ASSUME NEW f \in A
      PROVE  /\ h[f] \in F /\ h[f].key = f.key
             /\ h[f].contribution = f.weight \/ h[f].contribution = 0
  <2>1. PICK s, v, y : FactorResult(f, context, boundary) = Contribution(f, s, v, y)
    BY DEF FactorResult
  <2>2. h[f] = Contribution(f, s, v, y)
    BY <2>1
  <2>3. h[f].key = f.key /\ (h[f].contribution = f.weight \/ h[f].contribution = 0)
    <3> HIDE DEF h
    <3> QED BY <2>2 DEF Contribution
  <2> QED BY <2>3
<1>3. \A f, g \in A : h[f] = h[g] => f = g
  <2> HIDE DEF h, A
  <2> QED BY <1>1, <1>2 DEF UniqueKeys
<1>4. \A f \in A : a[f] \in Int /\ b[f] \in Int /\ a[f] <= b[f] /\ c[h[f]] = a[f]
  <2>1. ASSUME NEW f \in A PROVE a[f] \in Int /\ b[f] \in Int /\ a[f] <= b[f] /\ c[h[f]] = a[f]
    <3>1. f.weight \in Int /\ (a[f] = f.weight \/ a[f] = 0)
      BY <1>1, <1>2
    <3>2. b[f] = IF f.weight > 0 THEN f.weight ELSE 0
      OBVIOUS
    <3>3. c[h[f]] = a[f]
      BY <1>2
    <3> HIDE DEF a, b, c, h
    <3> QED BY <3>1, <3>2, <3>3
  <2> QED BY <2>1
<1>5. F = {h[f] : f \in A}
  OBVIOUS
<1>6. SumFunctionOnSet(c, F) = SumFunctionOnSet(a, A)
  <2>1. h \in Surjection(A, F) /\ IsFiniteSet(A)
    BY <1>1, <1>2, <1>5 DEF Surjection
  <2> HIDE DEF h, a, b, c, w, A, P
  <2>2. \A f \in A : a[f] \in Int /\ c[h[f]] = a[f]
    BY <1>4
  <2> QED BY <1>3, <2>1, <2>2, SumIsRenamed
<1>7. /\ SumFunctionOnSet(a, A) <= SumFunctionOnSet(b, A)
      /\ SumFunctionOnSet(a, A) \in Int /\ SumFunctionOnSet(b, A) \in Int
  <2>1. \A f \in A : a[f] \in Int /\ b[f] \in Int /\ a[f] <= b[f]
    BY <1>4
  <2> HIDE DEF a, b, A
  <2> QED BY <1>1, <2>1, SumIsMonotone, SumTakesOut
<1>8. SumFunctionOnSet(b, A) = SumFunctionOnSet(b, P)
  <2>1. \A f \in A : b[f] \in Int /\ (f \notin P => b[f] = 0)
    BY <1>4
  <2> HIDE DEF b, A, P
  <2> QED BY <1>1, <2>1, SumOfZeros
<1>9. SumFunctionOnSet(b, P) = SumFunctionOnSet(w, P)
  <2>1. \A f \in P : b[f] \in Int /\ w[f] = b[f]
    BY <1>4
  <2> HIDE DEF b, w, P
  <2> QED BY <1>1, <2>1, SumOfEqual
<1>10. SumFunction(c) = SumFunctionOnSet(c, F) /\ SumFunction(w) = SumFunctionOnSet(w, P)
  BY DEF SumFunction
<1>11. PositiveWeightBound(artifact) = SumFunction(w)
  BY DEF PositiveWeightBound
<1> HIDE DEF a, b, c, w, P, A
<1>12. SumFunction(c) \in Int /\ SumFunction(w) \in Int /\ SumFunction(c) <= SumFunction(w)
  BY <1>6, <1>7, <1>8, <1>9, <1>10
<1> QED BY <1>11, <1>12 DEF c

\* What compare says of one key.
ChangeOf(original, result, k) ==
    [key |-> k,
     version |-> IF FactorOf(original, k).version # NoId THEN FactorOf(original, k).version
                 ELSE FactorOf(result, k).version,
     delta |-> FactorOf(result, k).contribution - FactorOf(original, k).contribution,
     change |-> Classify(FactorOf(original, k), FactorOf(result, k))]

\* the keys that are compared, and what is said of them
ComparedKeys(original, result) == {f.key : f \in original.factors \cup result.factors}
ChangesOf(original, result) ==
    {ChangeOf(original, result, k) : k \in ComparedKeys(original, result)}
Told(changes) == {c \in changes : c.change # "unchanged"}

\* what an evaluation of an artifact gives
IsResult(result, artifact, context, boundary) ==
    /\ ArtifactPayload(artifact)
    /\ result = Evaluate(artifact, context, boundary) /\ result.evaluated

\* A successful evaluation is a factor result per factor and the verdict of their sum.
LEMMA ResultIs ==
    ASSUME NEW result, NEW artifact, NEW context, NEW boundary,
           IsResult(result, artifact, context, boundary)
    PROVE  LET F == {FactorResult(f, context, boundary) : f \in artifact.factors}
           IN  result.factors = F
               /\ result.verdict = Scored(artifact, SumFunction([f \in F |-> f.contribution]))
<1> DEFINE F == {FactorResult(f, context, boundary) : f \in artifact.factors}
<1>1. result = Total(artifact, context, F)
  BY DEF IsResult, Evaluate, Refusal
<1>2. ~ \E f \in F : f.verdict = "error"
  <2> HIDE DEF F
  <2> QED BY <1>1 DEF IsResult, Total, Refusal
<1> HIDE DEF F
<1>3. result.factors = F
      /\ result.verdict = Scored(artifact, SumFunction([f \in F |-> f.contribution]))
  BY <1>1, <1>2 DEF Total
<1> QED BY <1>3 DEF F

\* what a result has on a key: a factor's result, or none
Holds(result, k, context) ==
    LET x == FactorOf(result, k)
    IN  IF \E f \in result.factors : f.key = k
        THEN x # NoFactor /\ x.key = k /\ Contributes(x, context)
        ELSE x = NoFactor

\* What is known of the factors of a result, and of the factor it has on a key.
LEMMA FactorsOfResult ==
    ASSUME NEW result, NEW artifact, NEW context, NEW boundary,
           IsResult(result, artifact, context, boundary)
    PROVE  /\ IsFiniteSet(result.factors) /\ UniqueKeys(result.factors)
           /\ result.verdict.score = SumFunction([f \in result.factors |-> f.contribution])
           /\ \A x \in result.factors : x.contribution \in Int /\ FactorOf(result, x.key) = x
           /\ \A k : Holds(result, k, context)
<1>1. PICK F : F = {FactorResult(f, context, boundary) : f \in artifact.factors}
  OBVIOUS
<1>2. result.factors = F
      /\ result.verdict = Scored(artifact, SumFunction([f \in F |-> f.contribution]))
  BY <1>1, ResultIs
<1>3. /\ IsFiniteSet(F) /\ UniqueKeys(F)
      /\ \A x \in F : Contributes(x, context) /\ x # NoFactor
  <2>1. ArtifactPayload(artifact)
    BY DEF IsResult
  <2> QED BY <1>1, <2>1, FactorsAre
<1>4. result.verdict.score = SumFunction([f \in result.factors |-> f.contribution])
  BY <1>2 DEF Scored
<1>5. \A x \in F : FactorOf(result, x.key) = x
  BY <1>2, <1>3 DEF FactorOf, UniqueKeys
<1>6. ASSUME NEW k PROVE Holds(result, k, context)
  <2>1. CASE \E f \in F : f.key = k
    BY <1>2, <1>3, <1>5, <2>1 DEF Holds
  <2>2. CASE ~ \E f \in F : f.key = k
    BY <1>2, <2>2 DEF Holds, FactorOf
  <2> QED BY <2>1, <2>2
<1>7. \A x \in F : x.contribution \in Int
  BY <1>3 DEF Contributes
<1> QED BY <1>2, <1>3, <1>4, <1>5, <1>6, <1>7

\* Every key either artifact has a factor on has one change, and the changes add up.
LEMMA ChangesAddUp ==
    ASSUME NEW original, NEW result, NEW first, NEW second, NEW context, NEW boundary,
           IsResult(original, first, context, boundary),
           IsResult(result, second, context, boundary),
           NEW K, K = ComparedKeys(original, result),
           NEW changes, changes = ChangesOf(original, result),
           NEW told, told = Told(changes)
    PROVE  result.verdict.score - original.verdict.score = SumFunction([c \in told |-> c.delta])
<1> DEFINE a == [k \in K |-> FactorOf(result, k).contribution]
           b == [k \in K |-> FactorOf(original, k).contribution]
           d == [k \in K |-> ChangeOf(original, result, k).delta]
           h == [k \in K |-> ChangeOf(original, result, k)]
           e == [c \in changes |-> c.delta]
           t == [c \in told |-> c.delta]
<1>1. IsFiniteSet(K)
  <2> DEFINE F == original.factors \cup result.factors
             g == [f \in F |-> f.key]
  <2>1. IsFiniteSet(F)
    BY FactorsOfResult, FS_Union
  <2>2. g \in Surjection(F, K)
    BY DEF Surjection, ComparedKeys
  <2> HIDE DEF F, g
  <2> QED BY <2>1, <2>2, FS_Surjection
<1>2. /\ \A k \in K : FactorOf(result, k).contribution \in Int
      /\ SumFunctionOnSet(a, K) = result.verdict.score
  <2>1. /\ IsFiniteSet(result.factors) /\ UniqueKeys(result.factors)
        /\ \A x \in result.factors : x.contribution \in Int
        /\ result.verdict.score = SumFunction([f \in result.factors |-> f.contribution])
    BY FactorsOfResult
  <2>2. \A x \in result.factors : x.key \in K
    BY DEF ComparedKeys
  <2> QED BY <1>1, <2>1, <2>2, ScoreByKeys
<1>3. /\ \A k \in K : FactorOf(original, k).contribution \in Int
      /\ SumFunctionOnSet(b, K) = original.verdict.score
  <2>1. /\ IsFiniteSet(original.factors) /\ UniqueKeys(original.factors)
        /\ \A x \in original.factors : x.contribution \in Int
        /\ original.verdict.score = SumFunction([f \in original.factors |-> f.contribution])
    BY FactorsOfResult
  <2>2. \A x \in original.factors : x.key \in K
    BY DEF ComparedKeys
  <2> QED BY <1>1, <2>1, <2>2, ScoreByKeys
<1>4. \A k \in K : a[k] \in Int /\ b[k] \in Int /\ d[k] = a[k] - b[k]
  BY <1>2, <1>3 DEF ChangeOf
<1>5. changes = {ChangeOf(original, result, k) : k \in K}
  BY DEF ChangesOf
<1>6. told = {c \in changes : c.change # "unchanged"}
  BY DEF Told
<1>7. SumFunctionOnSet(d, K) = SumFunctionOnSet(a, K) - SumFunctionOnSet(b, K)
  <2> HIDE DEF a, b, d
  <2> QED BY <1>1, <1>4, SumOfDifferences
<1>8. IsFiniteSet(changes) /\ SumFunctionOnSet(e, changes) = SumFunctionOnSet(d, K)
  <2>1. h \in Surjection(K, changes)
    <3>1. changes = {h[k] : k \in K}
      BY <1>5
    <3> QED BY <3>1 DEF Surjection
  <2>2. \A k \in K : d[k] \in Int /\ e[h[k]] = d[k]
    <3>1. ASSUME NEW k \in K PROVE d[k] \in Int /\ e[h[k]] = d[k]
      <4>1. d[k] = a[k] - b[k] /\ a[k] \in Int /\ b[k] \in Int
        BY <1>4
      <4>2. h[k] \in changes
        BY <1>5
      <4>3. e[h[k]] = d[k]
        BY <4>2
      <4> HIDE DEF a, b, d, e, h
      <4> QED BY <4>1, <4>3
    <3> QED BY <3>1
  <2>3. \A k, l \in K : h[k] = h[l] => k = l
    <3>1. \A k \in K : h[k].key = k
      BY DEF ChangeOf
    <3> HIDE DEF h
    <3> QED BY <3>1
  <2> HIDE DEF h, e, d, a, b, t
  <2> QED BY <1>1, <2>1, <2>2, <2>3, SumIsRenamed
<1>9. ASSUME NEW c \in changes PROVE c.delta \in Int /\ (c \notin told => c.delta = 0)
  <2>1. PICK k \in K : c = ChangeOf(original, result, k)
    BY <1>5
  <2>2. PICK x : x = FactorOf(original, k)
    OBVIOUS
  <2>3. PICK y : y = FactorOf(result, k)
    OBVIOUS
  <2>4. c.delta = y.contribution - x.contribution /\ c.change = Classify(x, y)
    BY <2>1, <2>2, <2>3 DEF ChangeOf
  <2>5. x.contribution \in Int /\ y.contribution \in Int
    BY <1>2, <1>3, <2>2, <2>3
  <2>6. /\ x # NoFactor => x.contribution = IF x.verdict = "match" THEN x.weight ELSE 0
        /\ y # NoFactor => y.contribution = IF y.verdict = "match" THEN y.weight ELSE 0
    <3>1. Holds(original, k, context) /\ Holds(result, k, context)
      BY FactorsOfResult
    <3> QED BY <2>2, <2>3, <3>1 DEF Holds, Contributes
  <2>7. c \notin told => c.change = "unchanged"
    BY <1>6
  <2>8. Classify(x, y) = "unchanged" =>
            x # NoFactor /\ y # NoFactor /\ x.verdict = y.verdict /\ x.weight = y.weight
    BY DEF Classify
  <2>9. Classify(x, y) = "unchanged" => x.contribution = y.contribution
    BY <2>6, <2>8
  <2> QED BY <2>4, <2>5, <2>7, <2>9
<1>10. SumFunctionOnSet(e, changes) = SumFunctionOnSet(e, told)
  <2>1. told \in SUBSET changes
    BY <1>6
  <2>2. ASSUME NEW c \in changes PROVE e[c] \in Int /\ (c \notin told => e[c] = 0)
    BY <1>9
  <2> HIDE DEF e
  <2> QED BY <1>8, <2>1, <2>2, SumOfZeros
<1>11. SumFunctionOnSet(e, told) = SumFunctionOnSet(t, told)
  <2>1. IsFiniteSet(told) /\ \A c \in told : e[c] \in Int /\ t[c] = e[c]
    BY <1>8, <1>9, <1>6, FS_Subset
  <2> HIDE DEF e, t
  <2> QED BY <2>1, SumOfEqual
<1>12. SumFunction(t) = SumFunctionOnSet(t, told)
  BY DEF SumFunction
<1> HIDE DEF a, b, d, e, t
<1>13. SumFunction(t) = result.verdict.score - original.verdict.score
  BY <1>2, <1>3, <1>7, <1>8, <1>10, <1>11, <1>12
<1> QED BY <1>13 DEF t

\* A registered artifact is one that the schema admits.
LEMMA RegisteredArtifact ==
    ASSUME CapturedInv, NEW i \in Recorded("artifact", Maximum)
    PROVE  ArtifactPayload(events[i].artifact)
<1>1. i \in 1..Maximum /\ events[i].kind = "artifact"
  BY DEF Recorded
<1>2. events[i] \in Submittable
  <2>1. events[i] \in Submittable \/ events[i] \in Captured
    BY <1>1 DEF CapturedInv
  <2> QED BY <1>1, <2>1, KindsOf DEF CapturedKind
<1> QED BY <1>1, <1>2, SubmittableAssumption DEF WellFormed

\* A comparison is of two results over one context.
LEMMA ComparedResults ==
    ASSUME CapturedInv, NEW i, NEW j \in Recorded("artifact", Maximum),
           NEW artifact, artifact = events[j].artifact,
           NEW replayed, replayed = Counterfactual(i, artifact), replayed.reconstructed
    PROVE  LET context == HistoricalContext(i)
           IN  /\ IsResult(replayed.original, events[i].artifact, context, events[i].at)
               /\ IsResult(replayed.result, artifact, context, events[i].at)
<1> DEFINE d == events[i]
           first == Evaluate(d.artifact, HistoricalContext(i), d.at)
           second == Evaluate(artifact, HistoricalContext(i), d.at)
<1>1. PICK original : original = Reconstruct(i)
  OBVIOUS
<1>2. PICK later : later = second
  OBVIOUS
<1>3. replayed = Instead(original, artifact, later)
  BY <1>1, <1>2 DEF Counterfactual
<1>4. original.reconstructed
  BY <1>3 DEF Instead, Failed
<1>5. /\ later.evaluated
      /\ replayed.original = original.result /\ replayed.result = later
  BY <1>3, <1>4 DEF Instead, Failed
<1>6. VerifiedArtifact(d.artifact) /\ original = Reproduced(d, first)
  BY <1>1, <1>4 DEF Reconstruct, Read, Replayed, Failed
<1>7. first.evaluated /\ original.result = first
  <2> HIDE DEF first
  <2> QED BY <1>4, <1>6 DEF Reproduced, Failed
<1>8. ArtifactPayload(d.artifact) /\ ArtifactPayload(artifact)
  BY <1>6, RegisteredArtifact DEF VerifiedArtifact
<1>9. replayed.original = first /\ replayed.result = second
  BY <1>2, <1>5, <1>7
<1>10. first.evaluated /\ second.evaluated
  BY <1>2, <1>5, <1>7
<1>11. /\ IsResult(first, d.artifact, HistoricalContext(i), d.at)
       /\ IsResult(second, artifact, HistoricalContext(i), d.at)
  BY <1>8, <1>10 DEF IsResult
<1> HIDE DEF first, second
<1> QED BY <1>9, <1>11

\* A comparison explains the difference: with the changes that compare tells, and with
\* nothing where the artifact is the same or the input is missing.
LEMMA ComparisonFollows ==
    ASSUME CapturedInv
    PROVE  ComparisonExplains
<1>1. SUFFICES ASSUME NEW i \in Decided, NEW j \in Recorded("artifact", Maximum),
                      NEW replayed, replayed = Counterfactual(i, events[j].artifact),
                      replayed.reconstructed,
                      NEW changes, changes = ContributionChanges(replayed),
                      NEW told, told = {c \in changes : c.change # "unchanged"}
               PROVE  /\ replayed.result.verdict.score - replayed.original.verdict.score
                            = SumFunction([c \in told |-> c.delta])
                      /\ events[i].artifact = events[j].artifact => told = {}
                      /\ \A x \in MissingInputs(replayed), c \in changes :
                            c.key = x.key => c.delta = 0
                      /\ ThresholdExceedsBound(events[j].artifact) =>
                            replayed.result.verdict.output = events[j].artifact.below
  BY DEF ComparisonExplains
<1> DEFINE original == replayed.original
           result == replayed.result
           context == HistoricalContext(i)
           K == ComparedKeys(original, result)
           artifact == events[j].artifact
<1>2. /\ IsResult(original, events[i].artifact, context, events[i].at)
      /\ IsResult(result, artifact, context, events[i].at)
  BY <1>1, ComparedResults
<1>3. changes = ChangesOf(original, result) /\ told = Told(changes)
  BY <1>1 DEF ContributionChanges, ChangesOf, ChangeOf, ComparedKeys, Told
<1> HIDE DEF original, result, context, artifact
<1>4. result.verdict.score - original.verdict.score = SumFunction([c \in told |-> c.delta])
  BY <1>2, <1>3, ChangesAddUp
<1>5. \A k : Holds(original, k, context) /\ Holds(result, k, context)
  BY <1>2, FactorsOfResult
<1>6. ASSUME events[i].artifact = artifact PROVE told = {}
  <2>1. result = original
    BY <1>2, <1>6 DEF IsResult
  <2>2. ASSUME NEW c \in changes PROVE c.change = "unchanged"
    <3>1. PICK k \in K : c = ChangeOf(original, result, k)
      BY <1>3 DEF ChangesOf
    <3>2. PICK x : x = FactorOf(original, k)
      OBVIOUS
    <3>3. x # NoFactor
      BY <1>5, <2>1, <3>2 DEF Holds, ComparedKeys
    <3>4. c.change = Classify(x, x)
      BY <2>1, <3>1, <3>2 DEF ChangeOf
    <3> QED BY <3>3, <3>4 DEF Classify
  <2> QED BY <1>1, <2>2
<1>7. ASSUME NEW x \in MissingInputs(replayed), NEW c \in changes, c.key = x.key
      PROVE  c.delta = 0
  <2>1. PICK k \in K : c = ChangeOf(original, result, k)
    BY <1>3 DEF ChangesOf
  <2>2. PICK f \in result.factors : f.key = x.key /\ f.state \in {"unavailable", "absent"}
    BY DEF MissingInputs, result
  <2>3. k = x.key /\ c.delta = FactorOf(result, k).contribution - FactorOf(original, k).contribution
    BY <1>7, <2>1 DEF ChangeOf
  <2>4. f = FactorOf(result, k)
    BY <1>2, <2>2, <2>3, FactorsOfResult
  <2>5. f # NoFactor /\ f.key = k /\ Contributes(f, context)
    BY <1>5, <2>2, <2>3, <2>4 DEF Holds
  <2>6. InputState({y \in context : y.key = k}) # "consumed" /\ f.contribution = 0
    <3>1. f.state # "consumed"
      BY <2>2
    <3>2. f.state = InputState({y \in context : y.key = k}) /\ f.contribution = 0
      BY <2>5, <3>1 DEF Contributes
    <3> QED BY <3>1, <3>2
  <2>7. FactorOf(original, k).contribution = 0
    <3>1. PICK g : g = FactorOf(original, k)
      OBVIOUS
    <3>2. CASE g = NoFactor
      BY <3>1, <3>2 DEF NoFactor
    <3>3. CASE g # NoFactor
      <4>1. g.key = k /\ Contributes(g, context)
        BY <1>5, <3>1, <3>3 DEF Holds
      <4>2. g.state = InputState({y \in context : y.key = k})
            /\ (g.state # "consumed" => g.contribution = 0)
        BY <4>1 DEF Contributes
      <4> QED BY <2>6, <3>1, <4>2
    <3> QED BY <3>2, <3>3
  <2> QED BY <2>3, <2>4, <2>6, <2>7
<1>8. ASSUME ThresholdExceedsBound(artifact) PROVE result.verdict.output = artifact.below
  <2>1. PICK F : F = {FactorResult(f, context, events[i].at) : f \in artifact.factors}
    OBVIOUS
  <2>2. PICK score : score = SumFunction([f \in F |-> f.contribution])
    OBVIOUS
  <2>3. result.verdict = Scored(artifact, score)
    BY <1>2, <2>1, <2>2, ResultIs
  <2>4. score \in Int /\ PositiveWeightBound(artifact) \in Int
        /\ score <= PositiveWeightBound(artifact) /\ artifact.threshold \in Int
    <3>1. ArtifactPayload(artifact)
      BY <1>2 DEF IsResult
    <3>2. artifact.threshold \in Int
      BY <3>1 DEF ArtifactPayload
    <3> QED BY <2>1, <2>2, <3>1, <3>2, ScoreIsBounded
  <2>5. ~ (score >= artifact.threshold)
    BY <1>8, <2>4 DEF ThresholdExceedsBound
  <2> QED BY <2>3, <2>5 DEF Scored
<1> QED BY <1>4, <1>6, <1>7, <1>8 DEF original, result, artifact

\* A counterfactual explains the whole difference between two artifacts over the context
\* of a decision, whatever they weigh and whatever the context lacks.
THEOREM ComparisonsExplain == CapturedSpec => []ComparisonExplains
<1>1. PInv => ComparisonExplains
  BY ComparisonFollows DEF PInv
<1> QED BY <1>1, CapturedInductive, PTL

--------------------------------------------------------------------------------
(* Reproducibility: what is read of a decision is settled when it is recorded   *)

\* load_context: a replay of a decision of either kind finds its context in order.
IntactInv == \A i \in Decided : PreservedContext(i) = TRUE

\* It follows from what resolves, and from what the collector required.
LEMMA ContextIsInOrder ==
    ASSUME PInv
    PROVE  IntactInv
<1>1. Maximum \in Nat
  BY LenProperties DEF PInv, IInv, TypeInv, Maximum
<1>2. ASSUME NEW i \in Recorded("captured_decision", Maximum)
      PROVE  PreservedContext(i) = TRUE
  <2>1. /\ PreservedContext(i)
        /\ events[i].kind = "captured_decision" /\ events[i].schema \in {2, 3}
    BY <1>1, ContextIsPreserved, KindsOf DEF PInv, CapturedInv, CapturedKind, Recorded
  <2>2. CASE events[i].schema = 2
    <3>1. PreservedContext(i) = PreservedContext2(events[i])
      BY <2>1, <2>2 DEF PreservedContext
    <3>2. PreservedContext2(events[i]) \in BOOLEAN
      BY DEF PreservedContext2
    <3> QED BY <2>1, <3>1, <3>2
  <2>3. CASE events[i].schema = 3
    <3>1. PreservedContext(i) = (\A j \in History(i) : HistoryStep(events[j]))
      BY <2>1, <2>3 DEF PreservedContext
    <3> QED BY <2>1, <3>1
  <2> QED BY <2>1, <2>2, <2>3
<1>3. ASSUME NEW i \in Recorded("decision", Maximum)
      PROVE  PreservedContext(i) = TRUE
  <2>1. events[i].kind = "decision"
    BY DEF Recorded
  <2>2. PICK d : d = events[i]
    OBVIOUS
  <2>3. ASSUME NEW x \in d.context, x.available
        PROVE  \E r \in EvidenceVersion(x) : r.at <= d.at
    <3>1. [key |-> x.key, version |-> x.version, value |-> x.value] \in Cited(d)
      BY <2>3 DEF Cited
    <3>2. PICK r \in VersionsFor(d) : r.item.version = x.version /\ r.available <= d.at
      BY <2>2, <3>1 DEF PInv, ResolveInv, Resolves
    <3>3. PICK q \in Items(Maximum) :
             r = [item |-> q.item, account |-> q.account, available |-> q.at, pos |-> q.pos]
      BY <2>1, <2>2, <3>2 DEF VersionsFor
    <3>4. q.item = r.item /\ q.at = r.available
      BY <3>3
    <3> QED BY <3>2, <3>3, <3>4 DEF EvidenceVersion
  <2>4. PreservedContext(i) = ContextIsIntact(d)
    BY <2>1, <2>2 DEF PreservedContext
  <2>5. ContextIsIntact(d)
    BY <2>3 DEF ContextIsIntact
  <2> QED BY <2>4, <2>5 DEF ContextIsIntact
<1> QED BY <1>2, <1>3 DEF IntactInv, Decided, Recorded

\* load_evidence_version: the version that a decision preserved stays the one of its
\* identity, with the date it had.
LEMMA EvidenceIsKept ==
    ASSUME PInv, VersionInv', NEW e, NEW M, Grown(e, M),
           NEW i \in Recorded("decision", Maximum), NEW x \in events[i].context, x.available
    PROVE  EvidenceVersion(x)' = EvidenceVersion(x)
<1>1. PICK d : d = events[i]
  OBVIOUS
<1>2. d.kind = "decision"
  BY <1>1 DEF Recorded
<1>3. [key |-> x.key, version |-> x.version, value |-> x.value] \in Cited(d)
  BY <1>1 DEF Cited
<1>4. PICK r \in VersionsFor(d) : r.item.version = x.version
  BY <1>1, <1>3 DEF PInv, ResolveInv, Resolves
<1>5. PICK q \in Items(Maximum) :
         r = [item |-> q.item, account |-> q.account, available |-> q.at, pos |-> q.pos]
  BY <1>2, <1>4 DEF VersionsFor
<1>6. q.item.version = x.version
  BY <1>4, <1>5
<1>7. Items(Maximum) \subseteq Items(Maximum)'
  BY RowsGrow DEF Grown
<1>8. \A s \in Items(Maximum)' : s.item.version = x.version => s = q
  BY <1>5, <1>6, <1>7 DEF VersionInv, MintedOnce
<1>9. EvidenceVersion(x) = {q} /\ EvidenceVersion(x)' = {q}
  BY <1>5, <1>6, <1>7, <1>8 DEF EvidenceVersion
<1> QED BY <1>9

\* The context that is read back of a decision is the same after any append.
LEMMA ContextIsKept ==
    ASSUME PInv, VersionInv', NEW e, NEW M, Grown(e, M), Checked(e), NEW i \in Decided
    PROVE  HistoricalContext(i)' = HistoricalContext(i)
<1>1. i \in 1..M /\ events'[i] = events[i] /\ Maximum = M
  BY DEF Decided, Grown
<1>2. PICK d : d = events[i]
  OBVIOUS
<1>3. CASE d.kind = "decision"
  <2>1. i \in Recorded("decision", Maximum)
    BY <1>1, <1>2, <1>3 DEF Recorded
  <2>2. ASSUME NEW x \in d.context, x.available PROVE EvidenceVersion(x)' = EvidenceVersion(x)
    BY <1>2, <2>1, <2>2, EvidenceIsKept
  <2> DEFINE date(S) == (CHOOSE r \in S : TRUE).item.observed
             when(x) == IF ~x.available THEN NoId ELSE date(EvidenceVersion(x))
  <2>3. \A x \in d.context : when(x)' = when(x)
    <3> HIDE DEF date
    <3> QED BY <2>2
  <2>4. /\ DatedContext1(d) = {x @@ [observed |-> when(x)] : x \in d.context}
        /\ DatedContext1(d)' = {x @@ [observed |-> when(x)'] : x \in d.context}
    BY DEF DatedContext1
  <2>5. DatedContext1(d)' = DatedContext1(d)
    <3> HIDE DEF when
    <3> QED BY <2>3, <2>4
  <2> QED BY <1>1, <1>2, <1>3, <2>5 DEF HistoricalContext
<1>4. CASE d.kind # "decision"
  <2>1. d.kind = "captured_decision" /\ i \in Recorded("captured_decision", Maximum)
    BY <1>1, <1>2, <1>4 DEF Decided, Recorded
  <2>2. d \in Captured /\ Resolves(d, i, VersionsFor(d))
    BY <1>1, <1>2, <2>1, KindsOf DEF PInv, CapturedInv, CapturedKind, ResolveInv
  <2>3. \A x \in d.context : x.available =>
           \E r \in Minted(d.schema, Maximum) : r.item.version = x.version
    BY <2>1, <2>2, AvailableIsMinted
  <2>4. Referenced(d)' = Referenced(d)
    BY <2>1, <2>2, <2>3, ReferencedIsKept DEF PInv
  <2>5. DatedContext(d)' = DatedContext(d)
    BY <2>4 DEF DatedContext
  <2> QED BY <1>1, <1>2, <1>4, <2>5 DEF HistoricalContext
<1> QED BY <1>3, <1>4

\* A decision is of an artifact that is registered.
LEMMA DecidedByRegistered ==
    ASSUME PInv, NEW i \in Decided
    PROVE  \E j \in Recorded("artifact", Maximum) : events[j].artifact = events[i].artifact
<1>1. CASE i \in Recorded("decision", Maximum)
  BY <1>1 DEF PInv, RegistryInv
<1>2. CASE i \in Recorded("captured_decision", Maximum)
  <2>1. HoldsUp(events[i])
    BY <1>2 DEF PInv, ReplayInv
  <2>2. VerifiedArtifact(events[i].artifact)
    BY <2>1 DEF HoldsUp, Evaluates2, Evaluates3
  <2> QED BY <2>2 DEF VerifiedArtifact
<1> QED BY <1>1, <1>2 DEF Decided, Recorded

\* reconstruct: all that a reconstruction reads of a decision is the same after any step.
LEMMA ReadIsKept ==
    ASSUME PInv, PInv', IntactInv', [CapturedNext]_vars, NEW i \in Decided
    PROVE  Read(i)' = Read(i) /\ i \in Decided'
<1>1. IntactInv
  BY ContextIsInOrder
<1>2. SUFFICES ASSUME events'[i] = events[i], i \in Decided',
                      HistoricalContext(i)' = HistoricalContext(i),
                      NEW j \in Recorded("artifact", Maximum)',
                      events'[j].artifact = events[i].artifact
               PROVE  Read(i)' = Read(i)
  <2>1. CASE UNCHANGED events
    <3>1. events'[i] = events[i] /\ i \in Decided'
      BY <2>1 DEF Decided, Maximum
    <3>2. HistoricalContext(i)' = HistoricalContext(i)
      BY <2>1 DEF HistoricalContext, DatedContext1, DatedContext, EvidenceVersion, Referenced,
               Items, Minted, Rows, Recorded, Maximum
    <3>3. \E j \in Recorded("artifact", Maximum)' : events'[j].artifact = events[i].artifact
      BY <2>1, DecidedByRegistered DEF Recorded, Maximum
    <3> QED BY <1>2, <3>1, <3>2, <3>3
  <2>2. ASSUME NEW e, events' = Append(events, e), Checked(e)
        PROVE  /\ events'[i] = events[i] /\ i \in Decided'
               /\ HistoricalContext(i)' = HistoricalContext(i)
               /\ \E j \in Recorded("artifact", Maximum)' : events'[j].artifact = events[i].artifact
    <3>1. PICK M : M = Maximum
      OBVIOUS
    <3>2. Grown(e, M)
      BY <2>2, <3>1, AppendGrows DEF PInv, IInv
    <3>3. events'[i] = events[i] /\ i \in Decided'
      BY <3>1, <3>2 DEF Decided, Grown
    <3>4. HistoricalContext(i)' = HistoricalContext(i)
      BY <2>2, <3>2, ContextIsKept DEF PInv
    <3>5. \E j \in Recorded("artifact", Maximum)' : events'[j].artifact = events[i].artifact
      <4>1. PICK j \in Recorded("artifact", Maximum) : events[j].artifact = events[i].artifact
        BY DecidedByRegistered
      <4>2. j \in Recorded("artifact", Maximum)' /\ events'[j] = events[j]
        BY <3>1, <3>2, <4>1 DEF Grown, Recorded
      <4> QED BY <4>1, <4>2
    <3> QED BY <3>3, <3>4, <3>5
  <2> QED BY <1>2, <2>1, <2>2, CapturedStepAppends
<1>3. VerifiedArtifact(events[i].artifact)' = VerifiedArtifact(events[i].artifact)
  BY <1>2, DecidedByRegistered DEF VerifiedArtifact
<1>4. PreservedContext(i)' = PreservedContext(i)
  BY <1>1, <1>2 DEF IntactInv
<1> QED BY <1>2, <1>3, <1>4 DEF Read

\* INV-01, INV-02: no step changes what is reconstructed of a decision, or why it is not,
\* or the context that another artifact is replayed over.
THEOREM VerdictsStaySealed == CapturedSpec => VerdictsAreSealed
<1>1. PInv /\ PInv' /\ IntactInv' /\ [CapturedNext]_vars =>
         [\A i \in Decided : \A read \in {Read(i)'} :
             Replayed(read) = Reconstruct(i) /\ read.context = HistoricalContext(i)]_vars
  <2>1. SUFFICES ASSUME PInv, PInv', IntactInv', [CapturedNext]_vars, NEW i \in Decided
                 PROVE  /\ Replayed(Read(i)') = Reconstruct(i)
                        /\ Read(i)'.context = HistoricalContext(i)
    OBVIOUS
  <2>2. Read(i)' = Read(i)
    BY <2>1, ReadIsKept
  <2>3. Read(i).context = HistoricalContext(i)
    BY DEF Read
  <2> QED BY <2>2, <2>3 DEF Reconstruct
<1>2. PInv => IntactInv
  BY ContextIsInOrder
<1> QED BY <1>1, <1>2, CapturedInductive, PTL DEF CapturedSpec, VerdictsAreSealed

\* A step keeps the snapshots of the ledger it is made to.
LEMMA StepKeeps ==
    ASSUME PInv, [CapturedNext]_vars, NEW c \in 1..Maximum
    PROVE  Kept(c)
<1>1. CASE UNCHANGED events
  <2>1. Maximum \in Nat
    BY LenProperties DEF PInv, IInv, TypeInv, Maximum
  <2> QED BY <1>1, <2>1 DEF Kept
<1>2. ASSUME NEW e, events' = Append(events, e) PROVE Kept(c)
  <2>1. Maximum \in Nat
    BY <1>2, Growth DEF PInv, IInv
  <2>2. c \in 0..Maximum
    BY <2>1
  <2> QED BY <1>2, <2>2, SnapshotsAreKept DEF PInv, IInv
<1> QED BY <1>1, <1>2, CapturedStepAppends

\* _observations: what was observed and attributed by a cutoff is a fact of the snapshot.
LEMMA ObservationsAreKept ==
    ASSUME NEW c, Kept(c)
    PROVE  Observations(c)' = Observations(c)
<1>1. EffectiveIds(c)' = EffectiveIds(c) /\ EffectiveIds(c) \subseteq 1..c
  BY DEF Kept, EffectiveIds, Successors, Recorded
<1>2. ASSUME NEW i \in EffectiveIds(c)
      PROVE  ObservationFact(i, c)' = ObservationFact(i, c)
  <2>1. i \in 1..c /\ events'[i] = events[i]
    BY <1>1 DEF Kept
  <2>2. PICK o : o = events[i]
    OBVIOUS
  <2>3. Tips(o.id, c)' = Tips(o.id, c) /\ Tips(o.id, c) \subseteq 1..c
    BY TipsAreKept DEF Tips, Recorded
  <2>4. PICK tips : tips = Tips(o.id, c)
    OBVIOUS
  <2>5. PICK t : t = CHOOSE x \in tips : TRUE
    OBVIOUS
  <2>6. tips # {} => events'[t] = events[t]
    <3>1. tips # {} => t \in 1..c
      BY <2>3, <2>4, <2>5
    <3> QED BY <3>1 DEF Kept
  <2>7. ObservationFact(i, c) =
           [outcome |-> i, account |-> o.account, state |-> State(o),
            exact |-> PeriodQualifies(o), opportunity |-> o.opportunity,
            standing |-> IF tips = {} THEN "awaiting attribution" ELSE events[t].result.status,
            decision |-> IF tips = {} THEN NoId ELSE events[t].result.decision]
    BY <2>2, <2>4, <2>5 DEF ObservationFact
  <2>8. ObservationFact(i, c)' =
           [outcome |-> i, account |-> o.account, state |-> State(o),
            exact |-> PeriodQualifies(o), opportunity |-> o.opportunity,
            standing |-> IF tips = {} THEN "awaiting attribution" ELSE events'[t].result.status,
            decision |-> IF tips = {} THEN NoId ELSE events'[t].result.decision]
    <3>1. Tips(events[i].id, c)' = tips /\ events'[i] = o
      BY <2>1, <2>2, <2>3, <2>4
    <3> QED BY <2>5, <3>1 DEF ObservationFact
  <2> QED BY <2>6, <2>7, <2>8
<1> QED BY <1>1, <1>2 DEF Observations

\* _population_query: the decisions of a cutoff are those of recorded accounts for good.
LEMMA PopulationIsKept ==
    ASSUME PInv, PInv', NEW c \in 1..Maximum, Kept(c), 1..c \subseteq 1..Maximum,
           1..c \subseteq 1..Maximum'
    PROVE  Population(c)' = Population(c)
<1>1. Recorded("decision", c)' = Recorded("decision", c)
      /\ \A i \in Recorded("decision", c) : events'[i] = events[i]
  BY Prefix DEF Kept
<1>2. ASSUME NEW i \in Recorded("decision", c)
      PROVE  \E j \in Recorded("account", Maximum) : events[j].account = events[i].account
  BY DEF PInv, RegistryInv, Recorded
<1>3. ASSUME NEW i \in Recorded("decision", c)'
      PROVE  \E j \in Recorded("account", Maximum)' : events'[j].account = events'[i].account
  BY DEF PInv, RegistryInv, Recorded
<1>4. /\ Population(c) = {i \in Recorded("decision", c) : events[i].account # System}
      /\ Population(c)' = {i \in Recorded("decision", c)' : events'[i].account # System}
  BY <1>2, <1>3 DEF Population
<1> QED BY <1>1, <1>4

\* D-014: no step changes the metrics at a cutoff that the ledger has reached.
THEOREM MetricsStay == CapturedSpec => InsightsAreReproducible
<1>1. ASSUME PInv, PInv', IntactInv', [CapturedNext]_vars, NEW c \in 1..Maximum
      PROVE  Reads(c)' = Reads(c) /\ Observations(c)' = Observations(c)
  <2>1. Kept(c)
    BY <1>1, StepKeeps
  <2>2. Maximum \in Nat /\ Maximum' \in Nat /\ Maximum <= Maximum'
    <3>1. Maximum \in Nat
      BY <1>1, LenProperties DEF PInv, IInv, TypeInv, Maximum
    <3>2. CASE UNCHANGED events
      BY <3>1, <3>2 DEF Maximum
    <3>3. ASSUME NEW e, events' = Append(events, e) PROVE Maximum' = Maximum + 1
      BY <1>1, <3>3, Growth DEF PInv, IInv
    <3> QED BY <1>1, <3>1, <3>2, <3>3, CapturedStepAppends
  <2>3. Population(c)' = Population(c)
    BY <1>1, <2>1, <2>2, PopulationIsKept
  <2>4. ASSUME NEW i \in Population(c) PROVE Read(i)' = Read(i)
    <3>1. i \in Decided
      BY <2>2 DEF Population, Recorded, Decided
    <3> QED BY <1>1, <3>1, ReadIsKept
  <2>5. Reads(c)' = Reads(c)
    BY <2>3, <2>4 DEF Reads
  <2> QED BY <2>1, <2>5, ObservationsAreKept
<1>2. PInv /\ PInv' /\ IntactInv' /\ [CapturedNext]_vars =>
         [\A c \in 1..Maximum :
             \A reads \in {Reads(c)'}, observations \in {Observations(c)'} :
                MetricsOf(reads, observations) = Metrics(c)]_vars
  BY <1>1 DEF Metrics
<1>3. PInv => IntactInv
  BY ContextIsInOrder
<1> QED BY <1>2, <1>3, CapturedInductive, PTL DEF CapturedSpec, InsightsAreReproducible
================================================================================
