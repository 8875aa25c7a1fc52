--------------------------- MODULE CrmWriterProofs ---------------------------
(***************************************************************************)
(* Theorems about CrmWriter for every set of targets and every bound.      *)
(***************************************************************************)
EXTENDS CrmWriterInv, FiniteFacts, SequenceTheorems

\* Appending to a sequence of one gives the sequence of two.
LEMMA AppendToOne ==
    ASSUME NEW D, NEW a \in D, NEW b \in D
    PROVE  Append(<<a>>, b) = <<a, b>>
<1> DEFINE s == Append(<<a>>, b)
           u == <<a, b>>
<1>1. s \in Seq(D) /\ Len(s) = 2 /\ s[1] = a /\ s[2] = b
  OBVIOUS
<1>2. u \in Seq(D) /\ Len(u) = 2 /\ u[1] = a /\ u[2] = b
  OBVIOUS
<1> HIDE DEF s, u
<1>3. \A i \in 1..Len(s) : s[i] = u[i]
  BY <1>1, <1>2
<1>4. s = u
  BY <1>1, <1>2, <1>3, SeqEqual
<1> QED BY <1>4 DEF s, u

\* There are finitely many operations.
LEMMA OpIsFinite == IsFiniteSet(Op)
<1>1. IsFiniteSet(1..MaxCapture)
  BY FS_Interval, ConstantsAssumption
<1> QED BY <1>1, FS_Product, ConstantsAssumption DEF Op

\* The state read off the acknowledged documents is an open state, and apart from
\* the two defaults it is the state of one of them.
LEMMA OpenStateType ==
    ASSUME NEW docs \in Seq(Doc), NEW n \in Nat, n <= Len(docs), NEW b \in BOOLEAN
    PROVE  /\ OpenState(docs, n, b) \in State \ TERMINAL
           /\ \/ OpenState(docs, n, b) \in {"prepared", "unknown"}
              \/ \E i \in 1..n : OpenState(docs, n, b) = docs[i].state
<1> DEFINE open == {i \in 1..n : docs[i].state \notin TERMINAL}
           state == IF open = {} THEN "prepared" ELSE docs[Max(open)].state
<1>1. \A i \in 1..n : docs[i] \in Doc
  OBVIOUS
<1>2. open # {} => Max(open) \in open
  <2>1. open \subseteq 0..n
    OBVIOUS
  <2> QED BY <2>1, MaxOfBounded
<1>3. state \in State \ TERMINAL
  <2>1. CASE open = {}
    BY <2>1 DEF State, TERMINAL
  <2>2. CASE open # {}
    BY <1>1, <1>2, <2>2 DEF Doc
  <2> QED BY <2>1, <2>2
<1>4. state = "prepared" \/ \E i \in 1..n : state = docs[i].state
  BY <1>2
<1>5. OpenState(docs, n, b) = IF b /\ state = "prepared" THEN "unknown" ELSE state
  BY DEF OpenState
<1> HIDE DEF state
<1> QED BY <1>3, <1>4, <1>5 DEF State, TERMINAL

\* Every row sync writes has the shape of a progress row.
LEMMA ProgressType ==
    ASSUME NEW docs \in Seq(Doc), NEW n \in Nat, n <= Len(docs), NEW g \in Nat,
           NEW e \in TERMINAL \cup {"none"}, NEW r \in BOOLEAN
    PROVE  ProgressOf(docs, n, g, e, r) \in ProgressRow
<1>1. OpenState(docs, n, g # 0) \in State \ TERMINAL
  <2>1. (g # 0) \in BOOLEAN
    OBVIOUS
  <2> QED BY <2>1, OpenStateType
<1> QED BY <1>1 DEF ProgressOf, ProgressRow, State, TERMINAL

\* The revision read from the ledger is a natural number.
LEMMA RevisionType ==
    ASSUME TypeOK, NEW t \in Target
    PROVE  LedgerRevision(t) \in Nat
<1> DEFINE P == {q \in Op : TargetOf(q) = t /\ dom[q] # <<>>}
           S == {intent[p].revision : p \in P}
           R == S \cup {0}
<1>1. IsFiniteSet(P)
  BY OpIsFinite, FS_Subset
<1>2. IsFiniteSet(S)
  <2> DEFINE f == [p \in P |-> intent[p].revision]
  <2>1. f \in Surjection(P, S)
    BY DEF Surjection
  <2> QED BY <1>1, <2>1, FS_Surjection
<1>3. IsFiniteSet(R)
  BY <1>2, FS_AddElement
<1>4. R \subseteq Nat /\ R # {}
  BY DEF TypeOK
<1>5. Max(R) \in R
  <2> HIDE DEF R
  <2> QED BY <1>3, <1>4, MaxOfFinite
<1> QED BY <1>4, <1>5 DEF LedgerRevision

\* Idle and the running call have the shape of a call record.
LEMMA IdleType == Idle \in CallRecord
BY DEF Idle, NoGot, CallRecord, CallLabel

\* The initial state has the types.
LEMMA TypeInit == Init => TypeOK
<1> SUFFICES ASSUME Init PROVE TypeOK
  OBVIOUS
<1>1. progress \in [Op -> ProgressRow]
  BY DEF Init, NoProgress, ProgressRow
<1>2. owner \in [Target -> OwnerRow]
  BY DEF Init, OwnerRow
<1> QED BY <1>1, <1>2, IdleType, ConstantsAssumption DEF Init, TypeOK, NoIntent

\* A target that is given back keeps a row of the ownership table.
LEMMA ReleaseType ==
    ASSUME owner \in [Target -> OwnerRow], NEW t \in Target
    PROVE  [owner EXCEPT ![t].state = "released"] \in [Target -> OwnerRow]
<1>1. owner[t] \in OwnerRow
  OBVIOUS
<1>2. [owner[t] EXCEPT !.state = "released"] \in OwnerRow
  BY <1>1 DEF OwnerRow
<1> QED BY <1>2

\* Capture steps keep the types: only a claim that found room freezes a capture.
LEMMA TypeCapture ==
    ASSUME IInv, NEW t \in Target, CaptureNext(t)
    PROVE  TypeOK'
<1> USE DEF storeVars, captureVars, providerVars
<1>1. CASE CaptureClaim(t)
  <2>1. owner' \in [Target -> OwnerRow]
    BY <1>1 DEF IInv, TypeOK, CaptureClaim, Acquire, OwnerRow
  <2> QED BY <1>1, <2>1 DEF IInv, TypeOK, CaptureClaim
<1>2. CASE CaptureRead(t)
  BY <1>2 DEF IInv, TypeOK, CaptureRead
<1>3. CASE CaptureFreeze(t)
  BY <1>3, ConstantsAssumption DEF IInv, TypeOK, StageInv, CaptureFreeze
<1>4. CASE CaptureAdmit(t)
  BY <1>4 DEF IInv, TypeOK, CaptureAdmit
<1>5. CASE CaptureDecide(t)
  <2>1. <<t, seq[t]>> \in Op
    BY <1>5, ConstantsAssumption DEF IInv, TypeOK, StageInv, CaptureDecide, Op
  <2> QED BY <1>5, <2>1 DEF IInv, TypeOK, CaptureDecide
<1>6. CASE CaptureSettle(t)
  <2>1. owner' \in [Target -> OwnerRow]
    <3>1. owner \in [Target -> OwnerRow]
      BY DEF IInv, TypeOK
    <3>2. owner' = [owner EXCEPT ![t].state = "released"]
      BY <1>6 DEF CaptureSettle, Release
    <3> QED BY <3>1, <3>2, ReleaseType
  <2>2. stage' = [stage EXCEPT ![t] = "idle"]
    BY <1>6 DEF CaptureSettle
  <2> QED BY <1>6, <2>1, <2>2 DEF IInv, TypeOK, CaptureSettle
<1> QED BY <1>1, <1>2, <1>3, <1>4, <1>5, <1>6 DEF CaptureNext

\* Provider steps keep the types.
LEMMA TypeProvider ==
    ASSUME TypeOK, ProviderNext
    PROVE  TypeOK'
<1> USE DEF storeVars, captureVars, providerVars
<1>1. ASSUME NEW o \in Op, ProviderApply(o) PROVE TypeOK'
  <2>1. TargetOf(o) \in Target
    BY DEF Op, TargetOf
  <2>2. remote' \in [Target -> [op : Op \cup {NoOp}, version : Nat]]
    <3>1. remote[TargetOf(o)].version + 1 \in Nat
      BY <2>1 DEF TypeOK
    <3> QED BY <1>1, <2>1, <3>1 DEF TypeOK, ProviderApply
  <2>3. reply' \in [Op -> {"none", "success", "precondition_failed", "other_status"}]
    BY <1>1 DEF TypeOK, ProviderApply
  <2>4. wire' \in SUBSET Op /\ applied' \in SUBSET Op
    BY <1>1 DEF TypeOK, ProviderApply
  <2>5. UNCHANGED <<storeVars, captureVars, dom, call, sent>>
    BY <1>1 DEF ProviderApply
  <2> QED BY <2>2, <2>3, <2>4, <2>5 DEF TypeOK
<1>2. ASSUME NEW o \in Op, ProviderRefuse(o) PROVE TypeOK'
  BY <1>2 DEF TypeOK, ProviderRefuse
<1>3. ASSUME NEW t \in Target, RemoteEdit(t) PROVE TypeOK'
  <2>1. PICK o \in {remote[t].op, NoOp} :
           remote' = [remote EXCEPT ![t] = [op |-> o, version |-> @.version + 1]]
    BY <1>3 DEF RemoteEdit
  <2>2. o \in Op \cup {NoOp} /\ remote[t].version + 1 \in Nat
    BY DEF TypeOK
  <2>3. remote' \in [Target -> [op : Op \cup {NoOp}, version : Nat]]
    BY <2>1, <2>2 DEF TypeOK
  <2> QED BY <1>3, <2>3 DEF TypeOK, RemoteEdit
<1> QED BY <1>1, <1>2, <1>3 DEF ProviderNext

\* sync keeps the types when the rows it reads keep theirs.
LEMMA SyncType ==
    ASSUME TypeOK, NEW o \in Op, Sync(o),
           box' \in [Op -> Seq(Doc)], acked' \in [Op -> Nat], attempt' \in [Op -> Nat],
           terminal' \in [Op -> TERMINAL \cup {"none"}],
           acked'[o] <= Len(box'[o])
    PROVE  progress' \in [Op -> ProgressRow]
<1> DEFINE row == ProgressOf(box'[o], acked'[o], attempt'[o], terminal'[o], o \in refusal')
<1>1. row \in ProgressRow
  <2>1. (o \in refusal') \in BOOLEAN
    OBVIOUS
  <2> QED BY <2>1, ProgressType
<1>2. progress' = [progress EXCEPT ![o] = row]
  BY DEF Sync, Expected
<1> HIDE DEF row
<1> QED BY <1>1, <1>2 DEF TypeOK

\* Appending a document keeps the outboxes typed.
LEMMA AppendType ==
    ASSUME TypeOK, NEW o \in Op, NEW d \in Doc,
           box' = [box EXCEPT ![o] = Append(@, d)]
    PROVE  /\ box' \in [Op -> Seq(Doc)]
           /\ box'[o] = Append(box[o], d)
           /\ Len(box'[o]) = Len(box[o]) + 1
BY DEF TypeOK

\* The fixed documents are documents.
LEMMA DocType == Prepared \in Doc /\ Marker \in Doc /\ RefusedDoc \in Doc
BY DEF Prepared, Marker, RefusedDoc, Doc, Phase, State, TERMINAL

\* The flush keeps the types.
LEMMA TypeFlush ==
    ASSUME IInv, NEW o \in Op, FlushIngest(o) \/ FlushAcknowledge(o)
    PROVE  TypeOK'
<1> USE DEF storeVars, captureVars, providerVars
<1>0. TypeOK /\ BoxInv /\ CallInv /\ call \in CallRecord
  BY DEF IInv, TypeOK
<1>1. CASE FlushIngest(o)
  <2>1. box[o][acked[o] + 1] \in Doc
    BY <1>0, <1>1 DEF FlushIngest, Pending, TypeOK
  <2>2. CASE /\ call' = [call EXCEPT !.got = [op |-> o, status |-> "duplicate"]]
             /\ UNCHANGED <<dom, refusal, progress>>
    <3>1. call' \in CallRecord
      BY <1>0, <2>2 DEF CallRecord
    <3> QED BY <1>0, <1>1, <2>2, <3>1 DEF FlushIngest, TypeOK
  <2>3. CASE /\ dom' = [dom EXCEPT ![o] = Append(@, box[o][acked[o] + 1])]
             /\ call' = [call EXCEPT !.got = [op |-> o, status |-> "created"]]
             /\ UNCHANGED <<refusal, progress>>
    <3>1. call' \in CallRecord
      BY <1>0, <2>3 DEF CallRecord
    <3>2. dom' \in [Op -> Seq(Doc)]
      BY <1>0, <2>1, <2>3 DEF TypeOK
    <3> QED BY <1>0, <1>1, <2>3, <3>1, <3>2 DEF FlushIngest, TypeOK
  <2>4. CASE UNCHANGED <<dom, call>> /\ refusal' = refusal \cup {o} /\ Sync(o)
    <3>1. progress' \in [Op -> ProgressRow]
      BY <1>0, <1>1, <2>4, SyncType DEF FlushIngest, TypeOK, BoxInv
    <3> QED BY <1>0, <1>1, <2>4, <3>1 DEF FlushIngest, TypeOK
  <2> QED BY <1>1, <2>2, <2>3, <2>4 DEF FlushIngest
<1>2. CASE FlushAcknowledge(o)
  <2>1. acked' \in [Op -> Nat] /\ acked'[o] = acked[o] + 1
    BY <1>0, <1>2 DEF FlushAcknowledge, TypeOK
  <2>2. acked'[o] <= Len(box'[o])
    BY <1>0, <1>2, <2>1 DEF FlushAcknowledge, CallInv, TypeOK
  <2>3. progress' \in [Op -> ProgressRow]
    BY <1>0, <1>2, <2>1, <2>2, SyncType DEF FlushAcknowledge, TypeOK
  <2>4. call' \in CallRecord
    BY <1>0, <1>2 DEF FlushAcknowledge, CallRecord, NoGot
  <2> QED BY <1>0, <1>2, <2>1, <2>3, <2>4 DEF FlushAcknowledge, TypeOK
<1> QED BY <1>1, <1>2

\* Finishing an operation keeps the types of the store.
LEMMA TypeFinish ==
    ASSUME IInv, NEW o \in Op, Finish(o)
    PROVE  /\ UNCHANGED <<policy, intent, box, acked, attempt, refusal>>
           /\ terminal' \in [Op -> TERMINAL \cup {"none"}]
           /\ owner' \in [Target -> OwnerRow]
           /\ progress' \in [Op -> ProgressRow]
<1> USE DEF storeVars
<1>0. TypeOK /\ BoxInv
  BY DEF IInv
<1>1. CASE ~ Finishable(o)
  BY <1>0, <1>1 DEF Finish, TypeOK
<1>2. CASE Finishable(o)
  <2>1. terminal' \in [Op -> TERMINAL \cup {"none"}]
    BY <1>0, <1>2 DEF Finish, Finishable, TypeOK
  <2>2. owner' \in [Target -> OwnerRow]
    <3>1. CASE attempt[o] = 0
      BY <1>0, <1>2, <3>1 DEF Finish, TypeOK
    <3>2. CASE attempt[o] # 0
      <4>1. TargetOf(o) \in Target
        BY DEF Op, TargetOf
      <4>2. owner' = [owner EXCEPT ![TargetOf(o)].state = "released"]
        BY <1>2, <3>2 DEF Finish, Release
      <4>3. owner \in [Target -> OwnerRow]
        BY <1>0 DEF TypeOK
      <4> QED BY <4>1, <4>2, <4>3, ReleaseType
    <3> QED BY <3>1, <3>2
  <2>3. UNCHANGED <<policy, intent, box, acked, attempt, refusal>> /\ Sync(o)
    BY <1>2 DEF Finish
  <2>4. progress' \in [Op -> ProgressRow]
    BY <1>0, <2>1, <2>3, SyncType DEF TypeOK, BoxInv
  <2> QED BY <2>1, <2>2, <2>3, <2>4
<1> QED BY <1>1, <1>2

\* Refusing an operation keeps the types of the store.
LEMMA TypeRefuse ==
    ASSUME IInv, NEW o \in Op, NEW l \in CallLabel, Refuse(o, l)
    PROVE  TypeOK'
<1> USE DEF storeVars, captureVars, providerVars
<1>0. TypeOK /\ BoxInv /\ call \in CallRecord
  BY DEF IInv, TypeOK
<1>1. /\ box' \in [Op -> Seq(Doc)]
      /\ Len(box[o]) <= Len(box'[o])
  <2>1. CASE HasTerminalDoc(o)
    BY <1>0, <2>1 DEF Refuse, TypeOK
  <2>2. CASE ~ HasTerminalDoc(o)
    <3>1. box' = [box EXCEPT ![o] = Append(@, RefusedDoc)]
      BY <2>2 DEF Refuse
    <3>2. Len(box[o]) \in Nat
      BY <1>0 DEF TypeOK
    <3>3. box' \in [Op -> Seq(Doc)] /\ Len(box'[o]) = Len(box[o]) + 1
      BY <1>0, <3>1, AppendType, DocType
    <3> QED BY <3>2, <3>3
  <2> QED BY <2>1, <2>2
<1>2. acked'[o] <= Len(box'[o])
  BY <1>0, <1>1 DEF Refuse, BoxInv, TypeOK
<1>3. progress' \in [Op -> ProgressRow]
  BY <1>0, <1>1, <1>2, SyncType DEF Refuse, TypeOK
<1>4. call' \in CallRecord
  BY <1>0 DEF Refuse, CallRecord
<1> QED BY <1>0, <1>1, <1>3, <1>4 DEF Refuse, TypeOK

\* A step that appends one document of o, syncs and moves the call keeps the types.
LEMMA TypeAppend ==
    ASSUME IInv, NEW o \in Op, NEW d \in Doc, NEW l \in CallLabel,
           box' = [box EXCEPT ![o] = Append(@, d)], Sync(o),
           UNCHANGED <<policy, intent, acked, terminal, refusal>>,
           attempt' \in [Op -> Nat], owner' \in [Target -> OwnerRow],
           Goto(l),
           UNCHANGED <<captureVars, dom, providerVars>>
    PROVE  TypeOK'
<1> USE DEF captureVars, providerVars
<1>0. TypeOK /\ BoxInv /\ call \in CallRecord
  BY DEF IInv, TypeOK
<1>1. box' \in [Op -> Seq(Doc)] /\ Len(box'[o]) = Len(box[o]) + 1
  BY <1>0, AppendType
<1>2. acked'[o] <= Len(box'[o])
  BY <1>0, <1>1 DEF BoxInv, TypeOK
<1>3. progress' \in [Op -> ProgressRow]
  BY <1>0, <1>1, <1>2, SyncType DEF TypeOK
<1>4. call' \in CallRecord
  BY <1>0 DEF Goto, CallRecord
<1> QED BY <1>0, <1>1, <1>3, <1>4 DEF TypeOK

\* The steps of a call keep the types.
LEMMA TypeCall ==
    ASSUME IInv, CallStep
    PROVE  TypeOK'
<1> USE DEF storeVars, captureVars, providerVars
<1>0. TypeOK /\ BoxInv /\ CallInv /\ call \in CallRecord
  BY DEF IInv, TypeOK
<1>1. ASSUME NEW o \in Op, FlushIngest(o) \/ FlushAcknowledge(o) PROVE TypeOK'
  BY <1>1, TypeFlush
<1>2. ASSUME NEW o \in Op, FinishCall(o) \/ SendSettled(o) \/ ObserveSettled(o) PROVE TypeOK'
  <2>1. /\ Finish(o) /\ call' = Idle
        /\ UNCHANGED <<captureVars, dom, providerVars>>
    BY <1>2 DEF FinishCall, SendSettled, ObserveSettled, Return
  <2>2. /\ UNCHANGED <<policy, intent, box, acked, attempt, refusal>>
        /\ terminal' \in [Op -> TERMINAL \cup {"none"}]
        /\ owner' \in [Target -> OwnerRow]
        /\ progress' \in [Op -> ProgressRow]
    BY <2>1, TypeFinish
  <2> QED BY <1>0, <2>1, <2>2, IdleType DEF TypeOK
<1>3. ASSUME NEW p \in Op, PrepareSweep(p) PROVE TypeOK'
  <2>1. /\ Finish(p) /\ Goto("prepare")
        /\ UNCHANGED <<captureVars, dom, providerVars>>
    BY <1>3 DEF PrepareSweep
  <2>2. /\ UNCHANGED <<policy, intent, box, acked, attempt, refusal>>
        /\ terminal' \in [Op -> TERMINAL \cup {"none"}]
        /\ owner' \in [Target -> OwnerRow]
        /\ progress' \in [Op -> ProgressRow]
    BY <2>1, TypeFinish
  <2>3. call' \in CallRecord
    BY <1>0, <2>1 DEF Goto, CallRecord, CallLabel
  <2> QED BY <1>0, <2>1, <2>2, <2>3 DEF TypeOK
<1>4. ASSUME NEW p \in Op, PrepareSupersede(p) \/ SendRefuse(p) PROVE TypeOK'
  <2>1. "sweep" \in CallLabel /\ "finish" \in CallLabel
    BY DEF CallLabel
  <2> QED BY <1>4, <2>1, TypeRefuse DEF PrepareSupersede, SendRefuse
<1>5. ASSUME NEW o \in Op, PrepareIntent(o) PROVE TypeOK'
  <2> DEFINE row == [revision |-> LedgerRevision(TargetOf(o)) + 1, generation |-> Generation]
  <2>1. TargetOf(o) \in Target
    BY DEF Op, TargetOf
  <2>2. row \in [revision : Nat, generation : Nat]
    <3>1. LedgerRevision(TargetOf(o)) \in Nat
      BY <1>0, <2>1, RevisionType
    <3>2. Generation \in Nat
      BY <1>0 DEF Generation, TypeOK
    <3> QED BY <3>1, <3>2
  <2>3. /\ o \notin Intended
        /\ intent' = [intent EXCEPT ![o] = row]
        /\ box' = [box EXCEPT ![o] = <<Prepared>>]
        /\ UNCHANGED <<policy, acked, attempt, terminal, refusal, owner>>
        /\ Sync(o)
        /\ call' = [call EXCEPT !.at = "admitted"]
        /\ UNCHANGED <<captureVars, dom, providerVars>>
    BY <1>5 DEF PrepareIntent, Goto
  <2> HIDE DEF row
  <2>4. intent' \in [Op -> [revision : Nat, generation : Nat]]
    BY <1>0, <2>2, <2>3 DEF TypeOK
  <2>5. box' \in [Op -> Seq(Doc)] /\ box'[o] = <<Prepared>>
    BY <1>0, <2>3, DocType DEF TypeOK
  <2>6. acked'[o] <= Len(box'[o])
    BY <1>0, <2>3, <2>5 DEF BoxInv, TypeOK
  <2>7. progress' \in [Op -> ProgressRow]
    BY <1>0, <2>3, <2>5, <2>6, SyncType DEF TypeOK
  <2>8. call' \in CallRecord
    BY <1>0, <2>3 DEF CallRecord, CallLabel
  <2> QED BY <1>0, <2>3, <2>4, <2>5, <2>7, <2>8 DEF TypeOK
<1>6. ASSUME NEW o \in Op, SendMark(o) PROVE TypeOK'
  <2>1. TargetOf(o) \in Target
    BY DEF Op, TargetOf
  <2>2. owner[TargetOf(o)].generation + 1 \in Nat
    BY <1>0, <2>1 DEF TypeOK, OwnerRow
  <2>3. owner' \in [Target -> OwnerRow]
    BY <1>0, <1>6, <2>1, <2>2 DEF SendMark, Acquire, TypeOK, OwnerRow
  <2>4. attempt' \in [Op -> Nat]
    BY <1>0, <1>6, <2>2 DEF SendMark, TypeOK
  <2>5. "marked" \in CallLabel
    BY DEF CallLabel
  <2> QED BY <1>6, <2>3, <2>4, <2>5, DocType, TypeAppend DEF SendMark
<1>7. ASSUME NEW o \in Op, SendTransmit(o) PROVE TypeOK'
  <2>1. call' \in CallRecord
    BY <1>0, <1>7 DEF SendTransmit, CallRecord, CallLabel
  <2>2. sent' \in [Op -> Nat]
    BY <1>0, <1>7 DEF SendTransmit, TypeOK
  <2>3. wire' \in SUBSET Op
    BY <1>0, <1>7 DEF SendTransmit, TypeOK
  <2> QED BY <1>0, <1>7, <2>1, <2>2, <2>3 DEF SendTransmit, TypeOK
<1>8. ASSUME NEW o \in Op, SendResponse(o) PROVE TypeOK'
  <2>1. PICK answer : /\ box' = [box EXCEPT ![o] = Append(@,
                               [phase |-> "response", state |-> ResponseState(answer)])]
                      /\ Goto(IF ResponseState(answer) = "awaiting_observation"
                              THEN "observe" ELSE "finish")
    BY <1>8 DEF SendResponse
  <2>2. [phase |-> "response", state |-> ResponseState(answer)] \in Doc
    BY DEF Doc, Phase, State, TERMINAL, ResponseState
  <2>3. "observe" \in CallLabel /\ "finish" \in CallLabel
    BY DEF CallLabel
  <2>4. /\ Sync(o) /\ UNCHANGED <<policy, intent, acked, attempt, terminal, refusal, owner>>
        /\ UNCHANGED <<captureVars, dom, providerVars>>
    BY <1>8 DEF SendResponse
  <2>5. attempt' \in [Op -> Nat] /\ owner' \in [Target -> OwnerRow]
    BY <1>0, <2>4 DEF TypeOK
  <2> QED BY <2>1, <2>2, <2>3, <2>4, <2>5, TypeAppend
<1>9. ASSUME NEW o \in Op, ObserveOutputs(o) PROVE TypeOK'
  <2>1. Expected(o).state \in State
    <3>1. Expected(o) \in ProgressRow
      <4>1. (o \in refusal) \in BOOLEAN
        OBVIOUS
      <4> QED BY <1>0, <4>1, ProgressType DEF Expected, BoxInv, TypeOK
    <3>2. Expected(o).state # "none"
      <4>1. OpenState(box[o], acked[o], attempt[o] # 0) \in State \ TERMINAL
        <5>1. (attempt[o] # 0) \in BOOLEAN
          OBVIOUS
        <5>2. box[o] \in Seq(Doc) /\ acked[o] \in Nat
          BY <1>0 DEF TypeOK
        <5>3. acked[o] <= Len(box[o])
          BY <1>0 DEF BoxInv
        <5> QED BY <5>1, <5>2, <5>3, OpenStateType
      <4> QED BY <4>1 DEF Expected, ProgressOf, State, TERMINAL
    <3> QED BY <3>1, <3>2 DEF ProgressRow
  <2>2. PICK d \in Doc : box' = [box EXCEPT ![o] = Append(@, d)]
    <3>1. PICK s \in State : box' = [box EXCEPT ![o] = Append(@,
                                [phase |-> "output_observed", state |-> s])]
      <4>1. "observed_applied_at_t" \in State
        BY DEF State, TERMINAL
      <4> QED BY <1>9, <2>1, <4>1, Zenon DEF ObserveOutputs
    <3>2. [phase |-> "output_observed", state |-> s] \in Doc
      BY DEF Doc, Phase
    <3> QED BY <3>1, <3>2
  <2>3. "finish" \in CallLabel
    BY DEF CallLabel
  <2>4. /\ Sync(o) /\ UNCHANGED <<policy, intent, acked, attempt, terminal, refusal, owner>>
        /\ UNCHANGED <<captureVars, dom, providerVars>> /\ Goto("finish")
    BY <1>9 DEF ObserveOutputs
  <2>5. attempt' \in [Op -> Nat] /\ owner' \in [Target -> OwnerRow]
    BY <1>0, <2>4 DEF TypeOK
  <2> QED BY <2>2, <2>3, <2>4, <2>5, TypeAppend
<1>10. CASE PrepareReturn
  BY <1>0, <1>10, IdleType DEF PrepareReturn, Return, TypeOK
<1> QED BY <1>1, <1>2, <1>3, <1>4, <1>5, <1>6, <1>7, <1>8, <1>9, <1>10 DEF CallStep

\* Every step keeps the types.
LEMMA TypeStep ==
    ASSUME IInv, [Next]_vars
    PROVE  TypeOK'
<1> USE DEF storeVars, captureVars, providerVars
<1>0. TypeOK /\ call \in CallRecord
  BY DEF IInv, TypeOK
<1>1. ASSUME NEW t \in Target, CaptureNext(t) PROVE TypeOK'
  BY <1>1, TypeCapture
<1>2. CASE ProviderNext
  BY <1>0, <1>2, TypeProvider
<1>3. ASSUME NEW e \in BOOLEAN, NEW ts \in SUBSET Target, SetWritePolicy(e, ts) PROVE TypeOK'
  <2>1. policy' \in Seq([enabled : BOOLEAN, targets : SUBSET Target])
    BY <1>0, <1>3 DEF SetWritePolicy, TypeOK
  <2> QED BY <1>0, <1>3, <2>1 DEF SetWritePolicy, TypeOK
<1>4. ASSUME NEW o \in Op, NEW k \in {"prepare", "send", "observe"}, Begin(k, o) PROVE TypeOK'
  <2>1. call' \in CallRecord
    BY <1>4 DEF Begin, Idle, NoGot, CallRecord, CallLabel
  <2> QED BY <1>0, <1>4, <2>1 DEF Begin, TypeOK
<1>5. CASE BeginNext
  BY <1>4, <1>5 DEF BeginNext, BeginPrepare, BeginSend, BeginObserve
<1>6. CASE CallStep
  BY <1>6, TypeCall
<1>7. CASE Fail
  BY <1>0, <1>7, IdleType DEF Fail, Return, TypeOK
<1>8. CASE UNCHANGED vars
  BY <1>0, <1>8 DEF vars, TypeOK
<1> QED BY <1>1, <1>2, <1>3, <1>5, <1>6, <1>7, <1>8 DEF Next

--------------------------------------------------------------------------------
(* Frames: what the kinds of step leave alone.                                *)

\* Finishing touches the ownership of a target only when the operation owns it.
LEMMA FinishFrame ==
    ASSUME IInv, NEW o \in Op, Finish(o)
    PROVE  /\ UNCHANGED <<policy, intent, box, acked, attempt, refusal>>
           /\ \A p \in Op : p # o => terminal'[p] = terminal[p]
           /\ \A t \in Target : \/ owner'[t] = owner[t]
                                \/ /\ t = TargetOf(o) /\ attempt[o] # 0 /\ OwnedBy(o)
                                   /\ terminal'[o] # "none"
           /\ terminal[o] # "none" => terminal'[o] # "none"
<1>0. TypeOK
  BY DEF IInv
<1>1. CASE ~ Finishable(o)
  BY <1>1 DEF Finish, storeVars
<1>2. CASE Finishable(o)
  <2>1. terminal' = [terminal EXCEPT ![o] = LastState(box[o])]
    BY <1>2 DEF Finish
  <2>2. LastState(box[o]) \in TERMINAL /\ "none" \notin TERMINAL
    BY <1>2 DEF Finishable, TERMINAL
  <2>3. terminal'[o] # "none" /\ \A p \in Op : p # o => terminal'[p] = terminal[p]
    BY <1>0, <2>1, <2>2 DEF TypeOK
  <2>4. CASE attempt[o] = 0
    BY <1>2, <2>3, <2>4 DEF Finish
  <2>5. CASE attempt[o] # 0
    <3>1. owner' = [owner EXCEPT ![TargetOf(o)].state = "released"] /\ OwnedBy(o)
      BY <1>2, <2>5 DEF Finish, Release
    <3>2. \A t \in Target : t # TargetOf(o) => owner'[t] = owner[t]
      BY <1>0, <3>1 DEF TypeOK
    <3> QED BY <1>2, <2>3, <2>5, <3>1, <3>2 DEF Finish
  <2> QED BY <2>4, <2>5
<1> QED BY <1>1, <1>2

\* The steps that end in a finish.
LEMMA FinishSteps ==
    ASSUME NEW o \in Op,
           FinishCall(o) \/ SendSettled(o) \/ ObserveSettled(o) \/ PrepareSweep(o)
    PROVE  /\ Finish(o)
           /\ call' = Idle \/ call' = [call EXCEPT !.at = "prepare"]
           /\ call.got = NoGot /\ call.at # "marked" /\ call.at # "wait"
           /\ UNCHANGED <<captureVars, dom, providerVars>>
BY DEF FinishCall, SendSettled, ObserveSettled, PrepareSweep, Flushed, Return, Goto

\* A capture step touches the captures and the ownership of its target only, and
\* runs while no call does.
LEMMA CaptureFrame ==
    ASSUME NEW t \in Target, CaptureNext(t)
    PROVE  /\ UNCHANGED <<policy, intent, box, acked, attempt, terminal, refusal, progress>>
           /\ UNCHANGED <<dom, providerVars, call>>
BY DEF CaptureNext, CaptureClaim, CaptureRead, CaptureFreeze, CaptureAdmit,
       CaptureDecide, CaptureSettle, storeVars, captureVars, providerVars

\* A provider step touches provider and network only.
LEMMA ProviderFrame ==
    ASSUME ProviderNext
    PROVE  UNCHANGED <<storeVars, captureVars, dom, call, sent>>
BY DEF ProviderNext, ProviderApply, ProviderRefuse, RemoteEdit

\* The steps that change neither the facts of an operation nor an ownership.
Quiet == /\ UNCHANGED <<intent, box, acked, attempt, terminal, refusal, progress, owner>>
         /\ UNCHANGED <<captureVars, dom, sent>>

\* A policy, the begin of a call, a failure and a plain return are quiet.
LEMMA QuietSteps ==
    ASSUME \/ \E e \in BOOLEAN, ts \in SUBSET Target : SetWritePolicy(e, ts)
           \/ BeginNext \/ Fail \/ ProviderNext
           \/ PrepareReturn \/ UNCHANGED vars
    PROVE  /\ Quiet
           /\ \/ call' = Idle
              \/ call' = call
              \/ \E o \in Op : /\ call' = [Idle EXCEPT !.kind = "prepare", !.op = o, !.at = "prepare"]
              \/ \E o \in Intended : /\ call' = [Idle EXCEPT !.kind = "send", !.op = o, !.at = "send"]
              \/ \E o \in Intended : /\ call' = [Idle EXCEPT !.kind = "observe", !.op = o, !.at = "observe"]
<1> USE DEF Quiet, storeVars, captureVars, providerVars
<1>1. CASE \E e \in BOOLEAN, ts \in SUBSET Target : SetWritePolicy(e, ts)
  BY <1>1 DEF SetWritePolicy
<1>2. CASE BeginNext
  BY <1>2 DEF BeginNext, BeginPrepare, BeginSend, BeginObserve, Begin
<1>3. CASE Fail
  BY <1>3 DEF Fail, Return
<1>4. CASE ProviderNext
  BY <1>4, ProviderFrame
<1>5. CASE PrepareReturn
  BY <1>5 DEF PrepareReturn, Return
<1>6. CASE UNCHANGED vars
  BY <1>6 DEF vars
<1> QED BY <1>1, <1>2, <1>3, <1>4, <1>5, <1>6

--------------------------------------------------------------------------------
(* StageInv                                                                   *)

\* Nobody takes a target from the poll runner or gives it back behind its back.
LEMMA StageStep ==
    ASSUME IInv, [Next]_vars
    PROVE  StageInv'
<1> USE DEF Held
<1>0. TypeOK /\ StageInv
  BY DEF IInv
<1>1. ASSUME NEW t \in Target, CaptureNext(t) PROVE StageInv'
  <2> USE DEF storeVars, captureVars, providerVars
  <2>1. CASE CaptureClaim(t)
    BY <1>0, <2>1 DEF StageInv, CaptureClaim, Acquire, TypeOK
  <2>2. CASE CaptureRead(t)
    BY <1>0, <2>2 DEF StageInv, CaptureRead, TypeOK
  <2>3. CASE CaptureFreeze(t)
    BY <1>0, <2>3, ConstantsAssumption DEF StageInv, CaptureFreeze, TypeOK
  <2>4. CASE CaptureAdmit(t)
    BY <1>0, <2>4 DEF StageInv, CaptureAdmit, TypeOK
  <2>5. CASE CaptureDecide(t)
    BY <1>0, <2>5 DEF StageInv, CaptureDecide, TypeOK
  <2>6. CASE CaptureSettle(t)
    BY <1>0, <2>6 DEF StageInv, CaptureSettle, Release, TypeOK
  <2> QED BY <1>1, <2>1, <2>2, <2>3, <2>4, <2>5, <2>6 DEF CaptureNext
<1>2. ASSUME UNCHANGED <<stage, seq>>,
             \A t \in Target : stage[t] # "idle" => owner'[t] = owner[t]
      PROVE  StageInv'
  BY <1>0, <1>2 DEF StageInv
<1>3. ASSUME NEW o \in Op,
             FinishCall(o) \/ SendSettled(o) \/ ObserveSettled(o) \/ PrepareSweep(o)
      PROVE  StageInv'
  <2>1. \A t \in Target : stage[t] # "idle" => owner'[t] = owner[t]
    <3>1. OwnedBy(o) => owner[TargetOf(o)].unit = o
      BY DEF OwnedBy
    <3> QED BY <1>0, <1>3, <3>1, FinishSteps, FinishFrame, ConstantsAssumption DEF StageInv
  <2> QED BY <1>2, <1>3, <2>1, FinishSteps DEF captureVars
<1>4. ASSUME NEW o \in Op, SendMark(o) PROVE StageInv'
  BY <1>0, <1>2, <1>4 DEF SendMark, Acquire, StageInv, captureVars, TypeOK
<1>5. ASSUME UNCHANGED <<owner, captureVars>> PROVE StageInv'
  BY <1>2, <1>5 DEF captureVars
<1>6. ASSUME NEW o \in Op,
             \/ FlushIngest(o) \/ FlushAcknowledge(o) \/ PrepareSupersede(o)
             \/ PrepareIntent(o) \/ SendRefuse(o) \/ SendTransmit(o)
             \/ SendResponse(o) \/ ObserveOutputs(o)
      PROVE  StageInv'
  BY <1>5, <1>6 DEF FlushIngest, FlushAcknowledge, PrepareSupersede, PrepareIntent, SendRefuse,
       Refuse, SendTransmit, SendResponse, ObserveOutputs, storeVars, captureVars
<1>7. CASE Quiet
  BY <1>5, <1>7 DEF Quiet
<1> QED BY <1>1, <1>3, <1>4, <1>6, <1>7, QuietSteps DEF Next, CallStep

--------------------------------------------------------------------------------
(* BoxInv                                                                     *)

\* Before its attempt an operation that can still be tried has one document.
LEMMA UntriedBox ==
    ASSUME IInv, NEW o \in Op, o \in Intended, attempt[o] = 0, ~ HasTerminalDoc(o)
    PROVE  box[o] = <<Prepared>>
<1>1. box[o] \in {<<Prepared>>, <<Prepared, RefusedDoc>>}
  BY DEF IInv, BoxInv
<1>2. ASSUME box[o] = <<Prepared, RefusedDoc>> PROVE FALSE
  <2>1. Len(box[o]) = 2 /\ box[o][2] = RefusedDoc
    BY <1>2
  <2>2. RefusedDoc.state \in TERMINAL
    BY DEF RefusedDoc, TERMINAL
  <2>3. 2 \in 1..Len(box[o]) /\ box[o][2].state \in TERMINAL
    BY <2>1, <2>2
  <2> QED BY <2>3 DEF HasTerminalDoc
<1> QED BY <1>1, <1>2

\* An outbox that is flushed and cannot be finished ends in an open document.
LEMMA UnfinishedBox ==
    ASSUME IInv, NEW o \in Op, o \in Intended, Drained, Untried(o)
    PROVE  box[o] = <<Prepared>> /\ acked[o] = 1
<1>0. TypeOK /\ BoxInv
  BY DEF IInv
<1>1. acked[o] = Len(box[o])
  BY <1>0 DEF Drained, Pending, Untried, BoxInv, TypeOK
<1>2. box[o] \in {<<Prepared>>, <<Prepared, RefusedDoc>>}
  BY <1>0 DEF BoxInv, Untried
<1>3. box[o] # <<Prepared, RefusedDoc>>
  <2>1. SUFFICES ASSUME box[o] = <<Prepared, RefusedDoc>> PROVE Finishable(o)
    BY DEF Untried
  <2>2. LastState(box[o]) \in TERMINAL
    BY <2>1 DEF LastState, RefusedDoc, TERMINAL
  <2>3. box[o] # <<>>
    BY <2>1
  <2> QED BY <1>1, <2>2, <2>3 DEF Finishable, Untried
<1> QED BY <1>1, <1>2, <1>3

\* A document appended to o's outbox while BoxInv holds of the rest.
LEMMA BoxAppend ==
    ASSUME IInv, NEW o \in Op, o \in Intended, NEW d \in Doc,
           box' = [box EXCEPT ![o] = Append(@, d)],
           UNCHANGED <<intent, acked>>,
           \A p \in Op : p # o => attempt'[p] = attempt[p],
           \/ attempt'[o] # 0 /\ (d.phase = "send_started" => Len(box[o]) = 1)
           \/ box[o] = <<Prepared>> /\ d = RefusedDoc
    PROVE  BoxInv'
<1>0. TypeOK /\ BoxInv
  BY DEF IInv
<1>1. /\ box'[o] = Append(box[o], d) /\ Len(box'[o]) = Len(box[o]) + 1
      /\ Len(box[o]) \in Nat /\ acked[o] \in Nat /\ acked[o] <= Len(box[o])
  <2>1. box[o] \in Seq(Doc) /\ acked[o] \in Nat
    BY <1>0 DEF TypeOK
  <2>2. acked[o] <= Len(box[o])
    BY <1>0 DEF BoxInv
  <2>3. box'[o] = Append(box[o], d) /\ Len(box'[o]) = Len(box[o]) + 1
    BY <1>0, AppendType
  <2>4. Len(box[o]) \in Nat
    BY <2>1, LenProperties
  <2> QED BY <2>1, <2>2, <2>3, <2>4
<1>2. \A p \in Op : p # o => box'[p] = box[p]
  BY <1>0 DEF TypeOK
<1>3. Intended' = Intended
  BY DEF Intended
<1>4. box'[o] # <<>> /\ acked'[o] <= Len(box'[o])
  <2>1. Len(box'[o]) # 0
    BY <1>1
  <2>2. box'[o] # <<>>
    BY <2>1
  <2>3. acked'[o] <= Len(box[o]) + 1
    BY <1>1
  <2> QED BY <1>1, <2>2, <2>3
<1>5. attempt'[o] = 0 => box'[o] = <<Prepared, RefusedDoc>>
  <2>1. Append(<<Prepared>>, RefusedDoc) = <<Prepared, RefusedDoc>>
    BY AppendToOne, DocType
  <2> QED BY <1>1, <2>1, Zenon
<1>6. \A i \in 1..Len(box'[o]) : box'[o][i].phase = "send_started" => i = 2
  <2>1. SUFFICES ASSUME NEW i \in 1..Len(box'[o]), box'[o][i].phase = "send_started"
                 PROVE  i = 2
    OBVIOUS
  <2>2. CASE i <= Len(box[o])
    <3>1. box'[o][i] = box[o][i]
      BY <1>0, <1>1, <2>2 DEF TypeOK
    <3> QED BY <1>0, <1>1, <2>1, <2>2, <3>1 DEF BoxInv
  <2>3. CASE i = Len(box[o]) + 1
    <3>1. box'[o][i] = d
      BY <1>0, <1>1, <2>3 DEF TypeOK
    <3>2. d.phase = "send_started"
      BY <2>1, <3>1
    <3>3. Len(box[o]) = 1
      BY <3>2 DEF RefusedDoc
    <3> QED BY <2>3, <3>3
  <2> QED BY <1>1, <2>2, <2>3
<1>7. ASSUME NEW p \in Op
      PROVE  /\ p \in Intended' <=> box'[p] # <<>>
             /\ acked'[p] <= Len(box'[p])
             /\ attempt'[p] = 0 => box'[p] \in {<<>>, <<Prepared>>, <<Prepared, RefusedDoc>>}
             /\ \A i \in 1..Len(box'[p]) : box'[p][i].phase = "send_started" => i = 2
  <2>1. CASE p = o
    BY <1>3, <1>4, <1>5, <1>6, <2>1
  <2>2. CASE p # o
    BY <1>0, <1>2, <1>3, <2>2 DEF BoxInv
  <2> QED BY <2>1, <2>2
<1> QED BY <1>7 DEF BoxInv

\* The marker gives its operation an attempt, and no other.
LEMMA MarkAttempts ==
    ASSUME TypeOK, NEW o \in Op, SendMark(o)
    PROVE  attempt'[o] # 0 /\ \A p \in Op : p # o => attempt'[p] = attempt[p]
<1>1. owner[TargetOf(o)].generation \in Nat
  BY DEF TypeOK, OwnerRow, Op, TargetOf
<1>2. attempt' = [attempt EXCEPT ![o] = owner[TargetOf(o)].generation + 1]
  BY DEF SendMark
<1>3. attempt \in [Op -> Nat]
  BY DEF TypeOK
<1> QED BY <1>1, <1>2, <1>3

\* A refusal appends at most one document to an outbox with no attempt.
LEMMA BoxRefuse ==
    ASSUME IInv, NEW o \in Op, o \in Intended, NEW l, Refuse(o, l)
    PROVE  BoxInv'
<1>0. TypeOK /\ BoxInv
  BY DEF IInv
<1>1. CASE HasTerminalDoc(o)
  BY <1>0, <1>1 DEF Refuse, BoxInv, Intended
<1>2. CASE ~ HasTerminalDoc(o)
  <2>1. box' = [box EXCEPT ![o] = Append(@, RefusedDoc)]
    BY <1>2 DEF Refuse
  <2>2. box[o] = <<Prepared>>
    BY <1>2, UntriedBox DEF Refuse
  <2> QED BY <2>1, <2>2, BoxAppend, DocType DEF Refuse
<1> QED BY <1>1, <1>2

\* Every step keeps the outboxes in order.
LEMMA BoxStep ==
    ASSUME IInv, [Next]_vars
    PROVE  BoxInv'
<1>0. TypeOK /\ BoxInv /\ CallInv
  BY DEF IInv
<1>1. ASSUME UNCHANGED <<intent, box, acked, attempt>> PROVE BoxInv'
  BY <1>0, <1>1 DEF BoxInv, Intended
<1>2. ASSUME NEW t \in Target, CaptureNext(t) PROVE BoxInv'
  BY <1>1, <1>2, CaptureFrame
<1>3. ASSUME NEW o \in Op,
             FinishCall(o) \/ SendSettled(o) \/ ObserveSettled(o) \/ PrepareSweep(o)
      PROVE  BoxInv'
  BY <1>1, <1>3, FinishSteps, FinishFrame
<1>4. ASSUME NEW o \in Op, FlushIngest(o) \/ SendTransmit(o) PROVE BoxInv'
  BY <1>1, <1>4 DEF FlushIngest, SendTransmit, storeVars
<1>5. ASSUME NEW o \in Op, FlushAcknowledge(o) PROVE BoxInv'
  <2>1. acked[o] < Len(box[o]) /\ acked' = [acked EXCEPT ![o] = @ + 1]
    BY <1>0, <1>5 DEF FlushAcknowledge, CallInv
  <2>2. \A p \in Op : acked'[p] <= Len(box[p])
    BY <1>0, <2>1 DEF BoxInv, TypeOK
  <2>3. UNCHANGED <<intent, box, attempt>>
    BY <1>5 DEF FlushAcknowledge
  <2> QED BY <1>0, <2>2, <2>3 DEF BoxInv, Intended
<1>6. ASSUME NEW o \in Op, PrepareSupersede(o) \/ SendRefuse(o) PROVE BoxInv'
  <2>1. o \in Intended
    BY <1>0, <1>6 DEF PrepareSupersede, SendRefuse, Flushed, Live, CallInv
  <2> QED BY <1>6, <2>1, BoxRefuse DEF PrepareSupersede, SendRefuse
<1>7. ASSUME NEW o \in Op, PrepareIntent(o) PROVE BoxInv'
  <2>1. LedgerRevision(TargetOf(o)) \in Nat
    BY <1>0, RevisionType DEF Op, TargetOf
  <2>2. /\ intent' = [intent EXCEPT ![o] = [revision |-> LedgerRevision(TargetOf(o)) + 1,
                                            generation |-> Generation]]
        /\ box' = [box EXCEPT ![o] = <<Prepared>>]
        /\ o \notin Intended
        /\ UNCHANGED <<acked, attempt>>
    BY <1>7 DEF PrepareIntent
  <2>3. intent'[o] # NoIntent
    <3>1. intent'[o].revision = LedgerRevision(TargetOf(o)) + 1
      BY <1>0, <2>2 DEF TypeOK
    <3> QED BY <2>1, <3>1 DEF NoIntent
  <2>4. box'[o] = <<Prepared>> /\ \A p \in Op : p # o => box'[p] = box[p]
    BY <1>0, <2>2 DEF TypeOK
  <2>5. \A p \in Op : p # o => intent'[p] = intent[p]
    BY <1>0, <2>2 DEF TypeOK
  <2>6. acked[o] <= Len(box'[o])
    <3>1. box[o] = <<>> /\ acked[o] <= Len(box[o]) /\ acked[o] \in Nat
      BY <1>0, <2>2 DEF BoxInv, TypeOK
    <3> QED BY <2>4, <3>1
  <2>7. \A i \in 1..Len(box'[o]) : box'[o][i].phase = "send_started" => i = 2
    BY <2>4 DEF Prepared
  <2>8. ASSUME NEW p \in Op
        PROVE  /\ p \in Intended' <=> box'[p] # <<>>
               /\ acked'[p] <= Len(box'[p])
               /\ attempt'[p] = 0 => box'[p] \in {<<>>, <<Prepared>>, <<Prepared, RefusedDoc>>}
               /\ \A i \in 1..Len(box'[p]) : box'[p][i].phase = "send_started" => i = 2
    <3>1. CASE p = o
      BY <2>2, <2>3, <2>4, <2>6, <2>7, <3>1 DEF Intended
    <3>2. CASE p # o
      BY <1>0, <2>2, <2>4, <2>5, <3>2 DEF BoxInv, Intended
    <3> QED BY <3>1, <3>2
  <2> QED BY <2>8 DEF BoxInv
<1>8. ASSUME NEW o \in Op, SendMark(o) PROVE BoxInv'
  <2>1. o \in Intended /\ Drained /\ Untried(o)
    BY <1>0, <1>8 DEF SendMark, Flushed, CallInv
  <2>2. Len(box[o]) = 1
    BY <2>1, UnfinishedBox
  <2>3. attempt'[o] # 0 /\ \A p \in Op : p # o => attempt'[p] = attempt[p]
    BY <1>0, <1>8, MarkAttempts
  <2> QED BY <1>8, <2>1, <2>2, <2>3, BoxAppend, DocType DEF SendMark
<1>9. ASSUME NEW o \in Op, SendResponse(o) PROVE BoxInv'
  <2>1. o \in Intended /\ attempt[o] # 0
    BY <1>0, <1>9 DEF SendResponse, CallInv
  <2>2. PICK answer : box' = [box EXCEPT ![o] = Append(@,
                               [phase |-> "response", state |-> ResponseState(answer)])]
    BY <1>9 DEF SendResponse
  <2>3. [phase |-> "response", state |-> ResponseState(answer)] \in Doc
    BY DEF Doc, Phase, State, TERMINAL, ResponseState
  <2> QED BY <1>9, <2>1, <2>2, <2>3, BoxAppend DEF SendResponse
<1>10. ASSUME NEW o \in Op, ObserveOutputs(o) PROVE BoxInv'
  <2>1. o \in Intended /\ attempt[o] # 0
    BY <1>0, <1>10 DEF ObserveOutputs, Flushed, Fenced, CallInv
  <2>2. PICK d : box' = [box EXCEPT ![o] = Append(@, d)] /\ d.phase = "output_observed"
    <3>1. PICK st : box' = [box EXCEPT ![o] = Append(@,
                                [phase |-> "output_observed", state |-> st])]
      BY <1>10, Zenon DEF ObserveOutputs
    <3>2. [phase |-> "output_observed", state |-> st].phase = "output_observed"
      OBVIOUS
    <3> QED BY <3>1, <3>2, Zenon
  <2>3. d \in Doc
    <3>1. box' \in [Op -> Seq(Doc)] /\ box[o] \in Seq(Doc)
      BY <1>0, TypeStep DEF TypeOK
    <3>2. box'[o] = Append(box[o], d)
      BY <1>0, <2>2 DEF TypeOK
    <3>3. d = box'[o][Len(box[o]) + 1] /\ Len(box'[o]) = Len(box[o]) + 1
      BY <3>1, <3>2
    <3> QED BY <3>1, <3>3
  <2> QED BY <1>10, <2>1, <2>2, <2>3, BoxAppend DEF ObserveOutputs
<1>11. CASE Quiet
  BY <1>1, <1>11 DEF Quiet
<1> QED BY <1>2, <1>3, <1>4, <1>5, <1>6, <1>7, <1>8, <1>9, <1>10, <1>11, QuietSteps
    DEF Next, CallStep

--------------------------------------------------------------------------------
(* CallInv                                                                    *)

\* Outside the marked label the marker is not fresh.
LEMMA NotFresh ==
    ASSUME IInv, call.at # "marked"
    PROVE  call.fresh = FALSE
BY DEF IInv, CallInv, TypeOK, CallRecord

\* What a call has established about its operation stays true as it goes on.
LEMMA CallInvStep ==
    ASSUME IInv, [Next]_vars
    PROVE  CallInv'
<1>0. /\ TypeOK /\ BoxInv /\ CallInv /\ SentInv /\ call \in CallRecord
      /\ NoOp \notin Op /\ NoGot.op = NoOp
  BY ConstantsAssumption DEF IInv, TypeOK, NoGot
<1>1. ASSUME UNCHANGED <<intent, box, acked, attempt, sent, call>> PROVE CallInv'
  BY <1>0, <1>1 DEF CallInv, Intended
<1>2. ASSUME call' = Idle PROVE CallInv'
  BY <1>0, <1>2 DEF CallInv, Idle
<1>3. ASSUME NEW o, NEW k \in {"prepare", "send", "observe"},
             k = "prepare" \/ o \in Intended', Intended' = Intended,
             call' = [Idle EXCEPT !.kind = k, !.op = o, !.at = k]
      PROVE  CallInv'
  BY <1>0, <1>3 DEF CallInv, Idle
<1>4. ASSUME NEW l, l \notin {"marked", "wait"},
             call'.kind = call.kind, call'.op = call.op, call'.got = NoGot,
             call'.at = l, call'.fresh = FALSE,
             \A o \in Intended : o \in Intended'
      PROVE  CallInv'
  BY <1>0, <1>4 DEF CallInv
<1>5. ASSUME NEW t \in Target, CaptureNext(t) PROVE CallInv'
  BY <1>1, <1>5, CaptureFrame DEF providerVars
<1>6. ASSUME NEW o \in Op,
             FinishCall(o) \/ SendSettled(o) \/ ObserveSettled(o) \/ PrepareSweep(o)
      PROVE  CallInv'
  <2>1. CASE call' = Idle
    BY <1>2, <2>1
  <2>2. CASE call' = [call EXCEPT !.at = "prepare"]
    <3>1. Intended' = Intended
      BY <1>6, FinishSteps, FinishFrame DEF Intended
    <3>2. call.fresh = FALSE /\ call.got = NoGot
      BY <1>6, FinishSteps, NotFresh
    <3>3. /\ call'.kind = call.kind /\ call'.op = call.op /\ call'.got = NoGot
          /\ call'.at = "prepare" /\ call'.fresh = FALSE
      BY <1>0, <2>2, <3>2 DEF CallRecord
    <3> QED BY <1>4, <3>1, <3>3
  <2> QED BY <1>6, <2>1, <2>2, FinishSteps
<1>7. ASSUME NEW o \in Op, FlushIngest(o) PROVE CallInv'
  <2>1. UNCHANGED <<intent, box, acked, attempt, sent>> /\ acked[o] < Len(box[o])
    BY <1>7 DEF FlushIngest, Pending, providerVars
  <2>2. CASE call' = call
    BY <1>1, <2>1, <2>2
  <2>3. ASSUME NEW st, call' = [call EXCEPT !.got = [op |-> o, status |-> st]] PROVE CallInv'
    BY <1>0, <2>1, <2>3 DEF CallInv, CallRecord, Intended
  <2> QED BY <1>7, <2>2, <2>3 DEF FlushIngest
<1>8. ASSUME NEW o \in Op, FlushAcknowledge(o) PROVE CallInv'
  <2>1. /\ UNCHANGED <<intent, box, attempt, sent>>
        /\ acked' = [acked EXCEPT ![o] = @ + 1]
    BY <1>8 DEF FlushAcknowledge, providerVars
  <2>2. /\ call'.got = NoGot /\ call'.kind = call.kind /\ call'.op = call.op
        /\ call'.at = call.at
        /\ call'.fresh = \/ call.fresh
                         \/ /\ call.at = "marked" /\ o = call.op
                            /\ call.got.status = "created"
                            /\ box[o][acked[o] + 1].phase = "send_started"
    BY <1>0, <1>8 DEF FlushAcknowledge, CallRecord
  <2>3. Intended' = Intended
    BY <2>1 DEF Intended
  <2>4. ASSUME call'.fresh
        PROVE  call'.at = "marked" /\ sent'[call'.op] = 0 /\ acked'[call'.op] >= 2
    <3>1. \A p \in Op : acked[p] \in Nat /\ sent[p] \in Nat /\ acked'[p] \in Nat /\ acked'[p] >= acked[p]
      <4>1. acked \in [Op -> Nat] /\ sent \in [Op -> Nat]
        BY <1>0 DEF TypeOK
      <4>2. \A p \in Op : acked'[p] = acked[p] \/ acked'[p] = acked[p] + 1
        BY <2>1, <4>1
      <4> QED BY <4>1, <4>2
    <3>2. CASE call.fresh
      <4>1. call.at = "marked" /\ call.op \in Op /\ sent[call.op] = 0 /\ acked[call.op] >= 2
        BY <1>0, <3>2 DEF CallInv
      <4> QED BY <2>1, <2>2, <3>1, <4>1
    <3>3. CASE /\ call.at = "marked" /\ o = call.op
               /\ box[o][acked[o] + 1].phase = "send_started"
      <4>1. acked[o] < Len(box[o]) /\ Len(box[o]) \in Nat
        BY <1>0, <1>8 DEF FlushAcknowledge, CallInv, TypeOK
      <4>2. acked[o] + 1 \in 1..Len(box[o])
        BY <3>1, <4>1
      <4>3. acked[o] + 1 = 2
        BY <1>0, <3>3, <4>2 DEF BoxInv
      <4>4. ~ (acked[o] >= 2) /\ sent[o] = 0
        BY <1>0, <3>1, <4>3 DEF SentInv
      <4>5. acked'[o] = 2
        BY <1>0, <2>1, <4>3 DEF TypeOK
      <4> QED BY <2>1, <2>2, <3>3, <4>4, <4>5
    <3> QED BY <2>2, <2>4, <3>2, <3>3
  <2> QED BY <1>0, <2>1, <2>2, <2>3, <2>4 DEF CallInv
<1>9. ASSUME NEW o \in Op, NEW l \in {"sweep", "finish"}, Refuse(o, l),
             call.got = NoGot, call.at # "marked"
      PROVE  CallInv'
  <2>1. call.fresh = FALSE
    BY <1>9, NotFresh
  <2>2. Intended' = Intended
    BY <1>9 DEF Refuse, Intended
  <2>3. call' = [call EXCEPT !.at = l, !.victim = o]
    BY <1>9 DEF Refuse
  <2> QED BY <1>0, <1>4, <1>9, <2>1, <2>2, <2>3 DEF CallRecord
<1>10. ASSUME NEW o \in Op, PrepareSupersede(o) \/ SendRefuse(o) PROVE CallInv'
  BY <1>9, <1>10 DEF PrepareSupersede, SendRefuse, Flushed
<1>11. ASSUME NEW o \in Op, PrepareIntent(o) PROVE CallInv'
  <2>1. /\ call' = [call EXCEPT !.at = "admitted"] /\ call.got = NoGot
        /\ call.at = "prepare" /\ call.kind = "prepare"
    BY <1>11 DEF PrepareIntent, Goto, Flushed
  <2>2. call.fresh = FALSE
    BY <2>1, NotFresh
  <2>3. \A p \in Intended : p \in Intended'
    <3>1. \A p \in Op : p # o => intent'[p] = intent[p]
      BY <1>0, <1>11 DEF PrepareIntent, TypeOK
    <3>2. o \notin Intended
      BY <1>11 DEF PrepareIntent
    <3> QED BY <3>1, <3>2 DEF Intended
  <2>4. /\ call'.kind = call.kind /\ call'.op = call.op /\ call'.got = NoGot
        /\ call'.at = "admitted" /\ call'.fresh = FALSE
    BY <1>0, <2>1, <2>2 DEF CallRecord
  <2> QED BY <1>4, <2>3, <2>4
<1>12. ASSUME NEW o \in Op, SendMark(o) PROVE CallInv'
  <2>1. /\ call' = [call EXCEPT !.at = "marked"] /\ call.got = NoGot
        /\ call.op = o /\ call.at = "send" /\ intent' = intent
    BY <1>12 DEF SendMark, Goto, Flushed
  <2>2. call.fresh = FALSE
    BY <2>1, NotFresh
  <2>3. attempt'[o] # 0
    BY <1>0, <1>12, MarkAttempts
  <2> QED BY <1>0, <2>1, <2>2, <2>3 DEF CallInv, CallRecord, Intended
<1>13. ASSUME NEW o \in Op, SendTransmit(o) PROVE CallInv'
  <2>1. /\ call' = [call EXCEPT !.at = "wait", !.fresh = FALSE] /\ call.got = NoGot
        /\ call.op = o /\ call.at = "marked" /\ intent' = intent /\ attempt' = attempt
    BY <1>13 DEF SendTransmit, Flushed, storeVars
  <2> QED BY <1>0, <2>1 DEF CallInv, CallRecord, Intended
<1>14. ASSUME NEW o \in Op, SendResponse(o) PROVE CallInv'
  <2>1. PICK l \in {"observe", "finish"} : call' = [call EXCEPT !.at = l]
    BY <1>14 DEF SendResponse, Goto
  <2>2. call.fresh = FALSE
    BY <1>14, NotFresh DEF SendResponse
  <2>3. UNCHANGED <<intent, acked, attempt>>
    BY <1>14 DEF SendResponse
  <2>4. \A p \in Op : Len(box[p]) \in Nat /\ Len(box'[p]) \in Nat /\ Len(box[p]) <= Len(box'[p])
    <3>1. PICK d : box' = [box EXCEPT ![o] = Append(@, d)]
      BY <1>14 DEF SendResponse
    <3>2. \A p \in Op : box[p] \in Seq(Doc) /\ box'[p] \in Seq(Doc)
      BY <1>0, TypeStep DEF TypeOK
    <3>3. \A p \in Op : p # o => box'[p] = box[p]
      BY <1>0, <3>1 DEF TypeOK
    <3>4. box'[o] = Append(box[o], d)
      BY <1>0, <3>1 DEF TypeOK
    <3>5. Len(box'[o]) = Len(box[o]) + 1
      BY <3>2, <3>4
    <3> QED BY <3>2, <3>3, <3>5
  <2>5. \A p \in Op : acked[p] \in Nat
    BY <1>0 DEF TypeOK
  <2> QED BY <1>0, <2>1, <2>2, <2>3, <2>4, <2>5 DEF CallInv, CallRecord, Intended
<1>15. ASSUME NEW o \in Op, ObserveOutputs(o) PROVE CallInv'
  <2>1. /\ call' = [call EXCEPT !.at = "finish"] /\ call.got = NoGot
        /\ call.at = "observe" /\ intent' = intent
    BY <1>15 DEF ObserveOutputs, Goto, Flushed
  <2>2. call.fresh = FALSE
    BY <2>1, NotFresh
  <2>3. Intended' = Intended
    BY <2>1 DEF Intended
  <2>4. /\ call'.kind = call.kind /\ call'.op = call.op /\ call'.got = NoGot
        /\ call'.at = "finish" /\ call'.fresh = FALSE
    BY <1>0, <2>1, <2>2 DEF CallRecord
  <2> QED BY <1>4, <2>3, <2>4
<1>16. ASSUME Quiet,
              \/ call' = Idle
              \/ call' = call
              \/ \E o \in Op : call' = [Idle EXCEPT !.kind = "prepare", !.op = o, !.at = "prepare"]
              \/ \E o \in Intended : call' = [Idle EXCEPT !.kind = "send", !.op = o, !.at = "send"]
              \/ \E o \in Intended : call' = [Idle EXCEPT !.kind = "observe", !.op = o, !.at = "observe"]
       PROVE  CallInv'
  <2>1. Intended' = Intended
    BY <1>16 DEF Quiet, Intended
  <2>2. CASE call' = Idle
    BY <1>2, <2>2
  <2>3. CASE call' = call
    BY <1>1, <1>16, <2>3 DEF Quiet
  <2>4. ASSUME NEW o \in Op, call' = [Idle EXCEPT !.kind = "prepare", !.op = o, !.at = "prepare"]
        PROVE  CallInv'
    BY <1>3, <2>1, <2>4
  <2>5. ASSUME NEW o \in Intended, call' = [Idle EXCEPT !.kind = "send", !.op = o, !.at = "send"]
        PROVE  CallInv'
    BY <1>3, <2>1, <2>5
  <2>6. ASSUME NEW o \in Intended, call' = [Idle EXCEPT !.kind = "observe", !.op = o, !.at = "observe"]
        PROVE  CallInv'
    BY <1>3, <2>1, <2>6
  <2> QED BY <1>16, <2>2, <2>3, <2>4, <2>5, <2>6
<1> QED BY <1>5, <1>6, <1>7, <1>8, <1>10, <1>11, <1>12, <1>13, <1>14, <1>15, <1>16, QuietSteps
    DEF Next, CallStep

--------------------------------------------------------------------------------
(* SentInv                                                                    *)

\* Only the call that has just created the marker sends, and receipts stay.
LEMMA SentStep ==
    ASSUME IInv, [Next]_vars
    PROVE  SentInv'
<1>0. TypeOK /\ SentInv /\ CallInv
  BY DEF IInv
<1>1. ASSUME UNCHANGED <<acked, sent>> PROVE SentInv'
  BY <1>0, <1>1 DEF SentInv
<1>2. ASSUME NEW t \in Target, CaptureNext(t) PROVE SentInv'
  BY <1>1, <1>2, CaptureFrame DEF providerVars
<1>3. ASSUME NEW o \in Op,
             FinishCall(o) \/ SendSettled(o) \/ ObserveSettled(o) \/ PrepareSweep(o)
      PROVE  SentInv'
  BY <1>1, <1>3, FinishSteps, FinishFrame DEF providerVars
<1>4. ASSUME NEW o \in Op,
             \/ FlushIngest(o) \/ PrepareSupersede(o) \/ PrepareIntent(o) \/ SendRefuse(o)
             \/ SendMark(o) \/ SendResponse(o) \/ ObserveOutputs(o)
      PROVE  SentInv'
  BY <1>1, <1>4 DEF FlushIngest, PrepareSupersede, PrepareIntent, SendRefuse, Refuse,
       SendMark, SendResponse, ObserveOutputs, providerVars
<1>5. ASSUME NEW o \in Op, FlushAcknowledge(o) PROVE SentInv'
  <2>1. sent' = sent /\ acked' = [acked EXCEPT ![o] = @ + 1]
    BY <1>5 DEF FlushAcknowledge, providerVars
  <2> QED BY <1>0, <2>1 DEF SentInv, TypeOK
<1>6. ASSUME NEW o \in Op, SendTransmit(o) PROVE SentInv'
  <2>1. sent[o] = 0 /\ acked[o] >= 2
    BY <1>0, <1>6 DEF SendTransmit, CallInv
  <2>2. acked' = acked /\ sent' = [sent EXCEPT ![o] = @ + 1]
    BY <1>6 DEF SendTransmit, storeVars
  <2> QED BY <1>0, <2>1, <2>2 DEF SentInv, TypeOK
<1>7. CASE Quiet
  BY <1>1, <1>7 DEF Quiet
<1> QED BY <1>2, <1>3, <1>4, <1>5, <1>6, <1>7, QuietSteps DEF Next, CallStep

--------------------------------------------------------------------------------
(* FenceInv                                                                   *)

\* While an attempt is unfinished nobody else moves its target.
LEMMA FenceStep ==
    ASSUME IInv, [Next]_vars
    PROVE  FenceInv'
<1>0. TypeOK /\ StageInv /\ FenceInv /\ Poller \notin Op /\ \A o \in Op : TargetOf(o) \in Target
  BY ConstantsAssumption DEF IInv, Op, TargetOf
<1>1. ASSUME NEW o \in Op, attempt'[o] = attempt[o], terminal'[o] = terminal[o],
             owner'[TargetOf(o)] = owner[TargetOf(o)],
             seq'[TargetOf(o)] = seq[TargetOf(o)],
             domCapture'[TargetOf(o)] = domCapture[TargetOf(o)],
             attempt'[o] # 0, terminal'[o] = "none"
      PROVE  /\ OwnedBy(o)' /\ seq'[TargetOf(o)] = SeqOf(o)
             /\ domCapture'[TargetOf(o)] = SeqOf(o)
  BY <1>0, <1>1 DEF FenceInv, OwnedBy
<1>2. ASSUME UNCHANGED <<attempt, terminal, owner, captureVars>> PROVE FenceInv'
  BY <1>0, <1>2 DEF FenceInv, OwnedBy, captureVars
<1>3. ASSUME NEW t \in Target, CaptureNext(t) PROVE FenceInv'
  <2>1. UNCHANGED <<attempt, terminal>>
    BY <1>3, CaptureFrame
  <2>2. \A u \in Target : u # t => /\ owner'[u] = owner[u] /\ seq'[u] = seq[u]
                                   /\ domCapture'[u] = domCapture[u]
    BY <1>0, <1>3 DEF CaptureNext, CaptureClaim, CaptureRead, CaptureFreeze, CaptureAdmit,
         CaptureDecide, CaptureSettle, Acquire, Release, TypeOK, storeVars
  <2>3. ~ Held(t) \/ owner[t].unit = Poller
    BY <1>0, <1>3 DEF CaptureNext, CaptureClaim, CaptureRead, CaptureFreeze, CaptureAdmit,
         CaptureDecide, CaptureSettle, Acquire, StageInv
  <2>4. ASSUME NEW o \in Op, attempt'[o] # 0, terminal'[o] = "none"
        PROVE  /\ OwnedBy(o)' /\ seq'[TargetOf(o)] = SeqOf(o)
               /\ domCapture'[TargetOf(o)] = SeqOf(o)
    <3>1. OwnedBy(o)
      BY <1>0, <2>1, <2>4 DEF FenceInv
    <3>2. TargetOf(o) # t
      BY <1>0, <2>3, <3>1 DEF OwnedBy, Held
    <3> QED BY <1>0, <1>1, <2>1, <2>2, <2>4, <3>2
  <2> QED BY <2>4 DEF FenceInv
<1>4. ASSUME NEW p \in Op,
             FinishCall(p) \/ SendSettled(p) \/ ObserveSettled(p) \/ PrepareSweep(p)
      PROVE  FenceInv'
  <2>1. Finish(p) /\ UNCHANGED captureVars
    BY <1>4, FinishSteps
  <2>2. ASSUME NEW o \in Op, attempt'[o] # 0, terminal'[o] = "none"
        PROVE  /\ OwnedBy(o)' /\ seq'[TargetOf(o)] = SeqOf(o)
               /\ domCapture'[TargetOf(o)] = SeqOf(o)
    <3>1. /\ attempt' = attempt /\ terminal'[o] = terminal[o]
          /\ \/ owner'[TargetOf(o)] = owner[TargetOf(o)]
             \/ /\ TargetOf(o) = TargetOf(p) /\ OwnedBy(p) /\ terminal'[p] # "none"
      BY <1>0, <2>1, <2>2, FinishFrame DEF TypeOK
    <3>2. OwnedBy(o)
      BY <1>0, <2>2, <3>1 DEF FenceInv
    <3>3. TargetOf(o) = TargetOf(p) /\ OwnedBy(p) => o = p
      BY <3>2 DEF OwnedBy
    <3>4. owner'[TargetOf(o)] = owner[TargetOf(o)]
      BY <2>2, <3>1, <3>3
    <3> QED BY <1>1, <2>1, <2>2, <3>1, <3>4 DEF captureVars
  <2> QED BY <2>2 DEF FenceInv
<1>5. ASSUME NEW p \in Op, SendMark(p) PROVE FenceInv'
  <2>1. /\ ~ Held(TargetOf(p)) /\ Newest(p)
        /\ owner' = [owner EXCEPT ![TargetOf(p)] =
                        [unit |-> p, generation |-> owner[TargetOf(p)].generation + 1,
                         state |-> "held"]]
        /\ attempt' = [attempt EXCEPT ![p] = owner[TargetOf(p)].generation + 1]
        /\ UNCHANGED <<terminal, captureVars>>
    BY <1>5 DEF SendMark, Acquire
  <2>2. ASSUME NEW o \in Op, attempt'[o] # 0, terminal'[o] = "none"
        PROVE  /\ OwnedBy(o)' /\ seq'[TargetOf(o)] = SeqOf(o)
               /\ domCapture'[TargetOf(o)] = SeqOf(o)
    <3>1. CASE o = p
      <4>1. OwnedBy(o)'
        BY <1>0, <2>1, <3>1 DEF OwnedBy, TypeOK
      <4> QED BY <2>1, <3>1, <4>1 DEF Newest, captureVars
    <3>2. CASE o # p
      <4>1. attempt'[o] = attempt[o] /\ terminal'[o] = terminal[o]
        BY <1>0, <2>1, <3>2 DEF TypeOK
      <4>2. OwnedBy(o)
        BY <1>0, <2>2, <4>1 DEF FenceInv
      <4>3. TargetOf(o) # TargetOf(p)
        BY <2>1, <4>2 DEF OwnedBy, Held
      <4>4. owner'[TargetOf(o)] = owner[TargetOf(o)]
        BY <1>0, <2>1, <4>3 DEF TypeOK
      <4> QED BY <1>1, <2>1, <2>2, <4>1, <4>4 DEF captureVars
    <3> QED BY <3>1, <3>2
  <2> QED BY <2>2 DEF FenceInv
<1>6. ASSUME NEW o \in Op,
             \/ FlushIngest(o) \/ FlushAcknowledge(o) \/ PrepareSupersede(o)
             \/ PrepareIntent(o) \/ SendRefuse(o) \/ SendTransmit(o)
             \/ SendResponse(o) \/ ObserveOutputs(o)
      PROVE  FenceInv'
  BY <1>2, <1>6 DEF FlushIngest, FlushAcknowledge, PrepareSupersede, PrepareIntent, SendRefuse,
       Refuse, SendTransmit, SendResponse, ObserveOutputs, storeVars
<1>7. CASE Quiet
  BY <1>2, <1>7 DEF Quiet
<1> QED BY <1>3, <1>4, <1>5, <1>6, <1>7, QuietSteps DEF Next, CallStep

--------------------------------------------------------------------------------
(* The theorems                                                               *)

\* IInv is an inductive invariant of the writer.
THEOREM Inductive == Spec => []IInv
<1>1. Init => IInv
  <2> SUFFICES ASSUME Init PROVE IInv
    OBVIOUS
  <2>1. TypeOK
    BY TypeInit
  <2>2. StageInv
    BY DEF Init, StageInv
  <2>3. BoxInv
    BY DEF Init, BoxInv, Intended
  <2>4. CallInv
    BY ConstantsAssumption DEF Init, CallInv, Idle, NoGot
  <2>5. SentInv /\ FenceInv
    BY DEF Init, SentInv, FenceInv
  <2> QED BY <2>1, <2>2, <2>3, <2>4, <2>5 DEF IInv
<1>2. IInv /\ [Next]_vars => IInv'
  BY TypeStep, StageStep, BoxStep, CallInvStep, SentStep, FenceStep DEF IInv
<1> QED BY <1>1, <1>2, PTL DEF Spec

\* Both databases, the provider's record and the running call keep their types
\* through every interleaving, crash and restart.
THEOREM TypeCorrect == Spec => []TypeOK
<1>1. IInv => TypeOK
  BY DEF IInv
<1> QED BY <1>1, Inductive, PTL

\* The writer sends the request of an operation at most once, for every number of
\* targets, captures, policies and retries, and wherever a call is cut off.
THEOREM SingleAttempt == Spec => []SentAtMostOnce
<1>1. IInv => SentAtMostOnce
  BY DEF IInv, SentInv, SentAtMostOnce
<1> QED BY <1>1, Inductive, PTL

\* From the marker to the terminal fact no other operation of the target is
\* attempted and no newer capture of it enters either database.
THEOREM FenceExcludes == Spec => []FenceKeepsTargetStill
<1>1. IInv => FenceKeepsTargetStill
  <2> SUFFICES ASSUME IInv PROVE FenceKeepsTargetStill
    OBVIOUS
  <2>1. FenceInv
    BY DEF IInv
  <2>2. ASSUME NEW o \in Op, attempt[o] # 0, terminal[o] = "none",
               NEW p \in Op, TargetOf(p) = TargetOf(o), attempt[p] # 0, terminal[p] = "none"
        PROVE  p = o
    <3>1. OwnedBy(o) /\ OwnedBy(p)
      BY <2>1, <2>2 DEF FenceInv
    <3> QED BY <2>2, <3>1 DEF OwnedBy
  <2> QED BY <2>1, <2>2 DEF FenceInv, FenceKeepsTargetStill
<1> QED BY <1>1, Inductive, PTL
--------------------------------------------------------------------------------
(* What the steps that write an outbox do                                       *)

\* o's outbox grows by d; of the operations' rows only attempts and progress may change
Adds(o, d) ==
    /\ o \in Intended /\ terminal[o] = "none" /\ d \in Doc
    /\ Len(box[o]) \in Nat /\ Len(box[o]) >= 1
    /\ Len(box'[o]) = Len(box[o]) + 1
    /\ box'[o][Len(box[o]) + 1] = d
    /\ \A i \in 1..Len(box[o]) : box'[o][i] = box[o][i]
    /\ \A p \in Op : p # o => box'[p] = box[p]
    /\ UNCHANGED <<policy, intent, acked, terminal, refusal, dom, captureVars, providerVars>>

\* Two documents with the same phase and state are the same.
LEMMA DocEqual ==
    ASSUME NEW d \in Doc, NEW e \in Doc, d.phase = e.phase, d.state = e.state
    PROVE  d = e
BY DEF Doc

\* If the last document leaves the operation open, the state of the outbox is its state,
\* or unknown once the operation was attempted.
LEMMA OpenStateOfLast ==
    ASSUME NEW docs \in Seq(Doc), Len(docs) >= 1, docs[Len(docs)].state \notin TERMINAL,
           docs[Len(docs)].state # "prepared", NEW b \in BOOLEAN
    PROVE  OpenState(docs, Len(docs), b) = docs[Len(docs)].state
<1> DEFINE n == Len(docs)
           open == {i \in 1..n : docs[i].state \notin TERMINAL}
<1>1. n \in Nat /\ n \in open
  OBVIOUS
<1>2. Max(open) \in open /\ \A i \in open : i <= Max(open)
  <2>1. open \subseteq 0..n /\ open # {}
    BY <1>1
  <2> HIDE DEF open, n
  <2> QED BY <1>1, <2>1, MaxOfBounded
<1>3. Max(open) = n
  <2>1. \A i \in open : i \in Nat /\ i <= n
    BY <1>1
  <2>2. Max(open) \in Nat /\ Max(open) <= n
    BY <1>2, <2>1, Zenon
  <2>3. n <= Max(open)
    BY <1>1, <1>2, Zenon
  <2> HIDE DEF open, n
  <2> QED BY <1>1, <2>2, <2>3
<1>4. OpenState(docs, n, b) =
        LET state == IF open = {} THEN "prepared" ELSE docs[Max(open)].state
        IN  IF b /\ state = "prepared" THEN "unknown" ELSE state
  BY DEF OpenState
<1>5. open # {}
  BY <1>1
<1> HIDE DEF open, n
<1> QED BY <1>3, <1>4, <1>5 DEF n

\* Appending one document to an outbox that has one is Adds.
LEMMA AppendAdds ==
    ASSUME IInv, NEW o \in Op, o \in Intended, terminal[o] = "none", NEW d \in Doc,
           box' = [box EXCEPT ![o] = Append(@, d)],
           UNCHANGED <<policy, intent, acked, terminal, refusal, dom, captureVars, providerVars>>
    PROVE  Adds(o, d)
<1>1. box \in [Op -> Seq(Doc)] /\ box[o] \in Seq(Doc) /\ box[o] # <<>>
  BY DEF IInv, TypeOK, BoxInv
<1>2. Len(box[o]) \in Nat /\ Len(box[o]) >= 1
  BY <1>1
<1>3. box'[o] = Append(box[o], d) /\ \A p \in Op : p # o => box'[p] = box[p]
  BY <1>1
<1>4. /\ Len(box'[o]) = Len(box[o]) + 1 /\ box'[o][Len(box[o]) + 1] = d
      /\ \A i \in 1..Len(box[o]) : box'[o][i] = box[o][i]
  BY <1>1, <1>2, <1>3
<1> QED BY <1>2, <1>3, <1>4 DEF Adds

\* A refusal leaves the outboxes alone or adds the refusal to a preparation.
LEMMA RefuseAdds ==
    ASSUME IInv, NEW o \in Op, NEW l, Refuse(o, l), o \in Intended, terminal[o] = "none"
    PROVE  /\ attempt[o] = 0 /\ attempt' = attempt
           /\ \/ /\ box[o] = <<Prepared>> /\ Adds(o, RefusedDoc)
              \/ UNCHANGED <<policy, intent, box, acked, terminal, refusal, dom, captureVars,
                             providerVars>>
<1>1. /\ attempt[o] = 0
      /\ UNCHANGED <<policy, intent, acked, attempt, terminal, refusal, owner>>
      /\ UNCHANGED <<captureVars, dom, providerVars>>
  BY DEF Refuse
<1>2. CASE HasTerminalDoc(o)
  BY <1>1, <1>2 DEF Refuse
<1>3. CASE ~ HasTerminalDoc(o)
  <2>1. box' = [box EXCEPT ![o] = Append(@, RefusedDoc)]
    BY <1>3 DEF Refuse
  <2>2. box[o] = <<Prepared>>
    BY <1>1, <1>3, UntriedBox
  <2> QED BY <1>1, <2>1, <2>2, AppendAdds, DocType
<1> QED BY <1>2, <1>3

\* The two steps that refuse do so with an operation that is prepared and not finished.
LEMMA RefusingSteps ==
    ASSUME IInv, NEW o \in Op, PrepareSupersede(o) \/ SendRefuse(o)
    PROVE  /\ o \in Intended /\ terminal[o] = "none" /\ o \notin refusal
           /\ call.got = NoGot /\ call.at \in {"prepare", "send"}
           /\ \E l \in {"sweep", "finish"} : Refuse(o, l) /\ l # "marked" /\ l # "wait"
<1>1. CASE PrepareSupersede(o)
  BY <1>1 DEF PrepareSupersede, Flushed, Live
<1>2. CASE SendRefuse(o)
  BY <1>2 DEF SendRefuse, Flushed, Untried, IInv, CallInv
<1> QED BY <1>1, <1>2

\* The marker is the second document of an operation whose preparation has a receipt.
LEMMA MarkAdds ==
    ASSUME IInv, NEW o \in Op, SendMark(o)
    PROVE  /\ Adds(o, Marker) /\ box[o] = <<Prepared>> /\ acked[o] = 1
           /\ attempt[o] = 0 /\ attempt'[o] = owner[TargetOf(o)].generation + 1
           /\ \A p \in Op : p # o => attempt'[p] = attempt[p]
           /\ o \notin refusal
<1>1. o \in Intended /\ Drained /\ Untried(o) /\ terminal[o] = "none" /\ attempt[o] = 0
      /\ o \notin refusal
  BY DEF SendMark, Flushed, Untried, IInv, CallInv
<1>2. box[o] = <<Prepared>> /\ acked[o] = 1
  BY <1>1, UnfinishedBox
<1>3. /\ box' = [box EXCEPT ![o] = Append(@, Marker)]
      /\ attempt' = [attempt EXCEPT ![o] = owner[TargetOf(o)].generation + 1]
      /\ UNCHANGED <<policy, intent, acked, terminal, refusal, dom, captureVars, providerVars>>
  BY DEF SendMark
<1>4. attempt \in [Op -> Nat]
  BY DEF IInv, TypeOK
<1>5. /\ attempt'[o] = owner[TargetOf(o)].generation + 1
      /\ \A p \in Op : p # o => attempt'[p] = attempt[p]
  BY <1>3, <1>4
<1> QED BY <1>1, <1>2, <1>3, <1>5, AppendAdds, DocType

\* The response is the third document and says no more than the answer that came.
LEMMA ResponseAdds ==
    ASSUME IInv, FactInv, NEW o \in Op, SendResponse(o)
    PROVE  /\ attempt[o] # 0 /\ attempt' = attempt /\ Len(box[o]) = 2
           /\ \E d : /\ Adds(o, d) /\ Answers(d)
                     /\ d.state = "awaiting_observation" => reply[o] = "success"
                     /\ d.state = "refused_no_effect" => reply[o] = "precondition_failed"
<1>1. /\ o \in Intended /\ attempt[o] # 0 /\ Len(box[o]) = 2 /\ terminal[o] = "none"
      /\ attempt' = attempt
  BY DEF SendResponse, IInv, CallInv, FactInv, WaitInv
<1>2. PICK answer \in {reply[o], "incomplete"} \ {"none"} :
        box' = [box EXCEPT ![o] = Append(@, [phase |-> "response",
                                             state |-> ResponseState(answer)])]
  BY DEF SendResponse
<1> DEFINE d == [phase |-> "response", state |-> ResponseState(answer)]
<1>3. UNCHANGED <<policy, intent, acked, terminal, refusal, dom, captureVars, providerVars>>
  BY DEF SendResponse
<1>4. d \in Doc
  BY DEF Doc, Phase, State, TERMINAL, ResponseState
<1>5. Adds(o, d)
  BY <1>1, <1>2, <1>3, <1>4, AppendAdds
<1>6. /\ Answers(d)
      /\ d.state = "awaiting_observation" => answer = "success"
      /\ d.state = "refused_no_effect" => answer = "precondition_failed"
  BY DEF Answers, ResponseState
<1>7. answer \in {"success", "precondition_failed"} => answer = reply[o]
  BY <1>2
<1> HIDE DEF d
<1> QED BY <1>1, <1>5, <1>6, <1>7

\* The last document of an attempt that is not finished left it open.
LEMMA LastOfAttempt ==
    ASSUME IInv, ProtocolInv, NEW o \in Op, attempt[o] # 0
    PROVE  /\ Len(box[o]) \in Nat /\ Len(box[o]) >= 2
           /\ LastState(box[o]) \in {"unknown", "awaiting_observation"} \cup TERMINAL
           /\ LastState(box[o]) # "refused"
<1>1. box[o] \in Seq(Doc) /\ Len(box[o]) \in Nat
  BY DEF IInv, TypeOK
<1>2. /\ Len(box[o]) >= 2 /\ box[o][2] = Marker
      /\ \A i \in 3..Len(box[o]) : Answers(box[o][i]) \/ Observes(box[o], i)
  BY DEF ProtocolInv
<1> DEFINE n == Len(box[o])
<1>3. CASE n = 2
  BY <1>1, <1>2, <1>3 DEF LastState, Marker
<1>4. CASE n > 2
  <2>1. Answers(box[o][n]) \/ Observes(box[o], n)
    BY <1>1, <1>2, <1>4
  <2>2. box[o][n].state \in {"unknown", "awaiting_observation", "refused_no_effect",
                             "observed_applied_at_t"}
    BY <2>1 DEF Answers, Observes
  <2>3. LastState(box[o]) = box[o][n].state
    BY DEF LastState
  <2> QED BY <1>1, <1>2, <2>2, <2>3 DEF TERMINAL
<1>5. n = 2 \/ n > 2
  <2>1. \A m \in Nat : m >= 2 => m = 2 \/ m > 2
    OBVIOUS
  <2>2. n \in Nat /\ n >= 2
    BY <1>1, <1>2
  <2> HIDE DEF n
  <2> QED BY <2>1, <2>2
<1> HIDE DEF n
<1> QED BY <1>1, <1>2, <1>3, <1>4, <1>5 DEF n

\* An observation is made of an attempt whose every document has a receipt; it keeps what
\* the last one left open, or settles it by what the provider's record shows.
LEMMA ObserveAdds ==
    ASSUME IInv, FactInv, NEW o \in Op, ObserveOutputs(o)
    PROVE  /\ attempt[o] # 0 /\ attempt' = attempt /\ acked[o] = Len(box[o])
           /\ LastState(box[o]) \in {"unknown", "awaiting_observation"}
           /\ \E d : /\ Adds(o, d) /\ d.phase = "output_observed"
                     /\ \/ d.state = LastState(box[o])
                        \/ /\ d.state = "observed_applied_at_t"
                           /\ remote[TargetOf(o)].op = o
                           /\ \E j \in 1..Len(box[o]) :
                                 box[o][j] = [phase |-> "response",
                                              state |-> "awaiting_observation"]
<1>1. /\ o \in Intended /\ Drained /\ Fenced(o) /\ attempt[o] # 0 /\ terminal[o] = "none"
      /\ attempt' = attempt
  BY DEF ObserveOutputs, Flushed, Fenced, IInv, CallInv
<1>2. /\ box[o] \in Seq(Doc) /\ Len(box[o]) \in Nat /\ acked[o] \in Nat
      /\ acked[o] <= Len(box[o]) /\ box[o] # <<>>
  BY <1>1 DEF IInv, TypeOK, BoxInv
<1>3. o \notin refusal
  BY <1>1 DEF FactInv, EndInv, EndOf
<1>4. acked[o] = Len(box[o])
  BY <1>1, <1>2, <1>3 DEF Drained, Pending
<1>5. LastState(box[o]) \in {"unknown", "awaiting_observation"} /\ Len(box[o]) >= 2
  <2>1. LastState(box[o]) \notin TERMINAL
    BY <1>1, <1>2, <1>4 DEF Fenced, Finishable
  <2> QED BY <1>1, <2>1, LastOfAttempt DEF FactInv
<1>6. Expected(o).state = LastState(box[o])
  <2>1. box[o][Len(box[o])].state = LastState(box[o]) /\ Len(box[o]) >= 1
    BY <1>2, <1>5 DEF LastState
  <2>2. LastState(box[o]) \notin TERMINAL /\ LastState(box[o]) # "prepared"
    BY <1>5 DEF TERMINAL
  <2>3. (attempt[o] # 0) \in BOOLEAN
    OBVIOUS
  <2>4. OpenState(box[o], Len(box[o]), attempt[o] # 0) = LastState(box[o])
    BY <1>2, <2>1, <2>2, <2>3, OpenStateOfLast
  <2> QED BY <1>1, <1>3, <1>4, <2>4 DEF Expected, ProgressOf
<1> DEFINE complete == \E i \in 1..Len(box[o]) :
                          /\ box[o][i].phase = "response"
                          /\ box[o][i].state = "awaiting_observation"
           matches == remote[TargetOf(o)].op = o
           d == [phase |-> "output_observed",
                 state |-> IF complete /\ matches THEN "observed_applied_at_t"
                           ELSE Expected(o).state]
<1>7. /\ box' = [box EXCEPT ![o] = Append(@, d)]
      /\ UNCHANGED <<policy, intent, acked, terminal, refusal, dom, captureVars, providerVars>>
  BY DEF ObserveOutputs
<1>8. complete => \E j \in 1..Len(box[o]) : box[o][j] = [phase |-> "response",
                                                       state |-> "awaiting_observation"]
  <2>1. \A j \in 1..Len(box[o]) : box[o][j] \in Doc
    BY <1>2
  <2>2. [phase |-> "response", state |-> "awaiting_observation"] \in Doc
    BY DEF Doc, Phase, State
  <2> QED BY <2>1, <2>2, DocEqual
<1>9. d \in Doc
  <2>1. d.state \in State /\ d.phase \in Phase
    <3> HIDE DEF complete, matches
    <3> QED BY <1>5, <1>6 DEF Phase, State, TERMINAL
  <2> QED BY <2>1 DEF Doc
<1>10. Adds(o, d)
  BY <1>1, <1>7, <1>9, AppendAdds
<1>11. d.phase = "output_observed" /\ (\/ d.state = LastState(box[o])
                                          \/ /\ complete /\ matches
                                             /\ d.state = "observed_applied_at_t")
  BY <1>6
<1> HIDE DEF d, complete
<1> QED BY <1>1, <1>4, <1>5, <1>8, <1>10, <1>11

\* The steps that leave every outbox and every attempt alone; receipts may come in, an
\* operation may be refused locally or finished.
BoxKept == /\ UNCHANGED <<box, attempt>>
           /\ \A o \in Op : acked'[o] >= acked[o]

\* A step either leaves the outboxes and attempts alone or is one of five that write one.
LEMMA WriterSteps ==
    ASSUME IInv, [Next]_vars
    PROVE  \/ BoxKept
           \/ \E o \in Op : \/ PrepareSupersede(o) \/ SendRefuse(o) \/ PrepareIntent(o)
                            \/ SendMark(o) \/ SendResponse(o) \/ ObserveOutputs(o)
<1>0. acked \in [Op -> Nat]
  BY DEF IInv, TypeOK
<1>1. ASSUME UNCHANGED <<box, attempt, acked>> PROVE BoxKept
  BY <1>0, <1>1 DEF BoxKept
<1>2. ASSUME NEW t \in Target, CaptureNext(t) PROVE BoxKept
  BY <1>1, <1>2, CaptureFrame
<1>3. ASSUME NEW o \in Op,
             FinishCall(o) \/ SendSettled(o) \/ ObserveSettled(o) \/ PrepareSweep(o)
      PROVE  BoxKept
  BY <1>1, <1>3, FinishSteps, FinishFrame
<1>4. ASSUME NEW o \in Op, FlushIngest(o) \/ SendTransmit(o) PROVE BoxKept
  BY <1>1, <1>4 DEF FlushIngest, SendTransmit, storeVars
<1>5. ASSUME NEW o \in Op, FlushAcknowledge(o) PROVE BoxKept
  <2>1. UNCHANGED <<box, attempt>> /\ acked' = [acked EXCEPT ![o] = @ + 1]
    BY <1>5 DEF FlushAcknowledge
  <2>2. \A p \in Op : acked'[p] >= acked[p]
    BY <1>0, <2>1
  <2> QED BY <2>1, <2>2 DEF BoxKept
<1>6. CASE Quiet
  BY <1>1, <1>6 DEF Quiet
<1> QED BY <1>2, <1>3, <1>4, <1>5, <1>6, QuietSteps DEF Next, CallStep

\* A document that answers or observes keeps the outbox of an attempt in order.
LEMMA ProtocolAdds ==
    ASSUME IInv, FactInv, NEW o \in Op, NEW d, Adds(o, d), attempt' = attempt, attempt[o] # 0,
           \/ Len(box[o]) = 2 /\ Answers(d)
           \/ Observes(box'[o], Len(box[o]) + 1)
    PROVE  ProtocolInv'
<1>1. /\ Len(box[o]) \in Nat /\ Len(box'[o]) = Len(box[o]) + 1
      /\ box'[o][Len(box[o]) + 1] = d
      /\ \A i \in 1..Len(box[o]) : box'[o][i] = box[o][i]
      /\ \A p \in Op : p # o => box'[p] = box[p]
      /\ acked' = acked
  BY DEF Adds
<1>2. /\ Len(box[o]) >= 2 /\ box[o][1] = Prepared /\ box[o][2] = Marker /\ acked[o] >= 1
      /\ \A i \in 3..Len(box[o]) : \/ i = 3 /\ Answers(box[o][i])
                                   \/ Observes(box[o], i)
  BY DEF FactInv, ProtocolInv
<1>3. ASSUME NEW i \in 3..Len(box'[o])
      PROVE  (i = 3 /\ Answers(box'[o][i])) \/ Observes(box'[o], i)
  <2>1. CASE i \in 3..Len(box[o])
    <3>1. i \in 1..Len(box[o]) /\ i - 1 \in 1..Len(box[o])
      BY <1>1, <2>1
    <3>2. \A j \in 1..(i - 1) : j \in 1..Len(box[o])
      BY <1>1, <2>1
    <3>3. Observes(box[o], i) => Observes(box'[o], i)
      BY <1>1, <3>1, <3>2 DEF Observes
    <3> QED BY <1>1, <1>2, <2>1, <3>1, <3>3
  <2>2. CASE i = Len(box[o]) + 1
    BY <1>1, <2>2
  <2> QED BY <1>1, <1>3, <2>1, <2>2
<1>4. ASSUME NEW p \in Op, p # o, attempt'[p] # 0
      PROVE  /\ Len(box'[p]) >= 2 /\ box'[p][1] = Prepared /\ box'[p][2] = Marker
             /\ acked'[p] >= 1
             /\ \A i \in 3..Len(box'[p]) : \/ i = 3 /\ Answers(box'[p][i])
                                           \/ Observes(box'[p], i)
  BY <1>1, <1>4 DEF FactInv, ProtocolInv
<1>5. Len(box'[o]) >= 2 /\ box'[o][1] = Prepared /\ box'[o][2] = Marker /\ acked'[o] >= 1
  BY <1>1, <1>2
<1> QED BY <1>3, <1>4, <1>5 DEF ProtocolInv

\* Every step keeps the outboxes of the attempts in order.
LEMMA ProtocolStep ==
    ASSUME IInv, FactInv, [Next]_vars
    PROVE  ProtocolInv'
<1>1. CASE BoxKept
  <2>1. \A o \in Op : acked[o] \in Nat /\ acked'[o] \in Nat
    BY TypeStep DEF IInv, TypeOK
  <2> QED BY <1>1, <2>1 DEF FactInv, ProtocolInv, BoxKept
<1>2. ASSUME NEW o \in Op, attempt'[o] = 0, \A p \in Op : p # o => attempt'[p] = attempt[p],
             \A p \in Op : p # o => box'[p] = box[p], acked' = acked
      PROVE  ProtocolInv'
  BY <1>2 DEF FactInv, ProtocolInv
<1>3. ASSUME NEW o \in Op, PrepareSupersede(o) \/ SendRefuse(o) PROVE ProtocolInv'
  <2>1. /\ attempt[o] = 0 /\ attempt' = attempt /\ acked' = acked
        /\ \A p \in Op : p # o => box'[p] = box[p]
    BY <1>3, RefusingSteps, RefuseAdds DEF Adds
  <2> QED BY <1>2, <2>1
<1>4. ASSUME NEW o \in Op, PrepareIntent(o) PROVE ProtocolInv'
  <2>1. /\ o \notin Intended /\ box' = [box EXCEPT ![o] = <<Prepared>>]
        /\ UNCHANGED <<acked, attempt>>
    BY <1>4 DEF PrepareIntent
  <2>2. box \in [Op -> Seq(Doc)] /\ box[o] = <<>>
    BY <2>1 DEF IInv, TypeOK, BoxInv
  <2>3. attempt[o] = 0
    BY <2>2 DEF FactInv, ProtocolInv
  <2>4. \A p \in Op : p # o => box'[p] = box[p]
    BY <2>1, <2>2
  <2> QED BY <1>2, <2>1, <2>3, <2>4
<1>5. ASSUME NEW o \in Op, SendMark(o) PROVE ProtocolInv'
  <2>1. /\ Adds(o, Marker) /\ box[o] = <<Prepared>> /\ acked[o] = 1
        /\ \A p \in Op : p # o => attempt'[p] = attempt[p]
    BY <1>5, MarkAdds
  <2>2. Len(box[o]) = 1 /\ box[o][1] = Prepared
    BY <2>1
  <2>3. /\ Len(box'[o]) = 2 /\ box'[o][1] = Prepared /\ box'[o][2] = Marker /\ acked'[o] = 1
        /\ \A p \in Op : p # o => box'[p] = box[p]
        /\ acked' = acked
    BY <2>1, <2>2 DEF Adds
  <2>4. 3..Len(box'[o]) = {}
    BY <2>3
  <2>5. ASSUME NEW p \in Op, attempt'[p] # 0
        PROVE  /\ Len(box'[p]) >= 2 /\ box'[p][1] = Prepared /\ box'[p][2] = Marker
               /\ acked'[p] >= 1
               /\ \A i \in 3..Len(box'[p]) : \/ i = 3 /\ Answers(box'[p][i])
                                             \/ Observes(box'[p], i)
    <3>1. CASE p = o
      <4>1. Len(box'[o]) >= 2 /\ acked'[o] >= 1 /\ \A i \in 3..Len(box'[o]) : FALSE
        BY <2>3, <2>4
      <4> QED BY <2>3, <3>1, <4>1
    <3>2. CASE p # o
      BY <2>1, <2>3, <2>5, <3>2 DEF FactInv, ProtocolInv
    <3> QED BY <3>1, <3>2
  <2> QED BY <2>5 DEF ProtocolInv
<1>6. ASSUME NEW o \in Op, SendResponse(o) PROVE ProtocolInv'
  BY <1>6, ResponseAdds, ProtocolAdds
<1>7. ASSUME NEW o \in Op, ObserveOutputs(o) PROVE ProtocolInv'
  <2>1. /\ attempt[o] # 0 /\ attempt' = attempt
        /\ LastState(box[o]) \in {"unknown", "awaiting_observation"}
    BY <1>7, ObserveAdds
  <2>2. PICK d : /\ Adds(o, d) /\ d.phase = "output_observed"
                 /\ \/ d.state = LastState(box[o])
                    \/ /\ d.state = "observed_applied_at_t"
                       /\ \E j \in 1..Len(box[o]) :
                             box[o][j] = [phase |-> "response", state |-> "awaiting_observation"]
    BY <1>7, ObserveAdds
  <2>3. /\ Len(box[o]) \in Nat /\ Len(box[o]) >= 1 /\ Len(box[o]) \in 1..Len(box[o])
        /\ box'[o][Len(box[o]) + 1] = d
        /\ \A i \in 1..Len(box[o]) : box'[o][i] = box[o][i]
    BY <2>2 DEF Adds
  <2>4. (Len(box[o]) + 1) - 1 = Len(box[o])
    BY <2>3
  <2>5. box'[o][Len(box[o])].state = LastState(box[o])
    BY <2>3 DEF LastState
  <2>6. Observes(box'[o], Len(box[o]) + 1)
    BY <2>1, <2>2, <2>3, <2>4, <2>5 DEF Observes
  <2> QED BY <2>1, <2>2, <2>6, ProtocolAdds
<1> QED BY <1>1, <1>3, <1>4, <1>5, <1>6, <1>7, WriterSteps

\* the call begins or ends
Renewed == call'.got = NoGot /\ call'.at \notin {"marked", "wait"}

\* A quiet step leaves the call alone, or the call begins or ends.
LEMMA QuietCall ==
    ASSUME \/ \E e \in BOOLEAN, ts \in SUBSET Target : SetWritePolicy(e, ts)
           \/ BeginNext \/ Fail \/ ProviderNext
           \/ PrepareReturn \/ UNCHANGED vars
    PROVE  /\ Quiet
           /\ call' = call \/ Renewed
<1>1. Idle.got = NoGot /\ Idle.at = "idle"
  BY DEF Idle
<1>2. ASSUME NEW o, NEW k \in {"prepare", "send", "observe"},
             call' = [Idle EXCEPT !.kind = k, !.op = o, !.at = k]
      PROVE  Renewed
  BY <1>2 DEF Idle, Renewed
<1>3. \/ call' = Idle
      \/ call' = call
      \/ \E o \in Op : call' = [Idle EXCEPT !.kind = "prepare", !.op = o, !.at = "prepare"]
      \/ \E o \in Intended : call' = [Idle EXCEPT !.kind = "send", !.op = o, !.at = "send"]
      \/ \E o \in Intended : call' = [Idle EXCEPT !.kind = "observe", !.op = o, !.at = "observe"]
  BY QuietSteps
<1>4. ASSUME NEW o \in Op, call' = [Idle EXCEPT !.kind = "prepare", !.op = o, !.at = "prepare"]
      PROVE  Renewed
  BY <1>2, <1>4
<1>5. ASSUME NEW o \in Intended, call' = [Idle EXCEPT !.kind = "send", !.op = o, !.at = "send"]
      PROVE  Renewed
  BY <1>2, <1>5
<1>6. ASSUME NEW o \in Intended, call' = [Idle EXCEPT !.kind = "observe", !.op = o, !.at = "observe"]
      PROVE  Renewed
  BY <1>2, <1>6
<1>7. ASSUME call' = Idle PROVE Renewed
  BY <1>1, <1>7 DEF Renewed
<1> QED BY <1>3, <1>4, <1>5, <1>6, <1>7, QuietSteps

\* Between the marker and the response only the marker's own receipt comes in.
LEMMA WaitStep ==
    ASSUME IInv, FactInv, [Next]_vars
    PROVE  WaitInv'
<1>0. call \in CallRecord
  BY DEF IInv, TypeOK
<1>1. ASSUME call'.at \notin {"marked", "wait"} PROVE WaitInv'
  BY <1>1 DEF WaitInv
<1>2. ASSUME UNCHANGED <<box, terminal>>, call'.op = call.op,
             call'.at \in {"marked", "wait"} => call.at \in {"marked", "wait"}
      PROVE  WaitInv'
  BY <1>2 DEF FactInv, WaitInv
<1>3. ASSUME NEW t \in Target, CaptureNext(t) PROVE WaitInv'
  BY <1>2, <1>3, CaptureFrame
<1>4. ASSUME NEW o \in Op,
             FinishCall(o) \/ SendSettled(o) \/ ObserveSettled(o) \/ PrepareSweep(o)
      PROVE  WaitInv'
  <2>1. call' = Idle \/ call' = [call EXCEPT !.at = "prepare"]
    BY <1>4, FinishSteps
  <2>2. call'.at \notin {"marked", "wait"}
    BY <1>0, <2>1 DEF Idle, CallRecord
  <2> QED BY <1>1, <2>2
<1>5. ASSUME NEW o \in Op, FlushIngest(o) \/ FlushAcknowledge(o) PROVE WaitInv'
  <2>1. UNCHANGED <<box, terminal>>
    BY <1>5 DEF FlushIngest, FlushAcknowledge
  <2>2. call'.op = call.op /\ call'.at = call.at
    BY <1>0, <1>5 DEF FlushIngest, FlushAcknowledge, CallRecord
  <2> QED BY <1>2, <2>1, <2>2
<1>6. ASSUME NEW o \in Op, PrepareSupersede(o) \/ SendRefuse(o) PROVE WaitInv'
  <2>1. PICK l : Refuse(o, l) /\ l # "marked" /\ l # "wait"
    BY <1>6, RefusingSteps
  <2>2. call' = [call EXCEPT !.at = l, !.victim = o]
    BY <2>1 DEF Refuse
  <2>3. call'.at = l
    BY <1>0, <2>2 DEF CallRecord
  <2> QED BY <1>1, <2>1, <2>3
<1>7. ASSUME NEW o \in Op, PrepareIntent(o) \/ ObserveOutputs(o) PROVE WaitInv'
  <2>1. call' = [call EXCEPT !.at = "admitted"] \/ call' = [call EXCEPT !.at = "finish"]
    BY <1>7 DEF PrepareIntent, ObserveOutputs, Goto
  <2>2. call'.at \notin {"marked", "wait"}
    BY <1>0, <2>1 DEF CallRecord
  <2> QED BY <1>1, <2>2
<1>8. ASSUME NEW o \in Op, SendMark(o) PROVE WaitInv'
  <2>1. /\ Adds(o, Marker) /\ box[o] = <<Prepared>>
    BY <1>8, MarkAdds
  <2>2. Len(box'[o]) = 2 /\ terminal'[o] = "none"
    BY <2>1 DEF Adds
  <2>3. call'.op = o
    BY <1>0, <1>8 DEF SendMark, Goto, Flushed, CallRecord
  <2> QED BY <2>2, <2>3 DEF WaitInv
<1>9. ASSUME NEW o \in Op, SendTransmit(o) PROVE WaitInv'
  <2>1. UNCHANGED <<box, terminal>> /\ call.at = "marked"
    BY <1>9 DEF SendTransmit, Flushed, storeVars
  <2>2. call' = [call EXCEPT !.at = "wait", !.fresh = FALSE]
    BY <1>9 DEF SendTransmit
  <2>3. call'.op = call.op
    BY <1>0, <2>2 DEF CallRecord
  <2> QED BY <1>2, <2>1, <2>3
<1>10. ASSUME NEW o \in Op, SendResponse(o) PROVE WaitInv'
  <2>1. PICK l \in {"observe", "finish"} : call' = [call EXCEPT !.at = l]
    BY <1>10 DEF SendResponse, Goto
  <2>2. call'.at \notin {"marked", "wait"}
    BY <1>0, <2>1 DEF CallRecord
  <2> QED BY <1>1, <2>2
<1>11. ASSUME Quiet, call' = call \/ Renewed PROVE WaitInv'
  <2>1. CASE call' = call
    BY <1>2, <1>11, <2>1 DEF Quiet
  <2>2. CASE Renewed
    BY <1>1, <2>2 DEF Renewed
  <2> QED BY <1>11, <2>1, <2>2
<1> QED BY <1>3, <1>4, <1>5, <1>6, <1>7, <1>8, <1>9, <1>10, <1>11, QuietCall
    DEF Next, CallStep

\* The ledger holds a beginning of every outbox, receipts included.
LEMMA DeliveryStep ==
    ASSUME IInv, FactInv, [Next]_vars
    PROVE  DeliveryInv'
<1>0. /\ call \in CallRecord /\ NoGot.op = NoOp /\ NoOp \notin Op
      /\ \A o \in Op : /\ dom[o] \in Seq(Doc) /\ box[o] \in Seq(Doc)
                       /\ Len(dom[o]) \in Nat /\ Len(box[o]) \in Nat /\ acked[o] \in Nat
      /\ DeliveryInv
  BY ConstantsAssumption DEF IInv, FactInv, TypeOK, NoGot
<1>1. ASSUME UNCHANGED <<dom, acked>>, \A o \in Op : call'.got.op = o => call.got.op = o,
             \A p \in Op : \/ box'[p] = box[p]
                           \/ /\ Len(box'[p]) \in Nat /\ Len(box[p]) <= Len(box'[p])
                              /\ \A i \in 1..Len(box[p]) : box'[p][i] = box[p][i]
      PROVE  DeliveryInv'
  <2> SUFFICES ASSUME NEW o \in Op
               PROVE  /\ acked'[o] <= Len(dom'[o]) /\ Len(dom'[o]) <= Len(box'[o])
                      /\ \A i \in 1..Len(dom'[o]) : dom'[o][i] = box'[o][i]
                      /\ call'.got.op = o => acked'[o] < Len(dom'[o])
    BY DEF DeliveryInv
  <2>1. /\ acked[o] <= Len(dom[o]) /\ Len(dom[o]) <= Len(box[o])
        /\ \A i \in 1..Len(dom[o]) : dom[o][i] = box[o][i]
        /\ call.got.op = o => acked[o] < Len(dom[o])
    BY <1>0 DEF DeliveryInv
  <2>2. CASE box'[o] = box[o]
    BY <1>1, <2>1, <2>2
  <2>3. CASE /\ Len(box'[o]) \in Nat /\ Len(box[o]) <= Len(box'[o])
             /\ \A i \in 1..Len(box[o]) : box'[o][i] = box[o][i]
    <3>1. \A i \in 1..Len(dom[o]) : i \in 1..Len(box[o])
      BY <1>0, <2>1
    <3> QED BY <1>0, <1>1, <2>1, <2>3, <3>1
  <2> QED BY <1>1, <2>2, <2>3
<1>2. ASSUME UNCHANGED <<box, dom, acked, call>> PROVE DeliveryInv'
  BY <1>1, <1>2
<1>3. ASSUME UNCHANGED <<box, dom, acked>>, call'.got.op \notin Op PROVE DeliveryInv'
  BY <1>1, <1>3
<1>4. ASSUME NEW t \in Target, CaptureNext(t) PROVE DeliveryInv'
  BY <1>2, <1>4, CaptureFrame
<1>5. ASSUME NEW o \in Op,
             FinishCall(o) \/ SendSettled(o) \/ ObserveSettled(o) \/ PrepareSweep(o)
      PROVE  DeliveryInv'
  <2>1. UNCHANGED <<box, acked, dom>>
    BY <1>5, FinishSteps, FinishFrame
  <2>2. (call' = Idle \/ call' = [call EXCEPT !.at = "prepare"]) /\ call.got = NoGot
    BY <1>5, FinishSteps
  <2>3. call'.got = NoGot
    BY <1>0, <2>2 DEF Idle, CallRecord
  <2> QED BY <1>0, <1>3, <2>1, <2>3
<1>6. ASSUME NEW o \in Op, FlushIngest(o) PROVE DeliveryInv'
  <2>1. /\ UNCHANGED <<box, acked>> /\ acked[o] < Len(box[o])
        /\ \/ UNCHANGED <<dom, call>>
           \/ /\ dom' = dom /\ Len(dom[o]) > acked[o]
              /\ call' = [call EXCEPT !.got = [op |-> o, status |-> "duplicate"]]
           \/ /\ Len(dom[o]) <= acked[o]
              /\ dom' = [dom EXCEPT ![o] = Append(@, box[o][acked[o] + 1])]
              /\ call' = [call EXCEPT !.got = [op |-> o, status |-> "created"]]
    BY <1>0, <1>6 DEF FlushIngest, Pending
  <2>2. CASE UNCHANGED <<dom, call>>
    BY <1>2, <2>1, <2>2
  <2>3. CASE /\ dom' = dom /\ Len(dom[o]) > acked[o]
             /\ call' = [call EXCEPT !.got = [op |-> o, status |-> "duplicate"]]
    <3>1. call'.got.op = o
      BY <1>0, <2>3 DEF CallRecord
    <3> QED BY <1>0, <2>1, <2>3, <3>1 DEF DeliveryInv
  <2>4. CASE /\ Len(dom[o]) <= acked[o]
             /\ dom' = [dom EXCEPT ![o] = Append(@, box[o][acked[o] + 1])]
             /\ call' = [call EXCEPT !.got = [op |-> o, status |-> "created"]]
    <3>1. call'.got.op = o
      BY <1>0, <2>4 DEF CallRecord
    <3>2. Len(dom[o]) = acked[o]
      BY <1>0, <2>4 DEF DeliveryInv
    <3>3. dom \in [Op -> Seq(Doc)]
      BY DEF IInv, TypeOK
    <3>4. dom'[o] = Append(dom[o], box[o][acked[o] + 1]) /\ \A p \in Op : p # o => dom'[p] = dom[p]
      BY <2>4, <3>3
    <3>5. /\ Len(dom'[o]) = acked[o] + 1 /\ dom'[o][acked[o] + 1] = box[o][acked[o] + 1]
          /\ \A i \in 1..Len(dom[o]) : dom'[o][i] = dom[o][i]
      BY <1>0, <3>2, <3>4
    <3>6. \A i \in 1..Len(dom'[o]) : dom'[o][i] = box[o][i]
      <4>1. \A i \in 1..Len(dom'[o]) : i \in 1..Len(dom[o]) \/ i = acked[o] + 1
        BY <1>0, <3>2, <3>5
      <4> QED BY <1>0, <3>5, <4>1 DEF DeliveryInv
    <3>7. acked'[o] <= Len(dom'[o]) /\ Len(dom'[o]) <= Len(box'[o]) /\ acked'[o] < Len(dom'[o])
      BY <1>0, <2>1, <3>5
    <3>8. box' = box /\ acked' = acked
      BY <2>1
    <3>9. ASSUME NEW p \in Op
          PROVE  /\ acked'[p] <= Len(dom'[p]) /\ Len(dom'[p]) <= Len(box'[p])
                 /\ \A i \in 1..Len(dom'[p]) : dom'[p][i] = box'[p][i]
                 /\ call'.got.op = p => acked'[p] < Len(dom'[p])
      <4>1. CASE p = o
        BY <3>6, <3>7, <3>8, <4>1
      <4>2. CASE p # o
        <5>1. dom'[p] = dom[p] /\ call'.got.op # p
          BY <3>1, <3>4, <4>2
        <5>2. /\ acked[p] <= Len(dom[p]) /\ Len(dom[p]) <= Len(box[p])
              /\ \A i \in 1..Len(dom[p]) : dom[p][i] = box[p][i]
          BY <1>0 DEF DeliveryInv
        <5> QED BY <3>8, <5>1, <5>2
      <4> QED BY <4>1, <4>2
    <3> QED BY <3>9 DEF DeliveryInv
  <2> QED BY <2>1, <2>2, <2>3, <2>4
<1>7. ASSUME NEW o \in Op, FlushAcknowledge(o) PROVE DeliveryInv'
  <2>1. UNCHANGED <<box, dom>> /\ acked' = [acked EXCEPT ![o] = @ + 1] /\ call.got.op = o
    BY <1>7 DEF FlushAcknowledge
  <2>2. call'.got = NoGot
    BY <1>0, <1>7 DEF FlushAcknowledge, CallRecord
  <2>3. acked[o] < Len(dom[o])
    BY <1>0, <2>1 DEF DeliveryInv
  <2>4. acked'[o] = acked[o] + 1 /\ \A p \in Op : p # o => acked'[p] = acked[p]
    BY <2>1 DEF IInv, TypeOK
  <2>5. acked'[o] <= Len(dom[o])
    BY <1>0, <2>3, <2>4
  <2> QED BY <1>0, <2>1, <2>2, <2>4, <2>5 DEF DeliveryInv
<1>8. ASSUME NEW o \in Op, NEW d, Adds(o, d), UNCHANGED <<dom>>,
             \A p \in Op : call'.got.op = p => call.got.op = p
      PROVE  DeliveryInv'
  <2>1. \A p \in Op : \/ box'[p] = box[p]
                      \/ /\ Len(box'[p]) \in Nat /\ Len(box[p]) <= Len(box'[p])
                         /\ \A i \in 1..Len(box[p]) : box'[p][i] = box[p][i]
    BY <1>0, <1>8 DEF Adds
  <2> QED BY <1>1, <1>8, <2>1 DEF Adds
<1>9. ASSUME NEW o \in Op, PrepareSupersede(o) \/ SendRefuse(o) PROVE DeliveryInv'
  <2>1. PICK l : Refuse(o, l)
    BY <1>9, RefusingSteps
  <2>2. call'.got = call.got
    BY <1>0, <2>1 DEF Refuse, CallRecord
  <2>3. CASE Adds(o, RefusedDoc)
    BY <1>8, <2>1, <2>2, <2>3 DEF Adds
  <2>4. CASE UNCHANGED <<box, acked, dom>>
    BY <1>1, <2>2, <2>4
  <2> QED BY <1>9, <2>1, <2>3, <2>4, RefusingSteps, RefuseAdds
<1>10. ASSUME NEW o \in Op, PrepareIntent(o) PROVE DeliveryInv'
  <2>1. /\ o \notin Intended /\ box' = [box EXCEPT ![o] = <<Prepared>>] /\ UNCHANGED <<acked, dom>>
        /\ call' = [call EXCEPT !.at = "admitted"]
    BY <1>10 DEF PrepareIntent, Goto
  <2>2. box \in [Op -> Seq(Doc)] /\ box[o] = <<>>
    BY <2>1 DEF IInv, TypeOK, BoxInv
  <2>3. Len(box[o]) = 0 /\ Len(box'[o]) = 1 /\ \A p \in Op : p # o => box'[p] = box[p]
    BY <2>1, <2>2
  <2>4. call'.got = call.got
    BY <1>0, <2>1 DEF CallRecord
  <2> QED BY <1>1, <2>1, <2>3, <2>4
<1>11. ASSUME NEW o \in Op, SendMark(o) \/ ObserveOutputs(o) \/ SendResponse(o) PROVE DeliveryInv'
  <2>1. PICK d : Adds(o, d)
    BY <1>11, MarkAdds, ObserveAdds, ResponseAdds
  <2>2. \E l : call' = [call EXCEPT !.at = l]
    BY <1>11 DEF SendMark, ObserveOutputs, SendResponse, Goto
  <2>3. call'.got = call.got
    BY <1>0, <2>2 DEF CallRecord
  <2> QED BY <1>8, <2>1, <2>3 DEF Adds
<1>12. ASSUME NEW o \in Op, SendTransmit(o) PROVE DeliveryInv'
  <2>1. UNCHANGED <<box, acked, dom>> /\ call' = [call EXCEPT !.at = "wait", !.fresh = FALSE]
    BY <1>12 DEF SendTransmit, storeVars
  <2>2. call'.got = call.got
    BY <1>0, <2>1 DEF CallRecord
  <2> QED BY <1>1, <2>1, <2>2
<1>13. ASSUME Quiet, call' = call \/ Renewed PROVE DeliveryInv'
  <2>1. CASE call' = call
    BY <1>2, <1>13, <2>1 DEF Quiet
  <2>2. CASE Renewed
    BY <1>0, <1>3, <1>13, <2>2 DEF Quiet, Renewed
  <2> QED BY <1>13, <2>1, <2>2
<1> QED BY <1>4, <1>5, <1>6, <1>7, <1>9, <1>10, <1>11, <1>12, <1>13, QuietCall
    DEF Next, CallStep

\* A target's ownership row stays, is given back, or starts a later generation.
OwnerMoves(t) ==
    \/ owner'[t] = owner[t]
    \/ /\ owner'[t].generation \in Nat /\ owner'[t].generation >= owner[t].generation
       /\ owner'[t].state # "held" \/ owner'[t].generation > owner[t].generation

\* Claiming a free target starts a later generation.
LEMMA AcquireMoves ==
    ASSUME TypeOK, NEW t \in Target, NEW u, Acquire(t, u), NEW s \in Target
    PROVE  OwnerMoves(s)
<1>1. /\ owner' = [owner EXCEPT ![t] = [unit |-> u, generation |-> owner[t].generation + 1,
                                        state |-> "held"]]
      /\ owner \in [Target -> OwnerRow]
  BY DEF Acquire, TypeOK
<1>2. owner[t].generation \in Nat
  BY <1>1 DEF OwnerRow
<1>3. CASE s = t
  <2>1. owner'[s].generation = owner[s].generation + 1
    BY <1>1, <1>3
  <2> QED BY <1>2, <1>3, <2>1 DEF OwnerMoves
<1>4. CASE s # t
  BY <1>1, <1>4 DEF OwnerMoves
<1> QED BY <1>3, <1>4

\* Giving a target back keeps its generation.
LEMMA ReleaseMoves ==
    ASSUME TypeOK, NEW t \in Target, Release(t), NEW s \in Target
    PROVE  OwnerMoves(s) /\ owner'[t].state = "released"
<1>1. owner' = [owner EXCEPT ![t].state = "released"] /\ owner \in [Target -> OwnerRow]
  BY DEF Release, TypeOK
<1>2. owner[t].generation \in Nat /\ owner[t] \in OwnerRow
  BY <1>1 DEF OwnerRow
<1>3. owner'[t] = [owner[t] EXCEPT !.state = "released"]
  BY <1>1
<1>4. owner'[t].generation = owner[t].generation /\ owner'[t].state = "released"
  BY <1>2, <1>3 DEF OwnerRow
<1>5. CASE s = t
  BY <1>2, <1>4, <1>5 DEF OwnerMoves
<1>6. CASE s # t
  BY <1>1, <1>6 DEF OwnerMoves
<1> QED BY <1>4, <1>5, <1>6

\* An operation whose rows stay keeps what EndInv says of it, whatever happens to its target.
LEMMA EndKept ==
    ASSUME IInv, FactInv, NEW o \in Op, box'[o] = box[o], acked'[o] = acked[o],
           terminal'[o] = terminal[o], attempt'[o] = attempt[o], dom'[o] = dom[o],
           o \in refusal' => o \in refusal, OwnerMoves(TargetOf(o))
    PROVE  EndOf(o)'
<1>1. /\ terminal[o] # "none" => /\ box[o] # <<>> /\ acked[o] = Len(box[o])
                                 /\ terminal[o] = LastState(box[o])
      /\ o \in refusal => attempt[o] = 0 /\ dom[o] = <<>> /\ terminal[o] = "none"
      /\ attempt[o] <= owner[TargetOf(o)].generation
      /\ attempt[o] # 0 /\ terminal[o] # "none" => ~ OwnedBy(o)
  BY DEF FactInv, EndInv, EndOf
<1>2. attempt[o] \in Nat /\ owner[TargetOf(o)].generation \in Nat
  BY DEF IInv, TypeOK, OwnerRow, Op, TargetOf
<1>3. LastState(box'[o]) = LastState(box[o])
  OBVIOUS
<1>4. attempt'[o] <= owner'[TargetOf(o)].generation
  BY <1>1, <1>2 DEF OwnerMoves
<1>5. attempt'[o] # 0 /\ terminal'[o] # "none" => ~ OwnedBy(o)'
  <2>1. CASE owner'[TargetOf(o)] = owner[TargetOf(o)]
    BY <1>1, <2>1 DEF OwnedBy
  <2>2. CASE owner'[TargetOf(o)].state # "held"
    BY <2>2 DEF OwnedBy
  <2>3. CASE /\ owner'[TargetOf(o)].generation \in Nat
             /\ owner'[TargetOf(o)].generation > owner[TargetOf(o)].generation
    <3>1. owner'[TargetOf(o)].generation # attempt'[o]
      BY <1>1, <1>2, <2>3
    <3> QED BY <3>1 DEF OwnedBy
  <2> QED BY <2>1, <2>2, <2>3 DEF OwnerMoves
<1> QED BY <1>1, <1>3, <1>4, <1>5 DEF EndOf

\* What a finished operation and a local refusal say stays true.
LEMMA EndStep ==
    ASSUME IInv, FactInv, [Next]_vars
    PROVE  EndInv'
<1>0. /\ TypeOK /\ BoxInv /\ CallInv /\ DeliveryInv /\ EndInv
      /\ \A o \in Op : /\ TargetOf(o) \in Target
                       /\ box[o] \in Seq(Doc) /\ Len(box[o]) \in Nat
                       /\ dom[o] \in Seq(Doc) /\ Len(dom[o]) \in Nat
                       /\ acked[o] \in Nat /\ attempt[o] \in Nat
                       /\ owner[TargetOf(o)].generation \in Nat
  <2>1. /\ TypeOK /\ BoxInv /\ CallInv /\ DeliveryInv /\ EndInv
    BY DEF IInv, FactInv
  <2>2. \A o \in Op : TargetOf(o) \in Target
    BY DEF Op, TargetOf
  <2>3. \A o \in Op : /\ box[o] \in Seq(Doc) /\ dom[o] \in Seq(Doc)
                       /\ acked[o] \in Nat /\ attempt[o] \in Nat
    BY <2>1 DEF TypeOK
  <2>4. \A t \in Target : owner[t].generation \in Nat
    BY <2>1 DEF TypeOK, OwnerRow
  <2> QED BY <2>1, <2>2, <2>3, <2>4
<1>1. ASSUME UNCHANGED <<box, acked, terminal, attempt, dom>>, refusal' \subseteq refusal,
             \A t \in Target : OwnerMoves(t)
      PROVE  EndInv'
  BY <1>0, <1>1, EndKept DEF EndInv
<1>2. ASSUME owner' = owner PROVE \A t \in Target : OwnerMoves(t)
  BY <1>2 DEF OwnerMoves
<1>3. ASSUME NEW t \in Target, CaptureNext(t) PROVE EndInv'
  <2>1. UNCHANGED <<box, acked, terminal, attempt, dom, refusal>>
    BY <1>3, CaptureFrame
  <2>2. owner' = owner \/ Acquire(t, Poller) \/ Release(t)
    BY <1>3 DEF CaptureNext, CaptureClaim, CaptureRead, CaptureFreeze, CaptureAdmit,
         CaptureDecide, CaptureSettle, storeVars
  <2>3. \A s \in Target : OwnerMoves(s)
    BY <1>0, <1>2, <2>2, AcquireMoves, ReleaseMoves
  <2> QED BY <1>1, <2>1, <2>3
<1>4. ASSUME NEW p \in Op, Finish(p), UNCHANGED dom PROVE EndInv'
  <2>1. UNCHANGED <<box, acked, attempt, refusal, dom>>
    BY <1>4, FinishFrame
  <2>2. CASE ~ Finishable(p)
    BY <1>1, <1>2, <1>4, <2>1, <2>2 DEF Finish, storeVars
  <2>3. CASE Finishable(p)
    <3>1. /\ terminal' = [terminal EXCEPT ![p] = LastState(box[p])]
          /\ IF attempt[p] # 0 THEN Release(TargetOf(p)) ELSE UNCHANGED owner
      BY <1>4, <2>3 DEF Finish
    <3>2. \A s \in Target : OwnerMoves(s)
      BY <1>0, <1>2, <3>1, ReleaseMoves
    <3>3. /\ terminal'[p] = LastState(box[p])
          /\ \A o \in Op : o # p => terminal'[o] = terminal[o]
      BY <1>0, <3>1 DEF TypeOK
    <3>4. p \notin refusal
      <4>1. box[p] # <<>> /\ acked[p] = Len(box[p]) /\ acked[p] <= Len(dom[p])
        BY <1>0, <2>3 DEF Finishable, DeliveryInv
      <4>2. dom[p] # <<>>
        BY <1>0, <4>1
      <4> QED BY <1>0, <4>2 DEF EndInv, EndOf
    <3>5. attempt[p] # 0 => ~ OwnedBy(p)'
      BY <1>0, <3>1, ReleaseMoves DEF OwnedBy
    <3>6. attempt'[p] <= owner'[TargetOf(p)].generation
      <4>1. attempt[p] <= owner[TargetOf(p)].generation
        BY <1>0 DEF EndInv, EndOf
      <4> QED BY <1>0, <2>1, <3>2, <4>1 DEF OwnerMoves
    <3>7. EndOf(p)'
      BY <2>1, <2>3, <3>3, <3>4, <3>5, <3>6 DEF EndOf, Finishable
    <3>8. ASSUME NEW o \in Op, o # p PROVE EndOf(o)'
      BY <1>0, <2>1, <3>2, <3>3, <3>8, EndKept
    <3> QED BY <3>7, <3>8 DEF EndInv
  <2> QED BY <2>2, <2>3
<1>5. ASSUME NEW o \in Op,
             FinishCall(o) \/ SendSettled(o) \/ ObserveSettled(o) \/ PrepareSweep(o)
      PROVE  EndInv'
  BY <1>4, <1>5, FinishSteps
<1>6. ASSUME NEW p \in Op, FlushIngest(p) PROVE EndInv'
  <2>1. /\ UNCHANGED <<box, acked, attempt, terminal, owner>> /\ p \notin refusal
        /\ acked[p] < Len(box[p])
    BY <1>6 DEF FlushIngest, Pending
  <2>2. terminal[p] = "none"
    BY <1>0, <2>1 DEF EndInv, EndOf
  <2>3. \A o \in Op : o # p => dom'[o] = dom[o] /\ (o \in refusal' => o \in refusal)
    BY <1>0, <1>6 DEF FlushIngest, TypeOK
  <2>4. p \in refusal' => attempt[p] = 0 /\ dom'[p] = <<>>
    <3>1. p \in refusal' => /\ attempt[p] = 0 /\ dom' = dom
                            /\ box[p][acked[p] + 1].phase = "prepared"
                            /\ ~ (Len(dom[p]) > acked[p])
      BY <1>6, <2>1 DEF FlushIngest
    <3>2. attempt[p] = 0 /\ box[p][acked[p] + 1].phase = "prepared" => acked[p] = 0
      <4>1. SUFFICES ASSUME attempt[p] = 0, box[p][acked[p] + 1].phase = "prepared"
                     PROVE  acked[p] = 0
        OBVIOUS
      <4>2. box[p] = <<Prepared>> \/ box[p] = <<Prepared, RefusedDoc>>
        BY <1>0, <2>1, <4>1 DEF BoxInv
      <4>3. box[p] = <<Prepared, RefusedDoc>> => Len(box[p]) = 2 /\ box[p][2].phase = "refused"
        BY DEF RefusedDoc
      <4>4. box[p] = <<Prepared>> => Len(box[p]) = 1
        OBVIOUS
      <4> QED BY <1>0, <2>1, <4>1, <4>2, <4>3, <4>4
    <3>3. Len(dom[p]) = 0 => dom[p] = <<>>
      BY <1>0
    <3> QED BY <1>0, <3>1, <3>2, <3>3
  <2>5. EndOf(p)'
    BY <1>0, <2>1, <2>2, <2>4 DEF EndInv, EndOf
  <2>6. ASSUME NEW o \in Op, o # p PROVE EndOf(o)'
    BY <1>0, <1>2, <2>1, <2>3, <2>6, EndKept
  <2> QED BY <2>5, <2>6 DEF EndInv
<1>7. ASSUME NEW p \in Op, FlushAcknowledge(p) PROVE EndInv'
  <2>1. /\ UNCHANGED <<box, attempt, terminal, refusal, owner, dom>>
        /\ acked' = [acked EXCEPT ![p] = @ + 1] /\ acked[p] < Len(box[p])
    BY <1>0, <1>7 DEF FlushAcknowledge, CallInv
  <2>2. terminal[p] = "none"
    BY <1>0, <2>1 DEF EndInv, EndOf
  <2>3. \A o \in Op : o # p => acked'[o] = acked[o]
    BY <1>0, <2>1 DEF TypeOK
  <2>4. EndOf(p)'
    BY <1>0, <2>1, <2>2 DEF EndInv, EndOf
  <2>5. ASSUME NEW o \in Op, o # p PROVE EndOf(o)'
    BY <1>0, <1>2, <2>1, <2>3, <2>5, EndKept
  <2> QED BY <2>4, <2>5 DEF EndInv
<1>8. ASSUME NEW p \in Op, NEW d, Adds(p, d), \A t \in Target : OwnerMoves(t),
             \A o \in Op : o # p => attempt'[o] = attempt[o],
             p \in refusal => attempt'[p] = 0,
             attempt'[p] <= owner'[TargetOf(p)].generation
      PROVE  EndInv'
  <2>1. /\ UNCHANGED <<acked, terminal, refusal, dom>> /\ terminal[p] = "none"
        /\ \A o \in Op : o # p => box'[o] = box[o]
    BY <1>8 DEF Adds
  <2>2. EndOf(p)'
    BY <1>0, <1>8, <2>1 DEF EndInv, EndOf
  <2>3. ASSUME NEW o \in Op, o # p PROVE EndOf(o)'
    BY <1>0, <1>8, <2>1, <2>3, EndKept
  <2> QED BY <2>2, <2>3 DEF EndInv
<1>9. ASSUME NEW p \in Op, NEW d, Adds(p, d), UNCHANGED <<attempt, owner>> PROVE EndInv'
  BY <1>0, <1>2, <1>8, <1>9 DEF EndInv, EndOf
<1>10. ASSUME NEW o \in Op, PrepareSupersede(o) \/ SendRefuse(o) PROVE EndInv'
  <2>1. PICK l : Refuse(o, l)
    BY <1>10, RefusingSteps
  <2>2. UNCHANGED <<acked, attempt, terminal, refusal, owner, dom>>
    BY <2>1 DEF Refuse
  <2>3. Adds(o, RefusedDoc) \/ UNCHANGED box
    BY <1>10, <2>1, RefusingSteps, RefuseAdds
  <2> QED BY <1>1, <1>2, <1>9, <2>2, <2>3
<1>11. ASSUME NEW p \in Op, PrepareIntent(p) PROVE EndInv'
  <2>1. /\ UNCHANGED <<acked, attempt, terminal, refusal, owner, dom>>
        /\ box' = [box EXCEPT ![p] = <<Prepared>>] /\ p \notin Intended
    BY <1>11 DEF PrepareIntent
  <2>2. box[p] = <<>> /\ \A o \in Op : o # p => box'[o] = box[o]
    BY <1>0, <2>1 DEF BoxInv, TypeOK
  <2>3. EndOf(p)'
    BY <1>0, <2>1, <2>2 DEF EndInv, EndOf, OwnedBy
  <2>4. ASSUME NEW o \in Op, o # p PROVE EndOf(o)'
    BY <1>0, <1>2, <2>1, <2>2, <2>4, EndKept
  <2> QED BY <2>3, <2>4 DEF EndInv
<1>12. ASSUME NEW p \in Op, SendMark(p) PROVE EndInv'
  <2>1. /\ Adds(p, Marker) /\ attempt'[p] = owner[TargetOf(p)].generation + 1
        /\ \A o \in Op : o # p => attempt'[o] = attempt[o]
        /\ p \notin refusal
    BY <1>12, MarkAdds
  <2>2. Acquire(TargetOf(p), p)
    BY <1>12 DEF SendMark
  <2>3. \A t \in Target : OwnerMoves(t)
    BY <1>0, <2>2, AcquireMoves
  <2>4. owner'[TargetOf(p)].generation = owner[TargetOf(p)].generation + 1
    BY <1>0, <2>2 DEF Acquire, TypeOK
  <2> QED BY <1>0, <1>8, <2>1, <2>3, <2>4
<1>13. ASSUME NEW p \in Op, SendResponse(p) \/ ObserveOutputs(p) PROVE EndInv'
  <2>1. PICK d : Adds(p, d)
    BY <1>13, ObserveAdds, ResponseAdds
  <2>2. UNCHANGED <<attempt, owner>>
    BY <1>13 DEF SendResponse, ObserveOutputs
  <2> QED BY <1>9, <2>1, <2>2
<1>14. ASSUME NEW p \in Op, SendTransmit(p) PROVE EndInv'
  BY <1>1, <1>2, <1>14 DEF SendTransmit, storeVars
<1>15. ASSUME Quiet PROVE EndInv'
  BY <1>1, <1>2, <1>15 DEF Quiet
<1> QED BY <1>3, <1>5, <1>6, <1>7, <1>10, <1>11, <1>12, <1>13, <1>14, <1>15, QuietCall
    DEF Next, CallStep

--------------------------------------------------------------------------------
(* IntentInv and CaptureInv                                                     *)

\* A step of a call records no policy and takes no capture; only a preparation records
\* an intent, and the call stays what it is until it ends.
LEMMA CallFrame ==
    ASSUME IInv, CallStep
    PROVE  /\ UNCHANGED <<policy, captureVars>>
           /\ call'.kind \in {call.kind, "idle"}
           /\ intent' = intent \/ \E o \in Op : PrepareIntent(o)
<1>0. call \in CallRecord /\ Idle.kind = "idle"
  BY DEF IInv, TypeOK, Idle
<1>1. ASSUME call' = Idle PROVE call'.kind \in {call.kind, "idle"}
  BY <1>0, <1>1
<1>2. ASSUME \/ \E l : call' = [call EXCEPT !.at = l]
             \/ \E l, o : call' = [call EXCEPT !.at = l, !.victim = o]
             \/ \E g : call' = [call EXCEPT !.got = g]
             \/ \E g, f : call' = [call EXCEPT !.got = g, !.fresh = f]
             \/ \E l, f : call' = [call EXCEPT !.at = l, !.fresh = f]
             \/ call' = call
      PROVE  call'.kind \in {call.kind, "idle"}
  BY <1>0, <1>2 DEF CallRecord
<1>3. ASSUME NEW o \in Op,
             FinishCall(o) \/ SendSettled(o) \/ ObserveSettled(o) \/ PrepareSweep(o)
      PROVE  /\ UNCHANGED <<policy, captureVars, intent>>
             /\ call'.kind \in {call.kind, "idle"}
  BY <1>1, <1>2, <1>3, FinishSteps, FinishFrame
<1>4. ASSUME NEW o \in Op, FlushIngest(o)
      PROVE  /\ UNCHANGED <<policy, captureVars, intent>>
             /\ call'.kind \in {call.kind, "idle"}
  <2>1. call' = call \/ \E g : call' = [call EXCEPT !.got = g]
    BY <1>4 DEF FlushIngest
  <2> QED BY <1>2, <1>4, <2>1 DEF FlushIngest
<1>5. ASSUME NEW o \in Op, FlushAcknowledge(o)
      PROVE  /\ UNCHANGED <<policy, captureVars, intent>>
             /\ call'.kind \in {call.kind, "idle"}
  <2>1. \E g, f : call' = [call EXCEPT !.got = g, !.fresh = f]
    BY <1>5 DEF FlushAcknowledge
  <2> QED BY <1>2, <1>5, <2>1 DEF FlushAcknowledge
<1>6. ASSUME NEW o \in Op, PrepareSupersede(o) \/ SendRefuse(o)
      PROVE  /\ UNCHANGED <<policy, captureVars, intent>>
             /\ call'.kind \in {call.kind, "idle"}
  <2>1. PICK l : Refuse(o, l)
    BY <1>6, RefusingSteps
  <2> QED BY <1>2, <2>1 DEF Refuse
<1>7. ASSUME NEW o \in Op, SendMark(o) \/ SendTransmit(o) \/ ObserveOutputs(o)
      PROVE  /\ UNCHANGED <<policy, captureVars, intent>>
             /\ call'.kind \in {call.kind, "idle"}
  <2>1. (\E l : call' = [call EXCEPT !.at = l]) \/ \E l, f : call' = [call EXCEPT !.at = l, !.fresh = f]
    BY <1>7 DEF SendMark, SendTransmit, ObserveOutputs, Goto
  <2> QED BY <1>2, <1>7, <2>1 DEF SendMark, SendTransmit, ObserveOutputs, storeVars
<1>8. ASSUME NEW o \in Op, SendResponse(o)
      PROVE  /\ UNCHANGED <<policy, captureVars, intent>>
             /\ call'.kind \in {call.kind, "idle"}
  <2>1. \E l : call' = [call EXCEPT !.at = l]
    BY <1>8 DEF SendResponse, Goto
  <2> QED BY <1>2, <1>8, <2>1 DEF SendResponse
<1>9. ASSUME NEW o \in Op, PrepareIntent(o)
      PROVE  /\ UNCHANGED <<policy, captureVars>>
             /\ call'.kind \in {call.kind, "idle"}
  <2>1. call' = [call EXCEPT !.at = "admitted"]
    BY <1>9 DEF PrepareIntent, Goto
  <2> QED BY <1>2, <1>9, <2>1 DEF PrepareIntent
<1>10. CASE PrepareReturn
  BY <1>1, <1>10 DEF PrepareReturn, Return, storeVars
<1> QED BY <1>3, <1>4, <1>5, <1>6, <1>7, <1>8, <1>9, <1>10 DEF CallStep

\* An intent keeps the policy and the decision it was recorded with.
LEMMA IntentStep ==
    ASSUME IInv, FactInv, [Next]_vars
    PROVE  IntentInv'
<1>0. /\ policy \in Seq([enabled : BOOLEAN, targets : SUBSET Target])
      /\ Len(policy) \in Nat /\ Idle.kind = "idle" /\ call \in CallRecord /\ IntentInv
      /\ intent \in [Op -> [revision : Nat, generation : Nat]]
  BY DEF IInv, FactInv, TypeOK, Idle
<1>1. ASSUME UNCHANGED <<policy, intent>>, decided \subseteq decided',
             call'.kind = "prepare" => Generation > 0 /\ policy[Generation].enabled
      PROVE  IntentInv'
  BY <1>0, <1>1 DEF IntentInv, Intended, AuditIntent, Generation
<1>2. ASSUME UNCHANGED <<policy, intent, decided>>, call'.kind \in {call.kind, "idle"}
      PROVE  IntentInv'
  BY <1>0, <1>1, <1>2 DEF IntentInv
<1>3. ASSUME NEW t \in Target, CaptureNext(t) PROVE IntentInv'
  <2>1. UNCHANGED <<policy, intent, call>>
    BY <1>3, CaptureFrame
  <2>2. decided \subseteq decided'
    BY <1>3 DEF CaptureNext, CaptureClaim, CaptureRead, CaptureFreeze, CaptureAdmit,
       CaptureDecide, CaptureSettle
  <2> QED BY <1>0, <1>1, <2>1, <2>2 DEF IntentInv
<1>4. CASE ProviderNext
  BY <1>2, <1>4, ProviderFrame DEF storeVars, captureVars
<1>5. ASSUME NEW e \in BOOLEAN, NEW ts \in SUBSET Target, SetWritePolicy(e, ts)
      PROVE  IntentInv'
  <2>1. /\ policy' = Append(policy, [enabled |-> e, targets |-> ts]) /\ call = Idle
        /\ UNCHANGED <<intent, decided, call>>
    BY <1>5 DEF SetWritePolicy, captureVars
  <2>2. /\ Len(policy') = Len(policy) + 1
        /\ \A i \in 1..Len(policy) : policy'[i] = policy[i] /\ i \in 1..Len(policy')
    BY <1>0, <2>1
  <2>3. call'.kind # "prepare"
    BY <1>0, <2>1
  <2> QED BY <1>0, <2>1, <2>2, <2>3 DEF IntentInv, Intended, AuditIntent, Generation
<1>6. CASE BeginNext
  <2>1. UNCHANGED <<policy, intent, decided>>
    BY <1>6 DEF BeginNext, BeginPrepare, BeginSend, BeginObserve, Begin, storeVars, captureVars
  <2>2. call'.kind = "prepare" => Generation > 0 /\ policy[Generation].enabled
    <3>1. ASSUME NEW o \in Op, BeginSend(o) \/ BeginObserve(o) PROVE call'.kind # "prepare"
      BY <3>1 DEF BeginSend, BeginObserve, Begin, Idle
    <3> QED BY <1>6, <3>1 DEF BeginNext, BeginPrepare
  <2> QED BY <1>1, <2>1, <2>2
<1>7. ASSUME NEW o \in Op, PrepareIntent(o) PROVE IntentInv'
  <2>1. /\ intent' = [intent EXCEPT ![o] = [revision |-> LedgerRevision(TargetOf(o)) + 1,
                                            generation |-> Generation]]
        /\ call.kind = "prepare" /\ o \in decided
        /\ TargetOf(o) \in policy[Generation].targets
        /\ UNCHANGED <<policy, decided>>
        /\ call' = [call EXCEPT !.at = "admitted"]
    BY <1>7 DEF PrepareIntent, Flushed, captureVars, Goto
  <2>2. Generation > 0 /\ policy[Generation].enabled /\ Generation \in 1..Generation
    BY <1>0, <2>1 DEF IntentInv, Generation
  <2>3. intent'[o].generation = Generation
    BY <1>0, <2>1
  <2>4. \A p \in Op : p # o => intent'[p] = intent[p]
    BY <1>0, <2>1
  <2>5. AuditIntent(o)'
    BY <2>1, <2>2, <2>3 DEF AuditIntent, Generation
  <2>6. ASSUME NEW p \in Op, p # o, p \in Intended' PROVE AuditIntent(p)'
    BY <1>0, <2>1, <2>4, <2>6 DEF IntentInv, Intended, AuditIntent, Generation
  <2>7. ASSUME NEW p \in Intended' PROVE AuditIntent(p)'
    BY <2>5, <2>6, <2>7 DEF Intended
  <2> QED BY <2>1, <2>2, <2>7 DEF IntentInv, Generation
<1>8. CASE CallStep
  BY <1>2, <1>7, <1>8, CallFrame DEF captureVars
<1>9. CASE Fail
  BY <1>0, <1>2, <1>9 DEF Fail, Return, storeVars, captureVars
<1>10. CASE UNCHANGED vars
  BY <1>2, <1>10 DEF vars, storeVars, captureVars
<1> QED BY <1>3, <1>4, <1>5, <1>6, <1>8, <1>9, <1>10 DEF Next

\* A capture enters the ledger after it was frozen, a decision with its capture.
LEMMA CaptureStep ==
    ASSUME IInv, FactInv, [Next]_vars
    PROVE  CaptureInv'
<1>0. /\ CaptureInv
      /\ \A t \in Target : seq[t] \in Nat /\ domCapture[t] \in Nat
      /\ \A o \in Op : TargetOf(o) \in Target /\ SeqOf(o) \in Nat
      /\ decided \subseteq Op
      /\ seq \in [Target -> 0..MaxCapture] /\ domCapture \in [Target -> 0..MaxCapture]
  <2>1. \A o \in Op : TargetOf(o) \in Target /\ SeqOf(o) \in Nat
    BY ConstantsAssumption DEF Op, TargetOf, SeqOf
  <2> QED BY <2>1, ConstantsAssumption DEF IInv, FactInv, TypeOK
<1>1. ASSUME UNCHANGED <<seq, domCapture, decided>> PROVE CaptureInv'
  BY <1>0, <1>1 DEF CaptureInv
<1>2. ASSUME NEW t \in Target, CaptureFreeze(t) PROVE CaptureInv'
  <2>1. seq' = [seq EXCEPT ![t] = @ + 1] /\ UNCHANGED <<domCapture, decided>>
    BY <1>2 DEF CaptureFreeze
  <2>2. \A s \in Target : seq'[s] = seq[s] \/ seq'[s] = seq[s] + 1
    BY <1>0, <2>1
  <2>3. \A s \in Target : domCapture[s] <= seq'[s]
    BY <1>0, <2>2 DEF CaptureInv
  <2> QED BY <1>0, <2>1, <2>3 DEF CaptureInv
<1>3. ASSUME NEW t \in Target, CaptureAdmit(t) \/ CaptureDecide(t) PROVE CaptureInv'
  <2>1. /\ domCapture' = [domCapture EXCEPT ![t] = seq[t]] /\ seq' = seq
        /\ decided' \subseteq decided \cup {<<t, seq[t]>>}
    BY <1>3 DEF CaptureAdmit, CaptureDecide
  <2>2. domCapture'[t] = seq[t] /\ \A s \in Target : s # t => domCapture'[s] = domCapture[s]
    BY <1>0, <2>1
  <2>3. \A s \in Target : domCapture[s] <= domCapture'[s] /\ domCapture'[s] <= seq'[s]
    BY <1>0, <2>1, <2>2 DEF CaptureInv
  <2>4. ASSUME NEW o \in decided PROVE SeqOf(o) <= domCapture'[TargetOf(o)]
    BY <1>0, <2>2, <2>3 DEF CaptureInv
  <2>5. TargetOf(<<t, seq[t]>>) = t /\ SeqOf(<<t, seq[t]>>) = seq[t]
    BY DEF TargetOf, SeqOf
  <2> QED BY <1>0, <2>1, <2>2, <2>3, <2>4, <2>5 DEF CaptureInv
<1>4. ASSUME NEW t \in Target, CaptureNext(t) PROVE CaptureInv'
  BY <1>1, <1>2, <1>3, <1>4 DEF CaptureNext, CaptureClaim, CaptureRead, CaptureSettle
<1>5. CASE CallStep
  BY <1>1, <1>5, CallFrame DEF captureVars
<1>6. ASSUME Quiet PROVE CaptureInv'
  BY <1>1, <1>6 DEF Quiet, captureVars
<1> QED BY <1>4, <1>5, <1>6, QuietSteps DEF Next

--------------------------------------------------------------------------------
(* ProgressInv                                                                  *)

\* A step that changes the facts of one prepared operation at most, and copies what they
\* say into its progress row, keeps every row in agreement.
LEMMA ProgressSync ==
    ASSUME IInv, FactInv, NEW o \in Op, Sync(o), o \in Intended',
           \A p \in Op : p # o => /\ box'[p] = box[p] /\ acked'[p] = acked[p]
                                  /\ attempt'[p] = attempt[p] /\ terminal'[p] = terminal[p]
                                  /\ p \in refusal' <=> p \in refusal
                                  /\ intent'[p] = intent[p]
    PROVE  ProgressInv'
<1>0. ProgressInv /\ progress \in [Op -> ProgressRow]
  BY DEF IInv, FactInv, TypeOK
<1>1. /\ progress'[o] = Expected(o)'
      /\ \A p \in Op : p # o => progress'[p] = progress[p]
  BY <1>0 DEF Sync
<1>2. ASSUME NEW p \in Op, p # o
      PROVE  progress'[p] = IF p \in Intended' THEN Expected(p)' ELSE NoProgress
  <2>1. Expected(p)' = Expected(p)
    BY <1>2 DEF Expected
  <2>2. p \in Intended' <=> p \in Intended
    BY <1>2 DEF Intended
  <2> QED BY <1>0, <1>1, <1>2, <2>1, <2>2 DEF ProgressInv
<1> QED BY <1>1, <1>2 DEF ProgressInv

\* The row of every operation is what its facts say: sync is part of every transaction.
LEMMA ProgressStep ==
    ASSUME IInv, FactInv, [Next]_vars
    PROVE  ProgressInv'
<1>0. TypeOK /\ BoxInv /\ CallInv
  BY DEF IInv
<1>1. ASSUME UNCHANGED <<intent, box, acked, attempt, terminal, refusal, progress>>
      PROVE  ProgressInv'
  BY <1>1 DEF FactInv, ProgressInv, Intended, Expected
<1>2. ASSUME NEW t \in Target, CaptureNext(t) PROVE ProgressInv'
  BY <1>1, <1>2, CaptureFrame
<1>3. ASSUME NEW o \in Op, Finish(o) PROVE ProgressInv'
  <2>1. CASE Finishable(o)
    <3>1. UNCHANGED <<intent, box, acked, attempt, refusal>> /\ Sync(o)
      BY <1>3, <2>1 DEF Finish
    <3>2. \A p \in Op : p # o => terminal'[p] = terminal[p]
      BY <1>3, FinishFrame
    <3>3. o \in Intended'
      BY <2>1, <3>1 DEF Finishable, Intended
    <3> QED BY <3>1, <3>2, <3>3, ProgressSync
  <2>2. CASE ~ Finishable(o)
    BY <1>1, <1>3, <2>2 DEF Finish, storeVars
  <2> QED BY <2>1, <2>2
<1>4. ASSUME NEW o \in Op,
             FinishCall(o) \/ SendSettled(o) \/ ObserveSettled(o) \/ PrepareSweep(o)
      PROVE  ProgressInv'
  BY <1>3, <1>4, FinishSteps
<1>5. ASSUME NEW o \in Op, FlushIngest(o) PROVE ProgressInv'
  <2>1. /\ UNCHANGED <<intent, box, acked, attempt, terminal>> /\ o \in Intended
        /\ \/ UNCHANGED <<refusal, progress>>
           \/ refusal' = refusal \cup {o} /\ Sync(o)
    BY <1>5 DEF FlushIngest, Pending
  <2>2. o \in Intended'
    BY <2>1 DEF Intended
  <2> QED BY <1>1, <2>1, <2>2, ProgressSync
<1>6. ASSUME NEW o \in Op, FlushAcknowledge(o) PROVE ProgressInv'
  <2>1. /\ UNCHANGED <<intent, box, attempt, terminal, refusal>> /\ Sync(o)
        /\ acked' = [acked EXCEPT ![o] = @ + 1] /\ acked[o] < Len(box[o])
    BY <1>0, <1>6 DEF FlushAcknowledge, CallInv
  <2>2. \A p \in Op : p # o => acked'[p] = acked[p]
    BY <1>0, <2>1 DEF TypeOK
  <2>3. box[o] # <<>>
    BY <1>0, <2>1 DEF TypeOK
  <2>4. o \in Intended'
    BY <1>0, <2>1, <2>3 DEF BoxInv, Intended
  <2> QED BY <2>1, <2>2, <2>4, ProgressSync
<1>7. ASSUME NEW o \in Op, o \in Intended, Sync(o), UNCHANGED <<intent, acked, terminal, refusal>>,
             \A p \in Op : p # o => attempt'[p] = attempt[p] /\ box'[p] = box[p]
      PROVE  ProgressInv'
  <2>1. o \in Intended'
    BY <1>7 DEF Intended
  <2> QED BY <1>7, <2>1, ProgressSync
<1>8. ASSUME NEW o \in Op, PrepareSupersede(o) \/ SendRefuse(o) PROVE ProgressInv'
  <2>1. PICK l : Refuse(o, l)
    BY <1>8, RefusingSteps
  <2>2. o \in Intended
    BY <1>8, RefusingSteps
  <2>3. UNCHANGED <<intent, acked, attempt, terminal, refusal>> /\ Sync(o)
    BY <2>1 DEF Refuse
  <2>4. \A p \in Op : p # o => box'[p] = box[p]
    BY <1>0, <2>1 DEF Refuse, TypeOK
  <2> QED BY <1>7, <2>2, <2>3, <2>4
<1>9. ASSUME NEW o \in Op, PrepareIntent(o) PROVE ProgressInv'
  <2>1. /\ intent' = [intent EXCEPT ![o] = [revision |-> LedgerRevision(TargetOf(o)) + 1,
                                            generation |-> Generation]]
        /\ box' = [box EXCEPT ![o] = <<Prepared>>]
        /\ UNCHANGED <<acked, attempt, terminal, refusal>> /\ Sync(o)
    BY <1>9 DEF PrepareIntent
  <2>2. \A p \in Op : p # o => intent'[p] = intent[p] /\ box'[p] = box[p]
    BY <1>0, <2>1 DEF TypeOK
  <2>3. intent'[o].revision = LedgerRevision(TargetOf(o)) + 1
    BY <1>0, <2>1 DEF TypeOK
  <2>4. LedgerRevision(TargetOf(o)) \in Nat
    BY <1>0, RevisionType DEF Op, TargetOf
  <2>5. intent'[o] # NoIntent
    BY <2>3, <2>4 DEF NoIntent
  <2> QED BY <2>1, <2>2, <2>5, ProgressSync DEF Intended
<1>10. ASSUME NEW o \in Op, SendMark(o) \/ SendResponse(o) \/ ObserveOutputs(o) PROVE ProgressInv'
  <2>1. PICK d : Adds(o, d)
    BY <1>10, MarkAdds, ResponseAdds, ObserveAdds
  <2>2. \A p \in Op : p # o => attempt'[p] = attempt[p]
    BY <1>10, MarkAdds, ResponseAdds, ObserveAdds
  <2>3. Sync(o)
    BY <1>10 DEF SendMark, SendResponse, ObserveOutputs
  <2> QED BY <1>7, <2>1, <2>2, <2>3 DEF Adds
<1>11. ASSUME NEW o \in Op, SendTransmit(o) PROVE ProgressInv'
  BY <1>1, <1>11 DEF SendTransmit, storeVars
<1>12. ASSUME Quiet PROVE ProgressInv'
  BY <1>1, <1>12 DEF Quiet
<1> QED BY <1>2, <1>4, <1>5, <1>6, <1>8, <1>9, <1>10, <1>11, <1>12, QuietSteps
    DEF Next, CallStep

--------------------------------------------------------------------------------
(* WireInv and TruthInv                                                         *)

\* Only the provider and the transmission change what the network and the provider know,
\* and an attempt is never taken back.
LEMMA WireFrame ==
    ASSUME IInv, [Next]_vars
    PROVE  /\ \/ UNCHANGED providerVars
              \/ ProviderNext /\ UNCHANGED storeVars
              \/ \E o \in Op : SendTransmit(o) /\ UNCHANGED storeVars
           /\ \A o \in Op : attempt[o] # 0 => attempt'[o] # 0
<1>0. attempt \in [Op -> Nat]
  BY DEF IInv, TypeOK
<1>1. ASSUME NEW t \in Target, CaptureNext(t) PROVE UNCHANGED <<providerVars, attempt>>
  BY <1>1, CaptureFrame
<1>2. ASSUME ProviderNext PROVE UNCHANGED storeVars
  BY <1>2, ProviderFrame
<1>3. ASSUME NEW o \in Op,
             FinishCall(o) \/ SendSettled(o) \/ ObserveSettled(o) \/ PrepareSweep(o)
      PROVE  UNCHANGED <<providerVars, attempt>>
  BY <1>3, FinishSteps, FinishFrame
<1>4. ASSUME NEW o \in Op, FlushIngest(o) \/ FlushAcknowledge(o) \/ PrepareIntent(o)
                           \/ SendResponse(o) \/ ObserveOutputs(o)
      PROVE  UNCHANGED <<providerVars, attempt>>
  BY <1>4 DEF FlushIngest, FlushAcknowledge, PrepareIntent, SendResponse, ObserveOutputs
<1>5. ASSUME NEW o \in Op, PrepareSupersede(o) \/ SendRefuse(o)
      PROVE  UNCHANGED <<providerVars, attempt>>
  BY <1>5 DEF PrepareSupersede, SendRefuse, Refuse
<1>6. ASSUME NEW o \in Op, SendMark(o)
      PROVE  UNCHANGED providerVars /\ \A p \in Op : attempt[p] # 0 => attempt'[p] # 0
  <2>1. UNCHANGED providerVars
    BY <1>6 DEF SendMark
  <2>2. attempt[o] = 0 /\ \A p \in Op : p # o => attempt'[p] = attempt[p]
    BY <1>6, MarkAdds
  <2> QED BY <2>1, <2>2
<1>7. ASSUME NEW o \in Op, SendTransmit(o) PROVE UNCHANGED storeVars
  BY <1>7 DEF SendTransmit
<1>8. ASSUME \/ \E e \in BOOLEAN, ts \in SUBSET Target : SetWritePolicy(e, ts)
             \/ BeginNext \/ Fail \/ PrepareReturn \/ UNCHANGED vars
      PROVE  UNCHANGED <<providerVars, attempt>>
  BY <1>8 DEF SetWritePolicy, BeginNext, BeginPrepare, BeginSend, BeginObserve, Begin, Fail,
     PrepareReturn, vars, storeVars
<1>9. UNCHANGED storeVars => attempt' = attempt
  BY DEF storeVars
<1> QED BY <1>1, <1>2, <1>3, <1>4, <1>5, <1>6, <1>7, <1>8, <1>9 DEF Next, CallStep

\* A request is sent once, answered once, and takes effect before it is answered.
LEMMA WireStep ==
    ASSUME IInv, FactInv, [Next]_vars
    PROVE  WireInv'
<1>0. /\ WireInv /\ wire \subseteq Op /\ sent \in [Op -> Nat]
      /\ reply \in [Op -> {"none", "success", "precondition_failed", "other_status"}]
  BY DEF IInv, FactInv, TypeOK
<1>1. ASSUME UNCHANGED providerVars, \A o \in Op : attempt[o] # 0 => attempt'[o] # 0
      PROVE  WireInv'
  BY <1>0, <1>1 DEF WireInv, WireOf, providerVars
<1>2. ASSUME NEW o \in Op, attempt' = attempt,
             \A p \in Op : p # o => /\ sent'[p] = sent[p] /\ reply'[p] = reply[p]
                                    /\ p \in wire' <=> p \in wire
                                    /\ p \in applied' <=> p \in applied,
             WireOf(o)'
      PROVE  WireInv'
  BY <1>0, <1>2 DEF WireInv, WireOf
<1>3. ASSUME NEW o \in Op, ProviderApply(o), attempt' = attempt PROVE WireInv'
  <2>1. PICK answer \in {"success", "other_status"} : reply' = [reply EXCEPT ![o] = answer]
    BY <1>3 DEF ProviderApply
  <2>2. o \in wire /\ wire' = wire \ {o} /\ applied' = applied \cup {o} /\ sent' = sent
    BY <1>3 DEF ProviderApply
  <2>3. reply'[o] = answer /\ \A p \in Op : p # o => reply'[p] = reply[p]
    BY <1>0, <2>1
  <2>4. WireOf(o)'
    BY <1>0, <1>3, <2>2, <2>3 DEF WireInv, WireOf
  <2> QED BY <1>2, <1>3, <2>2, <2>3, <2>4
<1>4. ASSUME NEW o \in Op, ProviderRefuse(o), attempt' = attempt PROVE WireInv'
  <2>1. PICK answer \in {"precondition_failed", "other_status"} :
           reply' = [reply EXCEPT ![o] = answer]
    BY <1>4 DEF ProviderRefuse
  <2>2. o \in wire /\ wire' = wire \ {o} /\ applied' = applied /\ sent' = sent
    BY <1>4 DEF ProviderRefuse
  <2>3. reply'[o] = answer /\ \A p \in Op : p # o => reply'[p] = reply[p]
    BY <1>0, <2>1
  <2>4. o \notin applied
    BY <1>0, <2>2 DEF WireInv, WireOf
  <2>5. WireOf(o)'
    BY <1>0, <1>4, <2>2, <2>3, <2>4 DEF WireInv, WireOf
  <2> QED BY <1>2, <1>4, <2>2, <2>3, <2>5
<1>5. ASSUME NEW t \in Target, RemoteEdit(t), attempt' = attempt PROVE WireInv'
  BY <1>0, <1>5 DEF RemoteEdit, WireInv, WireOf
<1>6. ASSUME NEW o \in Op, SendTransmit(o), attempt' = attempt PROVE WireInv'
  <2>1. sent[o] = 0 /\ attempt[o] # 0
    BY <1>6 DEF SendTransmit, Flushed, IInv, CallInv
  <2>2. wire' = wire \cup {o} /\ sent' = [sent EXCEPT ![o] = @ + 1] /\ UNCHANGED <<reply, applied>>
    BY <1>6 DEF SendTransmit
  <2>3. sent'[o] = 1 /\ \A p \in Op : p # o => sent'[p] = sent[p]
    BY <1>0, <2>1, <2>2
  <2>4. WireOf(o)'
    BY <1>0, <1>6, <2>1, <2>2, <2>3 DEF WireInv, WireOf
  <2> QED BY <1>2, <1>6, <2>2, <2>3, <2>4
<1>7. UNCHANGED storeVars => attempt' = attempt
  BY DEF storeVars
<1> QED BY <1>1, <1>3, <1>4, <1>5, <1>6, <1>7, WireFrame DEF ProviderNext

\* An answer is given once.
LEMMA AnsweredOnce ==
    ASSUME IInv, FactInv, [Next]_vars, NEW o \in Op
    PROVE  reply'[o] = reply[o] \/ reply[o] = "none"
<1>0. /\ WireInv
      /\ reply \in [Op -> {"none", "success", "precondition_failed", "other_status"}]
  BY DEF IInv, FactInv, TypeOK
<1>1. ASSUME NEW p \in Op, ProviderApply(p) \/ ProviderRefuse(p)
      PROVE  reply'[o] = reply[o] \/ reply[o] = "none"
  <2>1. PICK answer : reply' = [reply EXCEPT ![p] = answer]
    BY <1>1 DEF ProviderApply, ProviderRefuse
  <2>2. p \in wire
    BY <1>1 DEF ProviderApply, ProviderRefuse
  <2>3. reply[p] = "none"
    BY <1>0, <2>2 DEF WireInv, WireOf
  <2> QED BY <1>0, <2>1, <2>3
<1>2. reply' = reply \/ ProviderNext
  BY WireFrame DEF SendTransmit, providerVars
<1> QED BY <1>1, <1>2 DEF ProviderNext, RemoteEdit

\* What the documents of an operation say of the provider is what it answered.
LEMMA TruthStep ==
    ASSUME IInv, FactInv, [Next]_vars
    PROVE  TruthInv'
<1>0. /\ TruthInv /\ box \in [Op -> Seq(Doc)]
      /\ \A o \in Op : Len(box[o]) \in Nat
  BY DEF IInv, FactInv, TypeOK
<1>1. ASSUME NEW o \in Op, NEW d, TrueOf(o, d) PROVE TrueOf(o, d)'
  BY <1>1, AnsweredOnce DEF TrueOf
<1>2. ASSUME UNCHANGED box PROVE TruthInv'
  BY <1>0, <1>1, <1>2 DEF TruthInv
<1>3. ASSUME NEW o \in Op, NEW d, Adds(o, d), TrueOf(o, d) PROVE TruthInv'
  <2>1. /\ Len(box'[o]) = Len(box[o]) + 1 /\ box'[o][Len(box[o]) + 1] = d
        /\ \A i \in 1..Len(box[o]) : box'[o][i] = box[o][i]
        /\ \A p \in Op : p # o => box'[p] = box[p]
    BY <1>3 DEF Adds
  <2>2. \A i \in 1..Len(box'[o]) : i \in 1..Len(box[o]) \/ i = Len(box[o]) + 1
    BY <1>0, <2>1
  <2>3. ASSUME NEW i \in 1..Len(box'[o]) PROVE TrueOf(o, box'[o][i])
    BY <1>0, <1>3, <2>1, <2>2, <2>3 DEF TruthInv
  <2>4. ASSUME NEW p \in Op, p # o, NEW i \in 1..Len(box'[p]) PROVE TrueOf(p, box'[p][i])
    BY <1>0, <2>1, <2>4 DEF TruthInv
  <2>5. ASSUME NEW p \in Op, NEW i \in 1..Len(box'[p]) PROVE TrueOf(p, box'[p][i])
    BY <2>3, <2>4, <2>5
  <2>6. ASSUME NEW p \in Op, NEW i \in 1..Len(box'[p]) PROVE TrueOf(p, box[p][i])'
    <3>1. TrueOf(p, box'[p][i])
      BY <2>5, <2>6
    <3> DEFINE e == box'[p][i]
    <3>2. /\ e = [phase |-> "response", state |-> "awaiting_observation"] => reply[p] = "success"
          /\ e.state = "refused_no_effect" => reply[p] = "precondition_failed"
          /\ e.state = "observed_applied_at_t" => reply[p] = "success"
      BY <3>1 DEF TrueOf
    <3> HIDE DEF e
    <3>3. /\ e = [phase |-> "response", state |-> "awaiting_observation"] => reply'[p] = "success"
          /\ e.state = "refused_no_effect" => reply'[p] = "precondition_failed"
          /\ e.state = "observed_applied_at_t" => reply'[p] = "success"
      BY <3>2, AnsweredOnce
    <3> USE DEF e
    <3> QED BY <3>3 DEF TrueOf
  <2> QED BY <2>6 DEF TruthInv
<1>4. ASSUME NEW o \in Op PROVE TrueOf(o, Prepared) /\ TrueOf(o, Marker) /\ TrueOf(o, RefusedDoc)
  <2>1. /\ Prepared.state = "prepared" /\ Marker.state = "unknown" /\ RefusedDoc.state = "refused"
        /\ Prepared # [phase |-> "response", state |-> "awaiting_observation"]
        /\ Marker # [phase |-> "response", state |-> "awaiting_observation"]
        /\ RefusedDoc # [phase |-> "response", state |-> "awaiting_observation"]
    BY DEF Prepared, Marker, RefusedDoc
  <2> QED BY <2>1 DEF TrueOf
<1>5. ASSUME NEW o \in Op, PrepareSupersede(o) \/ SendRefuse(o) PROVE TruthInv'
  <2>1. Adds(o, RefusedDoc) \/ UNCHANGED box
    BY <1>5, RefusingSteps, RefuseAdds
  <2> QED BY <1>2, <1>3, <1>4, <2>1
<1>6. ASSUME NEW o \in Op, PrepareIntent(o) PROVE TruthInv'
  <2>1. box' = [box EXCEPT ![o] = <<Prepared>>] /\ UNCHANGED reply
    BY <1>6 DEF PrepareIntent, providerVars
  <2>2. box'[o] = <<Prepared>> /\ \A p \in Op : p # o => box'[p] = box[p]
    BY <1>0, <2>1
  <2>3. Len(box'[o]) = 1 /\ box'[o][1] = Prepared
    BY <2>2
  <2>4. \A i \in 1..Len(box'[o]) : TrueOf(o, box'[o][i])
    BY <1>4, <2>3
  <2>5. \A p \in Op : p # o => \A i \in 1..Len(box'[p]) : TrueOf(p, box'[p][i])
    BY <1>0, <2>2 DEF TruthInv
  <2>6. \A p \in Op : \A i \in 1..Len(box'[p]) : TrueOf(p, box'[p][i])
    BY <2>4, <2>5
  <2> QED BY <2>1, <2>6 DEF TruthInv, TrueOf
<1>7. ASSUME NEW o \in Op, SendMark(o) PROVE TruthInv'
  BY <1>3, <1>4, <1>7, MarkAdds
<1>8. ASSUME NEW o \in Op, SendResponse(o) PROVE TruthInv'
  <2>1. PICK d : /\ Adds(o, d) /\ Answers(d)
                 /\ d.state = "awaiting_observation" => reply[o] = "success"
                 /\ d.state = "refused_no_effect" => reply[o] = "precondition_failed"
    BY <1>8, ResponseAdds
  <2>2. TrueOf(o, d)
    BY <2>1 DEF TrueOf, Answers
  <2> QED BY <1>3, <2>1, <2>2
<1>9. ASSUME NEW o \in Op, ObserveOutputs(o) PROVE TruthInv'
  <2>1. LastState(box[o]) \in {"unknown", "awaiting_observation"}
    BY <1>9, ObserveAdds
  <2>2. PICK d : /\ Adds(o, d) /\ d.phase = "output_observed"
                 /\ \/ d.state = LastState(box[o])
                    \/ /\ d.state = "observed_applied_at_t"
                       /\ \E j \in 1..Len(box[o]) :
                             box[o][j] = [phase |-> "response", state |-> "awaiting_observation"]
    BY <1>9, ObserveAdds
  <2>3. d.state = "observed_applied_at_t" => reply[o] = "success"
    BY <1>0, <2>1, <2>2 DEF TruthInv, TrueOf
  <2>4. d # [phase |-> "response", state |-> "awaiting_observation"]
    BY <2>2
  <2>5. d.state # "refused_no_effect"
    BY <2>1, <2>2
  <2>6. TrueOf(o, d)
    BY <2>3, <2>4, <2>5 DEF TrueOf
  <2> QED BY <1>3, <2>2, <2>6
<1> QED BY <1>2, <1>5, <1>6, <1>7, <1>8, <1>9, WriterSteps DEF BoxKept

--------------------------------------------------------------------------------
(* The facts and what follows from them                                         *)

\* Every step of every actor keeps what the audit, the reports and the delivery rest on.
THEOREM Facts == Spec => []FactInv
<1>1. Init => FactInv
  <2> SUFFICES ASSUME Init PROVE FactInv
    OBVIOUS
  <2>1. /\ ProtocolInv /\ WaitInv /\ TruthInv /\ WireInv
    BY DEF Init, ProtocolInv, WaitInv, TruthInv, WireInv, WireOf, Idle
  <2>2. DeliveryInv
    BY ConstantsAssumption DEF Init, DeliveryInv, Idle, NoGot
  <2>3. EndInv
    <3> SUFFICES ASSUME NEW o \in Op PROVE EndOf(o)
      BY DEF EndInv
    <3>1. terminal[o] = "none" /\ o \notin refusal /\ attempt[o] = 0
      BY DEF Init
    <3>2. owner[TargetOf(o)].generation = 0
      BY DEF Init, Op, TargetOf
    <3> QED BY <3>1, <3>2 DEF EndOf
  <2>4. Intended = {}
    BY DEF Init, Intended
  <2>5. IntentInv /\ ProgressInv
    BY <2>4 DEF Init, IntentInv, ProgressInv, Idle
  <2>6. CaptureInv
    BY DEF Init, CaptureInv
  <2> QED BY <2>1, <2>2, <2>3, <2>5, <2>6 DEF FactInv
<1>2. IInv /\ FactInv /\ [Next]_vars => FactInv'
  <2> SUFFICES ASSUME IInv, FactInv, [Next]_vars PROVE FactInv'
    OBVIOUS
  <2>1. ProtocolInv' /\ WaitInv' /\ DeliveryInv' /\ EndInv'
    BY ProtocolStep, WaitStep, DeliveryStep, EndStep
  <2>2. IntentInv' /\ CaptureInv' /\ ProgressInv' /\ WireInv' /\ TruthInv'
    BY IntentStep, CaptureStep, ProgressStep, WireStep, TruthStep
  <2> QED BY <2>1, <2>2 DEF FactInv
<1> QED BY <1>1, <1>2, Inductive, PTL DEF Spec

\* The audit that opens every call never refuses: at every point where a call can be cut
\* off the committed rows of both databases are what WriterStore._audit asks for.
THEOREM AuditsPass == Spec => []AuditPasses
<1>1. IInv /\ FactInv => AuditPasses
  <2> SUFFICES ASSUME IInv, FactInv, NEW o \in Op
               PROVE  IF o \in Intended
                      THEN /\ AuditIntent(o) /\ AuditOutbox(o) /\ AuditAttempt(o)
                           /\ AuditRefusal(o) /\ AuditTerminal(o) /\ AuditFence(o)
                           /\ AuditProgress(o)
                      ELSE /\ box[o] = <<>> /\ dom[o] = <<>> /\ attempt[o] = 0
                           /\ progress[o] = NoProgress
    BY DEF AuditPasses
  <2>0. /\ box[o] \in Seq(Doc) /\ Len(box[o]) \in Nat /\ dom[o] \in Seq(Doc)
        /\ Len(dom[o]) \in Nat /\ acked[o] \in Nat /\ attempt[o] \in Nat
        /\ o \in Intended <=> box[o] # <<>>
        /\ owner[TargetOf(o)].generation \in Nat
    <3>1. TargetOf(o) \in Target
      BY DEF Op, TargetOf
    <3> QED BY <3>1 DEF IInv, TypeOK, OwnerRow, BoxInv
  <2>1. /\ acked[o] <= Len(dom[o]) /\ Len(dom[o]) <= Len(box[o])
        /\ \A i \in 1..Len(dom[o]) : dom[o][i] = box[o][i]
    BY DEF FactInv, DeliveryInv
  <2>2. attempt[o] = 0 => box[o] \in {<<>>, <<Prepared>>, <<Prepared, RefusedDoc>>}
    BY DEF IInv, BoxInv
  <2>3. attempt[o] # 0 => Len(box[o]) >= 2 /\ box[o][1] = Prepared /\ box[o][2] = Marker
    BY DEF FactInv, ProtocolInv
  <2>4. EndOf(o)
    BY DEF FactInv, EndInv
  <2>5. CASE o \in Intended
    <3>1. AuditIntent(o)
      BY <2>5 DEF FactInv, IntentInv
    <3>2. box[o] # <<>> /\ box[o][1] = Prepared
      BY <2>0, <2>2, <2>3, <2>5
    <3>3. AuditOutbox(o)
      BY <2>1, <3>2 DEF AuditOutbox
    <3>4. AuditAttempt(o)
      <4>1. \A i \in 1..Len(box[o]) : box[o][i].phase = "send_started" => i = 2
        BY DEF IInv, BoxInv
      <4>2. attempt[o] # 0 => \E i \in 1..Len(box[o]) : box[o][i].phase = "send_started"
        BY <2>0, <2>3 DEF Marker
      <4>3. attempt[o] = 0 => \A i \in 1..Len(box[o]) : box[o][i].phase \in {"prepared", "refused"}
        <5>1. Prepared.phase = "prepared" /\ RefusedDoc.phase = "refused"
          BY DEF Prepared, RefusedDoc
        <5>2. ASSUME box[o] = <<Prepared, RefusedDoc>>
              PROVE  \A i \in 1..Len(box[o]) : box[o][i].phase \in {"prepared", "refused"}
          <6>1. Len(box[o]) = 2 /\ box[o][1] = Prepared /\ box[o][2] = RefusedDoc
            BY <5>2
          <6> QED BY <5>1, <6>1
        <5>3. ASSUME box[o] = <<Prepared>>
              PROVE  \A i \in 1..Len(box[o]) : box[o][i].phase \in {"prepared", "refused"}
          <6>1. Len(box[o]) = 1 /\ box[o][1] = Prepared
            BY <5>3
          <6> QED BY <5>1, <6>1
        <5> QED BY <2>2, <3>2, <5>2, <5>3
      <4> QED BY <4>1, <4>2, <4>3 DEF AuditAttempt
    <3>5. AuditRefusal(o)
      <4>1. dom[o] = <<>> => Len(dom[o]) = 0
        OBVIOUS
      <4>2. Len(dom[o]) = 0 => acked[o] = 0
        BY <2>0, <2>1
      <4> QED BY <2>4, <4>1, <4>2 DEF AuditRefusal, EndOf
    <3>6. AuditTerminal(o)
      BY <2>0, <2>4 DEF AuditTerminal, EndOf
    <3>7. AuditFence(o)
      BY DEF AuditFence, IInv, FenceInv
    <3>8. AuditProgress(o)
      BY <2>5 DEF AuditProgress, FactInv, ProgressInv
    <3> QED BY <2>5, <3>1, <3>3, <3>4, <3>5, <3>6, <3>7, <3>8
  <2>6. CASE o \notin Intended
    <3>1. box[o] = <<>> /\ Len(box[o]) = 0
      BY <2>0, <2>6
    <3>2. Len(dom[o]) = 0
      BY <2>0, <2>1, <3>1
    <3>3. attempt[o] = 0
      BY <2>3, <3>1
    <3>4. progress[o] = NoProgress
      BY <2>6 DEF FactInv, ProgressInv
    <3> QED BY <2>0, <2>6, <3>1, <3>2, <3>3, <3>4
  <2> QED BY <2>5, <2>6
<1> QED BY <1>1, Inductive, Facts, PTL

\* A finished operation has an answer, so nothing of it is under way when its target is
\* given back: an unanswered request cannot be settled by any document.
THEOREM ReleasedWhenSettled == Spec => []SettledBeforeRelease
<1>1. IInv /\ FactInv => SettledBeforeRelease
  <2> SUFFICES ASSUME IInv, FactInv, NEW o \in Op, o \in wire
               PROVE  attempt[o] # 0 /\ terminal[o] = "none"
    BY DEF SettledBeforeRelease
  <2>1. WireOf(o) /\ EndOf(o)
    BY DEF FactInv, WireInv, EndInv
  <2>2. attempt[o] # 0 /\ reply[o] = "none"
    BY <2>1 DEF WireOf
  <2>3. /\ Len(box[o]) \in Nat /\ Len(box[o]) >= 2
        /\ LastState(box[o]) \in {"unknown", "awaiting_observation"} \cup TERMINAL
        /\ LastState(box[o]) # "refused"
    BY <2>2, LastOfAttempt DEF FactInv
  <2>4. TrueOf(o, box[o][Len(box[o])])
    BY <2>3 DEF FactInv, TruthInv
  <2>5. LastState(box[o]) \notin TERMINAL
    BY <2>2, <2>3, <2>4 DEF TrueOf, LastState, TERMINAL
  <2>6. terminal[o] \in TERMINAL \cup {"none"}
    BY DEF IInv, TypeOK
  <2> QED BY <2>1, <2>2, <2>5, <2>6 DEF EndOf
<1> QED BY <1>1, Inductive, Facts, PTL

\* An operation reported as observed was applied by the provider; one reported as refused
\* was not, and is not on its way.
THEOREM ReportsAreTrue == Spec => []ReportsTruth
<1>1. IInv /\ FactInv => ReportsTruth
  <2> SUFFICES ASSUME IInv, FactInv, NEW o \in Op
               PROVE  /\ terminal[o] = "observed_applied_at_t" => o \in applied
                      /\ terminal[o] \in {"refused", "refused_no_effect"} \/ o \in refusal
                            => o \notin applied /\ o \notin wire
    BY DEF ReportsTruth
  <2>1. WireOf(o) /\ EndOf(o)
    BY DEF FactInv, WireInv, EndInv
  <2>2. box[o] \in Seq(Doc) /\ Len(box[o]) \in Nat
    BY DEF IInv, TypeOK
  <2>3. terminal[o] # "none" => /\ terminal[o] = LastState(box[o]) /\ Len(box[o]) >= 1
                                /\ TrueOf(o, box[o][Len(box[o])])
    <3>1. terminal[o] # "none" => terminal[o] = LastState(box[o]) /\ box[o] # <<>>
      BY <2>1 DEF EndOf
    <3>2. box[o] # <<>> => Len(box[o]) >= 1
      BY <2>2
    <3>3. Len(box[o]) >= 1 => TrueOf(o, box[o][Len(box[o])])
      BY <2>2 DEF FactInv, TruthInv
    <3> QED BY <3>1, <3>2, <3>3
  <2>4. terminal[o] = "observed_applied_at_t" => reply[o] = "success"
    BY <2>3 DEF TrueOf, LastState
  <2>5. terminal[o] = "refused_no_effect" => reply[o] = "precondition_failed"
    BY <2>3 DEF TrueOf, LastState
  <2>6. attempt[o] # 0 => LastState(box[o]) # "refused"
    BY LastOfAttempt DEF FactInv
  <2>7. terminal[o] = "refused" \/ o \in refusal => attempt[o] = 0
    BY <2>1, <2>3, <2>6 DEF EndOf
  <2> QED BY <2>1, <2>4, <2>5, <2>7 DEF WireOf
<1> QED BY <1>1, Inductive, Facts, PTL

\* The ledger accepts the next document it has not got of an operation that is under way.
LEMMA NextIsAllowed ==
    ASSUME IInv, FactInv, NEW o \in Op, Pending(o), Len(dom[o]) <= acked[o],
           NEW k, k = acked[o], k >= 1
    PROVE  StepAllowed(o, box[o][k + 1])
<1>0. /\ o \in Intended /\ o \notin refusal /\ acked[o] < Len(box[o])
      /\ box[o] \in Seq(Doc) /\ Len(box[o]) \in Nat /\ dom[o] \in Seq(Doc)
      /\ Len(dom[o]) \in Nat /\ k \in Nat
  BY DEF Pending, IInv, TypeOK
<1>1. /\ Len(dom[o]) = k /\ dom[o] # <<>> /\ k \in 1..Len(dom[o])
      /\ \A i \in 1..k : dom[o][i] = box[o][i]
  BY <1>0 DEF FactInv, DeliveryInv
<1>2. o \in decided
  BY <1>0 DEF FactInv, IntentInv, AuditIntent
<1> DEFINE last == dom[o][Len(dom[o])]
           d == box[o][k + 1]
           complete == \E i \in 1..Len(dom[o]) : dom[o][i] = [phase |-> "response",
                                                              state |-> "awaiting_observation"]
<1>3. last = box[o][k]
  BY <1>0, <1>1
<1>4. SUFFICES /\ last.state \notin TERMINAL
               /\ \/ d = Marker /\ last.phase = "prepared" /\ Latest(o)
                  \/ d = RefusedDoc /\ last.phase = "prepared"
                  \/ /\ d.phase = "response" /\ last.phase = "send_started"
                     /\ d.state \in {"unknown", "awaiting_observation", "refused_no_effect"}
                  \/ /\ d.phase = "output_observed"
                     /\ last.state \in {"unknown", "awaiting_observation"}
                     /\ \/ d.state = last.state
                        \/ d.state = "observed_applied_at_t" /\ complete
  BY <1>1, <1>2 DEF StepAllowed
<1>5. /\ Prepared.phase = "prepared" /\ Prepared.state \notin TERMINAL
      /\ Marker.phase = "send_started" /\ Marker.state \notin TERMINAL
  BY DEF Prepared, Marker, TERMINAL
<1>6. CASE attempt[o] = 0
  <2>1. box[o] \in {<<>>, <<Prepared>>, <<Prepared, RefusedDoc>>}
    BY <1>6 DEF IInv, BoxInv
  <2>2. Len(box[o]) >= 2
    BY <1>0
  <2>3. box[o] # <<>> /\ box[o] # <<Prepared>>
    <3>1. Len(<<>>) = 0 /\ Len(<<Prepared>>) = 1
      OBVIOUS
    <3>2. Len(box[o]) # 0 /\ Len(box[o]) # 1
      BY <1>0, <2>2
    <3> QED BY <3>1, <3>2
  <2>4. box[o] = <<Prepared, RefusedDoc>>
    BY <2>1, <2>3
  <2>5. Len(box[o]) = 2 /\ box[o][1] = Prepared /\ box[o][2] = RefusedDoc
    BY <2>4
  <2>6. k = 1
    BY <1>0, <2>5
  <2> QED BY <1>3, <1>5, <2>5, <2>6
<1>7. CASE attempt[o] # 0
  <2>1. /\ box[o][1] = Prepared /\ box[o][2] = Marker
        /\ \A i \in 3..Len(box[o]) : \/ i = 3 /\ Answers(box[o][i])
                                     \/ Observes(box[o], i)
    BY <1>7 DEF FactInv, ProtocolInv
  <2>2. CASE k = 1
    <3>1. terminal[o] = "none"
      <4>1. acked[o] # Len(box[o])
        BY <1>0
      <4> QED BY <4>1 DEF FactInv, EndInv, EndOf
    <3>2. domCapture[TargetOf(o)] = SeqOf(o)
      BY <1>7, <3>1 DEF IInv, FenceInv
    <3>3. Latest(o)
      BY <3>2 DEF Latest, FactInv, CaptureInv
    <3>4. d = Marker
      BY <2>1, <2>2
    <3> QED BY <1>3, <1>5, <2>1, <2>2, <3>3, <3>4
  <2>3. CASE k >= 2
    <3>1. k + 1 \in 3..Len(box[o]) /\ (k + 1) - 1 = k
      BY <1>0, <2>3
    <3>2. CASE k + 1 = 3 /\ Answers(d)
      <4>1. last = Marker
        BY <1>0, <1>3, <2>1, <3>2
      <4>2. /\ d.phase = "response"
            /\ d.state \in {"unknown", "awaiting_observation", "refused_no_effect"}
        BY <3>2 DEF Answers
      <4> HIDE DEF d, last, complete
      <4> QED BY <1>5, <4>1, <4>2
    <3>3. CASE Observes(box[o], k + 1)
      <4>1. /\ d.phase = "output_observed"
            /\ last.state \in {"unknown", "awaiting_observation"}
            /\ \/ d.state = last.state
               \/ /\ d.state = "observed_applied_at_t"
                  /\ \E j \in 1..k : box[o][j] = [phase |-> "response",
                                                  state |-> "awaiting_observation"]
        BY <1>3, <3>1, <3>3 DEF Observes
      <4>2. d.state = last.state \/ (d.state = "observed_applied_at_t" /\ complete)
        <5>1. ASSUME NEW j \in 1..k, box[o][j] = [phase |-> "response",
                                                 state |-> "awaiting_observation"]
              PROVE  complete
          <6>1. dom[o][j] = box[o][j] /\ j \in 1..Len(dom[o])
            BY <1>1
          <6> QED BY <5>1, <6>1
        <5> HIDE DEF d, last, complete
        <5> QED BY <4>1, <5>1
      <4> HIDE DEF d, last, complete
      <4> QED BY <4>1, <4>2 DEF TERMINAL
    <3>4. (k + 1 = 3 /\ Answers(d)) \/ Observes(box[o], k + 1)
      BY <2>1, <3>1
    <3> QED BY <3>2, <3>3, <3>4
  <2>4. k = 1 \/ k >= 2
    BY <1>0
  <2> QED BY <2>2, <2>3, <2>4
<1> QED BY <1>6, <1>7

\* A flush is never stuck for good: the document it has to deliver is known to the ledger,
\* accepted by it, or a preparation that may still be refused locally.
THEOREM DeliveryGoesOn == Spec => []DeliveryNeverStuck
<1>1. IInv /\ FactInv => DeliveryNeverStuck
  <2> SUFFICES ASSUME IInv, FactInv, NEW o \in Op, Pending(o)
               PROVE  \/ Len(dom[o]) > acked[o]
                      \/ StepAllowed(o, box[o][acked[o] + 1])
                      \/ box[o][acked[o] + 1].phase = "prepared" /\ attempt[o] = 0
    BY DEF DeliveryNeverStuck
  <2>1. acked[o] \in Nat /\ Len(dom[o]) \in Nat
    BY DEF IInv, TypeOK
  <2>2. CASE Len(dom[o]) > acked[o]
    BY <2>2
  <2>3. CASE Len(dom[o]) <= acked[o] /\ acked[o] >= 1
    BY <2>3, NextIsAllowed
  <2>4. CASE acked[o] = 0
    <3>1. attempt[o] = 0
      BY <2>4 DEF FactInv, ProtocolInv
    <3>2. box[o] \in {<<Prepared>>, <<Prepared, RefusedDoc>>}
      BY <3>1 DEF Pending, IInv, BoxInv
    <3>3. box[o][1] = Prepared
      BY <3>2
    <3> QED BY <2>4, <3>1, <3>3 DEF Prepared
  <2> QED BY <2>1, <2>2, <2>3, <2>4
<1> QED BY <1>1, Inductive, Facts, PTL

--------------------------------------------------------------------------------
(* CrmWriter implements WriteOnce.                                              *)

\* An operation is refused locally only after its intent was recorded, and an intent stays.
LEMMA RefusalStep ==
    ASSUME IInv, RefusalInv, [Next]_vars
    PROVE  RefusalInv'
<1>1. /\ refusal' = refusal \/ \E o \in Intended : refusal' = refusal \cup {o} /\ intent' = intent
  <2>1. ASSUME NEW t \in Target, CaptureNext(t) PROVE refusal' = refusal
    BY <2>1, CaptureFrame
  <2>2. ASSUME NEW o \in Op,
               FinishCall(o) \/ SendSettled(o) \/ ObserveSettled(o) \/ PrepareSweep(o)
        PROVE  refusal' = refusal
    BY <2>2, FinishSteps, FinishFrame
  <2>3. ASSUME NEW o \in Op, FlushIngest(o)
        PROVE  refusal' = refusal \/ (/\ o \in Intended /\ refusal' = refusal \cup {o}
                                     /\ intent' = intent)
    BY <2>3 DEF FlushIngest, Pending
  <2>4. ASSUME NEW o \in Op, FlushAcknowledge(o) \/ PrepareIntent(o) \/ SendResponse(o)
                             \/ ObserveOutputs(o) \/ SendMark(o) \/ SendTransmit(o)
        PROVE  refusal' = refusal
    BY <2>4 DEF FlushAcknowledge, PrepareIntent, SendResponse, ObserveOutputs, SendMark,
                SendTransmit, storeVars
  <2>5. ASSUME NEW o \in Op, PrepareSupersede(o) \/ SendRefuse(o) PROVE refusal' = refusal
    BY <2>5 DEF PrepareSupersede, SendRefuse, Refuse
  <2>6. CASE Quiet
    BY <2>6 DEF Quiet
  <2> QED BY <2>1, <2>2, <2>3, <2>4, <2>5, <2>6, QuietSteps DEF Next, CallStep
<1>2. Intended \subseteq Intended'
  <2>1. intent' = intent \/ \E o \in Op : PrepareIntent(o)
    <3>1. ASSUME NEW t \in Target, CaptureNext(t) PROVE intent' = intent
      BY <3>1, CaptureFrame
    <3>2. CASE Quiet
      BY <3>2 DEF Quiet
    <3> QED BY <3>1, <3>2, CallFrame, QuietSteps DEF Next
  <2>2. ASSUME NEW o \in Op, PrepareIntent(o) PROVE \A p \in Intended : intent'[p] = intent[p]
    BY <2>2 DEF PrepareIntent, Intended, IInv, TypeOK
  <2> QED BY <2>1, <2>2 DEF Intended
<1> QED BY <1>1, <1>2 DEF RefusalInv

\* The operations of one target are peers.
LEMMA PeersAre ==
    ASSUME NEW o \in Op
    PROVE  W!Peers(o) = {p \in Op : TargetOf(p) = TargetOf(o)}
BY DEF W!Peers

\* What is said of an operation hangs on four columns of its own.
LEMMA StatusStays ==
    ASSUME NEW o \in Op, intent'[o] = intent[o], terminal'[o] = terminal[o],
           o \in refusal' <=> o \in refusal, attempt'[o] = 0 <=> attempt[o] = 0
    PROVE  Status'[o] = Status[o] /\ Place'[o] = Place[o]
BY DEF Status, Place

\* A function over the operations that changes in one place.
LEMMA OneMoves ==
    ASSUME NEW o \in Op, \A p \in Op : p # o => Status'[p] = Status[p]
    PROVE  Status' = [Status EXCEPT ![o] = Status'[o]]
<1>1. Status' = [p \in Op |-> Status'[p]] /\ Status = [p \in Op |-> Status[p]]
  BY DEF Status
<1> QED BY <1>1

\* As long as neither network nor provider moves, requests and values stay.
LEMMA RequestsStay ==
    ASSUME UNCHANGED providerVars
    PROVE  Request' = Request /\ Value' = Value
BY DEF providerVars, Request, Value

\* Only a finish, a local refusal, an intent and a marker change what is said of an
\* operation.
LEMMA StoreStays ==
    ASSUME UNCHANGED <<intent, terminal, refusal, attempt>>
    PROVE  Status' = Status /\ Place' = Place
BY DEF Status, Place

\* A finished operation reports what became of its request; one that was never sent is
\* withdrawn.
LEMMA FinishMaps ==
    ASSUME IInv, FactInv, NEW o \in Op, Finish(o), UNCHANGED providerVars
    PROVE  W!Withdraw(o) \/ W!Settle(o) \/ UNCHANGED <<Status, Place, Request, Value>>
<1>0. /\ TypeOK /\ EndOf(o) /\ WireOf(o) /\ BoxInv
      /\ Request' = Request /\ Value' = Value
  BY RequestsStay DEF IInv, FactInv, EndInv, WireInv
<1>1. UNCHANGED <<intent, attempt, refusal>> /\ \A p \in Op : p # o => terminal'[p] = terminal[p]
  BY FinishFrame
<1>2. \A p \in Op : p # o => Status'[p] = Status[p]
  BY <1>1, StatusStays
<1>3. Place' = Place
  BY <1>1 DEF Place
<1>4. CASE ~ Finishable(o)
  BY <1>0, <1>3, <1>4, StoreStays DEF Finish, storeVars
<1>5. CASE Finishable(o)
  <2>1. /\ terminal'[o] = LastState(box[o]) /\ LastState(box[o]) \in TERMINAL
        /\ intent[o] # NoIntent /\ terminal[o] = "none"
    BY <1>0, <1>5 DEF Finish, Finishable, TypeOK, Intended
  <2>2. o \notin refusal
    <3>1. Len(box[o]) # 0 /\ acked[o] = Len(box[o])
      BY <1>0, <1>5 DEF Finishable, TypeOK
    <3>2. o \in refusal => acked[o] = 0
      BY DEF FactInv, EndInv, EndOf, DeliveryInv, IInv, TypeOK
    <3> QED BY <3>1, <3>2
  <2>3. Status'[o] = Disposition(LastState(box[o]))
    BY <1>1, <2>1 DEF Status, TERMINAL
  <2>4. Status' = [Status EXCEPT ![o] = Disposition(LastState(box[o]))]
    BY <1>2, <2>3, OneMoves
  <2>5. CASE attempt[o] = 0
    <3>1. box[o] \in {<<Prepared>>, <<Prepared, RefusedDoc>>}
      BY <1>0, <1>5, <2>5 DEF BoxInv, Finishable
    <3>2. LastState(box[o]) \in {"prepared", "refused"}
      BY <3>1 DEF LastState, Prepared, RefusedDoc
    <3>3. LastState(box[o]) = "refused"
      BY <2>1, <3>2 DEF TERMINAL
    <3>4. Status[o] = "ready"
      BY <2>1, <2>2, <2>5 DEF Status
    <3>5. Disposition(LastState(box[o])) = "withdrawn"
      BY <3>3 DEF Disposition
    <3> QED BY <1>0, <1>3, <2>4, <3>4, <3>5 DEF W!Withdraw
  <2>6. CASE attempt[o] # 0
    <3>1. Status[o] = "outstanding"
      BY <2>1, <2>2, <2>6 DEF Status
    <3>2. /\ Len(box[o]) \in Nat /\ Len(box[o]) >= 2 /\ LastState(box[o]) # "refused"
      BY <2>6, LastOfAttempt DEF FactInv
    <3>3. TrueOf(o, box[o][Len(box[o])])
      BY <3>2 DEF FactInv, TruthInv
    <3>4. \/ LastState(box[o]) = "observed_applied_at_t" /\ reply[o] = "success"
          \/ LastState(box[o]) = "refused_no_effect" /\ reply[o] = "precondition_failed"
      BY <2>1, <3>2, <3>3 DEF TrueOf, LastState, TERMINAL
    <3>5. Disposition(LastState(box[o])) = Request[o] /\ Request[o] \in W!Effect
      BY <1>0, <3>4 DEF Disposition, Request, WireOf, W!Effect
    <3> QED BY <1>0, <1>3, <2>4, <3>1, <3>5 DEF W!Settle
  <2> QED BY <2>5, <2>6
<1> QED BY <1>4, <1>5

\* A preparation that the ledger refuses withdraws its operation.
LEMMA IngestMaps ==
    ASSUME IInv, FactInv, NEW o \in Op, FlushIngest(o)
    PROVE  W!Withdraw(o) \/ UNCHANGED <<Status, Place, Request, Value>>
<1>0. /\ TypeOK /\ EndOf(o)
      /\ UNCHANGED <<intent, attempt, terminal, providerVars>>
      /\ Request' = Request /\ Value' = Value
  BY RequestsStay DEF IInv, FactInv, EndInv, FlushIngest
<1>1. CASE refusal' = refusal
  BY <1>0, <1>1, StoreStays
<1>2. CASE refusal' = refusal \cup {o} /\ attempt[o] = 0
  <2>1. /\ intent[o] # NoIntent /\ o \notin refusal /\ terminal[o] = "none"
    BY <1>0 DEF FlushIngest, Pending, Intended, EndOf, TypeOK
  <2>2. Status[o] = "ready" /\ Status'[o] = "withdrawn"
    BY <1>0, <1>2, <2>1 DEF Status
  <2>3. \A p \in Op : p # o => Status'[p] = Status[p]
    BY <1>0, <1>2, StatusStays
  <2>4. Status' = [Status EXCEPT ![o] = "withdrawn"]
    BY <2>2, <2>3, OneMoves
  <2>5. Place' = Place
    BY <1>0 DEF Place
  <2> QED BY <1>0, <2>2, <2>4, <2>5 DEF W!Withdraw
<1> QED BY <1>1, <1>2 DEF FlushIngest

\* Every intent of a target is of a capture that was frozen, so the newest capture is newer
\* than all of them.
LEMMA IntentsAreFrozen ==
    ASSUME IInv, FactInv, NEW p \in Op, intent[p] # NoIntent
    PROVE  SeqOf(p) <= seq[TargetOf(p)]
<1>1. p \in decided
  BY DEF FactInv, IntentInv, AuditIntent, Intended
<1>2. SeqOf(p) <= domCapture[TargetOf(p)] /\ domCapture[TargetOf(p)] <= seq[TargetOf(p)]
  BY <1>1 DEF FactInv, CaptureInv, Op, TargetOf
<1>3. SeqOf(p) \in Nat /\ domCapture[TargetOf(p)] \in Nat /\ seq[TargetOf(p)] \in Nat
  BY ConstantsAssumption DEF IInv, TypeOK, Op, TargetOf, SeqOf
<1> QED BY <1>2, <1>3

\* The capture and the target of an operation.
LEMMA SeqIs ==
    ASSUME NEW o \in Op
    PROVE  SeqOf(o) \in 1..MaxCapture /\ SeqOf(o) \in Nat /\ TargetOf(o) \in Target
BY ConstantsAssumption DEF Op, SeqOf, TargetOf

\* Two operations of one target are of different captures.
LEMMA SameCapture ==
    ASSUME NEW o \in Op, NEW p \in Op, TargetOf(p) = TargetOf(o), SeqOf(p) = SeqOf(o)
    PROVE  p = o
BY DEF Op, TargetOf, SeqOf

\* The operation of the newest capture is above all the others of its target.
LEMMA PlaceIs ==
    ASSUME IInv, FactInv, NEW o \in Op, seq[TargetOf(o)] = SeqOf(o), NEW p \in W!Peers(o)
    PROVE  /\ Place[p] <= SeqOf(o)
           /\ p # o => Place[p] < SeqOf(o)
<1>1. p \in Op /\ TargetOf(p) = TargetOf(o)
  BY PeersAre
<1>2. CASE intent[p] = NoIntent
  <2>1. Place[p] = 0
    BY <1>1, <1>2 DEF Place
  <2> QED BY <2>1, SeqIs
<1>3. CASE intent[p] # NoIntent
  <2>1. Place[p] = SeqOf(p)
    BY <1>1, <1>3 DEF Place
  <2>2. SeqOf(p) <= SeqOf(o)
    BY <1>1, <1>3, IntentsAreFrozen
  <2> QED BY <1>1, <2>1, <2>2, SameCapture, SeqIs
<1> QED BY <1>2, <1>3

\* An intent is recorded when nothing of its target is ready, for the newest capture.
LEMMA IntentMaps ==
    ASSUME IInv, FactInv, RefusalInv, NEW o \in Op, PrepareIntent(o)
    PROVE  W!Prepare(o)
<1>0. /\ TypeOK /\ FactInv /\ o \notin Intended /\ Newest(o) /\ Live(TargetOf(o)) = {}
      /\ intent' = [intent EXCEPT ![o] = [revision |-> LedgerRevision(TargetOf(o)) + 1,
                                          generation |-> Generation]]
      /\ UNCHANGED <<attempt, terminal, refusal, providerVars>>
      /\ Request' = Request /\ Value' = Value
  BY RequestsStay DEF IInv, PrepareIntent
<1>1. /\ attempt[o] = 0 /\ box[o] = <<>>
  BY <1>0 DEF IInv, BoxInv, FactInv, ProtocolInv
<1>2. terminal[o] = "none" /\ o \notin refusal
  <2>1. EndOf(o)
    BY <1>0 DEF FactInv, EndInv
  <2> QED BY <1>0, <1>1, <2>1 DEF EndOf, RefusalInv
<1>3. intent'[o] # NoIntent /\ \A p \in Op : p # o => intent'[p] = intent[p]
  <2>1. LedgerRevision(TargetOf(o)) \in Nat
    BY RevisionType, SeqIs DEF IInv
  <2> QED BY <1>0, <2>1 DEF TypeOK, NoIntent
<1>4. Status[o] = "none" /\ Status'[o] = "ready"
  BY <1>0, <1>1, <1>2, <1>3 DEF Status, Intended
<1>5. \A p \in Op : p # o => Status'[p] = Status[p] /\ Place'[p] = Place[p]
  BY <1>0, <1>3, StatusStays
<1>6. \A p \in W!Peers(o) : Status[p] # "ready"
  <2> SUFFICES ASSUME NEW p \in W!Peers(o), Status[p] = "ready" PROVE FALSE
    OBVIOUS
  <2>1. p \in Op /\ TargetOf(p) = TargetOf(o)
    BY PeersAre
  <2>2. intent[p] # NoIntent
    BY <2>1 DEF Status
  <2>3. terminal[p] = "none"
    BY <1>0, <2>1, <2>2 DEF Status, TypeOK, Disposition, TERMINAL
  <2>4. p \notin refusal
    BY <2>1, <2>2, <2>3 DEF Status
  <2> QED BY <1>0, <2>1, <2>2, <2>3, <2>4 DEF Live, Intended
<1>7. Status' = [p \in Op |-> IF p = o THEN "ready"
                              ELSE IF p \in W!Peers(o) /\ Status[p] = "ready" THEN "withdrawn"
                              ELSE Status[p]]
  <2>1. DOMAIN Status' = Op /\ Status' = [p \in Op |-> Status'[p]]
    BY DEF Status
  <2> QED BY <1>4, <1>5, <1>6, <2>1
<1>8. Place'[o] = SeqOf(o)
  BY <1>3 DEF Place
<1>9. Place' = [Place EXCEPT ![o] = SeqOf(o)]
  BY <1>5, <1>8 DEF Place
<1>10. \A p \in W!Peers(o) \ {o} : Place[p] < SeqOf(o)
  BY <1>0, PlaceIs DEF Newest
<1> QED BY <1>0, <1>4, <1>7, <1>9, <1>10, SeqIs DEF W!Prepare

\* The marker is set for the newest intent, and nothing of its target is outstanding.
LEMMA MarkMaps ==
    ASSUME IInv, FactInv, NEW o \in Op, SendMark(o)
    PROVE  W!Mark(o)
<1>0. /\ TypeOK /\ Untried(o) /\ Newest(o) /\ ~ Held(TargetOf(o)) /\ call.kind = "send" /\ call.op = o
      /\ UNCHANGED <<intent, terminal, refusal, providerVars>>
      /\ Request' = Request /\ Value' = Value
  BY RequestsStay DEF IInv, SendMark, Acquire, Flushed
<1>1. intent[o] # NoIntent
  BY <1>0 DEF IInv, CallInv, Intended
<1>2. attempt'[o] # 0 /\ \A p \in Op : p # o => attempt'[p] = attempt[p]
  BY <1>0, MarkAttempts
<1>3. Status[o] = "ready" /\ Status'[o] = "outstanding"
  BY <1>0, <1>1, <1>2 DEF Status, Untried
<1>4. \A p \in Op : p # o => Status'[p] = Status[p]
  BY <1>0, <1>2, StatusStays
<1>5. Status' = [Status EXCEPT ![o] = "outstanding"]
  BY <1>3, <1>4, OneMoves
<1>6. Place' = Place
  BY <1>0 DEF Place
<1>7. W!Newest(o)
  <2>1. Place[o] = SeqOf(o)
    BY <1>1 DEF Place
  <2> QED BY <1>0, <2>1, PlaceIs DEF W!Newest, Newest
<1>8. \A p \in W!Peers(o) : Status[p] # "outstanding"
  <2> SUFFICES ASSUME NEW p \in W!Peers(o), Status[p] = "outstanding" PROVE FALSE
    OBVIOUS
  <2>1. p \in Op /\ TargetOf(p) = TargetOf(o)
    BY PeersAre
  <2>2. attempt[p] # 0 /\ terminal[p] = "none"
    BY <1>0, <2>1 DEF Status, TypeOK, Disposition, TERMINAL
  <2>3. OwnedBy(p)
    BY <2>1, <2>2 DEF IInv, FenceInv
  <2>4. owner[TargetOf(p)].state = "held"
    BY <2>3 DEF OwnedBy
  <2> QED BY <1>0, <2>1, <2>4 DEF Held
<1> QED BY <1>0, <1>3, <1>5, <1>6, <1>7, <1>8 DEF W!Mark

\* The request goes out for an outstanding operation, once.
LEMMA TransmitMaps ==
    ASSUME IInv, FactInv, NEW o \in Op, SendTransmit(o)
    PROVE  W!Send(o)
<1>0. /\ TypeOK /\ WireOf(o) /\ Newest(o) /\ sent[o] = 0 /\ attempt[o] # 0
      /\ call.at = "marked" /\ call.op = o
      /\ wire' = wire \cup {o} /\ UNCHANGED <<remote, reply, applied, storeVars>>
      /\ Value' = Value /\ Status' = Status /\ Place' = Place
  BY StoreStays DEF IInv, CallInv, FactInv, WireInv, SendTransmit, Flushed, storeVars, Value
<1>1. o \notin wire /\ reply[o] = "none" /\ o \notin applied
  BY <1>0 DEF WireOf
<1>2. terminal[o] = "none" /\ intent[o] # NoIntent /\ o \notin refusal
  <2>1. terminal[o] = "none"
    BY <1>0 DEF FactInv, WaitInv
  <2>2. box[o] # <<>>
    BY <1>0 DEF FactInv, ProtocolInv
  <2>3. o \notin refusal
    BY <1>0 DEF FactInv, EndInv, EndOf
  <2> QED BY <2>1, <2>2, <2>3 DEF IInv, BoxInv, Intended
<1>3. Status[o] = "outstanding"
  BY <1>0, <1>2 DEF Status
<1>4. Request[o] = "none" /\ Request'[o] = "pending"
  BY <1>0, <1>1 DEF Request
<1>5. Request' = [Request EXCEPT ![o] = "pending"]
  BY <1>0, <1>4 DEF Request
<1>6. W!Newest(o)
  <2>1. Place[o] = SeqOf(o)
    BY <1>2 DEF Place
  <2> QED BY <1>0, <2>1, PlaceIs DEF W!Newest, Newest
<1>7. W!Becomes(o, "pending")
  BY <1>0, <1>5 DEF W!Becomes
<1> QED BY <1>3, <1>4, <1>6, <1>7 DEF W!Send

\* The provider processes a request that was sent, once, and somebody may edit the record.
LEMMA ProviderMaps ==
    ASSUME IInv, FactInv, ProviderNext
    PROVE  \/ \E o \in Op : W!Process(o)
           \/ \E t \in Target : W!Overwrite(t)
           \/ UNCHANGED <<Status, Place, Request, Value>>
<1>0. /\ TypeOK /\ WireInv /\ Status' = Status /\ Place' = Place
      /\ remote \in [Target -> [op : Op \cup {NoOp}, version : Nat]]
  BY ProviderFrame, StoreStays DEF IInv, FactInv, storeVars, TypeOK
<1>1. ASSUME NEW o \in Op, o \in wire PROVE Request[o] = "pending"
  BY <1>0, <1>1 DEF WireInv, WireOf, Request
<1>2. ASSUME NEW o \in Op, ProviderApply(o) PROVE W!Process(o)
  <2>1. /\ o \in wire /\ applied' = applied \cup {o} /\ wire' = wire \ {o}
        /\ remote' = [remote EXCEPT ![TargetOf(o)] = [op |-> o, version |-> @.version + 1]]
        /\ \A p \in Op : p # o => reply'[p] = reply[p]
    BY <1>0, <1>2 DEF ProviderApply, TypeOK
  <2>2. Request' = [Request EXCEPT ![o] = "applied"]
    BY <2>1 DEF Request
  <2>3. Value' = [Value EXCEPT ![TargetOf(o)] = o]
    BY <1>0, <2>1, SeqIs DEF Value
  <2>4. W!Becomes(o, "applied")
    BY <1>0, <2>2, <2>3 DEF W!Becomes
  <2> QED BY <1>1, <2>1, <2>4 DEF W!Process, W!Effect
<1>3. ASSUME NEW o \in Op, ProviderRefuse(o) PROVE W!Process(o)
  <2>1. PICK answer \in {"precondition_failed", "other_status"} :
           reply' = [reply EXCEPT ![o] = answer]
    BY <1>3 DEF ProviderRefuse
  <2>2. o \in wire /\ applied' = applied /\ wire' = wire \ {o} /\ remote' = remote
    BY <1>3 DEF ProviderRefuse
  <2>3. reply'[o] # "none" /\ o \notin applied /\ \A p \in Op : p # o => reply'[p] = reply[p]
    BY <1>0, <2>1, <2>2 DEF TypeOK, WireInv, WireOf
  <2>4. Request' = [Request EXCEPT ![o] = "not_applied"]
    BY <2>2, <2>3 DEF Request
  <2>5. W!Becomes(o, "not_applied")
    BY <1>0, <2>2, <2>4 DEF W!Becomes, Value
  <2> QED BY <1>1, <2>2, <2>5 DEF W!Process, W!Effect
<1>4. ASSUME NEW t \in Target, RemoteEdit(t)
      PROVE  W!Overwrite(t) \/ UNCHANGED <<Status, Place, Request, Value>>
  <2>1. PICK o \in {remote[t].op, NoOp} :
           remote' = [remote EXCEPT ![t] = [op |-> o, version |-> @.version + 1]]
    BY <1>4 DEF RemoteEdit
  <2>2. Request' = Request
    BY <1>4 DEF RemoteEdit, Request
  <2>3. Value' = [Value EXCEPT ![t] = o]
    BY <1>0, <2>1 DEF Value
  <2>4. o = NoOp \/ Value' = Value
    BY <2>1, <2>3 DEF Value
  <2> QED BY <1>0, <2>2, <2>3, <2>4 DEF W!Overwrite
<1> QED BY <1>2, <1>3, <1>4 DEF ProviderNext

\* Every step of the writer, the poll runner, the provider and the network is a step of
\* WriteOnce, or changes nothing that WriteOnce speaks of.
LEMMA StepMaps ==
    ASSUME IInv, FactInv, RefusalInv, [Next]_vars
    PROVE  [W!Next]_(W!vars)
<1>1. ASSUME UNCHANGED <<intent, terminal, refusal, attempt, providerVars>>
      PROVE  UNCHANGED <<Status, Place, Request, Value>>
  BY <1>1, StoreStays, RequestsStay
<1>2. ASSUME NEW t \in Target, CaptureNext(t) PROVE UNCHANGED <<Status, Place, Request, Value>>
  BY <1>1, <1>2, CaptureFrame
<1>3. ASSUME NEW o \in Op,
             FinishCall(o) \/ SendSettled(o) \/ ObserveSettled(o) \/ PrepareSweep(o)
      PROVE  W!Withdraw(o) \/ W!Settle(o) \/ UNCHANGED <<Status, Place, Request, Value>>
  BY <1>3, FinishSteps, FinishMaps
<1>4. ASSUME NEW o \in Op, FlushAcknowledge(o) \/ SendResponse(o) \/ ObserveOutputs(o)
      PROVE  UNCHANGED <<Status, Place, Request, Value>>
  BY <1>1, <1>4 DEF FlushAcknowledge, SendResponse, ObserveOutputs
<1>5. ASSUME NEW o \in Op, PrepareSupersede(o) \/ SendRefuse(o)
      PROVE  UNCHANGED <<Status, Place, Request, Value>>
  BY <1>1, <1>5 DEF PrepareSupersede, SendRefuse, Refuse
<1>6. ASSUME \/ \E e \in BOOLEAN, ts \in SUBSET Target : SetWritePolicy(e, ts)
             \/ BeginNext \/ Fail \/ PrepareReturn \/ UNCHANGED vars
      PROVE  UNCHANGED <<Status, Place, Request, Value>>
  BY <1>1, <1>6 DEF SetWritePolicy, BeginNext, BeginPrepare, BeginSend, BeginObserve, Begin, Fail,
     PrepareReturn, vars, storeVars
<1> QED BY <1>2, <1>3, <1>4, <1>5, <1>6, IngestMaps, IntentMaps, MarkMaps, TransmitMaps,
           ProviderMaps DEF Next, CallStep, W!Next, W!vars

\* CrmWriter implements WriteOnce, for every number of targets, captures and calls.
THEOREM WriterImplementsWriteOnce == Spec => ImplementsWriteOnce
<1>1. Init => W!Init
  BY DEF Init, W!Init, Status, Place, Request, Value
<1>2. Init => RefusalInv
  BY DEF Init, RefusalInv
<1>3. IInv /\ RefusalInv /\ [Next]_vars => RefusalInv'
  BY RefusalStep
<1>4. IInv /\ FactInv /\ RefusalInv /\ [Next]_vars => [W!Next]_(W!vars)
  BY StepMaps
<1> QED BY <1>1, <1>2, <1>3, <1>4, Inductive, Facts, PTL DEF Spec, ImplementsWriteOnce, W!Spec

--------------------------------------------------------------------------------
(* What follows for the writes of a target.                                     *)

\* The shapes of what WriteOnce sees.
MappedType ==
    /\ Status \in [Op -> {"none", "ready", "withdrawn"} \cup W!Started]
    /\ Place \in [Op -> Nat]
    /\ Request \in [Op -> {"none", "pending"} \cup W!Effect]
    /\ Value \in [Target -> Op \cup {NoOp}]

\* The mapped state of a well-typed one has them.
LEMMA MappedTypeHolds ==
    ASSUME TypeOK
    PROVE  MappedType
<1>1. \A o \in Op : Status[o] \in {"none", "ready", "withdrawn"} \cup W!Started
  BY DEF TypeOK, Status, Disposition, TERMINAL, W!Started, W!Effect
<1>2. \A o \in Op : Place[o] \in Nat
  BY SeqIs DEF Place
<1>3. \A o \in Op : Request[o] \in {"none", "pending"} \cup W!Effect
  BY DEF Request, W!Effect
<1>4. \A t \in Target : Value[t] \in Op \cup {NoOp}
  BY DEF TypeOK, Value
<1> QED BY <1>1, <1>2, <1>3, <1>4 DEF MappedType, Status, Place, Request, Value

\* What WriteOnce says of one operation, of two of a target, and of a target.
AloneOk(o) == /\ Status[o] # "none" <=> Place[o] # 0
              /\ Request[o] # "none" => Status[o] \in W!Started
              /\ Request[o] = "pending" => Status[o] = "outstanding"
PairOk(o, p) ==
    /\ Place[o] # 0 => Place[o] # Place[p]
    /\ Status[o] = "outstanding" => Status[p] # "outstanding"
    /\ Status[o] = "outstanding" /\ Status[p] \in W!Started => Place[p] < Place[o]
ShownOk(t) == Value[t] = NoOp \/ (/\ Value[t] \in Op /\ TargetOf(Value[t]) = t
                                  /\ Request[Value[t]] = "applied")

PeersOk ==
    /\ \A o \in Op : AloneOk(o)
    /\ \A o, p \in Op : p # o /\ TargetOf(p) = TargetOf(o) => PairOk(o, p)
    /\ \A t \in Target : ShownOk(t)

\* Serialized says so, of the operations of all targets.
LEMMA SerializedIs == W!Serialized <=> PeersOk
<1>1. (\A o \in Op : \A p \in W!Peers(o) \ {o} : PairOk(o, p)) <=>
      \A o, p \in Op : p # o /\ TargetOf(p) = TargetOf(o) => PairOk(o, p)
  <2>1. \A o \in Op : W!Peers(o) = {p \in Op : TargetOf(p) = TargetOf(o)}
    BY PeersAre
  <2> QED BY <2>1
<1>2. \A t \in Target : ShownOk(t) <=> (Value[t] = NoOp \/ (/\ Value[t] \in Op
                                           /\ [x \in Op |-> TargetOf(x)][Value[t]] = t
                                           /\ Request[Value[t]] = "applied"))
  BY DEF ShownOk
<1>3. W!Serialized <=>
        /\ \A o \in Op : AloneOk(o)
        /\ \A o \in Op : \A p \in W!Peers(o) \ {o} : PairOk(o, p)
        /\ \A t \in Target : ShownOk(t)
  BY <1>2, Zenon DEF W!Serialized, AloneOk, PairOk
<1> QED BY <1>1, <1>3 DEF PeersOk

\* It does so after a step too.
LEMMA SerializedNext == W!Serialized' <=> PeersOk'
BY SerializedIs, PTL

\* A step that moves only the status of one operation, and no place.
LEMMA StatusMoves ==
    ASSUME MappedType, MappedType', W!Serialized, NEW o \in Op,
           \A p \in Op : p # o => Status'[p] = Status[p],
           UNCHANGED <<Place, Request, Value>>,
           Status[o] # "none", Status'[o] # "none",
           Status'[o] \in W!Started <=> Status[o] \in W!Started \/ Status'[o] = "outstanding",
           Request[o] = "pending" => Status'[o] = "outstanding",
           Status'[o] = "outstanding" =>
              \A p \in W!Peers(o) \ {o} : Status[p] # "outstanding" /\ Place[p] <= Place[o]
    PROVE  W!Serialized'
<1>0. PeersOk
  BY SerializedIs
<1>1. \A p \in Op : AloneOk(p)'
  BY <1>0 DEF AloneOk, PeersOk, W!Started
<1>2. ASSUME NEW p \in Op, NEW q \in Op, q # p, TargetOf(q) = TargetOf(p) PROVE PairOk(p, q)'
  <2>1. PairOk(p, q) /\ PairOk(q, p) /\ AloneOk(p) /\ AloneOk(q)
    BY <1>0, <1>2 DEF PeersOk
  <2>2. Place[p] \in Nat /\ Place[q] \in Nat
    BY DEF MappedType
  <2>3. CASE p = o
    <3>1. q \in W!Peers(o) \ {o} /\ Status'[q] = Status[q]
      BY <1>2, <2>3, PeersAre
    <3> QED BY <2>1, <2>2, <2>3, <3>1 DEF PairOk, AloneOk, W!Started
  <2>4. CASE q = o
    <3>1. p \in W!Peers(o) \ {o} /\ Status'[p] = Status[p]
      BY <1>2, <2>4, PeersAre
    <3> QED BY <2>1, <2>2, <2>4, <3>1 DEF PairOk, AloneOk, W!Started
  <2>5. CASE p # o /\ q # o
    BY <2>1, <2>5 DEF PairOk
  <2> QED BY <2>3, <2>4, <2>5
<1>3. \A t \in Target : ShownOk(t)'
  BY <1>0 DEF ShownOk, PeersOk
<1> QED BY <1>1, <1>2, <1>3, SerializedNext DEF PeersOk

\* A request has one fate, and a later one writes over an earlier one.
LEMMA RequestMoves ==
    ASSUME MappedType, MappedType', W!Serialized, NEW o \in Op, NEW e \in {"pending"} \cup W!Effect,
           Status[o] = "outstanding", Request[o] \in {"none", "pending"}, W!Becomes(o, e)
    PROVE  W!Serialized' /\ W!GoesForward
<1>0. PeersOk /\ NoOp \notin Op /\ TargetOf(o) \in Target /\ UNCHANGED <<Status, Place>>
  BY SerializedIs, ConstantsAssumption, SeqIs DEF W!Becomes
<1>1. Request'[o] = e /\ \A p \in Op : p # o => Request'[p] = Request[p]
  BY DEF W!Becomes, MappedType
<1>2. \A t \in Target : Value'[t] = IF e = "applied" /\ t = TargetOf(o) THEN o ELSE Value[t]
  BY DEF W!Becomes, MappedType
<1>3. \A p \in Op : AloneOk(p)'
  BY <1>0, <1>1 DEF AloneOk, PeersOk, W!Started
<1>4. \A p, q \in Op : p # q /\ TargetOf(q) = TargetOf(p) => PairOk(p, q)'
  BY <1>0 DEF PairOk, PeersOk
<1>5. \A t \in Target : ShownOk(t)'
  <2> SUFFICES ASSUME NEW t \in Target PROVE ShownOk(t)'
    OBVIOUS
  <2>1. CASE e = "applied" /\ t = TargetOf(o)
    BY <1>1, <1>2, <2>1 DEF ShownOk
  <2>2. CASE ~ (e = "applied" /\ t = TargetOf(o))
    <3>1. Value'[t] = Value[t] /\ ShownOk(t)
      BY <1>0, <1>2, <2>2 DEF PeersOk
    <3>2. Value[t] \in Op => Value[t] # o \/ Request[o] # "applied"
      OBVIOUS
    <3> QED BY <1>1, <3>1, <3>2 DEF ShownOk
  <2> QED BY <2>1, <2>2
<1>6. W!GoesForward
  <2>1. \A p \in Op : Request[p] \in W!Effect => Request'[p] = Request[p]
    BY <1>1 DEF W!Effect
  <2>2. ASSUME NEW t \in Target, Value[t] # NoOp, Value'[t] \notin {NoOp, Value[t]}
        PROVE  Place[Value[t]] < Place[Value'[t]]
    <3>1. Value'[t] = o /\ t = TargetOf(o)
      BY <1>2, <2>2
    <3>2. PICK v \in Op : v = Value[t] /\ TargetOf(v) = t /\ Request[v] = "applied"
      BY <1>0, <2>2 DEF PeersOk, ShownOk
    <3>3. Status[v] \in W!Started
      BY <1>0, <3>2 DEF PeersOk, AloneOk
    <3>4. Place[v] < Place[o]
      BY <1>0, <2>2, <3>1, <3>2, <3>3 DEF PeersOk, PairOk
    <3> QED BY <3>1, <3>2, <3>4
  <2> QED BY <2>1, <2>2 DEF W!GoesForward
<1> QED BY <1>3, <1>4, <1>5, <1>6, SerializedNext DEF PeersOk

\* An operation that is prepared is newer than all of its target.
LEMMA PrepareSerializes ==
    ASSUME MappedType, MappedType', W!Serialized, NEW o \in Op, W!Prepare(o)
    PROVE  W!Serialized'
<1>0. PeersOk /\ Status[o] = "none" /\ UNCHANGED <<Request, Value>>
  BY SerializedIs DEF W!Prepare
<1>1. PICK n \in 1..MaxCapture : /\ Place' = [Place EXCEPT ![o] = n]
                                 /\ \A p \in W!Peers(o) \ {o} : Place[p] < n
  BY DEF W!Prepare
<1>2. Place'[o] = n /\ \A p \in Op : p # o => Place'[p] = Place[p]
  BY <1>1 DEF MappedType
<1>3. /\ Status'[o] = "ready"
      /\ \A p \in Op : p # o => \/ Status'[p] = Status[p]
                                \/ Status[p] = "ready" /\ Status'[p] = "withdrawn"
  BY DEF W!Prepare, MappedType
<1>4. n # 0 /\ n \in Nat
  BY <1>1, ConstantsAssumption
<1>5. \A p \in Op : AloneOk(p)'
  <2> SUFFICES ASSUME NEW p \in Op PROVE AloneOk(p)'
    OBVIOUS
  <2>1. AloneOk(p)
    BY <1>0 DEF PeersOk
  <2>2. CASE p = o
    BY <1>0, <1>2, <1>3, <1>4, <2>1, <2>2 DEF AloneOk, W!Started, W!Effect
  <2>3. CASE p # o
    BY <1>0, <1>2, <1>3, <2>1, <2>3 DEF AloneOk, W!Started, W!Effect
  <2> QED BY <2>2, <2>3
<1>6. ASSUME NEW p \in Op, NEW q \in Op, q # p, TargetOf(q) = TargetOf(p) PROVE PairOk(p, q)'
  <2>1. PairOk(p, q) /\ Place[p] \in Nat /\ Place[q] \in Nat
    BY <1>0, <1>6 DEF PeersOk, MappedType
  <2>2. CASE p = o
    <3>1. Place[q] < n /\ Place'[q] = Place[q] /\ Place'[p] = n
      BY <1>1, <1>2, <1>6, <2>2, PeersAre
    <3> QED BY <1>3, <1>4, <2>1, <2>2, <3>1 DEF PairOk
  <2>3. CASE q = o
    <3>1. Place[p] < n /\ Place'[q] = n /\ Place'[p] = Place[p]
      BY <1>1, <1>2, <1>6, <2>3, PeersAre
    <3> QED BY <1>3, <1>4, <2>1, <2>3, <3>1 DEF PairOk, W!Started, W!Effect
  <2>4. CASE p # o /\ q # o
    <3>1. Status'[p] = "outstanding" => Status[p] = "outstanding"
      BY <1>3, <2>4
    <3>2. Status'[q] \in W!Started => Status[q] = Status'[q]
      BY <1>3, <2>4 DEF W!Started, W!Effect
    <3> QED BY <1>2, <2>1, <2>4, <3>1, <3>2 DEF PairOk, W!Started
  <2> QED BY <2>2, <2>3, <2>4
<1>7. \A t \in Target : ShownOk(t)'
  BY <1>0 DEF ShownOk, PeersOk
<1> QED BY <1>5, <1>6, <1>7, SerializedNext DEF PeersOk

\* What follows from WriteOnce is kept by each of its steps.
LEMMA SerializedStep ==
    ASSUME MappedType, MappedType', W!Serialized, [W!Next]_(W!vars)
    PROVE  W!Serialized' /\ W!GoesForward
<1>0. PeersOk
  BY SerializedIs
<1>1. ASSUME UNCHANGED <<Request, Value>> PROVE W!GoesForward
  BY <1>1 DEF W!GoesForward
<1>2. ASSUME NEW o \in Op, W!Prepare(o) PROVE W!Serialized' /\ W!GoesForward
  BY <1>1, <1>2, PrepareSerializes DEF W!Prepare
<1>3. ASSUME NEW o \in Op, W!Withdraw(o) PROVE W!Serialized' /\ W!GoesForward
  <2>1. /\ Status[o] = "ready" /\ Status'[o] = "withdrawn"
        /\ \A p \in Op : p # o => Status'[p] = Status[p]
        /\ UNCHANGED <<Place, Request, Value>>
    BY <1>3 DEF W!Withdraw, MappedType
  <2>2. Request[o] # "pending"
    BY <1>0, <2>1 DEF PeersOk, AloneOk
  <2> QED BY <1>1, <2>1, <2>2, StatusMoves DEF W!Started, W!Effect
<1>4. ASSUME NEW o \in Op, W!Mark(o) PROVE W!Serialized' /\ W!GoesForward
  <2>1. /\ Status[o] = "ready" /\ Status'[o] = "outstanding"
        /\ \A p \in Op : p # o => Status'[p] = Status[p]
        /\ UNCHANGED <<Place, Request, Value>>
    BY <1>4 DEF W!Mark, MappedType
  <2>2. \A p \in W!Peers(o) \ {o} : Status[p] # "outstanding" /\ Place[p] <= Place[o]
    BY <1>4 DEF W!Mark, W!Newest
  <2> QED BY <1>1, <2>1, <2>2, StatusMoves DEF W!Started, W!Effect
<1>5. ASSUME NEW o \in Op, W!Send(o) PROVE W!Serialized' /\ W!GoesForward
  BY <1>5, RequestMoves DEF W!Send
<1>6. ASSUME NEW o \in Op, W!Process(o) PROVE W!Serialized' /\ W!GoesForward
  <2>1. Status[o] = "outstanding"
    BY <1>0, <1>6 DEF W!Process, PeersOk, AloneOk
  <2> QED BY <1>6, <2>1, RequestMoves DEF W!Process
<1>7. ASSUME NEW o \in Op, W!Settle(o) PROVE W!Serialized' /\ W!GoesForward
  <2>1. /\ Status[o] = "outstanding" /\ Status'[o] = Request[o] /\ Request[o] \in W!Effect
        /\ \A p \in Op : p # o => Status'[p] = Status[p]
        /\ UNCHANGED <<Place, Request, Value>>
    BY <1>7 DEF W!Settle, MappedType
  <2> QED BY <1>1, <2>1, StatusMoves DEF W!Started, W!Effect
<1>8. ASSUME NEW t \in Target, W!Overwrite(t) PROVE W!Serialized' /\ W!GoesForward
  <2>1. /\ UNCHANGED <<Status, Place, Request>>
        /\ \A u \in Target : Value'[u] \in {NoOp, Value[u]}
    BY <1>8 DEF W!Overwrite, MappedType
  <2>2. PeersOk'
    BY <1>0, <2>1 DEF PeersOk, AloneOk, PairOk, ShownOk
  <2> QED BY <2>1, <2>2, SerializedNext DEF W!GoesForward
<1>9. CASE UNCHANGED W!vars
  <2>1. PeersOk'
    BY <1>0, <1>9 DEF W!vars, PeersOk, AloneOk, PairOk, ShownOk
  <2> QED BY <1>1, <1>9, <2>1, SerializedNext DEF W!vars
<1> QED BY <1>2, <1>3, <1>4, <1>5, <1>6, <1>7, <1>8, <1>9 DEF W!Next

\* The operations of a target are outstanding one at a time, in the order of the captures
\* they were decided from.
THEOREM WritesAreSerialized == Spec => []W!Serialized /\ [][W!GoesForward]_(W!vars)
<1>1. Init => W!Serialized
  BY DEF Init, W!Serialized, W!Started, Status, Place, Request, Value
<1>2. IInv => MappedType
  BY MappedTypeHolds DEF IInv
<1>3. MappedType /\ MappedType' /\ W!Serialized /\ [W!Next]_(W!vars) =>
          W!Serialized' /\ [W!GoesForward]_(W!vars)
  BY SerializedStep
<1> QED BY <1>1, <1>2, <1>3, Inductive, WriterImplementsWriteOnce, PTL
           DEF Spec, ImplementsWriteOnce, W!Spec
=============================================================================
