---------------------------- MODULE HubspotProofs ----------------------------
(***************************************************************************)
(* Theorems about HubspotWriter, and HubspotCapture under it, for every    *)
(* finite set of units, every set of callers and all bounds.               *)
(***************************************************************************)
EXTENDS HubspotInv, FiniteFacts, SequenceTheorems

--------------------------------------------------------------------------------
(* A call that goes on, and nothing else.                                      *)

\* A call that does nothing is a record of the type, and it knows nothing.
LEMMA IdleIsOk ==
    /\ Idle \in Call /\ Idle.at = "idle" /\ Idle.marker = 0
    /\ CallOk(Idle) /\ CallOk(Idle)'
<1>1. Idle \in Call /\ Idle.at = "idle" /\ Idle.marker = 0
  BY DEF Idle, Call
<1>2. Idle.at \notin Reads \cup Submits \cup Writes \cup {"planned"}
  BY <1>1 DEF Reads, Submits, Writes, Flushes, Continues
<1>3. ReadOk(Idle) /\ ReadOk(Idle)'
  BY <1>2 DEF ReadOk
<1>4. AttemptOk(Idle) /\ AttemptOk(Idle)'
  BY <1>1, <1>2 DEF AttemptOk
<1>5. FlushOk(Idle) /\ FlushOk(Idle)'
  BY <1>1, <1>2 DEF FlushOk, Writes, Flushes
<1>6. MarkOk(Idle) /\ MarkOk(Idle)'
  BY <1>1, <1>2 DEF MarkOk, Writes
<1> QED BY <1>1, <1>3, <1>4, <1>5, <1>6 DEF CallOk

\* The record of one caller is replaced.
LEMMA CallReplaced ==
    ASSUME CallType, NEW c \in Caller, NEW r \in Call, r.at # "idle" => r.unit \in Unit,
           call' = [call EXCEPT ![c] = r]
    PROVE  CallType' /\ call'[c] = r /\ \A d \in Caller \ {c} : call'[d] = call[d]
BY DEF CallType

\* What the calls know is kept when it is for the one that goes on, and for the others.
LEMMA CallsFollow ==
    ASSUME CallType, CallsInv, NEW c \in Caller, NEW r, r \in Call,
           call' = [call EXCEPT ![c] = r], CallOk(r)',
           r.marker # 0 => \A d \in Caller \ {c} : call[d].marker # 0 => call[d].unit # r.unit,
           \A d \in Caller \ {c} : \E x : x = call[d] /\ (CallOk(x) => CallOk(x)')
    PROVE  CallsInv'
<1>1. call'[c] = r /\ \A d \in Caller \ {c} : call'[d] = call[d]
  BY DEF CallType
<1>2. ASSUME NEW d \in Caller PROVE CallOk(call[d])'
  <2>1. CASE d = c
    <3>1. PICK x : x = r
      OBVIOUS
    <3> QED BY <1>1, <2>1, <3>1 DEF CallOk, ReadOk, AttemptOk, FlushOk, MarkOk
  <2>2. CASE d # c
    <3>1. PICK x : x = call[d] /\ (CallOk(x) => CallOk(x)')
      BY <2>2
    <3>2. CallOk(x)'
      BY <3>1 DEF CallsInv
    <3>3. call'[d] = x
      BY <1>1, <2>2, <3>1
    <3> QED BY <3>2, <3>3 DEF CallOk, ReadOk, AttemptOk, FlushOk, MarkOk
  <2> QED BY <2>1, <2>2
<1>3. ASSUME NEW d \in Caller, NEW e \in Caller,
             call'[d].marker # 0, call'[e].marker # 0, call'[d].unit = call'[e].unit
      PROVE  d = e
  BY <1>1, <1>3 DEF CallsInv
<1> QED BY <1>2, <1>3 DEF CallsInv

\* A step that changes calls alone keeps everything else.
LEMMA OnlyCallsChange ==
    ASSUME IInv, CallType', CallsInv', UNCHANGED <<storeVars, submissionVars, writerVars>>
    PROVE  IInv'
<1> USE DEF storeVars, submissionVars, writerVars, intentVars, crmVars
<1>1. StoreType' /\ SubmissionType' /\ WriterType'
  BY DEF IInv, TypeInv, StoreType, SubmissionType, WriterType
<1>2. CaptureInv'
  BY DEF IInv, CaptureInv, CapturesFollowReads, CapturedInOrder, Captured, LastSequence
<1>3. SubmissionInv'
  BY DEF IInv, SubmissionInv, PlansHold, RejectedOnlyWhenOvertaken, Captured, Minted
<1>4. OutboxInv' /\ LedgerInv'
  BY DEF IInv, WriterInv, OutboxInv, LedgerInv
<1>5. StateInv' /\ RequestInv' /\ RevisionInv'
  BY DEF IInv, WriterInv, StateInv, RequestInv, RevisionInv, Captured
<1> QED BY <1>1, <1>2, <1>3, <1>4, <1>5 DEF IInv, TypeInv, WriterInv

LEMMA CallGoesOn ==
    ASSUME IInv, NEW c \in Caller, NEW r \in Call, r.at # "idle" => r.unit \in Unit,
           call' = [call EXCEPT ![c] = r], CallOk(r),
           r.marker # 0 => call[c].marker # 0 /\ r.unit = call[c].unit,
           UNCHANGED <<storeVars, submissionVars, writerVars>>
    PROVE  IInv'
<1>1. CallType /\ CallsInv
  BY DEF IInv, TypeInv
<1>2. ASSUME NEW x, CallOk(x) PROVE CallOk(x)'
  <2> USE DEF storeVars, submissionVars, writerVars, intentVars, crmVars
  <2>1. ReadOk(x)' /\ AttemptOk(x)'
    BY <1>2 DEF CallOk, ReadOk, AttemptOk, IsCurrent, Captured, Minted
  <2>2. FlushOk(x)' /\ MarkOk(x)'
    BY <1>2 DEF CallOk, FlushOk, MarkOk, Captured
  <2> QED BY <2>1, <2>2 DEF CallOk
<1>3. CallType'
  BY <1>1, CallReplaced
<1>4. CallsInv'
  <2>1. CallOk(r)'
    BY <1>2
  <2>2. \A d \in Caller \ {c} : \E x : x = call[d] /\ (CallOk(x) => CallOk(x)')
    BY <1>2
  <2>3. r.marker # 0 => \A d \in Caller \ {c} : call[d].marker # 0 => call[d].unit # r.unit
    BY <1>1 DEF CallsInv
  <2> QED BY <1>1, <2>1, <2>2, <2>3, CallsFollow
<1> QED BY <1>3, <1>4, OnlyCallsChange

\* A call that returns.
LEMMA CallReturns ==
    ASSUME IInv, NEW c \in Caller, Return(c), UNCHANGED <<storeVars, submissionVars, writerVars>>
    PROVE  IInv'
<1>1. PICK r : r = Idle
  OBVIOUS
<1>2. r \in Call /\ r.at = "idle" /\ r.marker = 0 /\ CallOk(r) /\ call' = [call EXCEPT ![c] = r]
  BY <1>1, IdleIsOk DEF Return, CallOk, ReadOk, AttemptOk, FlushOk, MarkOk
<1> QED BY <1>2, CallGoesOn

\* A call that goes on to another stage of its own, in the store or in the submission.
LEMMA CallGoesTo ==
    ASSUME IInv, NEW c \in Caller, NEW at, call[c].at # "idle", call[c].marker = 0,
           at \in {"mapped", "refusing", "observing"}, Goto(c, at),
           at \in Reads => call[c].at \in Reads, at \in Writes => call[c].at \in Writes,
           UNCHANGED <<storeVars, submissionVars, writerVars>>
    PROVE  IInv'
<1> DEFINE x == call[c]
<1>1. PICK r : r = [x EXCEPT !.at = at]
  OBVIOUS
<1>2. x \in Call /\ x.unit \in Unit
  BY DEF IInv, TypeInv, CallType
<1>3. r \in Call /\ r.at = at /\ r.unit = x.unit /\ r.generation = x.generation /\ r.marker = 0
  BY <1>1, <1>2 DEF Call, Reads, Writes
<1>4. CallOk(r)
  <2>1. CallOk(x)
    BY DEF IInv, CallsInv
  <2>2. ReadOk(r)
    BY <1>3, <2>1 DEF CallOk, ReadOk
  <2>3. AttemptOk(r) /\ FlushOk(r) /\ MarkOk(r)
    BY <1>3, <2>1 DEF CallOk, AttemptOk, FlushOk, MarkOk, Submits, Flushes
  <2> QED BY <2>2, <2>3 DEF CallOk
<1>5. call' = [call EXCEPT ![c] = r]
  BY <1>1 DEF Goto
<1> QED BY <1>2, <1>3, <1>4, <1>5, CallGoesOn

\* ReadLedger, ResumeSubmission, BeginAttempt.
LEMMA ReadLedgerGoesOn ==
    ASSUME IInv, NEW c \in Caller, NEW u \in Unit, ReadLedger(c, u), UNCHANGED writerVars
    PROVE  IInv'
<1>1. PICK r : r = [Idle EXCEPT !.at = "planned", !.unit = u, !.plan = PlanOf(u)]
  OBVIOUS
<1>2. r \in Call /\ r.at = "planned" /\ r.unit = u /\ r.plan = PlanOf(u) /\ r.marker = 0
  BY <1>1 DEF Idle, Call, PlanOf
<1>3. CallOk(r)
  <2>1. Captured(u) /\ r.plan # "none" /\ (r.plan = "reused" => Evidence[u] \in Minted)
    BY <1>2 DEF ReadLedger, PlanOf
  <2>2. ReadOk(r) /\ FlushOk(r) /\ MarkOk(r)
    BY <1>2 DEF ReadOk, FlushOk, MarkOk, Reads, Writes, Flushes, Continues
  <2>3. AttemptOk(r)
    BY <1>2, <2>1 DEF AttemptOk, Submits
  <2> QED BY <2>2, <2>3 DEF CallOk
<1> QED BY <1>1, <1>2, <1>3, CallGoesOn DEF ReadLedger

LEMMA ResumeSubmissionGoesOn ==
    ASSUME IInv, NEW c \in Caller, NEW u \in Unit, ResumeSubmission(c, u), UNCHANGED writerVars
    PROVE  IInv'
<1>1. PICK r : r = [Idle EXCEPT !.at = "resuming", !.unit = u]
  OBVIOUS
<1>2. r \in Call /\ r.at = "resuming" /\ r.unit = u /\ r.marker = 0
  BY <1>1 DEF Idle, Call, Submits
<1>3. CallOk(r)
  <2>1. ReadOk(r) /\ FlushOk(r) /\ MarkOk(r)
    BY <1>2 DEF ReadOk, FlushOk, MarkOk, Reads, Writes, Flushes, Continues
  <2>2. AttemptOk(r)
    BY <1>2 DEF AttemptOk, ResumeSubmission
  <2> QED BY <2>1, <2>2 DEF CallOk
<1> QED BY <1>1, <1>2, <1>3, CallGoesOn DEF ResumeSubmission, Begin

\* What the next stage of a unit stands on is there.
LEMMA NextStageIsDue ==
    ASSUME IInv, NEW u \in Unit, plan[u] # "none"
    PROVE  /\ NextStage(u) \in Stage
           /\ NextStage(u) = "evidence" => plan[u] = "new"
           /\ NextStage(u) = "decision" => plan[u] = "reused" \/ <<u, "evidence">> \in domain
<1>1. plan[u] \in {"new", "reused"} /\ \A s \in accepted[u] : <<u, s>> \in domain
  BY DEF IInv, TypeInv, SubmissionType, SubmissionInv, PlansHold
<1>2. CASE "prerequisites" \notin accepted[u]
  BY <1>2 DEF NextStage, Stage
<1>3. CASE "prerequisites" \in accepted[u] /\ "evidence" \in Stages(u) \ accepted[u]
  BY <1>1, <1>3 DEF NextStage, Stage, Stages
<1>4. CASE "prerequisites" \in accepted[u] /\ "evidence" \notin Stages(u) \ accepted[u]
  BY <1>1, <1>4 DEF NextStage, Stage, Stages
<1> QED BY <1>2, <1>3, <1>4

LEMMA BeginAttemptGoesOn ==
    ASSUME IInv, NEW c \in Caller, BeginAttempt(c), UNCHANGED writerVars
    PROVE  IInv'
<1> DEFINE x == call[c]
           u == x.unit
<1>1. CASE u \in failed \/ Complete(u)
  BY <1>1, CallReturns DEF BeginAttempt
<1>2. CASE ~ (u \in failed \/ Complete(u))
  <2>1. PICK r : r = [x EXCEPT !.at = "attempted", !.stage = NextStage(u)]
    OBVIOUS
  <2>2. x.at = "resuming" /\ x \in Call /\ u \in Unit /\ plan[u] # "none" /\ CallOk(x)
    BY DEF BeginAttempt, IInv, TypeInv, CallType, CallsInv, CallOk, AttemptOk, Submits
  <2>3. NextStage(u) \in Stage
    BY <2>2, NextStageIsDue
  <2>4. r \in Call /\ r.at = "attempted" /\ r.unit = u /\ r.stage = NextStage(u) /\ r.marker = x.marker
    BY <2>1, <2>2, <2>3 DEF Call, Submits
  <2>5. x.marker = 0
    BY <2>2 DEF CallOk, MarkOk, Flushes
  <2>6. CallOk(r)
    <3>1. ReadOk(r) /\ FlushOk(r) /\ MarkOk(r)
      BY <2>4, <2>5 DEF ReadOk, FlushOk, MarkOk, Reads, Writes, Flushes, Continues
    <3>2. AttemptOk(r)
      BY <2>2, <2>3, <2>4, NextStageIsDue DEF AttemptOk
    <3> QED BY <3>1, <3>2 DEF CallOk
  <2>7. call' = [call EXCEPT ![c] = r]
    BY <1>2, <2>1 DEF BeginAttempt
  <2> QED BY <2>2, <2>4, <2>5, <2>6, <2>7, CallGoesOn DEF BeginAttempt
<1> QED BY <1>1, <1>2

\* A flush begins, for a unit that is submitted.
LEMMA FlushBegins ==
    ASSUME IInv, NEW c \in Caller, NEW u \in Unit, NEW next, BeginFlush(c, u, next),
           next \in {"reading_history", "reserving", "reconciling"},
           UNCHANGED <<storeVars, submissionVars, writerVars>>
    PROVE  IInv'
<1>1. PICK r : r = [Idle EXCEPT !.at = "flush", !.unit = u, !.next = next]
  OBVIOUS
<1>2. r \in Call /\ r.at = "flush" /\ r.unit = u /\ r.next = next /\ r.marker = 0
  BY <1>1 DEF Idle, Call, Writes, Flushes, Continues
<1>3. CallOk(r)
  <2>1. Captured(u)
    BY DEF IInv, SubmissionInv, PlansHold, BeginFlush, Complete
  <2>2. ReadOk(r) /\ AttemptOk(r)
    BY <1>2 DEF ReadOk, AttemptOk, Reads, Submits
  <2>3. FlushOk(r) /\ MarkOk(r)
    BY <1>2, <2>1 DEF FlushOk, MarkOk
  <2> QED BY <2>2, <2>3 DEF CallOk
<1> QED BY <1>1, <1>2, <1>3, CallGoesOn DEF BeginFlush

\* The call that a flush was for goes on, with what it knew.
LEMMA AfterIsOk ==
    ASSUME IInv, NEW c \in Caller, call[c].at \in Flushes, NEW r, r = After(c)
    PROVE  /\ r \in Call /\ CallOk(r) /\ (r.at # "idle" => r.unit \in Unit)
           /\ r.marker # 0 => call[c].marker # 0 /\ r.unit = call[c].unit
<1> DEFINE x == call[c]
<1>1. x \in Call /\ x.unit \in Unit /\ CallOk(x)
  BY DEF IInv, TypeInv, CallType, CallsInv, Flushes
<1>2. CASE x.next = "returning"
  BY <1>2, IdleIsOk DEF After
<1>3. CASE x.next # "returning"
  <2>1. x.next \in Continues
    BY <1>1, <1>3 DEF Call, CallOk, FlushOk
  <2>2. r = [x EXCEPT !.at = x.next, !.todo = {}, !.next = "none"]
    BY <1>3 DEF After
  <2>3. r \in Call /\ r.at = x.next /\ r.unit = x.unit /\ r.marker = x.marker
    BY <1>1, <2>1, <2>2 DEF Call, Writes
  <2>4. ReadOk(r) /\ AttemptOk(r) /\ FlushOk(r)
    BY <2>1, <2>3 DEF ReadOk, AttemptOk, FlushOk, Reads, Submits, Flushes, Continues
  <2>5. MarkOk(r)
    <3>1. Captured(r.unit)
      BY <1>1, <2>3 DEF CallOk, MarkOk, Writes
    <3>2. x.marker # 0 => x.next = "sending" /\ state[x.unit] = "unknown" /\ request[x.unit] = "none"
      BY <1>1 DEF CallOk, MarkOk, Flushes
    <3>3. x.next = "sending" => x.marker # 0
      BY <1>1 DEF CallOk, MarkOk
    <3> QED BY <2>1, <2>3, <3>1, <3>2, <3>3 DEF MarkOk, Flushes, Continues
  <2> QED BY <1>1, <2>3, <2>4, <2>5 DEF CallOk
<1> QED BY <1>2, <1>3

\* ReadPending: what no receipt is for is in the order of the outbox, and the rest is delivered.
LEMMA ReadPendingGoesOn ==
    ASSUME IInv, NEW c \in Caller, ReadPending(c)
    PROVE  IInv'
<1> DEFINE x == call[c]
           pending == DOMAIN outbox \ receipts
<1>1. x.at = "flush" /\ x \in Call /\ x.unit \in Unit /\ CallOk(x) /\ x.at \in Flushes
  BY DEF ReadPending, IInv, TypeInv, CallType, CallsInv, Flushes
<1>2. CASE pending = {}
  <2>1. PICK r : r = After(c)
    OBVIOUS
  <2>2. call' = [call EXCEPT ![c] = r]
    BY <1>2, <2>1 DEF ReadPending
  <2> QED BY <1>1, <2>1, <2>2, AfterIsOk, CallGoesOn DEF ReadPending
<1>3. CASE pending # {}
  <2>1. PICK r : r = [x EXCEPT !.at = "flushing", !.todo = pending]
    OBVIOUS
  <2>2. DOMAIN outbox = 1..Len(outbox) /\ Len(outbox) \in Nat
    BY LenProperties DEF IInv, TypeInv, WriterType
  <2>3. r \in Call /\ r.at = "flushing" /\ r.todo = pending /\ r.unit = x.unit /\ r.next = x.next
        /\ r.marker = x.marker
    <3>1. pending \in SUBSET Nat
      BY <2>2
    <3> HIDE DEF pending
    <3> QED BY <1>1, <2>1, <3>1 DEF Call, Writes, Flushes
  <2>4. FlushOk(r)
    <3>1. \A p \in 1..Len(outbox) : p \notin pending => p <= Len(ledger)
      BY <2>2 DEF IInv, WriterInv, LedgerInv
    <3>2. \A t \in pending : \A p \in 1..t : p \notin pending => p <= Len(ledger)
      BY <2>2, <3>1
    <3> QED BY <1>1, <1>3, <2>2, <2>3, <3>2 DEF CallOk, FlushOk, Flushes
  <2>5. ReadOk(r) /\ AttemptOk(r)
    BY <2>3 DEF ReadOk, AttemptOk, Reads, Submits
  <2>6. MarkOk(r)
    BY <1>1, <2>3 DEF CallOk, MarkOk, Flushes, Writes
  <2>7. call' = [call EXCEPT ![c] = r]
    BY <1>3, <2>1 DEF ReadPending
  <2> QED BY <1>1, <2>3, <2>4, <2>5, <2>6, <2>7, CallGoesOn DEF ReadPending, CallOk
<1> QED BY <1>2, <1>3

LEMMA ReadHistoryGoesOn ==
    ASSUME IInv, NEW c \in Caller, ReadHistory(c)
    PROVE  IInv'
<1> DEFINE x == call[c]
<1>1. x.at = "reading_history" /\ x \in Call /\ x.unit \in Unit /\ CallOk(x)
  BY DEF ReadHistory, IInv, TypeInv, CallType, CallsInv
<1>2. PICK r : r = [x EXCEPT !.at = "preparing", !.seen = Len(ledger)]
  OBVIOUS
<1>3. Len(ledger) \in Nat
  BY LenProperties DEF IInv, TypeInv, WriterType
<1>4. r \in Call /\ r.at = "preparing" /\ r.seen = Len(ledger) /\ r.unit = x.unit
      /\ r.marker = x.marker
  BY <1>1, <1>2, <1>3 DEF Call, Writes
<1>5. CallOk(r)
  <2>1. ReadOk(r) /\ AttemptOk(r) /\ FlushOk(r)
    BY <1>3, <1>4 DEF ReadOk, AttemptOk, FlushOk, Reads, Submits, Flushes
  <2>2. MarkOk(r)
    BY <1>1, <1>4 DEF CallOk, MarkOk, Flushes, Writes, Continues
  <2> QED BY <2>1, <2>2 DEF CallOk
<1>6. call' = [call EXCEPT ![c] = r]
  BY <1>2 DEF ReadHistory
<1> QED BY <1>1, <1>4, <1>5, <1>6, CallGoesOn DEF ReadHistory

LEMMA StillUnknownGoesOn ==
    ASSUME IInv, NEW c \in Caller, StillUnknown(c)
    PROVE  IInv'
<1>1. call[c].at = "reconciling" /\ MarkOk(call[c])
  BY DEF StillUnknown, IInv, CallsInv, CallOk
<1>2. call[c].marker = 0
  BY <1>1 DEF MarkOk, Flushes
<1>3. "observing" \notin Reads /\ call[c].at \in Writes
  BY <1>1 DEF Reads, Writes, Continues
<1> QED BY <1>1, <1>2, <1>3, CallGoesTo DEF StillUnknown

\* ReadAndMap, StaleFence.
LEMMA ReadGoesOn ==
    ASSUME IInv, NEW c \in Caller, ReadAndMap(c) \/ StaleFence(c), UNCHANGED writerVars
    PROVE  IInv'
<1>1. call[c].at \in {"reading", "mapped"} /\ MarkOk(call[c])
  BY DEF ReadAndMap, StaleFence, IInv, CallsInv, CallOk
<1>2. call[c].marker = 0 /\ call[c].at \in Reads
  BY <1>1 DEF MarkOk, Flushes, Reads
<1>3. "mapped" \notin Writes /\ "refusing" \notin Writes
  BY DEF Writes, Flushes, Continues
<1>4. UNCHANGED <<storeVars, submissionVars, writerVars>>
  BY DEF ReadAndMap, StaleFence
<1>5. PICK at \in {"mapped", "refusing"} : Goto(c, at)
  BY DEF ReadAndMap, StaleFence
<1> QED BY <1>1, <1>2, <1>3, <1>4, <1>5, CallGoesTo

--------------------------------------------------------------------------------
(* The store of captures: reservations.                                        *)

\* What is not about the company's reservation is as it was.
LEMMA OnlyStoreChanges ==
    ASSUME IInv, UNCHANGED <<captures, submissionVars, writerVars>>
    PROVE  SubmissionType' /\ WriterType' /\ SubmissionInv' /\ WriterInv'
<1> USE DEF submissionVars, writerVars, intentVars, crmVars
<1>1. SubmissionType' /\ WriterType'
  BY DEF IInv, TypeInv, SubmissionType, WriterType
<1>2. SubmissionInv'
  BY DEF IInv, SubmissionInv, PlansHold, RejectedOnlyWhenOvertaken, Captured, Minted
<1>3. OutboxInv' /\ LedgerInv'
  BY DEF IInv, WriterInv, OutboxInv, LedgerInv
<1>4. StateInv' /\ RequestInv' /\ RevisionInv'
  BY DEF IInv, WriterInv, StateInv, RequestInv, RevisionInv, Captured
<1> QED BY <1>1, <1>2, <1>3, <1>4 DEF WriterInv

\* The reservation of another unit, or of none, never makes a read current that was not.
LEMMA OwnershipMovesOn ==
    ASSUME IInv, UNCHANGED <<captures, submissionVars, writerVars>>,
           ownership'.generation \in Nat, ownership.generation <= ownership'.generation,
           \/ ownership' = ownership
           \/ ownership'.state # "held"
           \/ ownership'.generation > ownership.generation,
           NEW x \in Call, CallOk(x)
    PROVE  CallOk(x)'
<1>1. ownership.generation \in Nat /\ x.generation \in Nat
  BY DEF IInv, TypeInv, StoreType, Call
<1>2. ReadOk(x)'
  <2>1. SUFFICES ASSUME x.at \in Reads
                 PROVE  /\ x.generation <= ownership'.generation
                        /\ IsCurrent(x.unit, x.generation)' => ~Captured(x.unit)'
    BY DEF ReadOk
  <2>2. x.generation <= ownership.generation
        /\ (IsCurrent(x.unit, x.generation) => ~Captured(x.unit))
    BY <2>1 DEF CallOk, ReadOk
  <2>3. IsCurrent(x.unit, x.generation)' => IsCurrent(x.unit, x.generation)
    <3>1. CASE ownership' = ownership
      BY <3>1 DEF IsCurrent
    <3>2. CASE ownership'.state # "held"
      BY <3>2 DEF IsCurrent
    <3>3. CASE ownership'.generation > ownership.generation
      BY <1>1, <2>2, <3>3 DEF IsCurrent
    <3> QED BY <3>1, <3>2, <3>3
  <2> QED BY <1>1, <2>2, <2>3 DEF Captured
<1> USE DEF submissionVars, writerVars, intentVars, crmVars
<1>3. AttemptOk(x)'
  BY DEF CallOk, AttemptOk, Captured, Minted
<1>4. FlushOk(x)' /\ MarkOk(x)'
  BY DEF CallOk, FlushOk, MarkOk, Captured
<1> QED BY <1>2, <1>3, <1>4 DEF CallOk

\* A call steps while the reservation moves on.
LEMMA ReservationSteps ==
    ASSUME IInv, UNCHANGED <<captures, submissionVars, writerVars>>,
           ownership'.generation \in Nat, ownership.generation <= ownership'.generation,
           \/ ownership' = ownership
           \/ ownership'.state # "held"
           \/ ownership'.generation > ownership.generation,
           NEW c \in Caller, NEW r \in Call, r.at # "idle" => r.unit \in Unit, r.marker = 0,
           call' = [call EXCEPT ![c] = r], CallOk(r)'
    PROVE  CallType' /\ CallsInv'
<1>1. CallType /\ CallsInv
  BY DEF IInv, TypeInv
<1>2. CallType'
  BY <1>1, CallReplaced
<1>3. \A d \in Caller \ {c} : \E x : x = call[d] /\ (CallOk(x) => CallOk(x)')
  <2>1. SUFFICES ASSUME NEW d \in Caller \ {c}, NEW x, x = call[d], CallOk(x) PROVE CallOk(x)'
    OBVIOUS
  <2>2. x \in Call
    BY <1>1, <2>1 DEF CallType
  <2> QED BY <2>1, <2>2, OwnershipMovesOn
<1>4. CallsInv'
  BY <1>1, <1>3, CallsFollow
<1> QED BY <1>2, <1>4

\* RecordReceipt: no unit is received twice, so no progress is lost.
LEMMA RecordReceiptKeeps ==
    ASSUME IInv, NEW c \in Caller, NEW u \in Unit, RecordReceipt(c, u), UNCHANGED writerVars
    PROVE  IInv'
<1>1. PICK r : r = [Idle EXCEPT !.at = "received", !.unit = u]
  OBVIOUS
<1>2. r \in Call /\ r.at = "received" /\ r.unit = u /\ r.marker = 0
  BY <1>1 DEF Idle, Call
<1>3. CallOk(r)'
  BY <1>2 DEF CallOk, ReadOk, AttemptOk, FlushOk, MarkOk, Reads, Submits, Writes, Flushes, Continues
<1>4. ownership.generation \in Nat /\ UNCHANGED <<captures, ownership, submissionVars, writerVars>>
  BY DEF IInv, TypeInv, StoreType, RecordReceipt
<1>5. CallType' /\ CallsInv'
  <2>1. call' = [call EXCEPT ![c] = r]
    BY <1>1 DEF RecordReceipt, Begin
  <2>2. ownership'.generation \in Nat /\ ownership.generation <= ownership'.generation
    BY <1>4
  <2> QED BY <1>2, <1>3, <1>4, <2>1, <2>2, ReservationSteps
<1>6. StoreType'
  BY DEF RecordReceipt, Register, IInv, TypeInv, StoreType
<1>7. CaptureInv'
  <2>1. \A v \in Unit : progress[v] = "captured" => progress'[v] = "captured"
    BY DEF RecordReceipt, Register, IInv, TypeInv, StoreType
  <2>2. \A v \in Unit : progress'[v] # progress[v] => progress[v] = "none" /\ progress'[v] = "received"
    BY DEF RecordReceipt, Register, IInv, TypeInv, StoreType
  <2>3. CapturesFollowReads'
    BY <1>4, <2>1, <2>2 DEF IInv, CaptureInv, CapturesFollowReads, Captured
  <2>4. CapturedInOrder'
    BY <1>4 DEF IInv, CaptureInv, CapturedInOrder, Captured, LastSequence
  <2> QED BY <2>3, <2>4 DEF CaptureInv
<1> QED BY <1>4, <1>5, <1>6, <1>7, OnlyStoreChanges DEF IInv, TypeInv

\* Acquire: the reservation is of a new generation, and nobody else has one.
LEMMA AcquireKeeps ==
    ASSUME IInv, NEW c \in Caller, Acquire(c), UNCHANGED writerVars
    PROVE  IInv'
<1> DEFINE x == call[c]
           g == ownership.generation + 1
<1>1. x.at = "received" /\ x \in Call /\ x.unit \in Unit /\ CallOk(x) /\ ownership.generation \in Nat
  BY DEF Acquire, IInv, TypeInv, CallType, CallsInv, StoreType
<1>2. PICK u : u = x.unit
  OBVIOUS
<1>3. PICK r : r = [x EXCEPT !.at = "reading", !.generation = g]
  OBVIOUS
<1>4. r \in Call /\ r.at = "reading" /\ r.generation = g /\ r.unit = u /\ r.marker = x.marker
  <2>1. g \in Nat
    BY <1>1
  <2> HIDE DEF g
  <2> QED BY <1>1, <1>2, <1>3, <2>1 DEF Call, Reads
<1>5. /\ ~Captured(u) /\ ownership.state # "held" /\ UNCHANGED <<captures, submissionVars, writerVars>>
      /\ ownership' = [generation |-> g, state |-> "held", owner |-> u]
      /\ progress' = [progress EXCEPT ![u] = "reserved"] /\ registered' = registered
      /\ call' = [call EXCEPT ![c] = r]
  BY <1>2, <1>3 DEF Acquire, Hold
<1>6. x.marker = 0
  BY <1>1 DEF CallOk, MarkOk, Flushes
<1>7. CallOk(r)'
  <2>1. ReadOk(r)'
    BY <1>1, <1>4, <1>5 DEF ReadOk, Captured
  <2>2. AttemptOk(r)' /\ FlushOk(r)' /\ MarkOk(r)'
    BY <1>4, <1>6 DEF AttemptOk, FlushOk, MarkOk, Submits, Writes, Flushes, Continues
  <2> QED BY <2>1, <2>2 DEF CallOk
<1>8. CallType' /\ CallsInv'
  <2>1. /\ ownership'.generation \in Nat /\ ownership.generation <= ownership'.generation
        /\ ownership'.generation > ownership.generation
    BY <1>1, <1>5
  <2>2. r.unit \in Unit
    BY <1>1, <1>2, <1>4
  <2> QED BY <1>4, <1>5, <1>6, <1>7, <2>1, <2>2, ReservationSteps
<1>9. StoreType'
  BY <1>1, <1>2, <1>5 DEF IInv, TypeInv, StoreType
<1>10. CaptureInv'
  <2>1. \A v \in Unit : progress'[v] = IF v = u THEN "reserved" ELSE progress[v]
    BY <1>5 DEF IInv, TypeInv, StoreType
  <2>2. CapturesFollowReads'
    BY <1>1, <1>2, <1>5, <2>1 DEF IInv, CaptureInv, CapturesFollowReads, Captured
  <2>3. CapturedInOrder'
    <3>1. LastSequence' = LastSequence /\ \A v : Captured(v)' <=> Captured(v)
      BY <1>5 DEF LastSequence, Captured
    <3>2. ASSUME NEW v \in Unit, Captured(v) PROVE captures[v].generation < g
      BY <1>1, <3>2 DEF IInv, TypeInv, StoreType, CaptureInv, CapturedInOrder
    <3>3. ASSUME NEW v \in Unit, Captured(v) PROVE captures[v].generation <= g
      BY <1>1, <3>2, <3>3 DEF IInv, TypeInv, StoreType
    <3>4. ownership'.generation = g /\ captures' = captures
      BY <1>5
    <3> HIDE DEF g
    <3> QED BY <3>1, <3>2, <3>3, <3>4 DEF IInv, CaptureInv, CapturedInOrder
  <2> QED BY <2>2, <2>3 DEF CaptureInv
<1> QED BY <1>5, <1>8, <1>9, <1>10, OnlyStoreChanges DEF IInv, TypeInv

\* ReleaseRefused: only the current generation is released, of a unit without a capture.
LEMMA ReleaseRefusedKeeps ==
    ASSUME IInv, NEW c \in Caller, ReleaseRefused(c), UNCHANGED writerVars
    PROVE  IInv'
<1> DEFINE x == call[c]
<1>1. x.at = "refusing" /\ x.unit \in Unit /\ ReadOk(x) /\ x.at \in Reads
  BY DEF ReleaseRefused, IInv, TypeInv, CallType, CallsInv, CallOk, Reads
<1>2. PICK u : u = x.unit
  OBVIOUS
<1>3. CASE ~IsCurrent(u, x.generation)
  <2>1. UNCHANGED <<storeVars, submissionVars, writerVars>> /\ Return(c)
    BY <1>2, <1>3 DEF ReleaseRefused, storeVars
  <2> QED BY <2>1, CallReturns
<1>4. CASE IsCurrent(u, x.generation)
  <2>1. /\ ownership' = [ownership EXCEPT !.state = "free", !.owner = NoUnit]
        /\ progress' = [progress EXCEPT ![u] = "refused"]
        /\ UNCHANGED <<registered, captures, submissionVars, writerVars>> /\ Return(c)
    BY <1>2, <1>4 DEF ReleaseRefused, Release
  <2>2. ~Captured(u) /\ ownership.state = "held" /\ ownership.owner = u /\ u \in Unit
    BY <1>1, <1>2, <1>4 DEF ReadOk, IsCurrent
  <2>3. /\ ownership'.generation = ownership.generation /\ ownership'.state = "free"
        /\ ownership'.owner = NoUnit /\ ownership.generation \in Nat
        /\ ownership' \in [generation : Nat, state : {"free", "held", "abandoned"},
                           owner : Unit \cup {NoUnit}]
    BY <2>1 DEF IInv, TypeInv, StoreType
  <2>4. \A v \in Unit : progress'[v] = IF v = u THEN "refused" ELSE progress[v]
    BY <2>1 DEF IInv, TypeInv, StoreType
  <2>5. StoreType'
    BY <2>1, <2>3 DEF IInv, TypeInv, StoreType
  <2>6. CapturesFollowReads'
    BY <2>1, <2>2, <2>4 DEF IInv, CaptureInv, CapturesFollowReads, Captured
  <2>7. CapturedInOrder'
    <3>1. LastSequence' = LastSequence /\ \A v : Captured(v)' <=> Captured(v)
      BY <2>1 DEF LastSequence, Captured
    <3> QED BY <2>1, <2>3, <3>1 DEF IInv, CaptureInv, CapturedInOrder
  <2>8. CallType' /\ CallsInv'
    <3>1. PICK r : r = Idle
      OBVIOUS
    <3>2. r \in Call /\ r.at = "idle" /\ r.marker = 0 /\ CallOk(r)' /\ call' = [call EXCEPT ![c] = r]
      BY <2>1, <3>1, IdleIsOk DEF Return, CallOk, ReadOk, AttemptOk, FlushOk, MarkOk
    <3>3. ownership.generation <= ownership'.generation /\ ownership'.state # "held"
          /\ ownership'.generation \in Nat
      BY <2>3
    <3> QED BY <2>1, <3>2, <3>3, ReservationSteps
  <2> QED BY <2>1, <2>5, <2>6, <2>7, <2>8, OnlyStoreChanges DEF IInv, TypeInv, CaptureInv
<1> QED BY <1>3, <1>4

\* AbandonCapture: whoever holds the company, no read of that generation is current.
LEMMA AbandonCaptureKeeps ==
    ASSUME IInv, AbandonCapture, UNCHANGED writerVars
    PROVE  IInv'
<1>1. PICK u : u = ownership.owner
  OBVIOUS
<1>2. /\ ownership.state = "held" /\ u \in Unit /\ ownership.generation \in Nat
      /\ ownership' = [generation |-> ownership.generation + 1, state |-> "abandoned", owner |-> NoUnit]
      /\ progress' = [progress EXCEPT ![u] = "abandoned"]
      /\ UNCHANGED <<registered, captures, submissionVars, writerVars, call>>
  BY <1>1 DEF AbandonCapture, IInv, TypeInv, StoreType
<1>3. /\ ownership'.generation = ownership.generation + 1 /\ ownership'.state = "abandoned"
      /\ ownership'.owner = NoUnit
  BY <1>2
<1>4. \A v \in Unit : progress'[v] = IF v = u THEN "abandoned" ELSE progress[v]
  BY <1>2 DEF IInv, TypeInv, StoreType
<1>5. StoreType'
  BY <1>2 DEF IInv, TypeInv, StoreType
<1>6. CapturesFollowReads'
  BY <1>1, <1>2, <1>3, <1>4 DEF IInv, CaptureInv, CapturesFollowReads, Captured
<1>7. CapturedInOrder'
  <2>1. LastSequence' = LastSequence /\ \A v : Captured(v)' <=> Captured(v)
    BY <1>2 DEF LastSequence, Captured
  <2>2. ASSUME NEW v \in Unit, Captured(v) PROVE captures[v].generation <= ownership.generation + 1
    BY <1>2, <2>2 DEF IInv, TypeInv, StoreType, CaptureInv, CapturedInOrder
  <2> QED BY <1>2, <1>3, <2>1, <2>2 DEF IInv, CaptureInv, CapturedInOrder
<1>8. CallType' /\ CallsInv'
  <2>1. CallType'
    BY <1>2 DEF IInv, TypeInv, CallType
  <2>2. ASSUME NEW d \in Caller PROVE CallOk(call[d])'
    <3>1. PICK x : x = call[d]
      OBVIOUS
    <3>2. x \in Call /\ CallOk(x)
      BY <3>1 DEF IInv, TypeInv, CallType, CallsInv
    <3>3. ownership.generation <= ownership'.generation /\ ownership'.state # "held"
          /\ ownership'.generation \in Nat
      BY <1>2, <1>3
    <3>4. CallOk(x)'
      BY <1>2, <3>2, <3>3, OwnershipMovesOn
    <3>5. call'[d] = x
      BY <1>2, <3>1
    <3> QED BY <3>4, <3>5 DEF CallOk, ReadOk, AttemptOk, FlushOk, MarkOk
  <2> QED BY <1>2, <2>1, <2>2 DEF IInv, CallsInv
<1> QED BY <1>2, <1>5, <1>6, <1>7, <1>8, OnlyStoreChanges DEF IInv, TypeInv, CaptureInv

--------------------------------------------------------------------------------
(* The store of captures: freezing.                                            *)

\* Freeze: the capture gets the next place, under a generation later than any other.
LEMMA FreezeKeeps ==
    ASSUME IInv, NEW c \in Caller, Freeze(c), UNCHANGED writerVars
    PROVE  IInv'
<1> DEFINE x == call[c]
<1>1. x.at = "mapped" /\ x.unit \in Unit /\ ReadOk(x) /\ x.at \in Reads
  BY DEF Freeze, IInv, TypeInv, CallType, CallsInv, CallOk, Reads
<1>2. PICK u : u = x.unit
  OBVIOUS
<1>3. PICK g : g = x.generation
  OBVIOUS
<1>4. /\ u \in Unit /\ ~Captured(u) /\ ownership.generation = g /\ ownership.state = "held"
      /\ ownership.owner = u /\ g \in Nat
  BY <1>1, <1>2, <1>3 DEF Freeze, ReadOk, IsCurrent, IInv, TypeInv, StoreType
<1>5. /\ captures' = [captures EXCEPT ![u] = [sequence |-> LastSequence + 1, generation |-> g]]
      /\ progress' = [progress EXCEPT ![u] = "captured"]
      /\ ownership' = [ownership EXCEPT !.state = "free", !.owner = NoUnit]
      /\ UNCHANGED <<registered, submissionVars, writerVars>> /\ Return(c)
  BY <1>2, <1>3, <1>4 DEF Freeze, Release
<1>6. LastSequence \in Nat /\ LastSequence' = LastSequence + 1
  <2> DEFINE S == {v \in Unit : Captured(v)}
  <2>1. IsFiniteSet(S) /\ Cardinality(S) \in Nat
    BY CaptureAssumption, FS_Subset, FS_CardinalityType
  <2>2. LastSequence \in Nat
    BY <2>1 DEF LastSequence
  <2>3. \A v \in Unit : captures'[v] = IF v = u THEN [sequence |-> LastSequence + 1, generation |-> g]
                                       ELSE captures[v]
    BY <1>5 DEF IInv, TypeInv, StoreType
  <2>4. [sequence |-> LastSequence + 1, generation |-> g] # NoCapture
    BY <2>2 DEF NoCapture
  <2>5. \A v \in Unit : Captured(v)' <=> v = u \/ Captured(v)
    BY <2>3, <2>4 DEF Captured, NoCapture
  <2>6. {v \in Unit : Captured(v)'} = S \cup {u} /\ u \notin S
    BY <1>4, <2>5
  <2>7. Cardinality(S \cup {u}) = Cardinality(S) + 1
    BY <2>1, <2>6, FS_AddElement
  <2> QED BY <2>1, <2>6, <2>7 DEF LastSequence
<1>7. \A v \in Unit : /\ captures'[v] = IF v = u THEN [sequence |-> LastSequence + 1, generation |-> g]
                                         ELSE captures[v]
                      /\ Captured(v)' <=> v = u \/ Captured(v)
  BY <1>4, <1>5, <1>6 DEF Captured, NoCapture, IInv, TypeInv, StoreType
<1>8. /\ ownership'.generation = g /\ ownership'.state = "free" /\ ownership'.owner = NoUnit
      /\ ownership' \in [generation : Nat, state : {"free", "held", "abandoned"},
                         owner : Unit \cup {NoUnit}]
  BY <1>4, <1>5 DEF IInv, TypeInv, StoreType
<1>9. StoreType'
  BY <1>4, <1>5, <1>6, <1>8 DEF IInv, TypeInv, StoreType
<1>10. CapturedInOrder'
  <2>1. ASSUME NEW v \in Unit, Captured(v)
        PROVE  /\ captures[v].sequence \in 1..LastSequence /\ captures[v].generation < g
               /\ captures[v].generation \in Nat
    BY <1>4, <2>1 DEF IInv, TypeInv, StoreType, CaptureInv, CapturedInOrder
  <2>2. ASSUME NEW v \in Unit, Captured(v)'
        PROVE  /\ captures'[v].sequence \in 1..LastSequence' /\ captures'[v].generation <= g
    BY <1>4, <1>6, <1>7, <2>1, <2>2
  <2>3. ASSUME NEW v \in Unit, NEW w \in Unit, Captured(v)', Captured(w)',
               captures'[v].sequence = captures'[w].sequence
        PROVE  v = w
    <3>1. CASE v = u \/ w = u
      BY <1>6, <1>7, <2>1, <2>3, <3>1
    <3>2. CASE v # u /\ w # u
      BY <1>7, <2>3, <3>2 DEF IInv, CaptureInv, CapturedInOrder
    <3> QED BY <3>1, <3>2
  <2> QED BY <1>8, <2>2, <2>3 DEF CapturedInOrder
<1>11. CapturesFollowReads'
  <2>1. ASSUME NEW v \in Unit, Captured(v)
        PROVE  /\ captures[v].sequence \in 1..LastSequence /\ captures[v].generation < g
               /\ captures[v].generation \in Nat
    BY <1>4, <2>1 DEF IInv, TypeInv, StoreType, CaptureInv, CapturedInOrder
  <2>2. ASSUME NEW v \in Unit, NEW w \in Unit, Captured(v)', Captured(w)'
        PROVE  captures'[v].sequence < captures'[w].sequence
                  <=> captures'[v].generation < captures'[w].generation
    <3>1. CASE v = u \/ w = u
      BY <1>4, <1>6, <1>7, <2>1, <2>2, <3>1
    <3>2. CASE v # u /\ w # u
      BY <1>7, <2>2, <3>2 DEF IInv, CaptureInv, CapturesFollowReads
    <3> QED BY <3>1, <3>2
  <2>3. \A v \in Unit : progress'[v] = IF v = u THEN "captured" ELSE progress[v]
    BY <1>5 DEF IInv, TypeInv, StoreType
  <2>4. ASSUME NEW v \in Unit
        PROVE  /\ progress'[v] = "captured" => Captured(v)'
               /\ Captured(v)' => progress'[v] \in {"captured", "abandoned"}
               /\ progress'[v] # "reserved"
    BY <1>4, <1>7, <2>3 DEF IInv, CaptureInv, CapturesFollowReads
  <2> QED BY <2>2, <2>4 DEF CapturesFollowReads
<1>12. CallType' /\ CallsInv'
  <2>1. CallType /\ CallsInv
    BY DEF IInv, TypeInv
  <2>2. PICK r : r = Idle
    OBVIOUS
  <2>3. r \in Call /\ r.at = "idle" /\ r.marker = 0 /\ CallOk(r)' /\ call' = [call EXCEPT ![c] = r]
    BY <1>5, <2>2, IdleIsOk DEF Return, CallOk, ReadOk, AttemptOk, FlushOk, MarkOk
  <2>4. ASSUME NEW y \in Call, y.at # "idle" => y.unit \in Unit, CallOk(y) PROVE CallOk(y)'
    <3> USE DEF submissionVars, writerVars, intentVars, crmVars
    <3>1. ReadOk(y)'
      <4>1. ~IsCurrent(y.unit, y.generation)'
        BY <1>8 DEF IsCurrent
      <4>2. y.at \in Reads => y.generation <= ownership'.generation
        BY <1>4, <1>8, <2>4 DEF CallOk, ReadOk
      <4> QED BY <4>1, <4>2 DEF ReadOk
    <3>2. Captured(y.unit) /\ y.at # "idle" => Captured(y.unit)'
      BY <1>7, <2>4
    <3>3. AttemptOk(y)'
      BY <1>5, <2>4, <3>2 DEF CallOk, AttemptOk, Minted
    <3>4. FlushOk(y)' /\ MarkOk(y)'
      BY <1>5, <2>4, <3>2 DEF CallOk, FlushOk, MarkOk, Writes, Flushes, Continues
    <3> QED BY <3>1, <3>3, <3>4 DEF CallOk
  <2>5. \A d \in Caller \ {c} : \E y : y = call[d] /\ (CallOk(y) => CallOk(y)')
    BY <2>1, <2>4 DEF CallType
  <2> QED BY <2>1, <2>3, <2>5, CallReplaced, CallsFollow
<1>13. SubmissionType' /\ WriterType'
  BY <1>5 DEF IInv, TypeInv, SubmissionType, WriterType, submissionVars, writerVars, intentVars, crmVars
<1>14. SubmissionInv'
  BY <1>5, <1>7 DEF IInv, SubmissionInv, PlansHold, RejectedOnlyWhenOvertaken, Minted, submissionVars
<1>15. WriterInv'
  <2> USE DEF submissionVars, writerVars, intentVars, crmVars
  <2>1. OutboxInv' /\ LedgerInv' /\ RequestInv'
    BY <1>5 DEF IInv, WriterInv, OutboxInv, LedgerInv, RequestInv
  <2>2. StateInv'
    BY <1>5, <1>7 DEF IInv, WriterInv, StateInv
  <2>3. RevisionInv'
    <3>1. revision[u] = 0
      BY <1>4 DEF IInv, WriterInv, StateInv
    <3>2. revision' = revision /\ state' = state /\ \A v \in Unit : revision[v] \in Nat
      BY <1>5 DEF IInv, TypeInv, WriterType
    <3>3. ASSUME NEW v \in Unit, NEW w \in Unit, 0 < revision[v], revision[v] < revision[w]
          PROVE  captures'[v].sequence < captures'[w].sequence
      <4>1. v # u /\ w # u
        BY <3>1, <3>2, <3>3
      <4> QED BY <1>7, <3>3, <4>1 DEF IInv, WriterInv, RevisionInv
    <3> QED BY <3>2, <3>3 DEF IInv, WriterInv, RevisionInv
  <2> QED BY <2>1, <2>2, <2>3 DEF WriterInv
<1> QED BY <1>9, <1>10, <1>11, <1>12, <1>13, <1>14, <1>15 DEF IInv, TypeInv, CaptureInv

--------------------------------------------------------------------------------
(* The submissions.                                                            *)

\* The evidence versions that the ledger has are those of the units it has evidence of.
LEMMA MintedIs ==
    ASSUME domain \subseteq Unit \X Stage, NEW e
    PROVE  e \in Minted <=> \E v \in Unit : Evidence[v] = e /\ <<v, "evidence">> \in domain
<1>1. ASSUME e \in Minted PROVE \E v \in Unit : Evidence[v] = e /\ <<v, "evidence">> \in domain
  <2>1. PICK y \in domain : y[2] = "evidence" /\ Evidence[y[1]] = e
    BY <1>1 DEF Minted
  <2>2. y = <<y[1], y[2]>> /\ y[1] \in Unit
    BY <2>1
  <2> QED BY <2>1, <2>2
<1>2. ASSUME NEW v \in Unit, Evidence[v] = e, <<v, "evidence">> \in domain PROVE e \in Minted
  <2>1. PICK y \in domain : y = <<v, "evidence">>
    BY <1>2
  <2>2. y[1] = v /\ y[2] = "evidence"
    BY <2>1
  <2> QED BY <1>2, <2>1, <2>2 DEF Minted
<1> QED BY <1>1, <1>2

LEMMA OnlySubmissionChanges ==
    ASSUME IInv, UNCHANGED <<storeVars, writerVars>>
    PROVE  StoreType' /\ WriterType' /\ CaptureInv' /\ WriterInv'
<1> USE DEF storeVars, writerVars, intentVars, crmVars
<1>1. StoreType' /\ WriterType'
  BY DEF IInv, TypeInv, StoreType, WriterType
<1>2. CaptureInv'
  BY DEF IInv, CaptureInv, CapturesFollowReads, CapturedInOrder, Captured, LastSequence
<1>3. OutboxInv' /\ LedgerInv'
  BY DEF IInv, WriterInv, OutboxInv, LedgerInv
<1>4. StateInv' /\ RequestInv' /\ RevisionInv'
  BY DEF IInv, WriterInv, StateInv, RequestInv, RevisionInv, Captured
<1> QED BY <1>1, <1>2, <1>3, <1>4 DEF WriterInv

\* What a call knows outlasts plans that are made, and events that are admitted.
LEMMA SubmissionMovesOn ==
    ASSUME IInv, UNCHANGED <<storeVars, writerVars>>, SubmissionType',
           \A v \in Unit : plan[v] # "none" => plan'[v] = plan[v],
           domain \subseteq domain',
           \A v \in Unit : Evidence[v] \in Minted /\ <<v, "evidence">> \notin domain =>
               <<v, "evidence">> \notin domain',
           NEW x \in Call, x.at # "idle" => x.unit \in Unit, CallOk(x)
    PROVE  CallOk(x)'
<1>1. \A e \in Minted : e \in Minted'
  BY DEF Minted
<1> USE DEF storeVars, writerVars, intentVars, crmVars
<1>2. ReadOk(x)' /\ FlushOk(x)' /\ MarkOk(x)'
  BY DEF CallOk, ReadOk, FlushOk, MarkOk, Captured, IsCurrent
<1>3. AttemptOk(x)'
  <2>1. AttemptOk(x)
    BY DEF CallOk
  <2>2. x.at = "planned" =>
           Captured(x.unit)' /\ x.plan # "none" /\ (x.plan = "reused" => Evidence[x.unit] \in Minted')
    BY <1>1, <2>1 DEF AttemptOk, Captured
  <2>3. x.at \in Submits => plan'[x.unit] = plan[x.unit] /\ plan'[x.unit] # "none"
    BY <2>1 DEF AttemptOk, Submits
  <2>4. x.at \in {"attempted", "answered"} =>
          /\ x.stage \in Stage
          /\ x.stage = "evidence" => plan'[x.unit] = "new"
          /\ x.stage = "decision" => (plan'[x.unit] = "reused" \/ <<x.unit, "evidence">> \in domain')
    BY <2>1, <2>3 DEF AttemptOk, Submits
  <2>5. x.at = "answered" /\ x.answer = "rejected" =>
          /\ x.stage = "evidence" /\ <<x.unit, "evidence">> \notin domain'
          /\ Evidence[x.unit] \in Minted'
    BY <1>1, <2>1 DEF AttemptOk
  <2>6. x.at = "answered" /\ x.answer = "accepted" => <<x.unit, x.stage>> \in domain'
    BY <2>1 DEF AttemptOk
  <2> QED BY <2>2, <2>3, <2>4, <2>5, <2>6 DEF AttemptOk
<1> QED BY <1>2, <1>3 DEF CallOk

\* A call steps while the submissions move on.
LEMMA SubmissionSteps ==
    ASSUME IInv, UNCHANGED <<storeVars, writerVars>>, SubmissionType',
           \A v \in Unit : plan[v] # "none" => plan'[v] = plan[v],
           domain \subseteq domain',
           \A v \in Unit : Evidence[v] \in Minted /\ <<v, "evidence">> \notin domain =>
               <<v, "evidence">> \notin domain',
           NEW c \in Caller, NEW r \in Call, r.at # "idle" => r.unit \in Unit, r.marker = 0,
           call' = [call EXCEPT ![c] = r], CallOk(r)', SubmissionInv'
    PROVE  IInv'
<1>1. CallType /\ CallsInv
  BY DEF IInv, TypeInv
<1>2. CallType'
  BY <1>1, CallReplaced
<1>3. \A d \in Caller \ {c} : \E x : x = call[d] /\ (CallOk(x) => CallOk(x)')
  <2>1. SUFFICES ASSUME NEW d \in Caller \ {c}, NEW x, x = call[d], CallOk(x) PROVE CallOk(x)'
    OBVIOUS
  <2>2. x \in Call /\ (x.at # "idle" => x.unit \in Unit)
    BY <1>1, <2>1 DEF CallType
  <2> QED BY <2>1, <2>2, SubmissionMovesOn
<1>4. CallsInv'
  BY <1>1, <1>3, CallsFollow
<1> QED BY <1>2, <1>4, OnlySubmissionChanges DEF IInv, TypeInv

\* FreezeSubmission: the first plan stays.
LEMMA FreezeSubmissionKeeps ==
    ASSUME IInv, NEW c \in Caller, FreezeSubmission(c), UNCHANGED writerVars
    PROVE  IInv'
<1> DEFINE x == call[c]
<1>1. PICK u : u = x.unit
  OBVIOUS
<1>2. PICK p : p = x.plan
  OBVIOUS
<1>3. /\ u \in Unit /\ Captured(u) /\ p \in {"new", "reused"}
      /\ p = "reused" => Evidence[u] \in Minted
  BY <1>1, <1>2 DEF FreezeSubmission, IInv, TypeInv, CallType, Call, CallsInv, CallOk, AttemptOk
<1>4. /\ plan' = [plan EXCEPT ![u] = IF @ = "none" THEN p ELSE @]
      /\ UNCHANGED <<storeVars, writerVars, accepted, failed, domain>> /\ Return(c)
  BY <1>1, <1>2 DEF FreezeSubmission
<1>5. \A v \in Unit : plan'[v] = IF v = u /\ plan[v] = "none" THEN p ELSE plan[v]
  BY <1>4 DEF IInv, TypeInv, SubmissionType
<1>6. SubmissionType'
  BY <1>3, <1>4 DEF IInv, TypeInv, SubmissionType
<1>7. SubmissionInv'
  <2>1. Minted' = Minted /\ \A v : Captured(v)' <=> Captured(v)
    BY <1>4 DEF Minted, Captured, storeVars
  <2>2. PlansHold'
    BY <1>3, <1>4, <1>5, <2>1 DEF IInv, SubmissionInv, PlansHold
  <2>3. RejectedOnlyWhenOvertaken'
    <3>1. failed \subseteq Unit
      BY DEF IInv, TypeInv, SubmissionType
    <3> QED BY <1>4, <1>5, <3>1 DEF IInv, SubmissionInv, RejectedOnlyWhenOvertaken
  <2> QED BY <2>2, <2>3 DEF SubmissionInv
<1>8. PICK r : r = Idle
  OBVIOUS
<1>9. r \in Call /\ r.at = "idle" /\ r.marker = 0 /\ CallOk(r)' /\ call' = [call EXCEPT ![c] = r]
  BY <1>4, <1>8, IdleIsOk DEF Return, CallOk, ReadOk, AttemptOk, FlushOk, MarkOk
<1> QED BY <1>4, <1>5, <1>6, <1>7, <1>9, SubmissionSteps

\* What would mint a version again is not admissible, and what stands on one is.
LEMMA OnlyMintedIsRefused ==
    ASSUME IInv, NEW u \in Unit, NEW s \in Stage, plan[u] # "none",
           s = "decision" => plan[u] = "reused" \/ <<u, "evidence">> \in domain
    PROVE  /\ ~Admissible(u, s) => s = "evidence" /\ Evidence[u] \in Minted
           /\ s = "evidence" /\ Admissible(u, s) => Evidence[u] \notin Minted
<1>1. domain \subseteq Unit \X Stage
  BY DEF IInv, TypeInv, SubmissionType
<1>2. s = "decision" => Evidence[u] \in Minted
  BY <1>1, MintedIs DEF IInv, SubmissionInv, PlansHold
<1>3. CASE s = "prerequisites"
  BY <1>3 DEF Admissible
<1>4. CASE s = "evidence"
  BY <1>4 DEF Admissible
<1>5. CASE s = "decision"
  BY <1>2, <1>5 DEF Admissible
<1> QED BY <1>3, <1>4, <1>5 DEF Stage

\* Ingest: what is admitted is the next stage of a plan that nobody has overtaken.
LEMMA IngestKeeps ==
    ASSUME IInv, NEW c \in Caller, Ingest(c), UNCHANGED writerVars
    PROVE  IInv'
<1> DEFINE x == call[c]
<1>1. PICK u : u = x.unit
  OBVIOUS
<1>2. PICK s : s = x.stage
  OBVIOUS
<1>3. /\ x \in Call /\ x.at = "attempted" /\ u \in Unit /\ s \in Stage /\ plan[u] # "none"
      /\ s = "evidence" => plan[u] = "new"
      /\ s = "decision" => plan[u] = "reused" \/ <<u, "evidence">> \in domain
      /\ x.marker = 0
  <2>1. x \in Call /\ x.at = "attempted" /\ x.unit \in Unit /\ CallOk(x)
    BY DEF Ingest, IInv, TypeInv, CallType, CallsInv
  <2>2. x.marker = 0
    BY <2>1 DEF CallOk, MarkOk, Flushes
  <2> QED BY <1>1, <1>2, <2>1, <2>2 DEF CallOk, AttemptOk, Submits
<1>4. PICK a : /\ a \in {"accepted", "rejected", "retryable", "unknown"}
               /\ call' = [call EXCEPT ![c].at = "answered", ![c].answer = a]
               /\ a = "accepted" => \/ domain' = domain /\ <<u, s>> \in domain
                                    \/ domain' = domain \cup {<<u, s>>} /\ Admissible(u, s)
               /\ a # "accepted" => domain' = domain
               /\ a = "rejected" => <<u, s>> \notin domain /\ ~Admissible(u, s)
  BY <1>1, <1>2 DEF Ingest
<1>5. PICK r : r = [x EXCEPT !.at = "answered", !.answer = a]
  OBVIOUS
<1>6. r \in Call /\ r.at = "answered" /\ r.answer = a /\ r.unit = u /\ r.stage = s /\ r.marker = 0
  BY <1>1, <1>2, <1>3, <1>4, <1>5 DEF Call, Submits
<1>7. call' = [call EXCEPT ![c] = r]
  BY <1>4, <1>5
<1>8. UNCHANGED <<storeVars, writerVars, plan, accepted, failed>>
  BY DEF Ingest
<1>9. SubmissionType'
  BY <1>3, <1>4, <1>8 DEF IInv, TypeInv, SubmissionType
<1>10. domain \subseteq domain' /\ \A y \in domain' : y \in domain \/ (y = <<u, s>> /\ Admissible(u, s))
  BY <1>4
<1>11. domain \subseteq Unit \X Stage /\ domain' \subseteq Unit \X Stage
  BY <1>9 DEF IInv, TypeInv, SubmissionType
<1>12. \A e \in Minted : e \in Minted'
  BY <1>10 DEF Minted
<1>13. ASSUME NEW v \in Unit, Evidence[v] \in Minted, <<v, "evidence">> \notin domain
       PROVE  <<v, "evidence">> \notin domain'
  <2>1. SUFFICES ASSUME v = u, s = "evidence", Admissible(u, s) PROVE FALSE
    BY <1>10, <1>13
  <2> QED BY <1>3, <1>13, <2>1, OnlyMintedIsRefused
<1>14. PlansHold'
  <2>1. \A v \in Unit : Captured(v)' <=> Captured(v)
    BY <1>8 DEF Captured, storeVars
  <2>2. ASSUME NEW v \in Unit, <<v, "decision">> \in domain'
        PROVE  plan'[v] = "reused" \/ (plan'[v] = "new" /\ <<v, "evidence">> \in domain')
    <3>1. CASE <<v, "decision">> \in domain
      BY <1>8, <1>10, <3>1 DEF IInv, SubmissionInv, PlansHold
    <3>2. CASE <<v, "decision">> \notin domain
      <4>1. v = u /\ s = "decision"
        BY <1>10, <2>2, <3>2
      <4>2. plan[u] \in {"new", "reused"}
        BY <1>3 DEF IInv, TypeInv, SubmissionType
      <4> QED BY <1>3, <1>8, <1>10, <4>1, <4>2
    <3> QED BY <3>1, <3>2
  <2> QED BY <1>8, <1>10, <1>12, <2>1, <2>2 DEF IInv, SubmissionInv, PlansHold
<1>15. RejectedOnlyWhenOvertaken'
  <2>1. SUFFICES ASSUME NEW f \in failed
                 PROVE  /\ plan[f] = "new" /\ <<f, "evidence">> \notin domain'
                        /\ <<f, "decision">> \notin domain'
                        /\ \E v \in Unit \ {f} : Evidence[v] = Evidence[f] /\ <<v, "evidence">> \in domain'
    BY <1>8 DEF RejectedOnlyWhenOvertaken
  <2>2. /\ f \in Unit /\ plan[f] = "new" /\ <<f, "evidence">> \notin domain
        /\ <<f, "decision">> \notin domain
        /\ \E v \in Unit \ {f} : Evidence[v] = Evidence[f] /\ <<v, "evidence">> \in domain
    BY DEF IInv, TypeInv, SubmissionType, SubmissionInv, RejectedOnlyWhenOvertaken
  <2>3. Evidence[f] \in Minted
    BY <1>11, <2>2, MintedIs
  <2>4. <<f, "evidence">> \notin domain'
    BY <1>13, <2>2, <2>3
  <2>5. <<f, "decision">> \notin domain'
    BY <1>3, <1>10, <2>2
  <2> QED BY <1>10, <2>2, <2>4, <2>5
<1>16. CallOk(r)'
  <2>1. a = "accepted" => <<u, s>> \in domain'
    BY <1>4
  <2>2. a = "rejected" => s = "evidence" /\ <<u, "evidence">> \notin domain' /\ Evidence[u] \in Minted'
    BY <1>3, <1>4, <1>12, OnlyMintedIsRefused
  <2>3. s = "decision" => (plan'[u] = "reused" \/ <<u, "evidence">> \in domain')
    BY <1>3, <1>8, <1>10
  <2>4. AttemptOk(r)'
    BY <1>3, <1>6, <1>8, <2>1, <2>2, <2>3 DEF AttemptOk
  <2>5. ReadOk(r)' /\ FlushOk(r)' /\ MarkOk(r)'
    BY <1>6 DEF ReadOk, FlushOk, MarkOk, Reads, Writes, Flushes, Continues
  <2> QED BY <2>4, <2>5 DEF CallOk
<1> QED BY <1>3, <1>6, <1>7, <1>8, <1>9, <1>10, <1>13, <1>14, <1>15, <1>16, SubmissionSteps
     DEF SubmissionInv

\* Observe: a rejection is final, and it was one of evidence that another unit minted.
LEMMA ObserveKeeps ==
    ASSUME IInv, NEW c \in Caller, Observe(c), UNCHANGED writerVars
    PROVE  IInv'
<1> DEFINE x == call[c]
<1>1. PICK u : u = x.unit
  OBVIOUS
<1>2. PICK s : s = x.stage
  OBVIOUS
<1>3. PICK a : a = x.answer
  OBVIOUS
<1>4. /\ u \in Unit /\ s \in Stage /\ plan[u] # "none" /\ (s = "evidence" => plan[u] = "new")
      /\ a = "accepted" => <<u, s>> \in domain
      /\ a = "rejected" => s = "evidence" /\ <<u, "evidence">> \notin domain /\ Evidence[u] \in Minted
  <2>1. x.at = "answered" /\ x.unit \in Unit /\ AttemptOk(x)
    BY DEF Observe, IInv, TypeInv, CallType, CallsInv, CallOk
  <2> QED BY <1>1, <1>2, <1>3, <2>1 DEF AttemptOk, Submits
<1>5. /\ accepted' = [accepted EXCEPT ![u] = IF a = "accepted" THEN @ \cup {s} ELSE @]
      /\ failed' = IF a = "rejected" THEN failed \cup {u} ELSE failed
      /\ call' = [call EXCEPT ![c] = IF a = "accepted" THEN [Idle EXCEPT !.at = "resuming", !.unit = u]
                                     ELSE Idle]
      /\ UNCHANGED <<storeVars, writerVars, plan, domain>>
  BY <1>1, <1>2, <1>3 DEF Observe
<1>6. PICK r : r = IF a = "accepted" THEN [Idle EXCEPT !.at = "resuming", !.unit = u] ELSE Idle
  OBVIOUS
<1>7. r \in Call /\ r.at \in {"idle", "resuming"} /\ (r.at # "idle" => r.unit = u) /\ r.marker = 0
  BY <1>4, <1>6 DEF Idle, Call, Submits
<1>8. CallOk(r)'
  BY <1>4, <1>5, <1>7 DEF CallOk, ReadOk, AttemptOk, FlushOk, MarkOk, Reads, Submits, Writes,
     Flushes, Continues
<1>9. SubmissionType'
  BY <1>4, <1>5 DEF IInv, TypeInv, SubmissionType
<1>10. Minted' = Minted /\ \A v : Captured(v)' <=> Captured(v)
  BY <1>5 DEF Minted, Captured, storeVars
<1>11. PlansHold'
  <2>1. \A v \in Unit : \A t \in accepted'[v] : t \in accepted[v] \/ (v = u /\ t = s /\ a = "accepted")
    BY <1>4, <1>5 DEF IInv, TypeInv, SubmissionType
  <2> QED BY <1>4, <1>5, <1>10, <2>1 DEF IInv, SubmissionInv, PlansHold
<1>12. RejectedOnlyWhenOvertaken'
  <2>1. SUFFICES ASSUME NEW f \in failed'
                 PROVE  /\ plan[f] = "new" /\ <<f, "evidence">> \notin domain
                        /\ <<f, "decision">> \notin domain
                        /\ \E v \in Unit \ {f} : Evidence[v] = Evidence[f] /\ <<v, "evidence">> \in domain
    BY <1>5 DEF RejectedOnlyWhenOvertaken
  <2>2. CASE f \in failed
    BY <2>2 DEF IInv, SubmissionInv, RejectedOnlyWhenOvertaken
  <2>3. CASE f = u /\ a = "rejected"
    <3>1. plan[f] = "new" /\ <<f, "evidence">> \notin domain /\ Evidence[f] \in Minted
      BY <1>4, <2>3
    <3>2. <<f, "decision">> \notin domain
      BY <1>4, <2>3, <3>1 DEF IInv, SubmissionInv, PlansHold
    <3>3. PICK v \in Unit : Evidence[v] = Evidence[f] /\ <<v, "evidence">> \in domain
      <4>1. domain \subseteq Unit \X Stage
        BY DEF IInv, TypeInv, SubmissionType
      <4> QED BY <3>1, <4>1, MintedIs
    <3>4. v # f
      BY <3>1, <3>3
    <3> QED BY <3>1, <3>2, <3>3, <3>4
  <2> QED BY <1>5, <2>2, <2>3
<1>13. call' = [call EXCEPT ![c] = r]
  BY <1>5, <1>6
<1>14. /\ \A v \in Unit : plan[v] # "none" => plan'[v] = plan[v]
       /\ domain \subseteq domain'
       /\ \A v \in Unit : Evidence[v] \in Minted /\ <<v, "evidence">> \notin domain =>
             <<v, "evidence">> \notin domain'
  BY <1>5
<1>15. r.at # "idle" => r.unit \in Unit
  BY <1>4, <1>7
<1>16. SubmissionInv'
  BY <1>11, <1>12 DEF SubmissionInv
<1> QED BY <1>5, <1>7, <1>8, <1>9, <1>13, <1>14, <1>15, <1>16, SubmissionSteps

--------------------------------------------------------------------------------
(* The outbox, as a sequence.                                                  *)

\* The kind of the newest observation of an operation, among the first n.
LEMMA PlacesAreBounded ==
    ASSUME NEW s, NEW u, NEW n \in Nat, Places(s, u, n) # {}
    PROVE  /\ Max(Places(s, u, n)) \in 1..n /\ s[Max(Places(s, u, n))].unit = u
           /\ \A j \in 1..n : s[j].unit = u => j <= Max(Places(s, u, n))
<1>1. Places(s, u, n) \subseteq 0..n
  BY DEF Places
<1>2. Max(Places(s, u, n)) \in Places(s, u, n)
      /\ \A y \in Places(s, u, n) : y <= Max(Places(s, u, n))
  BY <1>1, MaxOfBounded
<1> QED BY <1>2 DEF Places

LEMMA KindByIs ==
    ASSUME NEW s, NEW u, NEW n \in Nat
    PROVE  \/ KindBy(s, u, n) = "none" /\ \A i \in 1..n : s[i].unit # u
           \/ \E i \in 1..n : s[i].unit = u /\ KindBy(s, u, n) = s[i].kind
<1>1. CASE Places(s, u, n) = {}
  BY <1>1 DEF KindBy, Places
<1>2. CASE Places(s, u, n) # {}
  <2>1. Max(Places(s, u, n)) \in 1..n /\ s[Max(Places(s, u, n))].unit = u
    BY <1>2, PlacesAreBounded
  <2> QED BY <1>2, <2>1 DEF KindBy
<1> QED BY <1>1, <1>2

\* It depends on the first n alone.
LEMMA KindBySame ==
    ASSUME NEW s, NEW t, NEW u, NEW n \in Nat, \A i \in 1..n : t[i] = s[i]
    PROVE  Places(t, u, n) = Places(s, u, n) /\ KindBy(t, u, n) = KindBy(s, u, n)
<1>1. Places(t, u, n) = Places(s, u, n)
  BY DEF Places
<1>2. CASE Places(s, u, n) = {}
  BY <1>1, <1>2 DEF KindBy
<1>3. CASE Places(s, u, n) # {}
  <2>1. Max(Places(s, u, n)) \in 1..n
    BY <1>3, PlacesAreBounded
  <2> QED BY <1>1, <1>3, <2>1 DEF KindBy
<1> QED BY <1>1, <1>2, <1>3

\* Observations of other operations do not change it.
LEMMA KindBySkips ==
    ASSUME NEW s, NEW u, NEW m \in Nat, NEW n \in Nat, m <= n,
           \A i \in (m + 1)..n : s[i].unit # u
    PROVE  Places(s, u, n) = Places(s, u, m) /\ KindBy(s, u, n) = KindBy(s, u, m)
<1>1. \A i : i \in 1..n <=> i \in 1..m \/ i \in (m + 1)..n
  OBVIOUS
<1>2. Places(s, u, n) = Places(s, u, m)
  BY <1>1 DEF Places
<1> QED BY <1>2 DEF KindBy

LEMMA KindByNewest ==
    ASSUME NEW s, NEW u, NEW n \in Nat, n > 0, s[n].unit = u
    PROVE  KindBy(s, u, n) = s[n].kind
<1>1. n \in Places(s, u, n)
  BY DEF Places
<1>2. Max(Places(s, u, n)) \in 1..n /\ n <= Max(Places(s, u, n))
  BY <1>1, PlacesAreBounded
<1>3. Max(Places(s, u, n)) = n
  BY <1>2
<1> QED BY <1>1, <1>3 DEF KindBy

\* The newest revision that the first n observations are of.
LEMMA RevisionByIs ==
    ASSUME NEW s, NEW n \in Nat, NEW revisions, \A i \in 1..n : revisions[s[i].unit] \in Nat
    PROVE  /\ RevisionBy(s, revisions, n) \in Nat
           /\ \/ RevisionBy(s, revisions, n) = 0
              \/ \E i \in 1..n : RevisionBy(s, revisions, n) = revisions[s[i].unit]
           /\ \A i \in 1..n : revisions[s[i].unit] <= RevisionBy(s, revisions, n)
<1> DEFINE f == [i \in 1..n |-> revisions[s[i].unit]]
           T == {revisions[s[i].unit] : i \in 1..n}
           S == {0} \cup T
<1>1. IsFiniteSet(T)
  <2>1. IsFiniteSet(1..n)
    <3> HIDE DEF f, T, S
    <3>1. 1 \in Int /\ n \in Int
      OBVIOUS
    <3>2. \A a \in Int, b \in Int : IsFiniteSet(a..b)
      BY FS_Interval, Zenon
    <3> QED BY <3>1, <3>2, Zenon
  <2>2. f \in Surjection(1..n, T)
    <3>1. f \in [1..n -> T]
      OBVIOUS
    <3>2. ASSUME NEW y \in T PROVE \E i \in 1..n : f[i] = y
      OBVIOUS
    <3> HIDE DEF f, T, S
    <3> QED BY <3>1, <3>2 DEF Surjection
  <2> HIDE DEF f, T
  <2> QED BY <2>1, <2>2, FS_Surjection
<1>2. IsFiniteSet(S)
  <2> HIDE DEF T
  <2>1. IsFiniteSet(T \cup {0})
    BY <1>1, FS_AddElement
  <2>2. T \cup {0} = S
    OBVIOUS
  <2> QED BY <2>1, <2>2
<1>3. S \subseteq Nat /\ S # {}
  OBVIOUS
<1>4. Max(S) \in S /\ \A y \in S : y <= Max(S)
  <2> HIDE DEF S
  <2> QED BY <1>2, <1>3, MaxOfFinite
<1>5. RevisionBy(s, revisions, n) = Max(S)
  BY DEF RevisionBy
<1> HIDE DEF f
<1> QED BY <1>3, <1>4, <1>5

\* An observation stays good, whatever is appended and whichever units are bound later.
LEMMA GoodStays ==
    ASSUME NEW s, NEW t, NEW revisions, NEW later, NEW n \in Nat,
           \A i \in 1..n : t[i] = s[i] /\ later[s[i].unit] = revisions[s[i].unit],
           NEW k \in 1..n, Good(s, revisions, k)
    PROVE  Good(t, later, k)
<1>1. k - 1 \in Nat /\ t[k] = s[k] /\ \A i \in 1..(k - 1) : i \in 1..n
  OBVIOUS
<1>2. \A u : KindBy(t, u, k - 1) = KindBy(s, u, k - 1) /\ Places(t, u, k - 1) = Places(s, u, k - 1)
  BY <1>1, KindBySame
<1>3. RevisionBy(t, later, k - 1) = RevisionBy(s, revisions, k - 1)
  <2>1. \A i \in 1..(k - 1) : later[t[i].unit] = revisions[s[i].unit]
    BY <1>1
  <2>2. {later[t[i].unit] : i \in 1..(k - 1)} = {revisions[s[i].unit] : i \in 1..(k - 1)}
    BY <2>1
  <2> QED BY <2>2 DEF RevisionBy
<1>4. InTurn(t, k) /\ Alone(t, k) /\ Proved(t[k])
  BY <1>1, <1>2 DEF Good, InTurn, Alone
<1>5. Numbered(t, later, k)
  <2>1. later[t[k].unit] = revisions[s[k].unit]
    BY <1>1
  <2>2. \A i \in Places(s, s[k].unit, k - 1) : t[i] = s[i]
    BY <1>1 DEF Places
  <2> QED BY <1>1, <1>2, <1>3, <2>1, <2>2 DEF Good, Numbered
<1> QED BY <1>4, <1>5 DEF Good

\* Min of a non-empty set of natural numbers is its least element.
LEMMA MinOfNat ==
    ASSUME NEW S, S \subseteq Nat, S # {}
    PROVE  Min(S) \in S /\ \A y \in S : Min(S) <= y
<1>1. \E x \in S : \A y \in S : x <= y
  BY LeastElement
<1> QED BY <1>1 DEF Min

--------------------------------------------------------------------------------
(* A step of the writer.                                                       *)

\* What a reservation of the writer may do to that of the company: it takes one that nobody
\* has, or leaves one that no capture is made under.
OwnershipStep ==
    /\ ownership' \in [generation : Nat, state : {"free", "held", "abandoned"},
                       owner : Unit \cup {NoUnit}]
    /\ ownership'.state = "held" => ownership'.owner \in Unit
    /\ ownership.generation <= ownership'.generation
    /\ \/ ownership' = ownership
       \/ /\ \A u \in Unit : progress[u] # "reserved"
          /\ ownership'.state # "held" \/ ownership'.generation > ownership.generation

\* The marked calls of others are not touched.
MarksStay(x) == x.marker # 0 => state'[x.unit] = "unknown" /\ request'[x.unit] = "none"

LEMMA OwnershipStays ==
    ASSUME IInv, ownership' = ownership
    PROVE  OwnershipStep
BY DEF OwnershipStep, IInv, TypeInv, StoreType

LEMMA StoreStays ==
    ASSUME IInv, UNCHANGED <<registered, progress, captures, submissionVars>>, OwnershipStep
    PROVE  StoreType' /\ SubmissionType' /\ CaptureInv' /\ SubmissionInv'
<1> USE DEF submissionVars
<1>1. StoreType' /\ SubmissionType'
  BY DEF IInv, TypeInv, StoreType, SubmissionType, OwnershipStep
<1>2. SubmissionInv'
  BY DEF IInv, SubmissionInv, PlansHold, RejectedOnlyWhenOvertaken, Captured, Minted
<1>3. CapturesFollowReads'
  BY DEF IInv, CaptureInv, CapturesFollowReads, Captured, OwnershipStep
<1>4. CapturedInOrder'
  <2>1. LastSequence' = LastSequence /\ \A v : Captured(v)' <=> Captured(v)
    BY DEF LastSequence, Captured
  <2>2. ownership.generation \in Nat /\ ownership'.generation \in Nat
    BY DEF IInv, TypeInv, StoreType, OwnershipStep
  <2>3. ASSUME NEW v \in Unit, Captured(v)
        PROVE  /\ captures[v].generation <= ownership'.generation
               /\ ownership'.state = "held" => captures[v].generation < ownership'.generation
    <3>1. /\ captures[v].generation \in Nat /\ captures[v].generation <= ownership.generation
          /\ ownership.state = "held" => captures[v].generation < ownership.generation
      BY <2>3 DEF IInv, TypeInv, StoreType, CaptureInv, CapturedInOrder
    <3>2. CASE ownership' = ownership
      BY <3>1, <3>2
    <3>3. CASE ownership'.state # "held"
      BY <2>2, <3>1, <3>3 DEF OwnershipStep
    <3>4. CASE ownership'.generation > ownership.generation
      BY <2>2, <3>1, <3>4 DEF OwnershipStep
    <3> QED BY <3>2, <3>3, <3>4 DEF OwnershipStep
  <2> QED BY <2>1, <2>3 DEF IInv, CaptureInv, CapturedInOrder
<1> QED BY <1>1, <1>2, <1>3, <1>4 DEF CaptureInv

\* What a call knows outlasts what the writer does for another one.
LEMMA CallOutlasts ==
    ASSUME IInv, UNCHANGED <<captures, submissionVars>>, OwnershipStep, WriterType',
           Len(outbox) <= Len(outbox'), Len(ledger) <= Len(ledger'),
           NEW x \in Call, CallOk(x), MarksStay(x)
    PROVE  CallOk(x)'
<1> USE DEF submissionVars
<1>1. ownership.generation \in Nat /\ ownership'.generation \in Nat /\ x.generation \in Nat
  BY DEF IInv, TypeInv, StoreType, OwnershipStep, Call
<1>2. ReadOk(x)'
  <2>1. SUFFICES ASSUME x.at \in Reads
                 PROVE  /\ x.generation <= ownership'.generation
                        /\ IsCurrent(x.unit, x.generation)' => ~Captured(x.unit)'
    BY DEF ReadOk
  <2>2. x.generation <= ownership.generation
        /\ (IsCurrent(x.unit, x.generation) => ~Captured(x.unit))
    BY <2>1 DEF CallOk, ReadOk
  <2>3. IsCurrent(x.unit, x.generation)' => IsCurrent(x.unit, x.generation)
    <3>1. CASE ownership' = ownership
      BY <3>1 DEF IsCurrent
    <3>2. CASE ownership'.state # "held"
      BY <3>2 DEF IsCurrent
    <3>3. CASE ownership'.generation > ownership.generation
      BY <1>1, <2>2, <3>3 DEF IsCurrent
    <3> QED BY <3>1, <3>2, <3>3 DEF OwnershipStep
  <2> QED BY <1>1, <2>2, <2>3 DEF Captured, OwnershipStep
<1>3. AttemptOk(x)'
  BY DEF CallOk, AttemptOk, Captured, Minted
<1>4. Len(outbox) \in Nat /\ Len(outbox') \in Nat /\ Len(ledger) \in Nat /\ Len(ledger') \in Nat
  BY LenProperties DEF IInv, TypeInv, WriterType
<1>5. FlushOk(x)'
  <2>1. FlushOk(x) /\ x.todo \subseteq Nat /\ x.seen \in Nat
    BY DEF CallOk, Call
  <2>2. x.todo \subseteq 1..Len(outbox) => x.todo \subseteq 1..Len(outbox')
    BY <1>4
  <2>3. \A t \in x.todo : \A p \in 1..t : p <= Len(ledger) => p <= Len(ledger')
    BY <1>4, <2>1
  <2>4. x.at = "delivered" => Min(x.todo) <= Len(ledger')
    <3>1. x.at = "delivered" => Min(x.todo) \in Nat
      BY <2>1, MinOfNat DEF FlushOk
    <3> QED BY <1>4, <2>1, <3>1 DEF FlushOk
  <2>5. x.at = "preparing" => x.seen <= Len(ledger')
    BY <1>4, <2>1 DEF FlushOk
  <2> QED BY <2>1, <2>2, <2>3, <2>4, <2>5 DEF FlushOk
<1>6. MarkOk(x)'
  BY DEF CallOk, MarkOk, MarksStay, Captured
<1> QED BY <1>2, <1>3, <1>5, <1>6 DEF CallOk

\* A call makes a step of the writer.
LEMMA WriterSteps ==
    ASSUME IInv, UNCHANGED <<registered, progress, captures, submissionVars>>, OwnershipStep,
           Len(outbox) <= Len(outbox'), Len(ledger) <= Len(ledger'), WriterType', WriterInv',
           NEW c \in Caller, NEW r \in Call, r.at # "idle" => r.unit \in Unit,
           call' = [call EXCEPT ![c] = r], CallOk(r)',
           r.marker # 0 => \A d \in Caller \ {c} : call[d].marker # 0 => call[d].unit # r.unit,
           \A d \in Caller \ {c} : MarksStay(call[d])
    PROVE  IInv'
<1>1. CallType /\ CallsInv
  BY DEF IInv, TypeInv
<1>2. CallType'
  BY <1>1, CallReplaced
<1>3. \A d \in Caller \ {c} : \E x : x = call[d] /\ (CallOk(x) => CallOk(x)')
  <2>1. SUFFICES ASSUME NEW d \in Caller \ {c}, NEW x, x = call[d], CallOk(x) PROVE CallOk(x)'
    OBVIOUS
  <2>2. x \in Call /\ MarksStay(x)
    BY <1>1, <2>1 DEF CallType, MarksStay
  <2> QED BY <2>1, <2>2, CallOutlasts
<1>4. CallsInv'
  BY <1>1, <1>3, CallsFollow
<1> QED BY <1>2, <1>4, StoreStays DEF IInv, TypeInv

\* The fake changes by itself.
LEMMA FakeSteps ==
    ASSUME IInv, UNCHANGED <<storeVars, submissionVars, call, outbox, ledger>>,
           WriterType', WriterInv', \A d \in Caller : MarksStay(call[d])
    PROVE  IInv'
<1>1. CallType /\ CallsInv /\ OwnershipStep
  BY OwnershipStays DEF IInv, TypeInv, storeVars
<1>2. UNCHANGED <<registered, progress, captures, submissionVars>>
  BY DEF storeVars
<1>3. CallType'
  BY <1>1 DEF CallType
<1>4. Len(outbox) \in Nat /\ Len(ledger) \in Nat
  BY LenProperties DEF IInv, TypeInv, WriterType
<1>5. ASSUME NEW d \in Caller PROVE CallOk(call[d])'
  <2>1. PICK x : x = call[d]
    OBVIOUS
  <2>2. x \in Call /\ MarksStay(x) /\ CallOk(x)
    BY <1>1, <2>1 DEF CallType, MarksStay, CallsInv
  <2>3. Len(outbox) <= Len(outbox') /\ Len(ledger) <= Len(ledger')
    BY <1>4
  <2>4. CallOk(x)'
    BY <1>1, <1>2, <2>2, <2>3, CallOutlasts
  <2>5. call'[d] = x
    BY <2>1
  <2> QED BY <2>4, <2>5 DEF CallOk, ReadOk, AttemptOk, FlushOk, MarkOk
<1>6. CallsInv'
  BY <1>1, <1>5 DEF CallsInv
<1> QED BY <1>1, <1>2, <1>3, <1>6, StoreStays DEF IInv, TypeInv

\* What the ledger has of an operation is what the outbox has of it, up to there.
LEMMA LedgerIsPrefix ==
    ASSUME IInv, NEW n \in Nat, n <= Len(ledger)
    PROVE  /\ \A u : Own(u, n) = Places(outbox, u, n) /\ LatestKind(u, n) = KindBy(outbox, u, n)
           /\ MaxRevision(n) = RevisionBy(outbox, revision, n)
<1>1. Len(ledger) \in Nat /\ \A i \in 1..Len(ledger) : ledger[i] = i
  BY LenProperties DEF IInv, TypeInv, WriterType, WriterInv, LedgerInv
<1>2. \A i \in 1..n : ledger[i] = i
  BY <1>1
<1>3. ASSUME NEW u PROVE Own(u, n) = Places(outbox, u, n) /\ LatestKind(u, n) = KindBy(outbox, u, n)
  <2>1. Own(u, n) = Places(outbox, u, n)
    BY <1>2 DEF Own, Places
  <2>2. CASE Places(outbox, u, n) = {}
    BY <2>1, <2>2 DEF LatestKind, KindBy
  <2>3. CASE Places(outbox, u, n) # {}
    <3>1. Max(Places(outbox, u, n)) \in 1..n
      BY <2>3, PlacesAreBounded
    <3> QED BY <1>2, <2>1, <2>3, <3>1 DEF LatestKind, KindBy
  <2> QED BY <2>1, <2>2, <2>3
<1>4. HistoryRevisions(n) = {revision[outbox[i].unit] : i \in 1..n}
  BY <1>2 DEF HistoryRevisions
<1> QED BY <1>3, <1>4 DEF MaxRevision, RevisionBy

--------------------------------------------------------------------------------
(* Deliveries.                                                                 *)

\* The ledger grows by the next observation, or the receipts by one that it has.
LEMMA LedgerMovesOn ==
    ASSUME IInv, UNCHANGED <<captures, intentVars, outbox, crmVars>>,
           NEW n \in Nat, Len(ledger) <= n, n <= Len(outbox),
           ledger' \in Seq(Nat), Len(ledger') = n, \A i \in 1..n : ledger'[i] = i,
           receipts' \subseteq 1..n
    PROVE  WriterType' /\ WriterInv'
<1> USE DEF intentVars, crmVars
<1>1. WriterType'
  BY DEF IInv, TypeInv, WriterType
<1>2. Len(ledger) \in Nat
  BY LenProperties DEF IInv, TypeInv, WriterType
<1>3. LedgerInv'
  BY DEF LedgerInv
<1>4. OutboxInv' /\ RequestInv' /\ RevisionInv'
  BY DEF IInv, WriterInv, OutboxInv, RequestInv, RevisionInv
<1>5. StateInv'
  <2>1. \A S : S \subseteq 1..Len(ledger) => S \subseteq 1..Len(ledger')
    BY <1>2
  <2>2. \A v : Captured(v)' <=> Captured(v)
    BY DEF Captured
  <2> QED BY <2>1, <2>2 DEF IInv, WriterInv, StateInv
<1> QED BY <1>1, <1>3, <1>4, <1>5 DEF WriterInv

\* The marks of the others are as they were.
LEMMA MarksOfOthers ==
    ASSUME IInv, NEW d \in Caller, state' = state, request' = request
    PROVE  MarksStay(call[d])
BY DEF IInv, CallsInv, CallOk, MarkOk, MarksStay

\* Deliver: what is delivered is next in the outbox, or is in the ledger already.
LEMMA DeliverKeeps ==
    ASSUME IInv, NEW c \in Caller, Deliver(c)
    PROVE  IInv'
<1> DEFINE x == call[c]
           n == Len(ledger)
<1>1. PICK i : i = Min(x.todo)
  OBVIOUS
<1>2. x.at = "flushing" /\ x \in Call /\ x.unit \in Unit /\ CallOk(x)
  BY DEF Deliver, IInv, TypeInv, CallType, CallsInv
<1>3. /\ ledger \in Seq(Nat) /\ n \in Nat /\ Len(outbox) \in Nat /\ n <= Len(outbox)
      /\ \A j \in 1..n : ledger[j] = j
      /\ DOMAIN ledger = 1..n /\ receipts \subseteq 1..n
  BY LenProperties DEF IInv, TypeInv, WriterType, WriterInv, LedgerInv
<1>4. /\ i \in x.todo /\ \A y \in x.todo : i <= y
      /\ i \in 1..Len(outbox) /\ x.todo \subseteq 1..Len(outbox)
      /\ \A p \in 1..i : p \notin x.todo => p <= n
  <2>1. /\ x.todo # {} /\ x.todo \subseteq 1..Len(outbox)
        /\ \A t \in x.todo : \A p \in 1..t : p \notin x.todo => p <= n
    BY <1>2 DEF CallOk, FlushOk
  <2>2. x.todo \subseteq Nat
    BY <1>3, <2>1
  <2>3. i \in x.todo /\ \A y \in x.todo : i <= y
    BY <1>1, <2>1, <2>2, MinOfNat
  <2> QED BY <2>1, <2>3
<1>5. i <= n + 1
  <2>1. CASE i = 1
    BY <1>3, <2>1
  <2>2. CASE i # 1
    <3>1. i - 1 \in 1..i /\ i - 1 < i /\ i \in Nat
      BY <1>4, <2>2
    <3>2. i - 1 \notin x.todo
      BY <1>4, <3>1
    <3> QED BY <1>3, <1>4, <3>1, <3>2
  <2> QED BY <2>1, <2>2
<1>6. /\ UNCHANGED <<storeVars, submissionVars, faults, intentVars, outbox, receipts, crmVars>>
      /\ \/ i \in {ledger[j] : j \in DOMAIN ledger} /\ ledger' = ledger
         \/ i \notin {ledger[j] : j \in DOMAIN ledger} /\ ledger' = Append(ledger, i)
  BY <1>1 DEF Deliver
<1>7. PICK m \in Nat : /\ n <= m /\ m <= Len(outbox) /\ i <= m /\ ledger' \in Seq(Nat)
                       /\ Len(ledger') = m /\ \A j \in 1..m : ledger'[j] = j
  <2>1. CASE i \in {ledger[j] : j \in DOMAIN ledger} /\ ledger' = ledger
    <3>1. i <= n
      BY <1>3, <2>1
    <3>2. ledger' \in Seq(Nat) /\ Len(ledger') = n /\ \A j \in 1..n : ledger'[j] = j
      BY <1>3, <2>1
    <3>3. n <= n
      BY <1>3
    <3> QED BY <1>3, <3>1, <3>2, <3>3
  <2>2. CASE i \notin {ledger[j] : j \in DOMAIN ledger} /\ ledger' = Append(ledger, i)
    <3>1. i \notin 1..n
      BY <1>3, <2>2
    <3>2. i = n + 1
      BY <1>3, <1>4, <1>5, <3>1
    <3>3. ledger' \in Seq(Nat) /\ Len(ledger') = n + 1 /\ ledger'[n + 1] = i
          /\ \A j \in 1..n : ledger'[j] = ledger[j]
      BY <1>3, <2>2, <3>2, AppendProperties
    <3>4. \A j \in 1..(n + 1) : ledger'[j] = j
      <4>1. \A j \in 1..(n + 1) : j \in 1..n \/ j = n + 1
        BY <1>3
      <4> QED BY <1>3, <3>2, <3>3, <4>1
    <3>5. n + 1 \in Nat /\ n <= n + 1 /\ n + 1 <= Len(outbox)
      BY <1>3, <1>4, <3>2
    <3> QED BY <3>2, <3>3, <3>4, <3>5
  <2> QED BY <1>6, <2>1, <2>2
<1>8. WriterType' /\ WriterInv'
  <2>1. receipts' \subseteq 1..m
    BY <1>3, <1>6, <1>7
  <2> QED BY <1>6, <1>7, <2>1, LedgerMovesOn DEF storeVars
<1>9. PICK r : /\ r = [x EXCEPT !.at = "delivered", !.granted = r.granted] /\ r.granted \in BOOLEAN
               /\ call' = [call EXCEPT ![c] = r]
  <2>1. CASE Goto(c, "delivered")
    <3>1. PICK r : r = [x EXCEPT !.at = "delivered"]
      OBVIOUS
    <3>2. r.granted = x.granted /\ r.granted \in BOOLEAN
      BY <1>2, <3>1 DEF Call
    <3>3. r = [x EXCEPT !.at = "delivered", !.granted = r.granted]
      BY <1>2, <3>1, <3>2 DEF Call
    <3> QED BY <2>1, <3>1, <3>2, <3>3 DEF Goto
  <2>2. CASE call' = [call EXCEPT ![c].at = "delivered", ![c].granted = @ \/ i = x.marker]
    <3>1. PICK g \in BOOLEAN : g = (x.granted \/ i = x.marker)
      OBVIOUS
    <3>2. PICK r : r = [x EXCEPT !.at = "delivered", !.granted = g]
      OBVIOUS
    <3>3. r.granted = g
      BY <1>2, <3>2 DEF Call
    <3>4. call' = [call EXCEPT ![c] = r]
      BY <2>2, <3>1, <3>2
    <3> QED BY <3>1, <3>2, <3>3, <3>4
  <2> QED BY <1>1, <2>1, <2>2 DEF Deliver
<1>10. /\ r \in Call /\ r.at = "delivered" /\ r.unit = x.unit /\ r.todo = x.todo /\ r.next = x.next
       /\ r.marker = x.marker
  BY <1>2, <1>9 DEF Call, Writes, Flushes
<1>11. CallOk(r)'
  <2>1. Captured(r.unit)' <=> Captured(r.unit)
    BY <1>6 DEF Captured, storeVars
  <2>2. FlushOk(r)'
    <3>1. x.next # "none" /\ x.todo # {} /\ x.todo \subseteq 1..Len(outbox)
          /\ \A t \in x.todo : \A p \in 1..t : p \notin x.todo => p <= n
      BY <1>2 DEF CallOk, FlushOk, Flushes
    <3>2. \A t \in x.todo : \A p \in 1..t : p \notin x.todo => p <= m
      BY <1>3, <1>4, <1>7, <3>1
    <3>3. Min(x.todo) <= m
      BY <1>1, <1>7
    <3> QED BY <1>6, <1>7, <1>10, <3>1, <3>2, <3>3 DEF FlushOk
  <2>3. ReadOk(r)' /\ AttemptOk(r)'
    BY <1>10 DEF ReadOk, AttemptOk, Reads, Submits
  <2>4. MarkOk(r)'
    BY <1>2, <1>6, <1>10, <2>1 DEF CallOk, MarkOk, Flushes, Writes, intentVars, crmVars
  <2> QED BY <2>2, <2>3, <2>4 DEF CallOk
<1>12. r.marker # 0 => \A d \in Caller \ {c} : call[d].marker # 0 => call[d].unit # r.unit
  BY <1>10 DEF IInv, CallsInv
<1>13. \A d \in Caller \ {c} : MarksStay(call[d])
  BY <1>6, MarksOfOthers DEF intentVars, crmVars
<1>14. UNCHANGED <<registered, progress, captures, submissionVars>> /\ OwnershipStep
  BY <1>6, OwnershipStays DEF storeVars
<1>15. Len(outbox) <= Len(outbox') /\ Len(ledger) <= Len(ledger')
  BY <1>3, <1>6, <1>7
<1> QED BY <1>2, <1>8, <1>9, <1>10, <1>11, <1>12, <1>13, <1>14, <1>15, WriterSteps

\* Acknowledge: what has a receipt is in the ledger.
LEMMA AcknowledgeKeeps ==
    ASSUME IInv, NEW c \in Caller, Acknowledge(c)
    PROVE  IInv'
<1> DEFINE x == call[c]
           n == Len(ledger)
<1>1. PICK i : i = Min(x.todo)
  OBVIOUS
<1>2. PICK rest : rest = x.todo \ {i}
  OBVIOUS
<1>3. x.at = "delivered" /\ x.at \in Flushes /\ x \in Call /\ x.unit \in Unit /\ CallOk(x)
  BY DEF Acknowledge, IInv, TypeInv, CallType, CallsInv, Flushes
<1>4. /\ ledger \in Seq(Nat) /\ n \in Nat /\ Len(outbox) \in Nat /\ n <= Len(outbox)
      /\ \A j \in 1..n : ledger[j] = j /\ receipts \subseteq 1..n
  BY LenProperties DEF IInv, TypeInv, WriterType, WriterInv, LedgerInv
<1>5. /\ x.next # "none" /\ x.todo \subseteq 1..Len(outbox) /\ i \in 1..n /\ i \in x.todo
      /\ \A t \in x.todo : \A p \in 1..t : p \notin x.todo => p <= n
  <2>1. /\ x.next # "none" /\ x.todo # {} /\ x.todo \subseteq 1..Len(outbox) /\ i <= n
        /\ \A t \in x.todo : \A p \in 1..t : p \notin x.todo => p <= n
    BY <1>1, <1>3 DEF CallOk, FlushOk
  <2>2. x.todo \subseteq Nat
    BY <1>4, <2>1
  <2>3. i \in x.todo
    BY <1>1, <2>1, <2>2, MinOfNat
  <2> QED BY <1>4, <2>1, <2>3
<1>6. /\ UNCHANGED <<storeVars, submissionVars, faults, intentVars, outbox, ledger, crmVars>>
      /\ receipts' = receipts \cup {i}
      /\ call' = [call EXCEPT ![c] = IF rest = {} THEN After(c)
                                    ELSE [x EXCEPT !.at = "flushing", !.todo = rest]]
  BY <1>1, <1>2 DEF Acknowledge
<1>7. WriterType' /\ WriterInv'
  <2>1. receipts' \subseteq 1..n
    BY <1>4, <1>5, <1>6
  <2>2. n <= n /\ Len(ledger') = n /\ ledger' \in Seq(Nat) /\ \A j \in 1..n : ledger'[j] = j
    BY <1>4, <1>6
  <2> QED BY <1>4, <1>6, <2>1, <2>2, LedgerMovesOn DEF storeVars
<1>8. ASSUME NEW y, CallOk(y) PROVE CallOk(y)'
  <2> USE <1>6 DEF storeVars, submissionVars, intentVars, crmVars
  <2>1. ReadOk(y)' /\ AttemptOk(y)'
    BY <1>8 DEF CallOk, ReadOk, AttemptOk, IsCurrent, Captured, Minted
  <2>2. FlushOk(y)' /\ MarkOk(y)'
    BY <1>8 DEF CallOk, FlushOk, MarkOk, Captured
  <2> QED BY <2>1, <2>2 DEF CallOk
<1>9. PICK r : /\ r \in Call /\ CallOk(r) /\ (r.at # "idle" => r.unit \in Unit)
               /\ r.marker # 0 => x.marker # 0 /\ r.unit = x.unit
               /\ call' = [call EXCEPT ![c] = r]
  <2>1. CASE rest = {}
    <3>1. PICK r : r = After(c)
      OBVIOUS
    <3>2. /\ r \in Call /\ CallOk(r) /\ (r.at # "idle" => r.unit \in Unit)
          /\ r.marker # 0 => x.marker # 0 /\ r.unit = x.unit
      BY <1>3, <3>1, AfterIsOk
    <3>3. call' = [call EXCEPT ![c] = r]
      BY <1>6, <2>1, <3>1
    <3> QED BY <3>2, <3>3
  <2>2. CASE rest # {}
    <3>1. PICK r : r = [x EXCEPT !.at = "flushing", !.todo = rest]
      OBVIOUS
    <3>2. rest \in SUBSET Nat
      BY <1>2, <1>4, <1>5
    <3>3. /\ r \in Call /\ r.at = "flushing" /\ r.todo = rest /\ r.unit = x.unit
          /\ r.next = x.next /\ r.marker = x.marker
      BY <1>3, <3>1, <3>2 DEF Call, Writes, Flushes
    <3>4. FlushOk(r)
      <4>1. \A t \in rest : \A p \in 1..t : p \notin rest => p <= n
        BY <1>2, <1>5
      <4> QED BY <1>2, <1>5, <2>2, <3>3, <4>1 DEF FlushOk
    <3>5. ReadOk(r) /\ AttemptOk(r)
      BY <3>3 DEF ReadOk, AttemptOk, Reads, Submits
    <3>6. MarkOk(r)
      BY <1>3, <3>3 DEF CallOk, MarkOk, Flushes, Writes
    <3>7. call' = [call EXCEPT ![c] = r]
      BY <1>6, <2>2, <3>1
    <3> QED BY <1>3, <3>3, <3>4, <3>5, <3>6, <3>7 DEF CallOk
  <2> QED BY <2>1, <2>2
<1>10. CallOk(r)'
  BY <1>8, <1>9
<1>11. r.marker # 0 => \A d \in Caller \ {c} : call[d].marker # 0 => call[d].unit # r.unit
  BY <1>9 DEF IInv, CallsInv
<1>12. \A d \in Caller \ {c} : MarksStay(call[d])
  BY <1>6, MarksOfOthers DEF intentVars, crmVars
<1>13. UNCHANGED <<registered, progress, captures, submissionVars>> /\ OwnershipStep
  BY <1>6, OwnershipStays DEF storeVars
<1>14. Len(outbox) <= Len(outbox') /\ Len(ledger) <= Len(ledger')
  BY <1>4, <1>6
<1> QED BY <1>7, <1>9, <1>10, <1>11, <1>12, <1>13, <1>14, WriterSteps

--------------------------------------------------------------------------------
(* An observation is appended.                                                 *)

\* What one more observation changes of the kinds: that of its own operation.
LEMMA AppendedKind ==
    ASSUME NEW s \in Seq(Observation), NEW o \in Observation, NEW u
    PROVE  /\ KindBy(Append(s, o), u, Len(s)) = KindBy(s, u, Len(s))
           /\ Places(Append(s, o), u, Len(s)) = Places(s, u, Len(s))
           /\ u = o.unit => KindBy(Append(s, o), u, Len(s) + 1) = o.kind
           /\ u # o.unit => /\ KindBy(Append(s, o), u, Len(s) + 1) = KindBy(s, u, Len(s))
                            /\ Places(Append(s, o), u, Len(s) + 1) = Places(s, u, Len(s))
<1>1. PICK n \in Nat : n = Len(s)
  BY LenProperties
<1>2. PICK t : t = Append(s, o)
  OBVIOUS
<1>3. t \in Seq(Observation) /\ Len(t) = n + 1 /\ t[n + 1] = o /\ \A i \in 1..n : t[i] = s[i]
  BY <1>1, <1>2, AppendProperties
<1>4. KindBy(t, u, n) = KindBy(s, u, n) /\ Places(t, u, n) = Places(s, u, n)
  <2>1. \A i \in 1..n : t[i] = s[i]
    BY <1>3
  <2> QED BY <2>1, KindBySame
<1>5. u = o.unit => KindBy(t, u, n + 1) = o.kind
  <2>1. PICK m \in Nat : m = n + 1
    OBVIOUS
  <2>2. u = o.unit => m > 0 /\ t[m].unit = u /\ t[m].kind = o.kind
    BY <1>3, <2>1
  <2>3. u = o.unit => KindBy(t, u, m) = t[m].kind
    BY <2>2, KindByNewest
  <2> QED BY <2>1, <2>2, <2>3
<1>6. u # o.unit => KindBy(t, u, n + 1) = KindBy(t, u, n) /\ Places(t, u, n + 1) = Places(t, u, n)
  <2>1. u # o.unit => \A i \in (n + 1)..(n + 1) : t[i].unit # u
    BY <1>3
  <2>2. n + 1 \in Nat /\ n <= n + 1
    OBVIOUS
  <2> QED BY <2>1, <2>2, KindBySkips
<1> QED BY <1>1, <1>2, <1>4, <1>5, <1>6

\* A good sequence stays good when the observation that is appended is good.
LEMMA AppendedIsGood ==
    ASSUME NEW s, NEW t, NEW n \in Nat, NEW o, NEW rev, \A k \in 1..n : Good(s, rev, k),
           t[n + 1] = o, \A i \in 1..n : t[i] = s[i],
           \A u : KindBy(t, u, n) = KindBy(s, u, n) /\ Places(t, u, n) = Places(s, u, n),
           Follows(KindBy(s, o.unit, n), o.kind) \/ KindBy(s, o.unit, n) \in Settled,
           o.kind # "prepared",
           o.kind = "send_started" =>
               /\ rev[o.unit] = RevisionBy(s, rev, n)
               /\ \A i \in Places(s, o.unit, n) : s[i].kind # "send_started",
           o.kind \in {"send_started"} \cup Settled =>
               \A v \in Unit \ {o.unit} : KindBy(s, v, n) \notin {"send_started", "unknown"},
           Proved(o)
    PROVE  \A k \in 1..(n + 1) : Good(t, rev, k)
<1>1. t[n + 1] = o /\ \A i \in 1..n : t[i] = s[i]
  OBVIOUS
<1>2. \A u : KindBy(t, u, n) = KindBy(s, u, n) /\ Places(t, u, n) = Places(s, u, n)
  OBVIOUS
<1>3. ASSUME NEW k \in 1..n PROVE Good(t, rev, k)
  <2>1. \A i \in 1..n : t[i] = s[i] /\ rev[s[i].unit] = rev[s[i].unit]
    BY <1>1
  <2> QED BY <2>1, GoodStays
<1>4. Good(t, rev, n + 1)
  <2>1. n + 1 - 1 = n
    OBVIOUS
  <2>2. InTurn(t, n + 1)
    BY <1>1, <1>2, <2>1 DEF InTurn
  <2>3. Alone(t, n + 1)
    BY <1>1, <1>2, <2>1 DEF Alone
  <2>4. Numbered(t, rev, n + 1)
    <3>1. RevisionBy(t, rev, n) = RevisionBy(s, rev, n)
      <4>1. {rev[t[i].unit] : i \in 1..n} = {rev[s[i].unit] : i \in 1..n}
        BY <1>1
      <4> QED BY <4>1 DEF RevisionBy
    <3>2. \A i \in Places(s, o.unit, n) : t[i] = s[i]
      BY <1>1 DEF Places
    <3>3. Places(t, o.unit, n) = Places(s, o.unit, n)
      BY <1>2
    <3>4. o.kind = "send_started" =>
             /\ rev[o.unit] = RevisionBy(t, rev, n)
             /\ \A i \in Places(t, o.unit, n) : t[i].kind # "send_started"
      BY <3>1, <3>2, <3>3
    <3>5. PICK m : m = n + 1
      OBVIOUS
    <3>6. t[m] = o /\ m - 1 = n
      BY <1>1, <3>5
    <3>7. Numbered(t, rev, m)
      BY <3>4, <3>6 DEF Numbered
    <3> QED BY <3>5, <3>7
  <2> QED BY <1>1, <2>2, <2>3, <2>4 DEF Good
<1>5. \A k \in 1..(n + 1) : k \in 1..n \/ k = n + 1
  OBVIOUS
<1> QED BY <1>3, <1>4, <1>5

\* What the ledger has is as it was.
LEMMA LedgerStays ==
    ASSUME IInv, UNCHANGED <<ledger, receipts>>, outbox' \in Seq(Observation),
           Len(outbox) <= Len(outbox')
    PROVE  LedgerInv'
<1>1. Len(outbox) \in Nat /\ Len(outbox') \in Nat /\ Len(ledger) \in Nat
  BY LenProperties DEF IInv, TypeInv, WriterType
<1> QED BY <1>1 DEF IInv, WriterInv, LedgerInv

\* What the newest observation of an operation says of it.
LEMMA NewestIs ==
    ASSUME IInv, NEW u \in Unit, NEW n, n = Len(outbox)
    PROVE  /\ n \in Nat
           /\ KindBy(outbox, u, n) \in Settled => request[u] = KindBy(outbox, u, n)
           /\ KindBy(outbox, u, n) # "none" => \E i \in 1..n : outbox[i].unit = u
           /\ KindBy(outbox, u, n) \in {"send_started", "unknown"} => state[u] = "unknown"
<1>1. n \in Nat
  BY LenProperties DEF IInv, TypeInv, WriterType
<1>2. "none" \notin Settled
  BY DEF Settled
<1>3. KindBy(outbox, u, n) \in Settled => request[u] = KindBy(outbox, u, n)
  BY <1>1, <1>2, KindByIs DEF IInv, WriterInv, RequestInv
<1>4. KindBy(outbox, u, n) # "none" => \E i \in 1..n : outbox[i].unit = u
  BY <1>1, KindByIs
<1>5. KindBy(outbox, u, n) \in {"send_started", "unknown"} => state[u] = "unknown"
  BY DEF IInv, TypeInv, WriterType, WriterInv, StateInv, Settled
<1> QED BY <1>1, <1>3, <1>4, <1>5

\* The outbox after one more observation of the writer.
LEMMA OutboxGrows ==
    ASSUME IInv, UNCHANGED <<revision, ledger, receipts>>,
           NEW o \in Observation, outbox' = Append(outbox, o), NEW n, n = Len(outbox),
           Follows(KindBy(outbox, o.unit, n), o.kind) \/ KindBy(outbox, o.unit, n) \in Settled,
           o.kind # "prepared",
           o.kind = "send_started" =>
               /\ revision[o.unit] = RevisionBy(outbox, revision, n)
               /\ \A i \in Places(outbox, o.unit, n) : outbox[i].kind # "send_started",
           o.kind \in {"send_started"} \cup Settled =>
               \A v \in Unit \ {o.unit} : KindBy(outbox, v, n) \notin {"send_started", "unknown"},
           Proved(o)
    PROVE  /\ n \in Nat /\ OutboxInv' /\ LedgerInv'
           /\ outbox' \in Seq(Observation) /\ Len(outbox') = n + 1 /\ outbox'[n + 1] = o
           /\ \A i \in 1..n : outbox'[i] = outbox[i]
           /\ \A i \in 1..(n + 1) : i \in 1..n \/ i = n + 1
           /\ KindBy(outbox', o.unit, n + 1) = o.kind
           /\ \A u : u # o.unit => /\ KindBy(outbox', u, n + 1) = KindBy(outbox, u, n)
                                   /\ Places(outbox', u, n + 1) = Places(outbox, u, n)
<1>1. n \in Nat /\ outbox \in Seq(Observation)
  BY LenProperties DEF IInv, TypeInv, WriterType
<1>2. /\ outbox' \in Seq(Observation) /\ Len(outbox') = n + 1 /\ outbox'[n + 1] = o
      /\ \A i \in 1..n : outbox'[i] = outbox[i]
  BY <1>1, AppendProperties
<1>3. /\ \A u : KindBy(outbox', u, n) = KindBy(outbox, u, n) /\ Places(outbox', u, n) = Places(outbox, u, n)
      /\ KindBy(outbox', o.unit, n + 1) = o.kind
      /\ \A u : u # o.unit => /\ KindBy(outbox', u, n + 1) = KindBy(outbox, u, n)
                              /\ Places(outbox', u, n + 1) = Places(outbox, u, n)
  <2>1. ASSUME NEW u
        PROVE  /\ KindBy(outbox', u, n) = KindBy(outbox, u, n)
               /\ Places(outbox', u, n) = Places(outbox, u, n)
               /\ u = o.unit => KindBy(outbox', u, n + 1) = o.kind
               /\ u # o.unit => /\ KindBy(outbox', u, n + 1) = KindBy(outbox, u, n)
                                /\ Places(outbox', u, n + 1) = Places(outbox, u, n)
    BY <1>1, AppendedKind
  <2> QED BY <2>1
<1>4. \A k \in 1..n : Good(outbox, revision, k)
  BY DEF IInv, WriterInv, OutboxInv
<1>5. \A k \in 1..(n + 1) : Good(outbox', revision, k)
  BY <1>1, <1>2, <1>3, <1>4, AppendedIsGood, ZenonT(40)
<1>6. OutboxInv'
  BY <1>2, <1>5 DEF OutboxInv
<1>7. LedgerInv'
  BY <1>1, <1>2, LedgerStays
<1>8. \A i \in 1..(n + 1) : i \in 1..n \/ i = n + 1
  BY <1>1
<1> QED BY <1>1, <1>2, <1>3, <1>6, <1>7, <1>8

\* An observation is of a unit, and of what the types say.
LEMMA ObservedUnits ==
    ASSUME IInv, NEW k \in 1..Len(outbox)
    PROVE  outbox[k] \in Observation /\ outbox[k].unit \in Unit
<1>1. outbox \in Seq(Observation)
  BY DEF IInv, TypeInv, WriterType
<1>2. outbox[k] \in Observation
  BY <1>1, ElementOfSeq
<1> QED BY <1>2 DEF Observation

--------------------------------------------------------------------------------
(* Sends that are refused, and sends that are marked.                          *)

\* SendRefused: the refusal follows the preparation, or an earlier refusal.
LEMMA SendRefusedKeeps ==
    ASSUME IInv, NEW c \in Caller, NEW u \in Unit, SendRefused(c, u)
    PROVE  IInv'
<1>1. PICK n : n = Len(outbox)
  OBVIOUS
<1>2. PICK o : o = Observed(u, "refused", NoProof)
  OBVIOUS
<1>3. o \in Observation /\ o.unit = u /\ o.kind = "refused" /\ Proved(o) /\ "refused" \notin Settled
  BY <1>2 DEF Observed, Observation, Kind, NoProof, Proved, Settled
<1>4. /\ state[u] \in {"prepared", "refused"} /\ KindBy(outbox, u, n) = state[u]
      /\ outbox' = Append(outbox, o) /\ state' = [state EXCEPT ![u] = "refused"]
      /\ UNCHANGED <<storeVars, submissionVars, revision, generation, outstanding, receipts,
                     ledger, crmVars>>
  BY <1>1, <1>2 DEF SendRefused, AppendOne, IInv, WriterInv, StateInv
<1>5. Follows(state[u], "refused")
  BY <1>4 DEF Follows
<1>6. /\ n \in Nat /\ OutboxInv' /\ LedgerInv'
      /\ outbox' \in Seq(Observation) /\ Len(outbox') = n + 1 /\ outbox'[n + 1] = o
      /\ \A i \in 1..n : outbox'[i] = outbox[i]
      /\ \A i \in 1..(n + 1) : i \in 1..n \/ i = n + 1
      /\ KindBy(outbox', u, n + 1) = "refused"
      /\ \A v : v # u => /\ KindBy(outbox', v, n + 1) = KindBy(outbox, v, n)
                         /\ Places(outbox', v, n + 1) = Places(outbox, v, n)
  BY <1>1, <1>3, <1>4, <1>5, OutboxGrows
<1>7. /\ WriterType'
      /\ \A v \in Unit : state'[v] = IF v = u THEN "refused" ELSE state[v]
  BY <1>4, <1>6 DEF IInv, TypeInv, WriterType, crmVars
<1>8. StateInv'
  <2>1. ASSUME NEW v \in Unit
        PROVE  LET kind == KindBy(outbox', v, n + 1) IN
               /\ state'[v] # "none" <=> revision[v] # 0
               /\ revision[v] # 0 => Captured(v)'
               /\ state'[v] \in {"none", "prepared", "refused", "superseded"} => kind = state'[v]
               /\ state'[v] = "unknown" <=> outstanding = v
               /\ state'[v] = "unknown" => kind \in {"send_started", "unknown"} \cup Settled
               /\ state'[v] \in Settled =>
                     kind = state'[v] /\ request[v] = state'[v]
                     /\ Places(outbox', v, n + 1) \subseteq 1..Len(ledger)
    <3>1. Captured(v)' <=> Captured(v)
      BY <1>4 DEF Captured, storeVars
    <3>2. CASE v = u
      BY <1>3, <1>4, <1>6, <1>7, <3>1, <3>2 DEF IInv, WriterInv, StateInv
    <3>3. CASE v # u
      BY <1>1, <1>6, <1>7, <3>1, <3>3 DEF IInv, WriterInv, StateInv
    <3> QED BY <3>2, <3>3
  <2> QED BY <1>4, <1>6, <2>1 DEF StateInv, crmVars
<1>9. RequestInv'
  <2>1. \A v \in Unit : state[v] \in {"unknown"} \cup Settled => v # u /\ state'[v] = state[v]
    BY <1>3, <1>4, <1>7 DEF Settled
  <2>2. \A k \in 1..n : outbox[k].unit \in Unit
    BY <1>1, ObservedUnits
  <2>3. ASSUME NEW k \in 1..(n + 1)
        PROVE  /\ outbox'[k].kind \in Settled => request[outbox'[k].unit] = outbox'[k].kind
               /\ outbox'[k].kind = "send_started" =>
                     state'[outbox'[k].unit] \in {"unknown"} \cup Settled
    <3>1. CASE k = n + 1
      BY <1>3, <1>6, <3>1
    <3>2. CASE k \in 1..n
      BY <1>1, <1>6, <2>1, <2>2, <3>2 DEF IInv, WriterInv, RequestInv
    <3> QED BY <1>6, <3>1, <3>2
  <2> QED BY <1>4, <1>6, <2>1, <2>3 DEF IInv, WriterInv, RequestInv, crmVars
<1>10. RevisionInv'
  BY <1>4, <1>7, <1>3 DEF IInv, WriterInv, RevisionInv, storeVars
<1>11. PICK r : r = [Idle EXCEPT !.at = "flush", !.unit = u, !.next = "returning"]
  OBVIOUS
<1>12. /\ r \in Call /\ r.at = "flush" /\ r.unit = u /\ r.next = "returning" /\ r.marker = 0
       /\ call' = [call EXCEPT ![c] = r]
  BY <1>11 DEF SendRefused, Idle, Call, Writes, Flushes, Continues
<1>13. CallOk(r)'
  <2>1. Captured(u)'
    BY <1>4 DEF SendRefused, IInv, SubmissionInv, PlansHold, Complete, Captured, storeVars
  <2>2. ReadOk(r)' /\ AttemptOk(r)' /\ FlushOk(r)' /\ MarkOk(r)'
    BY <1>12, <2>1 DEF ReadOk, AttemptOk, FlushOk, MarkOk, Reads, Submits, Flushes
  <2> QED BY <2>2 DEF CallOk
<1>14. ASSUME NEW d \in Caller PROVE MarksStay(call[d])
  <2>1. call[d].marker # 0 =>
           state[call[d].unit] = "unknown" /\ request[call[d].unit] = "none" /\ call[d].unit \in Unit
    BY DEF IInv, TypeInv, CallType, CallsInv, CallOk, MarkOk, Flushes
  <2> QED BY <1>4, <1>7, <2>1 DEF MarksStay, crmVars
<1>15. UNCHANGED <<registered, progress, captures, submissionVars>> /\ OwnershipStep
  BY <1>4, OwnershipStays DEF storeVars
<1>16. Len(outbox) <= Len(outbox') /\ Len(ledger) <= Len(ledger')
  <2>1. Len(ledger) \in Nat
    BY LenProperties DEF IInv, TypeInv, WriterType
  <2> QED BY <1>1, <1>4, <1>6, <2>1
<1>17. WriterInv'
  BY <1>6, <1>8, <1>9, <1>10 DEF WriterInv
<1> QED BY <1>7, <1>12, <1>13, <1>14, <1>15, <1>16, <1>17, WriterSteps

\* An operation is marked or observed, and is unknown: no other one of the company is.
LEMMA UnknownIsAppended ==
    ASSUME IInv, NEW u \in Unit, NEW o \in Observation, o.unit = u, NEW n, n = Len(outbox),
           outbox' = Append(outbox, o), UNCHANGED <<captures, revision, ledger, receipts>>,
           state' = [state EXCEPT ![u] = "unknown"], outstanding \in {NoUnit, u}, outstanding' = u,
           revision[u] # 0,
           \A v \in Unit : state[v] \in {"unknown"} \cup Settled => revision[v] <= revision[u],
           o.kind \in {"send_started", "unknown"} \cup Settled, Proved(o),
           Follows(KindBy(outbox, u, n), o.kind) \/ KindBy(outbox, u, n) \in Settled,
           o.kind = "send_started" =>
               /\ revision[u] = RevisionBy(outbox, revision, n)
               /\ \A i \in Places(outbox, u, n) : outbox[i].kind # "send_started",
           o.kind \in Settled => request'[u] = o.kind,
           \A i \in 1..n : outbox[i].unit = u /\ outbox[i].kind \in Settled =>
               request'[u] = outbox[i].kind,
           generation' \in [Unit -> Nat], value' \in Unit \cup {NoUnit}, sends' \in [Unit -> Nat],
           request' \in [Unit -> {"none", "pending"} \cup Settled],
           \A v \in Unit \ {u} : request'[v] = request[v],
           \A v \in Unit : sends'[v] <= 1 /\ (request'[v] = "none" => sends'[v] = 0),
           value' \in Unit => request'[value'] # "none"
    PROVE  WriterType' /\ WriterInv' /\ Len(outbox) <= Len(outbox') /\ Len(ledger) <= Len(ledger')
<1>1. o.kind # "prepared" /\ "unknown" \notin Settled /\ "send_started" \notin Settled
  BY DEF Settled
<1>2. outstanding \notin Unit \/ outstanding = u
  BY CaptureAssumption
<1>3. \A v \in Unit \ {u} : state[v] # "unknown"
  BY <1>2 DEF IInv, WriterInv, StateInv
<1>4. \A v \in Unit \ {u} : KindBy(outbox, v, n) \notin {"send_started", "unknown"}
  BY <1>3, NewestIs
<1>5. /\ n \in Nat /\ OutboxInv' /\ LedgerInv'
      /\ outbox' \in Seq(Observation) /\ Len(outbox') = n + 1 /\ outbox'[n + 1] = o
      /\ \A i \in 1..n : outbox'[i] = outbox[i]
      /\ \A i \in 1..(n + 1) : i \in 1..n \/ i = n + 1
      /\ KindBy(outbox', u, n + 1) = o.kind
      /\ \A v : v # u => /\ KindBy(outbox', v, n + 1) = KindBy(outbox, v, n)
                         /\ Places(outbox', v, n + 1) = Places(outbox, v, n)
  <2>1. \/ Follows(KindBy(outbox, o.unit, n), o.kind)
        \/ KindBy(outbox, o.unit, n) \in Settled
    OBVIOUS
  <2>2. o.kind = "send_started" =>
           /\ revision[o.unit] = RevisionBy(outbox, revision, n)
           /\ \A i \in Places(outbox, o.unit, n) : outbox[i].kind # "send_started"
    OBVIOUS
  <2>3. o.kind \in {"send_started"} \cup Settled =>
           \A v \in Unit \ {o.unit} : KindBy(outbox, v, n) \notin {"send_started", "unknown"}
    BY <1>4
  <2>4. UNCHANGED <<revision, ledger, receipts>>
    OBVIOUS
  <2>5. o.unit = u
    OBVIOUS
  <2> QED BY <1>1, <2>1, <2>2, <2>3, <2>4, <2>5, OutboxGrows
<1>6. /\ WriterType'
      /\ \A v \in Unit : state'[v] = IF v = u THEN "unknown" ELSE state[v]
  BY <1>5 DEF IInv, TypeInv, WriterType
<1>7. StateInv'
  <2>1. ASSUME NEW v \in Unit
        PROVE  LET kind == KindBy(outbox', v, n + 1) IN
               /\ state'[v] # "none" <=> revision[v] # 0
               /\ revision[v] # 0 => Captured(v)'
               /\ state'[v] \in {"none", "prepared", "refused", "superseded"} => kind = state'[v]
               /\ state'[v] = "unknown" <=> outstanding' = v
               /\ state'[v] = "unknown" => kind \in {"send_started", "unknown"} \cup Settled
               /\ state'[v] \in Settled =>
                     kind = state'[v] /\ request'[v] = state'[v]
                     /\ Places(outbox', v, n + 1) \subseteq 1..Len(ledger)
    <3>1. Captured(v)' <=> Captured(v)
      BY DEF Captured
    <3>2. CASE v = u
      BY <1>1, <1>5, <1>6, <3>1, <3>2 DEF IInv, WriterInv, StateInv
    <3>3. CASE v # u
      <4>1. /\ state'[v] = state[v] /\ request'[v] = request[v] /\ state[v] # "unknown"
            /\ KindBy(outbox', v, n + 1) = KindBy(outbox, v, n)
            /\ Places(outbox', v, n + 1) = Places(outbox, v, n)
        BY <1>3, <1>5, <1>6, <3>3
      <4>2. LET kind == KindBy(outbox, v, n) IN
            /\ state[v] # "none" <=> revision[v] # 0
            /\ revision[v] # 0 => Captured(v)
            /\ state[v] \in {"none", "prepared", "refused", "superseded"} => kind = state[v]
            /\ state[v] \in Settled =>
                  kind = state[v] /\ request[v] = state[v]
                  /\ Places(outbox, v, n) \subseteq 1..Len(ledger)
        BY DEF IInv, WriterInv, StateInv
      <4> QED BY <3>1, <3>3, <4>1, <4>2
    <3> QED BY <3>2, <3>3
  <2> QED BY <1>5, <2>1 DEF StateInv
<1>8. RequestInv'
  <2>1. ASSUME NEW v \in Unit, request'[v] # "none" PROVE state'[v] \in {"unknown"} \cup Settled
    <3>1. CASE v = u
      BY <1>6, <3>1
    <3>2. CASE v # u
      <4>1. request[v] # "none" /\ state'[v] = state[v]
        BY <1>6, <2>1, <3>2
      <4> QED BY <4>1 DEF IInv, WriterInv, RequestInv
    <3> QED BY <3>1, <3>2
  <2>2. \A k \in 1..n : outbox[k].unit \in Unit
    BY ObservedUnits
  <2>3. ASSUME NEW k \in 1..(n + 1)
        PROVE  /\ outbox'[k].kind \in Settled => request'[outbox'[k].unit] = outbox'[k].kind
               /\ outbox'[k].kind = "send_started" =>
                     state'[outbox'[k].unit] \in {"unknown"} \cup Settled
    <3>1. CASE k = n + 1
      BY <1>5, <1>6, <3>1
    <3>2. CASE k \in 1..n
      <4>1. PICK w \in Unit : w = outbox[k].unit
        BY <2>2, <3>2
      <4>2. /\ outbox[k].kind \in Settled => request[w] = outbox[k].kind
            /\ outbox[k].kind = "send_started" => state[w] \in {"unknown"} \cup Settled
        BY <3>2, <4>1 DEF IInv, WriterInv, RequestInv
      <4>3. outbox'[k] = outbox[k]
        BY <1>5, <3>2
      <4>4. CASE w = u
        <5>1. /\ outbox[k].kind \in Settled => request'[u] = outbox[k].kind
              /\ state'[u] = "unknown"
          BY <1>6, <3>2, <4>1, <4>4
        <5> QED BY <4>1, <4>3, <4>4, <5>1
      <4>5. CASE w # u
        <5>1. request'[w] = request[w] /\ state'[w] = state[w]
          BY <1>6, <4>1, <4>5
        <5> QED BY <4>1, <4>2, <4>3, <5>1
      <4> QED BY <4>4, <4>5
    <3> QED BY <1>5, <3>1, <3>2
  <2> QED BY <1>5, <2>1, <2>3 DEF RequestInv
<1>9. RevisionInv'
  <2>1. \A v, w \in Unit : state'[v] = "unknown" /\ state'[w] \in {"unknown"} \cup Settled =>
           revision[w] <= revision[v]
    <3>1. revision[u] \in Nat
      BY DEF IInv, TypeInv, WriterType
    <3> QED BY <1>3, <1>6, <3>1
  <2> QED BY <2>1 DEF IInv, WriterInv, RevisionInv
<1>10. Len(outbox) <= Len(outbox') /\ Len(ledger) <= Len(ledger')
  <2>1. Len(ledger) \in Nat
    BY LenProperties DEF IInv, TypeInv, WriterType
  <2> QED BY <1>5, <2>1
<1> QED BY <1>5, <1>6, <1>7, <1>8, <1>9, <1>10 DEF WriterInv

\* Of the newest capture, no operation has a later revision.
LEMMA FreshIsNewest ==
    ASSUME IInv, NEW u \in Unit, revision[u] # 0, IsFresh(u), NEW v \in Unit
    PROVE  revision[v] <= revision[u]
<1>1. revision[u] \in Nat /\ revision[v] \in Nat
  BY DEF IInv, TypeInv, WriterType
<1>2. SUFFICES ASSUME revision[u] < revision[v] PROVE FALSE
  BY <1>1
<1>3. captures[u].sequence < captures[v].sequence
  BY <1>1, <1>2 DEF IInv, WriterInv, RevisionInv
<1>4. revision[v] # 0
  BY <1>1, <1>2
<1>5. captures[v].sequence \in 1..LastSequence
  BY <1>4 DEF IInv, WriterInv, StateInv, CaptureInv, CapturedInOrder
<1>6. captures[u].sequence = LastSequence
  BY DEF IsFresh
<1>7. LastSequence \in Nat /\ captures[v].sequence \in Nat
  BY <1>6 DEF IInv, TypeInv, StoreType
<1> QED BY <1>3, <1>5, <1>6, <1>7

\* ReserveAndMark: what is marked is the newest revision, and has no earlier mark.
LEMMA ReserveAndMarkKeeps ==
    ASSUME IInv, NEW c \in Caller, ReserveAndMark(c)
    PROVE  IInv'
<1> DEFINE x == call[c]
<1>1. PICK u : u = x.unit
  OBVIOUS
<1>2. PICK n : n = Len(outbox)
  OBVIOUS
<1>3. x.at = "reserving" /\ x \in Call /\ u \in Unit /\ CallOk(x) /\ x.at \in Writes
  BY <1>1 DEF ReserveAndMark, IInv, TypeInv, CallType, CallsInv, Writes, Continues
<1>4. PICK o : o = Observed(u, "send_started", NoProof)
  OBVIOUS
<1>5. o \in Observation /\ o.unit = u /\ o.kind = "send_started" /\ Proved(o)
      /\ "send_started" \notin Settled
  BY <1>3, <1>4 DEF Observed, Observation, Kind, NoProof, Proved, Settled
<1>6. PICK g : g = ownership.generation + 1
  OBVIOUS
<1>7. /\ state[u] \in {"prepared", "refused"} /\ outstanding \in {NoUnit, u}
      /\ ownership.state # "held" /\ IsFresh(u)
      /\ ownership' = [generation |-> g, state |-> "held", owner |-> u]
      /\ generation' = [generation EXCEPT ![u] = g]
      /\ outstanding' = u /\ state' = [state EXCEPT ![u] = "unknown"]
      /\ outbox' = Append(outbox, o)
      /\ call' = [call EXCEPT ![c] =
                    [x EXCEPT !.at = "flush", !.next = "sending", !.marker = n + 1]]
      /\ UNCHANGED <<registered, progress, captures, submissionVars, faults, revision, receipts,
                     ledger, crmVars>>
  BY <1>1, <1>2, <1>4, <1>6 DEF ReserveAndMark, Reservable, Hold, AppendOne
<1>8. /\ revision[u] # 0 /\ KindBy(outbox, u, n) = state[u] /\ request[u] = "none"
      /\ state[u] \notin {"unknown"} \cup Settled
  <2>1. state[u] \notin {"unknown"} \cup Settled /\ state[u] # "none"
    BY <1>7 DEF Settled
  <2> QED BY <1>2, <1>3, <1>7, <2>1 DEF IInv, WriterInv, StateInv, RequestInv
<1>9. \A v \in Unit : revision[v] <= revision[u]
  BY <1>3, <1>7, <1>8, FreshIsNewest
<1>10. n \in Nat /\ ownership.generation \in Nat /\ g \in Nat
  <2>1. outbox \in Seq(Observation)
    BY DEF IInv, TypeInv, WriterType
  <2>2. n \in Nat
    BY <1>2, <2>1, LenProperties
  <2>3. ownership.generation \in Nat
    BY DEF IInv, TypeInv, StoreType
  <2> QED BY <1>6, <2>2, <2>3
<1>11. revision[u] = RevisionBy(outbox, revision, n)
  <2>1. \A i \in 1..n : revision[outbox[i].unit] \in Nat /\ revision[outbox[i].unit] <= revision[u]
    BY <1>2, <1>9, ObservedUnits DEF IInv, TypeInv, WriterType
  <2>2. PICK i \in 1..n : outbox[i].unit = u
    BY <1>2, <1>3, <1>7, <1>8, NewestIs
  <2>3. PICK m : m = RevisionBy(outbox, revision, n)
    OBVIOUS
  <2>4. \A j \in 1..n : revision[outbox[j].unit] \in Nat
    BY <2>1
  <2>5. /\ m \in Nat /\ (m = 0 \/ \E j \in 1..n : m = revision[outbox[j].unit])
        /\ \A j \in 1..n : revision[outbox[j].unit] <= m
    BY <1>10, <2>3, <2>4, RevisionByIs
  <2>6. revision[u] \in Nat /\ revision[u] <= m
    BY <1>3, <2>2, <2>5 DEF IInv, TypeInv, WriterType
  <2>7. m <= revision[u]
    BY <2>1, <2>5, <2>6
  <2> QED BY <2>3, <2>5, <2>6, <2>7
<1>12. \A i \in Places(outbox, u, n) : outbox[i].kind # "send_started"
  BY <1>2, <1>8 DEF Places, IInv, WriterInv, RequestInv
<1>13. Follows(KindBy(outbox, u, n), o.kind)
  BY <1>5, <1>7, <1>8 DEF Follows
<1>14. WriterType' /\ WriterInv' /\ Len(outbox) <= Len(outbox') /\ Len(ledger) <= Len(ledger')
  <2>1. /\ request' = request /\ value' = value /\ sends' = sends
        /\ UNCHANGED <<captures, revision, ledger, receipts>>
    BY <1>7 DEF crmVars
  <2>2. /\ generation' \in [Unit -> Nat] /\ value' \in Unit \cup {NoUnit} /\ sends' \in [Unit -> Nat]
        /\ request' \in [Unit -> {"none", "pending"} \cup Settled]
    BY <1>7, <1>10, <2>1 DEF IInv, TypeInv, WriterType
  <2>3. /\ \A v \in Unit \ {u} : request'[v] = request[v]
        /\ \A v \in Unit : sends'[v] <= 1 /\ (request'[v] = "none" => sends'[v] = 0)
        /\ value' \in Unit => request'[value'] # "none"
    BY <2>1 DEF IInv, WriterInv, RequestInv
  <2>4. \A i \in 1..n : outbox[i].unit = u /\ outbox[i].kind \in Settled =>
           request'[u] = outbox[i].kind
    BY <1>2, <2>1 DEF IInv, WriterInv, RequestInv
  <2> HIDE DEF x
  <2> QED BY <1>2, <1>3, <1>5, <1>7, <1>8, <1>9, <1>11, <1>12, <1>13, <2>1, <2>2, <2>3, <2>4,
             UnknownIsAppended, ZenonT(40)
<1>15. PICK r : r = [x EXCEPT !.at = "flush", !.next = "sending", !.marker = n + 1]
  OBVIOUS
<1>16. /\ r \in Call /\ r.at = "flush" /\ r.unit = u /\ r.next = "sending" /\ r.marker # 0
       /\ call' = [call EXCEPT ![c] = r]
  <2>1. PICK m \in Nat : m = n + 1 /\ m # 0
    BY <1>10
  <2>2. r = [x EXCEPT !.at = "flush", !.next = "sending", !.marker = m]
    BY <1>15, <2>1
  <2>3. r \in Call /\ r.at = "flush" /\ r.unit = u /\ r.next = "sending" /\ r.marker = m
    BY <1>1, <1>3, <2>2 DEF Call, Writes, Flushes, Continues
  <2> QED BY <1>7, <1>15, <2>1, <2>3
<1>17. CallOk(r)'
  <2>1. Captured(u)'
    BY <1>1, <1>3, <1>7 DEF CallOk, MarkOk, Captured
  <2>2. state'[u] = "unknown" /\ request'[u] = "none"
    BY <1>3, <1>7, <1>8 DEF crmVars, IInv, TypeInv, WriterType
  <2>3. ReadOk(r)' /\ AttemptOk(r)' /\ FlushOk(r)'
    BY <1>16 DEF ReadOk, AttemptOk, FlushOk, Reads, Submits, Flushes
  <2>4. MarkOk(r)'
    BY <1>16, <2>1, <2>2 DEF MarkOk, Flushes
  <2> QED BY <2>3, <2>4 DEF CallOk
<1>18. ASSUME NEW d \in Caller, call[d].marker # 0
       PROVE  /\ call[d].unit # u /\ state'[call[d].unit] = "unknown"
              /\ request'[call[d].unit] = "none"
  <2>1. /\ state[call[d].unit] = "unknown" /\ request[call[d].unit] = "none"
        /\ call[d].unit \in Unit
    BY <1>18 DEF IInv, TypeInv, CallType, CallsInv, CallOk, MarkOk, Flushes
  <2> QED BY <1>3, <1>7, <1>8, <2>1 DEF crmVars, IInv, TypeInv, WriterType
<1>19. /\ \A d \in Caller \ {c} : MarksStay(call[d])
       /\ \A d \in Caller \ {c} : call[d].marker # 0 => call[d].unit # r.unit
  BY <1>16, <1>18 DEF MarksStay
<1>20. OwnershipStep
  <2>1. \A v \in Unit : progress[v] # "reserved"
    BY <1>7 DEF IInv, CaptureInv, CapturesFollowReads
  <2> QED BY <1>3, <1>6, <1>7, <1>10, <2>1 DEF OwnershipStep
<1>21. UNCHANGED <<registered, progress, captures, submissionVars>> /\ (r.at # "idle" => r.unit \in Unit)
  BY <1>3, <1>7, <1>16
<1> QED BY <1>14, <1>16, <1>17, <1>19, <1>20, <1>21, WriterSteps

--------------------------------------------------------------------------------
(* Sends, and observations.                                                    *)

\* An observation that settles an operation says what became of the request.
LEMMA ObservationIs ==
    ASSUME NEW u \in Unit, NEW o, o = Observed(u, Classify(u, ProofOf(u)), ProofOf(u))
    PROVE  /\ o \in Observation /\ o.unit = u /\ o.kind \in {"unknown"} \cup Settled
           /\ o.kind \in Settled => request'[u] = o.kind
           /\ Proved(o)
<1>1. PICK q : q = ProofOf(u)
  OBVIOUS
<1>2. /\ q \in [quiet : BOOLEAN, rejected : BOOLEAN, full : BOOLEAN]
      /\ q.quiet => request'[u] \in Settled
      /\ q.rejected <=> request'[u] = "not_applied"
  BY <1>1 DEF ProofOf
<1>3. PICK k : k = Classify(u, q)
  OBVIOUS
<1>4. /\ k \in {"unknown"} \cup Settled
      /\ k = "applied" => q.quiet /\ ~q.rejected /\ q.full
      /\ k = "not_applied" => q.quiet /\ q.rejected
  BY <1>2, <1>3 DEF Classify, Settled
<1>5. o = [unit |-> u, kind |-> k, proof |-> q]
  BY <1>1, <1>3 DEF Observed
<1>6. o \in Observation /\ o.unit = u /\ o.kind = k /\ o.proof = q
  BY <1>2, <1>4, <1>5 DEF Observation, Kind
<1>7. k \in Settled => request'[u] = k
  BY <1>2, <1>4 DEF Settled
<1>8. Proved(o)
  BY <1>4, <1>6 DEF Proved, Settled
<1> QED BY <1>4, <1>6, <1>7, <1>8

\* What holds of an operation that is unknown.
LEMMA UnknownIs ==
    ASSUME IInv, NEW u \in Unit, state[u] = "unknown", NEW n, n = Len(outbox)
    PROVE  /\ outstanding = u /\ revision[u] # 0 /\ Captured(u)
           /\ \A v \in Unit : state[v] \in {"unknown"} \cup Settled => revision[v] <= revision[u]
           /\ KindBy(outbox, u, n) \in {"send_started", "unknown"} \cup Settled
           /\ \A k \in {"unknown"} \cup Settled :
                 Follows(KindBy(outbox, u, n), k) \/ KindBy(outbox, u, n) \in Settled
           /\ \A i \in 1..n : outbox[i].unit = u /\ outbox[i].kind \in Settled =>
                 request[u] = outbox[i].kind
           /\ state = [state EXCEPT ![u] = "unknown"]
<1>1. outstanding = u /\ revision[u] # 0 /\ KindBy(outbox, u, n) \in {"send_started", "unknown"} \cup Settled
  BY DEF IInv, WriterInv, StateInv
<1>2. Captured(u)
  BY <1>1 DEF IInv, WriterInv, StateInv
<1>3. \A v \in Unit : state[v] \in {"unknown"} \cup Settled => revision[v] <= revision[u]
  BY DEF IInv, WriterInv, RevisionInv
<1>4. \A k \in {"unknown"} \cup Settled :
         Follows(KindBy(outbox, u, n), k) \/ KindBy(outbox, u, n) \in Settled
  BY <1>1 DEF Follows
<1>5. \A i \in 1..n : outbox[i].unit = u /\ outbox[i].kind \in Settled =>
         request[u] = outbox[i].kind
  BY DEF IInv, WriterInv, RequestInv
<1>6. state = [state EXCEPT ![u] = "unknown"]
  BY DEF IInv, TypeInv, WriterType
<1> QED BY <1>1, <1>2, <1>3, <1>4, <1>5, <1>6

\* A call that is about to send knows that nothing was sent.
LEMMA SendingIs ==
    ASSUME IInv, NEW c \in Caller, call[c].at = "sending", NEW u, u = call[c].unit
    PROVE  /\ call[c] \in Call /\ u \in Unit /\ state[u] = "unknown" /\ request[u] = "none"
           /\ sends[u] = 0 /\ Captured(u)
           /\ \A i \in 1..Len(outbox) : outbox[i].unit = u => outbox[i].kind \notin Settled
           /\ \A d \in Caller \ {c} : call[d].marker # 0 =>
                 /\ call[d].unit # u /\ call[d].unit \in Unit
                 /\ state[call[d].unit] = "unknown" /\ request[call[d].unit] = "none"
<1>1. call[c] \in Call /\ u \in Unit /\ MarkOk(call[c]) /\ call[c].at \in Writes
  BY DEF IInv, TypeInv, CallType, CallsInv, CallOk, Writes, Continues
<1>2. call[c].marker # 0 /\ state[u] = "unknown" /\ request[u] = "none" /\ Captured(u)
  BY <1>1 DEF MarkOk
<1>3. sends[u] = 0
  BY <1>1, <1>2 DEF IInv, WriterInv, RequestInv
<1>4. \A i \in 1..Len(outbox) : outbox[i].unit = u => outbox[i].kind \notin Settled
  BY <1>2 DEF IInv, WriterInv, RequestInv, Settled
<1>5. ASSUME NEW d \in Caller \ {c}, call[d].marker # 0
      PROVE  /\ call[d].unit # u /\ call[d].unit \in Unit
             /\ state[call[d].unit] = "unknown" /\ request[call[d].unit] = "none"
  BY <1>2, <1>5 DEF IInv, TypeInv, CallType, CallsInv, CallOk, MarkOk, Flushes
<1> QED BY <1>1, <1>2, <1>3, <1>4, <1>5

\* The record of a call that flushes, and then goes on or returns.
LEMMA FlushThenIs ==
    ASSUME IInv, NEW c \in Caller, NEW u \in Unit, u = call[c].unit, NEW next,
           next \in {"returning", "finalizing"}, FlushThen(c, next), Captured(u)'
    PROVE  \E r \in Call : /\ r.at = "flush" /\ r.unit = u /\ r.marker = 0
                           /\ call' = [call EXCEPT ![c] = r] /\ CallOk(r)'
<1>1. PICK r : r = [Idle EXCEPT !.at = "flush", !.unit = u, !.next = next]
  OBVIOUS
<1>2. r \in Call /\ r.at = "flush" /\ r.unit = u /\ r.next = next /\ r.marker = 0
  BY <1>1 DEF Idle, Call, Writes, Flushes, Continues
<1>3. call' = [call EXCEPT ![c] = r]
  BY <1>1 DEF FlushThen
<1>4. ReadOk(r)' /\ AttemptOk(r)' /\ FlushOk(r)' /\ MarkOk(r)'
  BY <1>2 DEF ReadOk, AttemptOk, FlushOk, MarkOk, Reads, Submits, Flushes
<1> QED BY <1>2, <1>3, <1>4 DEF CallOk

\* What a send makes of the fake.
LEMMA SendIs ==
    ASSUME IInv, NEW u \in Unit, NEW effect \in {"pending"} \cup Settled, Send(u, effect),
           sends[u] = 0
    PROVE  /\ value' \in Unit \cup {NoUnit} /\ sends' \in [Unit -> Nat]
           /\ request' \in [Unit -> {"none", "pending"} \cup Settled]
           /\ request'[u] = effect /\ effect # "none"
           /\ \A v \in Unit \ {u} : request'[v] = request[v]
           /\ \A v \in Unit : sends'[v] <= 1 /\ (request'[v] = "none" => sends'[v] = 0)
           /\ value' \in Unit => request'[value'] # "none"
<1>1. effect # "none" /\ effect \in {"none", "pending"} \cup Settled
  BY DEF Settled
<1>2. /\ sends' = [sends EXCEPT ![u] = sends[u] + 1] /\ request' = [request EXCEPT ![u] = effect]
      /\ value' = u \/ value' = value
  BY DEF Send
<1>3. /\ sends \in [Unit -> Nat] /\ value \in Unit \cup {NoUnit}
      /\ request \in [Unit -> {"none", "pending"} \cup Settled]
  BY DEF IInv, TypeInv, WriterType
<1>4. /\ value' \in Unit \cup {NoUnit} /\ sends' \in [Unit -> Nat]
      /\ request' \in [Unit -> {"none", "pending"} \cup Settled]
  BY <1>1, <1>2, <1>3
<1>5. request'[u] = effect /\ \A v \in Unit \ {u} : request'[v] = request[v]
  BY <1>2, <1>3
<1>6. sends'[u] = 1 /\ \A v \in Unit \ {u} : sends'[v] = sends[v]
  BY <1>2, <1>3
<1>7. /\ \A v \in Unit : sends[v] <= 1 /\ (request[v] = "none" => sends[v] = 0)
      /\ value \in Unit => request[value] # "none"
  BY DEF IInv, WriterInv, RequestInv
<1>8. \A v \in Unit : sends'[v] <= 1 /\ (request'[v] = "none" => sends'[v] = 0)
  BY <1>1, <1>5, <1>6, <1>7
<1>9. value' \in Unit => request'[value'] # "none"
  BY <1>1, <1>2, <1>5, <1>7
<1> QED BY <1>1, <1>4, <1>5, <1>8, <1>9

\* SendGranted: the one send of an operation, and what was seen of it.
LEMMA SendGrantedKeeps ==
    ASSUME IInv, NEW c \in Caller, SendGranted(c)
    PROVE  IInv'
<1>1. PICK u : u = call[c].unit
  OBVIOUS
<1>2. PICK n : n = Len(outbox)
  OBVIOUS
<1>3. /\ call[c].at = "sending" /\ FlushThen(c, "finalizing")
      /\ UNCHANGED <<storeVars, submissionVars, faults, intentVars, receipts, ledger>>
  BY DEF SendGranted, MaySend
<1>4. PICK effect \in {"pending"} \cup Settled : Send(u, effect)
  BY <1>1 DEF SendGranted
<1>5. PICK o \in Observation : /\ outbox' = Append(outbox, o) /\ o.unit = u
                               /\ o.kind \in {"unknown"} \cup Settled /\ Proved(o)
                               /\ o.kind \in Settled => request'[u] = o.kind
  <2>0. u \in Unit
    BY <1>1, <1>3, SendingIs
  <2>1. CASE RecordObservation(u)
    <3>1. PICK o : o = Observed(u, Classify(u, ProofOf(u)), ProofOf(u))
      OBVIOUS
    <3>2. outbox' = Append(outbox, o)
      BY <2>1, <3>1 DEF RecordObservation, AppendOne
    <3> QED BY <2>0, <3>1, <3>2, ObservationIs
  <2>2. CASE AppendOne(u, "unknown", NoProof)
    <3>1. PICK o : o = Observed(u, "unknown", NoProof)
      OBVIOUS
    <3>2. outbox' = Append(outbox, o)
      BY <2>2, <3>1 DEF AppendOne
    <3>3. o \in Observation /\ o.unit = u /\ o.kind = "unknown" /\ Proved(o) /\ "unknown" \notin Settled
      BY <2>0, <3>1 DEF Observed, Observation, Kind, NoProof, Proved, Settled
    <3> QED BY <3>2, <3>3
  <2> QED BY <1>1, <2>1, <2>2 DEF SendGranted
<1>6. /\ u \in Unit /\ state[u] = "unknown" /\ sends[u] = 0 /\ Captured(u)
      /\ \A i \in 1..n : outbox[i].unit = u => outbox[i].kind \notin Settled
      /\ \A d \in Caller \ {c} : call[d].marker # 0 =>
            /\ call[d].unit # u /\ call[d].unit \in Unit
            /\ state[call[d].unit] = "unknown" /\ request[call[d].unit] = "none"
  BY <1>1, <1>2, <1>3, SendingIs
<1>7. /\ value' \in Unit \cup {NoUnit} /\ sends' \in [Unit -> Nat]
      /\ request' \in [Unit -> {"none", "pending"} \cup Settled]
      /\ \A v \in Unit \ {u} : request'[v] = request[v]
      /\ \A v \in Unit : sends'[v] <= 1 /\ (request'[v] = "none" => sends'[v] = 0)
      /\ value' \in Unit => request'[value'] # "none"
  BY <1>4, <1>6, SendIs
<1>8. WriterType' /\ WriterInv' /\ Len(outbox) <= Len(outbox') /\ Len(ledger) <= Len(ledger')
  <2>1. /\ outstanding = u /\ revision[u] # 0
        /\ \A v \in Unit : state[v] \in {"unknown"} \cup Settled => revision[v] <= revision[u]
        /\ \A k \in {"unknown"} \cup Settled :
              Follows(KindBy(outbox, u, n), k) \/ KindBy(outbox, u, n) \in Settled
        /\ state = [state EXCEPT ![u] = "unknown"]
    BY <1>2, <1>6, UnknownIs
  <2>2. /\ outstanding' = u /\ state' = [state EXCEPT ![u] = "unknown"]
        /\ UNCHANGED <<captures, revision, ledger, receipts>> /\ generation' = generation
    BY <1>3, <2>1 DEF intentVars, storeVars
  <2>3. generation' \in [Unit -> Nat] /\ outstanding \in {NoUnit, u}
    BY <2>1, <2>2 DEF IInv, TypeInv, WriterType
  <2>4. /\ o.kind \in {"send_started", "unknown"} \cup Settled /\ o.kind # "send_started"
        /\ Follows(KindBy(outbox, u, n), o.kind) \/ KindBy(outbox, u, n) \in Settled
    BY <1>5, <2>1 DEF Settled
  <2>5. \A i \in 1..n : outbox[i].unit = u /\ outbox[i].kind \in Settled =>
           request'[u] = outbox[i].kind
    BY <1>6
  <2> QED BY <1>2, <1>5, <1>6, <1>7, <2>1, <2>2, <2>3, <2>4, <2>5, UnknownIsAppended
<1>9. PICK r \in Call : /\ r.at = "flush" /\ r.unit = u /\ r.marker = 0
                        /\ call' = [call EXCEPT ![c] = r] /\ CallOk(r)'
  <2>1. Captured(u)'
    BY <1>3, <1>6 DEF Captured, storeVars
  <2> QED BY <1>1, <1>3, <1>6, <2>1, FlushThenIs
<1>10. \A d \in Caller \ {c} : MarksStay(call[d])
  BY <1>3, <1>6, <1>7 DEF MarksStay, intentVars
<1>11. UNCHANGED <<registered, progress, captures, submissionVars>> /\ OwnershipStep
  BY <1>3, OwnershipStays DEF storeVars
<1> QED BY <1>6, <1>8, <1>9, <1>10, <1>11, WriterSteps

\* ObserveAgain: the reservation is taken again, and the operation stays unknown.
LEMMA ObserveAgainKeeps ==
    ASSUME IInv, NEW c \in Caller, ObserveAgain(c)
    PROVE  IInv'
<1>1. PICK u : u = call[c].unit
  OBVIOUS
<1>2. PICK n : n = Len(outbox)
  OBVIOUS
<1>3. /\ call[c].at = "observing" /\ FlushThen(c, "finalizing") /\ outstanding = u
      /\ Reclaim(u) /\ RecordObservation(u) /\ state' = [state EXCEPT ![u] = "unknown"]
      /\ UNCHANGED <<registered, progress, captures, submissionVars, faults, revision,
                     outstanding, receipts, ledger, crmVars>>
  BY <1>1 DEF ObserveAgain, CanReclaim
<1>4. u \in Unit
  BY <1>1, <1>3 DEF IInv, TypeInv, CallType
<1>5. state[u] = "unknown"
  BY <1>3, <1>4 DEF IInv, WriterInv, StateInv
<1>6. /\ revision[u] # 0 /\ Captured(u)
      /\ \A v \in Unit : state[v] \in {"unknown"} \cup Settled => revision[v] <= revision[u]
      /\ \A k \in {"unknown"} \cup Settled :
            Follows(KindBy(outbox, u, n), k) \/ KindBy(outbox, u, n) \in Settled
      /\ \A i \in 1..n : outbox[i].unit = u /\ outbox[i].kind \in Settled =>
            request[u] = outbox[i].kind
      /\ state = [state EXCEPT ![u] = "unknown"]
  BY <1>2, <1>4, <1>5, UnknownIs
<1>7. PICK o : o = Observed(u, Classify(u, ProofOf(u)), ProofOf(u))
  OBVIOUS
<1>8. /\ o \in Observation /\ o.unit = u /\ o.kind \in {"unknown"} \cup Settled /\ Proved(o)
      /\ o.kind \in Settled => request'[u] = o.kind
      /\ outbox' = Append(outbox, o)
  <2>1. outbox' = Append(outbox, o)
    BY <1>3, <1>7 DEF RecordObservation, AppendOne
  <2> QED BY <1>4, <1>7, <2>1, ObservationIs
<1>9. ownership.generation \in Nat
  BY DEF IInv, TypeInv, StoreType
<1>10. WriterType' /\ WriterInv' /\ Len(outbox) <= Len(outbox') /\ Len(ledger) <= Len(ledger')
  <2>1. request' = request /\ value' = value /\ sends' = sends /\ outstanding' = u
        /\ UNCHANGED <<captures, revision, ledger, receipts>>
    BY <1>3 DEF crmVars
  <2>2. /\ value' \in Unit \cup {NoUnit} /\ sends' \in [Unit -> Nat]
        /\ request' \in [Unit -> {"none", "pending"} \cup Settled]
    BY <2>1 DEF IInv, TypeInv, WriterType
  <2>3. generation' \in [Unit -> Nat] /\ outstanding \in {NoUnit, u}
    BY <1>3, <1>9 DEF Reclaim, IInv, TypeInv, WriterType
  <2>4. /\ \A v \in Unit \ {u} : request'[v] = request[v]
        /\ \A v \in Unit : sends'[v] <= 1 /\ (request'[v] = "none" => sends'[v] = 0)
        /\ value' \in Unit => request'[value'] # "none"
    BY <2>1 DEF IInv, WriterInv, RequestInv
  <2>5. /\ o.kind \in {"send_started", "unknown"} \cup Settled /\ o.kind # "send_started"
        /\ Follows(KindBy(outbox, u, n), o.kind) \/ KindBy(outbox, u, n) \in Settled
    BY <1>6, <1>8 DEF Settled
  <2>6. \A i \in 1..n : outbox[i].unit = u /\ outbox[i].kind \in Settled =>
           request'[u] = outbox[i].kind
    BY <1>6, <2>1
  <2> QED BY <1>2, <1>3, <1>4, <1>6, <1>8, <2>1, <2>2, <2>3, <2>4, <2>5, <2>6, UnknownIsAppended, ZenonT(40)
<1>11. PICK r \in Call : /\ r.at = "flush" /\ r.unit = u /\ r.marker = 0
                         /\ call' = [call EXCEPT ![c] = r] /\ CallOk(r)'
  <2>1. Captured(u)'
    BY <1>3, <1>6 DEF Captured
  <2> QED BY <1>1, <1>3, <1>4, <2>1, FlushThenIs
<1>12. \A d \in Caller \ {c} : MarksStay(call[d])
  <2>1. state' = state /\ request' = request
    BY <1>3, <1>6 DEF crmVars
  <2> QED BY <2>1, MarksOfOthers
<1>13. OwnershipStep
  <2>1. CASE ownership.state = "held"
    BY <1>3, <2>1, OwnershipStays DEF Reclaim
  <2>2. CASE ownership.state # "held"
    <3>1. \A v \in Unit : progress[v] # "reserved"
      BY <2>2 DEF IInv, CaptureInv, CapturesFollowReads
    <3>2. ownership' = [generation |-> ownership.generation + 1, state |-> "held", owner |-> u]
      BY <1>3, <2>2 DEF Reclaim, Hold
    <3> QED BY <1>4, <1>9, <3>1, <3>2 DEF OwnershipStep
  <2> QED BY <2>1, <2>2
<1> QED BY <1>3, <1>4, <1>10, <1>11, <1>12, <1>13, WriterSteps

--------------------------------------------------------------------------------
(* The fake by itself, and sends that nobody hears of.                         *)

\* What becomes of a request is not known of one that is settled.
LEMMA FakeMovesOn ==
    ASSUME IInv, UNCHANGED <<captures, intentVars, outbox, receipts, ledger>>,
           value' \in Unit \cup {NoUnit}, sends' \in [Unit -> Nat],
           request' \in [Unit -> {"none", "pending"} \cup Settled],
           \A v \in Unit : \/ request'[v] = request[v]
                           \/ /\ state[v] = "unknown"
                              /\ \A i \in 1..Len(outbox) :
                                    outbox[i].unit = v => outbox[i].kind \notin Settled,
           \A v \in Unit : sends'[v] <= 1 /\ (request'[v] = "none" => sends'[v] = 0),
           value' \in Unit => request'[value'] # "none"
    PROVE  WriterType' /\ WriterInv'
<1> USE DEF intentVars
<1>1. WriterType'
  BY DEF IInv, TypeInv, WriterType
<1>2. OutboxInv' /\ LedgerInv' /\ RevisionInv'
  BY DEF IInv, WriterInv, OutboxInv, LedgerInv, RevisionInv
<1>3. StateInv'
  <2>1. \A v : Captured(v)' <=> Captured(v)
    BY DEF Captured
  <2>2. "unknown" \notin Settled
    BY DEF Settled
  <2>3. \A v \in Unit : state[v] \in Settled => request'[v] = request[v]
    BY <2>2
  <2> QED BY <2>1, <2>3 DEF IInv, WriterInv, StateInv
<1>4. RequestInv'
  <2>1. ASSUME NEW v \in Unit, request'[v] # "none" PROVE state[v] \in {"unknown"} \cup Settled
    BY <2>1 DEF IInv, WriterInv, RequestInv
  <2>2. ASSUME NEW k \in 1..Len(outbox), outbox[k].kind \in Settled
        PROVE  request'[outbox[k].unit] = outbox[k].kind
    <3>1. PICK w \in Unit : w = outbox[k].unit
      BY ObservedUnits
    <3>2. request'[w] = request[w]
      BY <2>2, <3>1
    <3> QED BY <2>2, <3>1, <3>2 DEF IInv, WriterInv, RequestInv
  <2>3. \A k \in 1..Len(outbox) : outbox[k].kind = "send_started" =>
           state[outbox[k].unit] \in {"unknown"} \cup Settled
    BY DEF IInv, WriterInv, RequestInv
  <2> QED BY <2>1, <2>2, <2>3 DEF RequestInv
<1> QED BY <1>1, <1>2, <1>3, <1>4 DEF WriterInv

\* SendLost: the operation was sent, and is as unknown as its mark made it.
LEMMA SendLostKeeps ==
    ASSUME IInv, NEW c \in Caller, SendLost(c)
    PROVE  IInv'
<1>1. PICK u : u = call[c].unit
  OBVIOUS
<1>2. /\ call[c].at = "sending" /\ Return(c)
      /\ UNCHANGED <<storeVars, submissionVars, intentVars, outbox, receipts, ledger>>
  BY DEF SendLost, MaySend
<1>3. PICK effect \in {"pending"} \cup Settled : Send(u, effect)
  BY <1>1 DEF SendLost
<1>4. /\ u \in Unit /\ state[u] = "unknown" /\ sends[u] = 0
      /\ \A i \in 1..Len(outbox) : outbox[i].unit = u => outbox[i].kind \notin Settled
      /\ \A d \in Caller \ {c} : call[d].marker # 0 =>
            /\ call[d].unit # u /\ call[d].unit \in Unit
            /\ state[call[d].unit] = "unknown" /\ request[call[d].unit] = "none"
  BY <1>1, <1>2, SendingIs
<1>5. /\ value' \in Unit \cup {NoUnit} /\ sends' \in [Unit -> Nat]
      /\ request' \in [Unit -> {"none", "pending"} \cup Settled]
      /\ \A v \in Unit \ {u} : request'[v] = request[v]
      /\ \A v \in Unit : sends'[v] <= 1 /\ (request'[v] = "none" => sends'[v] = 0)
      /\ value' \in Unit => request'[value'] # "none"
  BY <1>3, <1>4, SendIs
<1>6. WriterType' /\ WriterInv'
  <2>1. UNCHANGED <<captures, intentVars, outbox, receipts, ledger>>
    BY <1>2 DEF storeVars
  <2>2. \A v \in Unit : \/ request'[v] = request[v]
                        \/ /\ state[v] = "unknown"
                           /\ \A i \in 1..Len(outbox) :
                                 outbox[i].unit = v => outbox[i].kind \notin Settled
    BY <1>4, <1>5
  <2> QED BY <1>5, <2>1, <2>2, FakeMovesOn
<1>7. PICK r : r = Idle
  OBVIOUS
<1>8. r \in Call /\ r.at = "idle" /\ r.marker = 0 /\ CallOk(r)' /\ call' = [call EXCEPT ![c] = r]
  BY <1>2, <1>7, IdleIsOk DEF Return, CallOk, ReadOk, AttemptOk, FlushOk, MarkOk
<1>9. \A d \in Caller \ {c} : MarksStay(call[d])
  BY <1>2, <1>4, <1>5 DEF MarksStay, intentVars
<1>10. UNCHANGED <<registered, progress, captures, submissionVars>> /\ OwnershipStep
  BY <1>2, OwnershipStays DEF storeVars
<1>11. Len(outbox) <= Len(outbox') /\ Len(ledger) <= Len(ledger')
  <2>1. Len(outbox) \in Nat /\ Len(ledger) \in Nat
    BY LenProperties DEF IInv, TypeInv, WriterType
  <2> QED BY <1>2, <2>1
<1> QED BY <1>6, <1>8, <1>9, <1>10, <1>11, WriterSteps

\* NotGranted: what another call delivered is unknown already.
LEMMA NotGrantedKeeps ==
    ASSUME IInv, NEW c \in Caller, NotGranted(c)
    PROVE  IInv'
<1>1. call[c].at = "sending" /\ Return(c) /\ state' = [state EXCEPT ![call[c].unit] = "unknown"]
      /\ UNCHANGED <<storeVars, submissionVars, faults, revision, generation, outstanding, outbox,
                     receipts, ledger, crmVars>>
  BY DEF NotGranted
<1>2. PICK u \in Unit : u = call[c].unit /\ state[u] = "unknown"
  BY <1>1, SendingIs
<1>3. state' = state
  BY <1>1, <1>2 DEF IInv, TypeInv, WriterType
<1> QED BY <1>1, <1>3, CallReturns DEF writerVars, intentVars

\* A pending request is of an operation that is unknown.
LEMMA PendingIs ==
    ASSUME IInv, NEW u \in Unit, request[u] = "pending"
    PROVE  /\ state[u] = "unknown"
           /\ \A i \in 1..Len(outbox) : outbox[i].unit = u => outbox[i].kind \notin Settled
<1>1. "pending" \notin Settled
  BY DEF Settled
<1>2. state[u] \in {"unknown"} \cup Settled
  BY DEF IInv, WriterInv, RequestInv
<1>3. state[u] \notin Settled
  BY <1>1 DEF IInv, WriterInv, StateInv
<1> QED BY <1>1, <1>2, <1>3 DEF IInv, WriterInv, RequestInv

\* Settle: the request that settles is of the operation that is unknown.
LEMMA SettleKeeps ==
    ASSUME IInv, NEW u \in Unit, Settle(u)
    PROVE  IInv'
<1>1. request[u] = "pending" /\ UNCHANGED <<captureVars, intentVars, outbox, receipts, ledger, sends>>
  BY DEF Settle
<1>2. PICK effect \in Settled : /\ request' = [request EXCEPT ![u] = effect]
                                /\ value' = IF effect = "applied" THEN u ELSE value
  BY DEF Settle
<1>3. /\ state[u] = "unknown"
      /\ \A i \in 1..Len(outbox) : outbox[i].unit = u => outbox[i].kind \notin Settled
  BY <1>1, PendingIs
<1>4. /\ effect # "none" /\ request'[u] = effect /\ \A v \in Unit \ {u} : request'[v] = request[v]
      /\ request' \in [Unit -> {"none", "pending"} \cup Settled]
      /\ value' \in Unit \cup {NoUnit} /\ sends' \in [Unit -> Nat]
  BY <1>1, <1>2 DEF Settled, IInv, TypeInv, WriterType
<1>5. /\ \A v \in Unit : sends'[v] <= 1 /\ (request'[v] = "none" => sends'[v] = 0)
      /\ value' \in Unit => request'[value'] # "none"
  BY <1>1, <1>2, <1>4 DEF IInv, WriterInv, RequestInv
<1>6. WriterType' /\ WriterInv'
  <2>1. UNCHANGED <<captures, intentVars, outbox, receipts, ledger>>
    BY <1>1 DEF captureVars, storeVars
  <2>2. \A v \in Unit : \/ request'[v] = request[v]
                        \/ /\ state[v] = "unknown"
                           /\ \A i \in 1..Len(outbox) :
                                 outbox[i].unit = v => outbox[i].kind \notin Settled
    BY <1>3, <1>4
  <2> QED BY <1>4, <1>5, <2>1, <2>2, FakeMovesOn
<1>7. ASSUME NEW d \in Caller PROVE MarksStay(call[d])
  <2>1. call[d].marker # 0 =>
           state[call[d].unit] = "unknown" /\ request[call[d].unit] = "none" /\ call[d].unit \in Unit
    BY DEF IInv, TypeInv, CallType, CallsInv, CallOk, MarkOk, Flushes
  <2> QED BY <1>1, <1>4, <2>1 DEF MarksStay, intentVars
<1> QED BY <1>1, <1>6, <1>7, FakeSteps DEF captureVars

\* SetProperties: somebody else edits the company.
LEMMA SetPropertiesKeeps ==
    ASSUME IInv, SetProperties
    PROVE  IInv'
<1>1. value' = NoUnit /\ UNCHANGED <<storeVars, submissionVars, call, intentVars, outbox, receipts,
                                    ledger, request, sends>>
  BY DEF SetProperties
<1>2. /\ request' \in [Unit -> {"none", "pending"} \cup Settled] /\ sends' \in [Unit -> Nat]
      /\ \A v \in Unit : sends'[v] <= 1 /\ (request'[v] = "none" => sends'[v] = 0)
      /\ value' \notin Unit
  BY <1>1, CaptureAssumption DEF IInv, TypeInv, WriterType, WriterInv, RequestInv
<1>3. WriterType' /\ WriterInv'
  <2>1. UNCHANGED <<captures, intentVars, outbox, receipts, ledger>>
    BY <1>1 DEF storeVars
  <2>2. value' \in Unit \cup {NoUnit} /\ \A v \in Unit : request'[v] = request[v]
    BY <1>1
  <2> QED BY <1>2, <2>1, <2>2, FakeMovesOn
<1>4. \A d \in Caller : MarksStay(call[d])
  BY <1>1, MarksOfOthers DEF intentVars
<1> QED BY <1>1, <1>3, <1>4, FakeSteps

--------------------------------------------------------------------------------
(* An operation is settled.                                                    *)

\* What is finalizable is settled by its newest observation, and the ledger has it.
LEMMA FinalizableIs ==
    ASSUME IInv, NEW u \in Unit, Finalizable(u), NEW n, n = Len(outbox)
    PROVE  /\ KindBy(outbox, u, n) \in Settled /\ request[u] = KindBy(outbox, u, n)
           /\ outbox[LatestOf(u)].kind = KindBy(outbox, u, n)
           /\ Places(outbox, u, n) \subseteq 1..Len(ledger)
<1>1. n \in Nat /\ Len(ledger) \in Nat /\ DOMAIN outbox = 1..n
  BY LenProperties DEF IInv, TypeInv, WriterType
<1>2. state[u] = "unknown" /\ outbox[LatestOf(u)].kind \in Settled /\ LatestOf(u) \in receipts
  BY DEF Finalizable
<1>3. Places(outbox, u, n) # {}
  <2>1. KindBy(outbox, u, n) # "none"
    BY <1>2, UnknownIs DEF Settled
  <2> QED BY <2>1 DEF KindBy
<1>4. LatestOf(u) = Max(Places(outbox, u, n))
  BY <1>1 DEF LatestOf, Places
<1>5. PICK i : i = LatestOf(u)
  OBVIOUS
<1>6. i \in 1..Len(ledger)
  BY <1>2, <1>5 DEF IInv, WriterInv, LedgerInv
<1>7. \A j \in 1..n : outbox[j].unit = u => j <= i
  BY <1>1, <1>3, <1>4, <1>5, PlacesAreBounded
<1>8. Places(outbox, u, n) \subseteq 1..Len(ledger)
  BY <1>1, <1>6, <1>7 DEF Places
<1>9. outbox[LatestOf(u)].kind = KindBy(outbox, u, n)
  BY <1>3, <1>4 DEF KindBy
<1>10. KindBy(outbox, u, n) \in Settled
  BY <1>2, <1>9
<1>11. request[u] = KindBy(outbox, u, n)
  BY <1>10, NewestIs
<1> QED BY <1>8, <1>9, <1>10, <1>11

\* Finalize: the company is released by the operation it was kept for.
LEMMA FinalizeKeeps ==
    ASSUME IInv, NEW c \in Caller, Finalize(c)
    PROVE  IInv'
<1>1. PICK u : u = call[c].unit
  OBVIOUS
<1>2. PICK n : n = Len(outbox)
  OBVIOUS
<1>3. PICK g : g = IF ownership.state = "held" THEN ownership.generation
                   ELSE ownership.generation + 1
  OBVIOUS
<1>4. PICK k : k = KindBy(outbox, u, n)
  OBVIOUS
<1>5. /\ call[c].at \in {"finalizing", "reconciling"} /\ Finalizable(u) /\ Return(c)
      /\ ownership' = [generation |-> g, state |-> "free", owner |-> NoUnit]
      /\ generation' = [generation EXCEPT ![u] = ownership'.generation]
      /\ outstanding' = NoUnit
      /\ state' = [state EXCEPT ![u] = outbox[LatestOf(u)].kind]
      /\ UNCHANGED <<registered, progress, captures, submissionVars, faults, revision, outbox,
                     receipts, ledger, crmVars>>
  BY <1>1, <1>3 DEF Finalize
<1>6. u \in Unit
  BY <1>1, <1>5 DEF IInv, TypeInv, CallType
<1>7. /\ state[u] = "unknown" /\ outstanding = u /\ Captured(u) /\ revision[u] # 0
      /\ ownership.state = "held" => ownership.owner = u
  <2>1. state[u] = "unknown" /\ CanReclaim(u)
    BY <1>5 DEF Finalizable
  <2>2. outstanding = u /\ Captured(u) /\ revision[u] # 0
    BY <1>2, <1>6, <2>1, UnknownIs
  <2> QED BY <2>1, <2>2 DEF CanReclaim, Fenced
<1>8. /\ k \in Settled /\ request[u] = k /\ outbox[LatestOf(u)].kind = k
      /\ Places(outbox, u, n) \subseteq 1..Len(ledger)
  BY <1>2, <1>4, <1>5, <1>6, FinalizableIs
<1>9. ownership.generation \in Nat /\ g \in Nat /\ ownership.generation <= g
  BY <1>3 DEF IInv, TypeInv, StoreType
<1>10. \A v \in Unit : state'[v] = IF v = u THEN k ELSE state[v]
  BY <1>5, <1>6, <1>8 DEF IInv, TypeInv, WriterType
<1>11. "unknown" \notin Settled /\ "none" \notin Settled /\ NoUnit \notin Unit
       /\ Settled \cap {"none", "prepared", "refused", "superseded"} = {}
  BY CaptureAssumption DEF Settled
<1>12. \A v \in Unit : state'[v] # "unknown"
  BY <1>6, <1>7, <1>8, <1>10, <1>11 DEF IInv, WriterInv, StateInv
<1>13. WriterType'
  <2>1. generation' \in [Unit -> Nat]
    BY <1>5, <1>9 DEF IInv, TypeInv, WriterType
  <2> QED BY <1>5, <1>8, <2>1 DEF IInv, TypeInv, WriterType, crmVars
<1>14. StateInv'
  <2>1. ASSUME NEW v \in Unit
        PROVE  LET kind == KindBy(outbox, v, n) IN
               /\ state'[v] # "none" <=> revision[v] # 0
               /\ revision[v] # 0 => Captured(v)'
               /\ state'[v] \in {"none", "prepared", "refused", "superseded"} => kind = state'[v]
               /\ state'[v] = "unknown" <=> NoUnit = v
               /\ state'[v] = "unknown" => kind \in {"send_started", "unknown"} \cup Settled
               /\ state'[v] \in Settled =>
                     kind = state'[v] /\ request[v] = state'[v]
                     /\ Places(outbox, v, n) \subseteq 1..Len(ledger)
    <3>1. Captured(v)' <=> Captured(v)
      BY <1>5 DEF Captured
    <3>2. CASE v = u
      BY <1>4, <1>7, <1>8, <1>10, <1>11, <3>1, <3>2
    <3>3. CASE v # u
      BY <1>2, <1>10, <1>11, <1>12, <3>1, <3>3 DEF IInv, WriterInv, StateInv
    <3> QED BY <3>2, <3>3
  <2> QED BY <1>2, <1>5, <2>1 DEF StateInv, crmVars
<1>15. RequestInv'
  <2>1. \A v \in Unit : state[v] \in {"unknown"} \cup Settled => state'[v] \in {"unknown"} \cup Settled
    BY <1>8, <1>10
  <2>2. \A i \in 1..Len(outbox) : outbox[i].unit \in Unit
    BY ObservedUnits
  <2> QED BY <1>5, <2>1, <2>2 DEF IInv, WriterInv, RequestInv, crmVars
<1>16. RevisionInv'
  BY <1>5, <1>12 DEF IInv, WriterInv, RevisionInv
<1>17. OutboxInv' /\ LedgerInv'
  BY <1>5 DEF IInv, WriterInv, OutboxInv, LedgerInv
<1>18. PICK r : r = Idle
  OBVIOUS
<1>19. r \in Call /\ r.at = "idle" /\ r.marker = 0 /\ CallOk(r)' /\ call' = [call EXCEPT ![c] = r]
  BY <1>5, <1>18, IdleIsOk DEF Return, CallOk, ReadOk, AttemptOk, FlushOk, MarkOk
<1>20. ASSUME NEW d \in Caller PROVE MarksStay(call[d])
  <2>1. call[d].marker # 0 =>
           state[call[d].unit] = "unknown" /\ request[call[d].unit] = "none" /\ call[d].unit \in Unit
    BY DEF IInv, TypeInv, CallType, CallsInv, CallOk, MarkOk, Flushes
  <2>2. call[d].marker = 0
    <3>1. call[d].marker # 0 => call[d].unit = u
      BY <1>7, <2>1 DEF IInv, WriterInv, StateInv
    <3> QED BY <1>8, <1>11, <2>1, <3>1
  <2> QED BY <2>2 DEF MarksStay
<1>21. OwnershipStep
  <2>1. \A v \in Unit : progress[v] # "reserved"
    BY <1>7 DEF IInv, CaptureInv, CapturesFollowReads
  <2>2. ownership'.generation = g /\ ownership'.state = "free" /\ ownership'.owner = NoUnit
    BY <1>5
  <2>3. ownership' \in [generation : Nat, state : {"free", "held", "abandoned"},
                        owner : Unit \cup {NoUnit}]
    BY <1>5, <1>9
  <2> QED BY <1>9, <2>1, <2>2, <2>3 DEF OwnershipStep
<1>22. Len(outbox) <= Len(outbox') /\ Len(ledger) <= Len(ledger')
  <2>1. Len(outbox) \in Nat /\ Len(ledger) \in Nat
    BY LenProperties DEF IInv, TypeInv, WriterType
  <2> QED BY <1>5, <2>1
<1>23. WriterInv'
  BY <1>14, <1>15, <1>16, <1>17 DEF WriterInv
<1> QED BY <1>5, <1>13, <1>19, <1>20, <1>21, <1>22, <1>23, WriterSteps

--------------------------------------------------------------------------------
(* An operation is prepared, and supersedes the ones that were not sent.       *)

\* A finite set in some order has each of its elements in one place.
LEMMA SetInOrder ==
    ASSUME NEW S, IsFiniteSet(S), NEW f, f = SetToSeq(S), NEW m, m = Cardinality(S)
    PROVE  /\ m \in Nat /\ f \in [1..m -> S]
           /\ \A i, j \in 1..m : f[i] = f[j] => i = j
           /\ \A e \in S : \E i \in 1..m : f[i] = e
<1>1. m \in Nat /\ ExistsBijection(1..m, S)
  BY FS_CardinalityType
<1>2. \E g \in [1..m -> S] : IsInjective(g)
  BY <1>1 DEF ExistsBijection, Bijection, Injection
<1>3. f \in [1..m -> S] /\ IsInjective(f)
  <2>1. f = CHOOSE g \in [1..m -> S] : IsInjective(g)
    BY DEF SetToSeq
  <2> QED BY <1>2, <2>1
<1>4. f \in Surjection(1..m, S)
  <2>1. f \in Injection(1..m, S)
    BY <1>3 DEF Injection
  <2>2. Cardinality(1..m) = m
    BY <1>1, FS_Interval
  <2> QED BY <2>1, <2>2, FS_Injection
<1>5. \A i, j \in 1..m : f[i] = f[j] => i = j
  BY <1>3 DEF IsInjective
<1>6. \A e \in S : \E i \in 1..m : f[i] = e
  BY <1>4 DEF Surjection
<1> QED BY <1>1, <1>3, <1>5, <1>6

\* What the outbox is after it.
WithPrepared(s, m, f, u) ==
    s \o [k \in 1..m |-> Observed(f[k], "superseded", NoProof)] \o <<Observed(u, "prepared", NoProof)>>

HasPrepared(s, t, n, m, f, u) ==
    /\ t \in Seq(Observation) /\ Len(t) = n + m + 1
    /\ \A i \in 1..n : t[i] = s[i]
    /\ \A j \in 1..m : t[n + j] = Observed(f[j], "superseded", NoProof)
    /\ t[n + m + 1] = Observed(u, "prepared", NoProof)

LEMMA PreparedIsAppended ==
    ASSUME NEW s \in Seq(Observation), NEW n \in Nat, n = Len(s), NEW m \in Nat,
           NEW f \in [1..m -> Unit], NEW u \in Unit, NEW t,
           t = WithPrepared(s, m, f, u)
    PROVE  HasPrepared(s, t, n, m, f, u)
<1>1. PICK mid : mid = [k \in 1..m |-> Observed(f[k], "superseded", NoProof)]
  OBVIOUS
<1>2. PICK o : o = Observed(u, "prepared", NoProof)
  OBVIOUS
<1>3. o \in Observation /\ \A k \in 1..m : Observed(f[k], "superseded", NoProof) \in Observation
  BY <1>2 DEF Observed, Observation, Kind, NoProof
<1>4. mid \in Seq(Observation) /\ Len(mid) = m
        /\ \A k \in 1..m : mid[k] = Observed(f[k], "superseded", NoProof)
  BY <1>1, <1>3
<1>5. PICK s2 : s2 = s \o mid
  OBVIOUS
<1>6. PICK p \in Nat : p = n + m
  OBVIOUS
<1>7. /\ s2 \in Seq(Observation) /\ Len(s2) = p
      /\ \A i \in 1..p : s2[i] = IF i <= n THEN s[i] ELSE mid[i - n]
  BY <1>4, <1>5, <1>6, ConcatProperties
<1>8. t = Append(s2, o)
  <2>1. t = s2 \o <<o>>
    BY <1>1, <1>2, <1>5 DEF WithPrepared
  <2> QED BY <1>3, <1>7, <2>1, AppendIsConcat
<1>9. /\ t \in Seq(Observation) /\ Len(t) = p + 1 /\ t[p + 1] = o
      /\ \A i \in 1..p : t[i] = s2[i]
  <2>1. s2 \in Seq(Observation) /\ o \in Observation /\ Len(s2) = p
    BY <1>3, <1>7
  <2>2. /\ Append(s2, o) \in Seq(Observation) /\ Len(Append(s2, o)) = Len(s2) + 1
        /\ Append(s2, o)[Len(s2) + 1] = o
        /\ \A i \in 1..Len(s2) : Append(s2, o)[i] = s2[i]
    BY <2>1, AppendProperties
  <2> QED BY <1>8, <2>1, <2>2, Zenon
<1>10. \A i \in 1..n : t[i] = s[i]
  <2>1. ASSUME NEW i \in 1..n PROVE t[i] = s[i]
    <3>1. i \in 1..p /\ i <= n
      BY <1>6
    <3> QED BY <1>7, <1>9, <3>1
  <2> QED BY <2>1
<1>11. \A j \in 1..m : t[n + j] = Observed(f[j], "superseded", NoProof)
  <2>1. ASSUME NEW j \in 1..m PROVE t[n + j] = mid[j]
    <3>1. PICK i : i = n + j
      OBVIOUS
    <3>2. i \in 1..p /\ ~(i <= n) /\ i - n = j
      BY <1>6, <3>1
    <3>3. t[i] = s2[i] /\ s2[i] = mid[j]
      BY <1>7, <1>9, <3>2
    <3> QED BY <3>1, <3>3
  <2> QED BY <1>4, <2>1
<1>12. t[n + m + 1] = o /\ Len(t) = n + m + 1
  BY <1>6, <1>9
<1>13. t[n + m + 1] = Observed(u, "prepared", NoProof)
  BY <1>2, <1>12
<1> QED BY <1>9, <1>10, <1>11, <1>12, <1>13 DEF HasPrepared

\* What that says of the newest observation of each operation.
IsPrepared(s, t, n, m, f, u) ==
    /\ \A i \in 1..n : t[i] = s[i]
    /\ \A j \in 1..m : t[n + j].unit = f[j] /\ t[n + j].kind = "superseded"
                      /\ t[n + j].proof = NoProof
    /\ t[n + m + 1].unit = u /\ t[n + m + 1].kind = "prepared" /\ t[n + m + 1].proof = NoProof
    /\ \A i, j \in 1..m : f[i] = f[j] => i = j
    /\ \A j \in 1..m : f[j] # u

LEMMA SupersededPlaces ==
    ASSUME NEW s, NEW t, NEW n \in Nat, NEW m \in Nat, NEW f, NEW u, IsPrepared(s, t, n, m, f, u),
           NEW i \in Int, n < i, i <= n + m
    PROVE  \E j \in 1..m : i = n + j /\ t[i].unit = f[j]
<1>1. PICK j : j = i - n
  OBVIOUS
<1>2. j \in 1..m /\ i = n + j
  BY <1>1
<1> QED BY <1>2 DEF IsPrepared

LEMMA SameBefore ==
    ASSUME NEW s, NEW t, NEW n \in Nat, NEW m \in Nat, NEW f, NEW u, IsPrepared(s, t, n, m, f, u),
           NEW v
    PROVE  KindBy(t, v, n) = KindBy(s, v, n) /\ Places(t, v, n) = Places(s, v, n)
BY KindBySame DEF IsPrepared

LEMMA PreparedKinds ==
    ASSUME NEW s, NEW t, NEW n \in Nat, NEW m \in Nat, NEW f, NEW u, IsPrepared(s, t, n, m, f, u)
    PROVE  KindBy(t, u, n + m) = KindBy(s, u, n) /\ KindBy(t, u, n + m + 1) = "prepared"
<1>1. PICK p \in Nat : p = n + m
  OBVIOUS
<1>2. PICK e \in Nat : e = n + m + 1
  OBVIOUS
<1>3. ASSUME NEW i \in (n + 1)..p PROVE t[i].unit # u
  <2>1. i \in Int /\ n < i /\ i <= n + m
    BY <1>1
  <2>2. PICK j : j = i - n
    OBVIOUS
  <2>3. j \in 1..m /\ i = n + j
    BY <2>1, <2>2
  <2> QED BY <2>3 DEF IsPrepared
<1>4. KindBy(t, u, p) = KindBy(t, u, n)
  <2>1. n <= p
    BY <1>1
  <2> QED BY <1>3, <2>1, KindBySkips
<1>5. KindBy(t, u, n) = KindBy(s, u, n)
  BY SameBefore
<1>6. KindBy(t, u, e) = "prepared"
  <2>1. e > 0 /\ t[e].unit = u /\ t[e].kind = "prepared"
    BY <1>2 DEF IsPrepared
  <2> QED BY <2>1, KindByNewest
<1> QED BY <1>1, <1>2, <1>4, <1>5, <1>6

LEMMA SupersededKinds ==
    ASSUME NEW s, NEW t, NEW n \in Nat, NEW m \in Nat, NEW f, NEW u, IsPrepared(s, t, n, m, f, u),
           NEW j \in 1..m
    PROVE  /\ KindBy(t, f[j], n + j - 1) = KindBy(s, f[j], n)
           /\ KindBy(t, f[j], n + m + 1) = "superseded"
<1>1. PICK p \in Nat : p = n + j - 1
  OBVIOUS
<1>2. PICK q \in Nat : q = n + j
  OBVIOUS
<1>3. PICK e \in Nat : e = n + m + 1
  OBVIOUS
<1>4. ASSUME NEW i \in (n + 1)..p PROVE t[i].unit # f[j]
  <2>1. i \in Int /\ n < i /\ i <= n + m
    BY <1>1
  <2>2. PICK k \in 1..m : i = n + k /\ t[i].unit = f[k]
    BY <2>1, SupersededPlaces
  <2>3. k # j
    BY <1>1, <2>2
  <2> QED BY <2>2, <2>3 DEF IsPrepared
<1>5. KindBy(t, f[j], p) = KindBy(t, f[j], n)
  <2>1. n <= p
    BY <1>1
  <2> QED BY <1>4, <2>1, KindBySkips
<1>6. KindBy(t, f[j], q) = "superseded"
  <2>1. t[n + j].unit = f[j] /\ t[n + j].kind = "superseded"
    BY DEF IsPrepared
  <2>2. t[q].unit = f[j] /\ t[q].kind = "superseded"
    BY <1>2, <2>1, Zenon
  <2>3. q > 0
    BY <1>2
  <2>4. PICK v : v = f[j]
    OBVIOUS
  <2>5. t[q].unit = v
    BY <2>2, <2>4
  <2>6. KindBy(t, v, q) = t[q].kind
    BY <2>3, <2>5, KindByNewest
  <2> QED BY <2>2, <2>4, <2>6, Zenon
<1>7. ASSUME NEW i \in (q + 1)..e PROVE t[i].unit # f[j]
  <2>1. CASE i = e
    BY <1>3, <2>1 DEF IsPrepared
  <2>2. CASE i # e
    <3>1. i \in Int /\ n < i /\ i <= n + m
      BY <1>2, <1>3, <2>2
    <3>2. PICK k \in 1..m : i = n + k /\ t[i].unit = f[k]
      BY <3>1, SupersededPlaces
    <3>3. k # j
      BY <1>2, <3>2
    <3> QED BY <3>2, <3>3 DEF IsPrepared
  <2> QED BY <2>1, <2>2
<1>8. KindBy(t, f[j], e) = KindBy(t, f[j], q)
  <2>1. q <= e
    BY <1>2, <1>3
  <2> QED BY <1>7, <2>1, KindBySkips
<1>9. KindBy(t, f[j], n) = KindBy(s, f[j], n)
  BY SameBefore
<1>10. /\ KindBy(t, f[j], p) = KindBy(s, f[j], n)
       /\ KindBy(t, f[j], e) = "superseded"
  BY <1>5, <1>6, <1>8, <1>9
<1> QED BY <1>1, <1>3, <1>10, Zenon

LEMMA OtherKinds ==
    ASSUME NEW s, NEW t, NEW n \in Nat, NEW m \in Nat, NEW f, NEW u, IsPrepared(s, t, n, m, f, u),
           NEW v, v # u, \A j \in 1..m : f[j] # v
    PROVE  /\ KindBy(t, v, n + m + 1) = KindBy(s, v, n)
           /\ Places(t, v, n + m + 1) = Places(s, v, n)
<1>1. PICK e \in Nat : e = n + m + 1
  OBVIOUS
<1>2. ASSUME NEW i \in (n + 1)..e PROVE t[i].unit # v
  <2>1. CASE i = e
    BY <1>1, <2>1 DEF IsPrepared
  <2>2. CASE i # e
    <3>1. i \in Int /\ n < i /\ i <= n + m
      BY <1>1, <2>2
    <3>2. PICK j \in 1..m : i = n + j /\ t[i].unit = f[j]
      BY <3>1, SupersededPlaces
    <3> QED BY <3>2
  <2> QED BY <2>1, <2>2
<1>3. KindBy(t, v, e) = KindBy(t, v, n) /\ Places(t, v, e) = Places(t, v, n)
  <2>1. n <= e
    BY <1>1
  <2> QED BY <1>2, <2>1, KindBySkips
<1>4. KindBy(t, v, n) = KindBy(s, v, n) /\ Places(t, v, n) = Places(s, v, n)
  BY SameBefore
<1> QED BY <1>1, <1>3, <1>4

\* And so each observation is good when the new revision is the next one.
LEMMA PreparedIsGood ==
    ASSUME NEW s, NEW t, NEW n \in Nat, NEW m \in Nat, NEW f, NEW u, IsPrepared(s, t, n, m, f, u),
           NEW revisions, NEW later, \A k \in 1..n : Good(s, revisions, k),
           \A i \in 1..n : later[s[i].unit] = revisions[s[i].unit],
           KindBy(s, u, n) = "none", \A j \in 1..m : KindBy(s, f[j], n) \in {"prepared", "refused"},
           later[u] = RevisionBy(t, later, n + m) + 1
    PROVE  \A k \in 1..(n + m + 1) : Good(t, later, k)
<1>0. \A i \in 1..n : t[i] = s[i]
  BY DEF IsPrepared
<1>1. \A j \in 1..m : /\ t[n + j].unit = f[j] /\ t[n + j].kind = "superseded"
                     /\ t[n + j].proof = NoProof
  BY DEF IsPrepared
<1>2. /\ t[n + m + 1].unit = u /\ t[n + m + 1].kind = "prepared"
      /\ t[n + m + 1].proof = NoProof
  BY DEF IsPrepared
<1>3. /\ KindBy(t, u, n + m) = KindBy(s, u, n)
      /\ \A j \in 1..m : KindBy(t, f[j], n + j - 1) = KindBy(s, f[j], n)
  <2>1. KindBy(t, u, n + m) = KindBy(s, u, n)
    BY PreparedKinds
  <2>2. ASSUME NEW j \in 1..m PROVE KindBy(t, f[j], n + j - 1) = KindBy(s, f[j], n)
    BY SupersededKinds
  <2> QED BY <2>1, <2>2
<1>4. \A j \in 1..m : KindBy(t, f[j], n + j - 1) \in {"prepared", "refused"}
  BY <1>3, Zenon
<1>5. ASSUME NEW k \in 1..n PROVE Good(t, later, k)
  BY <1>0, GoodStays
<1>6. ASSUME NEW j \in 1..m PROVE Good(t, later, n + j)
  <2>1. PICK k \in Nat : k = n + j
    OBVIOUS
  <2>2. t[k].unit = f[j] /\ t[k].kind = "superseded" /\ t[k].proof = NoProof
    BY <1>1, <2>1, Zenon
  <2>3. KindBy(t, f[j], k - 1) \in {"prepared", "refused"}
    BY <1>4, <2>1
  <2>4. InTurn(t, k)
    BY <2>2, <2>3 DEF InTurn, Follows
  <2>5. Numbered(t, later, k) /\ Alone(t, k)
    BY <2>2 DEF Numbered, Alone, Settled
  <2>6. Proved(t[k])
    BY <2>2 DEF Proved
  <2> QED BY <2>1, <2>4, <2>5, <2>6 DEF Good
<1>7. Good(t, later, n + m + 1)
  <2>1. PICK k \in Nat : k = n + m + 1 /\ k - 1 = n + m
    OBVIOUS
  <2>2. t[k].unit = u /\ t[k].kind = "prepared" /\ t[k].proof = NoProof
    BY <1>2, <2>1, Zenon
  <2>3. KindBy(t, u, k - 1) = "none"
    BY <1>3, <2>1
  <2>4. InTurn(t, k)
    BY <2>2, <2>3 DEF InTurn, Follows
  <2>5. Numbered(t, later, k)
    BY <2>1, <2>2 DEF Numbered
  <2>6. Alone(t, k) /\ Proved(t[k])
    BY <2>2 DEF Alone, Proved, Settled
  <2> QED BY <2>1, <2>4, <2>5, <2>6 DEF Good
<1>8. ASSUME NEW k \in 1..(n + m + 1) PROVE Good(t, later, k)
  <2>1. CASE k <= n
    BY <1>5, <2>1
  <2>2. CASE n < k /\ k <= n + m
    <3>1. PICK j : j = k - n
      OBVIOUS
    <3>2. j \in 1..m /\ k = n + j
      BY <2>2, <3>1
    <3> QED BY <1>6, <3>2
  <2>3. CASE k = n + m + 1
    BY <1>7, <2>3
  <2> QED BY <2>1, <2>2, <2>3
<1> QED BY <1>8

\* What the step finds, and what it does: u has no intent, f are the intents it supersedes.
Inserts(u, n, m, f, new) ==
    /\ \A v \in Unit : revision[v] < new
    /\ new = 1 \/ \E i \in 1..n : revision[outbox[i].unit] = new - 1
    /\ \A i, j \in 1..m : f[i] = f[j] => i = j
    /\ \A j \in 1..m : f[j] # u /\ state[f[j]] \in {"prepared", "refused"}
    /\ revision' = [revision EXCEPT ![u] = new]
    /\ state' \in [Unit -> {"none", "prepared", "refused", "superseded", "unknown"} \cup Settled]
    /\ state'[u] = "prepared" /\ \A j \in 1..m : state'[f[j]] = "superseded"
    /\ \A v \in Unit \ {u} : (\A j \in 1..m : f[j] # v) => state'[v] = state[v]
    /\ outbox' = WithPrepared(outbox, m, f, u)

LEMMA BoundIs ==
    ASSUME IInv, NEW c \in Caller, InsertIntent(c), NEW u, u = call[c].unit, NEW n, n = Len(outbox)
    PROVE  /\ n \in Nat /\ u \in Unit /\ Captured(u) /\ revision[u] = 0 /\ state[u] = "none"
           /\ KindBy(outbox, u, n) = "none" /\ \A i \in 1..n : outbox[i].unit # u
           /\ \A v \in Unit \ {u} : revision[v] # 0 =>
                 captures[v].sequence < captures[u].sequence
<1>1. u \in Unit /\ Captured(u) /\ revision[u] = 0 /\ captures[u].sequence = LastSequence
  BY DEF InsertIntent, IInv, TypeInv, CallType, CallsInv, CallOk, MarkOk, Writes, IsFresh
<1>2. n \in Nat
  BY DEF IInv, TypeInv, WriterType
<1>3. state[u] = "none"
  BY <1>1 DEF IInv, WriterInv, StateInv
<1>4. KindBy(outbox, u, n) = "none"
  BY <1>1, <1>3 DEF IInv, WriterInv, StateInv
<1>5. ASSUME NEW i \in 1..n PROVE outbox[i].unit # u
  <2>1. SUFFICES ASSUME outbox[i].unit = u PROVE FALSE
    OBVIOUS
  <2>2. i \in Places(outbox, u, n)
    BY <2>1 DEF Places
  <2>3. Places(outbox, u, n) # {}
    BY <2>2
  <2>4. PICK k : k = Max(Places(outbox, u, n))
    OBVIOUS
  <2>5. k \in 1..n
    BY <1>2, <2>3, <2>4, PlacesAreBounded
  <2>6. outbox[k].kind = "none"
    BY <1>4, <2>3, <2>4 DEF KindBy
  <2>7. outbox[k] \in Observation
    BY <2>5, ObservedUnits
  <2> QED BY <2>6, <2>7 DEF Observation, Kind, Settled
<1>6. ASSUME NEW v \in Unit \ {u}, revision[v] # 0
      PROVE  captures[v].sequence < captures[u].sequence
  <2>1. Captured(v)
    BY <1>6 DEF IInv, WriterInv, StateInv
  <2>2. captures[v].sequence \in 1..LastSequence /\ captures[v].sequence # captures[u].sequence
    BY <1>1, <2>1 DEF IInv, CaptureInv, CapturedInOrder
  <2>3. LastSequence \in Nat
    BY <1>1 DEF IInv, TypeInv, StoreType
  <2> QED BY <1>1, <2>2, <2>3
<1> QED BY <1>1, <1>2, <1>3, <1>4, <1>5, <1>6

LEMMA InsertIntentIs ==
    ASSUME IInv, NEW c \in Caller, InsertIntent(c), NEW u, u = call[c].unit, NEW n, n = Len(outbox)
    PROVE  \E m \in Nat : \E f \in [1..m -> Unit] : \E new \in Nat \ {0} : Inserts(u, n, m, f, new)
<1>1. /\ n \in Nat /\ u \in Unit /\ revision[u] = 0 /\ state[u] = "none"
      /\ revision \in [Unit -> Nat]
      /\ state \in [Unit -> {"none", "prepared", "refused", "superseded", "unknown"} \cup Settled]
  BY BoundIs DEF IInv, TypeInv, WriterType
<1>2. PICK seen : seen = call[c].seen
  OBVIOUS
<1>3. seen \in Nat /\ seen <= Len(ledger) /\ seen <= n
  <2>1. call[c].at = "preparing" /\ call[c] \in Call
    BY DEF InsertIntent, IInv, TypeInv, CallType
  <2>2. seen \in Nat /\ seen <= Len(ledger)
    BY <1>2, <2>1 DEF Call, IInv, CallsInv, CallOk, FlushOk
  <2>3. Len(ledger) \in Nat /\ Len(ledger) <= n
    BY DEF IInv, TypeInv, WriterType, WriterInv, LedgerInv
  <2> QED BY <1>1, <2>2, <2>3
<1>4. PICK before : before = RevisionBy(outbox, revision, seen)
  OBVIOUS
<1>5. MaxRevision(seen) = before
  BY <1>3, <1>4, LedgerIsPrefix
<1>6. /\ before \in Nat
      /\ before = 0 \/ \E i \in 1..n : revision[outbox[i].unit] = before
  <2>1. ASSUME NEW i \in 1..seen PROVE i \in 1..n /\ revision[outbox[i].unit] \in Nat
    <3>1. i \in 1..n
      BY <1>1, <1>3
    <3> QED BY <1>1, <3>1, ObservedUnits
  <2>2. /\ before \in Nat
        /\ before = 0 \/ \E i \in 1..seen : before = revision[outbox[i].unit]
    BY <1>3, <1>4, <2>1, RevisionByIs
  <2> QED BY <2>1, <2>2
<1>7. PICK new \in Nat \ {0} : new = before + 1
  BY <1>6
<1>8. \A v \in Unit : revision[v] # new
  BY <1>2, <1>5, <1>7 DEF InsertIntent
<1>9. ASSUME NEW v \in Unit PROVE revision[v] < new
  <2>1. SUFFICES ASSUME ~(revision[v] < new) PROVE FALSE
    OBVIOUS
  <2>2. new \in 1..revision[v]
    BY <1>1, <2>1
  <2>3. \E w \in Unit : revision[w] = new
    BY <2>2 DEF IInv, WriterInv, RevisionInv
  <2> QED BY <1>8, <2>3
<1>10. PICK old : old = Unsent(seen)
  OBVIOUS
<1>11. old \subseteq Unit /\ \A v \in old : state[v] \in {"prepared", "refused"}
  BY <1>10 DEF Unsent
<1>12. IsFiniteSet(old)
  BY <1>11, FS_Subset, CaptureAssumption
<1>13. PICK f : f = SetToSeq(old)
  OBVIOUS
<1>14. PICK m : m = Cardinality(old)
  OBVIOUS
<1>15. /\ m \in Nat /\ f \in [1..m -> old]
       /\ \A i, j \in 1..m : f[i] = f[j] => i = j
       /\ \A e \in old : \E i \in 1..m : f[i] = e
  BY <1>12, <1>13, <1>14, SetInOrder
<1>16. f \in [1..m -> Unit] /\ \A j \in 1..m : f[j] # u /\ state[f[j]] \in {"prepared", "refused"}
  BY <1>1, <1>11, <1>15
<1>17. revision' = [revision EXCEPT ![u] = new]
  BY <1>2, <1>5, <1>7 DEF InsertIntent
<1>18. state' = [v \in Unit |-> IF v = u THEN "prepared"
                              ELSE IF v \in old THEN "superseded" ELSE state[v]]
  BY <1>2, <1>10 DEF InsertIntent
<1>19. outbox' = WithPrepared(outbox, m, f, u)
  BY <1>2, <1>10, <1>13, <1>14 DEF InsertIntent, WithPrepared
<1>20. /\ state' \in [Unit -> {"none", "prepared", "refused", "superseded", "unknown"} \cup Settled]
       /\ state'[u] = "prepared"
  BY <1>1, <1>18
<1>21. ASSUME NEW j \in 1..m PROVE state'[f[j]] = "superseded"
  <2>1. f[j] \in old /\ f[j] \in Unit /\ f[j] # u
    BY <1>15, <1>16
  <2> QED BY <1>18, <2>1
<1>22. ASSUME NEW v \in Unit \ {u}, \A j \in 1..m : f[j] # v PROVE state'[v] = state[v]
  <2>1. v \notin old
    BY <1>15, <1>22
  <2> QED BY <1>18, <2>1
<1>23. new = 1 \/ \E i \in 1..n : revision[outbox[i].unit] = new - 1
  BY <1>6, <1>7
<1>24. Inserts(u, n, m, f, new)
  BY <1>9, <1>15, <1>16, <1>17, <1>19, <1>20, <1>21, <1>22, <1>23 DEF Inserts
<1> QED BY <1>7, <1>15, <1>16, <1>24

\* The outbox and the revisions after it.
LEMMA InsertedIsGood ==
    ASSUME IInv, NEW c \in Caller, InsertIntent(c), NEW u, u = call[c].unit, NEW n, n = Len(outbox),
           NEW m \in Nat, NEW f \in [1..m -> Unit], NEW new \in Nat \ {0}, Inserts(u, n, m, f, new)
    PROVE  /\ outbox' \in Seq(Observation) /\ Len(outbox') = n + m + 1
           /\ IsPrepared(outbox, outbox', n, m, f, u) /\ OutboxInv'
<1>1. /\ n \in Nat /\ u \in Unit /\ KindBy(outbox, u, n) = "none"
      /\ \A i \in 1..n : outbox[i].unit # u
  BY BoundIs
<1>2. outbox \in Seq(Observation) /\ revision \in [Unit -> Nat]
  BY DEF IInv, TypeInv, WriterType
<1>3. PICK s \in Seq(Observation) : s = outbox
  BY <1>2
<1>4. PICK t : t = outbox'
  OBVIOUS
<1>5. PICK later \in [Unit -> Nat] : later = revision'
  BY <1>1, <1>2 DEF Inserts
<1>6. t = WithPrepared(s, m, f, u)
  BY <1>3, <1>4 DEF Inserts
<1>7. /\ t \in Seq(Observation) /\ Len(t) = n + m + 1
      /\ \A i \in 1..n : t[i] = s[i]
      /\ \A j \in 1..m : t[n + j] = Observed(f[j], "superseded", NoProof)
      /\ t[n + m + 1] = Observed(u, "prepared", NoProof)
  <2>1. n = Len(s)
    BY <1>3
  <2>2. HasPrepared(s, t, n, m, f, u)
    BY <1>1, <1>6, <2>1, PreparedIsAppended
  <2> QED BY <2>2 DEF HasPrepared
<1>8. IsPrepared(s, t, n, m, f, u)
  <2>1. ASSUME NEW j \in 1..m
        PROVE  /\ t[n + j].unit = f[j] /\ t[n + j].kind = "superseded"
               /\ t[n + j].proof = NoProof
    <3>1. PICK o : o = Observed(f[j], "superseded", NoProof)
      OBVIOUS
    <3>2. t[n + j] = o
      BY <1>7, <3>1
    <3> QED BY <3>1, <3>2 DEF Observed
  <2>2. /\ t[n + m + 1].unit = u /\ t[n + m + 1].kind = "prepared"
        /\ t[n + m + 1].proof = NoProof
    <3>1. PICK o : o = Observed(u, "prepared", NoProof)
      OBVIOUS
    <3>2. t[n + m + 1] = o
      BY <1>7, <3>1
    <3> QED BY <3>1, <3>2 DEF Observed
  <2>3. /\ \A i, j \in 1..m : f[i] = f[j] => i = j
        /\ \A j \in 1..m : f[j] # u
    BY DEF Inserts
  <2> QED BY <1>7, <2>1, <2>2, <2>3 DEF IsPrepared
<1>9. /\ later[u] = new /\ \A v \in Unit \ {u} : later[v] = revision[v]
      /\ \A v \in Unit \ {u} : later[v] < new
  BY <1>1, <1>2, <1>5 DEF Inserts
<1>10. \A i \in 1..n : s[i].unit \in Unit \ {u} /\ later[s[i].unit] = revision[s[i].unit]
  <2>1. ASSUME NEW i \in 1..n PROVE s[i].unit \in Unit \ {u}
    <3>1. s[i].unit \in Unit
      BY <1>1, <1>3, ObservedUnits
    <3> QED BY <1>1, <1>3, <3>1
  <2> QED BY <1>9, <2>1
<1>11. PICK p \in Nat : p = n + m
  BY <1>1
<1>12. ASSUME NEW i \in 1..p PROVE t[i].unit \in Unit \ {u}
  <2>1. CASE i <= n
    <3>1. i \in 1..n
      BY <2>1
    <3> QED BY <1>7, <1>10, <3>1
  <2>2. CASE ~(i <= n)
    <3>1. i \in Int /\ n < i /\ i <= n + m
      BY <1>1, <1>11, <2>2
    <3>2. PICK j : j = i - n
      OBVIOUS
    <3>3. j \in 1..m /\ i = n + j
      BY <1>1, <3>1, <3>2
    <3>4. t[i].unit = f[j]
      BY <1>8, <3>3 DEF IsPrepared
    <3> QED BY <3>3, <3>4 DEF Inserts
  <2> QED BY <2>1, <2>2
<1>13. PICK before : before = RevisionBy(t, later, p)
  OBVIOUS
<1>14. /\ before \in Nat
       /\ before = 0 \/ \E i \in 1..p : before = later[t[i].unit]
       /\ \A i \in 1..p : later[t[i].unit] <= before
  <2>1. \A i \in 1..p : later[t[i].unit] \in Nat
    BY <1>12
  <2> QED BY <1>13, <2>1, RevisionByIs, ZenonT(40)
<1>15. before < new
  BY <1>9, <1>12, <1>14
<1>16. new - 1 <= before
  <2>1. CASE new = 1
    BY <1>14, <2>1
  <2>2. CASE new # 1
    <3>1. PICK i \in 1..n : revision[s[i].unit] = new - 1
      BY <1>3, <2>2 DEF Inserts
    <3>2. t[i].unit = s[i].unit /\ later[s[i].unit] = new - 1
      BY <1>7, <1>10, <3>1
    <3>3. i \in 1..p
      BY <1>1, <1>11
    <3> QED BY <1>14, <3>2, <3>3
  <2> QED BY <2>1, <2>2
<1>17. later[u] = RevisionBy(t, later, n + m) + 1
  <2>1. new = before + 1
    BY <1>14, <1>15, <1>16
  <2> QED BY <1>9, <1>11, <1>13, <2>1
<1>18. \A j \in 1..m : KindBy(s, f[j], n) \in {"prepared", "refused"}
  <2>1. ASSUME NEW j \in 1..m PROVE KindBy(s, f[j], n) \in {"prepared", "refused"}
    <3>1. PICK v \in Unit : v = f[j]
      OBVIOUS
    <3>2. state[v] \in {"prepared", "refused"}
      BY <3>1 DEF Inserts
    <3>3. KindBy(outbox, v, n) = state[v]
      BY <3>2 DEF IInv, WriterInv, StateInv
    <3> QED BY <1>3, <3>1, <3>2, <3>3
  <2> QED BY <2>1
<1>19. \A k \in 1..n : Good(s, revision, k)
  BY <1>3 DEF IInv, WriterInv, OutboxInv
<1>20. \A k \in 1..(n + m + 1) : Good(t, later, k)
  <2>1. KindBy(s, u, n) = "none"
    BY <1>1, <1>3
  <2>2. \A i \in 1..n : later[s[i].unit] = revision[s[i].unit]
    BY <1>10
  <2> QED BY <1>1, <1>8, <1>17, <1>18, <1>19, <2>1, <2>2, PreparedIsGood, ZenonT(40)
<1> QED BY <1>3, <1>4, <1>5, <1>7, <1>8, <1>20 DEF OutboxInv

LEMMA InsertedIsNumbered ==
    ASSUME IInv, NEW c \in Caller, InsertIntent(c), NEW u, u = call[c].unit, NEW n, n = Len(outbox),
           NEW m \in Nat, NEW f \in [1..m -> Unit], NEW new \in Nat \ {0}, Inserts(u, n, m, f, new)
    PROVE  RevisionInv'
<1>1. /\ n \in Nat /\ u \in Unit /\ revision[u] = 0 /\ revision \in [Unit -> Nat]
      /\ \A v \in Unit \ {u} : revision[v] # 0 => captures[v].sequence < captures[u].sequence
  BY BoundIs DEF IInv, TypeInv, WriterType
<1>2. PICK later \in [Unit -> Nat] : later = revision'
  BY <1>1 DEF Inserts
<1>3. /\ later[u] = new /\ \A v \in Unit \ {u} : later[v] = revision[v]
      /\ \A v \in Unit : revision[v] < new
  BY <1>1, <1>2 DEF Inserts
<1>4. ASSUME NEW v \in Unit, NEW r \in 1..revision[v] PROVE \E w \in Unit : later[w] = r
  <2>1. PICK w \in Unit : revision[w] = r
    BY DEF IInv, WriterInv, RevisionInv
  <2>2. w # u
    BY <1>1, <2>1
  <2> QED BY <1>3, <2>1, <2>2
<1>5. ASSUME NEW r \in 1..new PROVE \E w \in Unit : later[w] = r
  <2>1. CASE r = new
    BY <1>1, <1>3, <2>1
  <2>2. CASE r # new
    <3>1. PICK i \in 1..n : revision[outbox[i].unit] = new - 1
      BY <2>2 DEF Inserts
    <3>2. outbox[i].unit \in Unit /\ r \in 1..revision[outbox[i].unit]
      BY <1>1, <2>2, <3>1, ObservedUnits
    <3> QED BY <1>4, <3>2
  <2> QED BY <2>1, <2>2
<1>6. ASSUME NEW v \in Unit, NEW r \in 1..later[v] PROVE \E w \in Unit : later[w] = r
  BY <1>3, <1>4, <1>5
<1>7. captures' = captures
  BY DEF InsertIntent, storeVars
<1>8. ASSUME NEW v \in Unit, NEW w \in Unit, 0 < later[v], later[v] < later[w]
      PROVE  captures[v].sequence < captures[w].sequence
  <2>1. CASE w = u
    <3>1. v # u /\ revision[v] # 0
      BY <1>3, <1>8, <2>1
    <3> QED BY <1>1, <2>1, <3>1
  <2>2. CASE w # u
    <3>1. v # u
      BY <1>1, <1>3, <1>8, <2>2
    <3>2. 0 < revision[v] /\ revision[v] < revision[w]
      BY <1>3, <1>8, <2>2, <3>1
    <3> QED BY <3>2 DEF IInv, WriterInv, RevisionInv
  <2> QED BY <2>1, <2>2
<1>9. ASSUME NEW v \in Unit, state'[v] \in {"unknown"} \cup Settled
      PROVE  v # u /\ state'[v] = state[v]
  BY <1>9 DEF Inserts, Settled
<1>10. ASSUME NEW v \in Unit, NEW w \in Unit, state'[v] = "unknown",
              state'[w] \in {"unknown"} \cup Settled
       PROVE  later[w] <= later[v]
  <2>1. v # u /\ w # u /\ state[v] = "unknown" /\ state[w] \in {"unknown"} \cup Settled
    BY <1>9, <1>10
  <2>2. revision[w] <= revision[v]
    BY <2>1 DEF IInv, WriterInv, RevisionInv
  <2> QED BY <1>3, <2>1, <2>2
<1> QED BY <1>2, <1>6, <1>7, <1>8, <1>10 DEF RevisionInv

LEMMA InsertIntentKeeps ==
    ASSUME IInv, NEW c \in Caller, InsertIntent(c)
    PROVE  IInv'
<1>1. PICK u : u = call[c].unit
  OBVIOUS
<1>2. PICK n : n = Len(outbox)
  OBVIOUS
<1>3. /\ n \in Nat /\ u \in Unit /\ Captured(u) /\ revision[u] = 0 /\ state[u] = "none"
      /\ \A i \in 1..n : outbox[i].unit # u
  BY <1>1, <1>2, BoundIs
<1>3a. PICK m \in Nat : \E f \in [1..m -> Unit] : \E new \in Nat \ {0} : Inserts(u, n, m, f, new)
  BY <1>1, <1>2, InsertIntentIs
<1>3b. PICK f \in [1..m -> Unit] : \E new \in Nat \ {0} : Inserts(u, n, m, f, new)
  BY <1>3a
<1>4. PICK new \in Nat \ {0} : Inserts(u, n, m, f, new)
  BY <1>3b
<1>5. /\ outbox' \in Seq(Observation) /\ Len(outbox') = n + m + 1
      /\ IsPrepared(outbox, outbox', n, m, f, u) /\ OutboxInv'
  BY <1>1, <1>2, <1>4, InsertedIsGood
<1>6. RevisionInv'
  BY <1>1, <1>2, <1>4, InsertedIsNumbered
<1>7. /\ UNCHANGED <<storeVars, submissionVars, faults, generation, outstanding, receipts,
                     ledger, crmVars>>
      /\ FlushThen(c, "returning")
  BY DEF InsertIntent
<1>8. WriterType'
  <2>1. revision \in [Unit -> Nat]
    BY DEF IInv, TypeInv, WriterType
  <2>2. revision' \in [Unit -> Nat]
    BY <1>3, <1>4, <2>1 DEF Inserts
  <2>3. state' \in [Unit -> {"none", "prepared", "refused", "superseded", "unknown"} \cup Settled]
    BY <1>4 DEF Inserts
  <2> QED BY <1>5, <1>7, <2>2, <2>3 DEF IInv, TypeInv, WriterType, crmVars
<1>9. LedgerInv'
  <2>1. UNCHANGED <<ledger, receipts>>
    BY <1>7
  <2>2. Len(outbox) <= Len(outbox')
    BY <1>2, <1>3, <1>5
  <2> QED BY <1>5, <2>1, <2>2, LedgerStays
<1>10. ASSUME NEW v \in Unit
       PROVE  \/ v = u
              \/ \E j \in 1..m : f[j] = v
              \/ v # u /\ \A j \in 1..m : f[j] # v
  OBVIOUS
<1>11. \A v \in Unit : state[v] \in {"unknown"} \cup Settled => state'[v] = state[v]
  <2>1. ASSUME NEW v \in Unit, state[v] \in {"unknown"} \cup Settled PROVE state'[v] = state[v]
    <3>1. v # u
      BY <1>3, <2>1 DEF Settled
    <3>2. \A j \in 1..m : f[j] # v
      BY <1>4, <2>1 DEF Inserts, Settled
    <3> QED BY <1>4, <3>1, <3>2 DEF Inserts
  <2> QED BY <2>1
<1>12. StateInv'
  <2>1. PICK e \in Nat : e = n + m + 1
    BY <1>3
  <2>2. Len(outbox') = e
    BY <1>5, <2>1
  <2> DEFINE Holds(v) ==
        LET kind == KindBy(outbox, v, Len(outbox)) IN
        /\ state[v] # "none" <=> revision[v] # 0
        /\ revision[v] # 0 => Captured(v)
        /\ state[v] \in {"none", "prepared", "refused", "superseded"} => kind = state[v]
        /\ state[v] = "unknown" <=> outstanding = v
        /\ state[v] = "unknown" => kind \in {"send_started", "unknown"} \cup Settled
        /\ state[v] \in Settled =>
              kind = state[v] /\ request[v] = state[v]
              /\ Places(outbox, v, Len(outbox)) \subseteq 1..Len(ledger)
  <2>3. \A v \in Unit : Holds(v)
    BY DEF IInv, WriterInv, StateInv
  <2>4. /\ captures' = captures /\ outstanding' = outstanding /\ request' = request
        /\ ledger' = ledger
    BY <1>7 DEF storeVars, crmVars
  <2>5. Holds(u)'
    <3>1. KindBy(outbox', u, e) = "prepared"
      BY <1>3, <1>5, <2>1, PreparedKinds
    <3>2. state'[u] = "prepared" /\ revision'[u] # 0
      <4>1. revision \in [Unit -> Nat]
        BY DEF IInv, TypeInv, WriterType
      <4> QED BY <1>3, <1>4, <4>1 DEF Inserts
    <3>3. outstanding # u
      BY <1>3, <2>3
    <3>4. Captured(u)'
      BY <1>3, <2>4 DEF Captured
    <3> QED BY <2>2, <2>4, <3>1, <3>2, <3>3, <3>4 DEF Settled
  <2>6. ASSUME NEW j \in 1..m, NEW v \in Unit, v = f[j] PROVE Holds(v)'
    <3>1. KindBy(outbox', v, e) = "superseded"
      <4>1. KindBy(outbox', f[j], n + m + 1) = "superseded"
        BY <1>3, <1>5, SupersededKinds
      <4> QED BY <2>1, <2>6, <4>1, Zenon
    <3>2. v # u /\ state[v] \in {"prepared", "refused"} /\ state'[v] = "superseded"
      BY <1>4, <2>6 DEF Inserts
    <3>3. revision'[v] = revision[v]
      BY <1>4, <3>2 DEF Inserts, IInv, TypeInv, WriterType
    <3>4. revision[v] # 0 /\ Captured(v) /\ outstanding # v
      BY <2>3, <3>2
    <3>5. Captured(v)'
      BY <2>4, <3>4 DEF Captured
    <3> QED BY <2>2, <2>4, <3>1, <3>2, <3>3, <3>4, <3>5 DEF Settled
  <2>7. ASSUME NEW v \in Unit, v # u, \A j \in 1..m : f[j] # v PROVE Holds(v)'
    <3>1. /\ KindBy(outbox', v, e) = KindBy(outbox, v, n)
          /\ Places(outbox', v, e) = Places(outbox, v, n)
      BY <1>3, <1>5, <2>1, <2>7, OtherKinds
    <3>2. state'[v] = state[v]
      BY <1>4, <2>7 DEF Inserts
    <3>3. revision'[v] = revision[v]
      BY <1>4, <2>7 DEF Inserts, IInv, TypeInv, WriterType
    <3>4. Captured(v)' <=> Captured(v)
      BY <2>4 DEF Captured
    <3> QED BY <1>2, <2>2, <2>3, <2>4, <3>1, <3>2, <3>3, <3>4
  <2>8. ASSUME NEW v \in Unit PROVE Holds(v)'
    BY <1>10, <2>5, <2>6, <2>7
  <2> QED BY <2>8 DEF StateInv
<1>13. RequestInv'
  <2>1. request' = request /\ value' = value /\ sends' = sends
    BY <1>7 DEF crmVars
  <2>2. \A v \in Unit : /\ request'[v] # "none" => state'[v] \in {"unknown"} \cup Settled
                        /\ sends'[v] <= 1 /\ (request'[v] = "none" => sends'[v] = 0)
    BY <1>11, <2>1 DEF IInv, WriterInv, RequestInv
  <2>3. value' \in Unit => request'[value'] # "none"
    BY <2>1 DEF IInv, WriterInv, RequestInv
  <2>4. ASSUME NEW k \in 1..(n + m + 1)
        PROVE  \/ k \in 1..n /\ outbox'[k] = outbox[k]
               \/ outbox'[k].kind \in {"prepared", "superseded"}
    <3>1. CASE k <= n
      BY <1>3, <1>5, <3>1 DEF IsPrepared
    <3>2. CASE n < k /\ k <= n + m
      <4>1. PICK j : j = k - n
        OBVIOUS
      <4>2. j \in 1..m /\ k = n + j
        BY <1>3, <3>2, <4>1
      <4> QED BY <1>5, <4>2 DEF IsPrepared
    <3>3. CASE k = n + m + 1
      BY <1>5, <3>3 DEF IsPrepared
    <3> QED BY <1>3, <3>1, <3>2, <3>3
  <2>5. ASSUME NEW k \in 1..Len(outbox')
        PROVE  /\ outbox'[k].kind \in Settled => request'[outbox'[k].unit] = outbox'[k].kind
               /\ outbox'[k].kind = "send_started" =>
                     state'[outbox'[k].unit] \in {"unknown"} \cup Settled
    <3>1. CASE k \in 1..n /\ outbox'[k] = outbox[k]
      <4>1. outbox[k].unit \in Unit
        BY <1>2, <3>1, ObservedUnits
      <4>2. /\ outbox[k].kind \in Settled => request[outbox[k].unit] = outbox[k].kind
            /\ outbox[k].kind = "send_started" =>
                  state[outbox[k].unit] \in {"unknown"} \cup Settled
        BY <1>2, <3>1 DEF IInv, WriterInv, RequestInv
      <4> QED BY <1>11, <2>1, <3>1, <4>1, <4>2
    <3>2. CASE outbox'[k].kind \in {"prepared", "superseded"}
      BY <3>2 DEF Settled
    <3> QED BY <1>5, <2>4, <3>1, <3>2
  <2> QED BY <2>2, <2>3, <2>5 DEF RequestInv
<1>14. WriterInv'
  BY <1>5, <1>6, <1>9, <1>12, <1>13 DEF WriterInv
<1>15. UNCHANGED <<registered, progress, captures, submissionVars>> /\ ownership' = ownership
  BY <1>7 DEF storeVars
<1>16. OwnershipStep
  BY <1>15, OwnershipStays
<1>17. Len(outbox) <= Len(outbox') /\ Len(ledger) <= Len(ledger')
  BY <1>2, <1>3, <1>5, <1>7 DEF IInv, TypeInv, WriterType
<1>18. PICK r \in Call : /\ r.at = "flush" /\ r.unit = u /\ r.marker = 0
                         /\ call' = [call EXCEPT ![c] = r] /\ CallOk(r)'
  <2>1. Captured(u)'
    BY <1>3, <1>15 DEF Captured
  <2> QED BY <1>1, <1>3, <1>7, <2>1, FlushThenIs
<1>19. ASSUME NEW d \in Caller PROVE MarksStay(call[d])
  <2>1. CASE call[d].marker = 0
    BY <2>1 DEF MarksStay
  <2>2. CASE call[d].marker # 0
    <3>1. state[call[d].unit] = "unknown" /\ request[call[d].unit] = "none"
      BY <2>2 DEF IInv, CallsInv, CallOk, MarkOk
    <3>2. call[d].unit \in Unit
      BY <2>2 DEF IInv, TypeInv, CallType, CallsInv, CallOk, MarkOk, Flushes
    <3> QED BY <1>7, <1>11, <3>1, <3>2 DEF MarksStay, crmVars
  <2> QED BY <2>1, <2>2
<1> QED BY <1>3, <1>8, <1>14, <1>15, <1>16, <1>17, <1>18, <1>19, WriterSteps

--------------------------------------------------------------------------------
(* The invariant holds at the start, and every step keeps it.                  *)

LEMMA StoreStarts ==
    ASSUME CaptureInit
    PROVE  StoreType /\ SubmissionType /\ CaptureInv /\ SubmissionInv
<1>1. PICK start \in Start : LET done == start.done IN
          /\ registered = done /\ domain = done \X Stage /\ failed = {}
          /\ progress = [u \in Unit |-> IF u \in done THEN "captured" ELSE "none"]
          /\ captures = [u \in Unit |-> IF u \in done THEN [sequence |-> 1, generation |-> 1]
                                        ELSE NoCapture]
          /\ ownership = [generation |-> start.generation, state |-> "free", owner |-> NoUnit]
          /\ plan = [u \in Unit |-> IF u \in done THEN "new" ELSE "none"]
          /\ accepted = [u \in Unit |-> IF u \in done THEN Stage ELSE {}]
  BY DEF CaptureInit
<1>2. PICK done : done = start.done
  OBVIOUS
<1>3. PICK g : g = start.generation
  OBVIOUS
<1>4. /\ done \subseteq Unit /\ \A u, v \in done : u = v
      /\ g \in Nat /\ (done # {} => g > 0)
  BY <1>2, <1>3, CaptureAssumption
<1>5. \A u \in Unit : Captured(u) <=> u \in done
  <2>1. ASSUME NEW u \in Unit PROVE Captured(u) <=> u \in done
    <3>1. [sequence |-> 1, generation |-> 1] # NoCapture
      BY DEF NoCapture
    <3> QED BY <1>1, <1>2, <3>1 DEF Captured
  <2> QED BY <2>1
<1>6. \A u \in done : captures[u].sequence = 1 /\ captures[u].generation = 1
  <2>1. ASSUME NEW u \in done PROVE captures[u].sequence = 1 /\ captures[u].generation = 1
    <3>1. captures[u] = [sequence |-> 1, generation |-> 1]
      BY <1>1, <1>2, <1>4
    <3> QED BY <3>1
  <2> QED BY <2>1
<1>7. done # {} => LastSequence = 1
  <2>1. SUFFICES ASSUME NEW v \in done PROVE LastSequence = 1
    OBVIOUS
  <2>2. {u \in Unit : Captured(u)} = {v}
    BY <1>4, <1>5
  <2> QED BY <2>2, FS_Singleton DEF LastSequence
<1>8. ownership.generation = g /\ ownership.state = "free" /\ ownership.owner = NoUnit
  BY <1>1, <1>3
<1>9. StoreType
  <2>1. registered \subseteq Unit
    BY <1>1, <1>2, <1>4
  <2>2. progress \in [Unit -> {"none", "received", "reserved", "captured", "refused", "abandoned"}]
    BY <1>1
  <2>3. captures \in [Unit -> [sequence : Nat, generation : Nat]]
    BY <1>1 DEF NoCapture
  <2>4. ownership \in [generation : Nat, state : {"free", "held", "abandoned"},
                       owner : Unit \cup {NoUnit}]
    BY <1>1, <1>3, <1>4
  <2> QED BY <1>8, <2>1, <2>2, <2>3, <2>4 DEF StoreType
<1>10. SubmissionType
  BY <1>1, <1>2, <1>4 DEF SubmissionType
<1>11. CaptureInv
  <2>1. CapturesFollowReads
    BY <1>1, <1>2, <1>4, <1>5, <1>6 DEF CapturesFollowReads
  <2>2. CapturedInOrder
    BY <1>4, <1>5, <1>6, <1>7, <1>8 DEF CapturedInOrder
  <2> QED BY <2>1, <2>2 DEF CaptureInv
<1>12. SubmissionInv
  <2>1. \A u \in Unit, s \in Stage : <<u, s>> \in domain <=> u \in done
    BY <1>1, <1>2
  <2>2. \A u \in Unit : plan[u] = IF u \in done THEN "new" ELSE "none"
    BY <1>1, <1>2
  <2>3. \A u \in Unit : accepted[u] = IF u \in done THEN Stage ELSE {}
    BY <1>1, <1>2
  <2>4. PlansHold
    BY <1>5, <2>1, <2>2, <2>3 DEF PlansHold, Stage
  <2>5. RejectedOnlyWhenOvertaken
    BY <1>1 DEF RejectedOnlyWhenOvertaken
  <2> QED BY <2>4, <2>5 DEF SubmissionInv
<1> QED BY <1>9, <1>10, <1>11, <1>12

LEMMA InvariantStarts ==
    ASSUME Init
    PROVE  IInv
<1>1. StoreType /\ SubmissionType /\ CaptureInv /\ SubmissionInv
  BY StoreStarts DEF Init
<1>2. call = [c \in Caller |-> Idle]
  BY DEF Init, CaptureInit
<1>3. CallType
  BY <1>2, IdleIsOk DEF CallType
<1>4. CallsInv
  BY <1>2, IdleIsOk DEF CallsInv
<1>5. outbox = <<>> /\ ledger = <<>> /\ receipts = {}
  BY DEF Init
<1>6. /\ outbox \in Seq(Observation) /\ ledger \in Seq(Nat)
      /\ Len(outbox) = 0 /\ Len(ledger) = 0 /\ 1..0 = {}
  BY <1>5
<1>7. WriterType
  BY <1>6 DEF Init, WriterType
<1>8. OutboxInv /\ LedgerInv
  BY <1>5, <1>6 DEF OutboxInv, LedgerInv
<1>9. ASSUME NEW u \in Unit PROVE KindBy(outbox, u, 0) = "none"
  BY <1>6, KindByIs
<1>10. StateInv
  <2>1. ASSUME NEW u \in Unit
        PROVE  /\ state[u] = "none" /\ revision[u] = 0 /\ outstanding # u
               /\ KindBy(outbox, u, Len(outbox)) = "none"
    BY <1>6, <1>9, CaptureAssumption DEF Init
  <2> QED BY <2>1 DEF StateInv, Settled
<1>11. RequestInv
  <2>1. value \notin Unit
    BY CaptureAssumption DEF Init
  <2>2. \A u \in Unit : request[u] = "none" /\ sends[u] = 0
    BY DEF Init
  <2> QED BY <1>6, <2>1, <2>2 DEF RequestInv
<1>12. RevisionInv
  <2>1. \A u \in Unit : revision[u] = 0 /\ state[u] = "none"
    BY DEF Init
  <2> QED BY <2>1 DEF RevisionInv
<1> QED BY <1>1, <1>3, <1>4, <1>7, <1>8, <1>10, <1>11, <1>12 DEF IInv, TypeInv, WriterInv

\* A step of the capture or of the submission.
LEMMA CaptureKeeps ==
    ASSUME IInv, CaptureNext, UNCHANGED writerVars
    PROVE  IInv'
<1>1. CASE \E c \in Caller, u \in Unit :
              RecordReceipt(c, u) \/ ReadLedger(c, u) \/ ResumeSubmission(c, u)
  <2>1. PICK c \in Caller, u \in Unit :
              RecordReceipt(c, u) \/ ReadLedger(c, u) \/ ResumeSubmission(c, u)
    BY <1>1
  <2> QED BY <2>1, RecordReceiptKeeps, ReadLedgerGoesOn, ResumeSubmissionGoesOn
<1>2. ASSUME NEW c \in Caller,
             \/ Acquire(c) \/ AcquireReturns(c) \/ ReadAndMap(c) \/ Freeze(c) \/ StaleFence(c)
             \/ ReleaseRefused(c) \/ FreezeSubmission(c) \/ BeginAttempt(c) \/ Ingest(c)
             \/ Observe(c) \/ Die(c)
      PROVE  IInv'
  <2>1. CASE Acquire(c) \/ Freeze(c) \/ ReleaseRefused(c)
    BY <2>1, AcquireKeeps, FreezeKeeps, ReleaseRefusedKeeps
  <2>2. CASE AcquireReturns(c) \/ Die(c)
    <3>1. Return(c) /\ UNCHANGED <<storeVars, submissionVars, writerVars>>
      BY <2>2 DEF AcquireReturns, Die
    <3> QED BY <3>1, CallReturns
  <2>3. CASE ReadAndMap(c) \/ StaleFence(c)
    BY <2>3, ReadGoesOn
  <2>4. CASE FreezeSubmission(c) \/ BeginAttempt(c)
    BY <2>4, FreezeSubmissionKeeps, BeginAttemptGoesOn
  <2>5. CASE Ingest(c) \/ Observe(c)
    BY <2>5, IngestKeeps, ObserveKeeps
  <2> QED BY <1>2, <2>1, <2>2, <2>3, <2>4, <2>5
<1>3. CASE AbandonCapture
  BY <1>3, AbandonCaptureKeeps
<1> QED BY <1>1, <1>2, <1>3 DEF CaptureNext

\* A step of the writer.
LEMMA WriterKeeps ==
    ASSUME IInv, NEW c \in Caller,
           \/ ReadPending(c) \/ Deliver(c) \/ DeliveryFails(c) \/ Acknowledge(c) \/ ReadHistory(c)
           \/ InsertIntent(c) \/ PrepareReturns(c) \/ ReserveAndMark(c) \/ ReserveReturns(c)
           \/ SendGranted(c) \/ SendLost(c) \/ NotGranted(c) \/ SendFenced(c)
           \/ Finalize(c) \/ StillUnknown(c) \/ ObserveAgain(c) \/ EndCall(c)
    PROVE  IInv'
<1>1. CASE ReadPending(c) \/ Deliver(c) \/ Acknowledge(c)
  BY <1>1, ReadPendingGoesOn, DeliverKeeps, AcknowledgeKeeps
<1>2. CASE ReadHistory(c) \/ InsertIntent(c) \/ ReserveAndMark(c)
  BY <1>2, ReadHistoryGoesOn, InsertIntentKeeps, ReserveAndMarkKeeps
<1>3. CASE SendGranted(c) \/ SendLost(c) \/ NotGranted(c)
  BY <1>3, SendGrantedKeeps, SendLostKeeps, NotGrantedKeeps
<1>4. CASE Finalize(c) \/ StillUnknown(c) \/ ObserveAgain(c)
  BY <1>4, FinalizeKeeps, StillUnknownGoesOn, ObserveAgainKeeps
<1>5. CASE DeliveryFails(c) \/ PrepareReturns(c) \/ ReserveReturns(c) \/ SendFenced(c) \/ EndCall(c)
  <2>1. Return(c) /\ UNCHANGED <<storeVars, submissionVars, writerVars>>
    BY <1>5 DEF DeliveryFails, PrepareReturns, ReserveReturns, SendFenced, EndCall
  <2> QED BY <2>1, CallReturns
<1> QED BY <1>1, <1>2, <1>3, <1>4, <1>5

LEMMA CallBegins ==
    ASSUME IInv, NEW c \in Caller, NEW u \in Unit,
           \/ PrepareIntent(c, u) \/ SendRefused(c, u) \/ SendIntent(c, u) \/ ReconcileIntent(c, u)
    PROVE  IInv'
<1>1. CASE SendRefused(c, u)
  BY <1>1, SendRefusedKeeps
<1>2. CASE PrepareIntent(c, u) \/ SendIntent(c, u) \/ ReconcileIntent(c, u)
  <2>1. PICK next \in {"reading_history", "reserving", "reconciling"} :
            BeginFlush(c, u, next) /\ UNCHANGED <<storeVars, submissionVars, writerVars>>
    BY <1>2 DEF PrepareIntent, SendIntent, ReconcileIntent
  <2> QED BY <2>1, FlushBegins
<1> QED BY <1>1, <1>2

\* Nothing happens.
LEMMA StutterKeeps ==
    ASSUME IInv, UNCHANGED vars
    PROVE  IInv'
<1>1. UNCHANGED <<storeVars, submissionVars, writerVars>> /\ call' = call
  BY DEF vars, captureVars
<1>2. CallType'
  BY <1>1 DEF IInv, TypeInv, CallType
<1>3. CallsInv'
  <2>1. ASSUME NEW x, CallOk(x) PROVE CallOk(x)'
    BY <1>1, <2>1 DEF CallOk, ReadOk, AttemptOk, FlushOk, MarkOk, storeVars, submissionVars,
                      writerVars, intentVars, crmVars, IsCurrent, Captured, Minted
  <2> QED BY <1>1, <2>1 DEF IInv, CallsInv
<1> QED BY <1>1, <1>2, <1>3, OnlyCallsChange

LEMMA InvariantIsKept ==
    ASSUME IInv, [Next]_vars
    PROVE  IInv'
<1>1. CASE CaptureNext /\ UNCHANGED writerVars
  BY <1>1, CaptureKeeps
<1>2. CASE \E c \in Caller, u \in Unit :
              \/ PrepareIntent(c, u) \/ SendRefused(c, u) \/ SendIntent(c, u)
              \/ ReconcileIntent(c, u)
  BY <1>2, CallBegins
<1>3. CASE \E c \in Caller :
          \/ ReadPending(c) \/ Deliver(c) \/ DeliveryFails(c) \/ Acknowledge(c) \/ ReadHistory(c)
          \/ InsertIntent(c) \/ PrepareReturns(c) \/ ReserveAndMark(c) \/ ReserveReturns(c)
          \/ SendGranted(c) \/ SendLost(c) \/ NotGranted(c) \/ SendFenced(c)
          \/ Finalize(c) \/ StillUnknown(c) \/ ObserveAgain(c) \/ EndCall(c)
  BY <1>3, WriterKeeps
<1>4. CASE \E u \in Unit : Settle(u)
  BY <1>4, SettleKeeps
<1>5. CASE SetProperties
  BY <1>5, SetPropertiesKeeps
<1>6. CASE UNCHANGED vars
  BY <1>6, StutterKeeps
<1> QED BY <1>1, <1>2, <1>3, <1>4, <1>5, <1>6 DEF Next

--------------------------------------------------------------------------------
(* What it says of the system.                                                 *)

\* The inductive invariant of the adapter.
THEOREM Inductive == Spec => []IInv
BY InvariantStarts, InvariantIsKept, PTL DEF Spec

\* Every variable of the adapter keeps its type.
THEOREM TypeCorrect == Spec => []TypeInv
<1>1. IInv => TypeInv
  BY DEF IInv
<1> QED BY <1>1, Inductive, PTL

\* Whatever is abandoned and whoever is late: the captures are in the order of their reads,
\* and the progress of a unit says what became of it.
THEOREM CapturesAreInOrder == Spec => []CapturesFollowReads
<1>1. IInv => CapturesFollowReads
  BY DEF IInv, CaptureInv
<1> QED BY <1>1, Inductive, PTL

\* A submission fails only when another unit minted its evidence version first.
THEOREM RejectionsAreOvertaken == Spec => []RejectedOnlyWhenOvertaken
<1>1. IInv => RejectedOnlyWhenOvertaken
  BY DEF IInv, SubmissionInv
<1> QED BY <1>1, Inductive, PTL

\* What comes next in the outbox is admitted, or it is of an operation that the ledger has
\* as settled.
LEMMA NextIsAdmitted ==
    ASSUME IInv, Len(ledger) < Len(outbox), NEW o, o = outbox[Len(ledger) + 1]
    PROVE  Admitted(o) \/ LatestKind(o.unit, Len(ledger)) \in Settled
<1>1. PICK n \in Nat : n = Len(ledger)
  BY DEF IInv, TypeInv, WriterType
<1>2. PICK k \in 1..Len(outbox) : k = n + 1 /\ k - 1 = n
  BY <1>1 DEF IInv, TypeInv, WriterType
<1>3. o = outbox[k]
  BY <1>1, <1>2
<1>4. Good(outbox, revision, k)
  BY <1>2 DEF IInv, WriterInv, OutboxInv
<1>5. PICK u \in Unit : u = o.unit
  BY <1>2, <1>3, ObservedUnits
<1>6. \A v \in Unit : Own(v, n) = Places(outbox, v, n) /\ LatestKind(v, n) = KindBy(outbox, v, n)
  <2>1. n \in Nat /\ n <= Len(ledger)
    BY <1>1
  <2> QED BY <2>1, LedgerIsPrefix
<1>7. MaxRevision(n) = RevisionBy(outbox, revision, n)
  <2>1. n \in Nat /\ n <= Len(ledger)
    BY <1>1
  <2> QED BY <2>1, LedgerIsPrefix
<1>8. SUFFICES ASSUME LatestKind(u, n) \notin Settled PROVE Admitted(o)
  BY <1>1, <1>5
<1>9. Follows(LatestKind(u, n), o.kind)
  BY <1>2, <1>3, <1>4, <1>5, <1>6, <1>8 DEF Good, InTurn
<1>10. o.kind = "prepared" => revision[u] = MaxRevision(n) + 1
  BY <1>2, <1>3, <1>4, <1>5, <1>7 DEF Good, Numbered
<1>11. ASSUME o.kind = "send_started" PROVE ~Marked(u, n) /\ revision[u] = MaxRevision(n)
  <2>1. /\ revision[u] = RevisionBy(outbox, revision, n)
        /\ \A i \in Places(outbox, u, n) : outbox[i].kind # "send_started"
    BY <1>2, <1>3, <1>4, <1>5, <1>11 DEF Good, Numbered
  <2>2. ASSUME NEW i \in Own(u, n) PROVE outbox[ledger[i]].kind # "send_started"
    <3>1. i \in Places(outbox, u, n) /\ i \in 1..Len(ledger)
      BY <1>1, <1>6 DEF Places
    <3>2. ledger[i] = i
      BY <3>1 DEF IInv, WriterInv, LedgerInv
    <3> QED BY <2>1, <3>1, <3>2
  <2> QED BY <1>7, <2>1, <2>2 DEF Marked
<1>12. ASSUME o.kind \in {"send_started"} \cup Settled, NEW v \in Unit \ {u}
       PROVE  ~Unresolved(v, n)
  <2>1. KindBy(outbox, v, n) \notin {"send_started", "unknown"}
    BY <1>2, <1>3, <1>4, <1>5, <1>12 DEF Good, Alone
  <2>2. LatestKind(v, n) \notin {"send_started", "unknown"}
    BY <1>6, <2>1
  <2> QED BY <2>2 DEF Unresolved, StateOf
<1>13. Proved(o)
  BY <1>3, <1>4 DEF Good
<1> QED BY <1>1, <1>5, <1>9, <1>10, <1>11, <1>12, <1>13 DEF Admitted

\* Whatever callers do side by side, the ledger has a prefix of the outbox, and the collector
\* refuses what comes next only of an operation that it has as settled.
THEOREM RefusalsAreOfSettled == Spec => []RefusedOnlyOnceSettled
<1>1. IInv => RefusedOnlyOnceSettled
  <2>1. SUFFICES ASSUME IInv PROVE RefusedOnlyOnceSettled
    OBVIOUS
  <2>2. ledger = [i \in 1..Len(ledger) |-> i]
    <3>1. ledger \in Seq(Nat) /\ \A i \in 1..Len(ledger) : ledger[i] = i
      BY <2>1 DEF IInv, TypeInv, WriterType, WriterInv, LedgerInv
    <3>2. ledger = [i \in 1..Len(ledger) |-> ledger[i]]
      BY <3>1
    <3> QED BY <3>1, <3>2
  <2>3. Len(ledger) < Len(outbox) =>
            LET next == outbox[Len(ledger) + 1] IN
            Admitted(next) \/ LatestKind(next.unit, Len(ledger)) \in Settled
    BY <2>1, NextIsAdmitted
  <2> QED BY <2>2, <2>3 DEF RefusedOnlyOnceSettled
<1> QED BY <1>1, Inductive, PTL

\* An operation that may have been sent is the outstanding one of its company until the
\* ledger has the proof of what became of it, and the fake agrees.
THEOREM SettledHasProof == Spec => []SettledWithProof
<1>1. IInv => SettledWithProof
  <2>1. SUFFICES ASSUME IInv, NEW u \in Unit
                 PROVE  /\ state[u] = "unknown" <=> outstanding = u
                        /\ state[u] \in Settled => /\ request[u] = state[u]
                                                   /\ LatestKind(u, Len(ledger)) = state[u]
                        /\ request[u] # "none" => state[u] \in {"unknown"} \cup Settled
    BY DEF SettledWithProof
  <2>2. state[u] = "unknown" <=> outstanding = u
    BY <2>1 DEF IInv, WriterInv, StateInv
  <2>3. request[u] # "none" => state[u] \in {"unknown"} \cup Settled
    BY <2>1 DEF IInv, WriterInv, RequestInv
  <2>4. ASSUME state[u] \in Settled
        PROVE  request[u] = state[u] /\ LatestKind(u, Len(ledger)) = state[u]
    <3>1. PICK n \in Nat : n = Len(outbox)
      BY <2>1 DEF IInv, TypeInv, WriterType
    <3>2. PICK m \in Nat : m = Len(ledger)
      BY <2>1 DEF IInv, TypeInv, WriterType
    <3>3. m <= n
      BY <2>1, <3>1, <3>2 DEF IInv, WriterInv, LedgerInv
    <3>4. /\ KindBy(outbox, u, n) = state[u] /\ request[u] = state[u]
          /\ Places(outbox, u, n) \subseteq 1..m
      BY <2>1, <2>4, <3>1, <3>2 DEF IInv, WriterInv, StateInv
    <3>5. ASSUME NEW i \in (m + 1)..n PROVE outbox[i].unit # u
      <4>1. i \in 1..n /\ i \notin 1..m
        BY <3>3
      <4> QED BY <3>4, <4>1 DEF Places
    <3>6. KindBy(outbox, u, n) = KindBy(outbox, u, m)
      BY <3>3, <3>5, KindBySkips
    <3>7. LatestKind(u, m) = KindBy(outbox, u, m)
      <4>1. m <= Len(ledger)
        BY <3>2
      <4> QED BY <2>1, <4>1, LedgerIsPrefix
    <3> QED BY <3>2, <3>4, <3>6, <3>7
  <2> QED BY <2>2, <2>3, <2>4
<1> QED BY <1>1, Inductive, PTL

\* Only what is unknown becomes the company's.
LEMMA ValueIs ==
    ASSUME IInv, [Next]_vars
    PROVE  value' = value \/ value' = NoUnit \/ (value' \in Unit /\ state[value'] = "unknown")
<1>1. CASE \E c \in Caller : SendGranted(c) \/ SendLost(c)
  <2>1. PICK c \in Caller : SendGranted(c) \/ SendLost(c)
    BY <1>1
  <2>2. call[c].at = "sending"
    BY <2>1 DEF SendGranted, SendLost, MaySend
  <2>3. PICK u : u = call[c].unit
    OBVIOUS
  <2>4. u \in Unit /\ state[u] = "unknown"
    BY <2>2, <2>3, SendingIs
  <2>5. PICK effect \in {"pending"} \cup Settled : Send(u, effect)
    BY <2>1, <2>3 DEF SendGranted, SendLost
  <2> QED BY <2>4, <2>5 DEF Send
<1>2. CASE \E u \in Unit : Settle(u)
  <2>1. PICK u \in Unit : Settle(u)
    BY <1>2
  <2>2. state[u] = "unknown" /\ (value' = u \/ value' = value)
    BY <2>1, PendingIs DEF Settle
  <2> QED BY <2>2
<1>3. CASE SetProperties
  BY <1>3 DEF SetProperties
<1>4. CASE UNCHANGED vars \/ (CaptureNext /\ UNCHANGED writerVars)
  BY <1>4 DEF vars, writerVars, crmVars
<1>5. CASE \E c \in Caller, u \in Unit :
              \/ PrepareIntent(c, u) \/ SendRefused(c, u) \/ SendIntent(c, u)
              \/ ReconcileIntent(c, u)
  BY <1>5 DEF PrepareIntent, SendRefused, SendIntent, ReconcileIntent, writerVars, crmVars
<1>6. ASSUME NEW c \in Caller,
             \/ ReadPending(c) \/ Deliver(c) \/ DeliveryFails(c) \/ Acknowledge(c)
             \/ ReadHistory(c) \/ InsertIntent(c) \/ PrepareReturns(c)
      PROVE  value' = value
  BY <1>6 DEF ReadPending, Deliver, DeliveryFails, Acknowledge, ReadHistory, InsertIntent,
              PrepareReturns, writerVars, crmVars
<1>7. ASSUME NEW c \in Caller,
             \/ ReserveAndMark(c) \/ ReserveReturns(c) \/ NotGranted(c) \/ SendFenced(c)
             \/ Finalize(c) \/ StillUnknown(c) \/ ObserveAgain(c) \/ EndCall(c)
      PROVE  value' = value
  BY <1>7 DEF ReserveAndMark, ReserveReturns, NotGranted, SendFenced, Finalize, StillUnknown,
              ObserveAgain, EndCall, writerVars, crmVars
<1> QED BY <1>1, <1>2, <1>3, <1>4, <1>5, <1>6, <1>7 DEF Next

\* An operation is sent once at most, and the company never goes back to an older decision,
\* however late a request is applied.
THEOREM DecisionsAreNotUndone == Spec => CrmNeverGoesBack
<1>1. IInv /\ IInv' /\ [Next]_vars =>
          [/\ \A u \in Unit : sends'[u] <= 1
           /\ value' \in Unit /\ value \in Unit => revision[value'] >= revision[value]]_vars
  <2>1. SUFFICES ASSUME IInv, IInv', [Next]_vars
                 PROVE  /\ \A u \in Unit : sends'[u] <= 1
                        /\ value' \in Unit /\ value \in Unit =>
                              revision[value'] >= revision[value]
    OBVIOUS
  <2>2. \A u \in Unit : sends'[u] <= 1
    BY <2>1 DEF IInv, WriterInv, RequestInv
  <2>3. ASSUME value' \in Unit, value \in Unit PROVE revision[value'] >= revision[value]
    <3>1. PICK v \in Unit : v = value
      BY <2>3
    <3>2. PICK w \in Unit : w = value'
      BY <2>3
    <3>3. revision \in [Unit -> Nat] /\ NoUnit \notin Unit
      BY <2>1, CaptureAssumption DEF IInv, TypeInv, WriterType
    <3>4. w = v \/ state[w] = "unknown"
      BY <2>1, <3>1, <3>2, <3>3, ValueIs
    <3>5. state[v] \in {"unknown"} \cup Settled
      BY <2>1, <3>1 DEF IInv, WriterInv, RequestInv
    <3>6. revision[v] <= revision[w]
      <4>1. CASE w = v
        BY <3>3, <4>1
      <4>2. CASE state[w] = "unknown"
        BY <2>1, <3>5, <4>2 DEF IInv, WriterInv, RevisionInv
      <4> QED BY <3>4, <4>1, <4>2
    <3> QED BY <3>1, <3>2, <3>3, <3>6
  <2> QED BY <2>2, <2>3
<1> QED BY <1>1, Inductive, PTL DEF Spec, CrmNeverGoesBack

--------------------------------------------------------------------------------
(* The adapter implements WriteOnce.                                            *)

\* What is not sent has no observation but of its preparation and of refusals, and the newest
\* of them is the newest in every part of the outbox that has one.
LEMMA UnsentBefore ==
    ASSUME IInv, NEW v \in Unit, state[v] \in {"prepared", "refused"}, NEW n, n = Len(outbox),
           NEW m \in Nat, m <= n, Places(outbox, v, m) # {}
    PROVE  KindBy(outbox, v, m) \in {"prepared", "refused"}
<1> DEFINE Odd == {i \in 1..m : outbox[i].unit = v /\ outbox[i].kind \notin {"prepared", "refused"}}
<1>1. /\ n \in Nat /\ KindBy(outbox, v, n) = state[v]
      /\ \A i \in 1..n : /\ InTurn(outbox, i) /\ outbox[i] \in Observation
                         /\ outbox[i].unit = v => outbox[i].kind \notin {"send_started"} \cup Settled
  <2>1. n \in Nat /\ KindBy(outbox, v, n) = state[v]
    BY DEF IInv, TypeInv, WriterType, WriterInv, StateInv
  <2>2. ASSUME NEW i \in 1..n
        PROVE  /\ InTurn(outbox, i) /\ outbox[i] \in Observation
               /\ outbox[i].unit = v => outbox[i].kind \notin {"send_started"} \cup Settled
    BY ObservedUnits DEF IInv, WriterInv, OutboxInv, Good, RequestInv, Settled
  <2> QED BY <2>1, <2>2
<1>2. SUFFICES Odd = {}
  <2>1. Max(Places(outbox, v, m)) \in 1..m /\ outbox[Max(Places(outbox, v, m))].unit = v
    BY PlacesAreBounded
  <2> QED BY <2>1 DEF KindBy
<1>3. SUFFICES ASSUME Odd # {} PROVE FALSE
  OBVIOUS
<1>4. PICK b : b \in Odd /\ \A i \in Odd : b <= i
  <2>1. Odd \subseteq Nat
    OBVIOUS
  <2> HIDE DEF Odd
  <2> QED BY <1>3, <2>1, MinOfNat
<1>5. /\ b \in 1..n /\ b - 1 \in Nat /\ outbox[b].unit = v
      /\ outbox[b].kind \notin {"prepared", "refused"}
  BY <1>1, <1>4
<1>6. KindBy(outbox, v, b - 1) \in {"none", "prepared", "refused"}
  <2>1. ASSUME NEW i \in 1..(b - 1), outbox[i].unit = v
        PROVE  outbox[i].kind \in {"prepared", "refused"}
    BY <1>4, <2>1
  <2> QED BY <1>5, <2>1, KindByIs
<1>7. outbox[b].kind = "superseded"
  BY <1>1, <1>5, <1>6 DEF InTurn, Follows, Settled
<1>8. KindBy(outbox, v, b) = "superseded"
  BY <1>5, <1>7, KindByNewest
<1> DEFINE Later == {i \in (b + 1)..n : outbox[i].unit = v}
<1>9. CASE Later = {}
  <2>1. KindBy(outbox, v, n) = KindBy(outbox, v, b)
    BY <1>1, <1>5, <1>9, KindBySkips
  <2> QED BY <1>1, <1>8, <2>1
<1>10. CASE Later # {}
  <2>1. PICK l : l \in Later /\ \A i \in Later : l <= i
    <3>1. Later \subseteq Nat
      BY <1>5
    <3> HIDE DEF Later
    <3> QED BY <1>10, <3>1, MinOfNat
  <2>2. l \in 1..n /\ l - 1 \in Nat /\ b <= l - 1 /\ outbox[l].unit = v
    BY <1>1, <1>5, <2>1
  <2>3. \A i \in (b + 1)..(l - 1) : outbox[i].unit # v
    BY <1>1, <1>5, <2>1, <2>2
  <2>4. KindBy(outbox, v, l - 1) = "superseded"
    <3>1. b \in Nat /\ l - 1 \in Nat /\ b <= l - 1
      BY <1>5, <2>2
    <3>2. KindBy(outbox, v, l - 1) = KindBy(outbox, v, b)
      <4> HIDE DEF Later
      <4> QED BY <2>3, <3>1, KindBySkips
    <3> QED BY <1>8, <3>2
  <2> QED BY <1>1, <2>2, <2>4 DEF InTurn, Follows, Settled
<1> QED BY <1>9, <1>10

\* An operation is prepared with a revision above all those before it, so it is there when a
\* revision that is not below its own is.
LEMMA PreparedBefore ==
    ASSUME IInv, NEW v \in Unit, state[v] \in {"prepared", "refused"}, NEW n, n = Len(outbox),
           NEW m \in Nat, m <= n, revision[v] <= RevisionBy(outbox, revision, m)
    PROVE  Places(outbox, v, m) # {}
<1> DEFINE All == Places(outbox, v, n)
<1>1. /\ n \in Nat /\ KindBy(outbox, v, n) = state[v]
      /\ revision \in [Unit -> Nat]
      /\ \A i \in 1..n : Good(outbox, revision, i) /\ outbox[i].unit \in Unit
  BY ObservedUnits DEF IInv, TypeInv, WriterType, WriterInv, StateInv, OutboxInv
<1>2. SUFFICES ASSUME Places(outbox, v, m) = {} PROVE FALSE
  OBVIOUS
<1>3. All # {} /\ All \subseteq Nat
  BY <1>1 DEF KindBy, Places
<1>4. PICK f : f \in All /\ \A i \in All : f <= i
  <2> HIDE DEF All
  <2> QED BY <1>3, MinOfNat
<1>5. /\ f \in 1..n /\ f - 1 \in Nat /\ outbox[f].unit = v /\ m <= f - 1
      /\ \A i \in 1..(f - 1) : outbox[i].unit # v
  BY <1>1, <1>2, <1>4 DEF Places
<1>6. KindBy(outbox, v, f - 1) = "none"
  BY <1>5, KindByIs
<1>7. outbox[f].kind = "prepared"
  BY <1>1, <1>5, <1>6 DEF Good, InTurn, Follows, Settled
<1>8. revision[v] = RevisionBy(outbox, revision, f - 1) + 1
  BY <1>1, <1>5, <1>7 DEF Good, Numbered
<1>9. /\ RevisionBy(outbox, revision, f - 1) \in Nat
      /\ \A i \in 1..(f - 1) : revision[outbox[i].unit] <= RevisionBy(outbox, revision, f - 1)
  <2>1. \A i \in 1..(f - 1) : revision[outbox[i].unit] \in Nat
    BY <1>1, <1>5
  <2> QED BY <1>5, <2>1, RevisionByIs
<1>10. RevisionBy(outbox, revision, m) <= RevisionBy(outbox, revision, f - 1)
  <2>1. \A i \in 1..m : revision[outbox[i].unit] \in Nat
    BY <1>1
  <2>2. \/ RevisionBy(outbox, revision, m) = 0
        \/ \E i \in 1..m : RevisionBy(outbox, revision, m) = revision[outbox[i].unit]
    BY <2>1, RevisionByIs
  <2>3. \A i \in 1..m : i \in 1..(f - 1)
    BY <1>5
  <2> QED BY <1>9, <2>2, <2>3
<1>11. RevisionBy(outbox, revision, m) \in Nat
  <2>1. \A i \in 1..m : revision[outbox[i].unit] \in Nat
    BY <1>1
  <2> QED BY <2>1, RevisionByIs
<1> QED BY <1>1, <1>8, <1>9, <1>10, <1>11

\* What a preparation supersedes is every intent that was not sent, also of those that were
\* prepared after it read the history.
LEMMA UnsentIs ==
    ASSUME IInv, NEW c \in Caller, InsertIntent(c), NEW u, u = call[c].unit
    PROVE  /\ Unsent(call[c].seen) = {v \in Unit : state[v] \in {"prepared", "refused"}}
           /\ \E new \in Nat \ {0} : /\ revision' = [revision EXCEPT ![u] = new]
                                     /\ \A v \in Unit : revision[v] < new
<1>1. PICK n \in Nat : n = Len(outbox)
  BY DEF IInv, TypeInv, WriterType
<1>2. PICK seen : seen = call[c].seen
  OBVIOUS
<1>3. seen \in Nat /\ seen <= Len(ledger) /\ seen <= n
  <2>1. call[c].at = "preparing" /\ call[c] \in Call
    BY DEF InsertIntent, IInv, TypeInv, CallType
  <2>2. seen \in Nat /\ seen <= Len(ledger)
    BY <1>2, <2>1 DEF Call, IInv, CallsInv, CallOk, FlushOk
  <2>3. Len(ledger) \in Nat /\ Len(ledger) <= n
    BY <1>1 DEF IInv, TypeInv, WriterType, WriterInv, LedgerInv
  <2> QED BY <1>1, <2>2, <2>3
<1>4. PICK new \in Nat \ {0} : /\ revision' = [revision EXCEPT ![u] = new]
                               /\ \A v \in Unit : revision[v] < new
  <2>1. PICK m \in Nat : \E f \in [1..m -> Unit] : \E new \in Nat \ {0} : Inserts(u, n, m, f, new)
    BY <1>1, InsertIntentIs
  <2>2. PICK f \in [1..m -> Unit] : \E new \in Nat \ {0} : Inserts(u, n, m, f, new)
    BY <2>1
  <2> QED BY <2>2 DEF Inserts
<1>5. /\ u \in Unit /\ revision \in [Unit -> Nat]
      /\ revision' = [revision EXCEPT ![u] = MaxRevision(seen) + 1]
  BY <1>1, <1>2, BoundIs DEF InsertIntent, IInv, TypeInv, WriterType
<1>6. /\ new = RevisionBy(outbox, revision, seen) + 1
      /\ \A v \in Unit : LatestKind(v, seen) = KindBy(outbox, v, seen)
  BY <1>3, <1>4, <1>5, LedgerIsPrefix
<1>7. RevisionBy(outbox, revision, seen) \in Nat
  <2>1. ASSUME NEW i \in 1..seen PROVE revision[outbox[i].unit] \in Nat
    <3>1. i \in 1..n
      BY <1>1, <1>3
    <3> QED BY <1>1, <1>5, <3>1, ObservedUnits
  <2> QED BY <1>3, <2>1, RevisionByIs
<1>8. ASSUME NEW v \in Unit, state[v] \in {"prepared", "refused"}
      PROVE  LatestKind(v, seen) \in {"prepared", "refused"}
  <2>1. revision[v] <= RevisionBy(outbox, revision, seen)
    BY <1>4, <1>5, <1>6, <1>7
  <2>2. Places(outbox, v, seen) # {}
    BY <1>1, <1>3, <1>8, <2>1, PreparedBefore
  <2> QED BY <1>1, <1>3, <1>6, <1>8, <2>2, UnsentBefore
<1> QED BY <1>2, <1>4, <1>8 DEF Unsent

\* The operations of the company are peers of each other.
LEMMA CompanyIsOne ==
    ASSUME NEW u \in Unit
    PROVE  W!Peers(u) = Unit
BY DEF W!Peers

\* What is said of an operation hangs on its state alone.
LEMMA StatusMoves ==
    ASSUME NEW u \in Unit, \A v \in Unit : v # u => state'[v] = state[v]
    PROVE  Status' = [Status EXCEPT ![u] = Status'[u]]
<1>1. \A v \in Unit : v # u => Status'[v] = Status[v]
  BY DEF Status
<1>2. Status' = [v \in Unit |-> Status'[v]] /\ Status = [v \in Unit |-> Status[v]]
  BY DEF Status
<1> QED BY <1>1, <1>2

\* An operation whose state stays is said the same of.
LEMMA StatusStays ==
    ASSUME state' = state
    PROVE  Status' = Status
BY DEF Status

\* A new intent is above all there are, and replaces what was not sent.
LEMMA InsertMaps ==
    ASSUME IInv, NEW c \in Caller, InsertIntent(c), NEW u, u = call[c].unit
    PROVE  W!Prepare(u)
<1>1. /\ u \in Unit /\ state[u] = "none"
  BY BoundIs
<1>2. /\ Unsent(call[c].seen) = {v \in Unit : state[v] \in {"prepared", "refused"}}
      /\ \E new \in Nat \ {0} : /\ revision' = [revision EXCEPT ![u] = new]
                                /\ \A v \in Unit : revision[v] < new
  BY UnsentIs
<1>3. /\ state' = [v \in Unit |-> IF v = u THEN "prepared"
                                ELSE IF v \in Unsent(call[c].seen) THEN "superseded" ELSE state[v]]
      /\ UNCHANGED crmVars
  BY DEF InsertIntent
<1>4. Status[u] = "none"
  BY <1>1 DEF Status
<1>5. Status' = [v \in Unit |-> IF v = u THEN "ready"
                               ELSE IF v \in W!Peers(u) /\ Status[v] = "ready" THEN "withdrawn"
                               ELSE Status[v]]
  <2>1. ASSUME NEW v \in Unit
        PROVE  Status'[v] = IF v = u THEN "ready"
                            ELSE IF v \in W!Peers(u) /\ Status[v] = "ready" THEN "withdrawn"
                            ELSE Status[v]
    <3>1. CASE v = u
      BY <1>3, <3>1 DEF Status
    <3>2. CASE v # u /\ state[v] \in {"prepared", "refused"}
      <4>1. state'[v] = "superseded"
        BY <1>2, <1>3, <3>2
      <4>2. Status'[v] = "withdrawn" /\ Status[v] = "ready"
        BY <3>2, <4>1 DEF Status
      <4> QED BY <1>1, <3>2, <4>2, CompanyIsOne
    <3>3. CASE v # u /\ state[v] \notin {"prepared", "refused"}
      <4>1. state'[v] = state[v]
        BY <1>2, <1>3, <3>3
      <4>2. Status[v] # "ready" /\ Status'[v] = Status[v]
        <5>1. state[v] # "ready"
          BY DEF IInv, TypeInv, WriterType, Settled
        <5> QED BY <3>3, <4>1, <5>1 DEF Status
      <4> QED BY <3>3, <4>2
    <3> QED BY <3>1, <3>2, <3>3
  <2>2. Status' = [v \in Unit |-> Status'[v]]
    BY DEF Status
  <2> QED BY <2>1, <2>2
<1>6. UNCHANGED <<request, Value>>
  BY <1>3 DEF crmVars, Value
<1>7. \E new \in Nat \ {0} : /\ revision' = [revision EXCEPT ![u] = new]
                             /\ \A v \in W!Peers(u) \ {u} : revision[v] < new
  BY <1>1, <1>2, CompanyIsOne
<1> QED BY <1>4, <1>5, <1>6, <1>7 DEF W!Prepare

\* A reservation marks the newest revision, and nothing of the company is outstanding.
LEMMA MarkMaps ==
    ASSUME IInv, NEW c \in Caller, ReserveAndMark(c), NEW u, u = call[c].unit
    PROVE  W!Mark(u)
<1>1. /\ u \in Unit /\ state[u] \in {"prepared", "refused"} /\ IsFresh(u)
      /\ outstanding \in {NoUnit, u} /\ state' = [state EXCEPT ![u] = "unknown"]
      /\ revision' = revision /\ UNCHANGED crmVars
      /\ state \in [Unit -> {"none", "prepared", "refused", "superseded", "unknown"} \cup Settled]
  BY DEF ReserveAndMark, Reservable, IInv, TypeInv, CallType, WriterType
<1>2. state'[u] = "unknown" /\ \A v \in Unit : v # u => state'[v] = state[v]
  BY <1>1
<1>3. Status[u] = "ready" /\ Status'[u] = "outstanding"
  BY <1>1, <1>2 DEF Status
<1>4. Status' = [Status EXCEPT ![u] = "outstanding"]
  BY <1>1, <1>2, <1>3, StatusMoves
<1>5. W!Newest(u)
  <2>1. revision[u] # 0
    BY <1>1 DEF IInv, WriterInv, StateInv
  <2> QED BY <1>1, <2>1, FreshIsNewest, CompanyIsOne DEF W!Newest
<1>6. \A v \in W!Peers(u) : Status[v] # "outstanding"
  <2>1. ASSUME NEW v \in Unit, state[v] = "unknown" PROVE FALSE
    <3>1. outstanding = v
      BY <2>1 DEF IInv, WriterInv, StateInv
    <3> QED BY <1>1, <2>1, <3>1, CaptureAssumption
  <2>2. \A v \in Unit : Status[v] = "outstanding" => state[v] = "unknown"
    BY <1>1 DEF Status, Settled
  <2> QED BY <1>1, <2>1, <2>2, CompanyIsOne
<1> QED BY <1>1, <1>3, <1>4, <1>5, <1>6 DEF W!Mark, crmVars, Value

\* The effect of a request on the company.
LEMMA EffectMaps ==
    ASSUME IInv, NEW u \in Unit, NEW effect \in {"pending"} \cup Settled, state' = state,
           revision' = revision, request' = [request EXCEPT ![u] = effect],
           value' = IF effect = "applied" THEN u ELSE value
    PROVE  W!Becomes(u, effect)
<1>1. Value' = IF effect = "applied" THEN [Value EXCEPT ![Company] = u] ELSE Value
  BY DEF Value
<1> QED BY <1>1, StatusStays DEF W!Becomes

\* The one request goes out under the mark, while its revision is the newest.
LEMMA SendMaps ==
    ASSUME IInv, NEW c \in Caller, SendGranted(c) \/ SendLost(c), NEW u, u = call[c].unit
    PROVE  W!Send(u)
<1>1. /\ call[c].at = "sending" /\ IsFresh(u) /\ state' = state /\ revision' = revision
      /\ \E effect \in {"pending"} \cup Settled : Send(u, effect)
  BY DEF SendGranted, SendLost, MaySend, intentVars
<1>2. u \in Unit /\ state[u] = "unknown" /\ request[u] = "none"
  BY <1>1, SendingIs
<1>3. PICK effect \in {"pending"} \cup Settled : Send(u, effect)
  BY <1>1
<1>4. W!Becomes(u, effect)
  BY <1>1, <1>2, <1>3, EffectMaps DEF Send
<1>5. W!Newest(u)
  <2>1. revision[u] # 0
    BY <1>2, UnknownIs
  <2> QED BY <1>1, <1>2, <2>1, FreshIsNewest, CompanyIsOne DEF W!Newest
<1>6. Status[u] = "outstanding"
  BY <1>2 DEF Status
<1> QED BY <1>2, <1>4, <1>5, <1>6 DEF W!Send, W!Effect, Settled

\* A request that was sent is processed once.
LEMMA ProcessMaps ==
    ASSUME IInv, NEW u \in Unit, Settle(u)
    PROVE  W!Process(u)
<1>1. request[u] = "pending" /\ state' = state /\ revision' = revision
  BY DEF Settle, intentVars
<1>2. PICK effect \in Settled : /\ request' = [request EXCEPT ![u] = effect]
                                /\ value' = IF effect = "applied" THEN u ELSE value
  BY DEF Settle
<1>3. W!Becomes(u, effect)
  BY <1>1, <1>2, EffectMaps
<1> QED BY <1>1, <1>2, <1>3 DEF W!Process, W!Effect, Settled

\* What is settled is what became of the request.
LEMMA FinalizeMaps ==
    ASSUME IInv, NEW c \in Caller, Finalize(c), NEW u, u = call[c].unit
    PROVE  W!Settle(u)
<1>1. /\ call[c].at \in {"finalizing", "reconciling"} /\ Finalizable(u)
      /\ state' = [state EXCEPT ![u] = outbox[LatestOf(u)].kind]
      /\ revision' = revision /\ UNCHANGED crmVars
  BY DEF Finalize
<1>2. u \in Unit /\ state[u] = "unknown"
  BY <1>1 DEF IInv, TypeInv, CallType, Finalizable
<1>3. outbox[LatestOf(u)].kind = request[u] /\ request[u] \in Settled
  BY <1>1, <1>2, FinalizableIs
<1>4. state \in [Unit -> {"none", "prepared", "refused", "superseded", "unknown"} \cup Settled]
  BY DEF IInv, TypeInv, WriterType
<1>5. state'[u] = request[u] /\ \A v \in Unit : v # u => state'[v] = state[v]
  BY <1>1, <1>2, <1>3, <1>4
<1>6. Status[u] = "outstanding" /\ Status'[u] = request[u]
  BY <1>2, <1>3, <1>5 DEF Status, Settled
<1>7. Status' = [Status EXCEPT ![u] = request[u]]
  BY <1>2, <1>5, <1>6, StatusMoves
<1> QED BY <1>1, <1>2, <1>3, <1>6, <1>7 DEF W!Settle, W!Effect, Settled, crmVars, Value

\* Whatever else happens in the adapter is none of the steps of an operation.
LEMMA NothingMaps ==
    ASSUME IInv, UNCHANGED <<revision, request, value>>,
           state' = state \/ \E u \in Unit : \/ /\ state[u] \in {"prepared", "refused"}
                                                /\ state' = [state EXCEPT ![u] = "refused"]
                                             \/ /\ state[u] = "unknown"
                                                /\ state' = [state EXCEPT ![u] = "unknown"]
    PROVE  UNCHANGED <<Status, revision, request, Value>>
<1>1. state \in [Unit -> {"none", "prepared", "refused", "superseded", "unknown"} \cup Settled]
  BY DEF IInv, TypeInv, WriterType
<1>2. ASSUME NEW u \in Unit,
             \/ state[u] \in {"prepared", "refused"} /\ state' = [state EXCEPT ![u] = "refused"]
             \/ state[u] = "unknown" /\ state' = [state EXCEPT ![u] = "unknown"]
      PROVE  Status' = Status
  <2>1. \A v \in Unit : \/ state'[v] = state[v]
                        \/ state[v] \in {"prepared", "refused"} /\ state'[v] = "refused"
    BY <1>1, <1>2
  <2>2. \A v \in Unit : Status'[v] = Status[v]
    BY <2>1 DEF Status
  <2>3. Status' = [v \in Unit |-> Status'[v]] /\ Status = [v \in Unit |-> Status[v]]
    BY DEF Status
  <2> QED BY <2>2, <2>3
<1> QED BY <1>2, StatusStays DEF Value

\* Every step of the capture, the submission, the writer and the fake is a step of WriteOnce,
\* or changes nothing that WriteOnce speaks of.
LEMMA StepMaps ==
    ASSUME IInv, [Next]_vars
    PROVE  [W!Next]_(W!vars)
<1>1. ASSUME NEW c \in Caller, NEW u \in Unit, SendRefused(c, u)
      PROVE  UNCHANGED <<Status, revision, request, Value>>
  BY <1>1, NothingMaps DEF SendRefused, crmVars
<1>2. ASSUME NEW c \in Caller, NotGranted(c) \/ ObserveAgain(c)
      PROVE  UNCHANGED <<Status, revision, request, Value>>
  <2>1. PICK u : u = call[c].unit
    OBVIOUS
  <2>2. state' = [state EXCEPT ![u] = "unknown"] /\ UNCHANGED <<revision, request, value>>
    BY <1>2, <2>1 DEF NotGranted, ObserveAgain, crmVars
  <2>3. u \in Unit /\ state[u] = "unknown"
    <3>1. CASE NotGranted(c)
      BY <2>1, <3>1, SendingIs DEF NotGranted
    <3>2. CASE ObserveAgain(c)
      <4>1. u \in Unit /\ outstanding = u
        BY <2>1, <3>2 DEF ObserveAgain, CanReclaim, IInv, TypeInv, CallType
      <4> QED BY <4>1 DEF IInv, WriterInv, StateInv
    <3> QED BY <1>2, <3>1, <3>2
  <2> QED BY <2>2, <2>3, NothingMaps
<1>3. ASSUME UNCHANGED intentVars, UNCHANGED crmVars
      PROVE  UNCHANGED <<Status, revision, request, Value>>
  BY <1>3, NothingMaps DEF intentVars, crmVars
<1>4. ASSUME NEW c \in Caller, NEW u \in Unit,
             PrepareIntent(c, u) \/ SendIntent(c, u) \/ ReconcileIntent(c, u)
      PROVE  UNCHANGED <<Status, revision, request, Value>>
  BY <1>3, <1>4 DEF PrepareIntent, SendIntent, ReconcileIntent, writerVars
<1>5. ASSUME NEW c \in Caller,
             \/ ReadPending(c) \/ Deliver(c) \/ DeliveryFails(c) \/ Acknowledge(c)
             \/ ReadHistory(c) \/ PrepareReturns(c)
      PROVE  UNCHANGED <<Status, revision, request, Value>>
  BY <1>3, <1>5 DEF ReadPending, Deliver, DeliveryFails, Acknowledge, ReadHistory,
                    PrepareReturns, writerVars
<1>6. ASSUME NEW c \in Caller,
             ReserveReturns(c) \/ SendFenced(c) \/ StillUnknown(c) \/ EndCall(c)
      PROVE  UNCHANGED <<Status, revision, request, Value>>
  BY <1>3, <1>6 DEF ReserveReturns, SendFenced, StillUnknown, EndCall, writerVars
<1>7. ASSUME (CaptureNext /\ UNCHANGED writerVars) \/ UNCHANGED vars
      PROVE  UNCHANGED <<Status, revision, request, Value>>
  BY <1>3, <1>7 DEF vars, writerVars
<1>8. ASSUME NEW c \in Caller,
             InsertIntent(c) \/ ReserveAndMark(c) \/ SendGranted(c) \/ SendLost(c) \/ Finalize(c)
      PROVE  \E u \in Unit : W!Prepare(u) \/ W!Mark(u) \/ W!Send(u) \/ W!Settle(u)
  <2>1. call[c].unit \in Unit
    BY <1>8 DEF InsertIntent, ReserveAndMark, SendGranted, SendLost, MaySend, Finalize, IInv,
                TypeInv, CallType
  <2> QED BY <1>8, <2>1, InsertMaps, MarkMaps, SendMaps, FinalizeMaps
<1>9. ASSUME SetProperties PROVE W!Overwrite(Company)
  <2>1. value' = NoUnit /\ UNCHANGED <<state, revision, request>>
    BY <1>9 DEF SetProperties, intentVars
  <2>2. Value' = [Value EXCEPT ![Company] = NoUnit]
    BY <2>1 DEF Value
  <2> QED BY <2>1, <2>2, StatusStays DEF W!Overwrite
<1> QED BY <1>1, <1>2, <1>4, <1>5, <1>6, <1>7, <1>8, <1>9, ProcessMaps
        DEF Next, W!Next, W!vars

\* The adapter implements WriteOnce, for every number of units, callers and faults.
THEOREM AdapterImplementsWriteOnce == Spec => ImplementsWriteOnce
<1>1. Init => W!Init
  BY DEF Init, W!Init, Status, Value
<1>2. IInv /\ [Next]_vars => [W!Next]_(W!vars)
  BY StepMaps
<1> QED BY <1>1, <1>2, Inductive, PTL DEF Spec, ImplementsWriteOnce, W!Spec
=============================================================================
