---------------------------- MODULE HubspotWriter ----------------------------
(***************************************************************************)
(* The writer of decisions to the fake CRM (adapters/hubspot/writer.py,    *)
(* writer_store.py, fake_crm.py) over the same store file, company         *)
(* ownership and ledger as HubspotCapture, and the admission of its        *)
(* observations by the collector (collector/operation_contract.py).        *)
(*                                                                         *)
(* There is one operation for each unit, named by the unit.  The           *)
(* observations of all operations are one outbox, in the order they were   *)
(* appended; the ledger holds the places of the ones it admitted.  Of the  *)
(* reason of an observation only what a later step or the collector reads  *)
(* is kept: whether it is the marker of a send, and its proof.             *)
(***************************************************************************)
EXTENDS HubspotCapture, SequencesExt

CONSTANTS
    Occurred,      \* the time of each unit's notification
    MaxOutbox      \* bound: observations appended

ASSUME WriterAssumption == Occurred \in [Unit -> Nat] /\ MaxOutbox \in Nat

VARIABLES
    revision,      \* writer_intents, 0 while there is none
    state,         \* writer_progress: the state of each operation
    generation,    \* writer_progress: the generation of its reservation
    outstanding,   \* writer_targets: the operation that may have been sent
    outbox,        \* writer_observations
    receipts,      \* writer_receipts: places of the outbox
    ledger,        \* operation events in the ledger, as places of the outbox
    request,       \* the fake: what became of each operation
    value,         \* the fake: the unit whose tuple the company's properties are
    sends          \* history: how often an operation was sent

intentVars == <<revision, state, generation, outstanding>>
crmVars == <<request, value, sends>>
writerVars == <<intentVars, outbox, receipts, ledger, crmVars>>
vars == <<captureVars, writerVars>>

Settled == {"applied", "not_applied"}
TERMINAL == {"superseded"} \cup Settled
NoProof == [quiet |-> FALSE, rejected |-> FALSE, full |-> FALSE]

Init ==
    /\ CaptureInit
    /\ revision = [u \in Unit |-> 0] /\ state = [u \in Unit |-> "none"]
    /\ generation = [u \in Unit |-> 0] /\ outstanding = NoUnit
    /\ outbox = <<>> /\ receipts = {} /\ ledger = <<>>
    /\ request = [u \in Unit |-> "none"] /\ value = NoUnit /\ sends = [u \in Unit |-> 0]

--------------------------------------------------------------------------------
(* operation_contract.py: what the collector admits after what it has          *)

StateOf(kind) == IF kind = "send_started" THEN "unknown" ELSE kind

\* the places of the observations of u among the first n events of the ledger
Own(u, n) == {i \in 1..n : outbox[ledger[i]].unit = u}
LatestKind(u, n) == IF Own(u, n) = {} THEN "none" ELSE outbox[ledger[Max(Own(u, n))]].kind
Unresolved(v, n) == StateOf(LatestKind(v, n)) = "unknown"
HistoryRevisions(n) == {revision[outbox[ledger[i]].unit] : i \in 1..n}
MaxRevision(n) == Max({0} \cup HistoryRevisions(n))
Marked(u, n) == \E i \in Own(u, n) : outbox[ledger[i]].kind = "send_started"

Follows(before, kind) ==
    \/ before = "none" /\ kind = "prepared"
    \/ before \in {"prepared", "refused"} /\ kind \in {"refused", "superseded", "send_started"}
    \/ before \in {"send_started", "unknown"} /\ kind \in {"unknown"} \cup Settled

Proved(o) ==
    CASE o.kind = "applied" -> o.proof.quiet /\ ~o.proof.rejected /\ o.proof.full
      [] o.kind = "not_applied" -> o.proof.quiet /\ o.proof.rejected
      [] o.kind \in {"prepared", "refused", "superseded"} -> o.proof = NoProof
      [] OTHER -> TRUE

Admitted(o) ==
    LET u == o.unit n == Len(ledger) IN
    /\ Follows(LatestKind(u, n), o.kind)
    /\ o.kind = "prepared" => revision[u] = MaxRevision(n) + 1
    /\ o.kind = "send_started" => ~Marked(u, n) /\ revision[u] = MaxRevision(n)
    /\ o.kind \in {"send_started"} \cup Settled => \A v \in Unit \ {u} : ~Unresolved(v, n)
    /\ Proved(o)

--------------------------------------------------------------------------------
(* writer_store.py                                                            *)

Observed(u, kind, proof) == [unit |-> u, kind |-> kind, proof |-> proof]
AppendOne(u, kind, proof) == outbox' = Append(outbox, Observed(u, kind, proof))
Room == Len(outbox) < MaxOutbox

\* assert_fence
Fenced(u) ==
    /\ ownership.state = "held" /\ ownership.owner = u
    /\ generation[u] = ownership.generation /\ outstanding = u

\* reserve(reconcile=True): a reservation that was abandoned is taken again
CanReclaim(u) == outstanding = u /\ (ownership.state = "held" => Fenced(u))
                 /\ (ownership.state # "held" => ownership.generation < MaxGeneration)
Reclaim(u) == IF ownership.state = "held"
              THEN UNCHANGED <<ownership, generation>>
              ELSE Hold(u) /\ generation' = [generation EXCEPT ![u] = ownership.generation + 1]

\* mutant: another operation of the company may still be outstanding
ReservableIfFree(u) == ownership.state # "held"

Reservable(u) == outstanding \in {NoUnit, u} /\ ownership.state # "held"

--------------------------------------------------------------------------------
(* writer.py: an observation is delivered to the collector, then acknowledged *)

\* flush_observations, and then the call continues at "next"
FlushThen(c, next) ==
    call' = [call EXCEPT ![c] = [Idle EXCEPT !.at = "flush", !.unit = call[c].unit, !.next = next]]

\* _context: the submission of the unit is complete
BeginFlush(c, u, next) ==
    /\ Complete(u) /\ call[c] = Idle
    /\ call' = [call EXCEPT ![c] = [Idle EXCEPT !.at = "flush", !.unit = u, !.next = next]]

\* what a call is when its flush is over
After(c) == IF call[c].next = "returning" THEN Idle
            ELSE [call[c] EXCEPT !.at = call[c].next, !.todo = {}, !.next = "none"]

ReadPending(c) ==
    LET pending == DOMAIN outbox \ receipts IN
    /\ call[c].at = "flush"
    /\ call' = [call EXCEPT ![c] = IF pending = {} THEN After(c)
                                  ELSE [@ EXCEPT !.at = "flushing", !.todo = pending]]
    /\ UNCHANGED <<storeVars, submissionVars, faults, writerVars>>

Deliver(c) ==
    LET i == Min(call[c].todo) IN
    /\ call[c].at = "flushing"
    /\ \/ /\ i \in {ledger[j] : j \in DOMAIN ledger}
          /\ Goto(c, "delivered") /\ UNCHANGED ledger
       \/ /\ i \notin {ledger[j] : j \in DOMAIN ledger} /\ Admitted(outbox[i])
          /\ ledger' = Append(ledger, i)
          /\ call' = [call EXCEPT ![c].at = "delivered", ![c].granted = @ \/ i = call[c].marker]
    /\ UNCHANGED <<storeVars, submissionVars, faults, intentVars, outbox, receipts, crmVars>>

\* the collector refuses what is next: the call ends, and so does every later flush
DeliveryFails(c) ==
    LET i == Min(call[c].todo) IN
    /\ call[c].at = "flushing"
    /\ i \notin {ledger[j] : j \in DOMAIN ledger} /\ ~Admitted(outbox[i])
    /\ Return(c)
    /\ UNCHANGED <<storeVars, submissionVars, faults, writerVars>>

Acknowledge(c) ==
    LET i == Min(call[c].todo) rest == call[c].todo \ {i} IN
    /\ call[c].at = "delivered"
    /\ receipts' = receipts \cup {i}
    /\ call' = [call EXCEPT ![c] = IF rest = {} THEN After(c)
                                  ELSE [@ EXCEPT !.at = "flushing", !.todo = rest]]
    /\ UNCHANGED <<storeVars, submissionVars, faults, intentVars, outbox, ledger, crmVars>>

--------------------------------------------------------------------------------
(* prepare_intent                                                             *)

\* _freshness, of what the store and the ledger know of the company
DomainSequences == {captures[x[1]].sequence : x \in {y \in domain : y[2] # "prerequisites"}}
IsFresh(u) ==
    /\ captures[u].sequence = LastSequence
    /\ captures[u].sequence = Max(DomainSequences)
    /\ \A v \in registered : Occurred[v] <= Occurred[u]

PrepareIntent(c, u) ==
    /\ revision[u] = 0 /\ BeginFlush(c, u, "reading_history")
    /\ UNCHANGED <<storeVars, submissionVars, faults, writerVars>>

\* the operations of the account are read before the store is locked
ReadHistory(c) ==
    /\ call[c].at = "reading_history"
    /\ call' = [call EXCEPT ![c].at = "preparing", ![c].seen = Len(ledger)]
    /\ UNCHANGED <<storeVars, submissionVars, faults, writerVars>>

Bound(u, n) == Own(u, n) # {}
Unsent(n) == {v \in Unit : /\ state[v] \in {"prepared", "refused"}
                           /\ LatestKind(v, n) \in {"prepared", "refused"}}

\* the intents it replaces are superseded with it, one after the other
InsertIntent(c) ==
    LET u == call[c].unit n == call[c].seen old == Unsent(n) new == MaxRevision(n) + 1 IN
    /\ call[c].at = "preparing" /\ Len(outbox) + Cardinality(old) < MaxOutbox
    /\ revision[u] = 0 /\ ~Bound(u, n)
    /\ IsFresh(u) /\ ownership.state # "held"
    /\ \A v \in Unit : revision[v] # new
    /\ revision' = [revision EXCEPT ![u] = new]
    /\ state' = [v \in Unit |-> IF v = u THEN "prepared"
                                ELSE IF v \in old THEN "superseded" ELSE state[v]]
    /\ outbox' = outbox \o [k \in 1..Cardinality(old) |-> Observed(SetToSeq(old)[k], "superseded", NoProof)]
                         \o <<Observed(u, "prepared", NoProof)>>
    /\ FlushThen(c, "returning")
    /\ UNCHANGED <<storeVars, submissionVars, faults, generation, outstanding, receipts,
                   ledger, crmVars>>

\* an intent there is already is returned; what is not fresh or not bound is refused
PrepareReturns(c) ==
    LET u == call[c].unit IN
    /\ call[c].at = "preparing"
    /\ \/ revision[u] # 0 \/ Bound(u, call[c].seen) \/ ~IsFresh(u) \/ ownership.state = "held"
       \* the revision was given to another intent of the company
       \/ \E v \in Unit : revision[v] = MaxRevision(call[c].seen) + 1
    /\ Return(c)
    /\ UNCHANGED <<storeVars, submissionVars, faults, writerVars>>

--------------------------------------------------------------------------------
(* send_intent                                                                *)

\* the policy is off, or does not name the company
SendRefused(c, u) ==
    /\ call[c] = Idle /\ Complete(u) /\ state[u] \in {"prepared", "refused"} /\ Room /\ Fault
    /\ AppendOne(u, "refused", NoProof)
    /\ state' = [state EXCEPT ![u] = "refused"]
    /\ call' = [call EXCEPT ![c] = [Idle EXCEPT !.at = "flush", !.unit = u, !.next = "returning"]]
    /\ UNCHANGED <<storeVars, submissionVars, revision, generation, outstanding, receipts,
                   ledger, crmVars>>

SendIntent(c, u) ==
    /\ state[u] \in {"prepared", "refused"}
    /\ BeginFlush(c, u, "reserving")
    /\ UNCHANGED <<storeVars, submissionVars, faults, writerVars>>

\* the company is reserved and the send is marked, in one transaction
ReserveAndMark(c) ==
    LET u == call[c].unit IN
    /\ call[c].at = "reserving" /\ state[u] \in {"prepared", "refused"}
    /\ Reservable(u) /\ IsFresh(u) /\ Room /\ ownership.generation < MaxGeneration
    /\ Hold(u)
    /\ generation' = [generation EXCEPT ![u] = ownership.generation + 1]
    /\ outstanding' = u /\ state' = [state EXCEPT ![u] = "unknown"]
    /\ AppendOne(u, "send_started", NoProof)
    /\ call' = [call EXCEPT ![c].at = "flush", ![c].next = "sending", ![c].marker = Len(outbox) + 1]
    /\ UNCHANGED <<registered, progress, captures, submissionVars, faults, revision, receipts,
                   ledger, crmVars>>

ReserveReturns(c) ==
    LET u == call[c].unit IN
    /\ call[c].at = "reserving"
    /\ state[u] \notin {"prepared", "refused"} \/ ~Reservable(u) \/ ~IsFresh(u)
    /\ Return(c)
    /\ UNCHANGED <<storeVars, submissionVars, faults, writerVars>>

\* the marker was admitted by this call
Granted(c) == call[c].granted

\* mutant: a request that shows no effect yet is taken for a rejected one
ProofByEffect(u) == [quiet |-> TRUE, rejected |-> request'[u] # "applied", full |-> value' = u]

\* what fake.observe says of the company at this moment
ProofOf(u) == [quiet |-> request'[u] \in Settled /\ \A v \in Unit : request'[v] # "pending",
               rejected |-> request'[u] = "not_applied", full |-> value' = u]

Classify(u, proof) ==
    IF ~proof.quiet THEN "unknown"
    ELSE IF proof.rejected THEN "not_applied"
    ELSE IF proof.full THEN "applied" ELSE "unknown"

RecordObservation(u) == AppendOne(u, Classify(u, ProofOf(u)), ProofOf(u))

\* the effect of the one request on the fake
Send(u, effect) ==
    /\ sends' = [sends EXCEPT ![u] = @ + 1]
    /\ request' = [request EXCEPT ![u] = effect]
    /\ value' = IF effect = "applied" THEN u ELSE value

MaySend(c) ==
    /\ call[c].at = "sending" /\ Granted(c) /\ Fenced(call[c].unit) /\ IsFresh(call[c].unit)
    /\ request[call[c].unit] = "none" /\ Room

\* the fake answers, or the answer is lost; both ways an observation is appended
SendGranted(c) ==
    LET u == call[c].unit IN
    /\ MaySend(c)
    /\ \E effect \in {"pending"} \cup Settled : Send(u, effect)
    /\ \/ request'[u] # "pending" /\ RecordObservation(u)
       \/ AppendOne(u, "unknown", NoProof)
    /\ FlushThen(c, "finalizing")
    /\ UNCHANGED <<storeVars, submissionVars, faults, intentVars, receipts, ledger>>

\* the process ends after the request and before the commit
SendLost(c) ==
    /\ MaySend(c) /\ Fault
    /\ \E effect \in {"pending"} \cup Settled : Send(call[c].unit, effect)
    /\ Return(c)
    /\ UNCHANGED <<storeVars, submissionVars, intentVars, outbox, receipts, ledger>>

\* another caller delivered the marker: nothing is sent, now or later
NotGranted(c) ==
    /\ call[c].at = "sending" /\ ~Granted(c)
    /\ state' = [state EXCEPT ![call[c].unit] = "unknown"]
    /\ Return(c)
    /\ UNCHANGED <<storeVars, submissionVars, faults, revision, generation, outstanding, outbox,
                   receipts, ledger, crmVars>>

\* a stale fence, newer knowledge of the company
SendFenced(c) ==
    LET u == call[c].unit IN
    /\ call[c].at = "sending" /\ Granted(c) /\ (~Fenced(u) \/ ~IsFresh(u))
    /\ Return(c)
    /\ UNCHANGED <<storeVars, submissionVars, faults, writerVars>>

--------------------------------------------------------------------------------
(* _finalize and reconcile_intent                                             *)

LatestOf(u) == Max({i \in DOMAIN outbox : outbox[i].unit = u})

\* mutant: the newest observation need not have reached the ledger
FinalizableUndelivered(u) ==
    state[u] = "unknown" /\ outbox[LatestOf(u)].kind \in Settled /\ CanReclaim(u)

\* the newest observation settles the operation, is acknowledged and is the ledger's newest
Finalizable(u) ==
    LET i == LatestOf(u) own == Own(u, Len(ledger)) IN
    /\ state[u] = "unknown" /\ outbox[i].kind \in Settled
    /\ i \in receipts /\ own # {} /\ ledger[Max(own)] = i /\ CanReclaim(u)

\* _finalize: the company is released and nothing is outstanding
Finalize(c) ==
    LET u == call[c].unit IN
    /\ call[c].at \in {"finalizing", "reconciling"} /\ Finalizable(u)
    /\ ownership' = [generation |-> IF ownership.state = "held" THEN ownership.generation
                                    ELSE ownership.generation + 1,
                     state |-> "free", owner |-> NoUnit]
    /\ generation' = [generation EXCEPT ![u] = ownership'.generation]
    /\ outstanding' = NoUnit
    /\ state' = [state EXCEPT ![u] = outbox[LatestOf(u)].kind]
    /\ Return(c)
    /\ UNCHANGED <<registered, progress, captures, submissionVars, faults, revision, outbox,
                   receipts, ledger, crmVars>>

ReconcileIntent(c, u) ==
    /\ state[u] = "unknown"
    /\ BeginFlush(c, u, "reconciling")
    /\ UNCHANGED <<storeVars, submissionVars, faults, writerVars>>

Unsettled(u) == state[u] = "unknown" /\ outbox[LatestOf(u)].kind \notin Settled

\* an unknown operation is observed again, in a transaction of its own
StillUnknown(c) ==
    /\ call[c].at = "reconciling" /\ Unsettled(call[c].unit)
    /\ Goto(c, "observing")
    /\ UNCHANGED <<storeVars, submissionVars, faults, writerVars>>

\* under a reservation that is kept
ObserveAgain(c) ==
    LET u == call[c].unit IN
    /\ call[c].at = "observing" /\ CanReclaim(u) /\ Room
    /\ UNCHANGED crmVars
    /\ Reclaim(u) /\ RecordObservation(u)
    /\ state' = [state EXCEPT ![u] = "unknown"]
    /\ FlushThen(c, "finalizing")
    /\ UNCHANGED <<registered, progress, captures, submissionVars, faults, revision,
                   outstanding, receipts, ledger>>

\* what is not settled stays unknown and keeps the company
EndCall(c) ==
    LET u == call[c].unit IN
    /\ \/ call[c].at = "finalizing" /\ ~Finalizable(u)
       \/ call[c].at = "reconciling" /\ ~Finalizable(u) /\ ~Unsettled(u)
       \/ call[c].at = "observing" /\ ~CanReclaim(u)
    /\ Return(c)
    /\ UNCHANGED <<storeVars, submissionVars, faults, writerVars>>

--------------------------------------------------------------------------------
(* fake_crm.py: a request settles later; somebody else edits the properties    *)

Settle(u) ==
    /\ request[u] = "pending"
    /\ \E effect \in Settled :
          /\ request' = [request EXCEPT ![u] = effect]
          /\ value' = IF effect = "applied" THEN u ELSE value
    /\ UNCHANGED <<captureVars, intentVars, outbox, receipts, ledger, sends>>

SetProperties ==
    /\ value # NoUnit /\ Fault
    /\ value' = NoUnit
    /\ UNCHANGED <<storeVars, submissionVars, call, intentVars, outbox, receipts, ledger,
                   request, sends>>

Next ==
    \/ CaptureNext /\ UNCHANGED writerVars
    \/ \E c \in Caller, u \in Unit :
          \/ PrepareIntent(c, u) \/ SendRefused(c, u) \/ SendIntent(c, u)
          \/ ReconcileIntent(c, u)
    \/ \E c \in Caller :
          \/ ReadPending(c) \/ Deliver(c) \/ DeliveryFails(c) \/ Acknowledge(c) \/ ReadHistory(c)
          \/ InsertIntent(c) \/ PrepareReturns(c) \/ ReserveAndMark(c) \/ ReserveReturns(c)
          \/ SendGranted(c) \/ SendLost(c) \/ NotGranted(c) \/ SendFenced(c)
          \/ Finalize(c) \/ StillUnknown(c) \/ ObserveAgain(c) \/ EndCall(c)
    \/ \E u \in Unit : Settle(u)
    \/ SetProperties

Spec == Init /\ [][Next]_vars

--------------------------------------------------------------------------------
(* Properties                                                                 *)

\* send_intent sends under a marker that the collector admitted for this very call, and
\* revisions follow the captures.  So an operation is sent at most once, and a decision
\* never overwrites one of a later revision, however late a request is applied, whoever
\* abandons the company and whatever else was captured meanwhile.
CrmNeverGoesBack ==
    [][/\ \A u \in Unit : sends'[u] <= 1
       /\ value' \in Unit /\ value \in Unit => revision[value'] >= revision[value]]_vars

\* DECISIONS.md, D-026: an uncertain send blocks its target "until the outstanding request
\* has an affirmative disposition".  flush_observations delivers the outbox in its order and
\* stops at a refusal, so an observation that the collector will not admit stops every later
\* one, and no operation after it is settled.
DeliveryNeverStuck ==
    Len(ledger) < Len(outbox) => Admitted(outbox[Len(ledger) + 1])

\* What the ledger has is a prefix of the outbox, and whatever callers do side by side, the
\* collector refuses what comes next only of an operation that it has as settled: a caller
\* found it unknown before, and observed it once more after.
RefusedOnlyOnceSettled ==
    /\ ledger = [i \in 1..Len(ledger) |-> i]
    /\ Len(ledger) < Len(outbox) =>
          LET next == outbox[Len(ledger) + 1] IN
          Admitted(next) \/ LatestKind(next.unit, Len(ledger)) \in Settled

\* writer_store.py: an operation that may have been sent is the outstanding one of its
\* company until the ledger has the proof of what became of it; the fake agrees with it.
SettledWithProof ==
    \A u \in Unit :
        /\ state[u] = "unknown" <=> outstanding = u
        /\ state[u] \in Settled => /\ request[u] = state[u]
                                   /\ LatestKind(u, Len(ledger)) = state[u]
        /\ request[u] # "none" => state[u] \in {"unknown"} \cup Settled

--------------------------------------------------------------------------------
(* Of an operation WriteOnce knows its state, its revision and what became of its *)
(* request; the company is the one target.                                        *)

Company == "company"

Status == [u \in Unit |->
    CASE state[u] \in {"prepared", "refused"} -> "ready"
      [] state[u] = "superseded" -> "withdrawn"
      [] state[u] = "unknown" -> "outstanding"
      [] OTHER -> state[u]]

Value == [t \in {Company} |-> value]

W == INSTANCE WriteOnce WITH
        Op <- Unit, Target <- {Company}, target <- [u \in Unit |-> Company],
        Rank <- Nat \ {0}, NoOp <- NoUnit,
        status <- Status, rank <- revision, value <- Value

\* DECISIONS.md, D-026, of this adapter: only definitely unsent intents are superseded, and an
\* unknown send blocks the company until the outstanding request has a disposition.  Whatever
\* callers do side by side, the operations go through the steps of WriteOnce and no others.
ImplementsWriteOnce == W!Spec
=============================================================================
