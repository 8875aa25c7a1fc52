------------------------------- MODULE CrmWriter -------------------------------
(***************************************************************************)
(* The durable single-attempt CRM writer (adapters/crm/writer.py over      *)
(* adapters/crm/writer_store.py) together with the three things it races   *)
(* with: the poll runner that captures new originals, the domain ledger    *)
(* that admits its observations one by one, and the provider that may      *)
(* apply a request long after the client stopped waiting for it.           *)
(*                                                                         *)
(* One write operation exists per original decision (the decision id is    *)
(* UNIQUE in crm_write_intents), and one decision exists per frozen        *)
(* capture of a target, so an operation is the pair <<target, capture      *)
(* sequence>>.  Timestamps are left out: the clock is assumed not to run   *)
(* backwards.                                                              *)
(*                                                                         *)
(* One call runs at a time (runtime._execution); it advances one durable   *)
(* transaction, one collector call or one provider exchange per step.      *)
(* Fail is a crash of the process and also every refusal the code raises:  *)
(* both drop the call and keep every committed row.                        *)
(***************************************************************************)
EXTENDS Naturals, Sequences, FiniteSets, FiniteSetsExt

CONSTANTS
    Target,      \* allowlisted CRM records
    NoOp,        \* no operation: a free target, a record nobody wrote
    Poller,      \* the capture unit of the poll runner, as a target owner
    MaxCapture,  \* bound: captures frozen per target
    MaxPolicy,   \* bound: policy generations recorded
    MaxEdit,     \* bound: edits of a record by somebody else
    MaxDocs,     \* bound: observations queued per operation
    MaxClaim     \* bound: ownership generations the poll runner may start

Op == Target \X (1..MaxCapture)

ASSUME ConstantsAssumption ==
    /\ IsFiniteSet(Target)
    /\ MaxCapture \in Nat /\ MaxPolicy \in Nat
    /\ MaxEdit \in Nat /\ MaxDocs \in Nat /\ MaxClaim \in Nat
    /\ NoOp \notin Op /\ Poller \notin Op /\ NoOp # Poller

TERMINAL == {"refused", "refused_no_effect", "observed_applied_at_t"}
State == TERMINAL \cup {"prepared", "unknown", "awaiting_observation"}
Phase == {"prepared", "send_started", "response", "output_observed", "refused"}
Doc == [phase : Phase, state : State]
Prepared == [phase |-> "prepared", state |-> "prepared"]
Marker == [phase |-> "send_started", state |-> "unknown"]
RefusedDoc == [phase |-> "refused", state |-> "refused"]

VARIABLES
    \* operational store: immutable facts, ownership and the progress selector
    policy,      \* recorded policies; the index is the generation
    intent,      \* op -> frozen revision and policy generation (revision 0: none)
    box,         \* op -> crm_write_outbox documents in sequence order
    acked,       \* op -> number of collector receipts stored
    attempt,     \* op -> ownership generation of the send marker, 0 for none
    terminal,    \* op -> recorded terminal state, or "none"
    refusal,     \* ops refused locally because the collector refused them
    progress,    \* op -> crm_write_progress row
    owner,       \* target -> crm_target_ownership row
    \* operational store and domain ledger: the capture pipeline
    seq,         \* target -> last frozen capture sequence
    stage,       \* target -> how far the poll runner took its current claim
    pre,         \* op -> record version its capture read (the If-Match value)
    domCapture,  \* target -> last capture sequence in the domain ledger
    decided,     \* ops whose original decision is in the domain ledger
    dom,         \* op -> observations accepted into the domain ledger
    \* provider and network
    remote,      \* target -> last applied op and record version
    wire,        \* requests sent and not yet processed by the provider
    reply,       \* op -> complete provider answer, or "none"
    \* the running call and the history the properties speak of
    call,        \* the call that holds runtime._execution
    sent,        \* op -> number of times its request was put on the wire
    applied      \* ops the provider ever applied

storeVars == <<policy, intent, box, acked, attempt, terminal, refusal, progress, owner>>
captureVars == <<seq, stage, pre, domCapture, decided>>
providerVars == <<remote, wire, reply, sent, applied>>
vars == <<storeVars, captureVars, dom, providerVars, call>>

TargetOf(o) == o[1]
SeqOf(o) == o[2]

NoIntent == [revision |-> 0, generation |-> 0]
NoGot == [op |-> NoOp, status |-> "none"]
Idle == [kind |-> "idle", op |-> NoOp, at |-> "idle", got |-> NoGot,
         fresh |-> FALSE, victim |-> NoOp]
NoProgress == [state |-> "none", attempted |-> FALSE, generation |-> 0, accepted |-> 0]

Intended == {o \in Op : intent[o] # NoIntent}
Held(t) == owner[t].state = "held"

--------------------------------------------------------------------------------
(* What the immutable facts say about an operation: WriterStore._audit's      *)
(* "expected" row, which sync copies into crm_write_progress.                 *)

\* state of the last of the n acknowledged documents that is not terminal
OpenState(docs, n, attempted) ==
    LET open == {i \in 1..n : docs[i].state \notin TERMINAL}
        state == IF open = {} THEN "prepared" ELSE docs[Max(open)].state
    IN  IF attempted /\ state = "prepared" THEN "unknown" ELSE state

ProgressOf(docs, n, generation, ended, refused) ==
    [state      |-> IF ended # "none" THEN ended
                    ELSE IF refused THEN "refused"
                    ELSE OpenState(docs, n, generation # 0),
     attempted  |-> generation # 0,
     generation |-> generation,
     accepted   |-> n]

Expected(o) == ProgressOf(box[o], acked[o], attempt[o], terminal[o], o \in refusal)

Sync(o) == progress' = [progress EXCEPT ![o] = Expected(o)']

HasTerminalDoc(o) == \E i \in 1..Len(box[o]) : box[o][i].state \in TERMINAL

\* operations prepared and neither finished nor refused
Live(t) == {o \in Intended : /\ TargetOf(o) = t
                             /\ terminal[o] = "none"
                             /\ o \notin refusal}

Pending(o) == /\ o \in Intended
              /\ o \notin refusal
              /\ acked[o] < Len(box[o])
Drained == \A o \in Op : ~Pending(o)

Generation == Len(policy)
PolicyAllows(o) ==
    /\ Generation > 0
    /\ policy[Generation].enabled
    /\ Generation = intent[o].generation
    /\ TargetOf(o) \in policy[Generation].targets

\* mutant: freshness is not asked for
AlwaysNewest(o) == TRUE

\* writer.py:_fresh apart from the ownership test
Newest(o) == /\ seq[TargetOf(o)] = SeqOf(o)
             /\ domCapture[TargetOf(o)] = SeqOf(o)

--------------------------------------------------------------------------------
(* Domain admission: collector/crm_operations.py:_step.                       *)

\* the operations of o's target that the ledger knows
DomainPeers(o) == {p \in Op : TargetOf(p) = TargetOf(o) /\ dom[p] # <<>>}
LastState(s) == s[Len(s)].state

LedgerRevision(t) ==
    Max({intent[p].revision : p \in {q \in Op : TargetOf(q) = t /\ dom[q] # <<>>}} \cup {0})

\* crm_operations.py:_latest: newest capture and newest decision in the ledger
Latest(o) == /\ domCapture[TargetOf(o)] = SeqOf(o)
             /\ \A p \in decided : TargetOf(p) = TargetOf(o) => SeqOf(p) <= SeqOf(o)

StepAllowed(o, d) ==
    /\ o \in decided
    /\ \/ /\ dom[o] = <<>>
          /\ d = Prepared
          /\ \A p \in DomainPeers(o) : LastState(dom[p]) \in TERMINAL
          /\ intent[o].revision = LedgerRevision(TargetOf(o)) + 1
          /\ Latest(o)
       \/ /\ dom[o] # <<>>
          /\ LET last == dom[o][Len(dom[o])]
                 complete == \E i \in 1..Len(dom[o]) :
                                dom[o][i] = [phase |-> "response",
                                             state |-> "awaiting_observation"]
             IN  /\ last.state \notin TERMINAL
                 /\ \/ d = Marker /\ last.phase = "prepared" /\ Latest(o)
                    \/ d = RefusedDoc /\ last.phase = "prepared"
                    \/ /\ d.phase = "response" /\ last.phase = "send_started"
                       /\ d.state \in {"unknown", "awaiting_observation", "refused_no_effect"}
                    \/ /\ d.phase = "output_observed"
                       /\ last.state \in {"unknown", "awaiting_observation"}
                       /\ \/ d.state = last.state
                          \/ d.state = "observed_applied_at_t" /\ complete

--------------------------------------------------------------------------------
Init ==
    /\ policy = <<>>
    /\ intent = [o \in Op |-> NoIntent]
    /\ box = [o \in Op |-> <<>>]
    /\ acked = [o \in Op |-> 0]
    /\ attempt = [o \in Op |-> 0]
    /\ terminal = [o \in Op |-> "none"]
    /\ refusal = {}
    /\ progress = [o \in Op |-> NoProgress]
    /\ owner = [t \in Target |-> [unit |-> NoOp, generation |-> 0, state |-> "none"]]
    /\ seq = [t \in Target |-> 0]
    /\ stage = [t \in Target |-> "idle"]
    /\ pre = [o \in Op |-> 0]
    /\ domCapture = [t \in Target |-> 0]
    /\ decided = {}
    /\ dom = [o \in Op |-> <<>>]
    /\ remote = [t \in Target |-> [op |-> NoOp, version |-> 0]]
    /\ wire = {}
    /\ reply = [o \in Op |-> "none"]
    /\ call = Idle
    /\ sent = [o \in Op |-> 0]
    /\ applied = {}

--------------------------------------------------------------------------------
(* Ownership of a target (store.py:acquire, assert_owner, _settle).           *)

\* mutant: a held target may be taken over
AcquireAnyway(t, unit) ==
    owner' = [owner EXCEPT ![t] = [unit |-> unit,
                                   generation |-> owner[t].generation + 1,
                                   state |-> "held"]]

Acquire(t, unit) ==
    /\ ~Held(t)
    /\ owner' = [owner EXCEPT ![t] = [unit |-> unit,
                                      generation |-> owner[t].generation + 1,
                                      state |-> "held"]]
Release(t) == owner' = [owner EXCEPT ![t].state = "released"]

(* The poll runner.  It holds runtime._execution too, but any of its steps     *)
(* may be its last before it reports the claim blocked and lets go, so each    *)
(* step is an action of its own, enabled while no writer call runs.            *)

CaptureClaim(t) ==
    /\ call = Idle /\ stage[t] = "idle"
    /\ seq[t] < MaxCapture /\ owner[t].generation < MaxClaim
    /\ Acquire(t, Poller)
    /\ stage' = [stage EXCEPT ![t] = "claimed"]
    /\ UNCHANGED <<policy, intent, box, acked, attempt, terminal, refusal, progress>>
    /\ UNCHANGED <<seq, pre, domCapture, decided, dom, providerVars, call>>

\* read_selected; read again when the run stopped before the capture was frozen
CaptureRead(t) ==
    /\ call = Idle /\ stage[t] \in {"claimed", "read"}
    /\ stage' = [stage EXCEPT ![t] = "read"]
    /\ pre' = [pre EXCEPT ![<<t, seq[t] + 1>>] = remote[t].version]
    /\ UNCHANGED <<storeVars, seq, domCapture, decided, dom, providerVars, call>>

CaptureFreeze(t) ==
    /\ call = Idle /\ stage[t] = "read"
    /\ seq' = [seq EXCEPT ![t] = @ + 1]
    /\ stage' = [stage EXCEPT ![t] = "frozen"]
    /\ UNCHANGED <<storeVars, pre, domCapture, decided, dom, providerVars, call>>

\* the evidence stage of the submission: the capture enters the ledger first
CaptureAdmit(t) ==
    /\ call = Idle /\ stage[t] = "frozen"
    /\ domCapture' = [domCapture EXCEPT ![t] = seq[t]]
    /\ stage' = [stage EXCEPT ![t] = "admitted"]
    /\ UNCHANGED <<storeVars, seq, pre, decided, dom, providerVars, call>>

\* the decision stage; it brings the capture along when all evidence was reused
CaptureDecide(t) ==
    /\ call = Idle /\ stage[t] \in {"frozen", "admitted"}
    /\ domCapture' = [domCapture EXCEPT ![t] = seq[t]]
    /\ decided' = decided \cup {<<t, seq[t]>>}
    /\ stage' = [stage EXCEPT ![t] = "decided"]
    /\ UNCHANGED <<storeVars, seq, pre, dom, providerVars, call>>

\* settle: inputs unchanged, capture refused before submission, or complete
CaptureSettle(t) ==
    /\ call = Idle
    /\ \/ stage[t] = "read" /\ seq[t] > 0
       \/ stage[t] \in {"frozen", "decided"}
    /\ Release(t)
    /\ stage' = [stage EXCEPT ![t] = "idle"]
    /\ UNCHANGED <<policy, intent, box, acked, attempt, terminal, refusal, progress>>
    /\ UNCHANGED <<seq, pre, domCapture, decided, dom, providerVars, call>>

--------------------------------------------------------------------------------
(* The provider and the network.                                              *)

\* If-Match holds: all six output fields change in one update, though the answer
\* may still be an error raised on the way back
ProviderApply(o) ==
    /\ o \in wire /\ remote[TargetOf(o)].version = pre[o]
    /\ remote' = [remote EXCEPT ![TargetOf(o)] = [op |-> o, version |-> @.version + 1]]
    /\ wire' = wire \ {o}
    /\ \E answer \in {"success", "other_status"} : reply' = [reply EXCEPT ![o] = answer]
    /\ applied' = applied \cup {o}
    /\ UNCHANGED <<storeVars, captureVars, dom, call, sent>>

\* no effect: the precondition fails (412) or the request is turned down
ProviderRefuse(o) ==
    /\ o \in wire
    /\ \/ /\ remote[TargetOf(o)].version # pre[o]
          /\ reply' = [reply EXCEPT ![o] = "precondition_failed"]
       \/ reply' = [reply EXCEPT ![o] = "other_status"]
    /\ wire' = wire \ {o}
    /\ UNCHANGED <<storeVars, captureVars, dom, call, sent, remote, applied>>

\* somebody else edits the record, its output fields perhaps included
RemoteEdit(t) ==
    /\ remote[t].version < MaxEdit
    /\ \E o \in {remote[t].op, NoOp} :
          remote' = [remote EXCEPT ![t] = [op |-> o, version |-> @.version + 1]]
    /\ UNCHANGED <<storeVars, captureVars, dom, call, sent, wire, reply, applied>>

--------------------------------------------------------------------------------
(* Calls: writer.py:_entry, set_write_policy, prepare_write, send_write_once,  *)
(* observe_write.                                                             *)

SetWritePolicy(enabled, targets) ==
    /\ call = Idle
    /\ Generation < MaxPolicy
    /\ policy' = Append(policy, [enabled |-> enabled, targets |-> targets])
    /\ UNCHANGED <<intent, box, acked, attempt, terminal, refusal, progress, owner>>
    /\ UNCHANGED <<captureVars, dom, providerVars, call>>

Begin(kind, o) ==
    /\ call = Idle
    /\ call' = [Idle EXCEPT !.kind = kind, !.op = o, !.at = kind]
    /\ UNCHANGED <<storeVars, captureVars, dom, providerVars>>

BeginPrepare(o) == /\ Generation > 0 /\ policy[Generation].enabled
                   /\ Begin("prepare", o)
BeginSend(o) == o \in Intended /\ Begin("send", o)
BeginObserve(o) == o \in Intended /\ Begin("observe", o)

Return == call' = Idle
Goto(label) == call' = [call EXCEPT !.at = label]

\* a crash, a refusal or a lost lock race: nothing committed is undone
Fail == /\ call # Idle
        /\ Return
        /\ UNCHANGED <<storeVars, captureVars, dom, providerVars>>

--------------------------------------------------------------------------------
(* writer.py:_flush: every unacknowledged document in order, ingested into    *)
(* the domain ledger and then acknowledged in the operational store.          *)

\* mutant: an observation the ledger knows already is an error
FlushIngestOnce(o) ==
    /\ call # Idle /\ call.at # "wait" /\ call.got = NoGot
    /\ Pending(o) /\ Len(dom[o]) = acked[o] /\ StepAllowed(o, box[o][acked[o] + 1])
    /\ \A p \in Op : Pending(p) => intent[o].revision <= intent[p].revision
    /\ dom' = [dom EXCEPT ![o] = Append(@, box[o][acked[o] + 1])]
    /\ call' = [call EXCEPT !.got = [op |-> o, status |-> "created"]]
    /\ UNCHANGED <<storeVars, captureVars, providerVars>>

FlushIngest(o) ==
    /\ call # Idle /\ call.at # "wait" /\ call.got = NoGot
    /\ Pending(o)
    /\ \A p \in Op : Pending(p) => intent[o].revision <= intent[p].revision
    /\ UNCHANGED <<policy, intent, box, acked, attempt, terminal, owner>>
    /\ LET d == box[o][acked[o] + 1]
           known == Len(dom[o]) > acked[o]
       IN  \/ /\ known
              /\ call' = [call EXCEPT !.got = [op |-> o, status |-> "duplicate"]]
              /\ UNCHANGED <<dom, refusal, progress>>
           \/ /\ ~known /\ StepAllowed(o, d)
              /\ dom' = [dom EXCEPT ![o] = Append(@, d)]
              /\ call' = [call EXCEPT !.got = [op |-> o, status |-> "created"]]
              /\ UNCHANGED <<refusal, progress>>
           \/ /\ ~known /\ ~StepAllowed(o, d)
              /\ d.phase = "prepared" /\ attempt[o] = 0
              /\ refusal' = refusal \cup {o}
              /\ Sync(o)
              /\ UNCHANGED <<dom, call>>
    /\ UNCHANGED <<captureVars, providerVars>>

\* mutant: the receipt is stored without sync
FlushAcknowledgeOnly(o) ==
    /\ call # Idle /\ call.got.op = o
    /\ acked' = [acked EXCEPT ![o] = @ + 1]
    /\ call' = [call EXCEPT !.got = NoGot]
    /\ UNCHANGED <<policy, intent, box, attempt, terminal, refusal, progress, owner>>
    /\ UNCHANGED <<captureVars, dom, providerVars>>

FlushAcknowledge(o) ==
    /\ call # Idle /\ call.got.op = o
    /\ acked' = [acked EXCEPT ![o] = @ + 1]
    /\ call' = [call EXCEPT !.got = NoGot,
                   !.fresh = \/ @
                             \/ /\ call.at = "marked" /\ o = call.op
                                /\ call.got.status = "created"
                                /\ box[o][acked[o] + 1].phase = "send_started"]
    /\ UNCHANGED <<policy, intent, box, attempt, terminal, refusal, owner>>
    /\ Sync(o)
    /\ UNCHANGED <<captureVars, dom, providerVars>>

\* the flush of the current call is over
Flushed(kind, label) == /\ call.kind \in kind /\ call.at = label
                        /\ call.got = NoGot /\ Drained

--------------------------------------------------------------------------------
(* writer.py:_finish: the terminal fact, the released target and the          *)
(* progress row in one transaction.                                           *)

Finishable(o) == /\ terminal[o] = "none" /\ o \in Intended
                 /\ box[o] # <<>> /\ LastState(box[o]) \in TERMINAL
                 /\ acked[o] = Len(box[o])
OwnedBy(o) == owner[TargetOf(o)] = [unit |-> o, generation |-> attempt[o], state |-> "held"]

Finish(o) ==
    \/ /\ Finishable(o)
       /\ attempt[o] # 0 => OwnedBy(o)
       /\ terminal' = [terminal EXCEPT ![o] = LastState(box[o])]
       /\ IF attempt[o] # 0 THEN Release(TargetOf(o)) ELSE UNCHANGED owner
       /\ UNCHANGED <<policy, intent, box, acked, attempt, refusal>>
       /\ Sync(o)
    \/ /\ ~Finishable(o)
       /\ UNCHANGED storeVars

\* writer.py:_refuse up to its flush; Finish follows at the given label
Refuse(o, label) ==
    /\ attempt[o] = 0
    /\ call' = [call EXCEPT !.at = label, !.victim = o]
    /\ box' = IF HasTerminalDoc(o) THEN box
              ELSE [box EXCEPT ![o] = Append(@, RefusedDoc)]
    /\ UNCHANGED <<policy, intent, acked, attempt, terminal, refusal, owner>>
    /\ Sync(o)
    /\ UNCHANGED <<captureVars, dom, providerVars>>

\* _finish after a flush, as the last thing the call does
FinishCall(o) ==
    /\ Flushed({"send", "observe"}, "finish") /\ call.op = o
    /\ Finish(o)
    /\ Return
    /\ UNCHANGED <<captureVars, dom, providerVars>>

--------------------------------------------------------------------------------
(* prepare_write                                                              *)

PrepareSweep(p) ==
    /\ Flushed({"prepare"}, "sweep") /\ call.victim = p
    /\ Finish(p)
    /\ Goto("prepare")
    /\ UNCHANGED <<captureVars, dom, providerVars>>

\* an older prepared operation of the target gives way to the newer original
PrepareSupersede(p) ==
    /\ Flushed({"prepare"}, "prepare")
    /\ LET o == call.op
       IN  /\ o \notin Intended /\ o \in decided
           /\ TargetOf(o) \in policy[Generation].targets
           /\ p \in Live(TargetOf(o))
           /\ SeqOf(p) < SeqOf(o)
    /\ Refuse(p, "sweep")

PrepareIntent(o) ==
    /\ Flushed({"prepare"}, "prepare") /\ call.op = o
    /\ LET t == TargetOf(o)
       IN  /\ o \notin Intended /\ o \in decided
           /\ t \in policy[Generation].targets
           /\ Live(t) = {}
           /\ ~Held(t) /\ Newest(o)
           /\ intent' = [intent EXCEPT ![o] = [revision |-> LedgerRevision(t) + 1,
                                               generation |-> Generation]]
           /\ box' = [box EXCEPT ![o] = <<Prepared>>]
           /\ UNCHANGED <<policy, acked, attempt, terminal, refusal, owner>>
           /\ Sync(o)
    /\ Goto("admitted")
    /\ UNCHANGED <<captureVars, dom, providerVars>>

\* the intent exists already, or was admitted (or locally refused) just now
PrepareReturn ==
    /\ \/ Flushed({"prepare"}, "admitted")
       \/ Flushed({"prepare"}, "prepare") /\ call.op \in Intended
    /\ Return
    /\ UNCHANGED <<storeVars, captureVars, dom, providerVars>>

--------------------------------------------------------------------------------
(* send_write_once                                                            *)

Untried(o) == /\ attempt[o] = 0 /\ terminal[o] = "none"
              /\ o \notin refusal /\ ~Finishable(o)

\* mutant: an attempt without an answer is taken up again
SendSettledResends(o) ==
    /\ Flushed({"send"}, "send") /\ call.op = o
    /\ ~Untried(o)
    /\ IF attempt[o] # 0 /\ Len(box[o]) = 2
       THEN call' = [call EXCEPT !.at = "marked", !.fresh = TRUE]
       ELSE Return
    /\ UNCHANGED <<storeVars, captureVars, dom, providerVars>>

SendSettled(o) ==
    /\ Flushed({"send"}, "send") /\ call.op = o
    /\ ~Untried(o)
    /\ Finish(o)
    /\ Return
    /\ UNCHANGED <<captureVars, dom, providerVars>>

\* policy disabled or changed, target dropped, newer capture, no authorization
SendRefuse(o) ==
    /\ Flushed({"send"}, "send") /\ call.op = o
    /\ Untried(o)
    /\ ~PolicyAllows(o) \/ ~Held(TargetOf(o))
    /\ Refuse(o, "finish")

\* fence, marker and attempt in one transaction
SendMark(o) ==
    /\ Flushed({"send"}, "send") /\ call.op = o
    /\ Untried(o)
    /\ PolicyAllows(o) /\ Newest(o)
    /\ Acquire(TargetOf(o), o)
    /\ box' = [box EXCEPT ![o] = Append(@, Marker)]
    /\ attempt' = [attempt EXCEPT ![o] = owner[TargetOf(o)].generation + 1]
    /\ UNCHANGED <<policy, intent, acked, terminal, refusal>>
    /\ Sync(o)
    /\ Goto("marked")
    /\ UNCHANGED <<captureVars, dom, providerVars>>

\* The marker was created by this very flush (the code returns otherwise, which one call
\* at a time cannot meet); the admission's guard runs immediately before the request.
SendTransmit(o) ==
    /\ Flushed({"send"}, "marked") /\ call.op = o
    /\ call.fresh
    /\ PolicyAllows(o) /\ Newest(o) /\ OwnedBy(o)
    /\ wire' = wire \cup {o}
    /\ sent' = [sent EXCEPT ![o] = @ + 1]
    /\ call' = [call EXCEPT !.at = "wait", !.fresh = FALSE]
    /\ UNCHANGED <<storeVars, captureVars, dom, remote, reply, applied>>

\* mutant: no complete answer counts as no effect
TimeoutIsRefusal(answer) ==
    CASE answer = "success" -> "awaiting_observation"
      [] answer \in {"precondition_failed", "incomplete"} -> "refused_no_effect"
      [] OTHER -> "unknown"

\* mutant: every complete answer but a success counts as no effect
ErrorIsRefusal(answer) ==
    CASE answer = "success" -> "awaiting_observation"
      [] answer = "incomplete" -> "unknown"
      [] OTHER -> "refused_no_effect"

ResponseState(answer) ==
    CASE answer = "success" -> "awaiting_observation"
      [] answer = "precondition_failed" -> "refused_no_effect"
      [] OTHER -> "unknown"

\* a complete answer, or a timeout, a broken connection, a truncated body
SendResponse(o) ==
    /\ call.kind = "send" /\ call.at = "wait" /\ call.op = o
    /\ \E answer \in {reply[o], "incomplete"} \ {"none"} :
          /\ box' = [box EXCEPT ![o] = Append(@, [phase |-> "response",
                                                  state |-> ResponseState(answer)])]
          /\ Goto(IF ResponseState(answer) = "awaiting_observation"
                  THEN "observe" ELSE "finish")
    /\ UNCHANGED <<policy, intent, acked, attempt, terminal, refusal, owner>>
    /\ Sync(o)
    /\ UNCHANGED <<captureVars, dom, providerVars>>

--------------------------------------------------------------------------------
(* _observe, reached from observe_write and from a successful send            *)

Fenced(o) == attempt[o] # 0 /\ terminal[o] = "none" /\ ~Finishable(o)

\* mutant: observing reports the state and finishes nothing
ObserveReports(o) ==
    /\ Flushed({"send", "observe"}, "observe") /\ call.op = o
    /\ ~Fenced(o)
    /\ Return
    /\ UNCHANGED <<storeVars, captureVars, dom, providerVars>>

ObserveSettled(o) ==
    /\ Flushed({"send", "observe"}, "observe") /\ call.op = o
    /\ ~Fenced(o)
    /\ Finish(o)
    /\ Return
    /\ UNCHANGED <<captureVars, dom, providerVars>>

ObserveOutputs(o) ==
    /\ Flushed({"send", "observe"}, "observe") /\ call.op = o
    /\ LET complete == \E i \in 1..Len(box[o]) :
                          /\ box[o][i].phase = "response"
                          /\ box[o][i].state = "awaiting_observation"
           matches == remote[TargetOf(o)].op = o
       IN  /\ Fenced(o)
           /\ Len(box[o]) < MaxDocs
           /\ box' = [box EXCEPT ![o] = Append(@,
                         [phase |-> "output_observed",
                          state |-> IF complete /\ matches
                                    THEN "observed_applied_at_t"
                                    ELSE Expected(o).state])]
           /\ UNCHANGED <<policy, intent, acked, attempt, terminal, refusal, owner>>
           /\ Sync(o)
    /\ Goto("finish")
    /\ UNCHANGED <<captureVars, dom, providerVars>>

--------------------------------------------------------------------------------
CaptureNext(t) == \/ CaptureClaim(t) \/ CaptureRead(t) \/ CaptureFreeze(t)
                  \/ CaptureAdmit(t) \/ CaptureDecide(t) \/ CaptureSettle(t)

ProviderNext == \/ \E o \in Op : ProviderApply(o) \/ ProviderRefuse(o)
                \/ \E t \in Target : RemoteEdit(t)

BeginNext == \E o \in Op : BeginPrepare(o) \/ BeginSend(o) \/ BeginObserve(o)

\* what a running call does next, whatever it is
CallStep == \/ \E o \in Op : \/ FlushIngest(o) \/ FlushAcknowledge(o) \/ FinishCall(o)
                              \/ PrepareSupersede(o) \/ PrepareSweep(o) \/ PrepareIntent(o)
                              \/ SendSettled(o) \/ SendRefuse(o) \/ SendMark(o)
                              \/ SendTransmit(o) \/ SendResponse(o)
                              \/ ObserveSettled(o) \/ ObserveOutputs(o)
            \/ PrepareReturn

Next == \/ \E t \in Target : CaptureNext(t)
        \/ ProviderNext
        \/ \E e \in BOOLEAN, ts \in SUBSET Target : SetWritePolicy(e, ts)
        \/ BeginNext
        \/ CallStep
        \/ Fail

Spec == Init /\ [][Next]_vars

\* A running call takes its next step or fails; somebody keeps asking for the state
\* of every operation, and no crash or outage hits the same step of that call every
\* time.
Fairness == /\ WF_vars(CallStep \/ Fail)
            /\ \A o \in Op : /\ SF_vars(BeginObserve(o))
                             /\ SF_vars(FlushIngest(o))
                             /\ SF_vars(FlushAcknowledge(o))
                             /\ SF_vars(ObserveSettled(o))
FairSpec == Spec /\ Fairness

--------------------------------------------------------------------------------
(* Properties                                                                 *)

ProgressRow == [state : State \cup {"none"}, attempted : BOOLEAN,
                generation : Nat, accepted : Nat]
OwnerRow == [unit : Op \cup {NoOp, Poller}, generation : Nat,
             state : {"none", "held", "released"}]
CallLabel == {"idle", "prepare", "sweep", "admitted", "send", "marked", "wait",
              "observe", "finish"}
CallRecord == [kind : {"idle", "prepare", "send", "observe"}, op : Op \cup {NoOp},
               at : CallLabel,
               got : [op : Op \cup {NoOp}, status : {"none", "created", "duplicate"}],
               fresh : BOOLEAN, victim : Op \cup {NoOp}]

\* The tables, the ledger, the provider and the running call keep their shape.
TypeOK ==
    /\ policy \in Seq([enabled : BOOLEAN, targets : SUBSET Target])
    /\ intent \in [Op -> [revision : Nat, generation : Nat]]
    /\ box \in [Op -> Seq(Doc)]
    /\ acked \in [Op -> Nat]
    /\ attempt \in [Op -> Nat]
    /\ terminal \in [Op -> TERMINAL \cup {"none"}]
    /\ refusal \in SUBSET Op
    /\ progress \in [Op -> ProgressRow]
    /\ owner \in [Target -> OwnerRow]
    /\ seq \in [Target -> 0..MaxCapture]
    /\ stage \in [Target -> {"idle", "claimed", "read", "frozen", "admitted", "decided"}]
    /\ pre \in [Op -> Nat]
    /\ domCapture \in [Target -> 0..MaxCapture]
    /\ decided \in SUBSET Op
    /\ dom \in [Op -> Seq(Doc)]
    /\ remote \in [Target -> [op : Op \cup {NoOp}, version : Nat]]
    /\ wire \in SUBSET Op
    /\ reply \in [Op -> {"none", "success", "precondition_failed", "other_status"}]
    /\ call \in CallRecord
    /\ sent \in [Op -> Nat]
    /\ applied \in SUBSET Op

\* WriterStore._audit in full: what every entry of every call requires of the
\* committed rows of both databases before it does anything.  A reachable state,
\* a crash between any two transactions included, in which one of these tests
\* fails would refuse every later call for good.
AuditIntent(o) ==
    /\ intent[o].generation \in 1..Generation
    /\ policy[intent[o].generation].enabled
    /\ TargetOf(o) \in policy[intent[o].generation].targets
    /\ o \in decided
AuditOutbox(o) ==
    /\ box[o] # <<>> /\ box[o][1] = Prepared
    /\ Len(dom[o]) <= Len(box[o])
    /\ \A i \in 1..Len(dom[o]) : dom[o][i] = box[o][i]
    /\ acked[o] <= Len(dom[o])
AuditAttempt(o) ==
    /\ \A i \in 1..Len(box[o]) : box[o][i].phase = "send_started" => i = 2
    /\ attempt[o] # 0 <=> \E i \in 1..Len(box[o]) : box[o][i].phase = "send_started"
    /\ attempt[o] = 0 => \A i \in 1..Len(box[o]) : box[o][i].phase \in {"prepared", "refused"}
AuditRefusal(o) ==
    o \in refusal => /\ attempt[o] = 0 /\ dom[o] = <<>>
                     /\ acked[o] = 0 /\ terminal[o] = "none"
AuditTerminal(o) ==
    terminal[o] # "none" =>
        /\ acked[o] = Len(box[o])
        /\ terminal[o] = LastState(box[o])
        /\ attempt[o] # 0 => /\ owner[TargetOf(o)].generation >= attempt[o]
                             /\ ~OwnedBy(o)
AuditFence(o) == attempt[o] # 0 /\ terminal[o] = "none" => OwnedBy(o)
AuditProgress(o) == progress[o] = Expected(o)

AuditPasses ==
    \A o \in Op :
        IF o \in Intended
        THEN /\ AuditIntent(o) /\ AuditOutbox(o) /\ AuditAttempt(o)
             /\ AuditRefusal(o) /\ AuditTerminal(o) /\ AuditFence(o)
             /\ AuditProgress(o)
        ELSE /\ box[o] = <<>> /\ dom[o] = <<>> /\ attempt[o] = 0
             /\ progress[o] = NoProgress

\* "Single-attempt": across crashes, restarts and repeated send_write_once calls
\* the PATCH of one operation is put on the wire at most once.
SentAtMostOnce == \A o \in Op : sent[o] <= 1

\* From the marker to the terminal fact the fence keeps the target still: no other
\* operation of it is attempted, and no capture newer than the one the request
\* was decided from enters either database behind the request's back.
FenceKeepsTargetStill ==
    \A o \in Op : attempt[o] # 0 /\ terminal[o] = "none" =>
        /\ seq[TargetOf(o)] = SeqOf(o) /\ domCapture[TargetOf(o)] = SeqOf(o)
        /\ \A p \in Op : TargetOf(p) = TargetOf(o) /\ attempt[p] # 0 /\ terminal[p] = "none"
                           => p = o

\* A target is given back only when its request can no longer take effect: nothing
\* of a finished operation is still on its way to the provider.
SettledBeforeRelease ==
    \A o \in Op : o \in wire => attempt[o] # 0 /\ terminal[o] = "none"

\* What the writer reports is what happened at the provider: an operation recorded
\* as observed was applied, one recorded as refused in any way was not and is not
\* on its way.
ReportsTruth ==
    \A o \in Op :
        /\ terminal[o] = "observed_applied_at_t" => o \in applied
        /\ terminal[o] \in {"refused", "refused_no_effect"} \/ o \in refusal
              => o \notin applied /\ o \notin wire

\* A flush never gets stuck for good: the next document it has to deliver is known
\* to the ledger, acceptable to it, or a preparation that may be refused locally.
\* A marker, a response or an observation the ledger refuses would be retried first
\* by every later call, and would stop the outbox of every target.
DeliveryNeverStuck ==
    \A o \in Op : Pending(o) =>
        LET d == box[o][acked[o] + 1]
        IN  \/ Len(dom[o]) > acked[o]
            \/ StepAllowed(o, d)
            \/ d.phase = "prepared" /\ attempt[o] = 0

\* Recovery: whatever was interrupted, every queued observation is delivered in the
\* end or its operation is refused locally, and an operation with a terminal
\* observation is finished, which gives its target back.
OutboxDrains == \A o \in Op : Pending(o) ~> ~Pending(o)
TerminalReleases == \A o \in Op : HasTerminalDoc(o) ~> terminal[o] # "none" \/ o \in refusal
--------------------------------------------------------------------------------
(* Of an operation WriteOnce knows what the store says of it, the capture it was  *)
(* decided from, what became of its request, and whether the record still has its *)
(* values.                                                                        *)

Disposition(s) ==
    CASE s = "observed_applied_at_t" -> "applied"
      [] s = "refused_no_effect" -> "not_applied"
      [] s = "refused" -> "withdrawn"

Status == [o \in Op |->
    IF intent[o] = NoIntent THEN "none"
    ELSE IF terminal[o] # "none" THEN Disposition(terminal[o])
    ELSE IF o \in refusal THEN "withdrawn"
    ELSE IF attempt[o] # 0 THEN "outstanding" ELSE "ready"]

Place == [o \in Op |-> IF intent[o] = NoIntent THEN 0 ELSE SeqOf(o)]

Request == [o \in Op |->
    IF o \in applied THEN "applied"
    ELSE IF o \in wire THEN "pending"
    ELSE IF reply[o] # "none" THEN "not_applied" ELSE "none"]

Value == [t \in Target |-> remote[t].op]

W == INSTANCE WriteOnce WITH
        target <- [o \in Op |-> TargetOf(o)], Rank <- 1..MaxCapture,
        status <- Status, rank <- Place, request <- Request, value <- Value

\* writer.py, a "durable single-attempt Salesforce writer": writes are serialized per target,
\* stale work is refused, an uncertain send blocks its target until it has a disposition.
\* Through every crash, retry, late answer and edit by somebody else, the operations of all
\* targets go through the steps of WriteOnce and no others.
ImplementsWriteOnce == W!Spec
================================================================================
