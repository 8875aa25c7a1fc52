---------------------------- MODULE CrmWriterInv ----------------------------
(***************************************************************************)
(* The inductive invariant behind the theorems of CrmWriterProofs, in      *)
(* parts.                                                                  *)
(***************************************************************************)
EXTENDS CrmWriter

\* a claim is open exactly while its capture may still be frozen
StageInv ==
    \A t \in Target :
        /\ stage[t] \in {"claimed", "read"} => seq[t] < MaxCapture
        /\ stage[t] \in {"frozen", "admitted", "decided"} => seq[t] > 0
        /\ stage[t] # "idle" => Held(t) /\ owner[t].unit = Poller

\* until the marker the outbox is the preparation and at most one refusal; the
\* marker is the second document and comes with the attempt
BoxInv ==
    \A o \in Op :
        /\ o \in Intended <=> box[o] # <<>>
        /\ acked[o] <= Len(box[o])
        /\ attempt[o] = 0 => box[o] \in {<<>>, <<Prepared>>, <<Prepared, RefusedDoc>>}
        /\ \A i \in 1..Len(box[o]) : box[o][i].phase = "send_started" => i = 2

\* what the running call has established about its operation
CallInv ==
    /\ call.got.op \in Op => acked[call.got.op] < Len(box[call.got.op])
    /\ call.kind \in {"send", "observe"} => call.op \in Intended
    /\ call.at \in {"marked", "wait"} => call.op \in Op /\ attempt[call.op] # 0
    /\ call.fresh => call.at = "marked" /\ sent[call.op] = 0 /\ acked[call.op] >= 2

\* a request leaves only after its marker was acknowledged, and leaves once
SentInv ==
    \A o \in Op : /\ sent[o] <= 1
                  /\ sent[o] # 0 => acked[o] >= 2

\* an unfinished attempt owns its target, and both databases still stand at the
\* capture it was decided from
FenceInv ==
    \A o \in Op : attempt[o] # 0 /\ terminal[o] = "none" =>
        /\ OwnedBy(o)
        /\ seq[TargetOf(o)] = SeqOf(o)
        /\ domCapture[TargetOf(o)] = SeqOf(o)

IInv == TypeOK /\ StageInv /\ BoxInv /\ CallInv /\ SentInv /\ FenceInv
--------------------------------------------------------------------------------
(* What the audit, the reports and the delivery rest on, over and above IInv.   *)

\* a response is an answer of the protocol
Answers(d) == /\ d.phase = "response"
              /\ d.state \in {"unknown", "awaiting_observation", "refused_no_effect"}

\* the i-th document observes what the one before it left open
Observes(docs, i) ==
    /\ docs[i].phase = "output_observed"
    /\ docs[i - 1].state \in {"unknown", "awaiting_observation"}
    /\ \/ docs[i].state = docs[i - 1].state
       \/ /\ docs[i].state = "observed_applied_at_t"
          /\ \E j \in 1..(i - 1) : docs[j] = [phase |-> "response",
                                              state |-> "awaiting_observation"]

\* the outbox of an attempt: preparation, marker, at most one response, observations
ProtocolInv ==
    \A o \in Op : attempt[o] # 0 =>
        /\ Len(box[o]) >= 2 /\ box[o][1] = Prepared /\ box[o][2] = Marker
        /\ acked[o] >= 1
        /\ \A i \in 3..Len(box[o]) : \/ i = 3 /\ Answers(box[o][i])
                                     \/ Observes(box[o], i)

\* between the marker and the response the call writes nothing
WaitInv ==
    call.at \in {"marked", "wait"} => Len(box[call.op]) = 2 /\ terminal[call.op] = "none"

\* the ledger holds a beginning of the outbox and everything that has a receipt
DeliveryInv ==
    \A o \in Op :
        /\ acked[o] <= Len(dom[o]) /\ Len(dom[o]) <= Len(box[o])
        /\ \A i \in 1..Len(dom[o]) : dom[o][i] = box[o][i]
        /\ call.got.op = o => acked[o] < Len(dom[o])

\* a finished operation has a receipt for its last document and has given its target
\* back; a local refusal is of an operation that the ledger does not know
EndOf(o) ==
    /\ terminal[o] # "none" => /\ box[o] # <<>> /\ acked[o] = Len(box[o])
                               /\ terminal[o] = LastState(box[o])
    /\ o \in refusal => attempt[o] = 0 /\ dom[o] = <<>> /\ terminal[o] = "none"
    /\ attempt[o] <= owner[TargetOf(o)].generation
    /\ attempt[o] # 0 /\ terminal[o] # "none" => ~ OwnedBy(o)
EndInv == \A o \in Op : EndOf(o)

\* an intent names a policy that allowed it and a decision the ledger has
IntentInv ==
    /\ \A o \in Intended : AuditIntent(o)
    /\ call.kind = "prepare" => Generation > 0 /\ policy[Generation].enabled

\* a decision in the ledger is of a capture in the ledger, and that one was frozen
CaptureInv ==
    /\ \A t \in Target : domCapture[t] <= seq[t]
    /\ \A o \in decided : SeqOf(o) <= domCapture[TargetOf(o)]

\* crm_write_progress agrees with the facts it is computed from
ProgressInv ==
    \A o \in Op : progress[o] = IF o \in Intended THEN Expected(o) ELSE NoProgress

\* a request is on the wire, answered, or was never sent; its effect comes before the answer
WireOf(o) ==
    /\ attempt[o] = 0 => sent[o] = 0
    /\ sent[o] = 0 => o \notin wire /\ reply[o] = "none"
    /\ reply[o] = "none" => o \notin applied
    /\ reply[o] # "none" => o \notin wire
    /\ reply[o] = "success" => o \in applied
    /\ reply[o] = "precondition_failed" => o \notin applied
WireInv == \A o \in Op : WireOf(o)

\* only the provider's answer settles an operation: what its documents say is true
TrueOf(o, d) ==
    /\ d = [phase |-> "response", state |-> "awaiting_observation"] => reply[o] = "success"
    /\ d.state = "refused_no_effect" => reply[o] = "precondition_failed"
    /\ d.state = "observed_applied_at_t" => reply[o] = "success"
TruthInv == \A o \in Op : \A i \in 1..Len(box[o]) : TrueOf(o, box[o][i])

FactInv == /\ ProtocolInv /\ WaitInv /\ DeliveryInv /\ EndInv /\ IntentInv
           /\ CaptureInv /\ ProgressInv /\ WireInv /\ TruthInv

\* An operation is refused by its own store only after its intent was recorded; an intent
\* stays, so what was never prepared was never withdrawn.
RefusalInv == refusal \subseteq Intended
=============================================================================
