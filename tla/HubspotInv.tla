------------------------------ MODULE HubspotInv ------------------------------
(***************************************************************************)
(* The inductive invariant of the HubSpot-style adapter: what holds of the *)
(* store of a company, of its submissions, and of its writer, between any  *)
(* two transactions.                                                       *)
(***************************************************************************)
EXTENDS HubspotWriter

Kind == {"prepared", "refused", "superseded", "send_started", "unknown"} \cup Settled
Observation == [unit : Unit, kind : Kind,
                proof : [quiet : BOOLEAN, rejected : BOOLEAN, full : BOOLEAN]]

Reads == {"reading", "mapped", "refusing"}
Submits == {"resuming", "attempted", "answered"}
Continues == {"reading_history", "reserving", "sending", "finalizing", "reconciling"}
Flushes == {"flush", "flushing", "delivered"}
Writes == Flushes \cup Continues \cup {"preparing", "observing"}

Call == [at : {"idle", "received", "planned"} \cup Reads \cup Submits \cup Writes,
         unit : Unit \cup {NoUnit}, generation : Nat, plan : {"none", "new", "reused"},
         stage : Stage \cup {"none"},
         answer : {"none", "accepted", "rejected", "retryable", "unknown"},
         todo : SUBSET Nat, next : {"none", "returning"} \cup Continues, seen : Nat,
         marker : Nat, granted : BOOLEAN]

StoreType ==
    /\ registered \subseteq Unit
    /\ progress \in [Unit -> {"none", "received", "reserved", "captured", "refused", "abandoned"}]
    /\ captures \in [Unit -> [sequence : Nat, generation : Nat]]
    /\ ownership \in [generation : Nat, state : {"free", "held", "abandoned"},
                      owner : Unit \cup {NoUnit}]
    /\ ownership.state = "held" => ownership.owner \in Unit

SubmissionType ==
    /\ plan \in [Unit -> {"none", "new", "reused"}] /\ accepted \in [Unit -> SUBSET Stage]
    /\ failed \subseteq Unit /\ domain \subseteq Unit \X Stage

CallType ==
    /\ call \in [Caller -> Call]
    /\ \A c \in Caller : call[c].at # "idle" => call[c].unit \in Unit

WriterType ==
    /\ revision \in [Unit -> Nat]
    /\ state \in [Unit -> {"none", "prepared", "refused", "superseded", "unknown"} \cup Settled]
    /\ generation \in [Unit -> Nat] /\ outstanding \in Unit \cup {NoUnit}
    /\ outbox \in Seq(Observation) /\ ledger \in Seq(Nat) /\ receipts \subseteq Nat
    /\ request \in [Unit -> {"none", "pending"} \cup Settled]
    /\ value \in Unit \cup {NoUnit} /\ sends \in [Unit -> Nat]

TypeInv == StoreType /\ SubmissionType /\ CallType /\ WriterType

--------------------------------------------------------------------------------
(* The store of captures.                                                      *)

\* a capture is of a generation that is over, and has a place of its own in the order
CapturedInOrder ==
    /\ \A u \in Unit : Captured(u) =>
          /\ captures[u].sequence \in 1..LastSequence
          /\ captures[u].generation <= ownership.generation
          /\ ownership.state = "held" => captures[u].generation < ownership.generation
    /\ \A u, v \in Unit :
          Captured(u) /\ Captured(v) /\ captures[u].sequence = captures[v].sequence => u = v

CaptureInv == CapturesFollowReads /\ CapturedInOrder

--------------------------------------------------------------------------------
(* The submissions.                                                            *)

\* what the ledger has agrees with the plans
PlansHold ==
    \A u \in Unit :
        /\ plan[u] # "none" => Captured(u)
        /\ plan[u] = "reused" => Evidence[u] \in Minted
        /\ \A s \in accepted[u] : <<u, s>> \in domain
        /\ <<u, "decision">> \in domain =>
              plan[u] = "reused" \/ (plan[u] = "new" /\ <<u, "evidence">> \in domain)

SubmissionInv == PlansHold /\ RejectedOnlyWhenOvertaken

--------------------------------------------------------------------------------
(* The outbox, as a sequence of its own: what each observation was appended to *)

Places(s, u, n) == {i \in 1..n : s[i].unit = u}
KindBy(s, u, n) == IF Places(s, u, n) = {} THEN "none" ELSE s[Max(Places(s, u, n))].kind
RevisionBy(s, revisions, n) == Max({0} \cup {revisions[s[i].unit] : i \in 1..n})

\* an observation follows what is there of its operation, or that is settled already
InTurn(s, k) ==
    \/ Follows(KindBy(s, s[k].unit, k - 1), s[k].kind)
    \/ KindBy(s, s[k].unit, k - 1) \in Settled

\* an operation is bound to the next revision, and only the newest revision is sent, once
Numbered(s, revisions, k) ==
    /\ s[k].kind = "prepared" => revisions[s[k].unit] = RevisionBy(s, revisions, k - 1) + 1
    /\ s[k].kind = "send_started" =>
          /\ revisions[s[k].unit] = RevisionBy(s, revisions, k - 1)
          /\ \A i \in Places(s, s[k].unit, k - 1) : s[i].kind # "send_started"

\* nothing is sent, and nothing is settled, while another operation is unknown
Alone(s, k) ==
    s[k].kind \in {"send_started"} \cup Settled =>
        \A v \in Unit \ {s[k].unit} : KindBy(s, v, k - 1) \notin {"send_started", "unknown"}

Good(s, revisions, k) ==
    InTurn(s, k) /\ Numbered(s, revisions, k) /\ Alone(s, k) /\ Proved(s[k])

OutboxInv == \A k \in 1..Len(outbox) : Good(outbox, revision, k)

--------------------------------------------------------------------------------
(* The writer.                                                                 *)

\* the ledger has a prefix of the outbox
LedgerInv ==
    /\ Len(ledger) <= Len(outbox) /\ \A i \in 1..Len(ledger) : ledger[i] = i
    /\ receipts \subseteq 1..Len(ledger)

\* the state of an operation is that of its newest observation, and of the request
StateInv ==
    \A u \in Unit :
        LET kind == KindBy(outbox, u, Len(outbox)) IN
        /\ state[u] # "none" <=> revision[u] # 0
        /\ revision[u] # 0 => Captured(u)
        /\ state[u] \in {"none", "prepared", "refused", "superseded"} => kind = state[u]
        /\ state[u] = "unknown" <=> outstanding = u
        /\ state[u] = "unknown" => kind \in {"send_started", "unknown"} \cup Settled
        /\ state[u] \in Settled =>
              kind = state[u] /\ request[u] = state[u]
              /\ Places(outbox, u, Len(outbox)) \subseteq 1..Len(ledger)

RequestInv ==
    /\ \A u \in Unit : /\ request[u] # "none" => state[u] \in {"unknown"} \cup Settled
                       /\ sends[u] <= 1 /\ (request[u] = "none" => sends[u] = 0)
    /\ value \in Unit => request[value] # "none"
    /\ \A k \in 1..Len(outbox) :
          /\ outbox[k].kind \in Settled => request[outbox[k].unit] = outbox[k].kind
          /\ outbox[k].kind = "send_started" => state[outbox[k].unit] \in {"unknown"} \cup Settled

\* revisions are given one after the other, in the order of the captures
RevisionInv ==
    /\ \A u \in Unit : \A r \in 1..revision[u] : \E v \in Unit : revision[v] = r
    /\ \A u, v \in Unit : 0 < revision[u] /\ revision[u] < revision[v] =>
          captures[u].sequence < captures[v].sequence
    /\ \A u, v \in Unit : state[u] = "unknown" /\ state[v] \in {"unknown"} \cup Settled =>
          revision[v] <= revision[u]

WriterInv == OutboxInv /\ LedgerInv /\ StateInv /\ RequestInv /\ RevisionInv

--------------------------------------------------------------------------------
(* What a call x knows at the stage it is at.                                  *)

\* the generation of a read is one there was; while it holds the company the unit has none
ReadOk(x) ==
    x.at \in Reads =>
        /\ x.generation <= ownership.generation
        /\ IsCurrent(x.unit, x.generation) => ~Captured(x.unit)

\* the stage of an attempt is the next one of its plan, and the answer is the ledger's
AttemptOk(x) ==
    /\ x.at = "planned" =>
          Captured(x.unit) /\ x.plan # "none" /\ (x.plan = "reused" => Evidence[x.unit] \in Minted)
    /\ x.at \in Submits => plan[x.unit] # "none"
    /\ x.at \in {"attempted", "answered"} =>
          /\ x.stage \in Stage
          /\ x.stage = "evidence" => plan[x.unit] = "new"
          /\ x.stage = "decision" => (plan[x.unit] = "reused" \/ <<x.unit, "evidence">> \in domain)
    /\ x.at = "answered" /\ x.answer = "accepted" => <<x.unit, x.stage>> \in domain
    /\ x.at = "answered" /\ x.answer = "rejected" =>
          /\ x.stage = "evidence" /\ <<x.unit, "evidence">> \notin domain
          /\ Evidence[x.unit] \in Minted

\* a flush leaves nothing behind it
FlushOk(x) ==
    /\ x.at \in Flushes => x.next # "none"
    /\ x.at \in {"flushing", "delivered"} =>
          /\ x.todo # {} /\ x.todo \subseteq 1..Len(outbox)
          /\ \A t \in x.todo : \A p \in 1..t : p \notin x.todo => p <= Len(ledger)
    /\ x.at = "delivered" => Min(x.todo) <= Len(ledger)
    /\ x.at = "preparing" => x.seen <= Len(ledger)

\* a call that marked a send, and has not sent, finds the operation as it marked it
MarkOk(x) ==
    /\ x.at \in Writes => Captured(x.unit)
    /\ x.marker # 0 <=> x.at = "sending" \/ (x.at \in Flushes /\ x.next = "sending")
    /\ x.marker # 0 => state[x.unit] = "unknown" /\ request[x.unit] = "none"

CallOk(x) == ReadOk(x) /\ AttemptOk(x) /\ FlushOk(x) /\ MarkOk(x)

\* one call at most may send an operation
CallsInv ==
    /\ \A c \in Caller : CallOk(call[c])
    /\ \A c, d \in Caller :
          call[c].marker # 0 /\ call[d].marker # 0 /\ call[c].unit = call[d].unit => c = d

IInv == TypeInv /\ CaptureInv /\ SubmissionInv /\ WriterInv /\ CallsInv
=============================================================================
