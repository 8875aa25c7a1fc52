-------------------------------- MODULE CrmPoll --------------------------------
(***************************************************************************)
(* The CRM capture pipeline: the poll queue and its members                *)
(* (adapters/crm/poll_store.py), target ownership, sealed reads and frozen *)
(* submissions (store.py, capture.py, submit.py), and the runner that      *)
(* works them off (runtime.py, poll.py).                                   *)
(*                                                                         *)
(* A step is one transaction of the operational store, one delivery to the *)
(* collector, or one move of the runner between two of them; a process     *)
(* that dies between two steps leaves what the transactions before wrote.  *)
(* The runner is alone in its process (the execution lock) and its process *)
(* alone on the store (the authority file), so what it read of its own     *)
(* rows is still so when it writes; dispatches, outside events, status     *)
(* checks and crashes come in between.                                     *)
(*                                                                         *)
(* A unit is an owner: a target claimed for a tick under a generation.  A  *)
(* sealed read stands for its capture, a submission for its frozen stages. *)
(* An event is what its identity is computed from.  Every read is a new    *)
(* observation, so no submission reuses evidence.                          *)
(***************************************************************************)
EXTENDS Naturals, Sequences, FiniteSets

CONSTANTS
    Tick,            \* tick identities callers dispatch
    Order,           \* config.targets
    Inputs, Usable,  \* mapped scoring inputs, those that let a decision consume one
    NoTick, NoTarget, NoInputs,
    WriterCapable,   \* status checks take the execution lock
    Contended,       \* bound: stages whose delivery may find the collector's file locked
    Outside,         \* bound: kinds of event other callers of the collector may record
    MaxFaults        \* bound: crashes, refusals, contentions, lost answers, status checks

Target == {Order[i] : i \in DOMAIN Order}
Stages == <<"account", "artifact", "evidence", "decision">>
Stage == {Stages[i] : i \in DOMAIN Stages}

ASSUME OrderAssumption ==
    /\ Order \in Seq(Target) /\ Order # <<>>
    /\ \A i, j \in DOMAIN Order : Order[i] = Order[j] => i = j
ASSUME NamesAssumption ==
    NoTick \notin Tick /\ NoTarget \notin Target /\ NoInputs \notin Inputs /\ Usable \subseteq Inputs
ASSUME BoundsAssumption ==
    /\ WriterCapable \in BOOLEAN /\ MaxFaults \in Nat
    /\ Contended \subseteq Stage /\ Outside \subseteq {"account", "artifact"}

VARIABLES
    ticks,      \* crm_poll_ticks, by ordinal
    progress,   \* crm_poll_progress
    member,     \* crm_poll_members with their terminals
    owner,      \* crm_target_ownership
    reads,      \* crm_read_observations with crm_frozen_captures
    polling,    \* crm_polling_state
    frozen,     \* crm_frozen_submissions
    attempts,   \* crm_submission_attempts with crm_submission_observations
    domain,     \* the collector's events, in ingest order
    up, wake, checking, work,   \* the process: alive, _wake, a status check, the runner
    faults      \* faults so far

durable == <<ticks, progress, member, owner, reads, polling, frozen, attempts>>
vars == <<durable, domain, up, wake, checking, work, faults>>

Unit(t, x) == [tick |-> t, target |-> x, generation |-> member[t][x].generation]
NoUnit == [tick |-> NoTick, target |-> NoTarget, generation |-> 0]
Idle == [at |-> "idle", tick |-> NoTick, next |-> 1, since |-> 0]
ReadsOf(u) == {r \in reads : r.unit = u}
PlanOf(u) == {p \in frozen : p.unit = u}

Init ==
    /\ ticks = <<>>
    /\ progress = [t \in Tick |-> "absent"]
    /\ member = [t \in Tick |-> [x \in Target |->
                    [state |-> "none", generation |-> 0, result |-> "none"]]]
    /\ owner = [x \in Target |-> [tick |-> NoTick, generation |-> 0, held |-> FALSE]]
    /\ reads = {} /\ frozen = {} /\ attempts = {} /\ domain = <<>>
    /\ polling = [x \in Target |-> [sequence |-> 0, inputs |-> NoInputs]]
    /\ up = TRUE /\ wake = FALSE /\ checking = FALSE /\ work = Idle /\ faults = 0

--------------------------------------------------------------------------------
(* The queue (poll_store.py): admission                                       *)

Pending == {t \in Tick : progress[t] \in {"active", "waiting"}}

\* mutant: a tick behind another one is coalesced at once
DispositionEager == IF Pending = {} THEN "active" ELSE "coalesced"

\* mutant: the queue has no bound
DispositionUnbounded == IF Pending = {} THEN "active" ELSE "waiting"

Disposition == CASE Pending = {} -> "active"
                 [] Cardinality(Pending) = 1 -> "waiting"
                 [] OTHER -> "coalesced"

Admit(t) ==
    /\ ticks' = Append(ticks, t)
    /\ progress' = [progress EXCEPT ![t] = Disposition]
    /\ member' = IF Disposition = "coalesced" THEN member
                 ELSE [member EXCEPT ![t] = [x \in Target |-> [@[x] EXCEPT !.state = "queued"]]]
    /\ UNCHANGED <<owner, reads, polling, frozen, attempts>>

Dispatch(t) ==
    /\ up
    /\ IF progress[t] = "absent" THEN Admit(t) ELSE UNCHANGED durable
    /\ wake' = TRUE
    /\ UNCHANGED <<domain, up, checking, work, faults>>

--------------------------------------------------------------------------------
(* The runner (runtime.py)                                                    *)

At(place) == up /\ work.at = place
Current == Order[work.next]
Mine == Unit(work.tick, Current)
NextMember == work' = [work EXCEPT !.at = "loop", !.next = @ + 1]
around == <<domain, up, wake, checking, faults>>

RunnerStarts ==
    /\ At("idle") /\ wake /\ ~checking
    /\ wake' = FALSE
    /\ work' = [Idle EXCEPT !.at = "pick"]
    /\ UNCHANGED <<durable, domain, up, checking, faults>>

\* poll_runner_busy: the wake is spent
RunnerBusy ==
    /\ At("idle") /\ wake /\ checking
    /\ wake' = FALSE
    /\ UNCHANGED <<durable, domain, up, checking, work, faults>>

PickTick ==
    /\ At("pick")
    /\ work' = IF \E t \in Tick : progress[t] = "active"
               THEN [Idle EXCEPT !.at = "loop",
                                 !.tick = CHOOSE t \in Tick : progress[t] = "active"]
               ELSE Idle
    /\ UNCHANGED <<durable, around>>

SkipMember ==
    /\ At("loop") /\ work.next \in DOMAIN Order
    /\ member[work.tick][Current].state = "terminal"
    /\ NextMember
    /\ UNCHANGED <<durable, around>>

EndOfTick ==
    /\ At("loop") /\ work.next \notin DOMAIN Order
    /\ work' = IF progress[work.tick] = "complete" THEN [Idle EXCEPT !.at = "pick"] ELSE Idle
    /\ UNCHANGED <<durable, around>>

--------------------------------------------------------------------------------
(* A member (poll.py, poll_store.py)                                          *)

Owns(u) == owner[u.target] = [tick |-> u.tick, generation |-> u.generation, held |-> TRUE]
Mark(state, generation) ==
    member' = [member EXCEPT ![work.tick][Current].state = state,
                             ![work.tick][Current].generation = generation]

Hold(generation) ==
    owner' = [owner EXCEPT ![Current] = [tick |-> work.tick, generation |-> generation, held |-> TRUE]]
Goto(place) == work' = [work EXCEPT !.at = place]

\* mutant: a blocked member is read again, sealed read or not
LostReadAlways == member[work.tick][Current].state \in {"read_started", "blocked"}

\* a read was started, and nothing was sealed
LostRead ==
    /\ member[work.tick][Current].state \in {"read_started", "blocked"}
    /\ ReadsOf(Mine) = {}

Claiming == At("loop") /\ work.next \in DOMAIN Order

ClaimQueued ==
    /\ Claiming
    /\ member[work.tick][Current].state = "queued" /\ ~owner[Current].held
    /\ Hold(owner[Current].generation + 1)
    /\ Mark("claimed", owner[Current].generation + 1)
    /\ Goto("owned")
    /\ UNCHANGED <<ticks, progress, reads, polling, frozen, attempts, around>>

ClaimAgain ==
    /\ Claiming
    /\ member[work.tick][Current].state \in {"claimed", "read_started", "blocked"} /\ Owns(Mine)
    /\ IF LostRead
       THEN Hold(Mine.generation + 1) /\ Mark("claimed", Mine.generation + 1)
       ELSE UNCHANGED <<owner, member>>
    /\ Goto("owned")
    /\ UNCHANGED <<ticks, progress, reads, polling, frozen, attempts, around>>

\* blocked, on to the next member
Block ==
    /\ Owns(Mine)
    /\ Mark("blocked", Mine.generation)
    /\ NextMember
    /\ UNCHANGED <<ticks, progress, owner, reads, polling>>

\* mutant: the waiting tick stays behind
CompletedAlone(t) == [progress EXCEPT ![t] = "complete"]

Completed(t) ==
    [s \in Tick |-> CASE s = t -> "complete"
                      [] s # t /\ progress[s] = "waiting" -> "active"
                      [] OTHER -> progress[s]]

\* settle: the terminal, the release, and the end of the tick in one transaction
Settle(result) ==
    /\ Owns(Mine)
    /\ member' = [member EXCEPT ![work.tick][Current].state = "terminal",
                                ![work.tick][Current].result = result]
    /\ owner' = [owner EXCEPT ![Current].held = FALSE]
    /\ progress' = IF \A x \in Target \ {Current} : member[work.tick][x].state = "terminal"
                   THEN Completed(work.tick) ELSE progress
    /\ NextMember
    /\ UNCHANGED <<ticks, reads, polling, frozen, attempts, around>>

--------------------------------------------------------------------------------
(* The read and its capture (capture.py, store.py)                            *)

StartRead ==
    /\ At("owned") /\ Owns(Mine) /\ ReadsOf(Mine) = {}
    /\ member[work.tick][Current].state = "claimed"
    /\ Mark("read_started", Mine.generation)
    /\ work' = [work EXCEPT !.at = "reading", !.since = Len(ticks)]
    /\ UNCHANGED <<ticks, progress, owner, reads, polling, frozen, attempts, around>>

Unchanged(inputs) == inputs = polling[Current].inputs

\* freeze_capture or record_unchanged
SealRead(inputs) ==
    /\ At("reading") /\ Owns(Mine) /\ ReadsOf(Mine) = {}
    /\ LET sequence == polling[Current].sequence + (IF Unchanged(inputs) THEN 0 ELSE 1)
       IN  /\ reads' = reads \cup
                 {[unit |-> Mine, inputs |-> inputs, sequence |-> sequence, since |-> work.since,
                   state |-> IF Unchanged(inputs) THEN "unchanged" ELSE "captured"]}
           /\ polling' = [polling EXCEPT ![Current] = [sequence |-> sequence, inputs |-> inputs]]
    /\ Goto("owned")
    /\ UNCHANGED <<ticks, progress, member, owner, frozen, attempts, around>>

Sealed(state) == At("owned") /\ \E r \in ReadsOf(Mine) : r.state = state
Consumes == \E r \in ReadsOf(Mine) : r.inputs \in Usable

SettleUnchanged == Sealed("unchanged") /\ Settle("unchanged")

\* no_usable_inputs
SettleRefused == Sealed("captured") /\ PlanOf(Mine) = {} /\ ~Consumes /\ Settle("refused")

--------------------------------------------------------------------------------
(* The submission (submit.py, store.py) and the collector it delivers to      *)

Event(kind, target, unit, by) == [kind |-> kind, target |-> target, unit |-> unit, by |-> by]
Subject(kind, x) == IF kind = "account" THEN x ELSE NoTarget

\* the discovery and the registration already recorded, else the configured ones
Prerequisite(kind, x) ==
    LET known == {i \in DOMAIN domain : domain[i].kind = kind /\ domain[i].target = Subject(kind, x)}
    IN  IF known = {} THEN Event(kind, Subject(kind, x), NoUnit, "config")
        ELSE domain[CHOOSE i \in known : \A j \in known : i <= j]

FreezeSubmission ==
    /\ Sealed("captured") /\ Owns(Mine) /\ PlanOf(Mine) = {} /\ Consumes
    /\ frozen' = frozen \cup
         {[unit |-> Mine,
           stages |-> [s \in Stage |-> IF s \in {"account", "artifact"} THEN Prerequisite(s, Current)
                                       ELSE Event(s, Current, Mine, "config")]]}
    /\ Goto("owned")
    /\ UNCHANGED <<ticks, progress, member, owner, reads, polling, attempts, around>>

\* mutant: an unknown answer counts as accepted
AcceptedUnknown(u) == {a.stage : a \in {b \in attempts : b.unit = u /\ b.answer \in {"accepted", "unknown"}}}

Accepted(u) == {a.stage : a \in {b \in attempts : b.unit = u /\ b.answer = "accepted"}}
Failed(u) == \E a \in attempts : a.unit = u /\ a.answer = "rejected"

\* mutant: the decision goes before its evidence
NextStageEarly(u) ==
    LET order == <<"account", "artifact", "decision", "evidence">>
    IN  order[CHOOSE i \in DOMAIN order :
                 order[i] \notin Accepted(u) /\ \A j \in 1..(i - 1) : order[j] \in Accepted(u)]

NextStage(u) == Stages[CHOOSE i \in DOMAIN Stages :
                          /\ Stages[i] \notin Accepted(u)
                          /\ \A j \in 1..(i - 1) : Stages[j] \in Accepted(u)]
Tries(u, s) == {a \in attempts : a.unit = u /\ a.stage = s}

Within(log, e) == \E i \in DOMAIN log : log[i] = e

Row(e) == <<e.kind, e.target, e.unit>>

\* its row in the projections came from it: no event before it is of its kind and subject
FirstOfItsRow(log, e) ==
    \A i, j \in DOMAIN log : j < i /\ log[i] = e => Row(log[j]) # Row(e)

\* _verify_stage
Verified(log, e) == Within(log, e) /\ FirstOfItsRow(log, e)

\* _verify_domain
Verifies(p) == \A s \in Stage : s \in Accepted(p.unit) \/ Within(domain, p.stages[s])
                                    => Verified(domain, p.stages[s])

Submitting(p) == At("owned") /\ p \in PlanOf(Mine) /\ Owns(Mine)

HoldSubmission(p) ==
    /\ Submitting(p) /\ (Failed(p.unit) \/ ~Verifies(p))
    /\ Block
    /\ UNCHANGED <<frozen, attempts, around>>

StartAttempt(p) ==
    /\ Submitting(p) /\ ~Failed(p.unit) /\ Verifies(p) /\ Accepted(p.unit) # Stage
    /\ LET s == NextStage(p.unit)
       IN  attempts' = attempts \cup {[unit |-> p.unit, stage |-> s, answer |-> "none",
                                       ordinal |-> Cardinality(Tries(p.unit, s)) + 1]}
    /\ Goto("attempted")
    /\ UNCHANGED <<ticks, progress, member, owner, reads, polling, frozen, around>>

SettleComplete(p) ==
    /\ Submitting(p) /\ ~Failed(p.unit) /\ Verifies(p) /\ Accepted(p.unit) = Stage
    /\ Settle("complete")

Attempted(p) == At("attempted") /\ p \in PlanOf(Mine)
Sent(p) == p.stages[NextStage(p.unit)]

\* mutant: a second delivery is a second event
IngestedTwice(e) == Append(domain, e)

\* Collector.ingest: created, or a duplicate of the same bytes
Ingested(e) == IF Within(domain, e) THEN domain ELSE Append(domain, e)

\* observe_submission on the attempt under way
Observe(u, answer) ==
    attempts' = {IF a.unit = u /\ a.stage = NextStage(u) /\ a.ordinal = Cardinality(Tries(u, NextStage(u)))
                 THEN [a EXCEPT !.answer = answer] ELSE a : a \in attempts}

Delivered(p) ==
    /\ Attempted(p)
    /\ domain' = Ingested(Sent(p))
    /\ Verified(domain', Sent(p))
    /\ Observe(p.unit, "accepted")
    /\ Goto("owned")
    /\ UNCHANGED <<ticks, progress, member, owner, reads, polling, frozen, up, wake, checking, faults>>

\* the acknowledged event is not the one its row came from: the answer is rolled back
AnswerRefused(p) ==
    /\ Attempted(p)
    /\ domain' = Ingested(Sent(p))
    /\ ~Verified(domain', Sent(p))
    /\ Block
    /\ UNCHANGED <<frozen, attempts, up, wake, checking, faults>>

Faulty == faults < MaxFaults /\ faults' = faults + 1

\* SQLITE_BUSY: answered 409 crm_admission_contended for the version 3 stages, raised
\* for the others
ContentionAnswer(s) == IF s \in {"evidence", "decision"} THEN "rejected" ELSE "unknown"

DeliveryContended(p) ==
    /\ Attempted(p) /\ NextStage(p.unit) \in Contended
    /\ Faulty
    /\ Observe(p.unit, ContentionAnswer(NextStage(p.unit)))
    /\ Block
    /\ UNCHANGED <<frozen, domain, up, wake, checking>>

\* the collector's return is lost, its commit made or not
ReturnLost(p) ==
    /\ Attempted(p)
    /\ Faulty
    /\ domain' \in {domain, Ingested(Sent(p))}
    /\ Observe(p.unit, "unknown")
    /\ Block
    /\ UNCHANGED <<frozen, up, wake, checking>>

\* dead between the collector's commit and the store's
CrashDelivering(p) ==
    /\ Attempted(p)
    /\ Faulty
    /\ domain' = Ingested(Sent(p))
    /\ up' = FALSE /\ wake' = FALSE /\ checking' = FALSE /\ work' = Idle
    /\ UNCHANGED durable

--------------------------------------------------------------------------------
(* Faults and surroundings                                                    *)

\* the provider, the capture rules or the collector's file refuse for now
WorkRefused ==
    /\ At("reading") \/ Sealed("captured")
    /\ Faulty
    /\ Block
    /\ UNCHANGED <<frozen, attempts, domain, up, wake, checking>>

Crash ==
    /\ up
    /\ Faulty
    /\ up' = FALSE /\ wake' = FALSE /\ checking' = FALSE /\ work' = Idle
    /\ UNCHANGED <<durable, domain>>

\* start: the runner is woken once
Restart ==
    /\ ~up
    /\ up' = TRUE /\ wake' = TRUE
    /\ UNCHANGED <<durable, domain, checking, work, faults>>

\* writer_status holds the execution lock
StatusBegins ==
    /\ WriterCapable /\ At("idle") /\ ~checking
    /\ checking' = TRUE
    /\ Faulty
    /\ UNCHANGED <<durable, domain, up, wake, work>>

StatusEnds ==
    /\ checking
    /\ checking' = FALSE
    /\ UNCHANGED <<durable, domain, up, wake, work, faults>>

\* another caller of the collector discovers the account or registers the artifact
OutsideEvent(kind, x) ==
    /\ kind \in Outside
    /\ LET e == Event(kind, Subject(kind, x), NoUnit, "outside")
       IN  ~Within(domain, e) /\ domain' = Append(domain, e)
    /\ UNCHANGED <<durable, up, wake, checking, work, faults>>

Deliver(p) == \/ Delivered(p) \/ AnswerRefused(p)
              \/ DeliveryContended(p) \/ ReturnLost(p) \/ CrashDelivering(p)

Next ==
    \/ \E t \in Tick : Dispatch(t)
    \/ RunnerStarts \/ RunnerBusy \/ PickTick \/ SkipMember \/ EndOfTick
    \/ ClaimQueued \/ ClaimAgain \/ StartRead
    \/ \E i \in Inputs : SealRead(i)
    \/ SettleUnchanged \/ SettleRefused \/ FreezeSubmission
    \/ \E p \in frozen : HoldSubmission(p) \/ StartAttempt(p) \/ SettleComplete(p) \/ Deliver(p)
    \/ WorkRefused \/ Crash \/ Restart \/ StatusBegins \/ StatusEnds
    \/ \E kind \in Outside, x \in Target : OutsideEvent(kind, x)

Spec == Init /\ [][Next]_vars

\* The runner's thread goes on, a status check ends, a dead process is started again,
\* and requests keep coming: the schedule dispatches every minute and retries, and any
\* request wakes the runner, so a known tick stands for those after the last one.
RunnerStep ==
    \/ RunnerStarts \/ RunnerBusy \/ PickTick \/ SkipMember \/ EndOfTick
    \/ ClaimQueued \/ ClaimAgain \/ StartRead
    \/ \E i \in Inputs : SealRead(i)
    \/ SettleUnchanged \/ SettleRefused \/ FreezeSubmission
    \/ \E p \in frozen : \/ HoldSubmission(p) \/ StartAttempt(p) \/ SettleComplete(p)
                         \/ Delivered(p) \/ AnswerRefused(p)
AnyRequest == \E t \in Tick : progress[t] # "absent" /\ Dispatch(t)
ProcessFairness == WF_vars(RunnerStep) /\ WF_vars(StatusEnds) /\ WF_vars(Restart)
LiveSpec == Spec /\ ProcessFairness /\ WF_vars(AnyRequest)

\* Nothing is refused, lost or contended and nothing crashes; no request need ever come
\* again.  Only a status check may come in the runner's way.
WakeNext == (\E t \in Tick : Dispatch(t)) \/ RunnerStep \/ StatusBegins \/ StatusEnds
WakeSpec == Init /\ [][WakeNext]_vars /\ ProcessFairness
--------------------------------------------------------------------------------
(* Properties                                                                 *)

Held == {"claimed", "read_started", "blocked"}

\* The queue audit (_validate_queue) that every report, admission and run starts with
\* never refuses: ticks are worked off in the order of their admission, at most one
\* is active and one waiting, and a tick is complete exactly when its members are.
QueueAudit ==
    /\ \A i, j \in DOMAIN ticks : i < j =>
          /\ progress[ticks[j]] = "complete" => progress[ticks[i]] \in {"complete", "coalesced"}
          /\ progress[ticks[j]] = "active" => progress[ticks[i]] \in {"complete", "coalesced"}
          /\ progress[ticks[j]] = "waiting" => progress[ticks[i]] # "waiting"
    /\ \A t \in Pending : \E s \in Tick : progress[s] = "active"
    /\ \A t \in Tick : progress[t] = "complete" <=> \A x \in Target : member[t][x].state = "terminal"

\* Every claim works under the ownership it was given: a target is held exactly by the
\* member of the active tick that is at work on it, under that member's generation, so no
\* claim is ever refused (target_busy, stale_ownership); and once a read of a claim is
\* sealed, under whatever generation, the source is not read for that claim again.
ReadsAreFenced ==
    /\ \A x \in Target : owner[x].held =>
          /\ owner[x].tick \in Tick
          /\ progress[owner[x].tick] = "active"
          /\ member[owner[x].tick][x].state \in Held
          /\ member[owner[x].tick][x].generation = owner[x].generation
    /\ \A t \in Tick, x \in Target : member[t][x].state \in Held => Owns(Unit(t, x))
    /\ At("reading") => ~\E r \in reads : r.unit.tick = work.tick /\ r.unit.target = Current

Decided(t, x) == {i \in DOMAIN domain : /\ domain[i].kind = "decision"
                                        /\ domain[i].unit.tick = t /\ domain[i].unit.target = x}

\* What a tick reports of a member is what the ledger holds: complete with one decision
\* of the claim, unchanged or refused with nothing of it, through crashes and lost
\* answers; and a member that is not terminal may have at most one.
ReportsAreTrue ==
    \A t \in Tick, x \in Target :
        /\ Cardinality(Decided(t, x)) <= 1
        /\ member[t][x].result = "complete" => Decided(t, x) # {}
        /\ member[t][x].result \in {"unchanged", "refused"} =>
              ~\E i \in DOMAIN domain : domain[i].unit.tick = t /\ domain[i].unit.target = x

SequenceOf(u) == (CHOOSE r \in ReadsOf(u) : TRUE).sequence

\* Decisions stand on their grounds: before a decision come the discovery of its account,
\* the registration of its artifact and the evidence of its own capture; and the
\* decisions of a target come in the order of their captures.
DecisionsAreGrounded ==
    \A i \in DOMAIN domain : domain[i].kind = "decision" =>
        LET u == domain[i].unit
        IN  /\ \E r \in ReadsOf(u) : r.state = "captured"
            /\ \E p \in PlanOf(u) : \A s \in Stage \ {"decision"} :
                  \E j \in 1..(i - 1) : domain[j] = p.stages[s]
            /\ \A j \in 1..(i - 1) : domain[j].kind = "decision" /\ domain[j].target = u.target =>
                  SequenceOf(domain[j].unit) < SequenceOf(u)

\* A coalesced tick is served by an earlier one: some tick admitted before it started
\* all of its reads after it.
OrdinalOf(t) == CHOOSE i \in DOMAIN ticks : ticks[i] = t
CoalescedIsCovered ==
    \A t \in Tick : progress[t] = "coalesced" =>
        \E s \in Tick :
            /\ progress[s] \notin {"absent", "coalesced"} /\ OrdinalOf(s) < OrdinalOf(t)
            /\ \A r \in reads : r.unit.tick = s => r.since >= OrdinalOf(t)

\* The verification of the ledger that precedes every delivery fails, and with it the
\* member is blocked, only if another caller recorded an account or an artifact too.
HeldForCause ==
    \A p \in frozen : ~Verifies(p) => \E i \in DOMAIN domain : domain[i].by = "outside"

\* Every admitted tick is completed as long as requests keep coming, whatever crashed,
\* was refused or got lost on the way.
EveryTickSettles == \A t \in Tick : progress[t] \in {"active", "waiting"} ~> progress[t] = "complete"

\* Frozen work resumes (poll.py's first line): a submission once frozen is delivered, and
\* its member ends complete.
FrozenWorkResumes ==
    \A t \in Tick, x \in Target :
        (\E p \in frozen : p.unit.tick = t /\ p.unit.target = x) ~> member[t][x].result = "complete"

\* The runner wakes and resumes without another tick: when nothing fails, one dispatch is
\* enough, whatever a status check does meanwhile.
WakesWithoutAnotherTick == \A t \in Tick : progress[t] = "active" ~> progress[t] = "complete"
================================================================================
