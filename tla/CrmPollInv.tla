------------------------------ MODULE CrmPollInv ------------------------------
(***************************************************************************)
(* The inductive invariant behind the theorems of CrmPollProofs, in parts. *)
(***************************************************************************)
EXTENDS CrmPoll

UnitRecord == [tick : Tick \cup {NoTick}, target : Target \cup {NoTarget}, generation : Nat]
EventRecord == [kind : Stage, target : Target \cup {NoTarget}, unit : UnitRecord,
                by : {"config", "outside"}]
MemberRecord == [state : {"none", "queued", "claimed", "read_started", "blocked", "terminal"},
                 generation : Nat,
                 result : {"none", "unchanged", "refused", "complete"}]
OwnerRecord == [tick : Tick \cup {NoTick}, generation : Nat, held : BOOLEAN]
ReadRecord == [unit : UnitRecord, inputs : Inputs, sequence : Nat, since : Nat,
               state : {"unchanged", "captured"}]
AttemptRecord == [unit : UnitRecord, stage : Stage, ordinal : Nat,
                  answer : {"none", "accepted", "rejected", "unknown"}]
WorkRecord == [at : {"idle", "pick", "loop", "owned", "reading", "attempted"},
               tick : Tick \cup {NoTick}, next : Nat \ {0}, since : Nat]

\* The tables, the ledger and the runner keep their shape.
TypeOK ==
    /\ ticks \in Seq(Tick)
    /\ progress \in [Tick -> {"absent", "active", "waiting", "coalesced", "complete"}]
    /\ member \in [Tick -> [Target -> MemberRecord]]
    /\ owner \in [Target -> OwnerRecord]
    /\ reads \subseteq ReadRecord
    /\ polling \in [Target -> [sequence : Nat, inputs : Inputs \cup {NoInputs}]]
    /\ frozen \subseteq [unit : UnitRecord, stages : [Stage -> EventRecord]]
    /\ attempts \subseteq AttemptRecord /\ IsFiniteSet(attempts)
    /\ domain \in Seq(EventRecord)
    /\ up \in BOOLEAN /\ wake \in BOOLEAN /\ checking \in BOOLEAN
    /\ work \in WorkRecord /\ faults \in Nat

\* ticks are admitted once and worked off in the order of their admission
QueueInv ==
    /\ \A i, j \in DOMAIN ticks : ticks[i] = ticks[j] => i = j
    /\ \A t \in Tick : progress[t] # "absent" <=> \E i \in DOMAIN ticks : ticks[i] = t
    /\ \A i, j \in DOMAIN ticks : i < j =>
          /\ progress[ticks[j]] \in {"complete", "active"} =>
                progress[ticks[i]] \in {"complete", "coalesced"}
          /\ progress[ticks[j]] = "waiting" => progress[ticks[i]] # "waiting"
    /\ \A t \in Pending : \E s \in Tick : progress[s] = "active"

\* the members of a tick that is not worked off yet, or never will be, are untouched
MemberInv ==
    \A t \in Tick :
        /\ progress[t] \in {"absent", "coalesced"} => \A x \in Target : member[t][x].state = "none"
        /\ progress[t] = "waiting" => \A x \in Target : member[t][x].state = "queued"
        /\ progress[t] = "complete" <=> \A x \in Target : member[t][x].state = "terminal"
        /\ \A x \in Target : member[t][x].result # "none" <=> member[t][x].state = "terminal"

\* a target is held exactly by the member at work on it, under its generation
FenceInv ==
    /\ \A x \in Target : owner[x].held =>
          /\ owner[x].tick \in Tick
          /\ progress[owner[x].tick] = "active"
          /\ member[owner[x].tick][x].state \in Held
          /\ member[owner[x].tick][x].generation = owner[x].generation
    /\ \A t \in Tick, x \in Target : member[t][x].state \in Held => Owns(Unit(t, x))

\* where the runner is says what it has established
WorkInv ==
    /\ work.at \in {"loop", "owned", "reading", "attempted"} =>
          /\ work.tick \in Tick
          /\ progress[work.tick] \in {"active", "complete"}
    /\ work.at \in {"owned", "reading", "attempted"} =>
          /\ work.next \in DOMAIN Order
          /\ member[work.tick][Current].state \in Held
    /\ work.at = "reading" => ReadsOf(Mine) = {}
    /\ work.at = "attempted" => Accepted(Mine) # Stage

\* a claim is read once, under its member's generation; captures of a target are numbered
\* in their order, and the owner's is the last
ReadInv ==
    /\ \A r \in reads :
          /\ r.unit.tick \in Tick /\ r.unit.target \in Target
          /\ r.unit = Unit(r.unit.tick, r.unit.target)
          /\ member[r.unit.tick][r.unit.target].state \notin {"none", "queued"}
          /\ r.sequence <= polling[r.unit.target].sequence
          /\ r.state = "captured" /\ Owns(r.unit) => r.sequence = polling[r.unit.target].sequence
    /\ \A r, q \in reads : r.unit = q.unit => r = q
    /\ \A r, q \in reads :
          r.state = "captured" /\ q.state = "captured" /\ r.unit.target = q.unit.target =>
             (r.sequence = q.sequence => r = q)

\* a submission is frozen once, of a captured read; its own two events carry its unit
PlanInv ==
    /\ \A p \in frozen :
          /\ \E r \in ReadsOf(p.unit) : r.state = "captured"
          /\ \A s \in Stage : /\ p.stages[s].kind = s
                              /\ IF s \in {"account", "artifact"} THEN p.stages[s].unit = NoUnit
                                 ELSE p.stages[s] = Event(s, p.unit.target, p.unit, "config")
    /\ \A p, q \in frozen : p.unit = q.unit => p = q
    /\ \A a \in attempts : PlanOf(a.unit) # {}

\* an event is recorded once, evidence and decisions only of frozen submissions; what was
\* accepted is recorded
DomainInv ==
    /\ \A i, j \in DOMAIN domain : domain[i] = domain[j] => i = j
    /\ \A i \in DOMAIN domain :
          IF domain[i].kind \in {"account", "artifact"} THEN domain[i].unit = NoUnit
          ELSE \E p \in PlanOf(domain[i].unit) : domain[i] = p.stages[domain[i].kind]
    /\ \A p \in frozen : \A s \in Accepted(p.unit) : Within(domain, p.stages[s])

\* a result says what became of the submission
OutcomeInv ==
    \A t \in Tick, x \in Target :
        /\ member[t][x].result = "complete" => Decided(t, x) # {}
        /\ member[t][x].result \in {"unchanged", "refused"} =>
              ~ \E p \in frozen : p.unit.tick = t /\ p.unit.target = x

\* s covers the coalesced t: its reads, the one under way included, started after t came
Covers(s, t) ==
    /\ progress[s] \notin {"absent", "coalesced"} /\ OrdinalOf(s) < OrdinalOf(t)
    /\ \A r \in reads : r.unit.tick = s => r.since >= OrdinalOf(t)
    /\ work.at = "reading" /\ work.tick = s => work.since >= OrdinalOf(t)
CoverInv == \A t \in Tick : progress[t] = "coalesced" => \E s \in Tick : Covers(s, t)

IInv == /\ TypeOK /\ QueueInv /\ MemberInv /\ FenceInv /\ WorkInv /\ ReadInv
        /\ PlanInv /\ DomainInv /\ DecisionsAreGrounded /\ OutcomeInv /\ CoverInv
=============================================================================
