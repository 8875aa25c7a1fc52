---------------------------- MODULE CrmPollProofs ----------------------------
(***************************************************************************)
(* Theorems about CrmPoll for every set of ticks, every list of targets    *)
(* and any number of faults.                                               *)
(***************************************************************************)
EXTENDS CrmPollInv, FiniteFacts

\* The configured targets are the entries of the list.
LEMMA Targets == \A i \in DOMAIN Order : Order[i] \in Target
BY DEF Target

\* There are four stages, worked off in this order.
LEMMA FourStages ==
    /\ DOMAIN Stages = {1, 2, 3, 4}
    /\ Stages[1] = "account" /\ Stages[2] = "artifact"
    /\ Stages[3] = "evidence" /\ Stages[4] = "decision"
    /\ Stage = {"account", "artifact", "evidence", "decision"}
<1>1. DOMAIN Stages = 1..4 /\ 1..4 = {1, 2, 3, 4}
  BY DEF Stages
<1>2. /\ Stages[1] = "account" /\ Stages[2] = "artifact"
      /\ Stages[3] = "evidence" /\ Stages[4] = "decision"
  BY DEF Stages
<1> QED BY <1>1, <1>2 DEF Stage

\* The next stage is the first one without an accepted answer.
LEMMA NextStageIs ==
    ASSUME NEW u, Accepted(u) # Stage, Accepted(u) \subseteq Stage
    PROVE  /\ NextStage(u) \in Stage /\ NextStage(u) \notin Accepted(u)
           /\ NextStage(u) = "decision" => \A s \in Stage \ {"decision"} : s \in Accepted(u)
<1> DEFINE First(i) == /\ Stages[i] \notin Accepted(u)
                       /\ \A j \in 1..(i - 1) : Stages[j] \in Accepted(u)
           k == CHOOSE i \in DOMAIN Stages : First(i)
<1>1. \E i \in DOMAIN Stages : First(i)
  <2>1. CASE Stages[1] \notin Accepted(u)
    BY <2>1, FourStages
  <2>2. CASE Stages[1] \in Accepted(u) /\ Stages[2] \notin Accepted(u)
    <3>1. \A j \in 1..(2 - 1) : j = 1
      OBVIOUS
    <3> QED BY <2>2, <3>1, FourStages
  <2>3. CASE Stages[1] \in Accepted(u) /\ Stages[2] \in Accepted(u) /\ Stages[3] \notin Accepted(u)
    <3>1. \A j \in 1..(3 - 1) : j = 1 \/ j = 2
      OBVIOUS
    <3> QED BY <2>3, <3>1, FourStages
  <2>4. CASE \A j \in {1, 2, 3} : Stages[j] \in Accepted(u)
    <3>1. Stages[4] \notin Accepted(u)
      BY <2>4, FourStages
    <3>2. \A j \in 1..(4 - 1) : j \in {1, 2, 3}
      OBVIOUS
    <3> QED BY <2>4, <3>1, <3>2, FourStages
  <2> QED BY <2>1, <2>2, <2>3, <2>4
<1>2. k \in DOMAIN Stages /\ First(k)
  <2> HIDE DEF First
  <2> QED BY <1>1
<1>3. NextStage(u) = Stages[k]
  BY DEF NextStage
<1>4. Stages[k] = "decision" => k = 4
  <2> HIDE DEF k
  <2> QED BY <1>2, FourStages
<1>5. k = 4 => \A s \in Stage \ {"decision"} : s \in Accepted(u)
  <2>1. \A j \in {1, 2, 3} : j \in 1..(4 - 1)
    OBVIOUS
  <2> HIDE DEF k
  <2> QED BY <1>2, <2>1, FourStages
<1>6. Stages[k] \in Stage
  BY <1>2 DEF Stage
<1> HIDE DEF k
<1> QED BY <1>2, <1>3, <1>4, <1>5, <1>6

--------------------------------------------------------------------------------
(* TypeOK                                                                       *)

\* A unit of a known tick and target is a unit.
LEMMA UnitType ==
    ASSUME TypeOK, NEW t \in Tick, NEW x \in Target
    PROVE  /\ Unit(t, x) \in UnitRecord /\ member[t][x] \in MemberRecord
           /\ Unit(t, x).tick = t /\ Unit(t, x).target = x
           /\ Unit(t, x).generation = member[t][x].generation
           /\ member[t][x].generation \in Nat
<1>1. member[t][x] \in MemberRecord
  BY DEF TypeOK
<1> QED BY <1>1 DEF MemberRecord, UnitRecord, Unit

\* Two changes of one member, one after the other, are changes of that member only.
LEMMA OneMember ==
    ASSUME TypeOK, NEW c \in Tick, NEW x \in Target, NEW k \in MemberRecord,
           NEW m \in MemberRecord,
           LET n == [member EXCEPT ![c] = [member[c] EXCEPT ![x] = k]]
           IN  member' = [n EXCEPT ![c] = [n[c] EXCEPT ![x] = m]]
    PROVE  /\ member' \in [Tick -> [Target -> MemberRecord]]
           /\ member'[c][x] = m
           /\ \A t \in Tick, y \in Target : t # c \/ y # x => member'[t][y] = member[t][y]
<1> DEFINE n == [member EXCEPT ![c] = [member[c] EXCEPT ![x] = k]]
<1>1. member \in [Tick -> [Target -> MemberRecord]] /\ member[c] \in [Target -> MemberRecord]
  BY DEF TypeOK
<1>2. [member[c] EXCEPT ![x] = k] \in [Target -> MemberRecord]
  BY <1>1
<1>3. /\ n[c] = [member[c] EXCEPT ![x] = k]
      /\ n \in [Tick -> [Target -> MemberRecord]]
      /\ \A t \in Tick : t # c => n[t] = member[t]
  BY <1>1, <1>2
<1>4. member' = [n EXCEPT ![c] = [n[c] EXCEPT ![x] = m]]
  OBVIOUS
<1> HIDE DEF n
<1>5. [n[c] EXCEPT ![x] = m] \in [Target -> MemberRecord]
  BY <1>3
<1>6. /\ member'[c] = [n[c] EXCEPT ![x] = m]
      /\ member' \in [Tick -> [Target -> MemberRecord]]
      /\ \A t \in Tick : t # c => member'[t] = n[t]
  BY <1>3, <1>4, <1>5
<1>7. member'[c][x] = m /\ \A y \in Target : y # x => member'[c][y] = n[c][y]
  BY <1>3, <1>6
<1>8. \A y \in Target : y # x => n[c][y] = member[c][y]
  BY <1>1, <1>3
<1> QED BY <1>3, <1>6, <1>7, <1>8

\* Marking a member changes that member's state and generation only.
LEMMA Marked ==
    ASSUME TypeOK, work.tick \in Tick, Current \in Target,
           NEW s \in Held, NEW g \in Nat, Mark(s, g)
    PROVE  LET c == work.tick
               x == Current
           IN  /\ member' \in [Tick -> [Target -> MemberRecord]]
               /\ member'[c][x].state = s /\ member'[c][x].generation = g
               /\ member'[c][x].result = member[c][x].result
               /\ \A t \in Tick, y \in Target : t # c \/ y # x => member'[t][y] = member[t][y]
<1> DEFINE c == work.tick
           x == Current
           k == [member[c][x] EXCEPT !.state = s]
           m == [k EXCEPT !.generation = g]
           n == [member EXCEPT ![c] = [member[c] EXCEPT ![x] = k]]
<1>1. /\ member \in [Tick -> [Target -> MemberRecord]] /\ c \in Tick /\ x \in Target
      /\ member[c][x] \in MemberRecord /\ member[c] \in [Target -> MemberRecord]
  BY DEF TypeOK
<1>2. member' = [n EXCEPT ![c] = [n[c] EXCEPT ![x] = [n[c][x] EXCEPT !.generation = g]]]
  BY DEF Mark
<1>3. m \in MemberRecord /\ m.state = s /\ m.generation = g /\ m.result = member[c][x].result
  <2> HIDE DEF c, x
  <2> QED BY <1>1 DEF MemberRecord, Held
<1> HIDE DEF c, x
<1>0. k \in MemberRecord
  BY <1>1 DEF MemberRecord, Held
<1> HIDE DEF k
<1>4. n[c][x] = k
  BY <1>1
<1>5. member' = [n EXCEPT ![c] = [n[c] EXCEPT ![x] = m]]
  BY <1>2, <1>4
<1> HIDE DEF m
<1>7. /\ member' \in [Tick -> [Target -> MemberRecord]]
      /\ member'[c][x] = m
      /\ \A t \in Tick, y \in Target : t # c \/ y # x => member'[t][y] = member[t][y]
  BY <1>1, <1>3, <1>0, <1>5, OneMember
<1> QED BY <1>3, <1>7 DEF c, x

\* Settling a member changes that member's state and result only, and gives its target up.
LEMMA Settled ==
    ASSUME TypeOK, work.tick \in Tick, Current \in Target,
           NEW r \in {"unchanged", "refused", "complete"}, Settle(r)
    PROVE  LET c == work.tick
               x == Current
           IN  /\ member' \in [Tick -> [Target -> MemberRecord]]
               /\ member'[c][x].state = "terminal" /\ member'[c][x].result = r
               /\ member'[c][x].generation = member[c][x].generation
               /\ \A t \in Tick, y \in Target : t # c \/ y # x => member'[t][y] = member[t][y]
               /\ owner' \in [Target -> OwnerRecord]
               /\ ~ owner'[x].held
               /\ \A y \in Target : y # x => owner'[y] = owner[y]
<1> DEFINE c == work.tick
           x == Current
           k == [member[c][x] EXCEPT !.state = "terminal"]
           m == [k EXCEPT !.result = r]
           n == [member EXCEPT ![c] = [member[c] EXCEPT ![x] = k]]
           o == [owner[x] EXCEPT !.held = FALSE]
<1>1. /\ member \in [Tick -> [Target -> MemberRecord]] /\ c \in Tick /\ x \in Target
      /\ member[c][x] \in MemberRecord /\ member[c] \in [Target -> MemberRecord]
      /\ owner \in [Target -> OwnerRecord] /\ owner[x] \in OwnerRecord
  BY DEF TypeOK
<1>2. member' = [n EXCEPT ![c] = [n[c] EXCEPT ![x] = [n[c][x] EXCEPT !.result = r]]]
  BY DEF Settle
<1>3. /\ m \in MemberRecord /\ m.state = "terminal" /\ m.result = r
      /\ m.generation = member[c][x].generation
  <2> HIDE DEF c, x
  <2> QED BY <1>1 DEF MemberRecord
<1>0. k \in MemberRecord
  <2> HIDE DEF c, x
  <2> QED BY <1>1 DEF MemberRecord
<1>4. owner' = [owner EXCEPT ![x] = o]
  BY DEF Settle
<1>5. o \in OwnerRecord /\ o.held = FALSE
  BY <1>1 DEF OwnerRecord
<1> HIDE DEF c, x, k, o
<1>6. n[c][x] = k
  BY <1>1
<1>7. member' = [n EXCEPT ![c] = [n[c] EXCEPT ![x] = m]]
  BY <1>2, <1>6
<1> HIDE DEF m
<1>9. /\ member' \in [Tick -> [Target -> MemberRecord]]
      /\ member'[c][x] = m
      /\ \A t \in Tick, y \in Target : t # c \/ y # x => member'[t][y] = member[t][y]
  BY <1>1, <1>3, <1>0, <1>7, OneMember
<1>10. /\ owner' \in [Target -> OwnerRecord] /\ owner'[x] = o
       /\ \A y \in Target : y # x => owner'[y] = owner[y]
  BY <1>1, <1>4, <1>5
<1> QED BY <1>3, <1>5, <1>9, <1>10 DEF c, x

\* The runner at a member stands at a target for a known tick.
LEMMA Here ==
    ASSUME TypeOK, WorkInv, work.at \in {"loop", "owned", "reading", "attempted"},
           work.next \in DOMAIN Order
    PROVE  /\ work.tick \in Tick /\ Current \in Target
           /\ progress[work.tick] \in {"active", "complete"}
           /\ member[work.tick][Current] \in MemberRecord
           /\ Mine \in UnitRecord /\ Mine.tick = work.tick /\ Mine.target = Current
           /\ Mine.generation = member[work.tick][Current].generation
           /\ Mine.generation \in Nat
<1>1. work.tick \in Tick /\ progress[work.tick] \in {"active", "complete"}
  BY DEF WorkInv
<1>2. Current \in Target
  BY Targets DEF Current
<1> QED BY <1>1, <1>2, UnitType DEF Mine

\* A place of the runner changes nothing else of it.
LEMMA Places ==
    ASSUME TypeOK, NEW a \in {"idle", "pick", "loop", "owned", "reading", "attempted"}
    PROVE  LET w == [work EXCEPT !.at = a]
           IN  /\ w \in WorkRecord /\ w.at = a /\ w.tick = work.tick
               /\ w.next = work.next /\ w.since = work.since
<1>1. work \in WorkRecord
  BY DEF TypeOK
<1> QED BY <1>1 DEF WorkRecord

\* The next member is one further, for the same tick.
LEMMA Further ==
    ASSUME TypeOK, NextMember
    PROVE  /\ work' \in WorkRecord /\ work'.at = "loop" /\ work'.tick = work.tick
<1>1. work \in WorkRecord
  BY DEF TypeOK
<1>2. work' = [work EXCEPT !.at = "loop", !.next = work.next + 1]
  BY DEF NextMember
<1>3. work.next \in Nat /\ work.next + 1 \in Nat \ {0}
  <2>1. work.next \in Nat
    BY <1>1 DEF WorkRecord
  <2> QED BY <2>1
<1> QED BY <1>1, <1>2, <1>3 DEF WorkRecord

\* An idle runner, and the one that took up a tick.
LEMMA Starts ==
    /\ Idle \in WorkRecord /\ Idle.at = "idle"
    /\ LET w == [Idle EXCEPT !.at = "pick"] IN w \in WorkRecord /\ w.at = "pick"
    /\ \A t \in Tick : LET w == [Idle EXCEPT !.at = "loop", !.tick = t]
                       IN  w \in WorkRecord /\ w.at = "loop" /\ w.tick = t
<1>1. Idle \in WorkRecord /\ Idle.at = "idle"
  BY DEF Idle, WorkRecord
<1> HIDE DEF Idle
<1> QED BY <1>1 DEF WorkRecord

\* Appending to a sequence keeps what is in it.
LEMMA Appended ==
    ASSUME NEW S, NEW q \in Seq(S), NEW e \in S
    PROVE  LET r == Append(q, e)
           IN  /\ r \in Seq(S) /\ Len(r) = Len(q) + 1 /\ Len(q) \in Nat
               /\ DOMAIN q = 1..Len(q) /\ DOMAIN r = 1..(Len(q) + 1)
               /\ r[Len(q) + 1] = e
               /\ \A i \in DOMAIN q : i \in DOMAIN r /\ r[i] = q[i]
               /\ \A i \in DOMAIN r : i \in DOMAIN q \/ i = Len(q) + 1
<1> DEFINE r == Append(q, e)
<1>1. r \in Seq(S) /\ Len(r) = Len(q) + 1 /\ Len(q) \in Nat
  OBVIOUS
<1>2. DOMAIN q = 1..Len(q) /\ DOMAIN r = 1..(Len(q) + 1)
  BY <1>1
<1>3. r[Len(q) + 1] = e
  OBVIOUS
<1>4. \A i \in 1..Len(q) : r[i] = q[i]
  OBVIOUS
<1> HIDE DEF r
<1>5. \A i \in 1..(Len(q) + 1) : i \in 1..Len(q) \/ i = Len(q) + 1
  BY <1>1
<1>6. \A i \in 1..Len(q) : i \in 1..(Len(q) + 1)
  BY <1>1
<1> QED BY <1>1, <1>2, <1>3, <1>4, <1>5, <1>6 DEF r

\* An event has the fields it was made of.
LEMMA EventType ==
    ASSUME NEW k \in Stage, NEW x \in Target \cup {NoTarget}, NEW u \in UnitRecord,
           NEW b \in {"config", "outside"}
    PROVE  LET e == Event(k, x, u, b)
           IN  e \in EventRecord /\ e.kind = k /\ e.target = x /\ e.unit = u /\ e.by = b
BY DEF Event, EventRecord

\* No unit is a unit of no tick.
LEMMA NoUnitType == NoUnit \in UnitRecord /\ NoUnit.tick = NoTick
BY DEF NoUnit, UnitRecord

\* A prerequisite is an event of its kind without a unit.
LEMMA PrerequisiteType ==
    ASSUME TypeOK, DomainInv, NEW k \in {"account", "artifact"}, NEW x \in Target
    PROVE  LET e == Prerequisite(k, x)
           IN  e \in EventRecord /\ e.kind = k /\ e.unit = NoUnit
<1> DEFINE known == {i \in DOMAIN domain : domain[i].kind = k /\ domain[i].target = Subject(k, x)}
           first == CHOOSE i \in known : \A j \in known : i <= j
<1>1. k \in Stage /\ Subject(k, x) \in Target \cup {NoTarget}
  BY FourStages DEF Subject
<1>2. CASE known = {}
  <2>1. Prerequisite(k, x) = Event(k, Subject(k, x), NoUnit, "config")
    BY <1>2 DEF Prerequisite
  <2> QED BY <1>1, <2>1, EventType, NoUnitType
<1>3. CASE known # {}
  <2>1. domain \in Seq(EventRecord)
    BY DEF TypeOK
  <2>2. known \subseteq DOMAIN domain /\ DOMAIN domain \subseteq Nat
    BY <2>1
  <2>3. \E i \in known : \A j \in known : i <= j
    <3>1. known \subseteq Nat
      BY <2>2
    <3> HIDE DEF known
    <3> QED BY <1>3, <3>1, LeastElement
  <2>4. first \in known
    <3> HIDE DEF known
    <3> QED BY <2>3
  <2>5. Prerequisite(k, x) = domain[first]
    BY <1>3 DEF Prerequisite
  <2> HIDE DEF first
  <2>6. first \in DOMAIN domain /\ domain[first].kind = k
    BY <2>4
  <2>7. domain[first] \in EventRecord
    BY <2>1, <2>6
  <2>8. domain[first].unit = NoUnit
    BY <2>6 DEF DomainInv
  <2> QED BY <2>5, <2>6, <2>7, <2>8
<1> QED BY <1>2, <1>3

\* The attempts of a stage are finitely many.
LEMMA TriesType ==
    ASSUME TypeOK, NEW u, NEW s
    PROVE  Cardinality(Tries(u, s)) \in Nat
<1>1. IsFiniteSet(attempts) /\ Tries(u, s) \in SUBSET attempts
  BY DEF TypeOK, Tries
<1> QED BY <1>1, FS_Subset, FS_CardinalityType

\* Observing an attempt changes answers only, and accepts at most the next stage.
LEMMA Observed ==
    ASSUME TypeOK, NEW u, NEW r \in {"none", "accepted", "rejected", "unknown"}, Observe(u, r)
    PROVE  /\ attempts' \subseteq AttemptRecord /\ IsFiniteSet(attempts')
           /\ \A a \in attempts' : \E b \in attempts : b.unit = a.unit
           /\ \A v : Accepted(v)' \subseteq Accepted(v) \cup
                        (IF v = u /\ r = "accepted" THEN {NextStage(u)} ELSE {})
<1> DEFINE Seen(a) == a.unit = u /\ a.stage = NextStage(u)
                      /\ a.ordinal = Cardinality(Tries(u, NextStage(u)))
           Obs(a) == IF Seen(a) THEN [a EXCEPT !.answer = r] ELSE a
           f == [a \in attempts |-> Obs(a)]
<1>1. attempts' = {Obs(a) : a \in attempts}
  BY DEF Observe
<1>2. attempts \subseteq AttemptRecord /\ IsFiniteSet(attempts)
  BY DEF TypeOK
<1>3. ASSUME NEW a \in attempts
      PROVE  /\ Obs(a) \in AttemptRecord /\ Obs(a).unit = a.unit /\ Obs(a).stage = a.stage
             /\ \/ Obs(a).answer = a.answer
                \/ Obs(a).answer = r /\ a.unit = u /\ a.stage = NextStage(u)
  <2>1. a \in AttemptRecord
    BY <1>2
  <2>2. CASE Seen(a)
    <3>1. Obs(a) = [a EXCEPT !.answer = r]
      BY <2>2
    <3>2. a.unit = u /\ a.stage = NextStage(u)
      BY <2>2
    <3> HIDE DEF Obs, Seen
    <3> QED BY <2>1, <3>1, <3>2 DEF AttemptRecord
  <2>3. CASE ~ Seen(a)
    <3>1. Obs(a) = a
      BY <2>3
    <3> QED BY <2>1, <3>1
  <2> QED BY <2>2, <2>3
<1> HIDE DEF Obs
<1>4. f \in Surjection(attempts, attempts')
  BY <1>1 DEF Surjection
<1>5. IsFiniteSet(attempts')
  BY <1>2, <1>4, FS_Surjection
<1>6. attempts' \subseteq AttemptRecord
  BY <1>1, <1>3
<1>7. \A a \in attempts' : \E b \in attempts : b.unit = a.unit
  BY <1>1, <1>3
<1>8. ASSUME NEW v, NEW s \in Accepted(v)'
      PROVE  s \in Accepted(v) \/ (v = u /\ r = "accepted" /\ s = NextStage(u))
  <2>1. PICK a \in attempts' : a.unit = v /\ a.answer = "accepted" /\ a.stage = s
    BY DEF Accepted
  <2>2. PICK b \in attempts : a = Obs(b)
    BY <1>1, <2>1
  <2>3. b.unit = v /\ b.stage = s
    BY <1>3, <2>1, <2>2
  <2>4. CASE b.answer = "accepted"
    BY <2>3, <2>4 DEF Accepted
  <2>5. CASE r = "accepted" /\ b.unit = u /\ b.stage = NextStage(u)
    BY <2>3, <2>5
  <2> QED BY <1>3, <2>1, <2>2, <2>4, <2>5
<1> QED BY <1>5, <1>6, <1>7, <1>8

\* Ingesting an event records it, and changes nothing before it.
LEMMA IngestedType ==
    ASSUME TypeOK, NEW e \in EventRecord
    PROVE  /\ Ingested(e) \in Seq(EventRecord)
           /\ Ingested(e) = domain \/ (Ingested(e) = Append(domain, e) /\ ~ Within(domain, e))
           /\ Within(Ingested(e), e)
<1>1. domain \in Seq(EventRecord)
  BY DEF TypeOK
<1>2. CASE Within(domain, e)
  BY <1>1, <1>2 DEF Ingested
<1>3. CASE ~ Within(domain, e)
  <2>1. Ingested(e) = Append(domain, e)
    BY <1>3 DEF Ingested
  <2>2. /\ Append(domain, e) \in Seq(EventRecord)
        /\ Append(domain, e)[Len(domain) + 1] = e
        /\ Len(domain) + 1 \in DOMAIN Append(domain, e)
    <3>1. Len(domain) \in Nat /\ DOMAIN Append(domain, e) = 1..(Len(domain) + 1)
      BY <1>1
    <3>2. Len(domain) + 1 \in 1..(Len(domain) + 1)
      BY <3>1
    <3> QED BY <1>1, <3>1, <3>2
  <2> QED BY <1>3, <2>1, <2>2 DEF Within
<1> QED BY <1>2, <1>3

--------------------------------------------------------------------------------
(* The shapes of a step: what it writes, and what is known of where it writes   *)

\* the runner stands at a member of an active tick, and works on it
Stands == /\ work.tick \in Tick /\ work.next \in DOMAIN Order /\ Current \in Target
          /\ progress[work.tick] = "active"
Works == Stands /\ member[work.tick][Current].state \in Held

OtherMembers == \A t \in Tick, y \in Target :
                    t # work.tick \/ y # Current => member'[t][y] = member[t][y]
OtherOwners == \A y \in Target : y # Current => owner'[y] = owner[y]
Stays == work'.tick = work.tick /\ work'.next = work.next
Untold == UNCHANGED <<frozen, attempts, domain>>

\* nothing is written
Moves == /\ UNCHANGED <<durable, domain>>
         /\ \/ work' = work
            \/ work'.at \in {"idle", "pick"}
            \/ /\ work'.at = "loop" /\ work'.tick \in Tick
               /\ progress[work'.tick] \in {"active", "complete"}
            \/ work'.at = "owned" /\ Stays /\ Works

Admits(t) == progress[t] = "absent" /\ Admit(t) /\ UNCHANGED <<domain, work>>

\* the member is claimed under a new generation, nothing of it being sealed
Claims(g) ==
    /\ Stands /\ member[work.tick][Current].state \in Held \cup {"queued"}
    /\ ~ \E r \in reads : r.unit.tick = work.tick /\ r.unit.target = Current
    /\ owner[Current].held => owner[Current].tick = work.tick
    /\ owner'[Current] = [tick |-> work.tick, generation |-> g, held |-> TRUE] /\ OtherOwners
    /\ member'[work.tick][Current].state = "claimed"
    /\ member'[work.tick][Current].generation = g
    /\ member'[work.tick][Current].result = member[work.tick][Current].result
    /\ OtherMembers
    /\ work'.at = "owned" /\ Stays
    /\ UNCHANGED <<ticks, progress, reads, polling>> /\ Untold

Seals(i) == Works /\ work.at = "reading" /\ SealRead(i)
Freezes == Works /\ FreezeSubmission

\* the member ends: complete when its decision is accepted, else without a submission
Ends(r) ==
    /\ Works
    /\ member'[work.tick][Current].state = "terminal"
    /\ member'[work.tick][Current].result = r
    /\ member'[work.tick][Current].generation = member[work.tick][Current].generation
    /\ OtherMembers
    /\ ~ owner'[Current].held /\ OtherOwners
    /\ progress' = IF \A y \in Target \ {Current} : member[work.tick][y].state = "terminal"
                   THEN Completed(work.tick) ELSE progress
    /\ IF r = "complete" THEN PlanOf(Mine) # {} /\ Accepted(Mine) = Stage ELSE PlanOf(Mine) = {}
    /\ work'.at = "loop" /\ work'.tick = work.tick
    /\ UNCHANGED <<ticks, reads, polling>> /\ Untold

\* what a delivery leaves in the ledger and in the attempts
Tells(p) ==
    /\ p \in frozen /\ p.unit = Mine /\ Accepted(Mine) # Stage
    /\ domain' \in {domain, Ingested(Sent(p))}
    /\ \A a \in attempts' : a.unit = Mine \/ \E b \in attempts : b.unit = a.unit
    /\ \A u : \/ Accepted(u)' \subseteq Accepted(u)
              \/ /\ u = Mine /\ domain' = Ingested(Sent(p))
                 /\ Accepted(u)' \subseteq Accepted(u) \cup {NextStage(u)}

\* the member is worked on: it stays where it is or is blocked
Proceeds ==
    /\ Works
    /\ member'[work.tick][Current].state \in Held
    /\ member'[work.tick][Current].generation = member[work.tick][Current].generation
    /\ member'[work.tick][Current].result = member[work.tick][Current].result
    /\ OtherMembers
    /\ UNCHANGED <<ticks, progress, owner, reads, polling, frozen>>
    /\ UNCHANGED <<attempts, domain>> \/ \E p \in frozen : Tells(p)
    /\ \/ work'.at = "idle"
       \/ work'.at = "loop" /\ work'.tick = work.tick
       \/ work'.at = "owned" /\ Stays
       \/ work'.at = "reading" /\ Stays /\ work'.since = Len(ticks) /\ ReadsOf(Mine) = {}
       \/ work'.at = "attempted" /\ Stays /\ Accepted(Mine)' # Stage

\* another caller's event
Comes == \E k \in Outside, x \in Target :
            LET e == Event(k, Subject(k, x), NoUnit, "outside")
            IN  ~ Within(domain, e) /\ domain' = Append(domain, e) /\ UNCHANGED <<durable, work>>

Shape == \/ Moves \/ (\E t \in Tick : Admits(t)) \/ (\E g \in Nat : Claims(g))
         \/ (\E i \in Inputs : Seals(i)) \/ Freezes
         \/ (\E r \in {"unchanged", "refused", "complete"} : Ends(r))
         \/ Proceeds \/ Comes

\* A runner past the claim is at work on a member it owns.
LEMMA AtWork ==
    ASSUME IInv, work.at \in {"owned", "reading", "attempted"}
    PROVE  Works /\ Owns(Mine)
<1>1. TypeOK /\ WorkInv /\ MemberInv /\ FenceInv
  BY DEF IInv
<1>2. work.next \in DOMAIN Order /\ member[work.tick][Current].state \in Held
  BY <1>1 DEF WorkInv
<1>3. /\ work.tick \in Tick /\ Current \in Target
      /\ progress[work.tick] \in {"active", "complete"}
  BY <1>1, <1>2, Here
<1>4. progress[work.tick] # "complete"
  BY <1>1, <1>2, <1>3 DEF MemberInv, Held
<1>5. Owns(Mine)
  BY <1>1, <1>2, <1>3 DEF FenceInv, Mine
<1> QED BY <1>2, <1>3, <1>4, <1>5 DEF Works, Stands

\* A claim that has reads has them under its member's unit.
LEMMA ReadUnits ==
    ASSUME IInv, NEW t \in Tick, NEW x \in Target
    PROVE  /\ ReadsOf(Unit(t, x)) = {} => ~ \E r \in reads : r.unit.tick = t /\ r.unit.target = x
           /\ member[t][x].state \in {"none", "queued"} =>
                 ~ \E r \in reads : r.unit.tick = t /\ r.unit.target = x
BY DEF IInv, ReadInv, ReadsOf

\* Moves of the runner and of the process around it.
LEMMA MovesStep ==
    ASSUME IInv,
           \/ RunnerStarts \/ RunnerBusy \/ PickTick \/ SkipMember \/ EndOfTick
           \/ Crash \/ Restart \/ StatusBegins \/ StatusEnds \/ UNCHANGED vars
    PROVE  TypeOK' /\ Moves
<1>1. TypeOK /\ WorkInv
  BY DEF IInv
<1>2. ASSUME UNCHANGED <<durable, domain>>, work' \in WorkRecord, faults' \in Nat,
             up' \in BOOLEAN, wake' \in BOOLEAN, checking' \in BOOLEAN
      PROVE  TypeOK'
  BY <1>1, <1>2 DEF TypeOK, durable
<1>3. /\ work \in WorkRecord /\ faults \in Nat
      /\ up \in BOOLEAN /\ wake \in BOOLEAN /\ checking \in BOOLEAN
  BY <1>1 DEF TypeOK
<1>4. Faulty => faults' \in Nat
  BY <1>3 DEF Faulty
<1>5. CASE RunnerStarts
  <2>1. /\ UNCHANGED <<durable, domain>> /\ work' = [Idle EXCEPT !.at = "pick"]
        /\ wake' = FALSE /\ UNCHANGED <<up, checking, faults>>
    BY <1>5 DEF RunnerStarts
  <2>2. work' \in WorkRecord /\ work'.at = "pick"
    BY <2>1, Starts
  <2> QED BY <1>2, <1>3, <2>1, <2>2 DEF Moves
<1>6. CASE RunnerBusy
  <2>1. UNCHANGED <<durable, domain, work>> /\ wake' = FALSE /\ UNCHANGED <<up, checking, faults>>
    BY <1>6 DEF RunnerBusy
  <2> QED BY <1>2, <1>3, <2>1 DEF Moves
<1>7. CASE PickTick
  <2>1. UNCHANGED <<durable, domain, up, wake, checking, faults>>
    BY <1>7 DEF PickTick, around
  <2>2. work' \in WorkRecord
        /\ \/ work'.at = "idle"
           \/ work'.at = "loop" /\ work'.tick \in Tick /\ progress[work'.tick] = "active"
    <3>1. CASE \E t \in Tick : progress[t] = "active"
      <4> DEFINE t == CHOOSE t \in Tick : progress[t] = "active"
      <4>1. t \in Tick /\ progress[t] = "active"
        BY <3>1
      <4>2. work' = [Idle EXCEPT !.at = "loop", !.tick = t]
        BY <1>7, <3>1 DEF PickTick
      <4> HIDE DEF t
      <4>3. work' \in WorkRecord /\ work'.at = "loop" /\ work'.tick = t
        BY <4>1, <4>2, Starts
      <4> QED BY <4>1, <4>3
    <3>2. CASE ~ \E t \in Tick : progress[t] = "active"
      BY <1>7, <3>2, Starts DEF PickTick
    <3> QED BY <3>1, <3>2
  <2> QED BY <1>2, <1>3, <2>1, <2>2 DEF Moves
<1>8. CASE SkipMember
  <2>1. UNCHANGED <<durable, domain, up, wake, checking, faults>>
    BY <1>8 DEF SkipMember, around
  <2>2. work' \in WorkRecord /\ work'.at = "loop" /\ work'.tick = work.tick
    BY <1>1, <1>8, Further DEF SkipMember
  <2>3. work.tick \in Tick /\ progress[work.tick] \in {"active", "complete"}
    BY <1>1, <1>8 DEF SkipMember, WorkInv, At
  <2> QED BY <1>2, <1>3, <2>1, <2>2, <2>3 DEF Moves
<1>9. CASE EndOfTick
  <2>1. UNCHANGED <<durable, domain, up, wake, checking, faults>>
    BY <1>9 DEF EndOfTick, around
  <2>2. work' \in WorkRecord /\ work'.at \in {"idle", "pick"}
    BY <1>9, Starts DEF EndOfTick
  <2> QED BY <1>2, <1>3, <2>1, <2>2 DEF Moves
<1>10. CASE Crash
  <2>1. UNCHANGED <<durable, domain>> /\ work' = Idle /\ up' = FALSE /\ wake' = FALSE
        /\ checking' = FALSE /\ Faulty
    BY <1>10 DEF Crash
  <2>2. work' \in WorkRecord /\ work'.at = "idle"
    BY <2>1, Starts
  <2> QED BY <1>2, <1>4, <2>1, <2>2 DEF Moves
<1>11. CASE Restart
  <2>1. UNCHANGED <<durable, domain, work, checking, faults>> /\ up' = TRUE /\ wake' = TRUE
    BY <1>11 DEF Restart
  <2> QED BY <1>2, <1>3, <2>1 DEF Moves
<1>12. CASE StatusBegins
  <2>1. UNCHANGED <<durable, domain, work, up, wake>> /\ checking' = TRUE /\ Faulty
    BY <1>12 DEF StatusBegins
  <2> QED BY <1>2, <1>3, <1>4, <2>1 DEF Moves
<1>13. CASE StatusEnds
  <2>1. UNCHANGED <<durable, domain, work, up, wake, faults>> /\ checking' = FALSE
    BY <1>13 DEF StatusEnds
  <2> QED BY <1>2, <1>3, <2>1 DEF Moves
<1>14. CASE UNCHANGED vars
  <2>1. UNCHANGED <<durable, domain, work, up, wake, checking, faults>>
    BY <1>14 DEF vars
  <2> QED BY <1>2, <1>3, <2>1 DEF Moves
<1> QED BY <1>5, <1>6, <1>7, <1>8, <1>9, <1>10, <1>11, <1>12, <1>13, <1>14

\* Admissions.
LEMMA DispatchStep ==
    ASSUME IInv, NEW t \in Tick, Dispatch(t)
    PROVE  TypeOK' /\ (Moves \/ Admits(t))
<1>1. TypeOK
  BY DEF IInv
<1>2. UNCHANGED <<domain, work, up, checking, faults>> /\ wake' = TRUE
  BY DEF Dispatch
<1>3. CASE progress[t] # "absent"
  <2>1. UNCHANGED durable
    BY <1>3 DEF Dispatch
  <2>2. TypeOK'
    BY <1>1, <1>2, <2>1 DEF TypeOK, durable
  <2> QED BY <1>2, <2>1, <2>2 DEF Moves
<1>4. CASE progress[t] = "absent"
  <2>1. Admit(t)
    BY <1>4 DEF Dispatch
  <2>2. /\ ticks' = Append(ticks, t) /\ progress' = [progress EXCEPT ![t] = Disposition]
        /\ UNCHANGED <<owner, reads, polling, frozen, attempts>>
    BY <2>1 DEF Admit
  <2>3. Disposition \in {"active", "waiting", "coalesced"}
    BY DEF Disposition
  <2>4. ticks' \in Seq(Tick)
    <3>1. ticks \in Seq(Tick)
      BY <1>1 DEF TypeOK
    <3> QED BY <2>2, <3>1
  <2>5. progress' \in [Tick -> {"absent", "active", "waiting", "coalesced", "complete"}]
    <3>1. progress \in [Tick -> {"absent", "active", "waiting", "coalesced", "complete"}]
      BY <1>1 DEF TypeOK
    <3> QED BY <2>2, <2>3, <3>1
  <2>6. member' \in [Tick -> [Target -> MemberRecord]]
    <3> DEFINE row == [x \in Target |-> [member[t][x] EXCEPT !.state = "queued"]]
    <3>1. member \in [Tick -> [Target -> MemberRecord]]
      BY <1>1 DEF TypeOK
    <3>2. \A x \in Target : member[t][x] \in MemberRecord
      BY <3>1
    <3>3. \A x \in Target : [member[t][x] EXCEPT !.state = "queued"] \in MemberRecord
      BY <3>2 DEF MemberRecord
    <3>4. row \in [Target -> MemberRecord]
      BY <3>3
    <3>5. member' = member \/ member' = [member EXCEPT ![t] = row]
      BY <2>1 DEF Admit
    <3> HIDE DEF row
    <3> QED BY <3>1, <3>4, <3>5
  <2>7. TypeOK'
    BY <1>1, <1>2, <2>2, <2>4, <2>5, <2>6 DEF TypeOK
  <2> QED BY <1>2, <1>4, <2>1, <2>7 DEF Admits
<1> QED BY <1>3, <1>4

\* Claims.
LEMMA ClaimStep ==
    ASSUME IInv, ClaimQueued \/ ClaimAgain
    PROVE  TypeOK' /\ (Moves \/ \E g \in Nat : Claims(g))
<1> DEFINE c == work.tick
           x == Current
<1>1. TypeOK /\ WorkInv /\ MemberInv /\ FenceInv
  BY DEF IInv
<1>2. work.at = "loop" /\ work.next \in DOMAIN Order
  BY DEF ClaimQueued, ClaimAgain, Claiming, At
<1>3. /\ c \in Tick /\ x \in Target /\ progress[c] \in {"active", "complete"}
      /\ Mine.generation \in Nat /\ member[c][x] \in MemberRecord
  BY <1>1, <1>2, Here
<1>4. member[c][x].state \in Held \cup {"queued"}
  BY DEF ClaimQueued, ClaimAgain, Held
<1>5. Stands
  <2>1. progress[c] = "complete" => member[c][x].state = "terminal"
    BY <1>1, <1>3 DEF MemberInv
  <2>2. member[c][x].state # "terminal"
    BY <1>4 DEF Held
  <2> QED BY <1>2, <1>3, <2>1, <2>2 DEF Stands
<1>6. work' \in WorkRecord /\ work'.at = "owned" /\ Stays
  <2>1. work' = [work EXCEPT !.at = "owned"]
    BY DEF ClaimQueued, ClaimAgain, Goto
  <2> QED BY <1>1, <2>1, Places DEF Stays
<1>7. /\ UNCHANGED <<ticks, progress, reads, polling, frozen, attempts>>
      /\ UNCHANGED <<domain, up, wake, checking, faults>>
  BY DEF ClaimQueued, ClaimAgain, around
<1>8. ASSUME NEW g \in Nat, Hold(g), Mark("claimed", g),
             ~ \E r \in reads : r.unit.tick = c /\ r.unit.target = x,
             owner[x].held => owner[x].tick = c
      PROVE  TypeOK' /\ Claims(g)
  <2>1. /\ owner' = [owner EXCEPT ![x] = [tick |-> c, generation |-> g, held |-> TRUE]]
        /\ owner \in [Target -> OwnerRecord]
    BY <1>1, <1>8 DEF Hold, TypeOK
  <2>2. [tick |-> c, generation |-> g, held |-> TRUE] \in OwnerRecord
    BY <1>3 DEF OwnerRecord
  <2>3. /\ owner' \in [Target -> OwnerRecord]
        /\ owner'[x] = [tick |-> c, generation |-> g, held |-> TRUE]
        /\ \A y \in Target : y # x => owner'[y] = owner[y]
    BY <1>3, <2>1, <2>2
  <2>4. "claimed" \in Held
    BY DEF Held
  <2>5. /\ member' \in [Tick -> [Target -> MemberRecord]]
        /\ member'[c][x].state = "claimed" /\ member'[c][x].generation = g
        /\ member'[c][x].result = member[c][x].result
        /\ \A t \in Tick, y \in Target : t # c \/ y # x => member'[t][y] = member[t][y]
    BY <1>1, <1>3, <1>8, <2>4, Marked
  <2>6. TypeOK'
    BY <1>1, <1>6, <1>7, <2>3, <2>5 DEF TypeOK
  <2>7. OtherOwners /\ OtherMembers /\ Untold
    BY <1>7, <2>3, <2>5 DEF OtherOwners, OtherMembers, Untold
  <2> QED BY <1>4, <1>5, <1>6, <1>7, <1>8, <2>3, <2>5, <2>6, <2>7 DEF Claims
<1>9. CASE ClaimQueued
  <2> DEFINE g == owner[x].generation + 1
  <2>1. g \in Nat
    <3>1. owner[x] \in OwnerRecord
      BY <1>1, <1>3 DEF TypeOK
    <3>2. owner[x].generation \in Nat
      BY <3>1 DEF OwnerRecord
    <3> QED BY <3>2
  <2>2. Hold(g) /\ Mark("claimed", g) /\ ~ owner[x].held /\ member[c][x].state = "queued"
    BY <1>9 DEF ClaimQueued
  <2>3. ~ \E r \in reads : r.unit.tick = c /\ r.unit.target = x
    BY <1>3, <2>2, ReadUnits
  <2> HIDE DEF g, c, x
  <2>4. TypeOK' /\ Claims(g)
    BY <1>8, <2>1, <2>2, <2>3
  <2> QED BY <2>1, <2>4
<1>10. CASE ClaimAgain
  <2>1. CASE LostRead
    <3> DEFINE g == Mine.generation + 1
    <3>1. g \in Nat
      BY <1>3
    <3>2. Hold(g) /\ Mark("claimed", g) /\ Owns(Mine) /\ ReadsOf(Mine) = {}
      BY <1>10, <2>1 DEF ClaimAgain, LostRead
    <3>3. ~ \E r \in reads : r.unit.tick = c /\ r.unit.target = x
      BY <1>3, <3>2, ReadUnits DEF Mine
    <3>4. owner[x].tick = c
      <4>1. Mine.target = x /\ Mine.tick = c
        BY <1>1, <1>2, Here
      <4> QED BY <3>2, <4>1 DEF Owns
    <3> HIDE DEF g, c, x
    <3>5. TypeOK' /\ Claims(g)
      BY <1>8, <3>1, <3>2, <3>3, <3>4
    <3> QED BY <3>1, <3>5
  <2>2. CASE ~ LostRead
    <3>1. UNCHANGED <<owner, member>>
      BY <1>10, <2>2 DEF ClaimAgain
    <3>2. TypeOK'
      BY <1>1, <1>6, <1>7, <3>1 DEF TypeOK
    <3>3. member[c][x].state \in Held
      BY <1>10 DEF ClaimAgain, Held
    <3> QED BY <1>5, <1>6, <1>7, <3>1, <3>2, <3>3 DEF Moves, Works, durable
  <2> QED BY <2>1, <2>2
<1> QED BY <1>9, <1>10

\* Marking the member under way keeps its tables typed; so it is with blocking it.
LEMMA Keeps ==
    ASSUME IInv, work.at \in {"owned", "reading", "attempted"}, NEW s \in Held,
           Mark(s, Mine.generation)
    PROVE  /\ member' \in [Tick -> [Target -> MemberRecord]]
           /\ member'[work.tick][Current].state = s
           /\ member'[work.tick][Current].generation = member[work.tick][Current].generation
           /\ member'[work.tick][Current].result = member[work.tick][Current].result
           /\ OtherMembers
<1>1. TypeOK /\ WorkInv /\ Stands
  BY AtWork DEF IInv, Works
<1>2. /\ work.tick \in Tick /\ Current \in Target /\ Mine.generation \in Nat
      /\ Mine.generation = member[work.tick][Current].generation
  BY <1>1, Here DEF Stands
<1> QED BY <1>1, <1>2, Marked DEF OtherMembers

\* The member under way is blocked.
LEMMA Blocks ==
    ASSUME IInv, work.at \in {"owned", "reading", "attempted"}, Block
    PROVE  /\ member' \in [Tick -> [Target -> MemberRecord]]
           /\ member'[work.tick][Current].state \in Held
           /\ member'[work.tick][Current].generation = member[work.tick][Current].generation
           /\ member'[work.tick][Current].result = member[work.tick][Current].result
           /\ OtherMembers
           /\ work' \in WorkRecord /\ work'.at = "loop" /\ work'.tick = work.tick
           /\ UNCHANGED <<ticks, progress, owner, reads, polling>>
<1>1. TypeOK
  BY DEF IInv
<1>2. Mark("blocked", Mine.generation) /\ NextMember
  BY DEF Block
<1>3. "blocked" \in Held
  BY DEF Held
<1>4. /\ member' \in [Tick -> [Target -> MemberRecord]]
      /\ member'[work.tick][Current].state = "blocked"
      /\ member'[work.tick][Current].generation = member[work.tick][Current].generation
      /\ member'[work.tick][Current].result = member[work.tick][Current].result
      /\ OtherMembers
  BY <1>2, <1>3, Keeps
<1>5. work' \in WorkRecord /\ work'.at = "loop" /\ work'.tick = work.tick
  BY <1>1, <1>2, Further
<1> QED BY <1>3, <1>4, <1>5 DEF Block

\* Starting a read, and giving a member up for now.
LEMMA ReadStep ==
    ASSUME IInv, StartRead \/ WorkRefused \/ \E p \in frozen : HoldSubmission(p)
    PROVE  TypeOK' /\ Proceeds
<1>1. TypeOK
  BY DEF IInv
<1>2. work.at \in {"owned", "reading"}
  BY DEF StartRead, WorkRefused, Sealed, HoldSubmission, Submitting, At
<1>3. Works
  BY <1>2, AtWork
<1>4. CASE StartRead
  <2>1. /\ Mark("read_started", Mine.generation) /\ ReadsOf(Mine) = {}
        /\ work' = [work EXCEPT !.at = "reading", !.since = Len(ticks)]
        /\ UNCHANGED <<ticks, progress, owner, reads, polling, frozen, attempts>>
        /\ UNCHANGED <<domain, up, wake, checking, faults>>
    BY <1>4 DEF StartRead, around
  <2>2. "read_started" \in Held
    BY DEF Held
  <2>3. /\ member' \in [Tick -> [Target -> MemberRecord]]
        /\ member'[work.tick][Current].state \in Held
        /\ member'[work.tick][Current].generation = member[work.tick][Current].generation
        /\ member'[work.tick][Current].result = member[work.tick][Current].result
        /\ OtherMembers
    <3>1. /\ member' \in [Tick -> [Target -> MemberRecord]]
          /\ member'[work.tick][Current].state = "read_started"
          /\ member'[work.tick][Current].generation = member[work.tick][Current].generation
          /\ member'[work.tick][Current].result = member[work.tick][Current].result
          /\ OtherMembers
      BY <1>2, <2>1, <2>2, Keeps
    <3> QED BY <2>2, <3>1
  <2>4. /\ work' \in WorkRecord /\ work'.at = "reading" /\ work'.tick = work.tick
        /\ work'.next = work.next /\ work'.since = Len(ticks)
    <3>1. work \in WorkRecord /\ ticks \in Seq(Tick)
      BY <1>1 DEF TypeOK
    <3>2. Len(ticks) \in Nat
      BY <3>1
    <3> QED BY <2>1, <3>1, <3>2 DEF WorkRecord
  <2>5. TypeOK'
    BY <1>1, <2>1, <2>3, <2>4 DEF TypeOK
  <2> QED BY <1>3, <2>1, <2>3, <2>4, <2>5 DEF Proceeds, Stays
<1>5. CASE WorkRefused
  <2>1. Block /\ Faulty /\ UNCHANGED <<frozen, attempts, domain, up, wake, checking>>
    BY <1>5 DEF WorkRefused
  <2>2. /\ member' \in [Tick -> [Target -> MemberRecord]]
        /\ member'[work.tick][Current].state \in Held
        /\ member'[work.tick][Current].generation = member[work.tick][Current].generation
        /\ member'[work.tick][Current].result = member[work.tick][Current].result
        /\ OtherMembers
        /\ work' \in WorkRecord /\ work'.at = "loop" /\ work'.tick = work.tick
        /\ UNCHANGED <<ticks, progress, owner, reads, polling>>
    BY <1>2, <2>1, Blocks
  <2>3. faults' \in Nat
    BY <1>1, <2>1 DEF TypeOK, Faulty
  <2>4. TypeOK'
    BY <1>1, <2>1, <2>2, <2>3 DEF TypeOK
  <2> QED BY <1>3, <2>1, <2>2, <2>4 DEF Proceeds
<1>6. CASE \E p \in frozen : HoldSubmission(p)
  <2>1. Block /\ UNCHANGED <<frozen, attempts, domain, up, wake, checking, faults>>
    BY <1>6 DEF HoldSubmission, around
  <2>2. /\ member' \in [Tick -> [Target -> MemberRecord]]
        /\ member'[work.tick][Current].state \in Held
        /\ member'[work.tick][Current].generation = member[work.tick][Current].generation
        /\ member'[work.tick][Current].result = member[work.tick][Current].result
        /\ OtherMembers
        /\ work' \in WorkRecord /\ work'.at = "loop" /\ work'.tick = work.tick
        /\ UNCHANGED <<ticks, progress, owner, reads, polling>>
    BY <1>2, <2>1, Blocks
  <2>4. TypeOK'
    BY <1>1, <2>1, <2>2 DEF TypeOK
  <2> QED BY <1>3, <2>1, <2>2, <2>4 DEF Proceeds
<1> QED BY <1>4, <1>5, <1>6

\* Sealing a read.
LEMMA SealStep ==
    ASSUME IInv, NEW i \in Inputs, SealRead(i)
    PROVE  TypeOK' /\ Seals(i)
<1>1. TypeOK /\ WorkInv
  BY DEF IInv
<1>2. work.at = "reading"
  BY DEF SealRead, At
<1>3. Works
  BY <1>2, AtWork
<1>4. /\ work.tick \in Tick /\ Current \in Target /\ Mine \in UnitRecord
  BY <1>1, <1>3, Here, <1>2 DEF Works, Stands
<1> DEFINE sequence == polling[Current].sequence + (IF Unchanged(i) THEN 0 ELSE 1)
           read == [unit |-> Mine, inputs |-> i, sequence |-> sequence, since |-> work.since,
                    state |-> IF Unchanged(i) THEN "unchanged" ELSE "captured"]
<1>5. sequence \in Nat
  <2>1. polling[Current].sequence \in Nat
    BY <1>1, <1>4 DEF TypeOK
  <2> QED BY <2>1
<1>6. /\ reads' = reads \cup {read}
      /\ polling' = [polling EXCEPT ![Current] = [sequence |-> sequence, inputs |-> i]]
      /\ work' = [work EXCEPT !.at = "owned"]
      /\ UNCHANGED <<ticks, progress, member, owner, frozen, attempts>>
      /\ UNCHANGED <<domain, up, wake, checking, faults>>
  BY DEF SealRead, Goto, around
<1>7. work.since \in Nat
  BY <1>1 DEF TypeOK, WorkRecord
<1>8. read \in ReadRecord
  <2> HIDE DEF sequence
  <2> QED BY <1>4, <1>5, <1>7 DEF ReadRecord
<1>9. work' \in WorkRecord
  BY <1>1, <1>6, Places
<1> HIDE DEF sequence, read
<1>10. polling' \in [Target -> [sequence : Nat, inputs : Inputs \cup {NoInputs}]]
  <2>1. polling \in [Target -> [sequence : Nat, inputs : Inputs \cup {NoInputs}]]
    BY <1>1 DEF TypeOK
  <2>2. [sequence |-> sequence, inputs |-> i] \in [sequence : Nat, inputs : Inputs \cup {NoInputs}]
    BY <1>5
  <2> QED BY <1>6, <2>1, <2>2
<1>11. reads' \subseteq ReadRecord
  BY <1>1, <1>6, <1>8 DEF TypeOK
<1>12. TypeOK'
  BY <1>1, <1>6, <1>9, <1>10, <1>11 DEF TypeOK
<1> QED BY <1>2, <1>3, <1>12 DEF Seals

\* Freezing a submission.
LEMMA FreezeStep ==
    ASSUME IInv, FreezeSubmission
    PROVE  TypeOK' /\ Freezes
<1>1. TypeOK /\ WorkInv /\ DomainInv
  BY DEF IInv
<1>2. work.at = "owned"
  BY DEF FreezeSubmission, Sealed, At
<1>3. Works
  BY <1>2, AtWork
<1>4. Current \in Target /\ Mine \in UnitRecord
  BY <1>1, <1>3, Here, <1>2 DEF Works, Stands
<1> DEFINE E(s) == IF s \in {"account", "artifact"} THEN Prerequisite(s, Current)
                   ELSE Event(s, Current, Mine, "config")
<1>5. \A s \in Stage : E(s) \in EventRecord
  <2>1. \A s \in {"account", "artifact"} : Prerequisite(s, Current) \in EventRecord
    BY <1>1, <1>4, PrerequisiteType
  <2>2. \A s \in Stage : Event(s, Current, Mine, "config") \in EventRecord
    BY <1>4, EventType
  <2> QED BY <2>1, <2>2
<1>6. [unit |-> Mine, stages |-> [s \in Stage |-> E(s)]]
         \in [unit : UnitRecord, stages : [Stage -> EventRecord]]
  <2> HIDE DEF E
  <2> QED BY <1>4, <1>5
<1>7. /\ frozen' = frozen \cup {[unit |-> Mine, stages |-> [s \in Stage |-> E(s)]]}
      /\ work' = [work EXCEPT !.at = "owned"]
      /\ UNCHANGED <<ticks, progress, member, owner, reads, polling, attempts>>
      /\ UNCHANGED <<domain, up, wake, checking, faults>>
  BY DEF FreezeSubmission, Goto, around
<1>8. work' \in WorkRecord
  BY <1>1, <1>7, Places
<1> HIDE DEF E
<1>9. frozen' \subseteq [unit : UnitRecord, stages : [Stage -> EventRecord]]
  BY <1>1, <1>6, <1>7 DEF TypeOK
<1>10. TypeOK'
  BY <1>1, <1>7, <1>8, <1>9 DEF TypeOK
<1> QED BY <1>3, <1>10 DEF Freezes

\* Settling a member.
LEMMA SettleStep ==
    ASSUME IInv, SettleUnchanged \/ SettleRefused \/ \E p \in frozen : SettleComplete(p)
    PROVE  TypeOK' /\ \E r \in {"unchanged", "refused", "complete"} : Ends(r)
<1>1. TypeOK /\ WorkInv /\ ReadInv /\ PlanInv
  BY DEF IInv
<1>2. work.at = "owned"
  BY DEF SettleUnchanged, SettleRefused, SettleComplete, Sealed, Submitting, At
<1>3. Works
  BY <1>2, AtWork
<1>4. work.tick \in Tick /\ Current \in Target
  BY <1>3 DEF Works, Stands
<1>5. ASSUME NEW r \in {"unchanged", "refused", "complete"}, Settle(r),
             IF r = "complete" THEN PlanOf(Mine) # {} /\ Accepted(Mine) = Stage
             ELSE PlanOf(Mine) = {}
      PROVE  TypeOK' /\ Ends(r)
  <2>1. /\ member' \in [Tick -> [Target -> MemberRecord]]
        /\ member'[work.tick][Current].state = "terminal"
        /\ member'[work.tick][Current].result = r
        /\ member'[work.tick][Current].generation = member[work.tick][Current].generation
        /\ \A t \in Tick, y \in Target :
              t # work.tick \/ y # Current => member'[t][y] = member[t][y]
        /\ owner' \in [Target -> OwnerRecord]
        /\ ~ owner'[Current].held
        /\ \A y \in Target : y # Current => owner'[y] = owner[y]
    BY <1>1, <1>4, <1>5, Settled
  <2>2. /\ progress' = IF \A x \in Target \ {Current} : member[work.tick][x].state = "terminal"
                       THEN Completed(work.tick) ELSE progress
        /\ NextMember
        /\ UNCHANGED <<ticks, reads, polling, frozen, attempts>>
        /\ UNCHANGED <<domain, up, wake, checking, faults>>
    BY <1>5 DEF Settle, around
  <2>3. work' \in WorkRecord /\ work'.at = "loop" /\ work'.tick = work.tick
    BY <1>1, <2>2, Further
  <2>4. progress' \in [Tick -> {"absent", "active", "waiting", "coalesced", "complete"}]
    <3>1. progress \in [Tick -> {"absent", "active", "waiting", "coalesced", "complete"}]
      BY <1>1 DEF TypeOK
    <3>2. Completed(work.tick) \in
             [Tick -> {"absent", "active", "waiting", "coalesced", "complete"}]
      <4>1. \A s \in Tick : progress[s] \in
                               {"absent", "active", "waiting", "coalesced", "complete"}
        BY <3>1
      <4> QED BY <4>1 DEF Completed
    <3> QED BY <2>2, <3>1, <3>2
  <2>5. TypeOK'
    BY <1>1, <2>1, <2>2, <2>3, <2>4 DEF TypeOK
  <2>6. OtherMembers /\ OtherOwners /\ Untold
    BY <2>1, <2>2 DEF OtherMembers, OtherOwners, Untold
  <2> QED BY <1>3, <1>5, <2>1, <2>2, <2>3, <2>5, <2>6 DEF Ends
<1>6. CASE SettleUnchanged
  <2>1. Settle("unchanged")
    BY <1>6 DEF SettleUnchanged
  <2>2. PICK r \in ReadsOf(Mine) : r.state = "unchanged"
    BY <1>6 DEF SettleUnchanged, Sealed
  <2>3. PlanOf(Mine) = {}
    <3>1. SUFFICES ASSUME NEW p \in PlanOf(Mine) PROVE FALSE
      OBVIOUS
    <3>2. p \in frozen /\ p.unit = Mine
      BY DEF PlanOf
    <3>3. PICK q \in ReadsOf(Mine) : q.state = "captured"
      BY <1>1, <3>2 DEF PlanInv
    <3>4. r = q
      BY <1>1 DEF ReadInv, ReadsOf
    <3> QED BY <2>2, <3>3, <3>4
  <2>4. "unchanged" \in {"unchanged", "refused", "complete"} /\ "unchanged" # "complete"
    OBVIOUS
  <2>5. TypeOK' /\ Ends("unchanged")
    BY <1>5, <2>1, <2>3, <2>4
  <2> QED BY <2>4, <2>5
<1>7. CASE SettleRefused
  <2>1. Settle("refused") /\ PlanOf(Mine) = {}
    BY <1>7 DEF SettleRefused
  <2>2. TypeOK' /\ Ends("refused")
    BY <1>5, <2>1
  <2> QED BY <2>2
<1>8. CASE \E p \in frozen : SettleComplete(p)
  <2>1. PICK p \in frozen : SettleComplete(p)
    BY <1>8
  <2>2. Settle("complete") /\ p \in PlanOf(Mine) /\ Accepted(p.unit) = Stage
    BY <2>1 DEF SettleComplete, Submitting
  <2>3. p.unit = Mine
    BY <2>2 DEF PlanOf
  <2>4. PlanOf(Mine) # {} /\ Accepted(Mine) = Stage
    BY <2>2, <2>3
  <2>5. TypeOK' /\ Ends("complete")
    BY <1>5, <2>2, <2>4
  <2> QED BY <2>5
<1> QED BY <1>6, <1>7, <1>8

\* Answers are accepted of stages only.
LEMMA AcceptedStages == ASSUME TypeOK, NEW u PROVE Accepted(u) \subseteq Stage
<1>1. \A a \in attempts : a \in AttemptRecord
  BY DEF TypeOK
<1>2. \A a \in AttemptRecord : a.stage \in Stage
  BY DEF AttemptRecord
<1> QED BY <1>1, <1>2 DEF Accepted

\* A plan has an event for every stage.
LEMMA PlanType ==
    ASSUME TypeOK, NEW p \in frozen
    PROVE  p.unit \in UnitRecord /\ \A s \in Stage : p.stages[s] \in EventRecord
<1>1. p \in [unit : UnitRecord, stages : [Stage -> EventRecord]]
  BY DEF TypeOK
<1> QED BY <1>1

\* An attempt under way delivers the next event of the plan of the member under way.
LEMMA UnderWay ==
    ASSUME IInv, NEW p \in frozen, Attempted(p)
    PROVE  /\ work.at = "attempted" /\ Works /\ p.unit = Mine /\ Accepted(Mine) # Stage
           /\ NextStage(Mine) \in Stage /\ Sent(p) = p.stages[NextStage(Mine)]
           /\ Sent(p) \in EventRecord
           /\ Ingested(Sent(p)) \in Seq(EventRecord) /\ Within(Ingested(Sent(p)), Sent(p))
<1>1. TypeOK /\ WorkInv
  BY DEF IInv
<1>2. work.at = "attempted" /\ p.unit = Mine
  BY DEF Attempted, At, PlanOf
<1>3. Works
  BY <1>2, AtWork
<1>4. Accepted(Mine) # Stage
  BY <1>1, <1>2 DEF WorkInv
<1>5. NextStage(Mine) \in Stage
  BY <1>1, <1>4, AcceptedStages, NextStageIs
<1>6. Sent(p) = p.stages[NextStage(Mine)]
  BY <1>2 DEF Sent
<1>7. Sent(p) \in EventRecord
  BY <1>1, <1>5, <1>6, PlanType
<1> QED BY <1>1, <1>2, <1>3, <1>4, <1>5, <1>6, <1>7, IngestedType

\* Attempts of a delivery.
LEMMA AttemptStep ==
    ASSUME IInv, NEW p \in frozen, StartAttempt(p)
    PROVE  TypeOK' /\ Proceeds
<1>1. TypeOK
  BY DEF IInv
<1>2. work.at = "owned" /\ p.unit = Mine /\ Accepted(Mine) # Stage
  BY DEF StartAttempt, Submitting, At, PlanOf
<1>3. Works
  BY <1>2, AtWork
<1> DEFINE s == NextStage(Mine)
           a == [unit |-> Mine, stage |-> s, answer |-> "none",
                 ordinal |-> Cardinality(Tries(Mine, s)) + 1]
<1>4. /\ attempts' = attempts \cup {a}
      /\ work' = [work EXCEPT !.at = "attempted"]
      /\ UNCHANGED <<ticks, progress, member, owner, reads, polling, frozen>>
      /\ UNCHANGED <<domain, up, wake, checking, faults>>
  BY <1>2 DEF StartAttempt, Goto, around
<1>5. work' \in WorkRecord /\ work'.at = "attempted" /\ Stays
  BY <1>1, <1>4, Places DEF Stays
<1>6. a \in AttemptRecord /\ a.unit = Mine /\ a.answer = "none"
  <2>1. s \in Stage
    BY <1>1, <1>2, AcceptedStages, NextStageIs
  <2>2. Cardinality(Tries(Mine, s)) + 1 \in Nat
    <3>1. Cardinality(Tries(Mine, s)) \in Nat
      BY <1>1, TriesType
    <3> QED BY <3>1
  <2>3. Mine \in UnitRecord
    BY <1>1, <1>2, PlanType
  <2> HIDE DEF s
  <2> QED BY <2>1, <2>2, <2>3 DEF AttemptRecord
<1> HIDE DEF a
<1>7. attempts' \subseteq AttemptRecord /\ IsFiniteSet(attempts')
  <2>1. attempts \subseteq AttemptRecord /\ IsFiniteSet(attempts)
    BY <1>1 DEF TypeOK
  <2>2. IsFiniteSet(attempts \cup {a})
    BY <2>1, FS_AddElement
  <2> QED BY <1>4, <1>6, <2>1, <2>2
<1>8. TypeOK'
  BY <1>1, <1>4, <1>5, <1>7 DEF TypeOK
<1>9. \A u : Accepted(u)' = Accepted(u)
  BY <1>4, <1>6 DEF Accepted
<1>10. Accepted(Mine)' = Accepted(Mine)
  <2>1. Mine' = Mine
    BY <1>4, <1>5 DEF Mine, Unit, Current, Stays
  <2> QED BY <1>9, <2>1 DEF Accepted
<1>11. Tells(p)
  <2>1. \A b \in attempts' : b.unit = Mine \/ \E d \in attempts : d.unit = b.unit
    BY <1>4, <1>6
  <2> QED BY <1>2, <1>4, <1>9, <2>1 DEF Tells
<1>12. /\ member'[work.tick][Current].state \in Held
       /\ member'[work.tick][Current].generation = member[work.tick][Current].generation
       /\ member'[work.tick][Current].result = member[work.tick][Current].result
       /\ OtherMembers
  BY <1>3, <1>4 DEF Works, OtherMembers
<1>13. Accepted(Mine)' # Stage
  BY <1>2, <1>10
<1> QED BY <1>3, <1>4, <1>5, <1>8, <1>11, <1>12, <1>13 DEF Proceeds

\* Deliveries, answered or not.
LEMMA DeliverStep ==
    ASSUME IInv, NEW p \in frozen, Deliver(p)
    PROVE  TypeOK' /\ Proceeds
<1>1. TypeOK
  BY DEF IInv
<1>2. Attempted(p)
  BY DEF Deliver, Delivered, AnswerRefused, DeliveryContended, ReturnLost, CrashDelivering
<1>3. /\ work.at = "attempted" /\ Works /\ p.unit = Mine /\ Accepted(Mine) # Stage
      /\ Ingested(Sent(p)) \in Seq(EventRecord)
  BY <1>2, UnderWay
<1>4. domain' \in {domain, Ingested(Sent(p))} /\ domain' \in Seq(EventRecord)
  <2>1. domain \in Seq(EventRecord)
    BY <1>1 DEF TypeOK
  <2>2. domain' \in {domain, Ingested(Sent(p))}
    BY DEF Deliver, Delivered, AnswerRefused, DeliveryContended, ReturnLost, CrashDelivering
  <2> QED BY <1>3, <2>1, <2>2
<1>5. ASSUME \/ UNCHANGED attempts
             \/ \E r \in {"rejected", "unknown"} : Observe(Mine, r)
             \/ Observe(Mine, "accepted") /\ domain' = Ingested(Sent(p))
      PROVE  attempts' \subseteq AttemptRecord /\ IsFiniteSet(attempts') /\ Tells(p)
  <2>1. ASSUME NEW r \in {"none", "accepted", "rejected", "unknown"}, Observe(Mine, r),
               r = "accepted" => domain' = Ingested(Sent(p))
        PROVE  attempts' \subseteq AttemptRecord /\ IsFiniteSet(attempts') /\ Tells(p)
    <3>1. /\ attempts' \subseteq AttemptRecord /\ IsFiniteSet(attempts')
          /\ \A a \in attempts' : \E b \in attempts : b.unit = a.unit
          /\ \A v : Accepted(v)' \subseteq Accepted(v) \cup
                       (IF v = Mine /\ r = "accepted" THEN {NextStage(Mine)} ELSE {})
      BY <1>1, <2>1, Observed
    <3>2. \A v : \/ Accepted(v)' \subseteq Accepted(v)
                 \/ /\ v = Mine /\ domain' = Ingested(Sent(p))
                    /\ Accepted(v)' \subseteq Accepted(v) \cup {NextStage(v)}
      <4>1. ASSUME NEW v
            PROVE  \/ Accepted(v)' \subseteq Accepted(v)
                   \/ /\ v = Mine /\ domain' = Ingested(Sent(p))
                      /\ Accepted(v)' \subseteq Accepted(v) \cup {NextStage(v)}
        <5>1. CASE v = Mine /\ r = "accepted"
          BY <2>1, <3>1, <5>1
        <5>2. CASE ~ (v = Mine /\ r = "accepted")
          BY <3>1, <5>2
        <5> QED BY <5>1, <5>2
      <4> QED BY <4>1
    <3> QED BY <1>3, <1>4, <3>1, <3>2 DEF Tells
  <2>2. CASE UNCHANGED attempts
    <3>1. \A v : Accepted(v)' \subseteq Accepted(v)
      BY <2>2 DEF Accepted
    <3>2. \A a \in attempts' : \E b \in attempts : b.unit = a.unit
      BY <2>2
    <3>3. attempts' \subseteq AttemptRecord /\ IsFiniteSet(attempts')
      BY <1>1, <2>2 DEF TypeOK
    <3> QED BY <1>3, <1>4, <3>1, <3>2, <3>3 DEF Tells
  <2> QED BY <1>5, <2>1, <2>2
<1>6. ASSUME Block, faults' \in Nat, UNCHANGED <<frozen, up, wake, checking>>,
             attempts' \subseteq AttemptRecord, IsFiniteSet(attempts'), Tells(p)
      PROVE  TypeOK' /\ Proceeds
  <2>1. /\ member' \in [Tick -> [Target -> MemberRecord]]
        /\ member'[work.tick][Current].state \in Held
        /\ member'[work.tick][Current].generation = member[work.tick][Current].generation
        /\ member'[work.tick][Current].result = member[work.tick][Current].result
        /\ OtherMembers
        /\ work' \in WorkRecord /\ work'.at = "loop" /\ work'.tick = work.tick
        /\ UNCHANGED <<ticks, progress, owner, reads, polling>>
    BY <1>3, <1>6, Blocks
  <2>2. TypeOK'
    BY <1>1, <1>4, <1>6, <2>1 DEF TypeOK
  <2> QED BY <1>3, <1>6, <2>1, <2>2 DEF Proceeds
<1>7. faults \in Nat /\ (Faulty => faults' \in Nat)
  BY <1>1 DEF TypeOK, Faulty
<1>8. ASSUME UNCHANGED member
      PROVE  /\ member'[work.tick][Current].state \in Held
             /\ member'[work.tick][Current].generation = member[work.tick][Current].generation
             /\ member'[work.tick][Current].result = member[work.tick][Current].result
             /\ OtherMembers
  BY <1>3, <1>8 DEF Works, OtherMembers
<1>9. CASE Delivered(p)
  <2>1. /\ domain' = Ingested(Sent(p)) /\ Observe(Mine, "accepted")
        /\ work' = [work EXCEPT !.at = "owned"]
        /\ UNCHANGED <<ticks, progress, member, owner, reads, polling, frozen>>
        /\ UNCHANGED <<up, wake, checking, faults>>
    BY <1>3, <1>9 DEF Delivered, Goto
  <2>2. attempts' \subseteq AttemptRecord /\ IsFiniteSet(attempts') /\ Tells(p)
    BY <1>5, <2>1
  <2>3. work' \in WorkRecord /\ work'.at = "owned" /\ Stays
    BY <1>1, <2>1, Places DEF Stays
  <2>4. TypeOK'
    BY <1>1, <1>4, <2>1, <2>2, <2>3 DEF TypeOK
  <2> QED BY <1>3, <1>8, <2>1, <2>2, <2>3, <2>4 DEF Proceeds
<1>10. CASE AnswerRefused(p)
  <2>1. Block /\ UNCHANGED <<frozen, attempts, up, wake, checking, faults>>
    BY <1>10 DEF AnswerRefused
  <2> QED BY <1>5, <1>6, <1>7, <2>1
<1>11. CASE DeliveryContended(p)
  <2>1. /\ Block /\ Faulty /\ UNCHANGED <<frozen, domain, up, wake, checking>>
        /\ Observe(Mine, ContentionAnswer(NextStage(p.unit)))
    BY <1>3, <1>11 DEF DeliveryContended
  <2>2. ContentionAnswer(NextStage(p.unit)) \in {"rejected", "unknown"}
    BY DEF ContentionAnswer
  <2> QED BY <1>5, <1>6, <1>7, <2>1, <2>2
<1>12. CASE ReturnLost(p)
  <2>1. Block /\ Faulty /\ UNCHANGED <<frozen, up, wake, checking>> /\ Observe(Mine, "unknown")
    BY <1>3, <1>12 DEF ReturnLost
  <2> QED BY <1>5, <1>6, <1>7, <2>1
<1>13. CASE CrashDelivering(p)
  <2>1. /\ Faulty /\ up' = FALSE /\ wake' = FALSE /\ checking' = FALSE /\ work' = Idle
        /\ UNCHANGED <<ticks, progress, member, owner, reads, polling, frozen, attempts>>
    BY <1>13 DEF CrashDelivering, durable
  <2>2. Tells(p) /\ attempts' \subseteq AttemptRecord /\ IsFiniteSet(attempts')
    BY <1>5, <2>1
  <2>3. work' \in WorkRecord /\ work'.at = "idle"
    BY <2>1, Starts
  <2>4. TypeOK'
    BY <1>1, <1>4, <1>7, <2>1, <2>2, <2>3 DEF TypeOK
  <2> QED BY <1>3, <1>8, <2>1, <2>2, <2>3, <2>4 DEF Proceeds
<1> QED BY <1>9, <1>10, <1>11, <1>12, <1>13 DEF Deliver

\* Other callers of the collector.
LEMMA OutsideStep ==
    ASSUME IInv, NEW k \in Outside, NEW x \in Target, OutsideEvent(k, x)
    PROVE  TypeOK' /\ Comes
<1>1. TypeOK
  BY DEF IInv
<1> DEFINE e == Event(k, Subject(k, x), NoUnit, "outside")
<1>2. /\ ~ Within(domain, e) /\ domain' = Append(domain, e)
      /\ UNCHANGED <<durable, up, wake, checking, work, faults>>
  BY DEF OutsideEvent
<1>3. e \in EventRecord
  <2>1. k \in Stage /\ Subject(k, x) \in Target \cup {NoTarget}
    BY BoundsAssumption, FourStages DEF Subject
  <2> QED BY <2>1, EventType, NoUnitType
<1>4. domain' \in Seq(EventRecord)
  <2> HIDE DEF e
  <2>1. domain \in Seq(EventRecord)
    BY <1>1 DEF TypeOK
  <2> QED BY <1>2, <1>3, <2>1
<1>5. TypeOK'
  BY <1>1, <1>2, <1>4 DEF TypeOK, durable
<1> QED BY <1>2, <1>5 DEF Comes

\* Every step has a shape, and keeps the tables typed.
LEMMA ShapeOfAStep == ASSUME IInv, [Next]_vars PROVE TypeOK' /\ Shape
<1>1. CASE \/ RunnerStarts \/ RunnerBusy \/ PickTick \/ SkipMember \/ EndOfTick
           \/ Crash \/ Restart \/ StatusBegins \/ StatusEnds \/ UNCHANGED vars
  BY <1>1, MovesStep DEF Shape
<1>2. CASE \E t \in Tick : Dispatch(t)
  <2>1. PICK t \in Tick : Dispatch(t)
    BY <1>2
  <2> QED BY <2>1, DispatchStep DEF Shape
<1>3. CASE ClaimQueued \/ ClaimAgain
  BY <1>3, ClaimStep DEF Shape
<1>4. CASE StartRead \/ WorkRefused \/ \E p \in frozen : HoldSubmission(p)
  BY <1>4, ReadStep DEF Shape
<1>5. CASE \E i \in Inputs : SealRead(i)
  <2>1. PICK i \in Inputs : SealRead(i)
    BY <1>5
  <2> QED BY <2>1, SealStep DEF Shape
<1>6. CASE FreezeSubmission
  BY <1>6, FreezeStep DEF Shape
<1>7. CASE SettleUnchanged \/ SettleRefused \/ \E p \in frozen : SettleComplete(p)
  BY <1>7, SettleStep DEF Shape
<1>8. CASE \E p \in frozen : StartAttempt(p) \/ Deliver(p)
  <2>1. PICK p \in frozen : StartAttempt(p) \/ Deliver(p)
    BY <1>8
  <2> QED BY <2>1, AttemptStep, DeliverStep DEF Shape
<1>9. CASE \E k \in Outside, x \in Target : OutsideEvent(k, x)
  <2>1. PICK k \in Outside, x \in Target : OutsideEvent(k, x)
    BY <1>9
  <2> QED BY <2>1, OutsideStep DEF Shape
<1>10. Next \/ UNCHANGED vars
  OBVIOUS
<1> QED BY <1>1, <1>2, <1>3, <1>4, <1>5, <1>6, <1>7, <1>8, <1>9, <1>10 DEF Next

--------------------------------------------------------------------------------
(* The queue                                                                    *)

\* Admitted ticks keep the order of their admission, and at most one of them is active.
LEMMA QueueOrder ==
    ASSUME IInv
    PROVE  /\ \A t \in Pending : \E i \in DOMAIN ticks : ticks[i] = t
           /\ \A s, t \in Tick : progress[s] = "active" /\ progress[t] = "active" => s = t
           /\ \A s, t \in Tick : progress[s] = "waiting" /\ progress[t] = "waiting" => s = t
<1>1. QueueInv /\ TypeOK
  BY DEF IInv
<1>2. \A i, j \in DOMAIN ticks : i \in Nat /\ j \in Nat /\ (i < j \/ j < i \/ i = j)
  <2>1. DOMAIN ticks \subseteq Nat
    BY <1>1 DEF TypeOK
  <2>2. \A i, j \in Nat : i < j \/ j < i \/ i = j
    OBVIOUS
  <2> QED BY <2>1, <2>2
<1>3. \A t \in Tick : progress[t] # "absent" => \E i \in DOMAIN ticks : ticks[i] = t
  BY <1>1 DEF QueueInv
<1>4. \A t \in Pending : \E i \in DOMAIN ticks : ticks[i] = t
  BY <1>3 DEF Pending
<1>5. ASSUME NEW s \in Tick, NEW t \in Tick, progress[s] = "active", progress[t] = "active"
      PROVE  s = t
  <2>1. PICK i \in DOMAIN ticks : ticks[i] = s
    BY <1>3, <1>5
  <2>2. PICK j \in DOMAIN ticks : ticks[j] = t
    BY <1>3, <1>5
  <2>3. ~ (i < j) /\ ~ (j < i)
    BY <1>1, <1>5, <2>1, <2>2 DEF QueueInv
  <2> QED BY <1>2, <2>1, <2>2, <2>3
<1>6. ASSUME NEW s \in Tick, NEW t \in Tick, progress[s] = "waiting", progress[t] = "waiting"
      PROVE  s = t
  <2>1. PICK i \in DOMAIN ticks : ticks[i] = s
    BY <1>3, <1>6
  <2>2. PICK j \in DOMAIN ticks : ticks[j] = t
    BY <1>3, <1>6
  <2>3. ~ (i < j) /\ ~ (j < i)
    BY <1>1, <1>6, <2>1, <2>2 DEF QueueInv
  <2> QED BY <1>2, <2>1, <2>2, <2>3
<1> QED BY <1>4, <1>5, <1>6

\* What an admission finds pending decides what becomes of it.
LEMMA DispositionIs ==
    ASSUME IInv
    PROVE  /\ Disposition = "active" => Pending = {}
           /\ Disposition = "waiting" => \A s \in Tick : progress[s] # "waiting"
           /\ Disposition = "waiting" => \E a \in Tick : progress[a] = "active"
           /\ Disposition = "coalesced" => \E s \in Tick : progress[s] = "waiting"
           /\ Disposition = "coalesced" => \E a \in Tick : progress[a] = "active"
           /\ Disposition \in {"active", "waiting", "coalesced"}
<1>1. QueueInv
  BY DEF IInv
<1>2. CASE Pending = {}
  <2>1. Cardinality(Pending) # 1
    BY <1>2, FS_EmptySet
  <2>2. Disposition = "active"
    BY <1>2, <2>1 DEF Disposition
  <2> QED BY <1>2, <2>2
<1>3. CASE Pending # {}
  <2>1. PICK a \in Tick : progress[a] = "active"
    BY <1>1, <1>3 DEF QueueInv
  <2>2. CASE \E w \in Tick : progress[w] = "waiting"
    <3>1. PICK w \in Tick : progress[w] = "waiting"
      BY <2>2
    <3>2. Pending = {a} \cup {w} /\ w # a
      BY <2>1, <3>1, QueueOrder DEF Pending
    <3>3. Cardinality({a} \cup {w}) = 2
      <4>1. IsFiniteSet({a}) /\ Cardinality({a}) = 1
        BY FS_Singleton
      <4>2. Cardinality({a} \cup {w}) = IF w \in {a} THEN Cardinality({a}) ELSE Cardinality({a}) + 1
        BY <4>1, FS_AddElement
      <4> QED BY <3>2, <4>1, <4>2
    <3>4. Disposition = "coalesced"
      BY <1>3, <3>2, <3>3 DEF Disposition
    <3> QED BY <2>1, <3>1, <3>4
  <2>3. CASE ~ \E w \in Tick : progress[w] = "waiting"
    <3>1. Pending = {a}
      BY <2>1, <2>3, QueueOrder DEF Pending
    <3>2. Cardinality({a}) = 1
      BY FS_Singleton
    <3>3. Disposition = "waiting"
      BY <1>3, <3>1, <3>2 DEF Disposition
    <3> QED BY <2>1, <2>3, <3>3
  <2> QED BY <2>2, <2>3
<1> QED BY <1>2, <1>3

\* The queue keeps its order through an admission.
LEMMA QueueAdmits ==
    ASSUME IInv, NEW t \in Tick, Admits(t)
    PROVE  QueueInv'
<1>1. QueueInv /\ TypeOK
  BY DEF IInv
<1> DEFINE n == Len(ticks) + 1
<1>2. /\ progress[t] = "absent" /\ ticks' = Append(ticks, t)
      /\ progress' = [progress EXCEPT ![t] = Disposition]
  BY DEF Admits, Admit
<1>3. ticks \in Seq(Tick) /\ DOMAIN progress = Tick
  BY <1>1 DEF TypeOK
<1>4. /\ Len(ticks) \in Nat /\ n \in Nat /\ DOMAIN ticks = 1..Len(ticks) /\ DOMAIN ticks' = 1..n
      /\ ticks'[n] = t
      /\ \A i \in DOMAIN ticks : i \in DOMAIN ticks' /\ ticks'[i] = ticks[i]
      /\ \A i \in DOMAIN ticks' : i \in DOMAIN ticks \/ i = n
  <2>1. LET r == Append(ticks, t)
        IN  /\ Len(ticks) \in Nat /\ DOMAIN ticks = 1..Len(ticks) /\ DOMAIN r = 1..n
            /\ r[n] = t
            /\ \A i \in DOMAIN ticks : i \in DOMAIN r /\ r[i] = ticks[i]
            /\ \A i \in DOMAIN r : i \in DOMAIN ticks \/ i = n
    BY <1>3, Appended
  <2> QED BY <1>2, <2>1
<1>5. n \in DOMAIN ticks' /\ \A i \in DOMAIN ticks : i < n /\ ~ (n < i) /\ i # n
  <2>1. n \in 1..n
    BY <1>4
  <2>2. \A i \in 1..Len(ticks) : i < n /\ ~ (n < i) /\ i # n
    BY <1>4
  <2> QED BY <1>4, <2>1, <2>2
<1>6. \A i \in DOMAIN ticks : ticks[i] # t /\ ticks[i] \in Tick
  BY <1>1, <1>2, <1>3 DEF QueueInv
<1>7. progress'[t] = Disposition /\ \A s \in Tick : s # t => progress'[s] = progress[s]
  BY <1>2, <1>3
<1> HIDE DEF n
<1>8. \A i, j \in DOMAIN ticks' : ticks'[i] = ticks'[j] => i = j
  BY <1>1, <1>4, <1>6 DEF QueueInv
<1>9. \A s \in Tick : progress'[s] # "absent" <=> \E i \in DOMAIN ticks' : ticks'[i] = s
  <2>1. \A s \in Tick : progress[s] # "absent" <=> \E i \in DOMAIN ticks : ticks[i] = s
    BY <1>1 DEF QueueInv
  <2>2. Disposition # "absent"
    BY DispositionIs
  <2> QED BY <1>4, <1>5, <1>7, <2>1, <2>2
<1>10. ASSUME NEW i \in DOMAIN ticks', NEW j \in DOMAIN ticks', i < j
       PROVE  /\ progress'[ticks'[j]] \in {"complete", "active"} =>
                    progress'[ticks'[i]] \in {"complete", "coalesced"}
              /\ progress'[ticks'[j]] = "waiting" => progress'[ticks'[i]] # "waiting"
  <2>1. i \in DOMAIN ticks
    BY <1>4, <1>5, <1>10
  <2>2. ticks'[i] = ticks[i] /\ progress'[ticks'[i]] = progress[ticks[i]] /\ ticks[i] \in Tick
    BY <1>4, <1>6, <1>7, <2>1
  <2>3. CASE j \in DOMAIN ticks
    <3>1. ticks'[j] = ticks[j] /\ progress'[ticks'[j]] = progress[ticks[j]]
      BY <1>4, <1>6, <1>7, <2>3
    <3> QED BY <1>1, <1>10, <2>1, <2>2, <2>3, <3>1 DEF QueueInv
  <2>4. CASE j = n
    <3>1. progress'[ticks'[j]] = Disposition
      BY <1>4, <1>7, <2>4
    <3>2. Disposition = "active" => progress[ticks[i]] \in {"complete", "coalesced"}
      <4>1. progress[ticks[i]] \in {"absent", "active", "waiting", "coalesced", "complete"}
        BY <1>1, <2>2 DEF TypeOK
      <4>2. progress[ticks[i]] # "absent"
        BY <1>1, <2>1, <2>2 DEF QueueInv
      <4>3. Disposition = "active" => progress[ticks[i]] \notin {"active", "waiting"}
        BY <2>2, DispositionIs DEF Pending
      <4> QED BY <4>1, <4>2, <4>3
    <3> QED BY <2>2, <3>1, <3>2, DispositionIs
  <2> QED BY <1>4, <2>3, <2>4
<1>11. \A s \in Pending' : \E a \in Tick : progress'[a] = "active"
  <2>1. CASE \E a \in Tick : progress[a] = "active"
    BY <1>2, <1>7, <2>1
  <2>2. CASE ~ \E a \in Tick : progress[a] = "active"
    <3>1. Pending = {}
      BY <1>1, <2>2 DEF QueueInv
    <3>2. Disposition = "active"
      <4>1. Cardinality(Pending) # 1
        BY <3>1, FS_EmptySet
      <4> QED BY <3>1, <4>1 DEF Disposition
    <3> QED BY <1>7, <3>2
  <2> QED BY <2>1, <2>2
<1> QED BY <1>8, <1>9, <1>10, <1>11 DEF QueueInv

\* A tick ends when its last member does, and the waiting one comes next.
LEMMA TickEnds ==
    ASSUME IInv, NEW r, Ends(r), progress' # progress
    PROVE  /\ progress'[work.tick] = "complete"
           /\ \A t \in Tick : progress[t] = "waiting" => progress'[t] = "active"
           /\ \A t \in Tick : t # work.tick /\ progress[t] # "waiting" => progress'[t] = progress[t]
           /\ \A y \in Target \ {Current} : member[work.tick][y].state = "terminal"
<1>1. /\ progress' = Completed(work.tick) /\ work.tick \in Tick
      /\ \A y \in Target \ {Current} : member[work.tick][y].state = "terminal"
      /\ progress[work.tick] = "active"
  BY DEF Ends, Works, Stands
<1>2. \A t \in Tick : progress'[t] = CASE t = work.tick -> "complete"
                                       [] t # work.tick /\ progress[t] = "waiting" -> "active"
                                       [] OTHER -> progress[t]
  BY <1>1 DEF Completed
<1> QED BY <1>1, <1>2

\* The queue keeps its order when a member ends.
LEMMA QueueEnds ==
    ASSUME IInv, NEW r, Ends(r)
    PROVE  QueueInv'
<1>1. QueueInv /\ TypeOK
  BY DEF IInv
<1>2. UNCHANGED ticks /\ work.tick \in Tick /\ progress[work.tick] = "active"
  BY DEF Ends, Works, Stands
<1>3. CASE progress' = progress
  BY <1>1, <1>2, <1>3 DEF QueueInv, Pending
<1>4. CASE progress' # progress
  <2>1. /\ progress'[work.tick] = "complete"
        /\ \A t \in Tick : progress[t] = "waiting" => progress'[t] = "active"
        /\ \A t \in Tick : t # work.tick /\ progress[t] # "waiting" => progress'[t] = progress[t]
    BY <1>4, TickEnds
  <2>2. \A i \in DOMAIN ticks :
           /\ ticks[i] \in Tick
           /\ progress[ticks[i]] \in {"active", "waiting", "coalesced", "complete"}
    BY <1>1 DEF QueueInv, TypeOK
  <2>3. \A i \in DOMAIN ticks : progress[ticks[i]] = "active" => ticks[i] = work.tick
    BY <1>2, <2>2, QueueOrder
  <2>4. \A t \in Tick : progress'[t] # "absent" <=> \E i \in DOMAIN ticks' : ticks'[i] = t
    <3>1. \A t \in Tick : progress'[t] = "absent" <=> progress[t] = "absent"
      BY <1>2, <2>1
    <3> QED BY <1>1, <1>2, <3>1 DEF QueueInv
  <2>5. ASSUME NEW i \in DOMAIN ticks, NEW j \in DOMAIN ticks, i < j
        PROVE  /\ progress'[ticks[j]] \in {"complete", "active"} =>
                     progress'[ticks[i]] \in {"complete", "coalesced"}
               /\ progress'[ticks[j]] = "waiting" => progress'[ticks[i]] # "waiting"
    <3>1. progress[ticks[j]] \in {"complete", "active"} =>
             progress[ticks[i]] \in {"complete", "coalesced"}
      BY <1>1, <2>5 DEF QueueInv
    <3>2. progress[ticks[j]] = "waiting" => progress[ticks[i]] # "waiting"
      BY <1>1, <2>5 DEF QueueInv
    <3>3. progress[ticks[i]] \in {"complete", "coalesced"} => progress'[ticks[i]] = progress[ticks[i]]
      BY <1>2, <2>1, <2>2
    <3>4. progress[ticks[i]] = "active" => progress'[ticks[i]] = "complete"
      BY <2>1, <2>2, <2>3
    <3>5. progress'[ticks[j]] # "waiting"
      BY <2>1, <2>2
    <3>6. progress'[ticks[j]] \in {"complete", "active"} =>
             progress[ticks[j]] \in {"complete", "active", "waiting"}
      <4>1. CASE ticks[j] = work.tick
        BY <1>2, <4>1
      <4>2. CASE ticks[j] # work.tick /\ progress[ticks[j]] # "waiting"
        <5>1. progress'[ticks[j]] = progress[ticks[j]]
          BY <2>1, <2>2, <4>2
        <5> QED BY <5>1
      <4> QED BY <4>1, <4>2
    <3>7. progress[ticks[i]] \in {"active", "waiting", "coalesced", "complete"}
      BY <2>2
    <3> QED BY <3>1, <3>2, <3>3, <3>4, <3>5, <3>6, <3>7
  <2>6. \A t \in Pending' : \E s \in Tick : progress'[s] = "active"
    <3>1. \A t \in Tick : progress'[t] # "waiting"
      BY <2>1
    <3> QED BY <3>1 DEF Pending
  <2>7. \A i, j \in DOMAIN ticks' : i < j =>
           /\ progress'[ticks'[j]] \in {"complete", "active"} =>
                 progress'[ticks'[i]] \in {"complete", "coalesced"}
           /\ progress'[ticks'[j]] = "waiting" => progress'[ticks'[i]] # "waiting"
    BY <1>2, <2>5
  <2>8. \A i, j \in DOMAIN ticks' : ticks'[i] = ticks'[j] => i = j
    BY <1>1, <1>2 DEF QueueInv
  <2> QED BY <2>4, <2>6, <2>7, <2>8 DEF QueueInv
<1> QED BY <1>3, <1>4

\* The queue keeps its order.
LEMMA QueueStep == ASSUME IInv, Shape PROVE QueueInv'
<1>1. QueueInv
  BY DEF IInv
<1>2. CASE UNCHANGED <<ticks, progress>>
  BY <1>1, <1>2 DEF QueueInv, Pending
<1>3. CASE \E t \in Tick : Admits(t)
  BY <1>3, QueueAdmits
<1>4. CASE \E r \in {"unchanged", "refused", "complete"} : Ends(r)
  BY <1>4, QueueEnds
<1>5. \/ UNCHANGED <<ticks, progress>>
      \/ \E t \in Tick : Admits(t)
      \/ \E r \in {"unchanged", "refused", "complete"} : Ends(r)
  BY DEF Shape, Moves, Claims, Seals, SealRead, Freezes, FreezeSubmission, Proceeds, Comes, durable
<1> QED BY <1>2, <1>3, <1>4, <1>5

--------------------------------------------------------------------------------
(* The members and their targets                                                *)

\* There is a target.
LEMMA ATarget == Target # {}
<1>1. 1 \in DOMAIN Order
  <2>1. Len(Order) \in Nat /\ Len(Order) # 0 /\ DOMAIN Order = 1..Len(Order)
    BY OrderAssumption
  <2> QED BY <2>1
<1> QED BY <1>1, Targets

\* An admitted tick has its members queued, unless it is coalesced.
LEMMA Admitted ==
    ASSUME IInv, NEW t \in Tick, Admits(t)
    PROVE  /\ progress'[t] = Disposition
           /\ \A s \in Tick : s # t => progress'[s] = progress[s] /\ member'[s] = member[s]
           /\ \A y \in Target : /\ member[t][y].state = "none" /\ member[t][y].result = "none"
                                /\ member'[t][y].generation = member[t][y].generation
                                /\ member'[t][y].result = "none"
           /\ \A y \in Target :
                 member'[t][y].state = IF Disposition = "coalesced" THEN "none" ELSE "queued"
<1>1. TypeOK /\ MemberInv
  BY DEF IInv
<1>2. /\ progress[t] = "absent"
      /\ progress' = [progress EXCEPT ![t] = Disposition]
      /\ member' = IF Disposition = "coalesced" THEN member
                   ELSE [member EXCEPT ![t] =
                            [x \in Target |-> [member[t][x] EXCEPT !.state = "queued"]]]
  BY DEF Admits, Admit
<1>3. DOMAIN progress = Tick /\ member \in [Tick -> [Target -> MemberRecord]]
  BY <1>1 DEF TypeOK
<1>4. progress'[t] = Disposition /\ \A s \in Tick : s # t => progress'[s] = progress[s]
  BY <1>2, <1>3
<1>5. \A y \in Target : member[t][y].state = "none"
  BY <1>1, <1>2 DEF MemberInv
<1>6. \A y \in Target : member[t][y].result = "none"
  <2>1. \A y \in Target : member[t][y].result # "none" <=> member[t][y].state = "terminal"
    BY <1>1 DEF MemberInv
  <2> QED BY <1>5, <2>1
<1>7. CASE Disposition = "coalesced"
  <2>1. member' = member
    BY <1>2, <1>7
  <2> QED BY <1>4, <1>5, <1>6, <1>7, <2>1
<1>8. CASE Disposition # "coalesced"
  <2> DEFINE row == [x \in Target |-> [member[t][x] EXCEPT !.state = "queued"]]
  <2>1. member' = [member EXCEPT ![t] = row]
    BY <1>2, <1>8
  <2>2. ASSUME NEW y \in Target
        PROVE  /\ row[y].state = "queued" /\ row[y].result = member[t][y].result
               /\ row[y].generation = member[t][y].generation
    <3>1. row[y] = [member[t][y] EXCEPT !.state = "queued"]
      OBVIOUS
    <3>2. member[t][y] \in MemberRecord
      BY <1>3
    <3> HIDE DEF row
    <3> QED BY <3>1, <3>2 DEF MemberRecord
  <2> HIDE DEF row
  <2>3. member'[t] = row /\ \A s \in Tick : s # t => member'[s] = member[s]
    BY <1>3, <2>1
  <2> QED BY <1>4, <1>5, <1>6, <1>8, <2>2, <2>3
<1> QED BY <1>7, <1>8

\* The members keep step with their ticks through an admission.
LEMMA MemberAdmits ==
    ASSUME IInv, NEW t \in Tick, Admits(t)
    PROVE  MemberInv'
<1>1. MemberInv
  BY DEF IInv
<1>2. /\ progress'[t] = Disposition
      /\ \A s \in Tick : s # t => progress'[s] = progress[s] /\ member'[s] = member[s]
      /\ \A y \in Target : member'[t][y].result = "none"
      /\ \A y \in Target :
            member'[t][y].state = IF Disposition = "coalesced" THEN "none" ELSE "queued"
  BY Admitted
<1>3. ASSUME NEW s \in Tick
      PROVE  /\ progress'[s] \in {"absent", "coalesced"} =>
                   \A x \in Target : member'[s][x].state = "none"
             /\ progress'[s] = "waiting" => \A x \in Target : member'[s][x].state = "queued"
             /\ progress'[s] = "complete" <=> \A x \in Target : member'[s][x].state = "terminal"
             /\ \A x \in Target : member'[s][x].result # "none" <=> member'[s][x].state = "terminal"
  <2>1. CASE s # t
    <3>1. progress'[s] = progress[s] /\ member'[s] = member[s]
      BY <1>2, <2>1
    <3> QED BY <1>1, <3>1 DEF MemberInv
  <2>2. CASE s = t
    <3>1. Disposition \in {"active", "waiting", "coalesced"}
      BY DispositionIs
    <3>2. ~ \A x \in Target : member'[t][x].state = "terminal"
      BY <1>2, ATarget
    <3> QED BY <1>2, <2>2, <3>1, <3>2
  <2> QED BY <2>1, <2>2
<1> QED BY <1>3 DEF MemberInv

\* The members keep step with their ticks when one of them is worked on.
LEMMA MemberWorks ==
    ASSUME IInv, Stands, OtherMembers, UNCHANGED progress,
           member'[work.tick][Current].state \in Held,
           member[work.tick][Current].state \in Held \cup {"queued"},
           member'[work.tick][Current].result = member[work.tick][Current].result
    PROVE  MemberInv'
<1>1. MemberInv
  BY DEF IInv
<1>2. work.tick \in Tick /\ Current \in Target /\ progress[work.tick] = "active"
  BY DEF Stands
<1>3. \A s \in Tick, x \in Target : s # work.tick \/ x # Current => member'[s][x] = member[s][x]
  BY DEF OtherMembers
<1>4. /\ member'[work.tick][Current].state # "terminal"
      /\ member'[work.tick][Current].result = "none"
  BY <1>1, <1>2 DEF MemberInv, Held
<1>5. ASSUME NEW s \in Tick
      PROVE  /\ progress'[s] \in {"absent", "coalesced"} =>
                   \A x \in Target : member'[s][x].state = "none"
             /\ progress'[s] = "waiting" => \A x \in Target : member'[s][x].state = "queued"
             /\ progress'[s] = "complete" <=> \A x \in Target : member'[s][x].state = "terminal"
             /\ \A x \in Target : member'[s][x].result # "none" <=> member'[s][x].state = "terminal"
  <2>1. CASE s # work.tick
    <3>1. \A x \in Target : member'[s][x] = member[s][x]
      BY <1>3, <2>1
    <3> QED BY <1>1, <3>1 DEF MemberInv
  <2>2. CASE s = work.tick
    <3>1. \A x \in Target : member'[s][x].result # "none" <=> member'[s][x].state = "terminal"
      BY <1>1, <1>3, <1>4, <2>2 DEF MemberInv
    <3> QED BY <1>2, <1>4, <2>2, <3>1
  <2> QED BY <2>1, <2>2
<1> QED BY <1>5 DEF MemberInv

\* The members keep step with their ticks when one of them ends.
LEMMA MemberEnds ==
    ASSUME IInv, NEW r \in {"unchanged", "refused", "complete"}, Ends(r)
    PROVE  MemberInv'
<1>1. MemberInv
  BY DEF IInv
<1> DEFINE c == work.tick
           x == Current
<1>2. /\ c \in Tick /\ x \in Target /\ progress[c] = "active"
      /\ member'[c][x].state = "terminal" /\ member'[c][x].result # "none"
  BY DEF Ends, Works, Stands
<1>3. \A s \in Tick, y \in Target : s # c \/ y # x => member'[s][y] = member[s][y]
  BY DEF Ends, OtherMembers
<1>4. progress' = IF \A y \in Target \ {x} : member[c][y].state = "terminal"
                  THEN Completed(c) ELSE progress
  BY DEF Ends
<1>5. progress' # progress =>
         /\ progress'[c] = "complete"
         /\ \A t \in Tick : progress[t] = "waiting" => progress'[t] = "active"
         /\ \A t \in Tick : t # c /\ progress[t] # "waiting" => progress'[t] = progress[t]
         /\ \A y \in Target \ {x} : member[c][y].state = "terminal"
  BY TickEnds
<1>6. Completed(c)[c] = "complete"
  BY <1>2 DEF Completed
<1>7. CASE progress' = progress
  <2>1. PICK y \in Target \ {x} : member[c][y].state # "terminal"
    BY <1>2, <1>4, <1>6, <1>7
  <2> HIDE DEF c, x
  <2>2. member'[c][y] = member[c][y]
    BY <1>2, <1>3
  <2>3. ASSUME NEW s \in Tick
        PROVE  /\ progress'[s] \in {"absent", "coalesced"} =>
                     \A z \in Target : member'[s][z].state = "none"
               /\ progress'[s] = "waiting" => \A z \in Target : member'[s][z].state = "queued"
               /\ progress'[s] = "complete" <=> \A z \in Target : member'[s][z].state = "terminal"
               /\ \A z \in Target : member'[s][z].result # "none" <=> member'[s][z].state = "terminal"
    <3>1. CASE s # c
      <4>1. \A z \in Target : member'[s][z] = member[s][z]
        BY <1>3, <3>1
      <4> QED BY <1>1, <1>7, <4>1 DEF MemberInv
    <3>2. CASE s = c
      <4>1. \A z \in Target : member'[s][z].result # "none" <=> member'[s][z].state = "terminal"
        BY <1>1, <1>2, <1>3, <3>2 DEF MemberInv
      <4> QED BY <1>2, <1>7, <2>1, <2>2, <3>2, <4>1
    <3> QED BY <3>1, <3>2
  <2> QED BY <2>3 DEF MemberInv
<1>8. CASE progress' # progress
  <2>1. /\ progress'[c] = "complete"
        /\ \A t \in Tick : progress[t] = "waiting" => progress'[t] = "active"
        /\ \A t \in Tick : t # c /\ progress[t] # "waiting" => progress'[t] = progress[t]
        /\ \A y \in Target \ {x} : member[c][y].state = "terminal"
    BY <1>5, <1>8
  <2> HIDE DEF c, x
  <2>2. ASSUME NEW s \in Tick
        PROVE  /\ progress'[s] \in {"absent", "coalesced"} =>
                     \A z \in Target : member'[s][z].state = "none"
               /\ progress'[s] = "waiting" => \A z \in Target : member'[s][z].state = "queued"
               /\ progress'[s] = "complete" <=> \A z \in Target : member'[s][z].state = "terminal"
               /\ \A z \in Target : member'[s][z].result # "none" <=> member'[s][z].state = "terminal"
    <3>1. CASE s = c
      <4>1. \A z \in Target : member'[c][z].state = "terminal"
        BY <1>2, <1>3, <2>1
      <4>2. \A z \in Target : member'[c][z].result # "none" <=> member'[c][z].state = "terminal"
        BY <1>1, <1>2, <1>3 DEF MemberInv
      <4> QED BY <2>1, <3>1, <4>1, <4>2
    <3>2. CASE s # c
      <4>1. \A z \in Target : member'[s][z] = member[s][z]
        BY <1>3, <3>2
      <4>2. CASE progress[s] # "waiting"
        <5>1. progress'[s] = progress[s]
          BY <2>1, <3>2, <4>2
        <5> QED BY <1>1, <4>1, <5>1 DEF MemberInv
      <4>3. CASE progress[s] = "waiting"
        <5>1. progress'[s] = "active"
          BY <2>1, <4>3
        <5>2. \A z \in Target : member'[s][z].state = "queued"
          BY <1>1, <4>1, <4>3 DEF MemberInv
        <5>3. \A z \in Target : member'[s][z].result # "none" <=> member'[s][z].state = "terminal"
          BY <1>1, <4>1 DEF MemberInv
        <5> QED BY <5>1, <5>2, <5>3, ATarget
      <4> QED BY <4>2, <4>3
    <3> QED BY <3>1, <3>2
  <2> QED BY <2>2 DEF MemberInv
<1> QED BY <1>7, <1>8

\* The members keep step with their ticks.
LEMMA MemberStep == ASSUME IInv, Shape PROVE MemberInv'
<1>1. MemberInv
  BY DEF IInv
<1>2. CASE UNCHANGED <<progress, member>>
  BY <1>1, <1>2 DEF MemberInv
<1>3. CASE \E t \in Tick : Admits(t)
  BY <1>3, MemberAdmits
<1>4. CASE \E r \in {"unchanged", "refused", "complete"} : Ends(r)
  BY <1>4, MemberEnds
<1>5. CASE \E g \in Nat : Claims(g)
  <2>1. "claimed" \in Held
    BY DEF Held
  <2> QED BY <1>5, <2>1, MemberWorks DEF Claims
<1>6. CASE Proceeds
  BY <1>6, MemberWorks DEF Proceeds, Works
<1>7. \/ UNCHANGED <<progress, member>>
      \/ \E t \in Tick : Admits(t)
      \/ \E r \in {"unchanged", "refused", "complete"} : Ends(r)
      \/ \E g \in Nat : Claims(g)
      \/ Proceeds
  BY DEF Shape, Moves, Seals, SealRead, Freezes, FreezeSubmission, Comes, durable
<1> QED BY <1>2, <1>3, <1>4, <1>5, <1>6, <1>7

\* What owning a target under a claim means for its row.
LEMMA OwnsRow ==
    \A t \in Tick, x \in Target :
        Owns(Unit(t, x)) <=> owner[x] = [tick |-> t, generation |-> member[t][x].generation,
                                         held |-> TRUE]
BY DEF Owns, Unit

\* The targets stay fenced through an admission.
LEMMA FenceAdmits ==
    ASSUME IInv, NEW t \in Tick, Admits(t)
    PROVE  FenceInv'
<1>1. FenceInv
  BY DEF IInv
<1>2. owner' = owner /\ progress[t] = "absent"
  BY DEF Admits, Admit
<1>3. /\ \A s \in Tick : s # t => progress'[s] = progress[s] /\ member'[s] = member[s]
      /\ \A y \in Target : member'[t][y].state \notin Held
  BY Admitted DEF Held
<1>4. ASSUME NEW x \in Target, owner'[x].held
      PROVE  /\ owner'[x].tick \in Tick
             /\ progress'[owner'[x].tick] = "active"
             /\ member'[owner'[x].tick][x].state \in Held
             /\ member'[owner'[x].tick][x].generation = owner'[x].generation
  <2>1. /\ owner[x].tick \in Tick /\ progress[owner[x].tick] = "active"
        /\ member[owner[x].tick][x].state \in Held
        /\ member[owner[x].tick][x].generation = owner[x].generation
    BY <1>1, <1>2, <1>4 DEF FenceInv
  <2> QED BY <1>2, <1>3, <2>1
<1>5. ASSUME NEW s \in Tick, NEW x \in Target, member'[s][x].state \in Held
      PROVE  Owns(Unit(s, x))'
  <2>1. s # t /\ member'[s] = member[s]
    BY <1>3, <1>5
  <2>2. Owns(Unit(s, x))
    BY <1>1, <1>5, <2>1 DEF FenceInv
  <2> QED BY <1>2, <2>1, <2>2 DEF Owns, Unit
<1> QED BY <1>4, <1>5 DEF FenceInv

\* The targets stay fenced through a claim.
LEMMA FenceClaims ==
    ASSUME IInv, NEW g \in Nat, Claims(g)
    PROVE  FenceInv'
<1> DEFINE c == work.tick
           x == Current
<1>1. FenceInv
  BY DEF IInv
<1>2. /\ c \in Tick /\ x \in Target /\ progress[c] = "active" /\ progress' = progress
      /\ owner[x].held => owner[x].tick = c
      /\ owner'[x] = [tick |-> c, generation |-> g, held |-> TRUE]
      /\ member'[c][x].state = "claimed" /\ member'[c][x].generation = g
  BY DEF Claims, Stands
<1>3. \A s \in Tick, y \in Target : s # c \/ y # x => member'[s][y] = member[s][y]
  BY DEF Claims, OtherMembers
<1>4. \A y \in Target : y # x => owner'[y] = owner[y]
  BY DEF Claims, OtherOwners
<1> HIDE DEF c, x
<1>5. "claimed" \in Held
  BY DEF Held
<1>6. ASSUME NEW y \in Target, owner'[y].held
      PROVE  /\ owner'[y].tick \in Tick
             /\ progress'[owner'[y].tick] = "active"
             /\ member'[owner'[y].tick][y].state \in Held
             /\ member'[owner'[y].tick][y].generation = owner'[y].generation
  <2>1. CASE y = x
    BY <1>2, <1>5, <2>1
  <2>2. CASE y # x
    <3>1. owner'[y] = owner[y]
      BY <1>4, <2>2
    <3>2. /\ owner[y].tick \in Tick /\ progress[owner[y].tick] = "active"
          /\ member[owner[y].tick][y].state \in Held
          /\ member[owner[y].tick][y].generation = owner[y].generation
      BY <1>1, <1>6, <3>1 DEF FenceInv
    <3>3. member'[owner[y].tick][y] = member[owner[y].tick][y]
      BY <1>3, <2>2, <3>2
    <3> QED BY <1>2, <3>1, <3>2, <3>3
  <2> QED BY <2>1, <2>2
<1>7. ASSUME NEW s \in Tick, NEW y \in Target, member'[s][y].state \in Held
      PROVE  Owns(Unit(s, y))'
  <2>1. CASE s = c /\ y = x
    <3>1. owner'[y] = [tick |-> s, generation |-> member'[s][y].generation, held |-> TRUE]
      BY <1>2, <2>1
    <3> QED BY <3>1 DEF Owns, Unit
  <2>2. CASE ~ (s = c /\ y = x)
    <3>1. member'[s][y] = member[s][y]
      BY <1>3, <2>2
    <3>2. Owns(Unit(s, y))
      BY <1>1, <1>7, <3>1 DEF FenceInv
    <3>3. owner[y] = [tick |-> s, generation |-> member[s][y].generation, held |-> TRUE]
      BY <3>2, OwnsRow
    <3>4. y # x
      BY <1>2, <2>2, <3>3
    <3>5. owner'[y] = owner[y]
      BY <1>4, <3>4
    <3> QED BY <3>1, <3>3, <3>5 DEF Owns, Unit
  <2> QED BY <2>1, <2>2
<1> QED BY <1>6, <1>7 DEF FenceInv

\* The targets stay fenced while a member is worked on.
LEMMA FenceProceeds ==
    ASSUME IInv, Proceeds
    PROVE  FenceInv'
<1> DEFINE c == work.tick
           x == Current
<1>1. FenceInv
  BY DEF IInv
<1>2. /\ c \in Tick /\ x \in Target /\ progress' = progress /\ owner' = owner
      /\ member[c][x].state \in Held /\ member'[c][x].state \in Held
      /\ member'[c][x].generation = member[c][x].generation
  BY DEF Proceeds, Works, Stands
<1>3. \A s \in Tick, y \in Target : s # c \/ y # x => member'[s][y] = member[s][y]
  BY DEF Proceeds, OtherMembers
<1> HIDE DEF c, x
<1>4. \A s \in Tick, y \in Target :
         /\ member'[s][y].state \in Held <=> member[s][y].state \in Held
         /\ member'[s][y].generation = member[s][y].generation
  BY <1>2, <1>3
<1>5. ASSUME NEW y \in Target, owner'[y].held
      PROVE  /\ owner'[y].tick \in Tick
             /\ progress'[owner'[y].tick] = "active"
             /\ member'[owner'[y].tick][y].state \in Held
             /\ member'[owner'[y].tick][y].generation = owner'[y].generation
  BY <1>1, <1>2, <1>4, <1>5 DEF FenceInv
<1>6. ASSUME NEW s \in Tick, NEW y \in Target, member'[s][y].state \in Held
      PROVE  Owns(Unit(s, y))'
  <2>1. Owns(Unit(s, y))
    BY <1>1, <1>4, <1>6 DEF FenceInv
  <2> QED BY <1>2, <1>4, <2>1 DEF Owns, Unit
<1> QED BY <1>5, <1>6 DEF FenceInv

\* The targets stay fenced when a member ends.
LEMMA FenceEnds ==
    ASSUME IInv, NEW r, Ends(r)
    PROVE  FenceInv'
<1> DEFINE c == work.tick
           x == Current
<1>1. FenceInv
  BY DEF IInv
<1>2. /\ c \in Tick /\ x \in Target /\ progress[c] = "active"
      /\ member[c][x].state \in Held
      /\ member'[c][x].state = "terminal" /\ ~ owner'[x].held
  BY DEF Ends, Works, Stands
<1>3. \A s \in Tick, y \in Target : s # c \/ y # x => member'[s][y] = member[s][y]
  BY DEF Ends, OtherMembers
<1>4. \A y \in Target : y # x => owner'[y] = owner[y]
  BY DEF Ends, OtherOwners
<1>5. owner[x].tick = c
  <2>1. Owns(Unit(c, x))
    BY <1>1, <1>2 DEF FenceInv
  <2> HIDE DEF c, x
  <2>2. owner[x] = [tick |-> c, generation |-> member[c][x].generation, held |-> TRUE]
    BY <1>2, <2>1, OwnsRow
  <2> QED BY <2>2
<1>6. progress' # progress =>
         /\ \A t \in Tick : t # c /\ progress[t] # "waiting" => progress'[t] = progress[t]
         /\ \A y \in Target \ {x} : member[c][y].state = "terminal"
  BY TickEnds
<1> HIDE DEF c, x
<1>7. ASSUME NEW y \in Target, owner'[y].held
      PROVE  /\ owner'[y].tick \in Tick
             /\ progress'[owner'[y].tick] = "active"
             /\ member'[owner'[y].tick][y].state \in Held
             /\ member'[owner'[y].tick][y].generation = owner'[y].generation
  <2>1. y # x /\ owner'[y] = owner[y]
    BY <1>2, <1>4, <1>7
  <2>2. /\ owner[y].tick \in Tick /\ progress[owner[y].tick] = "active"
        /\ member[owner[y].tick][y].state \in Held
        /\ member[owner[y].tick][y].generation = owner[y].generation
    BY <1>1, <1>7, <2>1 DEF FenceInv
  <2>3. member'[owner[y].tick][y] = member[owner[y].tick][y]
    BY <1>3, <2>1, <2>2
  <2>4. progress'[owner[y].tick] = "active"
    <3>1. CASE progress' = progress
      BY <2>2, <3>1
    <3>2. CASE progress' # progress
      <4>1. owner[y].tick # c
        BY <1>6, <2>1, <2>2, <3>2 DEF Held
      <4> QED BY <1>6, <2>2, <3>2, <4>1
    <3> QED BY <3>1, <3>2
  <2> QED BY <2>1, <2>2, <2>3, <2>4
<1>8. ASSUME NEW s \in Tick, NEW y \in Target, member'[s][y].state \in Held
      PROVE  Owns(Unit(s, y))'
  <2>1. ~ (s = c /\ y = x)
    BY <1>2, <1>8 DEF Held
  <2>2. member'[s][y] = member[s][y]
    BY <1>3, <2>1
  <2>3. Owns(Unit(s, y))
    BY <1>1, <1>8, <2>2 DEF FenceInv
  <2>4. owner[y] = [tick |-> s, generation |-> member[s][y].generation, held |-> TRUE]
    BY <2>3, OwnsRow
  <2>5. y # x
    BY <1>5, <2>1, <2>4
  <2>6. owner'[y] = owner[y]
    BY <1>4, <2>5
  <2> QED BY <2>2, <2>4, <2>6 DEF Owns, Unit
<1> QED BY <1>7, <1>8 DEF FenceInv

\* The targets stay fenced.
LEMMA FenceStep == ASSUME IInv, Shape PROVE FenceInv'
<1>1. FenceInv
  BY DEF IInv
<1>2. CASE UNCHANGED <<progress, member, owner>>
  BY <1>1, <1>2 DEF FenceInv, Owns, Unit
<1>3. CASE \E t \in Tick : Admits(t)
  BY <1>3, FenceAdmits
<1>4. CASE \E r \in {"unchanged", "refused", "complete"} : Ends(r)
  BY <1>4, FenceEnds
<1>5. CASE \E g \in Nat : Claims(g)
  BY <1>5, FenceClaims
<1>6. CASE Proceeds
  BY <1>6, FenceProceeds
<1>7. \/ UNCHANGED <<progress, member, owner>>
      \/ \E t \in Tick : Admits(t)
      \/ \E r \in {"unchanged", "refused", "complete"} : Ends(r)
      \/ \E g \in Nat : Claims(g)
      \/ Proceeds
  BY DEF Shape, Moves, Seals, SealRead, Freezes, FreezeSubmission, Comes, durable
<1> QED BY <1>2, <1>3, <1>4, <1>5, <1>6, <1>7

--------------------------------------------------------------------------------
(* The runner                                                                   *)

\* What holds of a runner at its place carries over when it stays there and nothing is
\* written that it stands on.
LEMMA WorkStays ==
    ASSUME WorkInv, work' = work,
           UNCHANGED <<member, reads, attempts>> \/ work.at \in {"idle", "pick"},
           work.tick \in Tick /\ progress[work.tick] \in {"active", "complete"} =>
               progress'[work.tick] \in {"active", "complete"}
    PROVE  WorkInv'
<1>1. CASE work.at \in {"idle", "pick"}
  BY <1>1 DEF WorkInv
<1>2. CASE UNCHANGED <<member, reads, attempts>>
  <2>1. Mine' = Mine /\ Current' = Current
    BY <1>2 DEF Mine, Current, Unit
  <2>2. Accepted(Mine)' = Accepted(Mine) /\ ReadsOf(Mine)' = ReadsOf(Mine)
    BY <1>2, <2>1 DEF Accepted, ReadsOf
  <2>3. work.at \in {"loop", "owned", "reading", "attempted"} =>
           work.tick \in Tick /\ progress'[work.tick] \in {"active", "complete"}
    BY DEF WorkInv
  <2> QED BY <1>2, <2>1, <2>2, <2>3 DEF WorkInv
<1> QED BY <1>1, <1>2

\* What the runner has established where it is.
LEMMA WorkStep == ASSUME IInv, Shape, TypeOK' PROVE WorkInv'
<1>1. WorkInv
  BY DEF IInv
<1>2. ASSUME work'.at \in {"idle", "pick"} PROVE WorkInv'
  BY <1>2 DEF WorkInv
<1>3. ASSUME work'.at = "loop", work'.tick \in Tick, progress'[work'.tick] \in {"active", "complete"}
      PROVE  WorkInv'
  BY <1>3 DEF WorkInv
<1>4. ASSUME work'.at \in {"owned", "reading", "attempted"}, Stays, Stands,
             progress'[work.tick] = "active", member'[work.tick][Current].state \in Held,
             work'.at = "reading" => ReadsOf(Mine)' = {},
             work'.at = "attempted" => Accepted(Mine)' # Stage
      PROVE  WorkInv'
  <2>1. Current' = Current /\ work'.tick = work.tick /\ work'.next = work.next
    BY <1>4 DEF Current, Stays
  <2>2. work.tick \in Tick /\ work.next \in DOMAIN Order
    BY <1>4 DEF Stands
  <2> QED BY <1>4, <2>1, <2>2 DEF WorkInv
<1>5. CASE Moves
  <2>1. UNCHANGED <<ticks, progress, member, owner, reads, polling, frozen, attempts>>
    BY <1>5 DEF Moves, durable
  <2>2. CASE work' = work
    BY <1>1, <2>1, <2>2, WorkStays
  <2>3. CASE work'.at \in {"idle", "pick"}
    BY <1>2, <2>3
  <2>4. CASE /\ work'.at = "loop" /\ work'.tick \in Tick
             /\ progress[work'.tick] \in {"active", "complete"}
    BY <1>3, <2>1, <2>4
  <2>5. CASE work'.at = "owned" /\ Stays /\ Works
    BY <1>4, <2>1, <2>5 DEF Works, Stands
  <2> QED BY <1>5, <2>2, <2>3, <2>4, <2>5 DEF Moves
<1>6. CASE \E t \in Tick : Admits(t)
  <2>1. PICK t \in Tick : Admits(t)
    BY <1>6
  <2>2. /\ work' = work /\ UNCHANGED <<reads, attempts>> /\ progress[t] = "absent"
        /\ \A s \in Tick : s # t => progress'[s] = progress[s] /\ member'[s] = member[s]
    BY <2>1, Admitted DEF Admits, Admit
  <2>3. CASE work.at \in {"idle", "pick"}
    BY <1>2, <2>2, <2>3
  <2>4. CASE work.at \notin {"idle", "pick"}
    <3>1. work.at \in {"loop", "owned", "reading", "attempted"}
      BY <2>4 DEF IInv, TypeOK, WorkRecord
    <3>2. work.tick \in Tick /\ progress[work.tick] \in {"active", "complete"}
      BY <1>1, <3>1 DEF WorkInv
    <3>3. progress'[work.tick] = progress[work.tick] /\ member'[work.tick] = member[work.tick]
      BY <2>2, <3>2
    <3>4. Mine' = Mine /\ Current' = Current
      BY <2>2, <3>3 DEF Mine, Current, Unit
    <3>5. Accepted(Mine)' = Accepted(Mine) /\ ReadsOf(Mine)' = ReadsOf(Mine)
      BY <2>2, <3>4 DEF Accepted, ReadsOf
    <3> QED BY <1>1, <2>2, <3>2, <3>3, <3>4, <3>5 DEF WorkInv
  <2> QED BY <2>3, <2>4
<1>7. CASE \E g \in Nat : Claims(g)
  <2>1. PICK g \in Nat : Claims(g)
    BY <1>7
  <2>2. "claimed" \in Held
    BY DEF Held
  <2> QED BY <1>4, <2>1, <2>2 DEF Claims, Stands
<1>8. CASE (\E i \in Inputs : Seals(i)) \/ Freezes
  <2>1. work' = [work EXCEPT !.at = "owned"] /\ UNCHANGED <<progress, member>> /\ Works
    BY <1>8 DEF Seals, SealRead, Freezes, FreezeSubmission, Goto
  <2>2. work'.at = "owned" /\ Stays
    BY <2>1, Places DEF IInv, Stays
  <2> QED BY <1>4, <2>1, <2>2 DEF Works, Stands
<1>9. CASE \E r \in {"unchanged", "refused", "complete"} : Ends(r)
  <2>1. PICK r \in {"unchanged", "refused", "complete"} : Ends(r)
    BY <1>9
  <2>2. work'.at = "loop" /\ work'.tick = work.tick /\ work.tick \in Tick
        /\ progress[work.tick] = "active"
    BY <2>1 DEF Ends, Works, Stands
  <2>3. progress' # progress => progress'[work.tick] = "complete"
    BY <2>1, TickEnds
  <2> QED BY <1>3, <2>2, <2>3
<1>10. CASE Proceeds
  <2>1. /\ Stands /\ progress'[work.tick] = "active" /\ member'[work.tick][Current].state \in Held
        /\ work.tick \in Tick /\ reads' = reads
        /\ member'[work.tick][Current].generation = member[work.tick][Current].generation
    BY <1>10 DEF Proceeds, Works, Stands
  <2>2. Stays => Mine' = Mine
    BY <2>1 DEF Mine, Current, Unit, Stays
  <2>3. CASE work'.at = "idle"
    BY <1>2, <2>3
  <2>4. CASE work'.at = "loop" /\ work'.tick = work.tick
    BY <1>3, <2>1, <2>4
  <2>5. CASE work'.at = "owned" /\ Stays
    BY <1>4, <2>1, <2>5
  <2>6. CASE work'.at = "reading" /\ Stays /\ ReadsOf(Mine) = {}
    <3>1. ReadsOf(Mine)' = {}
      BY <2>1, <2>2, <2>6 DEF ReadsOf
    <3> QED BY <1>4, <2>1, <2>6, <3>1
  <2>7. CASE work'.at = "attempted" /\ Stays /\ Accepted(Mine)' # Stage
    BY <1>4, <2>1, <2>7
  <2> QED BY <1>10, <2>3, <2>4, <2>5, <2>6, <2>7 DEF Proceeds
<1>11. CASE Comes
  <2>1. work' = work /\ UNCHANGED <<progress, member, reads, attempts>>
    BY <1>11 DEF Comes, durable
  <2> QED BY <1>1, <2>1, WorkStays
<1> QED BY <1>5, <1>6, <1>7, <1>8, <1>9, <1>10, <1>11 DEF Shape

--------------------------------------------------------------------------------
(* The reads                                                                    *)

\* Reads stay numbered while none is sealed and no member that has one changes generation.
LEMMA ReadsKept ==
    ASSUME ReadInv, UNCHANGED <<reads, polling>>,
           \A r \in reads :
              LET m == member'[r.unit.tick][r.unit.target]
              IN  /\ m.generation = member[r.unit.tick][r.unit.target].generation
                  /\ m.state \notin {"none", "queued"}
                  /\ Owns(r.unit)' => Owns(r.unit)
    PROVE  ReadInv'
<1>1. ASSUME NEW r \in reads
      PROVE  /\ r.unit.tick \in Tick /\ r.unit.target \in Target
             /\ r.unit = Unit(r.unit.tick, r.unit.target)'
             /\ member'[r.unit.tick][r.unit.target].state \notin {"none", "queued"}
             /\ r.sequence <= polling[r.unit.target].sequence
             /\ r.state = "captured" /\ Owns(r.unit)' => r.sequence = polling[r.unit.target].sequence
  <2>1. Unit(r.unit.tick, r.unit.target)' = Unit(r.unit.tick, r.unit.target)
    BY DEF Unit
  <2> QED BY <2>1 DEF ReadInv
<1> QED BY <1>1 DEF ReadInv

\* Sealing a read numbers it.
LEMMA ReadsSeal ==
    ASSUME IInv, NEW i \in Inputs, Seals(i)
    PROVE  ReadInv'
<1> DEFINE c == work.tick
           x == Current
           sequence == polling[x].sequence + (IF Unchanged(i) THEN 0 ELSE 1)
           new == [unit |-> Mine, inputs |-> i, sequence |-> sequence, since |-> work.since,
                   state |-> IF Unchanged(i) THEN "unchanged" ELSE "captured"]
<1>1. TypeOK /\ ReadInv
  BY DEF IInv
<1>2. /\ c \in Tick /\ x \in Target /\ member[c][x].state \in Held
      /\ Owns(Mine) /\ ReadsOf(Mine) = {}
      /\ reads' = reads \cup {new}
      /\ polling' = [polling EXCEPT ![x] = [sequence |-> sequence, inputs |-> i]]
      /\ UNCHANGED <<member, owner>>
  BY DEF Seals, Works, Stands, SealRead
<1>3. /\ polling[x].sequence \in Nat
      /\ polling \in [Target -> [sequence : Nat, inputs : Inputs \cup {NoInputs}]]
  BY <1>1, <1>2 DEF TypeOK
<1>4. /\ new.unit = Mine /\ new.sequence = sequence
      /\ new.state = "captured" => ~ Unchanged(i)
  OBVIOUS
<1>5. sequence \in Nat /\ polling[x].sequence <= sequence
      /\ (~ Unchanged(i) => polling[x].sequence < sequence)
  BY <1>3
<1>6. Mine = Unit(c, x) /\ Mine.tick = c /\ Mine.target = x
  BY <1>1, <1>2, UnitType DEF Mine
<1> HIDE DEF sequence, new
<1>7. polling'[x].sequence = sequence /\ \A y \in Target : y # x => polling'[y] = polling[y]
  BY <1>2, <1>3
<1> HIDE DEF c, x
<1>8. ASSUME NEW r \in reads
      PROVE  /\ r.sequence \in Nat /\ r.unit.tick \in Tick /\ r.unit.target \in Target
             /\ r.unit = Unit(r.unit.tick, r.unit.target)
             /\ member[r.unit.tick][r.unit.target].state \notin {"none", "queued"}
             /\ r.sequence <= polling[r.unit.target].sequence
             /\ r.unit # Mine
             /\ r.unit.target = x => ~ Owns(r.unit)
  <2>1. /\ r.unit.tick \in Tick /\ r.unit.target \in Target
        /\ r.unit = Unit(r.unit.tick, r.unit.target)
        /\ member[r.unit.tick][r.unit.target].state \notin {"none", "queued"}
        /\ r.sequence <= polling[r.unit.target].sequence
    BY <1>1 DEF ReadInv
  <2>2. r.sequence \in Nat
    <3>1. r \in ReadRecord
      BY <1>1 DEF TypeOK
    <3> QED BY <3>1 DEF ReadRecord
  <2>3. r.unit # Mine
    BY <1>2 DEF ReadsOf
  <2>4. r.unit.target = x /\ Owns(r.unit) => r.unit.tick = c
    <3>1. owner[x].tick = c
      BY <1>2, <1>6 DEF Owns
    <3> QED BY <3>1 DEF Owns
  <2>5. r.unit.target = x /\ Owns(r.unit) => r.unit = Mine
    BY <1>6, <2>1, <2>4
  <2> QED BY <2>1, <2>2, <2>3, <2>5
<1>9. ASSUME NEW r \in reads'
      PROVE  /\ r.unit.tick \in Tick /\ r.unit.target \in Target
             /\ r.unit = Unit(r.unit.tick, r.unit.target)'
             /\ member'[r.unit.tick][r.unit.target].state \notin {"none", "queued"}
             /\ r.sequence <= polling'[r.unit.target].sequence
             /\ r.state = "captured" /\ Owns(r.unit)' => r.sequence = polling'[r.unit.target].sequence
  <2>1. CASE r = new
    <3>1. r.unit = Mine /\ r.sequence = sequence
      BY <1>4, <2>1
    <3>2. Unit(r.unit.tick, r.unit.target)' = Unit(r.unit.tick, r.unit.target)
      BY <1>2 DEF Unit
    <3>3. /\ r.unit.tick = c /\ r.unit.target = x
          /\ r.unit = Unit(r.unit.tick, r.unit.target)'
      BY <1>6, <3>1, <3>2
    <3>4. member'[c][x].state \notin {"none", "queued"}
      BY <1>2 DEF Held
    <3>5. r.sequence = polling'[x].sequence /\ r.sequence <= polling'[x].sequence
      BY <1>5, <1>7, <3>1
    <3>6. /\ r.sequence <= polling'[r.unit.target].sequence
          /\ r.sequence = polling'[r.unit.target].sequence
      BY <3>3, <3>5
    <3> QED BY <1>2, <3>3, <3>4, <3>6
  <2>2. CASE r \in reads
    <3>1. Unit(r.unit.tick, r.unit.target)' = Unit(r.unit.tick, r.unit.target)
      BY <1>2 DEF Unit
    <3>2. Owns(r.unit)' <=> Owns(r.unit)
      BY <1>2 DEF Owns
    <3>3. CASE r.unit.target = x
      <4>1. r.sequence <= sequence
        <5>1. r.sequence \in Nat /\ r.sequence <= polling[x].sequence
          BY <1>8, <2>2, <3>3
        <5> QED BY <1>3, <1>5, <5>1
      <4> QED BY <1>2, <1>7, <1>8, <2>2, <3>1, <3>2, <3>3, <4>1
    <3>4. CASE r.unit.target # x
      <4>1. polling'[r.unit.target] = polling[r.unit.target]
        BY <1>7, <1>8, <2>2, <3>4
      <4>2. r.state = "captured" /\ Owns(r.unit) => r.sequence = polling[r.unit.target].sequence
        BY <1>1, <2>2 DEF ReadInv
      <4> QED BY <1>2, <1>8, <2>2, <3>1, <3>2, <4>1, <4>2
    <3> QED BY <3>3, <3>4
  <2> QED BY <1>2, <2>1, <2>2
<1>10. \A r, q \in reads' : r.unit = q.unit => r = q
  <2>1. \A r, q \in reads : r.unit = q.unit => r = q
    BY <1>1 DEF ReadInv
  <2>2. \A r \in reads : r.unit # new.unit
    BY <1>4, <1>8
  <2> QED BY <1>2, <2>1, <2>2
<1>11. \A r, q \in reads' :
          r.state = "captured" /\ q.state = "captured" /\ r.unit.target = q.unit.target =>
             (r.sequence = q.sequence => r = q)
  <2>1. \A r, q \in reads :
          r.state = "captured" /\ q.state = "captured" /\ r.unit.target = q.unit.target =>
             (r.sequence = q.sequence => r = q)
    BY <1>1 DEF ReadInv
  <2>2. ASSUME NEW r \in reads, new.state = "captured", r.unit.target = new.unit.target
        PROVE  r.sequence # new.sequence
    <3>1. r.sequence \in Nat /\ r.sequence <= polling[x].sequence
      BY <1>4, <1>6, <1>8, <2>2
    <3>2. polling[x].sequence < new.sequence
      BY <1>4, <1>5, <2>2
    <3>3. r.sequence < new.sequence
      BY <1>3, <1>4, <1>5, <3>1, <3>2
    <3> QED BY <1>4, <1>5, <3>1, <3>3
  <2> QED BY <1>2, <2>1, <2>2
<1> QED BY <1>9, <1>10, <1>11 DEF ReadInv

\* A read belongs to a member that was claimed.
LEMMA ReadOfMember ==
    ASSUME IInv, NEW r \in reads
    PROVE  /\ r.unit.tick \in Tick /\ r.unit.target \in Target
           /\ r.unit = Unit(r.unit.tick, r.unit.target)
           /\ member[r.unit.tick][r.unit.target].state \notin {"none", "queued"}
BY DEF IInv, ReadInv

\* The reads stay numbered.
LEMMA ReadsStep == ASSUME IInv, Shape PROVE ReadInv'
<1>1. ReadInv
  BY DEF IInv
<1>2. CASE UNCHANGED <<reads, polling, member, owner>>
  BY <1>1, <1>2 DEF ReadInv, Unit, Owns
<1>3. CASE \E i \in Inputs : Seals(i)
  BY <1>3, ReadsSeal
<1>4. CASE \E t \in Tick : Admits(t)
  <2>1. PICK t \in Tick : Admits(t)
    BY <1>4
  <2>2. /\ UNCHANGED <<reads, polling, owner>>
        /\ \A s \in Tick : s # t => member'[s] = member[s]
        /\ \A y \in Target : member[t][y].state = "none"
    BY <2>1, Admitted DEF Admits, Admit
  <2>3. ASSUME NEW r \in reads
        PROVE  LET m == member'[r.unit.tick][r.unit.target]
               IN  /\ m.generation = member[r.unit.tick][r.unit.target].generation
                   /\ m.state \notin {"none", "queued"}
                   /\ Owns(r.unit)' => Owns(r.unit)
    <3>1. /\ r.unit.tick \in Tick /\ r.unit.target \in Target
          /\ member[r.unit.tick][r.unit.target].state \notin {"none", "queued"}
      BY ReadOfMember
    <3>2. r.unit.tick # t
      BY <2>2, <3>1
    <3>3. member'[r.unit.tick] = member[r.unit.tick]
      BY <2>2, <3>1, <3>2
    <3> QED BY <2>2, <3>1, <3>3 DEF Owns
  <2> QED BY <1>1, <2>2, <2>3, ReadsKept
<1>5. CASE \E g \in Nat : Claims(g)
  <2>1. PICK g \in Nat : Claims(g)
    BY <1>5
  <2>2. /\ UNCHANGED <<reads, polling>> /\ OtherMembers /\ OtherOwners
        /\ ~ \E r \in reads : r.unit.tick = work.tick /\ r.unit.target = Current
        /\ owner'[Current].tick = work.tick
    BY <2>1 DEF Claims
  <2>3. ASSUME NEW r \in reads
        PROVE  LET m == member'[r.unit.tick][r.unit.target]
               IN  /\ m.generation = member[r.unit.tick][r.unit.target].generation
                   /\ m.state \notin {"none", "queued"}
                   /\ Owns(r.unit)' => Owns(r.unit)
    <3>1. /\ r.unit.tick \in Tick /\ r.unit.target \in Target
          /\ member[r.unit.tick][r.unit.target].state \notin {"none", "queued"}
      BY ReadOfMember
    <3>2. r.unit.tick # work.tick \/ r.unit.target # Current
      BY <2>2
    <3>3. member'[r.unit.tick][r.unit.target] = member[r.unit.tick][r.unit.target]
      BY <2>2, <3>1, <3>2 DEF OtherMembers
    <3>4. Owns(r.unit)' => Owns(r.unit)
      <4>1. CASE r.unit.target = Current
        <5>1. owner'[r.unit.target].tick # r.unit.tick
          BY <2>2, <3>2, <4>1
        <5> QED BY <5>1 DEF Owns
      <4>2. CASE r.unit.target # Current
        <5>1. owner'[r.unit.target] = owner[r.unit.target]
          BY <2>2, <3>1, <4>2 DEF OtherOwners
        <5> QED BY <5>1 DEF Owns
      <4> QED BY <4>1, <4>2
    <3> QED BY <3>1, <3>3, <3>4
  <2> QED BY <1>1, <2>2, <2>3, ReadsKept
<1>6. CASE \E r \in {"unchanged", "refused", "complete"} : Ends(r)
  <2>1. PICK e \in {"unchanged", "refused", "complete"} : Ends(e)
    BY <1>6
  <2>2. /\ UNCHANGED <<reads, polling>> /\ OtherMembers /\ OtherOwners
        /\ member'[work.tick][Current].state = "terminal"
        /\ member'[work.tick][Current].generation = member[work.tick][Current].generation
        /\ ~ owner'[Current].held
    BY <2>1 DEF Ends
  <2>3. ASSUME NEW r \in reads
        PROVE  LET m == member'[r.unit.tick][r.unit.target]
               IN  /\ m.generation = member[r.unit.tick][r.unit.target].generation
                   /\ m.state \notin {"none", "queued"}
                   /\ Owns(r.unit)' => Owns(r.unit)
    <3>1. /\ r.unit.tick \in Tick /\ r.unit.target \in Target
          /\ member[r.unit.tick][r.unit.target].state \notin {"none", "queued"}
      BY ReadOfMember
    <3>2. Owns(r.unit)' => Owns(r.unit)
      <4>1. CASE r.unit.target = Current
        <5>1. ~ owner'[r.unit.target].held
          BY <2>2, <4>1
        <5> QED BY <5>1 DEF Owns
      <4>2. CASE r.unit.target # Current
        <5>1. owner'[r.unit.target] = owner[r.unit.target]
          BY <2>2, <3>1, <4>2 DEF OtherOwners
        <5> QED BY <5>1 DEF Owns
      <4> QED BY <4>1, <4>2
    <3>3. CASE r.unit.tick = work.tick /\ r.unit.target = Current
      BY <2>2, <3>2, <3>3
    <3>4. CASE r.unit.tick # work.tick \/ r.unit.target # Current
      <4>1. member'[r.unit.tick][r.unit.target] = member[r.unit.tick][r.unit.target]
        BY <2>2, <3>1, <3>4 DEF OtherMembers
      <4> QED BY <3>1, <3>2, <4>1
    <3> QED BY <3>3, <3>4
  <2> QED BY <1>1, <2>2, <2>3, ReadsKept
<1>7. CASE Proceeds
  <2>2. /\ UNCHANGED <<reads, polling, owner>> /\ OtherMembers
        /\ member'[work.tick][Current].state \in Held
        /\ member'[work.tick][Current].generation = member[work.tick][Current].generation
    BY <1>7 DEF Proceeds
  <2>3. ASSUME NEW r \in reads
        PROVE  LET m == member'[r.unit.tick][r.unit.target]
               IN  /\ m.generation = member[r.unit.tick][r.unit.target].generation
                   /\ m.state \notin {"none", "queued"}
                   /\ Owns(r.unit)' => Owns(r.unit)
    <3>1. /\ r.unit.tick \in Tick /\ r.unit.target \in Target
          /\ member[r.unit.tick][r.unit.target].state \notin {"none", "queued"}
      BY ReadOfMember
    <3>2. Owns(r.unit)' => Owns(r.unit)
      BY <2>2 DEF Owns
    <3>3. CASE r.unit.tick = work.tick /\ r.unit.target = Current
      BY <2>2, <3>2, <3>3 DEF Held
    <3>4. CASE r.unit.tick # work.tick \/ r.unit.target # Current
      <4>1. member'[r.unit.tick][r.unit.target] = member[r.unit.tick][r.unit.target]
        BY <2>2, <3>1, <3>4 DEF OtherMembers
      <4> QED BY <3>1, <3>2, <4>1
    <3> QED BY <3>3, <3>4
  <2> QED BY <1>1, <2>2, <2>3, ReadsKept
<1>8. \/ UNCHANGED <<reads, polling, member, owner>>
      \/ \E i \in Inputs : Seals(i)
      \/ \E t \in Tick : Admits(t)
      \/ \E g \in Nat : Claims(g)
      \/ \E r \in {"unchanged", "refused", "complete"} : Ends(r)
      \/ Proceeds
  BY DEF Shape, Moves, Freezes, FreezeSubmission, Comes, durable
<1> QED BY <1>2, <1>3, <1>4, <1>5, <1>6, <1>7, <1>8

--------------------------------------------------------------------------------
(* The submissions and the ledger                                               *)

\* A submission belongs to a member that was claimed and read.
LEMMA PlanOfMember ==
    ASSUME IInv, NEW p \in frozen
    PROVE  /\ p.unit.tick \in Tick /\ p.unit.target \in Target
           /\ p.unit = Unit(p.unit.tick, p.unit.target)
           /\ p.unit \in UnitRecord
<1>1. PICK r \in reads : r.unit = p.unit
  BY DEF IInv, PlanInv, ReadsOf
<1>2. p.unit \in UnitRecord
  BY PlanType DEF IInv
<1> QED BY <1>1, <1>2, ReadOfMember

\* Freezing adds the plan of the member under way, whose own events carry its unit.
LEMMA Froze ==
    ASSUME IInv, Freezes
    PROVE  /\ PlanOf(Mine) = {} /\ \E r \in ReadsOf(Mine) : r.state = "captured"
           /\ Mine = Unit(work.tick, Current) /\ Mine.tick = work.tick /\ Mine.target = Current
           /\ UNCHANGED <<ticks, progress, member, owner, reads, polling, attempts, domain>>
           /\ \E p : /\ frozen' = frozen \cup {p} /\ p.unit = Mine
                     /\ \A s \in Stage :
                           /\ p.stages[s].kind = s
                           /\ IF s \in {"account", "artifact"} THEN p.stages[s].unit = NoUnit
                              ELSE p.stages[s] = Event(s, p.unit.target, p.unit, "config")
<1>1. TypeOK /\ DomainInv
  BY DEF IInv
<1>2. /\ work.tick \in Tick /\ Current \in Target
      /\ PlanOf(Mine) = {} /\ \E r \in ReadsOf(Mine) : r.state = "captured"
      /\ UNCHANGED <<ticks, progress, member, owner, reads, polling, attempts, domain>>
  BY DEF Freezes, Works, Stands, FreezeSubmission, Sealed, around
<1>3. Mine = Unit(work.tick, Current) /\ Mine.tick = work.tick /\ Mine.target = Current
      /\ Mine \in UnitRecord
  BY <1>1, <1>2, UnitType DEF Mine
<1> DEFINE E(s) == IF s \in {"account", "artifact"} THEN Prerequisite(s, Current)
                   ELSE Event(s, Current, Mine, "config")
           p == [unit |-> Mine, stages |-> [s \in Stage |-> E(s)]]
<1>4. frozen' = frozen \cup {p}
  BY DEF Freezes, FreezeSubmission
<1>5. p.unit = Mine /\ \A s \in Stage : p.stages[s] = E(s)
  <2> HIDE DEF E
  <2> QED OBVIOUS
<1>6. ASSUME NEW s \in Stage
      PROVE  /\ E(s).kind = s
             /\ IF s \in {"account", "artifact"} THEN E(s).unit = NoUnit
                ELSE E(s) = Event(s, Current, Mine, "config")
  <2>1. CASE s \in {"account", "artifact"}
    <3>1. E(s) = Prerequisite(s, Current)
      BY <2>1
    <3> HIDE DEF E
    <3> QED BY <1>1, <1>2, <2>1, <3>1, PrerequisiteType
  <2>2. CASE s \notin {"account", "artifact"}
    <3>1. E(s) = Event(s, Current, Mine, "config")
      BY <2>2
    <3> HIDE DEF E
    <3> QED BY <1>2, <1>3, <2>2, <3>1, EventType
  <2> QED BY <2>1, <2>2
<1> HIDE DEF p, E
<1>7. \A s \in Stage :
         /\ p.stages[s].kind = s
         /\ IF s \in {"account", "artifact"} THEN p.stages[s].unit = NoUnit
            ELSE p.stages[s] = Event(s, p.unit.target, p.unit, "config")
  BY <1>3, <1>5, <1>6
<1> QED BY <1>2, <1>3, <1>4, <1>5, <1>7

\* What a plan says of its events.
LEMMA PlanSays ==
    ASSUME IInv, NEW p \in frozen, NEW s \in Stage
    PROVE  /\ p.stages[s] \in EventRecord /\ p.stages[s].kind = s
           /\ s \in {"account", "artifact"} => p.stages[s].unit = NoUnit
           /\ s \notin {"account", "artifact"} =>
                 /\ p.stages[s].unit = p.unit /\ p.stages[s].target = p.unit.target
                 /\ p.stages[s].by = "config"
<1>1. TypeOK /\ PlanInv
  BY DEF IInv
<1>2. p.stages[s] \in EventRecord /\ p.stages[s].kind = s
  BY <1>1, PlanType DEF PlanInv
<1>3. CASE s \in {"account", "artifact"}
  BY <1>1, <1>2, <1>3 DEF PlanInv
<1>4. CASE s \notin {"account", "artifact"}
  <2>1. p.stages[s] = Event(s, p.unit.target, p.unit, "config")
    BY <1>1, <1>4 DEF PlanInv
  <2>2. p.unit.target \in Target \cup {NoTarget} /\ p.unit \in UnitRecord
    BY PlanOfMember
  <2>3. /\ p.stages[s].target = p.unit.target /\ p.stages[s].unit = p.unit
        /\ p.stages[s].by = "config"
    BY <2>1, <2>2, EventType
  <2> QED BY <1>2, <1>4, <2>3
<1> QED BY <1>3, <1>4

\* A submission stays what it is.
LEMMA PlanStep == ASSUME IInv, Shape PROVE PlanInv'
<1>1. PlanInv /\ TypeOK
  BY DEF IInv
<1>2. ASSUME frozen' = frozen, reads \subseteq reads',
             \A a \in attempts' : PlanOf(a.unit) # {} \/ \E b \in attempts : b.unit = a.unit
      PROVE  PlanInv'
  <2>1. \A p \in frozen : \E r \in ReadsOf(p.unit)' : r.state = "captured"
    <3>1. \A p \in frozen : ReadsOf(p.unit) \subseteq ReadsOf(p.unit)'
      BY <1>2 DEF ReadsOf
    <3> QED BY <1>1, <3>1 DEF PlanInv
  <2>2. \A a \in attempts' : PlanOf(a.unit) # {}
    BY <1>1, <1>2 DEF PlanInv
  <2>3. \A a \in attempts' : PlanOf(a.unit)' # {}
    BY <1>2, <2>2 DEF PlanOf
  <2> QED BY <1>1, <1>2, <2>1, <2>3 DEF PlanInv
<1>3. CASE UNCHANGED <<frozen, attempts>> /\ reads \subseteq reads'
  BY <1>2, <1>3
<1>4. CASE Proceeds
  <2>1. frozen' = frozen /\ reads' = reads
    BY <1>4 DEF Proceeds
  <2>2. \A a \in attempts' : PlanOf(a.unit) # {} \/ \E b \in attempts : b.unit = a.unit
    <3>1. CASE UNCHANGED attempts
      BY <3>1
    <3>2. CASE \E p \in frozen : Tells(p)
      <4>1. PICK p \in frozen : Tells(p)
        BY <3>2
      <4>2. PlanOf(Mine) # {}
        BY <4>1 DEF Tells, PlanOf
      <4> QED BY <4>1, <4>2 DEF Tells
    <3> QED BY <1>4, <3>1, <3>2 DEF Proceeds
  <2> QED BY <1>2, <2>1, <2>2
<1>5. CASE Freezes
  <2>1. PICK p : /\ frozen' = frozen \cup {p} /\ p.unit = Mine
                 /\ \A s \in Stage :
                       /\ p.stages[s].kind = s
                       /\ IF s \in {"account", "artifact"} THEN p.stages[s].unit = NoUnit
                          ELSE p.stages[s] = Event(s, p.unit.target, p.unit, "config")
    BY <1>5, Froze
  <2>2. /\ PlanOf(Mine) = {} /\ \E r \in ReadsOf(Mine) : r.state = "captured"
        /\ UNCHANGED <<reads, attempts>>
    BY <1>5, Froze
  <2>3. \A q \in frozen' : \E r \in ReadsOf(q.unit)' : r.state = "captured"
    BY <1>1, <2>1, <2>2 DEF PlanInv, ReadsOf
  <2>4. \A q \in frozen' : \A s \in Stage :
           /\ q.stages[s].kind = s
           /\ IF s \in {"account", "artifact"} THEN q.stages[s].unit = NoUnit
              ELSE q.stages[s] = Event(s, q.unit.target, q.unit, "config")
    BY <1>1, <2>1 DEF PlanInv
  <2>5. \A q \in frozen : q.unit # Mine
    BY <2>2 DEF PlanOf
  <2>6. \A q, o \in frozen' : q.unit = o.unit => q = o
    BY <1>1, <2>1, <2>5 DEF PlanInv
  <2>7. \A a \in attempts' : PlanOf(a.unit)' # {}
    <3>1. \A a \in attempts : PlanOf(a.unit) # {}
      BY <1>1 DEF PlanInv
    <3> QED BY <2>1, <2>2, <3>1 DEF PlanOf
  <2> QED BY <2>3, <2>4, <2>6, <2>7 DEF PlanInv
<1>6. \/ UNCHANGED <<frozen, attempts>> /\ reads \subseteq reads'
      \/ Proceeds \/ Freezes
  BY DEF Shape, Moves, Admits, Admit, Claims, Seals, SealRead, Ends, Untold, Comes, durable
<1> QED BY <1>3, <1>4, <1>5, <1>6

\* The ledger grows by one event at most: that of a plan, or another caller's.
LEMMA LedgerGrows ==
    ASSUME IInv, Shape, domain' # domain
    PROVE  \E e \in EventRecord :
              /\ ~ Within(domain, e) /\ domain' = Append(domain, e)
              /\ UNCHANGED <<reads, frozen>>
              /\ \/ Comes /\ e.kind \in {"account", "artifact"} /\ e.unit = NoUnit /\ e.by = "outside"
                 \/ Proceeds /\ \E p \in frozen : /\ Tells(p) /\ domain' = Ingested(Sent(p))
                                                  /\ e = p.stages[NextStage(Mine)]
                                                  /\ NextStage(Mine) \in Stage
<1>1. TypeOK
  BY DEF IInv
<1>2. Comes \/ Proceeds
  BY DEF Shape, Moves, Admits, Admit, Claims, Seals, SealRead, Freezes, FreezeSubmission, Ends,
         Untold, around, durable
<1>3. CASE Comes
  <2>1. PICK k \in Outside, x \in Target :
            /\ ~ Within(domain, Event(k, Subject(k, x), NoUnit, "outside"))
            /\ domain' = Append(domain, Event(k, Subject(k, x), NoUnit, "outside"))
    BY <1>3 DEF Comes
  <2>2. k \in {"account", "artifact"} /\ k \in Stage /\ Subject(k, x) \in Target \cup {NoTarget}
    BY BoundsAssumption, FourStages DEF Subject
  <2> DEFINE e == Event(k, Subject(k, x), NoUnit, "outside")
  <2>3. e \in EventRecord /\ e.kind = k /\ e.unit = NoUnit /\ e.by = "outside"
    BY <2>2, EventType, NoUnitType
  <2>4. UNCHANGED <<reads, frozen>>
    BY <1>3 DEF Comes, durable
  <2> HIDE DEF e
  <2>5. ~ Within(domain, e) /\ domain' = Append(domain, e)
    BY <2>1 DEF e
  <2> QED BY <1>3, <2>2, <2>3, <2>4, <2>5
<1>4. CASE Proceeds
  <2>1. PICK p \in frozen : Tells(p)
    BY <1>4 DEF Proceeds
  <2>2. domain' = Ingested(Sent(p)) /\ p.unit = Mine /\ Accepted(Mine) # Stage
    BY <2>1 DEF Tells
  <2>3. NextStage(Mine) \in Stage
    BY <1>1, <2>2, AcceptedStages, NextStageIs
  <2>4. Sent(p) = p.stages[NextStage(Mine)] /\ Sent(p) \in EventRecord
    BY <1>1, <2>2, <2>3, PlanType DEF Sent
  <2>5. ~ Within(domain, Sent(p)) /\ domain' = Append(domain, Sent(p))
    BY <2>2 DEF Ingested
  <2>6. UNCHANGED <<reads, frozen>>
    BY <1>4 DEF Proceeds
  <2> QED BY <1>4, <2>1, <2>2, <2>3, <2>4, <2>5, <2>6
<1> QED BY <1>2, <1>3, <1>4

\* What the ledger holds it keeps.
LEMMA LedgerKeeps ==
    ASSUME IInv, Shape
    PROVE  /\ \A i \in DOMAIN domain : i \in DOMAIN domain' /\ domain'[i] = domain[i]
           /\ \A e : Within(domain, e) => Within(domain', e)
<1>1. CASE domain' = domain
  BY <1>1 DEF Within
<1>2. CASE domain' # domain
  <2>1. PICK e \in EventRecord : domain' = Append(domain, e)
    BY <1>2, LedgerGrows
  <2>2. domain \in Seq(EventRecord)
    BY DEF IInv, TypeOK
  <2>3. \A i \in DOMAIN domain : i \in DOMAIN Append(domain, e) /\ Append(domain, e)[i] = domain[i]
    BY <2>2, Appended
  <2> QED BY <2>1, <2>3 DEF Within
<1> QED BY <1>1, <1>2

\* What was accepted is in the ledger.
LEMMA AcceptedIsRecorded ==
    ASSUME IInv, Shape, DomainInv
    PROVE  \A p \in frozen' : \A s \in Accepted(p.unit)' : Within(domain, p.stages[s])'
<1>1. TypeOK /\ PlanInv
  BY DEF IInv
<1>2. \A p \in frozen : \A s \in Accepted(p.unit) : Within(domain', p.stages[s])
  BY LedgerKeeps DEF DomainInv
<1>3. \A p, e : Within(domain, e)' <=> \E i \in DOMAIN domain' : domain'[i] = e
  BY DEF Within
<1>4. CASE UNCHANGED <<frozen, attempts>>
  <2>1. \A u : Accepted(u)' = Accepted(u)
    BY <1>4 DEF Accepted
  <2> QED BY <1>2, <1>4, <2>1 DEF Within
<1>5. CASE Freezes
  <2>1. PICK p : frozen' = frozen \cup {p} /\ p.unit = Mine
    BY <1>5, Froze
  <2>2. PlanOf(Mine) = {} /\ UNCHANGED attempts
    BY <1>5, Froze
  <2>3. \A u : Accepted(u)' = Accepted(u)
    BY <2>2 DEF Accepted
  <2>4. Accepted(Mine) = {}
    BY <1>1, <2>2 DEF PlanInv, Accepted
  <2> QED BY <1>2, <2>1, <2>3, <2>4 DEF Within
<1>6. CASE Proceeds /\ \E p \in frozen : Tells(p)
  <2>1. PICK p \in frozen : Tells(p)
    BY <1>6
  <2>2. frozen' = frozen
    BY <1>6 DEF Proceeds
  <2>3. ASSUME NEW q \in frozen, NEW s \in Accepted(q.unit)'
        PROVE  Within(domain', q.stages[s])
    <3>1. CASE s \in Accepted(q.unit)
      BY <1>2, <3>1
    <3>2. CASE s \notin Accepted(q.unit)
      <4>1. q.unit = Mine /\ domain' = Ingested(Sent(p)) /\ s = NextStage(Mine)
        BY <2>1, <3>2 DEF Tells
      <4>2. p.unit = Mine /\ Accepted(Mine) # Stage
        BY <2>1 DEF Tells
      <4>3. q = p
        BY <1>1, <4>1, <4>2 DEF PlanInv
      <4>4. NextStage(Mine) \in Stage
        BY <1>1, <4>2, AcceptedStages, NextStageIs
      <4>5. Sent(p) = p.stages[s] /\ Sent(p) \in EventRecord
        BY <1>1, <4>1, <4>2, <4>4, PlanType DEF Sent
      <4>6. Within(Ingested(Sent(p)), Sent(p))
        BY <1>1, <4>5, IngestedType
      <4> QED BY <4>1, <4>3, <4>5, <4>6
    <3> QED BY <3>1, <3>2
  <2> QED BY <2>2, <2>3 DEF Within
<1>7. UNCHANGED <<frozen, attempts>> \/ Freezes \/ (Proceeds /\ \E p \in frozen : Tells(p))
  BY DEF Shape, Moves, Admits, Admit, Claims, Seals, SealRead, Ends, Untold, Comes, Proceeds, durable
<1> QED BY <1>4, <1>5, <1>6, <1>7

\* The ledger holds every event once, and none but those of submissions and of others.
LEMMA DomainStep == ASSUME IInv, Shape PROVE DomainInv'
<1>1. DomainInv /\ TypeOK /\ PlanInv
  BY DEF IInv
<1>2. \A p \in frozen' : \A s \in Accepted(p.unit)' : Within(domain, p.stages[s])'
  BY <1>1, AcceptedIsRecorded
<1>3. frozen \subseteq frozen'
  <2>1. CASE Freezes
    BY <2>1, Froze
  <2>2. Freezes \/ UNCHANGED frozen
    BY DEF Shape, Moves, Admits, Admit, Claims, Seals, SealRead, Ends, Untold, Comes, Proceeds, durable
  <2> QED BY <2>1, <2>2
<1>4. \A i \in DOMAIN domain :
         IF domain[i].kind \in {"account", "artifact"} THEN domain[i].unit = NoUnit
         ELSE \E p \in {q \in frozen' : q.unit = domain[i].unit} :
                 domain[i] = p.stages[domain[i].kind]
  BY <1>1, <1>3 DEF DomainInv, PlanOf
<1>5. CASE domain' = domain
  <2>1. \A i, j \in DOMAIN domain' : domain'[i] = domain'[j] => i = j
    BY <1>1, <1>5 DEF DomainInv
  <2> QED BY <1>2, <1>4, <1>5, <2>1 DEF DomainInv, PlanOf
<1>6. CASE domain' # domain
  <2>1. PICK e \in EventRecord :
            /\ ~ Within(domain, e) /\ domain' = Append(domain, e) /\ UNCHANGED frozen
            /\ \/ e.kind \in {"account", "artifact"} /\ e.unit = NoUnit
               \/ \E p \in frozen : /\ Tells(p) /\ e = p.stages[NextStage(Mine)]
                                    /\ NextStage(Mine) \in Stage
    BY <1>6, LedgerGrows
  <2>2. domain \in Seq(EventRecord)
    BY <1>1 DEF TypeOK
  <2> DEFINE n == Len(domain) + 1
  <2>3. /\ domain'[n] = e
        /\ \A i \in DOMAIN domain : domain'[i] = domain[i]
        /\ \A i \in DOMAIN domain' : i \in DOMAIN domain \/ i = n
    BY <2>1, <2>2, Appended
  <2> HIDE DEF n
  <2>4. \A i \in DOMAIN domain : domain[i] # e
    BY <2>1 DEF Within
  <2>5. \A i, j \in DOMAIN domain' : domain'[i] = domain'[j] => i = j
    BY <1>1, <2>3, <2>4 DEF DomainInv
  <2>6. IF e.kind \in {"account", "artifact"} THEN e.unit = NoUnit
        ELSE \E p \in PlanOf(e.unit) : e = p.stages[e.kind]
    <3>1. CASE e.kind \in {"account", "artifact"} /\ e.unit = NoUnit
      BY <3>1
    <3>2. CASE \E p \in frozen : e = p.stages[NextStage(Mine)] /\ NextStage(Mine) \in Stage
      <4>1. PICK p \in frozen : e = p.stages[NextStage(Mine)] /\ NextStage(Mine) \in Stage
        BY <3>2
      <4>2. /\ e.kind = NextStage(Mine)
            /\ e.kind \in {"account", "artifact"} => e.unit = NoUnit
            /\ e.kind \notin {"account", "artifact"} => e.unit = p.unit
        BY <4>1, PlanSays
      <4>3. e.kind \notin {"account", "artifact"} => p \in PlanOf(e.unit)
        BY <4>2 DEF PlanOf
      <4> QED BY <4>1, <4>2, <4>3
    <3> QED BY <2>1, <3>1, <3>2
  <2>7. ASSUME NEW i \in DOMAIN domain'
        PROVE  IF domain'[i].kind \in {"account", "artifact"} THEN domain'[i].unit = NoUnit
               ELSE \E p \in {q \in frozen' : q.unit = domain'[i].unit} :
                       domain'[i] = p.stages[domain'[i].kind]
    <3>1. CASE i \in DOMAIN domain
      <4>1. domain'[i] = domain[i]
        BY <2>3, <3>1
      <4>2. IF domain[i].kind \in {"account", "artifact"} THEN domain[i].unit = NoUnit
            ELSE \E p \in PlanOf(domain[i].unit) : domain[i] = p.stages[domain[i].kind]
        BY <1>1, <3>1 DEF DomainInv
      <4> QED BY <2>1, <4>1, <4>2 DEF PlanOf
    <3>2. CASE i = n
      <4>1. domain'[i] = e
        BY <2>3, <3>2
      <4> QED BY <2>1, <2>6, <4>1 DEF PlanOf
    <3> QED BY <2>3, <3>1, <3>2
  <2> QED BY <1>2, <2>5, <2>7 DEF DomainInv, PlanOf
<1> QED BY <1>5, <1>6

--------------------------------------------------------------------------------
(* Decisions and outcomes                                                       *)

\* A unit with a read has the sequence of that read.
LEMMA SequenceIs ==
    ASSUME ReadInv, NEW r \in reads
    PROVE  SequenceOf(r.unit) = r.sequence
<1> DEFINE q == CHOOSE z \in ReadsOf(r.unit) : TRUE
<1>1. r \in ReadsOf(r.unit)
  BY DEF ReadsOf
<1>2. q \in ReadsOf(r.unit)
  BY <1>1
<1>3. q = r
  BY <1>2 DEF ReadsOf, ReadInv
<1> QED BY <1>3 DEF SequenceOf

\* Reads are kept, and what a unit's capture was numbered stays.
LEMMA ReadsGrow ==
    ASSUME IInv, Shape, ReadInv'
    PROVE  /\ reads \subseteq reads' /\ frozen \subseteq frozen'
           /\ \A r \in reads : (\E q \in reads' : q = r /\ SequenceOf(r.unit)' = r.sequence)
<1>1. reads \subseteq reads'
  BY DEF Shape, Moves, Admits, Admit, Claims, Seals, SealRead, Freezes, FreezeSubmission, Ends,
         Comes, Proceeds, durable
<1>2. frozen \subseteq frozen'
  BY DEF Shape, Moves, Admits, Admit, Claims, Seals, SealRead, Freezes, FreezeSubmission, Ends,
         Untold, Comes, Proceeds, durable
<1>3. ASSUME NEW r \in reads PROVE SequenceOf(r.unit)' = r.sequence
  <2> DEFINE q == CHOOSE z \in {y \in reads' : y.unit = r.unit} : TRUE
  <2>1. r \in {y \in reads' : y.unit = r.unit}
    BY <1>1
  <2>2. q \in {y \in reads' : y.unit = r.unit}
    BY <2>1
  <2>3. q = r
    BY <1>1, <2>2 DEF ReadInv
  <2>4. SequenceOf(r.unit)' = q.sequence
    BY DEF SequenceOf, ReadsOf
  <2> QED BY <2>3, <2>4
<1> QED BY <1>1, <1>2, <1>3

\* What a decision in the ledger stands on, in terms of its read and its plan.
LEMMA GroundsOf ==
    ASSUME IInv, NEW i \in DOMAIN domain, domain[i].kind = "decision"
    PROVE  /\ \E r \in reads : r.unit = domain[i].unit /\ r.state = "captured"
           /\ \E p \in frozen : p.unit = domain[i].unit /\ domain[i] = p.stages["decision"]
           /\ domain[i].target = domain[i].unit.target
<1>1. DomainInv /\ DecisionsAreGrounded
  BY DEF IInv
<1>2. \E r \in reads : r.unit = domain[i].unit /\ r.state = "captured"
  BY <1>1 DEF DecisionsAreGrounded, ReadsOf
<1>3. PICK p \in frozen : p.unit = domain[i].unit /\ domain[i] = p.stages["decision"]
  BY <1>1 DEF DomainInv, PlanOf
<1>4. p.stages["decision"].target = p.unit.target
  BY PlanSays, FourStages
<1> QED BY <1>2, <1>3, <1>4

\* The decision appended last stands on its grounds.
LEMMA LastDecision ==
    ASSUME IInv, NEW p \in frozen, Tells(p), Works, Owns(Mine), NextStage(Mine) = "decision",
           ~ Within(domain, p.stages["decision"])
    PROVE  /\ \E r \in reads : r.unit = Mine /\ r.state = "captured"
           /\ \A s \in Stage \ {"decision"} : \E j \in DOMAIN domain : domain[j] = p.stages[s]
           /\ \A j \in DOMAIN domain :
                 domain[j].kind = "decision" /\ domain[j].target = Mine.target =>
                    SequenceOf(domain[j].unit) < SequenceOf(Mine)
<1>1. TypeOK /\ DomainInv /\ PlanInv /\ ReadInv
  BY DEF IInv
<1>2. p.unit = Mine /\ Accepted(Mine) # Stage
  BY DEF Tells
<1>3. PICK r \in reads : r.unit = Mine /\ r.state = "captured"
  BY <1>1, <1>2 DEF PlanInv, ReadsOf
<1>4. \A s \in Stage \ {"decision"} : s \in Accepted(Mine)
  BY <1>1, <1>2, AcceptedStages, NextStageIs
<1>5. \A s \in Stage \ {"decision"} : \E j \in DOMAIN domain : domain[j] = p.stages[s]
  BY <1>1, <1>2, <1>4 DEF DomainInv, Within
<1>6. SequenceOf(Mine) = r.sequence /\ r.sequence = polling[Mine.target].sequence
  BY <1>1, <1>3, SequenceIs DEF ReadInv
<1>7. ASSUME NEW j \in DOMAIN domain, domain[j].kind = "decision", domain[j].target = Mine.target
      PROVE  SequenceOf(domain[j].unit) < SequenceOf(Mine)
  <2>1. PICK q \in reads : q.unit = domain[j].unit /\ q.state = "captured"
    BY <1>7, GroundsOf
  <2>2. PICK o \in frozen : o.unit = domain[j].unit /\ domain[j] = o.stages["decision"]
    BY <1>7, GroundsOf
  <2>3. q.unit.target = Mine.target
    BY <1>7, <2>1, GroundsOf
  <2>4. SequenceOf(domain[j].unit) = q.sequence
    BY <1>1, <2>1, SequenceIs
  <2>5. q.sequence <= r.sequence
    BY <1>1, <1>6, <2>3 DEF ReadInv
  <2>6. q.sequence # r.sequence
    <3>1. SUFFICES ASSUME q.sequence = r.sequence PROVE FALSE
      OBVIOUS
    <3>2. q = r
      BY <1>1, <1>3, <2>1, <2>3, <3>1 DEF ReadInv
    <3>3. o = p
      BY <1>1, <1>2, <1>3, <2>1, <2>2, <3>2 DEF PlanInv
    <3> QED BY <2>2, <3>3 DEF Within
  <2>7. q.sequence \in Nat /\ r.sequence \in Nat
    <3>1. q \in ReadRecord /\ r \in ReadRecord
      BY <1>1 DEF TypeOK
    <3> QED BY <3>1 DEF ReadRecord
  <2>8. q.sequence < r.sequence
    BY <2>5, <2>6, <2>7
  <2> QED BY <1>6, <2>4, <2>8
<1> QED BY <1>3, <1>5, <1>7

\* Decisions stay grounded where they are.
LEMMA OldDecision ==
    ASSUME IInv, Shape, ReadInv', NEW i \in DOMAIN domain, domain[i].kind = "decision",
           NEW u, u = domain[i].unit
    PROVE  /\ \E r \in reads' : r.unit = u /\ r.state = "captured"
           /\ \E p \in frozen' : p.unit = u /\ \A s \in Stage \ {"decision"} :
                 \E j \in 1..(i - 1) : domain[j] = p.stages[s]
           /\ \A j \in 1..(i - 1) : domain[j].kind = "decision" /\ domain[j].target = u.target =>
                 \E v : v = domain[j].unit /\ SequenceOf(v)' < SequenceOf(u)'
<1>1. DecisionsAreGrounded /\ TypeOK /\ ReadInv
  BY DEF IInv
<1>2. PICK r \in reads : r.unit = u /\ r.state = "captured"
  BY GroundsOf
<1>3. reads \subseteq reads' /\ frozen \subseteq frozen'
  BY ReadsGrow
<1>4. SequenceOf(u)' = r.sequence /\ SequenceOf(u) = r.sequence
  <2>1. SequenceOf(r.unit)' = r.sequence
    BY ReadsGrow
  <2>2. SequenceOf(r.unit) = r.sequence
    BY <1>1, SequenceIs
  <2> QED BY <1>2, <2>1, <2>2
<1>5. \E p \in frozen : p.unit = u /\ \A s \in Stage \ {"decision"} :
         \E j \in 1..(i - 1) : domain[j] = p.stages[s]
  BY <1>1 DEF DecisionsAreGrounded, PlanOf
<1>6. ASSUME NEW j \in 1..(i - 1), domain[j].kind = "decision", domain[j].target = u.target
      PROVE  \E v : v = domain[j].unit /\ SequenceOf(v)' < SequenceOf(u)'
  <2>1. j \in DOMAIN domain
    <3>1. domain \in Seq(EventRecord)
      BY <1>1 DEF TypeOK
    <3>2. DOMAIN domain = 1..Len(domain) /\ Len(domain) \in Nat
      BY <3>1
    <3>3. i \in 1..Len(domain)
      BY <3>2
    <3>4. j \in 1..Len(domain)
      BY <3>2, <3>3
    <3> QED BY <3>2, <3>4
  <2>2. PICK q \in reads : q.unit = domain[j].unit
    BY <1>6, <2>1, GroundsOf
  <2>3. SequenceOf(q.unit)' = q.sequence
    BY ReadsGrow
  <2>4. SequenceOf(domain[j].unit) = q.sequence
    BY <1>1, <2>2, SequenceIs
  <2>5. SequenceOf(domain[j].unit) < SequenceOf(u)
    BY <1>1, <1>6 DEF DecisionsAreGrounded
  <2>6. q.sequence < r.sequence
    BY <1>4, <2>4, <2>5
  <2> QED BY <1>4, <2>2, <2>3, <2>6
<1> QED BY <1>2, <1>3, <1>5, <1>6

\* Decisions stand on their grounds.
LEMMA GroundsStep == ASSUME IInv, Shape, ReadInv' PROVE DecisionsAreGrounded'
<1>1. TypeOK /\ DomainInv
  BY DEF IInv
<1>2. domain \in Seq(EventRecord)
  BY <1>1 DEF TypeOK
<1>3. DOMAIN domain = 1..Len(domain) /\ Len(domain) \in Nat
  BY <1>2
<1>4. \A i \in DOMAIN domain : i \in DOMAIN domain' /\ domain'[i] = domain[i]
  BY LedgerKeeps
<1>5. \A i \in DOMAIN domain : \A j \in 1..(i - 1) : j \in DOMAIN domain
  <2>1. \A i \in 1..Len(domain) : \A j \in 1..(i - 1) : j \in 1..Len(domain)
    BY <1>3
  <2> QED BY <1>3, <2>1
<1> DEFINE Grounded(i, u) ==
        /\ \E r \in reads' : r.unit = u /\ r.state = "captured"
        /\ \E p \in frozen' : p.unit = u /\ \A s \in Stage \ {"decision"} :
              \E j \in 1..(i - 1) : domain'[j] = p.stages[s]
        /\ \A j \in 1..(i - 1) : domain'[j].kind = "decision" /\ domain'[j].target = u.target =>
              \E v : v = domain'[j].unit /\ SequenceOf(v)' < SequenceOf(u)'
<1>6. ASSUME NEW i \in DOMAIN domain, domain[i].kind = "decision"
      PROVE  \E u : u = domain'[i].unit /\ Grounded(i, u)
  <2>1. PICK u : u = domain[i].unit
    OBVIOUS
  <2>2. /\ \E r \in reads' : r.unit = u /\ r.state = "captured"
        /\ \E p \in frozen' : p.unit = u /\ \A s \in Stage \ {"decision"} :
              \E j \in 1..(i - 1) : domain[j] = p.stages[s]
        /\ \A j \in 1..(i - 1) : domain[j].kind = "decision" /\ domain[j].target = u.target =>
              \E v : v = domain[j].unit /\ SequenceOf(v)' < SequenceOf(u)'
    BY <1>6, <2>1, OldDecision
  <2>3. \A j \in 1..(i - 1) : domain'[j] = domain[j]
    BY <1>4, <1>5
  <2>4. domain'[i] = domain[i]
    BY <1>4
  <2> QED BY <2>1, <2>2, <2>3, <2>4
<1>7. ASSUME NEW i \in DOMAIN domain', i \notin DOMAIN domain, domain'[i].kind = "decision"
      PROVE  \E u : u = domain'[i].unit /\ Grounded(i, u)
  <2>1. PICK e \in EventRecord :
            /\ ~ Within(domain, e) /\ domain' = Append(domain, e) /\ UNCHANGED <<reads, frozen>>
            /\ \/ e.kind \in {"account", "artifact"}
               \/ Proceeds /\ \E p \in frozen : /\ Tells(p) /\ e = p.stages[NextStage(Mine)]
                                                /\ NextStage(Mine) \in Stage
    BY <1>7, LedgerGrows
  <2>2. i = Len(domain) + 1 /\ domain'[i] = e
    BY <1>2, <1>7, <2>1, Appended
  <2>3. PICK p \in frozen : /\ Tells(p) /\ e = p.stages[NextStage(Mine)]
                            /\ NextStage(Mine) \in Stage /\ Works
    BY <1>7, <2>1, <2>2 DEF Proceeds
  <2>4. NextStage(Mine) = "decision" /\ e.unit = p.unit /\ e.target = p.unit.target
    BY <1>7, <2>2, <2>3, PlanSays
  <2>5. Owns(Mine) /\ p.unit = Mine
    BY <2>3 DEF Works, Stands, IInv, FenceInv, Mine, Tells
  <2>6. /\ \E r \in reads : r.unit = Mine /\ r.state = "captured"
        /\ \A s \in Stage \ {"decision"} : \E j \in DOMAIN domain : domain[j] = p.stages[s]
        /\ \A j \in DOMAIN domain :
              domain[j].kind = "decision" /\ domain[j].target = Mine.target =>
                 SequenceOf(domain[j].unit) < SequenceOf(Mine)
    BY <2>1, <2>3, <2>4, <2>5, LastDecision
  <2>7. \A j : j \in 1..(i - 1) <=> j \in DOMAIN domain
    BY <1>3, <2>2
  <2>8. \A v : SequenceOf(v)' = SequenceOf(v)
    BY <2>1 DEF SequenceOf, ReadsOf
  <2>9. PICK u : u = Mine
    OBVIOUS
  <2>10. u = domain'[i].unit /\ p.unit = u
    BY <2>2, <2>4, <2>5, <2>9
  <2>11. \E r \in reads' : r.unit = u /\ r.state = "captured"
    BY <2>1, <2>6, <2>9
  <2>12. \A s \in Stage \ {"decision"} : \E j \in 1..(i - 1) : domain'[j] = p.stages[s]
    BY <1>4, <2>6, <2>7
  <2>13. p \in frozen'
    BY <2>1
  <2>14. ASSUME NEW j \in 1..(i - 1), domain'[j].kind = "decision", domain'[j].target = u.target
         PROVE  \E v : v = domain'[j].unit /\ SequenceOf(v)' < SequenceOf(u)'
    <3>1. j \in DOMAIN domain /\ domain'[j] = domain[j]
      BY <1>4, <2>7
    <3>2. PICK v : v = domain[j].unit
      OBVIOUS
    <3>3. SequenceOf(v) < SequenceOf(u)
      BY <2>6, <2>9, <2>14, <3>1, <3>2
    <3> QED BY <2>8, <3>1, <3>2, <3>3
  <2> QED BY <2>10, <2>11, <2>12, <2>13, <2>14
<1>8. \A i \in DOMAIN domain' : domain'[i].kind = "decision" =>
         \E u : u = domain'[i].unit /\ Grounded(i, u)
  <2> HIDE DEF Grounded
  <2> QED BY <1>4, <1>6, <1>7
<1> QED BY <1>8 DEF DecisionsAreGrounded, ReadsOf, PlanOf

\* A result changes only when its member ends.
LEMMA Results ==
    ASSUME IInv, Shape, NEW t \in Tick, NEW x \in Target,
           member'[t][x].result # member[t][x].result
    PROVE  /\ t = work.tick /\ x = Current
           /\ \E r \in {"unchanged", "refused", "complete"} : Ends(r) /\ member'[t][x].result = r
<1>1. CASE \E s \in Tick : Admits(s)
  <2>1. PICK s \in Tick : Admits(s)
    BY <1>1
  <2> QED BY <2>1, Admitted
<1>2. CASE \E g \in Nat : Claims(g)
  BY <1>2 DEF Claims, OtherMembers
<1>3. CASE Proceeds
  BY <1>3 DEF Proceeds, OtherMembers
<1>4. CASE \E r \in {"unchanged", "refused", "complete"} : Ends(r)
  BY <1>4 DEF Ends, OtherMembers
<1>5. \/ \E s \in Tick : Admits(s)
      \/ \E g \in Nat : Claims(g)
      \/ Proceeds
      \/ \E r \in {"unchanged", "refused", "complete"} : Ends(r)
  BY DEF Shape, Moves, Seals, SealRead, Freezes, FreezeSubmission, Comes, durable
<1> QED BY <1>1, <1>2, <1>3, <1>4, <1>5

\* A result says what became of the submission.
LEMMA OutcomeStep == ASSUME IInv, Shape PROVE OutcomeInv'
<1>1. TypeOK /\ OutcomeInv /\ MemberInv /\ DomainInv /\ PlanInv
  BY DEF IInv
<1>2. ASSUME NEW t \in Tick, NEW x \in Target, Decided(t, x) # {}
      PROVE  Decided(t, x)' # {}
  <2>1. PICK i \in DOMAIN domain : /\ domain[i].kind = "decision"
                                   /\ domain[i].unit.tick = t /\ domain[i].unit.target = x
    BY <1>2 DEF Decided
  <2>2. i \in DOMAIN domain' /\ domain'[i] = domain[i]
    BY LedgerKeeps
  <2> QED BY <2>1, <2>2 DEF Decided
<1>3. ASSUME NEW t \in Tick, NEW x \in Target, member'[t][x].result = "complete"
      PROVE  Decided(t, x)' # {}
  <2>1. CASE member[t][x].result = "complete"
    BY <1>1, <1>2, <2>1 DEF OutcomeInv
  <2>2. CASE member[t][x].result # "complete"
    <3>1. t = work.tick /\ x = Current /\ Ends("complete")
      BY <1>3, <2>2, Results
    <3>2. PlanOf(Mine) # {} /\ Accepted(Mine) = Stage
      BY <3>1 DEF Ends
    <3>3. PICK p \in frozen : p.unit = Mine
      BY <3>2 DEF PlanOf
    <3>4. "decision" \in Stage
      BY FourStages
    <3>5. Within(domain, p.stages["decision"])
      BY <1>1, <3>2, <3>3, <3>4 DEF DomainInv
    <3>6. PICK i \in DOMAIN domain : domain[i] = p.stages["decision"]
      BY <3>5 DEF Within
    <3>7. domain[i].kind = "decision" /\ domain[i].unit = p.unit
      BY <3>4, <3>6, PlanSays
    <3>8. Mine.tick = t /\ Mine.target = x
      <4>1. work.tick \in Tick /\ Current \in Target
        BY <3>1 DEF Ends, Works, Stands
      <4> QED BY <1>1, <3>1, <4>1, UnitType DEF Mine
    <3>9. i \in Decided(t, x)
      BY <3>3, <3>7, <3>8 DEF Decided
    <3> QED BY <1>2, <3>9
  <2> QED BY <2>1, <2>2
<1>4. ASSUME NEW t \in Tick, NEW x \in Target, member'[t][x].result \in {"unchanged", "refused"},
             NEW p \in frozen', p.unit.tick = t, p.unit.target = x
      PROVE  FALSE
  <2>1. CASE member[t][x].result = member'[t][x].result
    <3>1. p \notin frozen
      BY <1>1, <1>4, <2>1 DEF OutcomeInv
    <3>2. Freezes
      BY <3>1 DEF Shape, Moves, Admits, Admit, Claims, Seals, SealRead, Ends, Untold, Comes,
                  Proceeds, durable
    <3>3. p.unit = Mine /\ Mine.tick = work.tick /\ Mine.target = Current
      BY <3>1, <3>2, Froze
    <3>4. member[t][x].state \in Held
      BY <1>4, <3>2, <3>3 DEF Freezes, Works
    <3>5. member[t][x].result = "none"
      BY <1>1, <3>4 DEF MemberInv, Held
    <3> QED BY <1>4, <2>1, <3>5
  <2>2. CASE member[t][x].result # member'[t][x].result
    <3>1. t = work.tick /\ x = Current
          /\ \E r \in {"unchanged", "refused", "complete"} : Ends(r) /\ member'[t][x].result = r
      BY <2>2, Results
    <3>2. PICK r \in {"unchanged", "refused"} : Ends(r)
      BY <1>4, <3>1
    <3>3. PlanOf(Mine) = {} /\ p \in frozen
      BY <1>4, <3>2 DEF Ends, Untold
    <3>4. p.unit = Unit(t, x)
      BY <1>4, <3>3, PlanOfMember
    <3>5. p.unit = Mine
      BY <3>1, <3>4 DEF Mine
    <3> QED BY <3>3, <3>5 DEF PlanOf
  <2> QED BY <2>1, <2>2
<1>5. \A t \in Tick, x \in Target :
         /\ member'[t][x].result = "complete" => Decided(t, x)' # {}
         /\ member'[t][x].result \in {"unchanged", "refused"} =>
               ~ \E p \in frozen' : p.unit.tick = t /\ p.unit.target = x
  BY <1>3, <1>4
<1> QED BY <1>5 DEF OutcomeInv

--------------------------------------------------------------------------------
(* Coalesced ticks                                                              *)

\* An admitted tick has one ordinal.
LEMMA OrdinalIs ==
    ASSUME IInv, NEW i \in DOMAIN ticks
    PROVE  OrdinalOf(ticks[i]) = i
<1> DEFINE k == CHOOSE j \in DOMAIN ticks : ticks[j] = ticks[i]
<1>1. k \in DOMAIN ticks /\ ticks[k] = ticks[i]
  OBVIOUS
<1>2. k = i
  BY <1>1 DEF IInv, QueueInv
<1> QED BY <1>2 DEF OrdinalOf

\* An admitted tick stands at its ordinal.
LEMMA OrdinalType ==
    ASSUME IInv, NEW t \in Tick, progress[t] # "absent"
    PROVE  /\ OrdinalOf(t) \in DOMAIN ticks /\ ticks[OrdinalOf(t)] = t
           /\ OrdinalOf(t) \in Nat /\ OrdinalOf(t) <= Len(ticks)
<1>1. PICK i \in DOMAIN ticks : ticks[i] = t
  BY DEF IInv, QueueInv
<1>2. OrdinalOf(t) = i
  BY <1>1, OrdinalIs
<1>3. DOMAIN ticks = 1..Len(ticks) /\ Len(ticks) \in Nat
  <2>1. ticks \in Seq(Tick)
    BY DEF IInv, TypeOK
  <2> QED BY <2>1
<1>4. \A j \in 1..Len(ticks) : j \in Nat /\ j <= Len(ticks)
  BY <1>3
<1> QED BY <1>1, <1>2, <1>3, <1>4

\* A tick that covers another one still does, unless its reads start over.
LEMMA CoverKept ==
    ASSUME CoverInv, UNCHANGED <<ticks, reads>>,
           \A t \in Tick : progress'[t] = "coalesced" <=> progress[t] = "coalesced",
           \A t \in Tick : progress'[t] = "absent" <=> progress[t] = "absent",
           work'.at = "reading" => work' = work
    PROVE  CoverInv'
<1>1. ASSUME NEW t \in Tick, NEW s \in Tick, Covers(s, t)
      PROVE  Covers(s, t)'
  BY <1>1 DEF Covers, OrdinalOf
<1>2. \A t \in Tick : progress'[t] = "coalesced" => \E s \in Tick : Covers(s, t)
  BY DEF CoverInv
<1>3. \A t \in Tick : progress'[t] = "coalesced" => \E s \in Tick : Covers(s, t)'
  BY <1>1, <1>2
<1> QED BY <1>3 DEF CoverInv

\* The tick that waits covers the one that is coalesced behind it.
LEMMA CoverAdmits ==
    ASSUME IInv, NEW t \in Tick, Admits(t)
    PROVE  CoverInv'
<1>1. TypeOK /\ QueueInv /\ CoverInv /\ MemberInv /\ WorkInv
  BY DEF IInv
<1>2. /\ progress[t] = "absent" /\ ticks' = Append(ticks, t) /\ UNCHANGED <<reads, work>>
      /\ progress'[t] = Disposition
      /\ \A s \in Tick : s # t => progress'[s] = progress[s]
  BY Admitted DEF Admits, Admit
<1>3. ticks \in Seq(Tick)
  BY <1>1 DEF TypeOK
<1> DEFINE n == Len(ticks) + 1
<1>4. /\ Len(ticks) \in Nat /\ n \in Nat
      /\ DOMAIN ticks' = 1..n /\ ticks'[n] = t
      /\ \A i \in DOMAIN ticks : i \in DOMAIN ticks' /\ ticks'[i] = ticks[i]
      /\ \A i \in DOMAIN ticks' : i \in DOMAIN ticks \/ i = n
  <2>1. LET r == Append(ticks, t)
        IN  /\ Len(ticks) \in Nat /\ DOMAIN r = 1..n /\ r[n] = t
            /\ \A i \in DOMAIN ticks : i \in DOMAIN r /\ r[i] = ticks[i]
            /\ \A i \in DOMAIN r : i \in DOMAIN ticks \/ i = n
    BY <1>3, Appended
  <2> QED BY <1>2, <2>1
<1>5. n \in DOMAIN ticks'
  <2>1. n \in 1..n
    BY <1>4
  <2> QED BY <1>4, <2>1
<1>6. \A i \in DOMAIN ticks : ticks[i] # t
  BY <1>1, <1>2 DEF QueueInv
<1> HIDE DEF n
<1>7. (CHOOSE i \in DOMAIN ticks' : ticks'[i] = t) = n
  <2> DEFINE k == CHOOSE i \in DOMAIN ticks' : ticks'[i] = t
  <2>1. k \in DOMAIN ticks' /\ ticks'[k] = t
    BY <1>4, <1>5
  <2> HIDE DEF k
  <2>2. k = n
    BY <1>4, <1>6, <2>1
  <2> QED BY <2>2 DEF k
<1>8. ASSUME NEW s \in Tick, progress[s] # "absent"
      PROVE  (CHOOSE i \in DOMAIN ticks' : ticks'[i] = s) = OrdinalOf(s)
  <2> DEFINE k == CHOOSE i \in DOMAIN ticks' : ticks'[i] = s
  <2>1. OrdinalOf(s) \in DOMAIN ticks /\ ticks[OrdinalOf(s)] = s
    BY <1>8, OrdinalType
  <2>2. k \in DOMAIN ticks' /\ ticks'[k] = s
    BY <1>4, <2>1
  <2> HIDE DEF k
  <2>3. s # t
    BY <1>2, <1>8
  <2>4. k \in DOMAIN ticks /\ ticks[k] = s
    BY <1>4, <2>2, <2>3
  <2>5. k = OrdinalOf(s)
    BY <1>1, <2>1, <2>4 DEF QueueInv
  <2> QED BY <2>5 DEF k
<1>9. ASSUME NEW s \in Tick, progress'[s] = "coalesced"
      PROVE  \E q \in Tick : Covers(q, s)'
  <2>1. CASE s # t
    <3>1. progress[s] = "coalesced"
      BY <1>2, <1>9, <2>1
    <3>2. PICK q \in Tick : Covers(q, s)
      BY <1>1, <3>1 DEF CoverInv
    <3>3. progress[q] \notin {"absent", "coalesced"} /\ q # t /\ progress'[q] = progress[q]
      BY <1>2, <3>2 DEF Covers
    <3>4. OrdinalOf(q)' = OrdinalOf(q) /\ OrdinalOf(s)' = OrdinalOf(s)
      BY <1>8, <3>1, <3>3 DEF OrdinalOf
    <3>5. Covers(q, s)'
      BY <1>2, <3>2, <3>3, <3>4 DEF Covers
    <3> QED BY <3>5
  <2>2. CASE s = t
    <3>1. Disposition = "coalesced"
      BY <1>2, <1>9, <2>2
    <3>2. PICK q \in Tick : progress[q] = "waiting"
      BY <3>1, DispositionIs
    <3>3. q # t /\ progress'[q] = "waiting"
      BY <1>2, <3>2
    <3>4. OrdinalOf(q)' = OrdinalOf(q) /\ OrdinalOf(t)' = n
      BY <1>7, <1>8, <3>2 DEF OrdinalOf
    <3>5. OrdinalOf(q) < n
      <4>1. OrdinalOf(q) \in Nat /\ OrdinalOf(q) <= Len(ticks)
        BY <3>2, OrdinalType
      <4> QED BY <1>4, <4>1 DEF n
    <3>6. ~ \E r \in reads : r.unit.tick = q
      <4>1. \A r \in reads : /\ r.unit.tick \in Tick /\ r.unit.target \in Target
                             /\ member[r.unit.tick][r.unit.target].state \notin {"none", "queued"}
        BY ReadOfMember
      <4>2. \A x \in Target : member[q][x].state = "queued"
        BY <1>1, <3>2 DEF MemberInv
      <4> QED BY <4>1, <4>2
    <3>7. ~ (work.at = "reading" /\ work.tick = q)
      BY <1>1, <3>2 DEF WorkInv
    <3>8. Covers(q, s)'
      BY <1>2, <2>2, <3>3, <3>4, <3>5, <3>6, <3>7 DEF Covers
    <3> QED BY <3>8
  <2> QED BY <2>1, <2>2
<1> QED BY <1>9 DEF CoverInv

\* A read in its time keeps its tick covering what it covered.
LEMMA CoverReads ==
    ASSUME IInv, UNCHANGED <<ticks, progress>>,
           \/ \E i \in Inputs : Seals(i)
           \/ Proceeds /\ work'.at = "reading" /\ Stays /\ work'.since = Len(ticks)
    PROVE  CoverInv'
<1>1. TypeOK /\ CoverInv
  BY DEF IInv
<1>2. ASSUME NEW s \in Tick, NEW t \in Tick, progress[t] = "coalesced", Covers(s, t)
      PROVE  Covers(s, t)'
  <2>1. OrdinalOf(s)' = OrdinalOf(s) /\ OrdinalOf(t)' = OrdinalOf(t)
    BY DEF OrdinalOf
  <2>2. CASE \E i \in Inputs : Seals(i)
    <3>1. PICK i \in Inputs : Seals(i)
      BY <2>2
    <3> DEFINE new == [unit |-> Mine, inputs |-> i,
                       sequence |-> polling[Current].sequence + (IF Unchanged(i) THEN 0 ELSE 1),
                       since |-> work.since,
                       state |-> IF Unchanged(i) THEN "unchanged" ELSE "captured"]
    <3>2. /\ reads' = reads \cup {new} /\ work.at = "reading"
          /\ work' = [work EXCEPT !.at = "owned"]
          /\ work.tick \in Tick /\ Current \in Target
      BY <3>1 DEF Seals, SealRead, Goto, Works, Stands
    <3>3. new.unit.tick = work.tick /\ new.since = work.since
      <4>1. Mine.tick = work.tick
        BY <1>1, <3>2, UnitType DEF Mine
      <4> QED BY <4>1
    <3>4. work'.at = "owned"
      BY <1>1, <3>2, Places
    <3> HIDE DEF new
    <3>5. \A r \in reads' : r.unit.tick = s => r.since >= OrdinalOf(t)
      BY <1>2, <3>2, <3>3 DEF Covers
    <3> QED BY <1>2, <2>1, <3>4, <3>5 DEF Covers
  <2>3. CASE Proceeds /\ work'.at = "reading" /\ Stays /\ work'.since = Len(ticks)
    <3>1. reads' = reads
      BY <2>3 DEF Proceeds
    <3>2. Len(ticks) >= OrdinalOf(t)
      <4>1. OrdinalOf(t) \in Nat /\ OrdinalOf(t) <= Len(ticks)
        BY <1>2, OrdinalType
      <4> QED BY <4>1
    <3> QED BY <1>2, <2>1, <2>3, <3>1, <3>2 DEF Covers
  <2> QED BY <2>2, <2>3
<1>3. \A t \in Tick : progress'[t] = "coalesced" => \E s \in Tick : Covers(s, t)'
  BY <1>1, <1>2 DEF CoverInv
<1> QED BY <1>3 DEF CoverInv

\* Coalesced ticks stay covered.
LEMMA CoverStep == ASSUME IInv, Shape PROVE CoverInv'
<1>1. TypeOK /\ CoverInv
  BY DEF IInv
<1>2. CASE \E t \in Tick : Admits(t)
  BY <1>2, CoverAdmits
<1>3. CASE \E i \in Inputs : Seals(i)
  <2>1. UNCHANGED <<ticks, progress>>
    BY <1>3 DEF Seals, SealRead
  <2> QED BY <1>3, <2>1, CoverReads
<1>4. CASE Proceeds
  <2>1. UNCHANGED <<ticks, progress, reads>>
    BY <1>4 DEF Proceeds
  <2>2. CASE work'.at = "reading"
    <3>1. Stays /\ work'.since = Len(ticks)
      BY <1>4, <2>2 DEF Proceeds
    <3> QED BY <1>4, <2>1, <2>2, <3>1, CoverReads
  <2>3. CASE work'.at # "reading"
    BY <1>1, <2>1, <2>3, CoverKept
  <2> QED BY <2>2, <2>3
<1>5. CASE \E r \in {"unchanged", "refused", "complete"} : Ends(r)
  <2>1. PICK r \in {"unchanged", "refused", "complete"} : Ends(r)
    BY <1>5
  <2>2. UNCHANGED <<ticks, reads>> /\ work'.at = "loop" /\ progress[work.tick] = "active"
    BY <2>1 DEF Ends, Works, Stands
  <2>3. ASSUME NEW t \in Tick
        PROVE  /\ progress'[t] = "coalesced" <=> progress[t] = "coalesced"
               /\ progress'[t] = "absent" <=> progress[t] = "absent"
    <3>1. CASE progress' = progress
      BY <3>1
    <3>2. CASE progress' # progress
      <4>1. /\ progress'[work.tick] = "complete"
            /\ \A s \in Tick : progress[s] = "waiting" => progress'[s] = "active"
            /\ \A s \in Tick : s # work.tick /\ progress[s] # "waiting" => progress'[s] = progress[s]
        BY <2>1, <3>2, TickEnds
      <4>2. CASE t = work.tick
        BY <2>2, <4>1, <4>2
      <4>3. CASE progress[t] = "waiting"
        BY <4>1, <4>3
      <4>4. CASE t # work.tick /\ progress[t] # "waiting"
        BY <4>1, <4>4
      <4> QED BY <4>2, <4>3, <4>4
    <3> QED BY <3>1, <3>2
  <2> QED BY <1>1, <2>2, <2>3, CoverKept
<1>6. CASE (\E g \in Nat : Claims(g)) \/ Freezes
  <2>1. UNCHANGED <<ticks, progress, reads>>
    BY <1>6 DEF Claims, Freezes, FreezeSubmission
  <2>2. work'.at = "owned"
    <3>1. CASE \E g \in Nat : Claims(g)
      BY <3>1 DEF Claims
    <3>2. CASE Freezes
      <4>1. work' = [work EXCEPT !.at = "owned"]
        BY <3>2 DEF Freezes, FreezeSubmission, Goto
      <4> QED BY <1>1, <4>1, Places
    <3> QED BY <1>6, <3>1, <3>2
  <2> QED BY <1>1, <2>1, <2>2, CoverKept
<1>7. CASE Moves \/ Comes
  <2>1. UNCHANGED <<ticks, progress, reads>>
    BY <1>7 DEF Moves, Comes, durable
  <2>2. work' = work \/ work'.at # "reading"
    BY <1>7 DEF Moves, Comes
  <2> QED BY <1>1, <2>1, <2>2, CoverKept
<1> QED BY <1>2, <1>3, <1>4, <1>5, <1>6, <1>7 DEF Shape

--------------------------------------------------------------------------------
(* The theorems                                                                 *)

\* An empty store keeps its shape.
LEMMA TypeInit == Init => TypeOK
<1>1. SUFFICES ASSUME Init PROVE TypeOK
  OBVIOUS
<1>2. <<>> \in Seq(Tick) /\ <<>> \in Seq(EventRecord)
  OBVIOUS
<1>3. IsFiniteSet({})
  BY FS_EmptySet
<1>4. member \in [Tick -> [Target -> MemberRecord]]
  <2>1. [state |-> "none", generation |-> 0, result |-> "none"] \in MemberRecord
    BY DEF MemberRecord
  <2> QED BY <1>1, <2>1 DEF Init
<1>5. owner \in [Target -> OwnerRecord]
  <2>1. [tick |-> NoTick, generation |-> 0, held |-> FALSE] \in OwnerRecord
    BY DEF OwnerRecord
  <2> QED BY <1>1, <2>1 DEF Init
<1>6. polling \in [Target -> [sequence : Nat, inputs : Inputs \cup {NoInputs}]]
  BY <1>1 DEF Init
<1>7. progress \in [Tick -> {"absent", "active", "waiting", "coalesced", "complete"}]
  BY <1>1 DEF Init
<1>8. work \in WorkRecord /\ faults \in Nat
  BY <1>1, Starts DEF Init
<1> QED BY <1>1, <1>2, <1>3, <1>4, <1>5, <1>6, <1>7, <1>8 DEF Init, TypeOK

\* The invariant holds of an empty store and an idle runner.
LEMMA IInvInit == Init => IInv
<1>1. SUFFICES ASSUME Init PROVE IInv
  OBVIOUS
<1>2. TypeOK
  BY <1>1, TypeInit
<1>3. /\ DOMAIN ticks = {} /\ DOMAIN domain = {}
      /\ reads = {} /\ frozen = {} /\ attempts = {}
      /\ \A t \in Tick : progress[t] = "absent"
      /\ \A x \in Target : ~ owner[x].held
      /\ work.at = "idle"
  <2>1. /\ ticks = <<>> /\ domain = <<>> /\ reads = {} /\ frozen = {} /\ attempts = {}
        /\ progress = [t \in Tick |-> "absent"] /\ work = Idle
        /\ owner = [x \in Target |-> [tick |-> NoTick, generation |-> 0, held |-> FALSE]]
    BY <1>1 DEF Init
  <2>2. DOMAIN ticks = {} /\ DOMAIN domain = {}
    <3>1. \A i : i \notin 1..0
      OBVIOUS
    <3>2. \A q : q = <<>> => DOMAIN q = 1..0
      OBVIOUS
    <3> QED BY <2>1, <3>1, <3>2
  <2>3. \A x \in Target : ~ owner[x].held
    BY <2>1
  <2>4. work.at = "idle"
    BY <2>1, Starts
  <2> QED BY <2>1, <2>2, <2>3, <2>4
<1>4. \A t \in Tick, x \in Target : member[t][x].state = "none" /\ member[t][x].result = "none"
  <2>1. \A t \in Tick, x \in Target :
           member[t][x] = [state |-> "none", generation |-> 0, result |-> "none"]
    BY <1>1 DEF Init
  <2> QED BY <2>1
<1>5. QueueInv
  BY <1>3 DEF QueueInv, Pending
<1>6. MemberInv
  BY <1>3, <1>4, ATarget DEF MemberInv
<1>7. FenceInv
  BY <1>3, <1>4 DEF FenceInv, Held
<1>8. WorkInv
  BY <1>3 DEF WorkInv
<1>9. ReadInv /\ PlanInv
  BY <1>3 DEF ReadInv, PlanInv
<1>10. DomainInv /\ DecisionsAreGrounded
  BY <1>3 DEF DomainInv, DecisionsAreGrounded
<1>11. OutcomeInv /\ CoverInv
  BY <1>3, <1>4 DEF OutcomeInv, CoverInv
<1> QED BY <1>2, <1>5, <1>6, <1>7, <1>8, <1>9, <1>10, <1>11 DEF IInv

\* Every step keeps the invariant.
LEMMA IInvStep == IInv /\ [Next]_vars => IInv'
<1>1. SUFFICES ASSUME IInv, [Next]_vars PROVE IInv'
  OBVIOUS
<1>2. TypeOK' /\ Shape
  BY <1>1, ShapeOfAStep
<1>3. QueueInv' /\ MemberInv' /\ FenceInv' /\ WorkInv' /\ ReadInv'
  BY <1>1, <1>2, QueueStep, MemberStep, FenceStep, WorkStep, ReadsStep
<1>4. PlanInv' /\ DomainInv' /\ OutcomeInv' /\ CoverInv'
  BY <1>1, <1>2, PlanStep, DomainStep, OutcomeStep, CoverStep
<1>5. DecisionsAreGrounded'
  BY <1>1, <1>2, <1>3, GroundsStep
<1> QED BY <1>2, <1>3, <1>4, <1>5 DEF IInv

\* The inductive invariant of the queue, the members, the reads, the submissions and the
\* ledger.
THEOREM Inductive == Spec => []IInv
BY IInvInit, IInvStep, PTL DEF Spec

\* The tables of the store, the ledger and the runner keep their shape.
THEOREM TypeCorrect == Spec => []TypeOK
<1>1. IInv => TypeOK
  BY DEF IInv
<1> QED BY <1>1, Inductive, PTL

\* The queue audit of poll_store.py never refuses what the store holds.
THEOREM QueueIsInOrder == Spec => []QueueAudit
<1>1. IInv => QueueAudit
  <2>1. SUFFICES ASSUME IInv PROVE QueueAudit
    OBVIOUS
  <2>2. QueueInv /\ MemberInv
    BY <2>1 DEF IInv
  <2>3. \A i, j \in DOMAIN ticks : i < j =>
           /\ progress[ticks[j]] = "complete" => progress[ticks[i]] \in {"complete", "coalesced"}
           /\ progress[ticks[j]] = "active" => progress[ticks[i]] \in {"complete", "coalesced"}
           /\ progress[ticks[j]] = "waiting" => progress[ticks[i]] # "waiting"
    BY <2>2 DEF QueueInv
  <2>4. \A t \in Pending : \E s \in Tick : progress[s] = "active"
    BY <2>2 DEF QueueInv
  <2>5. \A t \in Tick : progress[t] = "complete" <=>
           \A x \in Target : member[t][x].state = "terminal"
    BY <2>2 DEF MemberInv
  <2> QED BY <2>3, <2>4, <2>5 DEF QueueAudit
<1> QED BY <1>1, Inductive, PTL

\* No claim is refused its target, and no claim with a sealed read is read again.
THEOREM TargetsAreFenced == Spec => []ReadsAreFenced
<1>1. IInv => ReadsAreFenced
  <2>1. SUFFICES ASSUME IInv PROVE ReadsAreFenced
    OBVIOUS
  <2>2. FenceInv /\ WorkInv
    BY <2>1 DEF IInv
  <2>3. At("reading") => ~ \E r \in reads : r.unit.tick = work.tick /\ r.unit.target = Current
    <3>1. SUFFICES ASSUME work.at = "reading"
                   PROVE  ~ \E r \in reads : r.unit.tick = work.tick /\ r.unit.target = Current
      BY DEF At
    <3>2. work.tick \in Tick /\ Current \in Target
      BY <2>1, <3>1, AtWork DEF Works, Stands
    <3>3. ReadsOf(Unit(work.tick, Current)) = {}
      BY <2>2, <3>1 DEF WorkInv, Mine
    <3> QED BY <2>1, <3>2, <3>3, ReadUnits
  <2>4. /\ \A x \in Target : owner[x].held =>
              /\ owner[x].tick \in Tick
              /\ progress[owner[x].tick] = "active"
              /\ member[owner[x].tick][x].state \in Held
              /\ member[owner[x].tick][x].generation = owner[x].generation
        /\ \A t \in Tick, x \in Target : member[t][x].state \in Held => Owns(Unit(t, x))
    BY <2>2 DEF FenceInv
  <2> QED BY <2>3, <2>4 DEF ReadsAreFenced
<1> QED BY <1>1, Inductive, PTL

\* Two events of the ledger that were decided for one claim are the same event.
LEMMA OneDecision ==
    ASSUME IInv, NEW t \in Tick, NEW x \in Target
    PROVE  Cardinality(Decided(t, x)) <= 1
<1>1. DomainInv /\ PlanInv
  BY DEF IInv
<1>2. ASSUME NEW i \in Decided(t, x)
      PROVE  /\ i \in DOMAIN domain
             /\ \E p \in frozen : p.unit = Unit(t, x) /\ domain[i] = p.stages["decision"]
  <2>1. /\ i \in DOMAIN domain /\ domain[i].kind = "decision"
        /\ domain[i].unit.tick = t /\ domain[i].unit.target = x
    BY DEF Decided
  <2>2. PICK p \in frozen : p.unit = domain[i].unit /\ domain[i] = p.stages["decision"]
    BY <2>1, GroundsOf
  <2>3. p.unit = Unit(t, x)
    BY <2>1, <2>2, PlanOfMember
  <2> QED BY <2>1, <2>2, <2>3
<1>3. \A i, j \in Decided(t, x) : i = j
  <2>1. SUFFICES ASSUME NEW i \in Decided(t, x), NEW j \in Decided(t, x) PROVE i = j
    OBVIOUS
  <2>2. PICK p \in frozen : p.unit = Unit(t, x) /\ domain[i] = p.stages["decision"]
    BY <1>2
  <2>3. PICK q \in frozen : q.unit = Unit(t, x) /\ domain[j] = q.stages["decision"]
    BY <1>2
  <2>4. p = q
    BY <1>1, <2>2, <2>3 DEF PlanInv
  <2> QED BY <1>1, <1>2, <2>2, <2>3, <2>4 DEF DomainInv
<1>4. CASE Decided(t, x) = {}
  BY <1>4, FS_EmptySet
<1>5. CASE Decided(t, x) # {}
  <2>1. PICK i : Decided(t, x) = {i}
    BY <1>3, <1>5
  <2>2. Cardinality({i}) = 1
    BY FS_Singleton
  <2>3. Cardinality(Decided(t, x)) = 1
    BY <2>1, <2>2, Zenon
  <2> QED BY <2>3
<1> QED BY <1>4, <1>5

\* What is reported of a member is what the ledger holds of it.
THEOREM ReportsHold == Spec => []ReportsAreTrue
<1>1. IInv => ReportsAreTrue
  <2>1. SUFFICES ASSUME IInv PROVE ReportsAreTrue
    OBVIOUS
  <2>2. DomainInv /\ OutcomeInv
    BY <2>1 DEF IInv
  <2>3. ASSUME NEW t \in Tick, NEW x \in Target,
               member[t][x].result \in {"unchanged", "refused"},
               NEW i \in DOMAIN domain, domain[i].unit.tick = t, domain[i].unit.target = x
        PROVE  FALSE
    <3>1. domain[i].unit # NoUnit
      BY <2>3, NoUnitType, NamesAssumption
    <3>2. PICK p \in PlanOf(domain[i].unit) : TRUE
      BY <2>2, <3>1 DEF DomainInv
    <3>3. p \in frozen /\ p.unit.tick = t /\ p.unit.target = x
      BY <2>3, <3>2 DEF PlanOf
    <3> QED BY <2>2, <2>3, <3>3 DEF OutcomeInv
  <2>4. \A t \in Tick, x \in Target : Cardinality(Decided(t, x)) <= 1
    BY <2>1, OneDecision
  <2>5. \A t \in Tick, x \in Target :
           member[t][x].result = "complete" => Decided(t, x) # {}
    BY <2>2 DEF OutcomeInv
  <2> QED BY <2>3, <2>4, <2>5 DEF ReportsAreTrue
<1> QED BY <1>1, Inductive, PTL

\* Decisions stand on their account, their artifact and their own evidence, in the order
\* of the captures of their target.
THEOREM DecisionsStandOnGrounds == Spec => []DecisionsAreGrounded
<1>1. IInv => DecisionsAreGrounded
  BY DEF IInv
<1> QED BY <1>1, Inductive, PTL

\* A coalesced tick is served by one that started all its reads after it.
THEOREM CoalescedAreCovered == Spec => []CoalescedIsCovered
<1>1. IInv => CoalescedIsCovered
  <2>1. \A s, t \in Tick : Covers(s, t) =>
           /\ progress[s] \notin {"absent", "coalesced"} /\ OrdinalOf(s) < OrdinalOf(t)
           /\ \A r \in reads : r.unit.tick = s => r.since >= OrdinalOf(t)
    BY DEF Covers
  <2> QED BY <2>1 DEF IInv, CoverInv, CoalescedIsCovered
<1> QED BY <1>1, Inductive, PTL

\* The ledger verification of submit.py stops a submission only when another caller
\* recorded an event of the same row.
THEOREM HeldOnlyForCause == Spec => []HeldForCause
<1>1. IInv => HeldForCause
  <2>1. SUFFICES ASSUME IInv, NEW p \in frozen, ~ Verifies(p)
                 PROVE  \E i \in DOMAIN domain : domain[i].by = "outside"
    BY DEF HeldForCause
  <2>2. DomainInv /\ TypeOK
    BY <2>1 DEF IInv
  <2>3. PICK s \in Stage : /\ s \in Accepted(p.unit) \/ Within(domain, p.stages[s])
                           /\ ~ Verified(domain, p.stages[s])
    BY <2>1 DEF Verifies
  <2>4. Within(domain, p.stages[s])
    BY <2>2, <2>3 DEF DomainInv
  <2>5. PICK i, j \in DOMAIN domain :
           j < i /\ domain[i] = p.stages[s] /\ Row(domain[j]) = Row(p.stages[s])
    BY <2>3, <2>4 DEF Verified, FirstOfItsRow
  <2>6. domain[i] \in EventRecord /\ domain[j] \in EventRecord
    BY <2>2, <2>5 DEF TypeOK
  <2>7. /\ domain[i].kind = domain[j].kind /\ domain[i].target = domain[j].target
        /\ domain[i].unit = domain[j].unit
    BY <2>5 DEF Row
  <2>8. domain[i].by = domain[j].by => domain[i] = domain[j]
    BY <2>6, <2>7 DEF EventRecord
  <2>9. i # j
    <3>1. i \in Nat /\ j \in Nat
      <4>1. domain \in Seq(EventRecord)
        BY <2>2 DEF TypeOK
      <4> QED BY <2>5, <4>1
    <3> QED BY <2>5, <3>1
  <2>10. domain[i] # domain[j]
    BY <2>2, <2>5, <2>9 DEF DomainInv
  <2>11. domain[i].by \in {"config", "outside"} /\ domain[j].by \in {"config", "outside"}
    BY <2>6 DEF EventRecord
  <2> QED BY <2>5, <2>8, <2>10, <2>11
<1> QED BY <1>1, Inductive, PTL
=============================================================================
