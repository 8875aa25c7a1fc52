--------------------------- MODULE AttributionService ---------------------------
(***************************************************************************)
(* The attribution command (attribution/service.py) over the ledger: runs, *)
(* ordinary or reevaluating, that fix one snapshot, walk the effective     *)
(* outcome versions of it, and submit one envelope at a time through the   *)
(* collector while producers append, other runs submit and callers         *)
(* resubmit envelopes they kept.                                           *)
(*                                                                         *)
(* A run reads in transactions of its own and submits outside of them, so  *)
(* what it read may be stale when the collector judges the envelope.  An   *)
(* answer may be lost before or after the commit; the same envelope is     *)
(* sent again up to SUBMIT_ATTEMPTS times, and every answer of 400 or more *)
(* ends the run.                                                           *)
(***************************************************************************)
EXTENDS Ledger, TLC

CONSTANTS
    Run,              \* concurrent runs of the command
    NoEnvelope,       \* nothing to send
    SUBMIT_ATTEMPTS,
    FirstRun,         \* bound: events recorded before the command is first run
    MaxHeld           \* bound: envelopes of failed submissions that callers keep

ASSUME AttemptsAssumption ==
    SUBMIT_ATTEMPTS \in Nat \ {0} /\ FirstRun \in Nat /\ MaxHeld \in Nat

\* attribution_event_id is a digest of the operation, that no producer chooses
ASSUME DerivedIdAssumption ==
    \A e, d \in Submittable, c \in 1..MaxEvents : e.id # AttributionId(d.id, c)

VARIABLES
    run,    \* per run: mode, snapshot, chains still to visit, envelope in flight
    held    \* envelopes of failed submissions, which a caller may submit again

serviceVars == <<events, retained, run, held>>

Idle == [at |-> "idle", reevaluate |-> FALSE, cutoff |-> 0, todo |-> {},
         envelope |-> NoEnvelope, tries |-> 0]

\* mutant: a chain is not followed past the version it begins with
FirstVersion(i, cutoff) == i

\* effective_outcome_version: along the chain to the version nothing supersedes
EffectiveVersion(i, cutoff) ==
    LET follow[j \in 1..cutoff] ==
            LET next == Successors(events[j].id, cutoff)
            IN  IF next = {} THEN j ELSE follow[CHOOSE k \in next : TRUE]
    IN  follow[i]

\* effective_outcome_versions: the chains, each by the version it begins with
ChainRoots(cutoff) == {i \in Recorded("outcome", cutoff) : events[i].supersedes = NoId}

ServiceInit == /\ Init
               /\ run = [r \in Run |-> Idle]
               /\ held = {}

ServiceProduce(e) == Produce(e) /\ UNCHANGED <<run, held>>

\* one read transaction: the snapshot and the versions effective in it; a run that
\* finds none is over at once
RunStart(r, reevaluate) ==
    /\ run[r] = Idle
    /\ Recorded("outcome", Maximum) # {} /\ Maximum >= FirstRun
    /\ run' = [run EXCEPT ![r] = [Idle EXCEPT !.at = "read", !.reevaluate = reevaluate,
                                              !.cutoff = Maximum,
                                              !.todo = ChainRoots(Maximum)]]
    /\ UNCHANGED <<events, retained, held>>

\* chains are visited in the order they begin
FirstChain(r) == CHOOSE i \in run[r].todo : \A j \in run[r].todo : i <= j

Reading(r, i) == run[r].at = "read" /\ i = EffectiveVersion(FirstChain(r), run[r].cutoff)
Existing(r, i) == Tips(events[i].id, run[r].cutoff)
Unchanged(r, i) ==
    \E t \in Existing(r, i) : events[t].result = Attribute(events[i], run[r].cutoff)

\* mutant: a version that has a result is never looked at again
NothingToDoIfAny(r, i) == Existing(r, i) # {}

\* already attributed, not yet attributed, or unchanged
NothingToDo(r, i) ==
    \/ ~run[r].reevaluate /\ Existing(r, i) # {}
    \/ run[r].reevaluate /\ Existing(r, i) = {}
    \/ run[r].reevaluate /\ Unchanged(r, i)

\* mutant: the run ends with the version it has just visited
AdvanceEnds(r) == run' = [run EXCEPT ![r] = Idle]

\* on to the next chain, or out of chains
Advance(r) ==
    LET rest == run[r].todo \ {FirstChain(r)}
    IN  run' = [run EXCEPT ![r] = IF rest = {} THEN Idle
                                  ELSE [run[r] EXCEPT !.at = "read", !.todo = rest,
                                                      !.envelope = NoEnvelope, !.tries = 0]]

RunSkip(r, i) ==
    /\ Reading(r, i) /\ NothingToDo(r, i)
    /\ Advance(r)
    /\ UNCHANGED <<events, retained, held>>

RunBuild(r, i) ==
    /\ Reading(r, i) /\ ~NothingToDo(r, i)
    /\ \E stamp \in Stamp, s \in {events[t].id : t \in Existing(r, i)} \cup {NoId} :
          /\ Existing(r, i) # {} => s # NoId
          /\ run' = [run EXCEPT ![r].at = "send", ![r].tries = 0,
                        ![r].envelope = AttributionEnvelope(events[i], run[r].cutoff, s, stamp)]
    /\ UNCHANGED <<events, retained, held>>

\* Collector.ingest, its answer included
Answer(e) ==
    IF \E i \in 1..Maximum : events[i].id = e.id
    THEN IF \E i \in 1..Maximum : events[i] = e THEN "duplicate" ELSE "conflict"
    ELSE IF Accepts(e) THEN "created" ELSE "rejected"

\* the bounds of the ledger leave a place for the event
Room == Maximum < MaxEvents /\ Cardinality(Results) < MaxResults

\* mutant: whatever has a new identity is stored
CollectAnyway(e) ==
    IF Answer(e) \in {"created", "rejected"} THEN Room /\ Store(e)
    ELSE UNCHANGED <<events, retained>>

Collect(e) ==
    IF Answer(e) = "created" THEN Room /\ Store(e) ELSE UNCHANGED <<events, retained>>

\* AttributionRun.submissions: the caller has the envelope of a failed submission
Keep(e) == held' = IF Cardinality(held) < MaxHeld THEN held \cup {e} ELSE held

\* the answer arrives: the next version, or the end of the run
RunAnswered(r) ==
    /\ run[r].at = "send"
    /\ LET e == run[r].envelope
       IN  /\ Collect(e)
           /\ \/ /\ Answer(e) \in {"created", "duplicate"}
                 /\ Advance(r)
                 /\ UNCHANGED held
              \/ /\ Answer(e) \in {"conflict", "rejected"}
                 /\ run' = [run EXCEPT ![r] = Idle]
                 /\ Keep(e)

\* a transport error or a server error: collected or not, nobody knows
RunLost(r) ==
    /\ run[r].at = "send"
    /\ LET e == run[r].envelope
           last == run[r].tries + 1 = SUBMIT_ATTEMPTS
       IN  /\ Collect(e) \/ UNCHANGED <<events, retained>>
           /\ run' = [run EXCEPT ![r] = IF last THEN Idle
                                          ELSE [run[r] EXCEPT !.tries = @ + 1]]
           /\ IF last THEN Keep(e) ELSE UNCHANGED held

RunCrash(r) == /\ run[r] # Idle
               /\ run' = [run EXCEPT ![r] = Idle]
               /\ UNCHANGED <<events, retained, held>>

\* resubmit, at any later time
Resubmit(e) == /\ Answer(e) = "created"
               /\ Collect(e)
               /\ UNCHANGED <<run, held>>

RunMoves(r) == RunAnswered(r) \/ \E i \in 1..Maximum : RunSkip(r, i) \/ RunBuild(r, i)

ServiceNext == \/ \E e \in Submittable : ServiceProduce(e)
               \/ \E r \in Run, b \in BOOLEAN : RunStart(r, b)
               \/ \E r \in Run : RunMoves(r) \/ RunLost(r) \/ RunCrash(r)
               \/ \E e \in held : Resubmit(e)

ServiceSpec == ServiceInit /\ [][ServiceNext]_serviceVars
--------------------------------------------------------------------------------
(* Properties                                                                 *)

\* The command never writes but through the collector: every step of it, lost answers,
\* repeated submissions of a stale envelope and crashes included, is a step of the ledger
\* or no step.
ImplementsLedger == Spec

\* An envelope a run sends is refused only because the run was overtaken: after its
\* snapshot the version was superseded or another result of it was recorded.  A run
\* alone is never refused, and no refusal is a disagreement about the policy.
RefusedOnlyWhenOvertaken ==
    \A r \in Run :
        LET e == run[r].envelope
            since == (run[r].cutoff + 1)..Maximum
        IN  run[r].at = "send" /\ Answer(e) \in {"rejected", "conflict"} =>
                \E i \in since :
                    \/ events[i].kind = "outcome" /\ events[i].supersedes = e.outcome
                    \/ events[i].kind = "attribution" /\ events[i].outcome = e.outcome
================================================================================
