--------------------------- MODULE HubspotCapture ---------------------------
(***************************************************************************)
(* The capture store of one company and the submission of what it captured *)
(* (adapters/hubspot/store.py, capture.py, submission_store.py, submit.py) *)
(* into the domain ledger (collector/provenance.py).                       *)
(*                                                                         *)
(* Callers are threads or processes over the same store file.  A store or  *)
(* collector transaction is one step; between two of them another caller   *)
(* may run, the call may fail or its process may end, and the reservation  *)
(* of the company stays as it was until somebody abandons it.  A frozen    *)
(* capture is kept as its sequence and the ownership generation of its     *)
(* document.  Two units with the same Evidence are two captures whose read *)
(* interval and values are equal, and so mint one evidence version.  The   *)
(* account and artifact stages, which every unit shares, are one stage.    *)
(***************************************************************************)
EXTENDS Naturals, Sequences, FiniteSets

CONSTANTS
    Unit,            \* processing units of the company, under the supported mapping
    Caller,          \* threads that call the adapter
    Evidence,        \* the evidence version each unit's capture mints, named by a unit
    NoUnit,
    MaxGeneration,   \* bound: generations of the company's ownership
    Start,           \* bound: the unit that is submitted at the start, generations and faults that are used up
    MaxFaults        \* bound: calls that fail or die, contended admissions, other edits

ASSUME CaptureAssumption ==
    /\ NoUnit \notin Unit /\ IsFiniteSet(Unit)
    /\ Evidence \in [Unit -> Unit]
    /\ MaxGeneration \in Nat /\ MaxFaults \in Nat
    \* at most one unit is submitted at the start, under a generation that is over
    /\ \A start \in Start :
          /\ start.done \subseteq Unit /\ \A u, v \in start.done : u = v
          /\ start.generation \in Nat /\ start.faults \in Nat
          /\ start.done # {} => start.generation > 0

VARIABLES
    registered,  \* processing_units
    progress,    \* unit_progress
    captures,    \* captures: sequence and ownership generation, 0 while there is none
    ownership,   \* company_ownership
    plan,        \* frozen_submissions: whether the evidence is new, or reused
    accepted,    \* stages with an accepted observation
    failed,      \* units with a rejected observation
    domain,      \* v2 events in the ledger
    call,        \* what each caller is doing
    faults

storeVars == <<registered, progress, captures, ownership>>
submissionVars == <<plan, accepted, failed, domain>>
captureVars == <<storeVars, submissionVars, call, faults>>

Stage == {"prerequisites", "evidence", "decision"}
NoCapture == [sequence |-> 0, generation |-> 0]
Idle == [at |-> "idle", unit |-> NoUnit, generation |-> 0, plan |-> "none", stage |-> "none",
         answer |-> "none", todo |-> {}, next |-> "none", seen |-> 0, marker |-> 0,
         granted |-> FALSE]

Fault == faults < MaxFaults /\ faults' = faults + 1

\* the call goes on to its next transaction
Goto(c, at) == call' = [call EXCEPT ![c].at = at]
Return(c) == call' = [call EXCEPT ![c] = Idle]
Begin(c, u, at) ==
    /\ call[c] = Idle
    /\ call' = [call EXCEPT ![c] = [Idle EXCEPT !.at = at, !.unit = u]]

CaptureInit == \E start \in Start :
    LET done == start.done IN
    /\ registered = done /\ domain = done \X Stage /\ failed = {}
    /\ progress = [u \in Unit |-> IF u \in done THEN "captured" ELSE "none"]
    /\ captures = [u \in Unit |-> IF u \in done THEN [sequence |-> 1, generation |-> 1]
                                  ELSE NoCapture]
    /\ ownership = [generation |-> start.generation, state |-> "free", owner |-> NoUnit]
    /\ plan = [u \in Unit |-> IF u \in done THEN "new" ELSE "none"]
    /\ accepted = [u \in Unit |-> IF u \in done THEN Stage ELSE {}]
    /\ call = [c \in Caller |-> Idle] /\ faults = start.faults

--------------------------------------------------------------------------------
(* store.py and capture.py                                                    *)

Captured(u) == captures[u] # NoCapture
LastSequence == Cardinality({u \in Unit : Captured(u)})

Hold(u) == ownership' = [generation |-> ownership.generation + 1, state |-> "held", owner |-> u]
Release == ownership' = [ownership EXCEPT !.state = "free", !.owner = NoUnit]

\* mutant: the fence does not look at the generation
IsOwner(u, g) == ownership.state = "held" /\ ownership.owner = u

\* the fence: generation g of unit u is the one that holds the company
IsCurrent(u, g) == ownership = [generation |-> g, state |-> "held", owner |-> u]

\* a receipt is appended; a unit that has no progress was received
Register(u) ==
    /\ registered' = registered \cup {u}
    /\ progress' = [progress EXCEPT ![u] = IF @ = "none" THEN "received" ELSE @]

RecordReceipt(c, u) ==
    /\ ~Captured(u) /\ Begin(c, u, "received")
    /\ Register(u)
    /\ UNCHANGED <<captures, ownership, submissionVars, faults>>

\* the company is reserved before any read
Acquire(c) ==
    /\ call[c].at = "received" /\ ~Captured(call[c].unit)
    /\ ownership.state # "held" /\ ownership.generation < MaxGeneration
    /\ Hold(call[c].unit)
    /\ call' = [call EXCEPT ![c].at = "reading", ![c].generation = ownership.generation + 1]
    /\ progress' = [progress EXCEPT ![call[c].unit] = "reserved"]
    /\ UNCHANGED <<registered, captures, submissionVars, faults>>

\* the winner is returned and nothing is read; or the company is busy
AcquireReturns(c) ==
    /\ call[c].at = "received" /\ (Captured(call[c].unit) \/ ownership.state = "held")
    /\ Return(c)
    /\ UNCHANGED <<storeVars, submissionVars, faults>>

\* the properties are read and mapped and the logic is selected, or the read is refused
ReadAndMap(c) ==
    /\ call[c].at = "reading"
    /\ \/ Goto(c, "mapped") /\ UNCHANGED faults
       \/ Goto(c, "refusing") /\ Fault
    /\ UNCHANGED <<storeVars, submissionVars>>

Freeze(c) ==
    LET u == call[c].unit g == call[c].generation IN
    /\ call[c].at = "mapped" /\ IsCurrent(u, g)
    /\ captures' = [captures EXCEPT ![u] =
                      IF Captured(u) THEN @ ELSE [sequence |-> LastSequence + 1, generation |-> g]]
    /\ progress' = IF Captured(u) THEN progress ELSE [progress EXCEPT ![u] = "captured"]
    /\ Release /\ Return(c)
    /\ UNCHANGED <<registered, submissionVars, faults>>

StaleFence(c) ==
    /\ call[c].at = "mapped" /\ ~IsCurrent(call[c].unit, call[c].generation)
    /\ Goto(c, "refusing")
    /\ UNCHANGED <<storeVars, submissionVars, faults>>

\* release_if_current: a stale worker changes nothing
ReleaseRefused(c) ==
    LET u == call[c].unit IN
    /\ call[c].at = "refusing"
    /\ IF IsCurrent(u, call[c].generation)
       THEN Release /\ progress' = [progress EXCEPT ![u] = "refused"]
       ELSE UNCHANGED <<ownership, progress>>
    /\ Return(c)
    /\ UNCHANGED <<registered, captures, submissionVars, faults>>

\* somebody says that the current generation is dead, whether or not it is; the row of
\* the table is token enough, also for the reservation of a writer
AbandonCapture ==
    /\ ownership.state = "held" /\ ownership.generation < MaxGeneration
    /\ ownership' = [generation |-> ownership.generation + 1, state |-> "abandoned",
                     owner |-> NoUnit]
    /\ progress' = [progress EXCEPT ![ownership.owner] = "abandoned"]
    /\ UNCHANGED <<registered, captures, submissionVars, call, faults>>

--------------------------------------------------------------------------------
(* submission_store.py and submit.py                                          *)

Minted == {Evidence[x[1]] : x \in {y \in domain : y[2] = "evidence"}}
Stages(u) == IF plan[u] = "reused" THEN Stage \ {"evidence"} ELSE Stage
Complete(u) == plan[u] # "none" /\ u \notin failed /\ accepted[u] = Stages(u)

\* mutant: the decision is delivered before the evidence it stands on
NextStageDecisionFirst(u) ==
    IF "prerequisites" \notin accepted[u] THEN "prerequisites"
    ELSE IF "decision" \notin accepted[u] THEN "decision" ELSE "evidence"

NextStage(u) ==
    IF "prerequisites" \notin accepted[u] THEN "prerequisites"
    ELSE IF "evidence" \in Stages(u) \ accepted[u] THEN "evidence" ELSE "decision"

\* _reuse: a version that the ledger has is referenced, not minted again
PlanOf(u) == IF Evidence[u] \in Minted THEN "reused" ELSE "new"

\* what the frozen plan will say of the evidence is read from the ledger
ReadLedger(c, u) ==
    /\ Captured(u) /\ plan[u] = "none" /\ call[c] = Idle
    /\ call' = [call EXCEPT ![c] = [Idle EXCEPT !.at = "planned", !.unit = u,
                                      !.plan = PlanOf(u)]]
    /\ UNCHANGED <<storeVars, submissionVars, faults>>

\* the first plan is frozen and stays
FreezeSubmission(c) ==
    LET u == call[c].unit IN
    /\ call[c].at = "planned"
    /\ plan' = [plan EXCEPT ![u] = IF @ = "none" THEN call[c].plan ELSE @]
    /\ Return(c)
    /\ UNCHANGED <<storeVars, accepted, failed, domain, faults>>

ResumeSubmission(c, u) ==
    /\ plan[u] # "none" /\ u \notin failed /\ ~Complete(u)
    /\ Begin(c, u, "resuming")
    /\ UNCHANGED <<storeVars, submissionVars, faults>>

\* the history is read; an attempt is appended for the next stage, if there is one
BeginAttempt(c) ==
    LET u == call[c].unit IN
    /\ call[c].at = "resuming"
    /\ IF u \in failed \/ Complete(u)
       THEN Return(c)
       ELSE call' = [call EXCEPT ![c].at = "attempted", ![c].stage = NextStage(u)]
    /\ UNCHANGED <<storeVars, submissionVars, faults>>

\* validate_v2: an evidence version is minted once, and a decision stands on it
Admissible(u, s) ==
    CASE s = "prerequisites" -> TRUE
      [] s = "evidence" -> Evidence[u] \notin Minted
      [] s = "decision" -> Evidence[u] \in Minted

Ingest(c) ==
    LET u == call[c].unit s == call[c].stage
        Answered(a) == call' = [call EXCEPT ![c].at = "answered", ![c].answer = a] IN
    /\ call[c].at = "attempted"
    /\ \/ <<u, s>> \in domain /\ Answered("accepted") /\ UNCHANGED <<domain, faults>>
       \/ /\ <<u, s>> \notin domain /\ Admissible(u, s)
          /\ domain' = domain \cup {<<u, s>>} /\ Answered("accepted") /\ UNCHANGED faults
       \/ /\ <<u, s>> \notin domain /\ ~Admissible(u, s)
          /\ Answered("rejected") /\ UNCHANGED <<domain, faults>>
       \* another writer has the ledger: version 2 stages may be tried again
       \/ s # "prerequisites" /\ Fault /\ Answered("retryable") /\ UNCHANGED domain
       \/ s = "prerequisites" /\ Fault /\ Answered("unknown") /\ UNCHANGED domain
    /\ UNCHANGED <<storeVars, plan, accepted, failed>>

\* an accepted stage leads to the next one; every other disposition ends the call
Observe(c) ==
    LET u == call[c].unit IN
    /\ call[c].at = "answered"
    /\ accepted' = [accepted EXCEPT ![u] =
                      IF call[c].answer = "accepted" THEN @ \cup {call[c].stage} ELSE @]
    /\ failed' = IF call[c].answer = "rejected" THEN failed \cup {u} ELSE failed
    /\ call' = [call EXCEPT ![c] =
                  IF call[c].answer = "accepted" THEN [Idle EXCEPT !.at = "resuming", !.unit = u]
                  ELSE Idle]
    /\ UNCHANGED <<storeVars, plan, domain, faults>>

\* an exception, or the end of the process, between two transactions
Die(c) ==
    /\ call[c] # Idle /\ Fault /\ Return(c)
    /\ UNCHANGED <<storeVars, submissionVars>>

CaptureNext ==
    \/ \E c \in Caller, u \in Unit :
          RecordReceipt(c, u) \/ ReadLedger(c, u) \/ ResumeSubmission(c, u)
    \/ \E c \in Caller :
          \/ Acquire(c) \/ AcquireReturns(c) \/ ReadAndMap(c) \/ Freeze(c) \/ StaleFence(c)
          \/ ReleaseRefused(c) \/ FreezeSubmission(c) \/ BeginAttempt(c) \/ Ingest(c)
          \/ Observe(c) \/ Die(c)
    \/ AbandonCapture

--------------------------------------------------------------------------------
(* Properties                                                                 *)

\* store.py's header: a company is reserved before any read and stays reserved until the
\* capture is durable, and an abandoned generation never commits.  So the sequence of the
\* captures is the order of the reads they were made from, and the progress of a unit
\* says whether it was captured (unless its writer was abandoned later) and whether it is
\* the one that holds the company.
CapturesFollowReads ==
    /\ \A u, v \in Unit : Captured(u) /\ Captured(v) =>
          (captures[u].sequence < captures[v].sequence
             <=> captures[u].generation < captures[v].generation)
    /\ \A u \in Unit : /\ progress[u] = "captured" => Captured(u)
                       /\ Captured(u) => progress[u] \in {"captured", "abandoned"}
    /\ \A u \in Unit : progress[u] = "reserved" => ownership.state = "held" /\ ownership.owner = u

\* submit.py freezes a plan from what it read of the ledger, and a rejection is final.  A
\* unit fails only when another one minted the same evidence version after the plan was
\* made, and a unit that failed never has a decision.
RejectedOnlyWhenOvertaken ==
    \A u \in failed :
        /\ plan[u] = "new" /\ <<u, "evidence">> \notin domain /\ <<u, "decision">> \notin domain
        /\ \E v \in Unit \ {u} : Evidence[v] = Evidence[u] /\ <<v, "evidence">> \in domain
=============================================================================
