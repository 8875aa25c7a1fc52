----------------------------- MODULE AttributionLive -----------------------------
(***************************************************************************)
(* Progress of the attribution command.  The command gives up at the first *)
(* failure and keeps no state, so it makes progress only because it is run *)
(* again, and only once runs get through: "calm" marks the moment from     *)
(* which nothing crashes and every answer arrives.  Any number of faults   *)
(* may come before it.                                                     *)
(* Resubmitting a failed envelope by hand is left to the safety runs:      *)
(* progress does not rest on it.                                           *)
(***************************************************************************)
EXTENDS AttributionService

VARIABLE calm

liveVars == <<events, retained, run, held, calm>>

LiveInit == ServiceInit /\ calm = FALSE

Calm == calm' = TRUE /\ UNCHANGED serviceVars

LiveNext ==
    \/ \E e \in Submittable : ServiceProduce(e) /\ UNCHANGED calm
    \/ \E r \in Run, b \in BOOLEAN : RunStart(r, b) /\ UNCHANGED calm
    \/ \E r \in Run : RunMoves(r) /\ UNCHANGED calm
    \/ \E r \in Run : ~calm /\ (RunLost(r) \/ RunCrash(r)) /\ UNCHANGED calm
    \/ ~calm /\ Calm

\* Both modes of the command are run again and again (by an operator or a schedule),
\* and a run that is under way goes on.  Producers owe nothing but the events that
\* the bound FirstRun puts before the first run.
Fairness ==
    /\ WF_liveVars(Calm)
    /\ WF_liveVars(Maximum < FirstRun /\ \E e \in Submittable : ServiceProduce(e) /\ UNCHANGED calm)
    /\ \A r \in Run : WF_liveVars(RunMoves(r) /\ UNCHANGED calm)
    /\ \A r \in Run, b \in BOOLEAN : SF_liveVars(RunStart(r, b) /\ UNCHANGED calm)

LiveSpec == LiveInit /\ [][LiveNext]_liveVars /\ Fairness
--------------------------------------------------------------------------------
(* Properties                                                                 *)

Outcomes == {e \in Submittable : e.kind = "outcome"}

\* No version is starved by the refusals of others: an effective version without a
\* result gets one in the end, or is superseded.
Waiting(id) == /\ \E i \in Find("outcome", id, Maximum) : TRUE
               /\ Successors(id, Maximum) = {}
               /\ Tips(id, Maximum) = {}
EveryVersionAttributed == \A e \in Outcomes : Waiting(e.id) ~> ~Waiting(e.id)

\* Late evidence of an action reaches the results: once producers stop, the effective
\* result of every effective version becomes, and stays, what the policy says of the
\* whole ledger.
Current(id) == \A i \in Find("outcome", id, Maximum) :
                  Successors(id, Maximum) = {} =>
                      \E t \in Tips(id, Maximum) : events[t].result = Attribute(events[i], Maximum)
ResultsBecomeCurrent == \A e \in Outcomes : <>[]Current(e.id)
==================================================================================
