------------------------------ MODULE WriteOnce ------------------------------
(***************************************************************************)
(* What both writers promise of their operations, whatever happens inside  *)
(* a call: an intent is recorded before anything is sent, the writes of a  *)
(* target are serialized, nothing stale is sent, an uncertain send blocks  *)
(* its target until the request has an affirmative disposition, and only   *)
(* what is definitely unsent is superseded.  DECISIONS.md, D-026, asks     *)
(* this of the fake score writer; the Salesforce writer, which calls       *)
(* itself durable and single-attempt, is built to the same rules.          *)
(*                                                                         *)
(* CrmWriter and HubspotWriter implement it under the mappings they give   *)
(* at their ends.  Of the store, the ledger, the provider and the calls    *)
(* only this is left: what the store says of an operation, its place among *)
(* the decisions of its target, what became of its one request, and which  *)
(* operation's values a target has.                                        *)
(***************************************************************************)
EXTENDS Naturals

CONSTANTS
    Op,        \* operations, each of one original decision
    Target,    \* records that are written
    target,    \* op -> its target
    Rank,      \* places among the decisions of a target
    NoOp       \* the values of a target are nobody's

VARIABLES
    status,    \* op -> what the store says of it
    rank,      \* op -> its place, 0 until it is prepared
    request,   \* op -> what became of its request
    value      \* target -> the operation whose values it has, or NoOp

vars == <<status, rank, request, value>>

Effect == {"applied", "not_applied"}
Started == {"outstanding"} \cup Effect

Peers(o) == {p \in Op : target[p] = target[o]}
Newest(o) == \A p \in Peers(o) : rank[p] <= rank[o]

Init ==
    /\ status = [o \in Op |-> "none"]
    /\ rank = [o \in Op |-> 0]
    /\ request = [o \in Op |-> "none"]
    /\ value = [t \in Target |-> NoOp]

--------------------------------------------------------------------------------
\* an intent is newer than all the intents of its target, and replaces the unsent one
Prepare(o) ==
    /\ status[o] = "none"
    /\ status' = [p \in Op |-> IF p = o THEN "ready"
                               ELSE IF p \in Peers(o) /\ status[p] = "ready" THEN "withdrawn"
                               ELSE status[p]]
    /\ \E n \in Rank : /\ rank' = [rank EXCEPT ![o] = n]
                       /\ \A p \in Peers(o) \ {o} : rank[p] < n
    /\ UNCHANGED <<request, value>>

\* what was never sent is refused or superseded
Withdraw(o) ==
    /\ status[o] = "ready"
    /\ status' = [status EXCEPT ![o] = "withdrawn"]
    /\ UNCHANGED <<rank, request, value>>

\* the newest intent of a target with nothing outstanding is marked as sent
Mark(o) ==
    /\ status[o] = "ready" /\ Newest(o)
    /\ \A p \in Peers(o) : status[p] # "outstanding"
    /\ status' = [status EXCEPT ![o] = "outstanding"]
    /\ UNCHANGED <<rank, request, value>>

Becomes(o, effect) ==
    /\ request' = [request EXCEPT ![o] = effect]
    /\ value' = IF effect = "applied" THEN [value EXCEPT ![target[o]] = o] ELSE value
    /\ UNCHANGED <<status, rank>>

\* the request leaves once, after the mark, while nothing newer is known
Send(o) ==
    /\ status[o] = "outstanding" /\ request[o] = "none" /\ Newest(o)
    /\ \E effect \in {"pending"} \cup Effect : Becomes(o, effect)

\* it is processed later, whether or not anybody waits for it
Process(o) == request[o] = "pending" /\ \E effect \in Effect : Becomes(o, effect)

\* the target is given back with what became of the request
Settle(o) ==
    /\ status[o] = "outstanding" /\ request[o] \in Effect
    /\ status' = [status EXCEPT ![o] = request[o]]
    /\ UNCHANGED <<rank, request, value>>

\* somebody else edits the record
Overwrite(t) == value' = [value EXCEPT ![t] = NoOp] /\ UNCHANGED <<status, rank, request>>

Next ==
    \/ \E o \in Op : Prepare(o) \/ Withdraw(o) \/ Mark(o) \/ Send(o) \/ Process(o) \/ Settle(o)
    \/ \E t \in Target : Overwrite(t)

Spec == Init /\ [][Next]_vars

--------------------------------------------------------------------------------
(* What follows from it.                                                      *)

\* An operation is outstanding alone, and is the newest one that was ever started; one that
\* is pending is outstanding; a target shows what was applied to it.
Serialized ==
    /\ \A o \in Op : /\ status[o] # "none" <=> rank[o] # 0
                     /\ request[o] # "none" => status[o] \in Started
                     /\ request[o] = "pending" => status[o] = "outstanding"
    /\ \A o \in Op : \A p \in Peers(o) \ {o} :
          /\ rank[o] # 0 => rank[o] # rank[p]
          /\ status[o] = "outstanding" => status[p] # "outstanding"
          /\ status[o] = "outstanding" /\ status[p] \in Started => rank[p] < rank[o]
    /\ \A t \in Target : value[t] = NoOp \/ (/\ value[t] \in Op /\ target[value[t]] = t
                                             /\ request[value[t]] = "applied")

\* No write of an older decision takes the place of that of a newer one, and a request
\* has one fate.
GoesForward ==
    /\ \A t \in Target : value[t] = NoOp \/ value'[t] \in {NoOp, value[t]}
                         \/ rank[value[t]] < rank[value'[t]]
    /\ \A o \in Op : request[o] \in Effect => request'[o] = request[o]
=============================================================================
