------------------------------ MODULE CrmTokens ------------------------------
(***************************************************************************)
(* The token record of one connection (adapters/crm/secrets.py), the       *)
(* authorization that creates it and the refresh that moves it on          *)
(* (adapters/crm/oauth.py), for several cooperating processes with a       *)
(* directory in common.                                                    *)
(*                                                                         *)
(* A store operation holds the lock of the directory from its first read   *)
(* to the end of its write, so it is one step; what divides a refresh and  *)
(* an authorization are the requests between two operations.  The record   *)
(* is replaced by a rename, which a power loss may undo until the          *)
(* directory is synced: "visible" is what operations read, "durable" the   *)
(* records that may be there after a power loss.                           *)
(*                                                                         *)
(* Of the token material only the refresh token is kept, as a number in    *)
(* the order the provider minted them.  In each process one thread         *)
(* refreshes (the poll runner) and one authorizes (the event loop).        *)
(***************************************************************************)
EXTENDS Naturals, FiniteSets

CONSTANTS
    Process,         \* processes that share the credential directory
    Session,         \* authorizations that are begun, one state and one code each
    MaxSessions,     \* pending authorizations a process holds, 16 in the code
    Rotation,        \* refresh_rotation of the connection
    MaxGeneration,   \* bound: generations of the record
    MaxToken,        \* bound: refresh tokens minted
    MaxFaults        \* bound: refused and uncertain operations, restarts, power losses

ASSUME ConstantsAssumption ==
    /\ Rotation \in {"required", "nonrotating"}
    /\ MaxSessions \in Nat /\ MaxGeneration \in Nat /\ MaxToken \in Nat /\ MaxFaults \in Nat

VARIABLES
    visible,     \* the record in the directory
    durable,     \* the records of which a power loss leaves one
    paused,      \* TokenStore._paused of each process
    begun,       \* sessions that were begun: a state is random and never comes again
    pending,     \* OAuthSessionStore._pending of each process
    expired,     \* sessions whose ten minutes are over
    refresh,     \* refresh_connection of each process
    connect,     \* finish_oauth of each process
    minted,      \* refresh tokens the provider has minted
    spent,       \* refresh tokens the provider has replaced and no longer takes
    grants,      \* history: refresh requests sent under a claim of each generation
    exchanges,   \* history: exchange requests sent for each session
    faults

storeVars == <<visible, durable, paused>>
sessionVars == <<begun, pending, expired>>
providerVars == <<minted, spent>>
vars == <<storeVars, sessionVars, refresh, connect, providerVars, grants, exchanges, faults>>

Generation == 1..MaxGeneration
Token == 1..MaxToken
NoToken == 0
Record == [generation : Generation, state : {"ready", "refresh_started", "needs_attention"},
           token : Token]
NoRecord == [generation |-> 0, state |-> "missing", token |-> NoToken]

Refresh == [at : {"idle", "read", "claimed", "granted", "failing"},
            generation : Generation \cup {0},
            token : Token \cup {NoToken},      \* of the claim
            fresh : Token \cup {NoToken}]      \* of the answer
Connect == [at : {"idle", "taken", "absent", "exchanged"},
            session : Session \cup {NoToken},
            token : Token \cup {NoToken}]
NoRefresh == [at |-> "idle", generation |-> 0, token |-> NoToken, fresh |-> NoToken]
NoConnect == [at |-> "idle", session |-> NoToken, token |-> NoToken]

TypeOK ==
    /\ visible \in Record \cup {NoRecord}
    /\ durable \in SUBSET (Record \cup {NoRecord})
    /\ paused \in [Process -> BOOLEAN]
    /\ begun \in SUBSET Session /\ expired \in SUBSET Session
    /\ pending \in [Process -> SUBSET Session]
    /\ refresh \in [Process -> Refresh] /\ connect \in [Process -> Connect]
    /\ minted \in 0..MaxToken /\ spent \in SUBSET (1..minted)
    /\ grants \in [Generation -> Nat] /\ exchanges \in [Session -> Nat]
    /\ faults \in 0..MaxFaults

Init ==
    /\ visible = NoRecord /\ durable = {NoRecord}
    /\ paused = [p \in Process |-> FALSE]
    /\ begun = {} /\ expired = {} /\ pending = [p \in Process |-> {}]
    /\ refresh = [p \in Process |-> NoRefresh] /\ connect = [p \in Process |-> NoConnect]
    /\ minted = 0 /\ spent = {}
    /\ grants = [g \in Generation |-> 0] /\ exchanges = [s \in Session |-> 0]
    /\ faults = 0

Fault == faults < MaxFaults /\ faults' = faults + 1

--------------------------------------------------------------------------------
(* secrets.py: what an operation may do to the record                         *)

\* mutant: the directory is not synced after the rename
Unsynced(record) == visible' = record /\ durable' = durable \cup {record}

Synced(record) == visible' = record /\ durable' = {record}

\* refused before the rename, by a check or by a contended lock; or failed somewhere in
\* the file system, before the rename, after it, or after the sync: the store is paused
Write(p, record, outcome) ==
    \/ /\ outcome = "done"
       /\ Synced(record)
       /\ UNCHANGED <<paused, faults>>
    \/ /\ outcome = "refused" /\ Fault
       /\ UNCHANGED storeVars
    \/ /\ outcome = "uncertain" /\ Fault
       /\ paused' = [paused EXCEPT ![p] = TRUE]
       /\ \/ UNCHANGED <<visible, durable>>
          \/ visible' = record /\ durable' \in {durable \cup {record}, {record}}

Outcome == {"done", "refused", "uncertain"}

\* a read fails in the file system: the operation it belongs to refuses, and every later one
ReadUncertain(p) ==
    /\ ~paused[p] /\ Fault
    /\ paused' = [paused EXCEPT ![p] = TRUE]
    /\ UNCHANGED <<visible, durable, sessionVars, refresh, connect, providerVars, grants,
                   exchanges>>

--------------------------------------------------------------------------------
(* refresh_connection                                                         *)

RefreshUnchanged == UNCHANGED <<sessionVars, connect, exchanges>>

ReadReady(p) ==
    /\ refresh[p].at = "idle" /\ ~paused[p]
    /\ visible.state = "ready"
    /\ refresh' = [refresh EXCEPT ![p] =
          [at |-> "read", generation |-> visible.generation, token |-> NoToken, fresh |-> NoToken]]
    /\ UNCHANGED <<storeVars, providerVars, grants, faults>> /\ RefreshUnchanged

\* mutant: a record whose refresh is under way may be claimed again
ReadyAnyState(generation) == visible.generation >= generation

Ready(generation) == visible.state = "ready" /\ visible.generation = generation

Started(r) == [generation |-> r.generation + 1, state |-> "refresh_started", token |-> r.token]

\* the claim is stored before the request: whatever happens then, nobody claims again
BeginRefresh(p) ==
    /\ refresh[p].at = "read" /\ ~paused[p]
    /\ visible.generation < MaxGeneration
    /\ Ready(refresh[p].generation)
    /\ \E outcome \in Outcome :
          /\ Write(p, Started(visible), outcome)
          /\ refresh' = [refresh EXCEPT ![p] =
                IF outcome = "done"
                THEN [at |-> "claimed", generation |-> visible.generation + 1,
                      token |-> visible.token, fresh |-> NoToken]
                ELSE NoRefresh]
    /\ UNCHANGED <<providerVars, grants>> /\ RefreshUnchanged

BeginRefused(p) ==
    /\ refresh[p].at = "read"
    /\ paused[p] \/ ~Ready(refresh[p].generation)
    /\ refresh' = [refresh EXCEPT ![p] = NoRefresh]
    /\ UNCHANGED <<storeVars, providerVars, grants, faults>> /\ RefreshUnchanged

Answered(p, token) == refresh' = [refresh EXCEPT ![p].at = "granted", ![p].fresh = token]
Failing(p) == refresh' = [refresh EXCEPT ![p].at = "failing", ![p].fresh = NoToken]

\* an answer without a refresh token keeps the claim's, unless rotation is required
Carried(p) == refresh[p].token

\* one request; the provider replaces the refresh token, keeps it or refuses, and its
\* answer may be lost or fail to parse
Grant(p) ==
    /\ refresh[p].at = "claimed"
    /\ grants' = [grants EXCEPT ![refresh[p].generation] = @ + 1]
    /\ \/ /\ refresh[p].token \notin spent /\ minted < MaxToken
          /\ minted' = minted + 1 /\ spent' = spent \cup {refresh[p].token}
          /\ Answered(p, minted + 1) \/ Failing(p)
       \/ /\ UNCHANGED providerVars
          /\ \/ /\ refresh[p].token \notin spent /\ Rotation = "nonrotating"
                /\ Answered(p, Carried(p))
             \/ Failing(p)
    /\ UNCHANGED <<storeVars, faults>> /\ RefreshUnchanged

\* the request is not admitted, or the new token does not pass verification
GrantFails(p) ==
    /\ refresh[p].at \in {"claimed", "granted"}
    /\ Failing(p)
    /\ UNCHANGED <<storeVars, providerVars, grants, faults>> /\ RefreshUnchanged

OwnClaim(p) ==
    visible = [generation |-> refresh[p].generation, state |-> "refresh_started",
               token |-> refresh[p].token]

FinishRefresh(p) ==
    /\ refresh[p].at = "granted" /\ ~paused[p] /\ OwnClaim(p)
    /\ visible.generation < MaxGeneration
    /\ \E outcome \in Outcome :
          /\ Write(p, [generation |-> visible.generation + 1, state |-> "ready",
                       token |-> refresh[p].fresh], outcome)
          /\ IF outcome = "done" THEN refresh' = [refresh EXCEPT ![p] = NoRefresh] ELSE Failing(p)
    /\ UNCHANGED <<providerVars, grants>> /\ RefreshUnchanged

FinishRefused(p) ==
    /\ refresh[p].at = "granted"
    /\ paused[p] \/ ~OwnClaim(p)
    /\ Failing(p)
    /\ UNCHANGED <<storeVars, providerVars, grants, faults>> /\ RefreshUnchanged

\* mutant: a failed refresh gives the record back
FailedState == "ready"

Attention == "needs_attention"

\* the claim's own material is kept, and the state says that somebody must look at it
FailRefresh(p) ==
    /\ refresh[p].at = "failing"
    /\ \/ /\ ~paused[p] /\ OwnClaim(p) /\ visible.generation < MaxGeneration
          /\ \E outcome \in Outcome :
                Write(p, [generation |-> visible.generation + 1, state |-> Attention,
                          token |-> visible.token], outcome)
       \/ /\ paused[p] \/ ~OwnClaim(p)
          /\ UNCHANGED <<storeVars, faults>>
    /\ refresh' = [refresh EXCEPT ![p] = NoRefresh]
    /\ UNCHANGED <<providerVars, grants>> /\ RefreshUnchanged

--------------------------------------------------------------------------------
(* begin_oauth, finish_oauth                                                  *)

ConnectUnchanged == UNCHANGED <<refresh, spent, grants>>

\* every new authorization forgets the expired ones; at most MaxSessions are pending
BeginOAuth(p, s) ==
    /\ s \notin begun /\ begun' = begun \cup {s}
    /\ Cardinality(pending[p] \ expired) < MaxSessions
    /\ pending' = [pending EXCEPT ![p] = (@ \ expired) \cup {s}]
    /\ UNCHANGED <<storeVars, expired, connect, minted, exchanges, faults>> /\ ConnectUnchanged

Expire(p, s) ==
    /\ s \in pending[p] \ expired
    /\ expired' = expired \cup {s}
    /\ UNCHANGED <<storeVars, begun, pending, connect, minted, exchanges, faults>> /\ ConnectUnchanged

\* mutant: the session stays until it expires
TakenStays(p, s) == UNCHANGED pending

Taken(p, s) == pending' = [pending EXCEPT ![p] = @ \ {s}]

\* a callback takes its session, whether it may be used or not
TakeSession(p, s) ==
    /\ connect[p].at = "idle" /\ s \in pending[p]
    /\ Taken(p, s)
    /\ IF s \in expired
       THEN UNCHANGED connect
       ELSE connect' = [connect EXCEPT ![p] = [at |-> "taken", session |-> s, token |-> NoToken]]
    /\ UNCHANGED <<storeVars, begun, expired, minted, exchanges, faults>> /\ ConnectUnchanged

CheckAbsent(p) ==
    /\ connect[p].at = "taken" /\ ~paused[p]
    /\ visible = NoRecord
    /\ connect' = [connect EXCEPT ![p].at = "absent"]
    /\ UNCHANGED <<storeVars, sessionVars, minted, exchanges, faults>> /\ ConnectUnchanged

Exchange(p) ==
    /\ connect[p].at = "absent"
    /\ exchanges' = [exchanges EXCEPT ![connect[p].session] = @ + 1]
    /\ \/ /\ exchanges[connect[p].session] = 0 /\ minted < MaxToken
          /\ minted' = minted + 1
          /\ \/ connect' = [connect EXCEPT ![p].at = "exchanged", ![p].token = minted + 1]
             \/ connect' = [connect EXCEPT ![p] = NoConnect]
       \/ /\ connect' = [connect EXCEPT ![p] = NoConnect]
          /\ UNCHANGED minted
    /\ UNCHANGED <<storeVars, sessionVars, faults>> /\ ConnectUnchanged

\* the provider denied it, a record is there, the secret or the verification is missing
ConnectFails(p) ==
    /\ connect[p].at # "idle"
    /\ connect' = [connect EXCEPT ![p] = NoConnect]
    /\ UNCHANGED <<storeVars, sessionVars, minted, exchanges, faults>> /\ ConnectUnchanged

\* mutant: what was absent before the exchange is taken to be absent
StillAbsent == TRUE

Absent == visible = NoRecord

Install(p) ==
    /\ connect[p].at = "exchanged" /\ ~paused[p]
    /\ Absent
    /\ MaxGeneration > 0
    /\ \E outcome \in Outcome :
          Write(p, [generation |-> 1, state |-> "ready", token |-> connect[p].token], outcome)
    /\ connect' = [connect EXCEPT ![p] = NoConnect]
    /\ UNCHANGED <<sessionVars, minted, exchanges>> /\ ConnectUnchanged

--------------------------------------------------------------------------------
(* processes end and start again, the machine loses power                     *)

Restart(p) ==
    /\ Fault
    /\ paused' = [paused EXCEPT ![p] = FALSE]
    /\ pending' = [pending EXCEPT ![p] = {}]
    /\ refresh' = [refresh EXCEPT ![p] = NoRefresh]
    /\ connect' = [connect EXCEPT ![p] = NoConnect]
    /\ UNCHANGED <<visible, durable, begun, expired, providerVars, grants, exchanges>>

PowerLoss ==
    /\ Fault
    /\ visible' \in durable /\ durable' = {visible'}
    /\ paused' = [p \in Process |-> FALSE]
    /\ pending' = [p \in Process |-> {}]
    /\ refresh' = [p \in Process |-> NoRefresh]
    /\ connect' = [p \in Process |-> NoConnect]
    /\ UNCHANGED <<begun, expired, providerVars, grants, exchanges>>

RefreshNext(p) == \/ ReadReady(p) \/ BeginRefresh(p) \/ BeginRefused(p)
                  \/ Grant(p) \/ GrantFails(p)
                  \/ FinishRefresh(p) \/ FinishRefused(p) \/ FailRefresh(p)

ConnectNext(p) == \/ \E s \in Session : BeginOAuth(p, s) \/ Expire(p, s) \/ TakeSession(p, s)
                  \/ CheckAbsent(p) \/ Exchange(p) \/ ConnectFails(p) \/ Install(p)

Next == \/ \E p \in Process : \/ RefreshNext(p) \/ ConnectNext(p)
                              \/ ReadUncertain(p) \/ Restart(p)
        \/ PowerLoss

Spec == Init /\ [][Next]_vars

--------------------------------------------------------------------------------
(* Properties                                                                 *)

\* "There is no automatic refresh retry": a claim is granted at most once.  A claim that
\* was lost with its process, refused, or undone by a power loss is never sent again
\* under the same generation, and only one process sends it.
GrantedOnce == \A g \in Generation : grants[g] <= 1

\* A record that says it is ready can be used: its refresh token is none that the
\* provider has replaced, and no power loss brings such a record back.
ReadyIsUsable == \A r \in durable : r.state = "ready" => r.token \notin spent

\* A callback finds its session once: a code is exchanged once, however often the
\* callback is repeated and whatever failed the first time.
ExchangedOnce == \A s \in Session : exchanges[s] <= 1

\* Every write moves the record on by one generation; only a power loss goes back, to a
\* record that was there.  An authorization never replaces a record.
GenerationsAreConsecutive ==
    [][visible' # visible =>
          visible'.generation = visible.generation + 1 \/ visible' \in durable]_vars
================================================================================
