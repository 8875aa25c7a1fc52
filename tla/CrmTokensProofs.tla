--------------------------- MODULE CrmTokensProofs ---------------------------
(***************************************************************************)
(* Theorems about CrmTokens for every set of processes and sessions,       *)
(* either rotation, and every bound.                                       *)
(***************************************************************************)
EXTENDS CrmTokensInv, TLAPS

\* What a write may leave behind: the old record or the new one, and nothing that was
\* not there; only a finished write leaves the new one alone.
LEMMA WriteEffect ==
    ASSUME TypeOK, ClaimInv, NEW p \in Process, NEW record, NEW outcome \in Outcome,
           Write(p, record, outcome)
    PROVE  /\ visible' \in durable' /\ durable' \subseteq durable \cup {record}
           /\ visible' \in {visible, record}
           /\ outcome = "done" =>
                 visible' = record /\ durable' = {record} /\ UNCHANGED paused
           /\ outcome = "refused" => UNCHANGED <<visible, durable, paused>>
           /\ outcome = "uncertain" => paused' = [paused EXCEPT ![p] = TRUE]
           /\ \A q \in Process : q # p => paused'[q] = paused[q]
           /\ paused' \in [Process -> BOOLEAN] /\ faults' \in 0..MaxFaults
<1>1. CASE outcome = "done"
  BY <1>1 DEF Write, Synced, TypeOK, Outcome
<1>2. CASE outcome = "refused"
  BY <1>2, ConstantsAssumption DEF Write, Fault, storeVars, TypeOK, ClaimInv
<1>3. CASE outcome = "uncertain"
  <2>1. Fault /\ paused' = [paused EXCEPT ![p] = TRUE]
    BY <1>3 DEF Write
  <2>2. \/ visible' = visible /\ durable' = durable
        \/ visible' = record /\ durable' = durable \cup {record}
        \/ visible' = record /\ durable' = {record}
    BY <1>3 DEF Write
  <2>3. /\ visible' \in durable' /\ durable' \subseteq durable \cup {record}
        /\ visible' \in {visible, record}
    BY <2>2 DEF ClaimInv
  <2>4. /\ \A q \in Process : q # p => paused'[q] = paused[q]
        /\ paused' \in [Process -> BOOLEAN] /\ faults' \in 0..MaxFaults
    BY <2>1, ConstantsAssumption DEF TypeOK, Fault
  <2> QED BY <1>3, <2>1, <2>3, <2>4
<1> QED BY <1>1, <1>2, <1>3 DEF Outcome

\* A record that is not missing has a generation and a token, and the record after a
\* given one is a record if the bound allows it.
LEMMA NextRecord ==
    ASSUME TypeOK, visible # NoRecord, visible.generation < MaxGeneration,
           NEW state \in {"ready", "refresh_started", "needs_attention"}, NEW token \in Token
    PROVE  [generation |-> visible.generation + 1, state |-> state, token |-> token] \in Record
BY ConstantsAssumption DEF TypeOK, Record, Generation

\* A failed refresh keeps its claim in hand.
LEMMA FailingEffect ==
    ASSUME TypeOK, NEW p \in Process, Failing(p)
    PROVE  /\ refresh' \in [Process -> Refresh]
           /\ refresh'[p].at = "failing"
           /\ refresh'[p].generation = refresh[p].generation
           /\ refresh'[p].token = refresh[p].token
           /\ \A q \in Process : q # p => refresh'[q] = refresh[q]
<1>1. refresh \in [Process -> Refresh] /\ refresh[p] \in Refresh
  BY DEF TypeOK
<1>2. refresh' = [refresh EXCEPT ![p] = [refresh[p] EXCEPT !.at = "failing", !.fresh = NoToken]]
  BY <1>1 DEF Failing
<1>3. [refresh[p] EXCEPT !.at = "failing", !.fresh = NoToken] \in Refresh
  BY <1>1 DEF Refresh, NoToken
<1>4. /\ [refresh[p] EXCEPT !.at = "failing", !.fresh = NoToken].at = "failing"
      /\ [refresh[p] EXCEPT !.at = "failing", !.fresh = NoToken].generation = refresh[p].generation
      /\ [refresh[p] EXCEPT !.at = "failing", !.fresh = NoToken].token = refresh[p].token
  BY <1>1 DEF Refresh
<1> QED BY <1>1, <1>2, <1>3, <1>4

\* So does an answered one, beside the token of the answer.
LEMMA AnsweredEffect ==
    ASSUME TypeOK, NEW p \in Process, NEW token \in Token, Answered(p, token)
    PROVE  /\ refresh' \in [Process -> Refresh]
           /\ refresh'[p].at = "granted" /\ refresh'[p].fresh = token
           /\ refresh'[p].generation = refresh[p].generation
           /\ refresh'[p].token = refresh[p].token
           /\ \A q \in Process : q # p => refresh'[q] = refresh[q]
<1>1. refresh \in [Process -> Refresh] /\ refresh[p] \in Refresh
  BY DEF TypeOK
<1>2. refresh' = [refresh EXCEPT ![p] = [refresh[p] EXCEPT !.at = "granted", !.fresh = token]]
  BY <1>1 DEF Answered
<1>3. [refresh[p] EXCEPT !.at = "granted", !.fresh = token] \in Refresh
  BY <1>1 DEF Refresh
<1>4. /\ [refresh[p] EXCEPT !.at = "granted", !.fresh = token].at = "granted"
      /\ [refresh[p] EXCEPT !.at = "granted", !.fresh = token].fresh = token
      /\ [refresh[p] EXCEPT !.at = "granted", !.fresh = token].generation = refresh[p].generation
      /\ [refresh[p] EXCEPT !.at = "granted", !.fresh = token].token = refresh[p].token
  BY <1>1 DEF Refresh
<1> QED BY <1>1, <1>2, <1>3, <1>4

\* A request is answered with a new token, or with the claim's if the provider keeps it,
\* or fails.
LEMMA GrantEffect ==
    ASSUME TypeOK, ShapeInv, NEW p \in Process, Grant(p)
    PROVE  \/ Failing(p)
           \/ Answered(p, refresh[p].token) /\ UNCHANGED providerVars
              /\ refresh[p].token \in Token /\ refresh[p].token \notin spent
           \/ Answered(p, minted + 1) /\ minted + 1 \in Token
              /\ minted' = minted + 1 /\ spent' = spent \cup {refresh[p].token}
<1>1. minted < MaxToken => minted + 1 \in Token
  BY ConstantsAssumption DEF TypeOK, Token
<1>2. refresh[p].token \in Token
  BY DEF ShapeInv, Grant
<1> QED BY <1>1, <1>2 DEF Grant, Carried

--------------------------------------------------------------------------------
(* The initial state                                                          *)

\* The initial state satisfies the invariant.
LEMMA InvInit == Init => IInv
<1> SUFFICES ASSUME Init PROVE IInv
  OBVIOUS
<1> USE DEF Init, NoRefresh, NoConnect, NoRecord
<1>1. TypeOK
  BY ConstantsAssumption DEF TypeOK, Refresh, Connect, Generation, NoToken
<1>2. ShapeInv
  BY DEF ShapeInv
<1>3. ClaimInv
  BY DEF ClaimInv, Active
<1>4. GrantInv
  BY DEF GrantInv
<1>5. TokenInv
  BY DEF TokenInv, NoToken
<1>6. SessionInv
  BY DEF SessionInv, Holds
<1> QED BY <1>1, <1>2, <1>3, <1>4, <1>5, <1>6 DEF IInv

--------------------------------------------------------------------------------
(* Types and what the steps have in hand                                      *)

\* A refresh keeps the types: it writes records only, and only within the bounds.
LEMMA TypeRefresh ==
    ASSUME IInv, NEW p \in Process, RefreshNext(p)
    PROVE  TypeOK'
<1> USE DEF IInv, TypeOK, RefreshUnchanged, storeVars, sessionVars, providerVars
<1>1. CASE ReadReady(p)
  <2>1. visible.generation \in Generation
    BY <1>1 DEF ReadReady, Record, NoRecord
  <2> QED BY <1>1, <2>1 DEF ReadReady, NoRefresh, Refresh, NoToken
<1>2. CASE BeginRefresh(p)
  <2>1. visible # NoRecord /\ visible \in Record /\ Started(visible) \in Record
    BY <1>2, NextRecord DEF BeginRefresh, Ready, NoRecord, Started, Record
  <2>2. PICK outcome \in Outcome :
          /\ Write(p, Started(visible), outcome)
          /\ refresh' = [refresh EXCEPT ![p] =
                IF outcome = "done"
                THEN [at |-> "claimed", generation |-> visible.generation + 1,
                      token |-> visible.token, fresh |-> NoToken]
                ELSE NoRefresh]
    BY <1>2 DEF BeginRefresh
  <2>3. refresh' \in [Process -> Refresh]
    <3>1. /\ [at |-> "claimed", generation |-> visible.generation + 1,
              token |-> visible.token, fresh |-> NoToken] \in Refresh
          /\ NoRefresh \in Refresh
      BY <2>1 DEF Started, NoRefresh, Refresh, Record, NoToken
    <3> QED BY <2>2, <3>1
  <2>4. visible' \in Record \cup {NoRecord} /\ durable' \in SUBSET (Record \cup {NoRecord})
        /\ paused' \in [Process -> BOOLEAN] /\ faults' \in 0..MaxFaults
    BY <2>1, <2>2, WriteEffect
  <2> QED BY <1>2, <2>3, <2>4 DEF BeginRefresh
<1>3. CASE BeginRefused(p)
  BY <1>3 DEF BeginRefused, NoRefresh, Refresh, NoToken
<1>4. CASE Grant(p)
  <2>1. refresh[p].generation \in Generation /\ refresh[p].token \in Token
    BY <1>4 DEF Grant, ShapeInv
  <2>2. grants' \in [Generation -> Nat]
    BY <1>4, <2>1 DEF Grant
  <2>3. minted' \in 0..MaxToken /\ spent' \in SUBSET (1..minted')
    <3>1. refresh[p].token \in 1..minted
      BY <1>4, <2>1 DEF Grant, ClaimInv, Active, OwnClaim, TokenInv, Token
    <3>2. \/ UNCHANGED providerVars
          \/ minted < MaxToken /\ minted' = minted + 1 /\ spent' = spent \cup {refresh[p].token}
      BY <1>4 DEF Grant
    <3>3. minted \in Nat /\ minted <= MaxToken /\ \A t \in spent : t \in 1..minted
      BY ConstantsAssumption
    <3>4. CASE UNCHANGED providerVars
      BY <3>4
    <3>5. CASE minted < MaxToken /\ minted' = minted + 1 /\ spent' = spent \cup {refresh[p].token}
      <4>1. minted' \in 0..MaxToken
        BY <3>3, <3>5, ConstantsAssumption
      <4>2. \A t \in spent' : t \in 1..minted'
        BY <3>1, <3>3, <3>5
      <4> QED BY <4>1, <4>2
    <3> QED BY <3>2, <3>4, <3>5
  <2>4. refresh' \in [Process -> Refresh]
    BY <1>4, GrantEffect, AnsweredEffect, FailingEffect
  <2> QED BY <1>4, <2>2, <2>3, <2>4 DEF Grant
<1>5. CASE GrantFails(p)
  <2>1. Failing(p) => refresh' \in [Process -> Refresh]
    BY FailingEffect
  <2> QED BY <1>5, <2>1 DEF GrantFails
<1>6. CASE FinishRefresh(p)
  <2> DEFINE ready == [generation |-> visible.generation + 1, state |-> "ready",
                       token |-> refresh[p].fresh]
  <2>1. ready \in Record
    BY <1>6, NextRecord DEF FinishRefresh, OwnClaim, NoRecord, ShapeInv
  <2>2. PICK outcome \in Outcome :
          /\ Write(p, ready, outcome)
          /\ IF outcome = "done" THEN refresh' = [refresh EXCEPT ![p] = NoRefresh] ELSE Failing(p)
    BY <1>6 DEF FinishRefresh
  <2>3. refresh' \in [Process -> Refresh]
    <3>1. NoRefresh \in Refresh
      BY DEF NoRefresh, Refresh, NoToken
    <3>2. Failing(p) => refresh' \in [Process -> Refresh]
      BY FailingEffect
    <3>3. CASE outcome = "done"
      BY <2>2, <3>1, <3>3
    <3>4. CASE outcome # "done"
      BY <2>2, <3>2, <3>4
    <3> QED BY <3>3, <3>4
  <2>4. visible' \in Record \cup {NoRecord} /\ durable' \in SUBSET (Record \cup {NoRecord})
        /\ paused' \in [Process -> BOOLEAN] /\ faults' \in 0..MaxFaults
    <3> HIDE DEF ready
    <3> QED BY <2>1, <2>2, WriteEffect
  <2> QED BY <1>6, <2>3, <2>4 DEF FinishRefresh
<1>7. CASE FinishRefused(p)
  <2>1. Failing(p) => refresh' \in [Process -> Refresh]
    BY FailingEffect
  <2> QED BY <1>7, <2>1 DEF FinishRefused
<1>8. CASE FailRefresh(p)
  <2>1. refresh' \in [Process -> Refresh]
    BY <1>8 DEF FailRefresh, NoRefresh, Refresh, NoToken
  <2>2. visible' \in Record \cup {NoRecord} /\ durable' \in SUBSET (Record \cup {NoRecord})
        /\ paused' \in [Process -> BOOLEAN] /\ faults' \in 0..MaxFaults
    <3> DEFINE failed == [generation |-> visible.generation + 1, state |-> Attention,
                          token |-> visible.token]
    <3>1. CASE OwnClaim(p) /\ visible.generation < MaxGeneration
               /\ \E outcome \in Outcome : Write(p, failed, outcome)
      <4>1. failed \in Record
        BY <1>8, <3>1, NextRecord DEF FailRefresh, OwnClaim, NoRecord, ShapeInv, Attention
      <4> HIDE DEF failed
      <4> QED BY <3>1, <4>1, WriteEffect
    <3> HIDE DEF failed
    <3> QED BY <1>8, <3>1 DEF FailRefresh, failed
  <2> QED BY <1>8, <2>1, <2>2 DEF FailRefresh
<1> QED BY <1>1, <1>2, <1>3, <1>4, <1>5, <1>6, <1>7, <1>8 DEF RefreshNext

\* An authorization keeps the types: what it installs is a record.
LEMMA TypeConnect ==
    ASSUME IInv, NEW p \in Process, ConnectNext(p)
    PROVE  TypeOK'
<1> USE DEF IInv, TypeOK, ConnectUnchanged, storeVars, sessionVars
<1>1. CASE \E s \in Session : BeginOAuth(p, s)
  BY <1>1 DEF BeginOAuth
<1>2. CASE \E s \in Session : Expire(p, s)
  BY <1>2 DEF Expire
<1>3. CASE \E s \in Session : TakeSession(p, s)
  <2>1. PICK s \in Session : TakeSession(p, s)
    BY <1>3
  <2>2. pending' \in [Process -> SUBSET Session]
    BY <2>1 DEF TakeSession, Taken
  <2>3. connect' \in [Process -> Connect]
    <3>1. [at |-> "taken", session |-> s, token |-> NoToken] \in Connect
      BY DEF Connect, NoToken
    <3> QED BY <2>1, <3>1 DEF TakeSession
  <2> QED BY <2>1, <2>2, <2>3 DEF TakeSession
<1>4. CASE CheckAbsent(p)
  BY <1>4 DEF CheckAbsent, Connect
<1>5. CASE Exchange(p)
  <2>1. connect[p].session \in Session
    BY <1>5 DEF Exchange, ShapeInv
  <2>2. exchanges' \in [Session -> Nat]
    BY <1>5, <2>1 DEF Exchange
  <2>3. minted' \in 0..MaxToken /\ minted <= minted'
    BY <1>5, ConstantsAssumption DEF Exchange
  <2>4. connect' \in [Process -> Connect]
    <3>1. minted < MaxToken => minted + 1 \in Token
      BY ConstantsAssumption DEF Token
    <3>2. NoConnect \in Connect
      BY DEF NoConnect, Connect, NoToken
    <3>3. CASE connect' = [connect EXCEPT ![p] = NoConnect]
      BY <3>2, <3>3
    <3>4. CASE minted < MaxToken
               /\ connect' = [connect EXCEPT ![p].at = "exchanged", ![p].token = minted + 1]
      <4>1. [connect[p] EXCEPT !.at = "exchanged", !.token = minted + 1] \in Connect
        BY <3>1, <3>4 DEF Connect
      <4> QED BY <3>4, <4>1
    <3> QED BY <1>5, <3>3, <3>4 DEF Exchange
  <2>5. spent' \in SUBSET (1..minted')
    BY <1>5, <2>3 DEF Exchange
  <2> QED BY <1>5, <2>2, <2>3, <2>4, <2>5 DEF Exchange
<1>6. CASE ConnectFails(p)
  BY <1>6 DEF ConnectFails, NoConnect, Connect, NoToken
<1>7. CASE Install(p)
  <2> DEFINE first == [generation |-> 1, state |-> "ready", token |-> connect[p].token]
  <2>1. first \in Record
    BY <1>7, ConstantsAssumption DEF Install, ShapeInv, Record, Generation
  <2>2. visible' \in Record \cup {NoRecord} /\ durable' \in SUBSET (Record \cup {NoRecord})
        /\ paused' \in [Process -> BOOLEAN] /\ faults' \in 0..MaxFaults
    <3>1. PICK outcome \in Outcome : Write(p, first, outcome)
      BY <1>7 DEF Install
    <3> HIDE DEF first
    <3> QED BY <2>1, <3>1, WriteEffect
  <2>3. connect' \in [Process -> Connect]
    BY <1>7 DEF Install, NoConnect, Connect, NoToken
  <2> QED BY <1>7, <2>2, <2>3 DEF Install
<1> QED BY <1>1, <1>2, <1>3, <1>4, <1>5, <1>6, <1>7 DEF ConnectNext

\* Every step keeps the types.
LEMMA TypeStep == IInv /\ [Next]_vars => TypeOK'
<1> SUFFICES ASSUME IInv, [Next]_vars PROVE TypeOK'
  OBVIOUS
<1> USE DEF IInv, TypeOK, storeVars, sessionVars, providerVars
<1>1. CASE \E p \in Process : RefreshNext(p)
  BY <1>1, TypeRefresh
<1>2. CASE \E p \in Process : ConnectNext(p)
  BY <1>2, TypeConnect
<1>3. CASE \E p \in Process : ReadUncertain(p)
  BY <1>3, ConstantsAssumption DEF ReadUncertain, Fault
<1>4. CASE \E p \in Process : Restart(p)
  BY <1>4, ConstantsAssumption
     DEF Restart, Fault, NoRefresh, Refresh, NoConnect, Connect, NoToken
<1>5. CASE PowerLoss
  BY <1>5, ConstantsAssumption
     DEF PowerLoss, Fault, NoRefresh, Refresh, NoConnect, Connect, NoToken
<1>6. CASE UNCHANGED vars
  BY <1>6 DEF vars
<1> QED BY <1>1, <1>2, <1>3, <1>4, <1>5, <1>6 DEF Next

\* Every step leaves each process with what its next step needs in hand.
LEMMA ShapeStep == IInv /\ [Next]_vars => ShapeInv'
<1> SUFFICES ASSUME IInv, [Next]_vars, NEW q \in Process
             PROVE  /\ refresh'[q].at = "read" => refresh'[q].generation \in Generation
                    /\ refresh'[q].at \in {"claimed", "granted", "failing"} =>
                          refresh'[q].generation \in Generation /\ refresh'[q].token \in Token
                    /\ refresh'[q].at = "granted" => refresh'[q].fresh \in Token
                    /\ connect'[q].at # "idle" => connect'[q].session \in Session
                    /\ connect'[q].at = "exchanged" => connect'[q].token \in Token
  BY DEF ShapeInv
<1> USE DEF IInv, TypeOK, ShapeInv
<1>1. ASSUME NEW p \in Process, RefreshNext(p)
      PROVE  /\ connect' = connect
             /\ refresh'[q].at = "read" => refresh'[q].generation \in Generation
             /\ refresh'[q].at \in {"claimed", "granted", "failing"} =>
                   refresh'[q].generation \in Generation /\ refresh'[q].token \in Token
             /\ refresh'[q].at = "granted" => refresh'[q].fresh \in Token
  <2> USE <1>1 DEF RefreshUnchanged, NoRefresh, Refresh
  <2>1. CASE ReadReady(p)
    BY <2>1 DEF ReadReady, Record, NoRecord
  <2>2. CASE BeginRefresh(p)
    <3>1. visible # NoRecord /\ visible \in Record /\ Started(visible) \in Record
      BY <2>2, NextRecord DEF BeginRefresh, Ready, NoRecord, Started, Record
    <3>2. visible.generation + 1 \in Generation /\ visible.token \in Token
      BY <3>1 DEF Started, Record
    <3>3. connect' = connect
      BY <2>2 DEF BeginRefresh
    <3>4. refresh' = [refresh EXCEPT ![p] = NoRefresh]
          \/ refresh' = [refresh EXCEPT ![p] =
                [at |-> "claimed", generation |-> visible.generation + 1,
                 token |-> visible.token, fresh |-> NoToken]]
      BY <2>2 DEF BeginRefresh
    <3> QED BY <3>2, <3>3, <3>4
  <2>3. CASE BeginRefused(p)
    BY <2>3 DEF BeginRefused
  <2>4. CASE Grant(p)
    <3>2. refresh[p].at = "claimed" /\ connect' = connect
      BY <2>4 DEF Grant
    <3>3. CASE \E token \in Token : Answered(p, token)
      BY <3>2, <3>3, AnsweredEffect
    <3>4. CASE Failing(p)
      BY <3>2, <3>4, FailingEffect
    <3> QED BY <2>4, <3>3, <3>4, GrantEffect
  <2>5. CASE GrantFails(p)
    BY <2>5 DEF GrantFails, Failing
  <2>6. CASE FinishRefresh(p)
    <3>1. refresh' = [refresh EXCEPT ![p] = NoRefresh] \/ Failing(p)
      BY <2>6 DEF FinishRefresh
    <3>2. refresh[p].at = "granted" /\ connect' = connect
      BY <2>6 DEF FinishRefresh
    <3> QED BY <3>1, <3>2 DEF Failing
  <2>7. CASE FinishRefused(p)
    BY <2>7 DEF FinishRefused, Failing
  <2>8. CASE FailRefresh(p)
    <3>1. refresh' = [refresh EXCEPT ![p] = NoRefresh] /\ connect' = connect
      BY <2>8 DEF FailRefresh
    <3> QED BY <3>1
  <2> QED BY <2>1, <2>2, <2>3, <2>4, <2>5, <2>6, <2>7, <2>8 DEF RefreshNext
<1>2. ASSUME NEW p \in Process, ConnectNext(p)
      PROVE  /\ refresh' = refresh
             /\ connect'[q].at # "idle" => connect'[q].session \in Session
             /\ connect'[q].at = "exchanged" => connect'[q].token \in Token
  <2> USE <1>2 DEF ConnectUnchanged, sessionVars, NoConnect, Connect
  <2>1. CASE \E s \in Session : BeginOAuth(p, s) \/ Expire(p, s)
    BY <2>1 DEF BeginOAuth, Expire
  <2>2. CASE \E s \in Session : TakeSession(p, s)
    BY <2>2 DEF TakeSession
  <2>3. CASE CheckAbsent(p)
    BY <2>3 DEF CheckAbsent
  <2>4. CASE Exchange(p)
    <3>1. minted < MaxToken => minted + 1 \in Token
      BY ConstantsAssumption DEF Token
    <3>2. connect[p].at = "absent" /\ refresh' = refresh
      BY <2>4 DEF Exchange
    <3>3. CASE connect' = [connect EXCEPT ![p] = NoConnect]
      BY <3>2, <3>3
    <3>4. CASE minted < MaxToken
               /\ connect' = [connect EXCEPT ![p].at = "exchanged", ![p].token = minted + 1]
      BY <3>1, <3>2, <3>4
    <3> QED BY <2>4, <3>3, <3>4 DEF Exchange
  <2>5. CASE ConnectFails(p)
    BY <2>5 DEF ConnectFails
  <2>6. CASE Install(p)
    <3>1. connect' = [connect EXCEPT ![p] = NoConnect] /\ refresh' = refresh
      BY <2>6 DEF Install
    <3> QED BY <3>1
  <2> QED BY <2>1, <2>2, <2>3, <2>4, <2>5, <2>6 DEF ConnectNext
<1>3. CASE \E p \in Process : ReadUncertain(p)
  BY <1>3 DEF ReadUncertain
<1>4. CASE \E p \in Process : Restart(p)
  BY <1>4 DEF Restart, NoRefresh, NoConnect
<1>5. CASE PowerLoss
  BY <1>5 DEF PowerLoss, NoRefresh, NoConnect
<1>6. CASE UNCHANGED vars
  BY <1>6 DEF vars
<1> QED BY <1>1, <1>2, <1>3, <1>4, <1>5, <1>6 DEF Next

--------------------------------------------------------------------------------
(* One claim at a time                                                        *)

\* A refresh step concerns its own process.
LEMMA OthersKeep ==
    ASSUME IInv, NEW p \in Process, RefreshNext(p), NEW q \in Process, q # p
    PROVE  refresh'[q] = refresh[q] /\ paused'[q] = paused[q]
<1> USE DEF IInv, TypeOK, storeVars
<1>1. CASE ReadReady(p) \/ BeginRefused(p)
  BY <1>1 DEF ReadReady, BeginRefused
<1>2. CASE BeginRefresh(p)
  <2>1. \E outcome \in Outcome : \E record : Write(p, record, outcome)
    BY <1>2 DEF BeginRefresh
  <2>2. refresh'[q] = refresh[q]
    BY <1>2 DEF BeginRefresh
  <2> QED BY <2>1, <2>2, WriteEffect
<1>3. CASE Grant(p) \/ GrantFails(p) \/ FinishRefused(p)
  BY <1>3 DEF Grant, GrantFails, FinishRefused, Answered, Failing
<1>4. CASE FinishRefresh(p)
  <2>1. \E outcome \in Outcome : \E record : Write(p, record, outcome)
    BY <1>4 DEF FinishRefresh
  <2>2. refresh'[q] = refresh[q]
    BY <1>4 DEF FinishRefresh, Failing
  <2> QED BY <2>1, <2>2, WriteEffect
<1>5. CASE FailRefresh(p)
  <2>1. \/ \E outcome \in Outcome : \E record : Write(p, record, outcome)
        \/ UNCHANGED paused
    BY <1>5 DEF FailRefresh
  <2>2. refresh'[q] = refresh[q]
    BY <1>5 DEF FailRefresh
  <2> QED BY <2>1, <2>2, WriteEffect
<1> QED BY <1>1, <1>2, <1>3, <1>4, <1>5 DEF RefreshNext

\* While the record stands and nobody takes a claim, claims stay as they are.
LEMMA ClaimKept ==
    ASSUME ClaimInv, UNCHANGED <<visible, durable>>,
           \A q \in Process : Active(q)' =>
              /\ Active(q)
              /\ refresh'[q].generation = refresh[q].generation
              /\ refresh'[q].token = refresh[q].token
    PROVE  ClaimInv'
BY DEF ClaimInv, OwnClaim

\* A refresh step leaves at most one claim: it is taken from a ready record, and its
\* owner alone moves the record on.
LEMMA ClaimRefresh ==
    ASSUME IInv, NEW p \in Process, RefreshNext(p)
    PROVE  ClaimInv'
<1> USE DEF IInv, TypeOK, storeVars
<1>1. \A q \in Process : q # p => refresh'[q] = refresh[q] /\ paused'[q] = paused[q]
  BY OthersKeep
<1>2. CASE ReadReady(p) \/ BeginRefused(p)
  <2>1. UNCHANGED <<visible, durable, paused>> /\ refresh'[p].at \in {"read", "idle"}
    BY <1>2 DEF ReadReady, BeginRefused, NoRefresh
  <2> QED BY <1>1, <2>1, ClaimKept DEF Active
<1>3. CASE BeginRefresh(p)
  <2>1. \A q \in Process : ~Active(q)
    BY <1>3 DEF BeginRefresh, Ready, ClaimInv, OwnClaim
  <2>2. PICK outcome \in Outcome :
          /\ Write(p, Started(visible), outcome)
          /\ refresh' = [refresh EXCEPT ![p] =
                IF outcome = "done"
                THEN [at |-> "claimed", generation |-> visible.generation + 1,
                      token |-> visible.token, fresh |-> NoToken]
                ELSE NoRefresh]
    BY <1>3 DEF BeginRefresh
  <2>3. \A q \in Process : q # p => ~Active(q)'
    BY <1>1, <2>1 DEF Active
  <2>4. visible' \in durable'
    BY <2>2, WriteEffect
  <2>5. CASE outcome = "done"
    <3>1. visible' = Started(visible) /\ durable' = {visible'}
      BY <2>2, <2>5, WriteEffect
    <3>2. OwnClaim(p)'
      BY <2>2, <2>5, <3>1 DEF OwnClaim, Started
    <3> QED BY <2>3, <2>4, <3>1, <3>2 DEF ClaimInv
  <2>6. CASE outcome # "done"
    <3>1. ~Active(p)'
      BY <2>2, <2>6 DEF Active, NoRefresh
    <3> QED BY <2>3, <2>4, <3>1 DEF ClaimInv
  <2> QED BY <2>5, <2>6
<1>4. CASE Grant(p)
  <2>1. /\ UNCHANGED <<visible, durable, paused>>
        /\ refresh'[p].generation = refresh[p].generation
        /\ refresh'[p].token = refresh[p].token
        /\ Active(p)
    BY <1>4, GrantEffect, AnsweredEffect, FailingEffect DEF Grant, Active
  <2> QED BY <1>1, <2>1, ClaimKept DEF Active
<1>5. CASE GrantFails(p) \/ FinishRefused(p)
  <2>1. /\ UNCHANGED <<visible, durable, paused>>
        /\ refresh'[p].generation = refresh[p].generation
        /\ refresh'[p].token = refresh[p].token
        /\ Active(p)
    BY <1>5, FailingEffect DEF GrantFails, FinishRefused, Active
  <2> QED BY <1>1, <2>1, ClaimKept DEF Active
<1>6. CASE FinishRefresh(p)
  <2>1. Active(p)
    BY <1>6 DEF FinishRefresh, Active
  <2>2. \A q \in Process : q # p => ~Active(q)'
    <3>1. \A q \in Process : q # p => ~Active(q)
      BY <2>1 DEF ClaimInv
    <3> QED BY <1>1, <3>1 DEF Active
  <2>3. PICK outcome \in Outcome :
          /\ \E record : Write(p, record, outcome)
          /\ IF outcome = "done" THEN refresh' = [refresh EXCEPT ![p] = NoRefresh] ELSE Failing(p)
    BY <1>6 DEF FinishRefresh
  <2>4. visible' \in durable'
    BY <2>3, WriteEffect
  <2>5. CASE outcome = "refused"
    <3>1. UNCHANGED <<visible, durable, paused>>
      BY <2>3, <2>5, WriteEffect
    <3>2. /\ refresh'[p].generation = refresh[p].generation
          /\ refresh'[p].token = refresh[p].token
      BY <2>3, <2>5, FailingEffect
    <3> QED BY <2>1, <2>2, <3>1, <3>2, ClaimKept
  <2>6. CASE outcome # "refused"
    <3>1. ~Active(p)'
      <4>1. CASE outcome = "done"
        BY <2>3, <4>1 DEF NoRefresh, Active
      <4>2. CASE outcome = "uncertain"
        <5>1. paused' = [paused EXCEPT ![p] = TRUE]
          BY <2>3, <4>2, WriteEffect
        <5>2. refresh'[p].at = "failing"
          BY <2>3, <4>2, FailingEffect
        <5> QED BY <5>1, <5>2 DEF Active
      <4> QED BY <2>6, <4>1, <4>2 DEF Outcome
    <3> QED BY <2>2, <2>4, <3>1 DEF ClaimInv
  <2> QED BY <2>5, <2>6
<1>7. CASE FailRefresh(p)
  <2>1. refresh[p].at = "failing" /\ ~Active(p)'
    BY <1>7 DEF FailRefresh, Active, NoRefresh
  <2>2. CASE UNCHANGED <<storeVars, faults>>
    BY <1>1, <2>1, <2>2, ClaimKept DEF Active
  <2>3. CASE ~paused[p] /\ \E outcome \in Outcome : \E record : Write(p, record, outcome)
    <3>1. \A q \in Process : q # p => ~Active(q)
      BY <2>1, <2>3 DEF ClaimInv, Active
    <3>2. \A q \in Process : ~Active(q)'
      BY <1>1, <2>1, <3>1 DEF Active
    <3>3. visible' \in durable'
      BY <2>3, WriteEffect
    <3> QED BY <3>2, <3>3 DEF ClaimInv
  <2> QED BY <1>7, <2>2, <2>3 DEF FailRefresh
<1> QED BY <1>2, <1>3, <1>4, <1>5, <1>6, <1>7 DEF RefreshNext

\* Every step keeps the claim invariant: an installation finds no record, so no claim.
LEMMA ClaimStep == IInv /\ [Next]_vars => ClaimInv'
<1> SUFFICES ASSUME IInv, [Next]_vars PROVE ClaimInv'
  OBVIOUS
<1> USE DEF IInv, TypeOK
<1>1. CASE \E p \in Process : RefreshNext(p)
  BY <1>1, ClaimRefresh
<1>2. ASSUME NEW p \in Process, Install(p)
      PROVE  ClaimInv'
  <2>1. \A q \in Process : ~Active(q)
    BY <1>2 DEF Install, Absent, NoRecord, ClaimInv, OwnClaim
  <2>2. PICK outcome \in Outcome : \E record : Write(p, record, outcome)
    BY <1>2 DEF Install
  <2>3. visible' \in durable'
    BY <2>2, WriteEffect
  <2>4. \A q \in Process : paused[q] => paused'[q]
    <3>1. UNCHANGED paused \/ paused' = [paused EXCEPT ![p] = TRUE]
      BY <2>2, WriteEffect DEF Outcome
    <3> QED BY <3>1
  <2>5. refresh' = refresh
    BY <1>2 DEF Install, ConnectUnchanged
  <2> QED BY <2>1, <2>3, <2>4, <2>5 DEF ClaimInv, Active
<1>3. ASSUME NEW p \in Process, ConnectNext(p), ~Install(p)
      PROVE  ClaimInv'
  <2>1. UNCHANGED <<visible, durable, paused, refresh>>
    BY <1>3 DEF ConnectNext, BeginOAuth, Expire, TakeSession, CheckAbsent, Exchange,
                ConnectFails, ConnectUnchanged, storeVars
  <2> QED BY <2>1, ClaimKept DEF Active
<1>4. CASE \E p \in Process : ReadUncertain(p)
  <2>1. UNCHANGED <<visible, durable, refresh>> /\ \A q \in Process : paused[q] => paused'[q]
    BY <1>4 DEF ReadUncertain
  <2> QED BY <2>1, ClaimKept DEF Active
<1>5. CASE \E p \in Process : Restart(p)
  <2>1. PICK p \in Process : Restart(p)
    BY <1>5
  <2>2. UNCHANGED <<visible, durable>> /\ refresh'[p].at = "idle"
    BY <2>1 DEF Restart, NoRefresh
  <2>3. \A q \in Process : q # p => refresh'[q] = refresh[q] /\ paused'[q] = paused[q]
    BY <2>1 DEF Restart
  <2> QED BY <2>2, <2>3, ClaimKept DEF Active
<1>6. CASE PowerLoss
  <2>1. visible' \in durable' /\ \A q \in Process : ~Active(q)'
    BY <1>6 DEF PowerLoss, NoRefresh, Active
  <2> QED BY <2>1 DEF ClaimInv
<1>7. CASE UNCHANGED vars
  BY <1>7, ClaimKept DEF vars, storeVars, Active
<1> QED BY <1>1, <1>2, <1>3, <1>4, <1>5, <1>6, <1>7 DEF Next

--------------------------------------------------------------------------------
(* The record moves on                                                        *)

\* A record that appears follows the one that was visible, and what is visible changes
\* to such a record or to one that was there.
LEMMA RecordMoves ==
    ASSUME IInv, [Next]_vars
    PROVE  /\ \A r \in durable' : r \in durable \/ r.generation = visible.generation + 1
           /\ \/ visible' \in durable
              \/ visible'.generation = visible.generation + 1
<1> USE DEF IInv, ClaimInv, storeVars
<1>1. ASSUME NEW p \in Process, NEW record, NEW outcome \in Outcome,
             Write(p, record, outcome), record.generation = visible.generation + 1
      PROVE  /\ \A r \in durable' : r \in durable \/ r.generation = visible.generation + 1
             /\ \/ visible' \in durable
                \/ visible'.generation = visible.generation + 1
  BY <1>1, WriteEffect
<1>2. ASSUME NEW p \in Process, RefreshNext(p)
      PROVE  /\ \A r \in durable' : r \in durable \/ r.generation = visible.generation + 1
             /\ \/ visible' \in durable
                \/ visible'.generation = visible.generation + 1
  <2>1. CASE UNCHANGED <<visible, durable>>
    BY <2>1
  <2>2. CASE BeginRefresh(p)
    BY <1>1, <2>2 DEF BeginRefresh, Started
  <2>3. CASE FinishRefresh(p)
    BY <1>1, <2>3 DEF FinishRefresh
  <2>4. CASE FailRefresh(p)
    BY <1>1, <2>1, <2>4 DEF FailRefresh
  <2> QED BY <1>2, <2>1, <2>2, <2>3, <2>4
          DEF RefreshNext, ReadReady, BeginRefused, Grant, GrantFails, FinishRefused
<1>3. ASSUME NEW p \in Process, ConnectNext(p)
      PROVE  /\ \A r \in durable' : r \in durable \/ r.generation = visible.generation + 1
             /\ \/ visible' \in durable
                \/ visible'.generation = visible.generation + 1
  <2>1. CASE UNCHANGED <<visible, durable>>
    BY <2>1
  <2>2. CASE Install(p)
    BY <1>1, <2>2 DEF Install, Absent, NoRecord
  <2> QED BY <1>3, <2>1, <2>2 DEF ConnectNext, BeginOAuth, Expire, TakeSession, CheckAbsent,
                                  Exchange, ConnectFails
<1>4. CASE \E p \in Process : ReadUncertain(p) \/ Restart(p)
  BY <1>4 DEF ReadUncertain, Restart
<1>5. CASE PowerLoss
  BY <1>5 DEF PowerLoss
<1>6. CASE UNCHANGED vars
  BY <1>6 DEF vars
<1> QED BY <1>2, <1>3, <1>4, <1>5, <1>6 DEF Next

\* Every step keeps the grant invariant: a claim has a generation after every record
\* that may come back, so no request was sent under it yet.
LEMMA GrantStep == IInv /\ [Next]_vars => GrantInv'
<1> SUFFICES ASSUME IInv, [Next]_vars PROVE GrantInv'
  OBVIOUS
<1> USE DEF IInv, TypeOK
<1>1. visible.generation \in Nat /\ \A r \in durable : r.generation \in Nat
  BY DEF Record, NoRecord, Generation
<1>2. \A g \in Generation : grants[g] # 0 =>
         \A r \in durable' : r.generation >= g
  BY <1>1, RecordMoves DEF GrantInv, ClaimInv, Generation
<1>3. ASSUME UNCHANGED grants,
             \A q \in Process : refresh'[q].at = "claimed" =>
                refresh[q].at = "claimed" /\ refresh'[q].generation = refresh[q].generation
      PROVE  GrantInv'
  BY <1>2, <1>3 DEF GrantInv
<1>4. ASSUME NEW p \in Process, RefreshNext(p)
      PROVE  GrantInv'
  <2>1. \A q \in Process : q # p => refresh'[q] = refresh[q]
    BY <1>4, OthersKeep
  <2>2. CASE BeginRefresh(p)
    <3>1. grants' = grants
      BY <2>2 DEF BeginRefresh
    <3>2. refresh'[p].at = "claimed" =>
            refresh'[p].generation = visible.generation + 1 /\ visible.generation < MaxGeneration
      BY <2>2 DEF BeginRefresh, NoRefresh
    <3>3. visible.generation < MaxGeneration => grants[visible.generation + 1] = 0
      BY <1>1, ConstantsAssumption DEF GrantInv, ClaimInv, Generation
    <3> QED BY <1>2, <2>1, <3>1, <3>2, <3>3 DEF GrantInv
  <2>3. CASE Grant(p)
    <3> DEFINE g == refresh[p].generation
    <3>1. g \in Generation /\ grants[g] = 0 /\ grants' = [grants EXCEPT ![g] = 1]
      <4>1. refresh[p].at = "claimed" /\ grants' = [grants EXCEPT ![g] = grants[g] + 1]
        BY <2>3 DEF Grant
      <4>2. g \in Generation /\ grants[g] = 0
        BY <4>1 DEF ShapeInv, GrantInv
      <4> QED BY <4>1, <4>2
    <3>2. durable' = durable /\ \A r \in durable : r.generation = g
      BY <2>3 DEF Grant, storeVars, Active, ClaimInv, OwnClaim
    <3>3. \A q \in Process : refresh'[q].at # "claimed"
      <4>1. refresh'[p].at # "claimed"
        BY <2>3, GrantEffect, AnsweredEffect, FailingEffect
      <4>2. \A q \in Process : q # p => refresh[q].at # "claimed"
        BY <2>3 DEF Grant, Active, ClaimInv
      <4> QED BY <2>1, <4>1, <4>2
    <3>4. \A h \in Generation : grants'[h] <= 1 /\ (grants'[h] # 0 => h = g \/ grants[h] # 0)
      BY <3>1 DEF GrantInv
    <3> QED BY <1>1, <1>2, <3>1, <3>2, <3>3, <3>4 DEF GrantInv, Generation
  <2>4. CASE UNCHANGED grants /\ refresh'[p].at # "claimed"
    BY <1>3, <2>1, <2>4
  <2>5. CASE ReadReady(p) \/ BeginRefused(p) \/ FailRefresh(p)
    BY <2>4, <2>5 DEF ReadReady, BeginRefused, FailRefresh, NoRefresh
  <2>6. CASE GrantFails(p) \/ FinishRefused(p)
    BY <2>4, <2>6, FailingEffect DEF GrantFails, FinishRefused
  <2>7. CASE FinishRefresh(p)
    <3>1. UNCHANGED grants /\ (refresh' = [refresh EXCEPT ![p] = NoRefresh] \/ Failing(p))
      BY <2>7 DEF FinishRefresh
    <3> QED BY <2>4, <3>1, FailingEffect DEF NoRefresh
  <2> QED BY <1>4, <2>2, <2>3, <2>5, <2>6, <2>7 DEF RefreshNext
<1>5. CASE \E p \in Process : ConnectNext(p)
  <2>1. UNCHANGED <<refresh, grants>>
    BY <1>5 DEF ConnectNext, ConnectUnchanged, BeginOAuth, Expire, TakeSession, CheckAbsent,
                Exchange, ConnectFails, Install
  <2> QED BY <1>3, <2>1
<1>6. CASE \E p \in Process : ReadUncertain(p)
  BY <1>3, <1>6 DEF ReadUncertain
<1>7. CASE \E p \in Process : Restart(p)
  BY <1>3, <1>7 DEF Restart, NoRefresh
<1>8. CASE PowerLoss
  BY <1>3, <1>8 DEF PowerLoss, NoRefresh
<1>9. CASE UNCHANGED vars
  BY <1>3, <1>9 DEF vars
<1> QED BY <1>4, <1>5, <1>6, <1>7, <1>8, <1>9 DEF Next

--------------------------------------------------------------------------------
(* Tokens and sessions are in one place                                       *)

\* A step that brings no token keeps the token invariant.
LEMMA TokenKept ==
    ASSUME TokenInv, UNCHANGED providerVars,
           \A r \in durable' : r \in durable \/ \E o \in durable :
              o.token = r.token /\ r.state # "ready",
           \A q \in Process : refresh'[q].at = "granted" =>
              refresh[q].at = "granted" /\ refresh'[q].fresh = refresh[q].fresh,
           \A q \in Process : connect'[q].at = "exchanged" =>
              connect[q].at = "exchanged" /\ connect'[q].token = connect[q].token
    PROVE  TokenInv'
<1> USE DEF providerVars
<1>1. \A r \in durable' : r.token <= minted' /\ (r.state = "ready" => r.token \notin spent')
  BY DEF TokenInv
<1>2. \A p \in Process : refresh'[p].at = "granted" =>
         refresh'[p].fresh <= minted' /\ refresh'[p].fresh \notin spent'
  BY DEF TokenInv
<1>3. ASSUME NEW p \in Process, connect'[p].at = "exchanged"
      PROVE  /\ connect'[p].token <= minted' /\ connect'[p].token \notin spent'
             /\ \A r \in durable' : r.token # connect'[p].token
             /\ \A q \in Process :
                   /\ refresh'[q].at = "granted" => refresh'[q].fresh # connect'[p].token
                   /\ connect'[q].at = "exchanged" /\ connect'[q].token = connect'[p].token => q = p
  BY <1>3 DEF TokenInv
<1> QED BY <1>1, <1>2, <1>3 DEF TokenInv

\* A request spends the token of the only claim, and brings at most a new one.
LEMMA TokenGrant ==
    ASSUME IInv, NEW p \in Process, Grant(p)
    PROVE  TokenInv'
<1> USE DEF IInv, TypeOK
<1> DEFINE t == refresh[p].token
<1>1. /\ UNCHANGED <<visible, durable, connect>>
      /\ \A q \in Process : q # p => refresh'[q] = refresh[q] /\ refresh[q].at # "granted"
  <2>1. UNCHANGED <<visible, durable, connect>> /\ Active(p)
    BY DEF Grant, storeVars, RefreshUnchanged, Active
  <2>2. RefreshNext(p)
    BY DEF RefreshNext
  <2> QED BY <2>1, <2>2, OthersKeep DEF ClaimInv, Active
<1>2. /\ \A r \in durable : r.token = t /\ r.state # "ready" /\ t <= minted
      /\ visible \in durable /\ t \in Token
      /\ \A q \in Process : connect[q].at = "exchanged" => connect[q].token # t
  BY DEF Grant, ShapeInv, Active, ClaimInv, OwnClaim, TokenInv
<1>3. CASE UNCHANGED providerVars /\ Failing(p)
  <2>1. \A q \in Process : refresh'[q].at # "granted"
    BY <1>1, <1>3, FailingEffect
  <2> QED BY <1>1, <1>3, <2>1, TokenKept
<1>4. CASE UNCHANGED providerVars /\ Answered(p, t) /\ t \notin spent
  <2>1. /\ \A q \in Process : refresh'[q].at = "granted" => q = p
        /\ refresh'[p].fresh = t
    BY <1>1, <1>2, <1>4, AnsweredEffect
  <2> QED BY <1>1, <1>2, <1>4, <2>1 DEF TokenInv, providerVars
<1>5. CASE /\ minted' = minted + 1 /\ spent' = spent \cup {t} /\ minted < MaxToken
           /\ Answered(p, minted + 1) \/ Failing(p)
  <2>1. \A q \in Process : refresh'[q].at = "granted" => refresh'[q].fresh = minted + 1
    <3>1. CASE Failing(p)
      BY <1>1, <3>1, FailingEffect
    <3>2. CASE Answered(p, minted + 1)
      <4>1. minted + 1 \in Token
        BY <1>5, ConstantsAssumption DEF Token
      <4> QED BY <1>1, <3>2, <4>1, AnsweredEffect
    <3> QED BY <1>5, <3>1, <3>2
  <2>2. minted \in Nat /\ \A s \in spent' : s \in Nat /\ s <= minted
    BY <1>2, <1>5 DEF Token
  <2>3. \A q \in Process : connect[q].at = "exchanged" =>
           connect[q].token \in Nat /\ connect[q].token <= minted
    BY DEF ShapeInv, Token, TokenInv
  <2>4. \A r \in durable' : r.token <= minted' /\ (r.state = "ready" => r.token \notin spent')
    BY <1>1, <1>2, <1>5, <2>2 DEF Token
  <2>5. \A q \in Process : refresh'[q].at = "granted" =>
           refresh'[q].fresh <= minted' /\ refresh'[q].fresh \notin spent'
    BY <1>5, <2>1, <2>2
  <2>6. ASSUME NEW q \in Process, connect'[q].at = "exchanged"
        PROVE  /\ connect'[q].token <= minted' /\ connect'[q].token \notin spent'
               /\ \A r \in durable' : r.token # connect'[q].token
               /\ \A u \in Process :
                     /\ refresh'[u].at = "granted" => refresh'[u].fresh # connect'[q].token
                     /\ connect'[u].at = "exchanged" /\ connect'[u].token = connect'[q].token => u = q
    <3>1. connect[q].at = "exchanged" /\ connect' = connect /\ durable' = durable
      BY <1>1, <2>6
    <3>2. connect[q].token \notin spent'
      BY <1>2, <1>5, <3>1 DEF TokenInv
    <3> QED BY <1>5, <2>1, <2>2, <2>3, <3>1, <3>2 DEF TokenInv
  <2> HIDE DEF t
  <2> QED BY <2>4, <2>5, <2>6 DEF TokenInv
<1> QED BY <1>3, <1>4, <1>5 DEF Grant, Carried

\* A refresh step keeps the token invariant: the token of an answer moves to the record.
LEMMA TokenRefresh ==
    ASSUME IInv, NEW p \in Process, RefreshNext(p)
    PROVE  TokenInv'
<1> USE DEF IInv, TypeOK, ClaimInv
<1>1. \A q \in Process : q # p => refresh'[q] = refresh[q]
  BY OthersKeep
<1>2. CASE ReadReady(p) \/ BeginRefused(p)
  <2>1. /\ UNCHANGED <<durable, connect, providerVars>> /\ refresh'[p].at \in {"read", "idle"}
    BY <1>2 DEF ReadReady, BeginRefused, NoRefresh, storeVars, RefreshUnchanged
  <2> QED BY <1>1, <2>1, TokenKept
<1>3. CASE BeginRefresh(p)
  <2>1. UNCHANGED <<connect, providerVars>> /\ refresh'[p].at \in {"claimed", "idle"}
    BY <1>3 DEF BeginRefresh, NoRefresh, RefreshUnchanged
  <2>2. PICK outcome \in Outcome : Write(p, Started(visible), outcome)
    BY <1>3 DEF BeginRefresh
  <2>3. durable' \subseteq durable \cup {Started(visible)}
    BY <2>2, WriteEffect
  <2>4. Started(visible).token = visible.token /\ Started(visible).state # "ready"
    BY DEF Started
  <2> QED BY <1>1, <2>1, <2>3, <2>4, TokenKept
<1>4. CASE Grant(p)
  BY <1>4, TokenGrant
<1>5. CASE GrantFails(p) \/ FinishRefused(p)
  <2>1. UNCHANGED <<durable, connect, providerVars>> /\ refresh'[p].at = "failing"
    BY <1>5, FailingEffect DEF GrantFails, FinishRefused, storeVars, RefreshUnchanged
  <2> QED BY <1>1, <2>1, TokenKept
<1>6. CASE FinishRefresh(p)
  <2> DEFINE ready == [generation |-> visible.generation + 1, state |-> "ready",
                       token |-> refresh[p].fresh]
  <2>1. UNCHANGED <<connect, providerVars>> /\ refresh[p].at = "granted"
    BY <1>6 DEF FinishRefresh, RefreshUnchanged
  <2>2. PICK outcome \in Outcome : Write(p, ready, outcome)
    BY <1>6 DEF FinishRefresh
  <2>3. durable' \subseteq durable \cup {ready}
    <3> HIDE DEF ready
    <3> QED BY <2>2, WriteEffect
  <2>4. refresh'[p].at # "granted"
    <3>1. refresh' = [refresh EXCEPT ![p] = NoRefresh] \/ Failing(p)
      BY <1>6 DEF FinishRefresh
    <3> QED BY <3>1, FailingEffect DEF NoRefresh
  <2>5. ready.token = refresh[p].fresh
    OBVIOUS
  <2> HIDE DEF ready
  <2>6. \A r \in durable' : r.token <= minted' /\ (r.state = "ready" => r.token \notin spent')
    BY <2>1, <2>3, <2>5 DEF TokenInv, providerVars
  <2>7. \A q \in Process : refresh'[q].at = "granted" =>
           refresh'[q].fresh <= minted' /\ refresh'[q].fresh \notin spent'
    BY <1>1, <2>1, <2>4 DEF TokenInv, providerVars
  <2>8. ASSUME NEW q \in Process, connect'[q].at = "exchanged"
        PROVE  /\ connect'[q].token <= minted' /\ connect'[q].token \notin spent'
               /\ \A r \in durable' : r.token # connect'[q].token
               /\ \A u \in Process :
                     /\ refresh'[u].at = "granted" => refresh'[u].fresh # connect'[q].token
                     /\ connect'[u].at = "exchanged" /\ connect'[u].token = connect'[q].token => u = q
    BY <1>1, <2>1, <2>3, <2>4, <2>5, <2>8 DEF TokenInv, providerVars
  <2> QED BY <2>6, <2>7, <2>8 DEF TokenInv
<1>7. CASE FailRefresh(p)
  <2>1. UNCHANGED <<connect, providerVars>> /\ refresh'[p].at = "idle"
    BY <1>7 DEF FailRefresh, NoRefresh, RefreshUnchanged
  <2>2. \A r \in durable' : r \in durable \/ \E o \in durable :
           o.token = r.token /\ r.state # "ready"
    <3> DEFINE failed == [generation |-> visible.generation + 1, state |-> Attention,
                          token |-> visible.token]
    <3>1. failed.token = visible.token /\ failed.state # "ready"
      BY DEF Attention
    <3>2. UNCHANGED <<storeVars, faults>> \/ \E outcome \in Outcome : Write(p, failed, outcome)
      BY <1>7 DEF FailRefresh
    <3> HIDE DEF failed
    <3> QED BY <3>1, <3>2, WriteEffect DEF storeVars
  <2> QED BY <1>1, <2>1, <2>2, TokenKept
<1> QED BY <1>2, <1>3, <1>4, <1>5, <1>6, <1>7 DEF RefreshNext

\* Every step keeps the token invariant: an exchange brings a new token, and an
\* installation moves it to the record.
LEMMA TokenStep == IInv /\ [Next]_vars => TokenInv'
<1> SUFFICES ASSUME IInv, [Next]_vars PROVE TokenInv'
  OBVIOUS
<1> USE DEF IInv, TypeOK, ClaimInv
<1>1. CASE \E p \in Process : RefreshNext(p)
  BY <1>1, TokenRefresh
<1>2. ASSUME NEW p \in Process, Exchange(p)
      PROVE  TokenInv'
  <2>1. UNCHANGED <<durable, refresh, spent>>
    BY <1>2 DEF Exchange, ConnectUnchanged, storeVars
  <2>2. CASE minted' = minted /\ connect' = [connect EXCEPT ![p] = NoConnect]
    BY <2>1, <2>2, TokenKept DEF NoConnect, providerVars
  <2>3. CASE minted' = minted + 1 /\ connect' = [connect EXCEPT ![p] = NoConnect]
    <3>1. \A r \in durable' : r.token <= minted' /\ (r.state = "ready" => r.token \notin spent')
      BY <2>1, <2>3 DEF TokenInv, Record, NoRecord, Token, NoToken
    <3>2. \A q \in Process : refresh'[q].at = "granted" =>
             refresh'[q].fresh <= minted' /\ refresh'[q].fresh \notin spent'
      BY <2>1, <2>3 DEF TokenInv, ShapeInv, Token
    <3>3. \A q \in Process : connect'[q].at = "exchanged" =>
             /\ connect[q].at = "exchanged" /\ connect'[q].token = connect[q].token
             /\ connect[q].token <= minted'
      BY <2>3 DEF NoConnect, TokenInv, ShapeInv, Token
    <3> QED BY <2>1, <3>1, <3>2, <3>3 DEF TokenInv
  <2>4. CASE minted' = minted + 1
             /\ connect' = [connect EXCEPT ![p].at = "exchanged", ![p].token = minted + 1]
    <3>1. \A r \in durable' : r.token <= minted /\ r.token \in Nat
                              /\ (r.state = "ready" => r.token \notin spent')
      BY <2>1 DEF TokenInv, Record, NoRecord, Token, NoToken
    <3>2. \A q \in Process : refresh'[q].at = "granted" =>
             /\ refresh'[q].fresh <= minted /\ refresh'[q].fresh \in Nat
             /\ refresh'[q].fresh \notin spent'
      BY <2>1 DEF TokenInv, ShapeInv, Token
    <3>3. \A q \in Process : q # p => connect'[q] = connect[q]
      BY <2>4
    <3>4. connect'[p].token = minted + 1
      BY <2>4 DEF Connect
    <3>5. \A q \in Process : q # p /\ connect[q].at = "exchanged" =>
             /\ connect[q].token <= minted /\ connect[q].token \in Nat
             /\ connect[q].token \notin spent'
             /\ \A r \in durable' : r.token # connect[q].token
      BY <2>1 DEF TokenInv, ShapeInv, Token
    <3>6. \A r \in durable' : r.token <= minted' /\ (r.state = "ready" => r.token \notin spent')
      BY <2>4, <3>1
    <3>7. \A q \in Process : refresh'[q].at = "granted" =>
             refresh'[q].fresh <= minted' /\ refresh'[q].fresh \notin spent'
      BY <2>4, <3>2
    <3>8. ASSUME NEW q \in Process, connect'[q].at = "exchanged"
          PROVE  /\ connect'[q].token <= minted' /\ connect'[q].token \notin spent'
                 /\ \A r \in durable' : r.token # connect'[q].token
                 /\ \A u \in Process :
                       /\ refresh'[u].at = "granted" => refresh'[u].fresh # connect'[q].token
                       /\ connect'[u].at = "exchanged" /\ connect'[u].token = connect'[q].token =>
                             u = q
      <4>1. CASE q = p
        BY <2>1, <2>4, <3>1, <3>2, <3>3, <3>4, <3>5, <4>1
      <4>2. CASE q # p
        BY <2>1, <2>4, <3>3, <3>4, <3>5, <3>8, <4>2 DEF TokenInv
      <4> QED BY <4>1, <4>2
    <3> QED BY <3>6, <3>7, <3>8 DEF TokenInv
  <2> QED BY <1>2, <2>2, <2>3, <2>4 DEF Exchange
<1>3. ASSUME NEW p \in Process, Install(p)
      PROVE  TokenInv'
  <2> DEFINE first == [generation |-> 1, state |-> "ready", token |-> connect[p].token]
  <2>1. /\ connect[p].at = "exchanged" /\ connect' = [connect EXCEPT ![p] = NoConnect]
        /\ UNCHANGED <<refresh, providerVars>>
    BY <1>3 DEF Install, ConnectUnchanged, providerVars
  <2>2. durable' \subseteq durable \cup {first}
    <3>1. \E outcome \in Outcome : Write(p, first, outcome)
      BY <1>3 DEF Install
    <3> HIDE DEF first
    <3> QED BY <3>1, WriteEffect
  <2>3. first.token = connect[p].token
    OBVIOUS
  <2>4. \A q \in Process : connect'[q].at = "exchanged" =>
           q # p /\ connect[q].at = "exchanged" /\ connect'[q].token = connect[q].token
    BY <2>1 DEF NoConnect
  <2> HIDE DEF first
  <2>5. \A r \in durable' : r.token <= minted' /\ (r.state = "ready" => r.token \notin spent')
    BY <2>1, <2>2, <2>3 DEF TokenInv, providerVars
  <2>6. \A q \in Process : refresh'[q].at = "granted" =>
           refresh'[q].fresh <= minted' /\ refresh'[q].fresh \notin spent'
    BY <2>1 DEF TokenInv, providerVars
  <2>7. ASSUME NEW q \in Process, connect'[q].at = "exchanged"
        PROVE  /\ connect'[q].token <= minted' /\ connect'[q].token \notin spent'
               /\ \A r \in durable' : r.token # connect'[q].token
               /\ \A u \in Process :
                     /\ refresh'[u].at = "granted" => refresh'[u].fresh # connect'[q].token
                     /\ connect'[u].at = "exchanged" /\ connect'[u].token = connect'[q].token => u = q
    BY <2>1, <2>2, <2>3, <2>4, <2>7 DEF TokenInv, providerVars
  <2> QED BY <2>5, <2>6, <2>7 DEF TokenInv
<1>4. ASSUME NEW p \in Process, ConnectNext(p), ~Exchange(p), ~Install(p)
      PROVE  TokenInv'
  <2>1. UNCHANGED <<durable, refresh, providerVars>>
    BY <1>4 DEF ConnectNext, ConnectUnchanged, BeginOAuth, Expire, TakeSession, CheckAbsent,
                ConnectFails, storeVars, providerVars
  <2>2. \A q \in Process : connect'[q].at = "exchanged" =>
           connect[q].at = "exchanged" /\ connect'[q].token = connect[q].token
    BY <1>4 DEF ConnectNext, BeginOAuth, Expire, TakeSession, CheckAbsent, ConnectFails,
                NoConnect, Connect
  <2> QED BY <2>1, <2>2, TokenKept
<1>5. CASE \E p \in Process : ReadUncertain(p)
  BY <1>5, TokenKept DEF ReadUncertain
<1>6. CASE \E p \in Process : Restart(p)
  BY <1>6, TokenKept DEF Restart, NoRefresh, NoConnect
<1>7. CASE PowerLoss
  BY <1>7, TokenKept DEF PowerLoss, NoRefresh, NoConnect
<1>8. CASE UNCHANGED vars
  BY <1>8, TokenKept DEF vars, storeVars
<1> QED BY <1>1, <1>2, <1>3, <1>4, <1>5, <1>6, <1>7, <1>8 DEF Next

\* A step that gives no session away keeps the session invariant.
LEMMA SessionKept ==
    ASSUME SessionInv, UNCHANGED <<begun, exchanges>>,
           \A q \in Process : pending'[q] \subseteq pending[q],
           \A q \in Process : connect'[q].at \in {"taken", "absent"} =>
              connect[q].at \in {"taken", "absent"} /\ connect'[q].session = connect[q].session
    PROVE  SessionInv'
BY DEF SessionInv, Holds

\* Every step keeps the session invariant: a session is begun once, a callback removes
\* what it takes, and a request gives it up.
LEMMA SessionStep == IInv /\ [Next]_vars => SessionInv'
<1> SUFFICES ASSUME IInv, [Next]_vars PROVE SessionInv'
  OBVIOUS
<1> USE DEF IInv, TypeOK
<1>1. CASE \E p \in Process : RefreshNext(p)
  <2>1. UNCHANGED <<begun, pending, connect, exchanges>>
    BY <1>1 DEF RefreshNext, RefreshUnchanged, sessionVars, ReadReady, BeginRefresh,
                BeginRefused, Grant, GrantFails, FinishRefresh, FinishRefused, FailRefresh
  <2> QED BY <2>1, SessionKept
<1>2. ASSUME NEW p \in Process, NEW s \in Session, BeginOAuth(p, s)
      PROVE  SessionInv'
  <2>1. /\ s \notin begun /\ begun' = begun \cup {s} /\ UNCHANGED <<connect, exchanges>>
        /\ pending' = [pending EXCEPT ![p] = (@ \ expired) \cup {s}]
    BY <1>2 DEF BeginOAuth
  <2>2. \A q \in Process : ~Holds(q, s)
    BY <2>1 DEF SessionInv
  <2>3. \A q \in Process, u \in Session : u # s => (Holds(q, u)' => Holds(q, u))
    BY <2>1 DEF Holds
  <2>4. \A q \in Process, u \in Session : u # s => (u \in pending'[q] => u \in pending[q])
    BY <2>1
  <2>5. \A q \in Process : Holds(q, s)' => q = p
    BY <2>1, <2>2 DEF Holds
  <2>6. \A q \in Process : ~(connect'[q].at \in {"taken", "absent"} /\ connect'[q].session = s)
    BY <2>1, <2>2 DEF Holds
  <2>7. exchanges[s] = 0
    BY <2>1 DEF SessionInv
  <2> QED BY <2>1, <2>3, <2>4, <2>5, <2>6, <2>7 DEF SessionInv
<1>3. ASSUME NEW p \in Process, NEW s \in Session, TakeSession(p, s)
      PROVE  SessionInv'
  <2>1. /\ s \in pending[p] /\ UNCHANGED <<begun, exchanges>>
        /\ pending' = [pending EXCEPT ![p] = @ \ {s}]
    BY <1>3 DEF TakeSession, Taken
  <2>2. CASE connect' = connect
    BY <2>1, <2>2, SessionKept
  <2>3. CASE connect' = [connect EXCEPT ![p] = [at |-> "taken", session |-> s, token |-> NoToken]]
    <3>1. \A q \in Process, u \in Session : Holds(q, u)' => Holds(q, u)
      BY <2>1, <2>3 DEF Holds
    <3>2. \A q \in Process, u \in Session :
             ~(u \in pending'[q] /\ connect'[q].at \in {"taken", "absent"}
                                 /\ connect'[q].session = u)
      BY <2>1, <2>3 DEF SessionInv
    <3> QED BY <2>1, <3>1, <3>2 DEF SessionInv
  <2> QED BY <1>3, <2>2, <2>3 DEF TakeSession
<1>4. ASSUME NEW p \in Process, Exchange(p)
      PROVE  SessionInv'
  <2> DEFINE s == connect[p].session
  <2>1. /\ s \in Session /\ connect[p].at = "absent" /\ UNCHANGED <<begun, pending>>
        /\ exchanges' = [exchanges EXCEPT ![s] = @ + 1]
    BY <1>4 DEF Exchange, ShapeInv, sessionVars
  <2>2. /\ connect'[p].at \notin {"taken", "absent"}
        /\ \A q \in Process : q # p => connect'[q] = connect[q]
    <3>1. CASE connect' = [connect EXCEPT ![p] = NoConnect]
      BY <3>1 DEF NoConnect
    <3>2. CASE connect' = [connect EXCEPT ![p].at = "exchanged", ![p].token = minted + 1]
      BY <3>2 DEF Connect
    <3> QED BY <1>4, <3>1, <3>2 DEF Exchange
  <2>3. Holds(p, s)
    BY <2>1 DEF Holds
  <2>4. \A q \in Process, u \in Session : Holds(q, u)' => Holds(q, u) /\ u # s
    BY <2>1, <2>2, <2>3 DEF Holds, SessionInv
  <2>5. s \in begun /\ exchanges[s] = 0
    BY <2>1, <2>3 DEF SessionInv
  <2>6. \A u \in Session : exchanges'[u] <= 1 /\ (u # s => exchanges'[u] = exchanges[u])
    BY <2>1, <2>5 DEF SessionInv
  <2>7. \A q \in Process, u \in Session :
           ~(u \in pending'[q] /\ connect'[q].at \in {"taken", "absent"}
                               /\ connect'[q].session = u)
    BY <2>1, <2>2 DEF SessionInv
  <2> HIDE DEF s
  <2> QED BY <2>1, <2>4, <2>5, <2>6, <2>7 DEF SessionInv
<1>5. ASSUME NEW p \in Process,
             (\E s \in Session : Expire(p, s)) \/ CheckAbsent(p) \/ ConnectFails(p) \/ Install(p)
      PROVE  SessionInv'
  <2>1. UNCHANGED <<begun, pending, exchanges>>
    BY <1>5 DEF Expire, CheckAbsent, ConnectFails, Install, sessionVars
  <2>2. \/ connect' = connect
        \/ connect' = [connect EXCEPT ![p] = NoConnect]
        \/ connect[p].at = "taken" /\ connect' = [connect EXCEPT ![p].at = "absent"]
    BY <1>5 DEF Expire, CheckAbsent, ConnectFails, Install
  <2>3. \A q \in Process : connect'[q].at \in {"taken", "absent"} =>
           connect[q].at \in {"taken", "absent"} /\ connect'[q].session = connect[q].session
    BY <2>2 DEF NoConnect, Connect
  <2> QED BY <2>1, <2>3, SessionKept
<1>6. CASE \E p \in Process : ConnectNext(p)
  <2>1. PICK p \in Process : ConnectNext(p)
    BY <1>6
  <2>2. \/ \E s \in Session : BeginOAuth(p, s)
        \/ \E s \in Session : TakeSession(p, s)
        \/ Exchange(p)
        \/ (\E s \in Session : Expire(p, s)) \/ CheckAbsent(p) \/ ConnectFails(p) \/ Install(p)
    BY <2>1 DEF ConnectNext
  <2>3. CASE \E s \in Session : BeginOAuth(p, s)
    BY <1>2, <2>3
  <2>4. CASE \E s \in Session : TakeSession(p, s)
    BY <1>3, <2>4
  <2>5. CASE (\E s \in Session : Expire(p, s)) \/ CheckAbsent(p) \/ ConnectFails(p) \/ Install(p)
    BY <1>5, <2>5
  <2>6. CASE Exchange(p)
    BY <1>4, <2>6
  <2> QED BY <2>2, <2>3, <2>4, <2>5, <2>6
<1>7. CASE \E p \in Process : ReadUncertain(p)
  BY <1>7, SessionKept DEF ReadUncertain, sessionVars
<1>8. CASE \E p \in Process : Restart(p)
  <2>1. PICK p \in Process : Restart(p)
    BY <1>8
  <2>2. /\ UNCHANGED <<begun, exchanges>>
        /\ \A q \in Process : pending'[q] \subseteq pending[q]
        /\ \A q \in Process : connect'[q].at \in {"taken", "absent"} => connect'[q] = connect[q]
    BY <2>1 DEF Restart, NoConnect
  <2> QED BY <2>2, SessionKept
<1>9. CASE PowerLoss
  BY <1>9, SessionKept DEF PowerLoss, NoConnect
<1>10. CASE UNCHANGED vars
  BY <1>10, SessionKept DEF vars, sessionVars
<1> QED BY <1>1, <1>6, <1>7, <1>8, <1>9, <1>10 DEF Next

--------------------------------------------------------------------------------
(* Theorems                                                                   *)

\* The invariant holds in every behaviour, however often processes end, writes fail and
\* the machine loses power.
THEOREM Inductive == Spec => []IInv
<1>1. IInv /\ [Next]_vars => IInv'
  BY TypeStep, ShapeStep, ClaimStep, GrantStep, TokenStep, SessionStep DEF IInv
<1> QED BY InvInit, <1>1, PTL DEF Spec

\* Records, claims and sessions keep their types: _write and _record never meet a record
\* without its token.
THEOREM TypeCorrect == Spec => []TypeOK
<1>1. IInv => TypeOK
  BY DEF IInv
<1> QED BY Inductive, <1>1, PTL

\* "There is no automatic refresh retry": begin_refresh lets one request leave under a
\* claim, in one process, and no crash or power loss lets it leave again.
THEOREM ClaimsAreGrantedOnce == Spec => []GrantedOnce
<1>1. IInv => GrantedOnce
  BY DEF IInv, GrantInv, GrantedOnce
<1> QED BY Inductive, <1>1, PTL

\* The record read_ready answers with, and any a power loss brings back, holds a refresh
\* token that the provider still takes.
THEOREM ReadyRecordsAreUsable == Spec => []ReadyIsUsable
<1>1. IInv => ReadyIsUsable
  BY DEF IInv, TokenInv, ReadyIsUsable
<1> QED BY Inductive, <1>1, PTL

\* finish_oauth exchanges the code of a session at most once.
THEOREM CodesAreExchangedOnce == Spec => []ExchangedOnce
<1>1. IInv => ExchangedOnce
  BY DEF IInv, SessionInv, ExchangedOnce
<1> QED BY Inductive, <1>1, PTL

\* install, begin_refresh and _complete write the generation after the one they read:
\* no record is overwritten, whatever happened since it was looked at.
THEOREM RecordsFollowEachOther == Spec => GenerationsAreConsecutive
<1>1. IInv /\ [Next]_vars =>
         [visible' # visible =>
             visible'.generation = visible.generation + 1 \/ visible' \in durable]_vars
  BY RecordMoves
<1> QED BY Inductive, <1>1, PTL DEF Spec, GenerationsAreConsecutive
==============================================================================
