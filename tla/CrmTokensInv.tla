---------------------------- MODULE CrmTokensInv ----------------------------
(***************************************************************************)
(* The inductive invariant behind the theorems of CrmTokensProofs, in      *)
(* parts.                                                                  *)
(***************************************************************************)
EXTENDS CrmTokens

\* what a refresh and an authorization have in hand at each of their steps
ShapeInv ==
    \A p \in Process :
        /\ refresh[p].at = "read" => refresh[p].generation \in Generation
        /\ refresh[p].at \in {"claimed", "granted", "failing"} =>
              refresh[p].generation \in Generation /\ refresh[p].token \in Token
        /\ refresh[p].at = "granted" => refresh[p].fresh \in Token
        /\ connect[p].at # "idle" => connect[p].session \in Session
        /\ connect[p].at = "exchanged" => connect[p].token \in Token

\* a process that may still use, complete or fail the claim it stored
Active(p) == \/ refresh[p].at \in {"claimed", "granted"}
             \/ refresh[p].at = "failing" /\ ~paused[p]

\* such a claim is the record, synced, and the only one
ClaimInv ==
    /\ visible \in durable
    /\ \A p \in Process : Active(p) =>
          /\ OwnClaim(p) /\ durable = {visible}
          /\ \A q \in Process : Active(q) => q = p

\* no record from before a used claim can come back, and a claim that waits is unused
GrantInv ==
    /\ \A g \in Generation :
          /\ grants[g] <= 1
          /\ grants[g] # 0 => \A r \in durable : r.generation >= g
    /\ \A p \in Process : refresh[p].at = "claimed" => grants[refresh[p].generation] = 0

\* a token is in one place: a record, a refresh, or an authorization
TokenInv ==
    /\ \A r \in durable : r.token <= minted /\ (r.state = "ready" => r.token \notin spent)
    /\ \A p \in Process : refresh[p].at = "granted" =>
          refresh[p].fresh <= minted /\ refresh[p].fresh \notin spent
    /\ \A p \in Process : connect[p].at = "exchanged" =>
          /\ connect[p].token <= minted /\ connect[p].token \notin spent
          /\ \A r \in durable : r.token # connect[p].token
          /\ \A q \in Process :
                /\ refresh[q].at = "granted" => refresh[q].fresh # connect[p].token
                /\ connect[q].at = "exchanged" /\ connect[q].token = connect[p].token => q = p

\* a callback holds its session from the moment it takes it until its request leaves
Holds(p, s) == s \in pending[p] \/ (connect[p].at \in {"taken", "absent"} /\ connect[p].session = s)

\* a session is held in one place, and unused while it is
SessionInv ==
    \A s \in Session :
        /\ exchanges[s] <= 1
        /\ s \notin begun => exchanges[s] = 0
        /\ \A p \in Process :
              /\ ~(s \in pending[p] /\ connect[p].at \in {"taken", "absent"}
                                    /\ connect[p].session = s)
              /\ Holds(p, s) => /\ s \in begun /\ exchanges[s] = 0
                                /\ \A q \in Process : Holds(q, s) => q = p

IInv == TypeOK /\ ShapeInv /\ ClaimInv /\ GrantInv /\ TokenInv /\ SessionInv
=============================================================================
