----------------------------- MODULE LedgerProofs -----------------------------
(***************************************************************************)
(* Theorems about Ledger for every catalogue of envelopes, every lookback  *)
(* and every bound.                                                        *)
(***************************************************************************)
EXTENDS LedgerInv, SequenceTheorems, FiniteFacts, TLAPS

--------------------------------------------------------------------------------
(* What a step is                                                             *)

\* A step that changes the ledger appends one accepted event.
LEMMA StepAppends ==
    ASSUME [Next]_vars
    PROVE  \/ UNCHANGED events
           \/ \E e : /\ events' = Append(events, e) /\ Accepts(e) /\ Maximum < MaxEvents
                     /\ e \in Submittable \/ e.kind = "attribution"
<1>1. CASE \E e \in Submittable : Produce(e)
  BY <1>1 DEF Produce, Ingest, Store
<1>2. CASE \E i \in Recorded("outcome", Maximum), c \in 1..Maximum,
              s \in Results \cup {NoId}, t \in Stamp : Attribution(events[i], c, s, t)
  <2>1. PICK i \in Recorded("outcome", Maximum), c \in 1..Maximum,
             s \in Results \cup {NoId}, t \in Stamp : Attribution(events[i], c, s, t)
    BY <1>2
  <2> DEFINE e == AttributionEnvelope(events[i], c, s, t)
  <2>2. events' = Append(events, e) /\ Accepts(e) /\ Maximum < MaxEvents
    BY <2>1 DEF Attribution, Ingest, Store
  <2>3. e.kind = "attribution"
    BY DEF AttributionEnvelope
  <2> QED BY <2>2, <2>3
<1>3. CASE UNCHANGED vars
  BY <1>3 DEF vars
<1> QED BY <1>1, <1>2, <1>3 DEF Next

\* An append keeps every place and adds one.
LEMMA Growth ==
    ASSUME TypeInv, NEW e, events' = Append(events, e)
    PROVE  /\ Maximum \in Nat /\ Maximum' = Maximum + 1
           /\ \A i \in 1..Maximum : events'[i] = events[i]
           /\ events'[Maximum + 1] = e
           /\ events' \in Seq({events'[i] : i \in 1..Maximum'})
<1> DEFINE S == {events[i] : i \in 1..Maximum} \cup {e}
           T == {events'[i] : i \in 1..Maximum'}
<1>1. events \in Seq(S)
  BY DEF TypeInv, Maximum
<1>2. e \in S
  OBVIOUS
<1>3. /\ events' \in Seq(S) /\ Len(events') = Len(events) + 1
      /\ \A i \in 1..Len(events) : events'[i] = events[i]
      /\ events'[Len(events) + 1] = e
  <2> HIDE DEF S
  <2> QED BY <1>1, <1>2, AppendProperties
<1>4. Maximum \in Nat /\ Maximum' = Maximum + 1
  <2> HIDE DEF S
  <2> QED BY <1>1, <1>3, LenProperties DEF Maximum
<1>5. events' \in Seq(T)
  <2>1. events' \in [1..Maximum' -> T] 
    <3>1. events' = [i \in 1..Maximum' |-> events'[i]]
      <4> HIDE DEF S
      <4> QED BY <1>3, LenProperties DEF Maximum
    <3> QED BY <3>1
  <2>2. Maximum' \in Nat
    BY <1>4
  <2> HIDE DEF T
  <2> QED BY <2>1, <2>2, SeqDef
<1> QED BY <1>3, <1>4, <1>5 DEF Maximum

\* A snapshot that both ledgers have in common.
Kept(c) == c \in Nat /\ \A i \in 1..c : events'[i] = events[i]

\* An append keeps every snapshot of the ledger it is made to.
LEMMA SnapshotsAreKept ==
    ASSUME TypeInv, NEW e, events' = Append(events, e), NEW c \in 0..Maximum
    PROVE  Kept(c)
<1>1. Maximum \in Nat /\ \A i \in 1..Maximum : events'[i] = events[i]
  BY Growth
<1>2. c \in Nat /\ c <= Maximum
  BY <1>1
<1>3. \A i \in 1..c : i \in 1..Maximum
  BY <1>1, <1>2
<1> QED BY <1>1, <1>2, <1>3 DEF Kept

\* What is found in it stays what it was.
LEMMA Prefix ==
    ASSUME NEW c, Kept(c), NEW kind, NEW id
    PROVE  /\ Recorded(kind, c)' = Recorded(kind, c)
           /\ Find(kind, id, c)' = Find(kind, id, c)
           /\ Recorded(kind, c) \subseteq 1..c /\ Find(kind, id, c) \subseteq 1..c
BY DEF Kept, Recorded, Find

--------------------------------------------------------------------------------
(* A result is a function of its snapshot                                     *)

\* The judgements of the policy read the events of the snapshot only.
LEMMA ProblemsAreStable ==
    ASSUME NEW c, Kept(c)
    PROVE  \A F : F \subseteq 1..c =>
              \A account, observed :
                 /\ ActionProblem(F, account, observed, c)' = ActionProblem(F, account, observed, c)
                 /\ DecisionProblem(F, account, observed)' = DecisionProblem(F, account, observed)
                 /\ MostRecent(F)' = MostRecent(F)
<1> SUFFICES ASSUME NEW F, F \subseteq 1..c, NEW account, NEW observed
             PROVE  /\ ActionProblem(F, account, observed, c)' = ActionProblem(F, account, observed, c)
                    /\ DecisionProblem(F, account, observed)' = DecisionProblem(F, account, observed)
                    /\ MostRecent(F)' = MostRecent(F)
  OBVIOUS
<1>1. \A i \in F : events'[i] = events[i]
  BY DEF Kept
<1>2. \A id : /\ Find("decision", id, c)' = Find("decision", id, c)
              /\ \A d \in Find("decision", id, c) : events'[d] = events[d]
  BY Prefix DEF Kept
<1>3. F # {} => (events[CHOOSE i \in F : TRUE])' = events[CHOOSE i \in F : TRUE]
  BY <1>1
<1>4. CASE F = {}
  BY <1>4 DEF ActionProblem, DecisionProblem, MostRecent, OK
<1>5. CASE F # {}
  <2>1. ActionProblem(F, account, observed, c)' = ActionProblem(F, account, observed, c)
    <3> DEFINE k == CHOOSE i \in F : TRUE
               Linked == \E d \in Find("decision", events[k].decision, c) :
                            events[d].account = account
               Problem(a, linked) ==
                  CASE a.account # account -> "other_account"
                    [] a.status = "failed" -> "failed"
                    [] ~linked -> "not_linked_to_decision"
                    [] ~(a.at < observed) -> "not_before_observation"
                    [] observed - a.at > Lookback -> "outside_lookback"
                    [] OTHER -> OK
    <3>1. events'[k] = events[k]
      BY <1>1, <1>5
    <3>2. Linked' = Linked
      BY <1>2, <3>1
    <3>3. ActionProblem(F, account, observed, c) = Problem(events[k], Linked)
      BY <1>5 DEF ActionProblem, OK
    <3>4. ActionProblem(F, account, observed, c)' = Problem(events'[k], Linked')
      BY <1>5 DEF ActionProblem, OK
    <3> QED BY <3>1, <3>2, <3>3, <3>4
  <2>2. DecisionProblem(F, account, observed)' = DecisionProblem(F, account, observed)
    BY <1>3, <1>5 DEF DecisionProblem, OK
  <2>3. MostRecent(F)' = MostRecent(F)
    BY <1>1 DEF MostRecent
  <2> QED BY <2>1, <2>2, <2>3
<1> QED BY <1>4, <1>5

\* An event that is no result is an envelope of the schema.
LEMMA EnvelopeOf ==
    ASSUME OriginInv, NEW i \in 1..Maximum, events[i].kind \notin CapturedKind \cup {"attribution"}
    PROVE  events[i] \in Submittable /\ WellFormed(events[i])
BY SubmittableAssumption DEF OriginInv

\* The tie break of the policy always finds an action.
LEMMA MostRecentIsEligible ==
    ASSUME TypeInv, OriginInv, NEW c \in 0..Maximum, Maximum \in Nat,
           NEW F, F \subseteq Recorded("action", c), F # {}
    PROVE  MostRecent(F) \in F
<1> DEFINE f == [i \in F |-> events[i].at]
<1>1. F \subseteq 1..c /\ c \in Nat /\ \A i \in F : i \in 1..Maximum /\ events[i].kind = "action"
  BY DEF Recorded
<1>2. \A i \in F : events[i].at \in Nat
  BY <1>1, EnvelopeOf DEF CapturedKind, WellFormed
<1>3. IsFiniteSet(F)
  <2>1. IsFiniteSet(1..c)
    BY <1>1, FS_Interval
  <2> QED BY <1>1, <2>1, FS_Subset
<1>4. PICK a \in F : \A b \in F : events[b].at <= events[a].at
  <2>1. f \in [F -> Nat]
    BY <1>2
  <2>2. PICK a \in F : \A b \in F : f[b] <= f[a]
    <3> HIDE DEF f
    <3> QED BY <1>3, <2>1, LargestValue
  <2> QED BY <2>2
<1> DEFINE B == {i \in F : events[i].at = events[a].at}
<1>5. PICK b \in B : \A i \in B : i <= b
  <2>1. a \in B
    OBVIOUS
  <2>2. B \subseteq 0..c
    <3>1. \A i \in F : i \in 0..c
      BY <1>1
    <3> QED BY <3>1
  <2> HIDE DEF B
  <2> QED BY <1>1, <2>1, <2>2, MaxOfBounded
<1>6. ASSUME NEW j \in F
      PROVE  \/ events[j].at < events[b].at
             \/ events[j].at = events[b].at /\ j <= b
  <2>1. b \in F /\ events[b].at = events[a].at
    OBVIOUS
  <2>2. events[j].at \in Nat /\ events[b].at \in Nat /\ events[j].at <= events[b].at
    BY <1>2, <1>4, <2>1
  <2>3. events[j].at = events[b].at => j <= b
    BY <1>5, <2>1
  <2> QED BY <2>2, <2>3
<1>7. b \in F
  OBVIOUS
<1> QED BY <1>6, <1>7 DEF MostRecent

\* attribute: the policy gives one result over all ledgers with the same snapshot.
LEMMA AttributeIsStable ==
    ASSUME TypeInv, OriginInv, Maximum \in Nat, NEW c \in 0..Maximum, Kept(c), NEW o
    PROVE  Attribute(o, c)' = Attribute(o, c)
<1>1. \A kind, id : /\ Recorded(kind, c)' = Recorded(kind, c)
                    /\ Find(kind, id, c)' = Find(kind, id, c)
                    /\ Recorded(kind, c) \subseteq 1..c /\ Find(kind, id, c) \subseteq 1..c
  BY Prefix
<1>2. \A i \in 1..c : events'[i] = events[i]
  BY DEF Kept
<1>3. \A F : F \subseteq 1..c =>
         \A account, observed :
            /\ ActionProblem(F, account, observed, c)' = ActionProblem(F, account, observed, c)
            /\ DecisionProblem(F, account, observed)' = DecisionProblem(F, account, observed)
            /\ MostRecent(F)' = MostRecent(F)
  BY ProblemsAreStable
<1>4. ClaimProblems(o, c)' = ClaimProblems(o, c)
  BY <1>1, <1>3 DEF ClaimProblems, OK
<1>5. Disagree(o, c)' = Disagree(o, c)
  BY <1>1, <1>2, <1>4 DEF Disagree, NoReasons, OK
<1>6. Direct(o, c)' = Direct(o, c)
  BY <1>4, <1>5 DEF Direct, NoReasons, OK
<1>7. Eligible(o, c)' = Eligible(o, c) /\ Eligible(o, c) \subseteq Recorded("action", c)
  <2>1. \A i \in Recorded("action", c) : {i} \subseteq 1..c
    BY <1>1
  <2>2. \A i \in Recorded("action", c) :
           /\ events'[i] = events[i]
           /\ ActionProblem({i}, o.account, o.at, c)' = ActionProblem({i}, o.account, o.at, c)
    BY <1>1, <1>2, <1>3, <2>1
  <2> QED BY <1>1, <2>2 DEF Eligible, OK
<1>8. DirectAction(o, c)' = DirectAction(o, c)
  BY <1>4 DEF DirectAction, OK
<1>9. ASSUME Direct(o, c) PROVE DirectDecision(o, c)' = DirectDecision(o, c)
  <2>1. CASE o.decision # NoId
    BY <2>1 DEF DirectDecision
  <2>2. CASE o.decision = NoId
    <3>1. Find("action", o.action, c) # {}
      BY <1>9, <2>2 DEF Direct, ClaimProblems, NoReasons, ActionProblem, OK
    <3>2. (events[CHOOSE i \in Find("action", o.action, c) : TRUE])'
             = events[CHOOSE i \in Find("action", o.action, c) : TRUE]
      BY <1>1, <1>2, <3>1
    <3> QED BY <2>2, <3>2 DEF DirectDecision
  <2> QED BY <2>1, <2>2
<1>10. ASSUME Eligible(o, c) # {}
       PROVE  (events[MostRecent(Eligible(o, c))])' = events[MostRecent(Eligible(o, c))]
  <2>1. MostRecent(Eligible(o, c)) \in 1..c
    BY <1>1, <1>7, <1>10, MostRecentIsEligible
  <2>2. MostRecent(Eligible(o, c))' = MostRecent(Eligible(o, c))
    BY <1>1, <1>3, <1>7
  <2> QED BY <1>2, <2>1, <2>2
<1> QED BY <1>4, <1>5, <1>6, <1>7, <1>8, <1>9, <1>10 DEF Attribute, Result

--------------------------------------------------------------------------------
(* What one append adds to the ledger                                         *)

\* The ledger had M events and has e after them.
Grown(e, M) ==
    /\ M \in Nat /\ Maximum = M /\ Maximum' = M + 1
    /\ events'[M + 1] = e
    /\ \A i \in 1..M : events'[i] = events[i]

\* The lemma above, with the old length at hand as a value.
LEMMA AppendGrows ==
    ASSUME TypeInv, NEW e, events' = Append(events, e), NEW M, M = Maximum
    PROVE  Grown(e, M)
BY Growth DEF Grown

\* The rows of a kind are those there were, and the new one if it is of the kind.
LEMMA NewRows ==
    ASSUME NEW e, NEW M, Grown(e, M), NEW kind
    PROVE  /\ Recorded(kind, Maximum)' = Recorded(kind, M + 1)'
           /\ Recorded(kind, M + 1)' =
                 Recorded(kind, M) \cup (IF e.kind = kind THEN {M + 1} ELSE {})
           /\ Recorded(kind, M) \subseteq 1..M
<1>1. 1..(M + 1) = 1..M \cup {M + 1}
  BY DEF Grown
<1> QED BY <1>1 DEF Grown, Recorded

\* What is in both ledgers is kept.
LEMMA GrownKeeps ==
    ASSUME NEW e, NEW M, Grown(e, M), NEW c \in 0..M
    PROVE  Kept(c)
BY DEF Grown, Kept

\* An event with an identity of its own that the collector accepts, or that is captured.
Admits(e) ==
    /\ \A i \in 1..Maximum : events[i].id # e.id
    /\ \/ References(e) /\ (e \in Submittable \/ e.kind = "attribution")
       \/ e.kind \in CapturedKind /\ e.id # NoId

\* It is an envelope of the schema unless it is a result or captured.
LEMMA AdmittedEnvelope ==
    ASSUME NEW e, Admits(e), e.kind \notin CapturedKind \cup {"attribution"}
    PROVE  e \in Submittable /\ WellFormed(e)
BY SubmittableAssumption DEF Admits

\* What the reference checks say of an event, per type.
LEMMA ReferencesOf ==
    ASSUME NEW e, Admits(e)
    PROVE  /\ e.kind = "attribution" => AttributionAgrees(e)
           /\ e.kind = "action" => DecisionReference(e)
           /\ e.kind = "outcome" /\ e.schema = 2 => OutcomeSupersession(e)
<1>1. ASSUME e.kind \in {"attribution", "action", "outcome"} PROVE References(e)
  BY <1>1 DEF Admits, CapturedKind
<1>2. CASE e.kind = "attribution"
  BY <1>1, <1>2 DEF References
<1>3. CASE e.kind = "action"
  BY <1>1, <1>3 DEF References
<1>4. CASE e.kind = "outcome" /\ e.schema = 2
  BY <1>1, <1>4 DEF References
<1> QED BY <1>2, <1>3, <1>4

\* The type and the origin of an accepted event.
LEMMA OriginIsKept ==
    ASSUME IInv, NEW e, NEW M, Grown(e, M), Admits(e), M < MaxEvents
    PROVE  OriginInv'
<1>1. ASSUME NEW i \in 1..M
      PROVE  \/ events'[i] \in Submittable
             \/ /\ events'[i].kind = "attribution" /\ events'[i].cutoff \in 1..(i - 1)
                /\ events'[i].id # NoId
             \/ events'[i].kind \in CapturedKind /\ events'[i].id # NoId
  BY <1>1 DEF Grown, IInv, OriginInv
<1>2. ASSUME e.kind = "attribution"
      PROVE  e.cutoff \in 1..M /\ e.id # NoId
  <2>1. AttributionAgrees(e)
    BY <1>2, ReferencesOf
  <2>2. PICK i \in Find("outcome", e.outcome, M) : e.cutoff \in 1..M
    BY <2>1 DEF AttributionAgrees, Grown
  <2>3. e.id = AttributionId(e.outcome, e.cutoff)
    BY <2>1 DEF AttributionAgrees
  <2>4. i \in 1..Maximum /\ events[i].kind = "outcome" /\ events[i].id = e.outcome
    BY <2>2 DEF Find, Recorded, Grown
  <2>5. events[i] \in Submittable
    BY <2>4, EnvelopeOf DEF IInv, CapturedKind
  <2>6. e.cutoff \in 1..MaxEvents
    BY <2>2, BoundsAssumption DEF Grown
  <2> QED BY <2>2, <2>3, <2>4, <2>5, <2>6, IdAssumption
<1>3. 1..Maximum' = 1..M \cup {M + 1} /\ (M + 1) - 1 = M /\ events'[M + 1] = e
  BY DEF Grown
<1>4. \/ e \in Submittable \/ e.kind = "attribution"
      \/ e.kind \in CapturedKind /\ e.id # NoId
  BY DEF Admits
<1> QED BY <1>1, <1>2, <1>3, <1>4 DEF OriginInv

\* Identities stay unique: an event with a known identity is no new event.
LEMMA IdsAreUnique ==
    ASSUME IInv, NEW e, NEW M, Grown(e, M), Admits(e)
    PROVE  IdInv'
<1>1. \A i \in 1..M : events[i].id # e.id
  BY DEF Admits, Grown
<1>2. 1..Maximum' = 1..M \cup {M + 1}
  BY DEF Grown
<1>3. IdInv /\ Maximum = M
  BY DEF IInv, Grown
<1>4. /\ \A i \in 1..M : events'[i] = events[i]
      /\ events'[M + 1] = e
  BY DEF Grown
<1> QED BY <1>1, <1>2, <1>3, <1>4 DEF IdInv

\* No event there is supersedes one that is yet to come.
LEMMA NothingSupersedesTheNew ==
    ASSUME IInv, NEW e, Admits(e), NEW i \in 1..Maximum,
           events[i].kind \in {"outcome", "attribution"}, e.id # NoId, Maximum \in Nat
    PROVE  events[i].supersedes # e.id
<1> SUFFICES ASSUME events[i].supersedes = e.id PROVE FALSE
  OBVIOUS
<1>1. PICK j \in 1..(i - 1) : events[j].id = e.id
  BY DEF IInv, SupersessionInv
<1>2. j \in 1..Maximum
  BY <1>1
<1> QED BY <1>1, <1>2 DEF Admits

\* What the new event supersedes, if anything, is among the events of its kind.
LEMMA SupersededIsRecorded ==
    ASSUME IInv, NEW e, NEW M, Grown(e, M), Admits(e),
           e.kind \in {"outcome", "attribution"}, e.supersedes # NoId
    PROVE  \E j \in 1..M : events[j].kind = e.kind /\ events[j].id = e.supersedes
<1>1. CASE e.kind = "outcome"
  <2>1. e.schema = 2
    BY <1>1, AdmittedEnvelope DEF WellFormed, OutcomePayload, CapturedKind
  <2>2. OutcomeSupersession(e)
    BY <1>1, <2>1, ReferencesOf
  <2> QED BY <1>1, <2>2 DEF OutcomeSupersession, Find, Recorded, Grown
<1>2. CASE e.kind = "attribution"
  <2>1. AttributionSupersession(e)
    BY <1>2, ReferencesOf DEF AttributionAgrees
  <2>2. PICK j \in Tips(e.outcome, M) : events[j].id = e.supersedes
    BY <2>1 DEF AttributionSupersession, Grown
  <2>3. j \in 1..M /\ events[j].kind = "attribution"
    BY <2>2 DEF Tips, Recorded
  <2> QED BY <1>2, <2>2, <2>3
<1> QED BY <1>1, <1>2

\* What an event supersedes was recorded before it, also of the new event.
LEMMA SupersessionIsKept ==
    ASSUME IInv, NEW e, NEW M, Grown(e, M), Admits(e)
    PROVE  SupersessionInv'
<1>1. 1..Maximum' = 1..M \cup {M + 1} /\ (M + 1) - 1 = M /\ events'[M + 1] = e /\ M \in Nat
  BY DEF Grown
<1>2. \A i \in 1..M : events'[i] = events[i]
  BY DEF Grown
<1>3. ASSUME NEW i \in 1..M, events'[i].kind \in {"outcome", "attribution"},
             events'[i].supersedes # NoId
      PROVE  \E j \in 1..(i - 1) : /\ events'[j].kind = events'[i].kind
                                   /\ events'[j].id = events'[i].supersedes
  <2>1. PICK j \in 1..(i - 1) : /\ events[j].kind = events[i].kind
                                /\ events[j].id = events[i].supersedes
    BY <1>2, <1>3 DEF IInv, SupersessionInv, Grown
  <2>2. j \in 1..M
    BY <1>1, <2>1
  <2> QED BY <1>2, <2>1, <2>2
<1>4. ASSUME e.kind \in {"outcome", "attribution"}, e.supersedes # NoId
      PROVE  \E j \in 1..M : events'[j].kind = e.kind /\ events'[j].id = e.supersedes
  BY <1>2, <1>4, SupersededIsRecorded
<1> QED BY <1>1, <1>3, <1>4 DEF SupersessionInv

\* _validate_decision_reference: the decision of an action is there when it is recorded.
LEMMA ActionsAreKept ==
    ASSUME IInv, NEW e, NEW M, Grown(e, M), Admits(e)
    PROVE  ActionInv'
<1>1. SUFFICES ASSUME NEW i \in 1..(M + 1), events'[i].kind = "action"
               PROVE  \E d \in 1..(i - 1) :
                         /\ events'[d].kind = "decision" /\ events'[d].id = events'[i].decision
                         /\ events'[d].account = events'[i].account
                         /\ events'[d].at <= events'[i].at
  <2>1. Maximum' = M + 1
    BY DEF Grown
  <2> QED BY <2>1 DEF ActionInv, Recorded, Find
<1>2. M \in Nat /\ Maximum = M /\ \A d \in 1..(i - 1) : events'[d] = events[d]
  BY DEF Grown
<1>3. PICK d \in 1..(i - 1) :
         /\ events[d].kind = "decision" /\ events[d].id = events'[i].decision
         /\ events[d].account = events'[i].account /\ events[d].at <= events'[i].at
  <2>1. CASE i \in 1..M
    <3>1. events'[i] = events[i] /\ i \in Recorded("action", Maximum)
      BY <1>1, <1>2, <2>1 DEF Grown, Recorded
    <3>2. PICK d \in Find("decision", events[i].decision, i - 1) :
             events[d].account = events[i].account /\ events[d].at <= events[i].at
      BY <3>1 DEF IInv, ActionInv
    <3> QED BY <3>1, <3>2 DEF Find, Recorded
  <2>2. CASE i = M + 1
    <3>1. events'[i] = e /\ e.kind = "action" /\ i - 1 = M
      BY <1>1, <1>2, <2>2 DEF Grown
    <3>2. DecisionReference(e)
      BY <3>1, ReferencesOf
    <3> QED BY <1>2, <3>1, <3>2 DEF DecisionReference, Find, Recorded
  <2> QED BY <1>2, <2>1, <2>2
<1> QED BY <1>2, <1>3

--------------------------------------------------------------------------------
(* Chains of outcomes                                                         *)

\* A correction names the newest version of its chain, in its own account.
LEMMA ChainsAreKept ==
    ASSUME IInv, NEW e, NEW M, Grown(e, M), Admits(e)
    PROVE  OutcomeChainsAreLinear'
<1>1. SUFFICES ASSUME NEW i \in 1..(M + 1), NEW j \in 1..(M + 1),
                      events'[i].kind = "outcome", events'[j].kind = "outcome",
                      events'[i].supersedes # NoId
               PROVE  /\ events'[i].supersedes = events'[j].supersedes => i = j
                      /\ events'[i].supersedes = events'[j].id =>
                            j < i /\ events'[i].account = events'[j].account
  <2>1. Maximum' = M + 1
    BY DEF Grown
  <2>2. \A j \in 1..(M + 1) : events'[j].kind = "outcome" => events'[j].id # NoId
    <3>1. \A j \in 1..M : events[j].kind = "outcome" => events[j].id # NoId
      BY EnvelopeOf DEF CapturedKind, IInv, WellFormed, Grown
    <3>2. e.kind = "outcome" => e.id # NoId
      BY AdmittedEnvelope DEF WellFormed, CapturedKind
    <3> QED BY <3>1, <3>2 DEF Grown
  <2> QED BY <2>1, <2>2 DEF OutcomeChainsAreLinear, Recorded
<1>2. /\ M \in Nat /\ Maximum = M /\ events'[M + 1] = e
      /\ \A k \in 1..M : events'[k] = events[k]
  BY DEF Grown
<1>3. CASE i \in 1..M /\ j \in 1..M
  <2>1. i \in Recorded("outcome", Maximum) /\ j \in Recorded("outcome", Maximum)
    BY <1>1, <1>2, <1>3 DEF Recorded
  <2> QED BY <1>1, <1>2, <1>3, <2>1 DEF IInv, OutcomeChainsAreLinear
<1>4. ASSUME e.kind = "outcome"
      PROVE  /\ e.id # NoId /\ \A k \in 1..M : events[k].id # e.id
             /\ \A k \in 1..M : events[k].kind = "outcome" => events[k].supersedes # e.id
  <2>1. e.id # NoId /\ \A k \in 1..M : events[k].id # e.id
    BY <1>2, <1>4, AdmittedEnvelope DEF WellFormed, CapturedKind, Admits
  <2> QED BY <1>2, <2>1, NothingSupersedesTheNew
<1>5. ASSUME e.kind = "outcome", e.supersedes # NoId
      PROVE  /\ \E k \in 1..M : events[k].id = e.supersedes /\ events[k].account = e.account
             /\ \A k \in 1..M : events[k].kind = "outcome" => events[k].supersedes # e.supersedes
  <2>1. e.schema = 2
    BY <1>5, AdmittedEnvelope DEF WellFormed, OutcomePayload, CapturedKind
  <2>2. OutcomeSupersession(e)
    BY <1>5, <2>1, ReferencesOf
  <2> QED BY <1>2, <1>5, <2>2 DEF OutcomeSupersession, Successors, Find, Recorded
<1>6. CASE i = M + 1 /\ j \in 1..M
  <2>1. /\ e.kind = "outcome" /\ e.supersedes # NoId /\ events'[i] = e
        /\ events'[j] = events[j] /\ events[j].kind = "outcome"
    BY <1>1, <1>2, <1>6
  <2>2. e.supersedes # events[j].supersedes
    BY <1>5, <1>6, <2>1
  <2>3. e.supersedes = events[j].id => e.account = events[j].account
    <3>1. PICK k \in 1..M : events[k].id = e.supersedes /\ events[k].account = e.account
      BY <1>5, <2>1
    <3>2. e.supersedes = events[j].id => k = j
      BY <1>2, <1>6, <3>1 DEF IInv, IdInv
    <3> QED BY <3>1, <3>2
  <2>4. j < i
    BY <1>2, <1>6
  <2> QED BY <2>1, <2>2, <2>3, <2>4
<1>7. CASE i \in 1..M /\ j = M + 1
  <2>1. /\ e.kind = "outcome" /\ events'[j] = e
        /\ events'[i] = events[i] /\ events[i].kind = "outcome"
    BY <1>1, <1>2, <1>7
  <2>2. events[i].supersedes # e.id
    BY <1>4, <1>7, <2>1
  <2>3. events[i].supersedes # e.supersedes
    BY <1>1, <1>5, <1>7, <2>1
  <2> QED BY <2>1, <2>2, <2>3
<1>8. CASE i = M + 1 /\ j = M + 1
  <2>1. e.kind = "outcome" /\ e.supersedes # NoId /\ events'[i] = e /\ events'[j] = e
    BY <1>1, <1>2, <1>8
  <2>2. e.supersedes # e.id
    BY <1>4, <1>5, <2>1
  <2> QED BY <1>8, <2>1, <2>2
<1> QED BY <1>1, <1>2, <1>3, <1>6, <1>7, <1>8

--------------------------------------------------------------------------------
(* Results                                                                    *)

\* The result that is selected in a snapshot stays the one.
LEMMA TipsAreKept ==
    ASSUME NEW c, Kept(c), NEW outcome
    PROVE  Tips(outcome, c)' = Tips(outcome, c)
BY DEF Kept, Tips, Recorded

\* A new result becomes the only one that nothing supersedes, of its version.
LEMMA OneTip ==
    ASSUME IInv, OriginInv', NEW e, NEW M, Grown(e, M), Admits(e), e.kind = "attribution"
    PROVE  Tips(e.outcome, M + 1)' = {M + 1}
<1> DEFINE Rows == {i \in 1..M : events[i].kind = "attribution" /\ events[i].outcome = e.outcome}
           T == {i \in Rows : \A j \in Rows : events[j].supersedes # events[i].id}
<1>1. /\ M \in Nat /\ Maximum = M /\ Maximum' = M + 1 /\ events'[M + 1] = e
      /\ \A i \in 1..M : events'[i] = events[i]
  BY DEF Grown
<1>2. Tips(e.outcome, M) = T
  BY DEF Tips, Recorded
<1>3. Tips(e.outcome, M + 1)' =
         {i \in Rows \cup {M + 1} :
            \A j \in Rows \cup {M + 1} : events'[j].supersedes # events'[i].id}
  <2>1. {i \in Recorded("attribution", M + 1)' : events'[i].outcome = e.outcome}
            = Rows \cup {M + 1}
    BY <1>1 DEF Recorded
  <2> QED BY <2>1 DEF Tips
<1>4. e.id # NoId /\ \A i \in 1..M : events[i].id # e.id
  <2>1. e \notin Submittable
    BY SubmittableAssumption DEF WellFormed
  <2>2. M + 1 \in 1..Maximum'
    BY <1>1
  <2> QED BY <1>1, <2>1, <2>2 DEF OriginInv, Admits, CapturedKind
<1>5. \A i \in Rows : events[i].supersedes # e.id
  BY <1>1, <1>4, NothingSupersedesTheNew
<1>6. AttributionSupersession(e)
  BY ReferencesOf DEF AttributionAgrees
<1>7. Rows # {} => \E t \in T : T = {t}
  <2>1. ASSUME NEW i \in Rows PROVE \E t \in T : T = {t}
    <3>1. i \in Recorded("attribution", M) /\ M \in 0..Maximum /\ events[i].outcome = e.outcome
      BY <1>1 DEF Recorded
    <3>2. \E t \in Tips(events[i].outcome, M) : Tips(events[i].outcome, M) = {t}
      <4> HIDE DEF Rows, T
      <4> QED BY <3>1 DEF IInv, OneEffectiveResult
    <3> HIDE DEF T
    <3> QED BY <1>2, <3>1, <3>2
  <2> QED BY <2>1
<1>8. CASE e.supersedes = NoId
  <2>1. Rows = {}
    BY <1>1, <1>2, <1>6, <1>7, <1>8 DEF AttributionSupersession
  <2> QED BY <1>1, <1>3, <1>4, <1>8, <2>1
<1>9. CASE e.supersedes # NoId
  <2>1. PICK t \in T : events[t].id = e.supersedes
    BY <1>1, <1>2, <1>6, <1>9 DEF AttributionSupersession
  <2>2. t \in Rows /\ T = {t}
    BY <1>7, <2>1
  <2>3. e.supersedes # e.id
    BY <1>4, <2>1, <2>2
  <2>4. ASSUME NEW i \in Rows, \A j \in Rows \cup {M + 1} : events'[j].supersedes # events'[i].id
        PROVE  FALSE
    <3>1. events'[i] = events[i] /\ \A j \in Rows : events'[j] = events[j]
      BY <1>1
    <3>2. i \in T
      BY <2>4, <3>1
    <3> QED BY <1>1, <2>1, <2>2, <2>4, <3>1, <3>2
  <2>5. \A j \in Rows \cup {M + 1} : events'[j].supersedes # events'[M + 1].id
    BY <1>1, <1>5, <2>3
  <2> HIDE DEF Rows
  <2> QED BY <1>3, <2>4, <2>5
<1> QED BY <1>8, <1>9

\* A recorded result was computed from a snapshot that is older than itself.
LEMMA CutoffIsEarlier ==
    ASSUME IInv, Maximum \in Nat, NEW i \in Recorded("attribution", Maximum)
    PROVE  i \in 1..Maximum /\ events[i].cutoff \in 1..(i - 1)
<1>1. i \in 1..Maximum /\ events[i].kind = "attribution"
  BY DEF Recorded
<1>2. events[i] \notin Submittable
  BY <1>1, SubmittableAssumption DEF WellFormed
<1> QED BY <1>1, <1>2 DEF IInv, OriginInv, CapturedKind

\* A result is admitted only from a newer snapshot than every other one of its version.
LEMMA NewestIsAdmitted ==
    ASSUME IInv, NEW e, Maximum \in Nat, Admits(e), e.kind = "attribution",
           NEW i \in Recorded("attribution", Maximum), events[i].outcome = e.outcome
    PROVE  events[i].cutoff < e.cutoff
<1>1. PICK t \in Tips(e.outcome, Maximum) :
         Tips(e.outcome, Maximum) = {t} /\ events[i].cutoff <= events[t].cutoff
  BY DEF IInv, OneEffectiveResult
<1>2. AttributionSupersession(e) /\ e.cutoff \in 1..Maximum
  BY ReferencesOf DEF AttributionAgrees
<1>3. events[t].cutoff < e.cutoff
  BY <1>1, <1>2 DEF AttributionSupersession
<1>4. t \in Recorded("attribution", Maximum)
  BY <1>1 DEF Tips
<1>5. events[i].cutoff \in Nat /\ events[t].cutoff \in Nat
  BY <1>4, CutoffIsEarlier
<1> QED BY <1>1, <1>2, <1>3, <1>5

\* effective_attribution: every snapshot of the longer ledger selects one result too.
LEMMA ResultsStaySelected ==
    ASSUME IInv, OriginInv', NEW e, NEW M, Grown(e, M), Admits(e)
    PROVE  OneEffectiveResult'
<1>1. /\ M \in Nat /\ Maximum = M /\ Maximum' = M + 1 /\ events'[M + 1] = e
      /\ \A i \in 1..M : events'[i] = events[i]
  BY DEF Grown
<1>2. SUFFICES ASSUME NEW c \in 0..(M + 1), NEW i \in 1..c, events'[i].kind = "attribution"
               PROVE  \E t \in Tips(events[i].outcome, c)' :
                         /\ Tips(events[i].outcome, c)' = {t}
                         /\ events'[i].cutoff <= events'[t].cutoff
  BY <1>1 DEF OneEffectiveResult, Recorded
<1>3. PICK x : x = events'[i].outcome
  OBVIOUS
<1>4. ASSUME NEW d \in 0..M, NEW j \in 1..d,
             events[j].kind = "attribution", events[j].outcome = x
      PROVE  \E t \in 1..d : Tips(x, d) = {t} /\ events[j].cutoff <= events[t].cutoff
  <2>1. j \in Recorded("attribution", d) /\ d \in 0..Maximum
    BY <1>1, <1>4 DEF Recorded
  <2>2. \E t \in Tips(x, d) : Tips(x, d) = {t} /\ events[j].cutoff <= events[t].cutoff
    BY <1>4, <2>1 DEF IInv, OneEffectiveResult
  <2> QED BY <2>2 DEF Tips, Recorded
<1>5. CASE c \in 0..M
  <2>1. Tips(x, c)' = Tips(x, c)
    BY <1>5, GrownKeeps, TipsAreKept
  <2>2. events'[i] = events[i]
    BY <1>1, <1>5
  <2>3. PICK t \in 1..c : Tips(x, c) = {t} /\ events[i].cutoff <= events[t].cutoff
    BY <1>2, <1>3, <1>4, <1>5, <2>2
  <2>4. events'[t] = events[t]
    BY <1>1, <1>5
  <2> QED BY <1>3, <2>1, <2>2, <2>3, <2>4
<1>6. CASE c = M + 1 /\ e.kind = "attribution" /\ e.outcome = x
  <2>1. Tips(x, c)' = {M + 1}
    BY <1>6, OneTip
  <2>2. events'[i].cutoff <= e.cutoff
    <3>1. CASE i = M + 1
      <4>1. e.cutoff \in Int
        BY <1>1, <1>6, ReferencesOf DEF AttributionAgrees
      <4> QED BY <1>1, <3>1, <4>1
    <3>2. CASE i # M + 1
      <4>1. /\ i \in Recorded("attribution", Maximum) /\ events'[i] = events[i]
            /\ events[i].outcome = e.outcome
        BY <1>1, <1>2, <1>3, <1>6, <3>2 DEF Recorded
      <4>2. events[i].cutoff < e.cutoff /\ events[i].cutoff \in Int /\ e.cutoff \in Int
        BY <1>1, <1>6, <4>1, NewestIsAdmitted, CutoffIsEarlier, ReferencesOf DEF AttributionAgrees
      <4> QED BY <4>1, <4>2
    <3> QED BY <3>1, <3>2
  <2> QED BY <1>1, <1>3, <2>1, <2>2
<1>7. CASE c = M + 1 /\ ~ (e.kind = "attribution" /\ e.outcome = x)
  <2>1. {j \in Recorded("attribution", M + 1)' : events'[j].outcome = x}
           = {j \in Recorded("attribution", M) : events[j].outcome = x}
    BY <1>1, <1>7 DEF Recorded
  <2>2. Tips(x, c)' = Tips(x, M)
    BY <1>1, <1>7, <2>1 DEF Tips, Recorded
  <2>3. i \in 1..M /\ events'[i] = events[i]
    BY <1>1, <1>2, <1>3, <1>7
  <2>4. PICK t \in 1..M : Tips(x, M) = {t} /\ events[i].cutoff <= events[t].cutoff
    BY <1>1, <1>2, <1>3, <1>4, <2>3
  <2>5. events'[t] = events[t]
    BY <1>1
  <2> QED BY <1>3, <2>2, <2>3, <2>4, <2>5
<1> QED BY <1>1, <1>5, <1>6, <1>7

\* A recorded result stays what the policy computes, and the new one is that.
LEMMA ResultsStayReproducible ==
    ASSUME IInv, NEW e, NEW M, Grown(e, M), Admits(e)
    PROVE  ResultsAreReproducible'
<1>1. /\ M \in Nat /\ Maximum = M /\ Maximum' = M + 1 /\ events'[M + 1] = e
      /\ \A i \in 1..M : events'[i] = events[i]
  BY DEF Grown
<1>2. ASSUME NEW i \in 1..(M + 1), events'[i].kind = "attribution"
      PROVE  \E o \in 1..events'[i].cutoff :
                /\ events'[o].kind = "outcome" /\ events'[o].id = events'[i].outcome
                /\ events'[i].cutoff < i
                /\ events'[i].result = Attribute(events[o], events[i].cutoff)'
  <2>1. PICK k : k = events'[i].cutoff
    OBVIOUS
  <2>2. PICK o \in 1..k : /\ k \in 1..(i - 1) /\ k \in 0..M
                          /\ events[o].kind = "outcome" /\ events[o].id = events'[i].outcome
                          /\ events'[i].result = Attribute(events[o], k)
    <3>1. CASE i \in 1..M
      <4>1. events'[i] = events[i] /\ i \in Recorded("attribution", Maximum)
        BY <1>1, <1>2, <3>1 DEF Recorded
      <4>2. PICK o \in Find("outcome", events[i].outcome, events[i].cutoff) :
               events[i].cutoff < i /\ events[i].result = Attribute(events[o], events[i].cutoff)
        BY <4>1 DEF IInv, ResultsAreReproducible
      <4>3. k = events[i].cutoff /\ k \in 1..(i - 1)
        <5>1. events[i] \notin Submittable
          BY <1>2, <4>1, SubmittableAssumption DEF WellFormed
        <5>2. events[i].cutoff \in 1..(i - 1)
          BY <1>1, <1>2, <3>1, <4>1, <5>1 DEF IInv, OriginInv, CapturedKind
        <5> QED BY <2>1, <4>1, <5>2
      <4>4. k \in 0..M
        BY <1>1, <3>1, <4>3
      <4>5. o \in 1..k /\ events[o].kind = "outcome" /\ events[o].id = events'[i].outcome
        BY <4>1, <4>2, <4>3 DEF Find, Recorded
      <4>6. events'[i].result = Attribute(events[o], k)
        BY <4>1, <4>2, <4>3
      <4> QED BY <4>3, <4>4, <4>5, <4>6
    <3>2. CASE i = M + 1
      <4>1. events'[i] = e /\ AttributionAgrees(e) /\ k = e.cutoff
        BY <1>1, <1>2, <2>1, <3>2, ReferencesOf
      <4>2. PICK o \in Find("outcome", e.outcome, Maximum) :
               e.cutoff \in 1..Maximum /\ o <= e.cutoff /\ e.result = Attribute(events[o], e.cutoff)
        BY <4>1 DEF AttributionAgrees
      <4> QED BY <1>1, <3>2, <4>1, <4>2 DEF Find, Recorded
    <3> QED BY <1>1, <3>1, <3>2
  <2>3. events'[o] = events[o] /\ o \in 1..events'[i].cutoff
    BY <1>1, <2>1, <2>2
  <2>4. PICK x : x = events[o]
    OBVIOUS
  <2>5. Attribute(x, k)' = Attribute(x, k)
    <3>1. Kept(k)
      BY <2>2, GrownKeeps
    <3> QED BY <1>1, <2>2, <3>1, AttributeIsStable DEF IInv
  <2>6. Attribute(events[o], events[i].cutoff)' = Attribute(x, k)'
    BY <2>1, <2>3, <2>4
  <2> QED BY <2>1, <2>2, <2>3, <2>4, <2>5, <2>6
<1> QED BY <1>1, <1>2 DEF ResultsAreReproducible, Find, Recorded

\* A step that leaves the ledger as it is leaves the results.
LEMMA StutterKeepsResults ==
    ASSUME IInv, UNCHANGED events
    PROVE  ResultsAreReproducible' /\ OneEffectiveResult'
<1>1. /\ Maximum \in Nat /\ Maximum' = Maximum /\ \A c \in Nat : Kept(c)
      /\ \A i : events'[i] = events[i]
  BY LenProperties DEF IInv, TypeInv, Maximum, Kept
<1>2. OneEffectiveResult'
  <2>1. SUFFICES ASSUME NEW c \in 0..Maximum, NEW i \in Recorded("attribution", c)
                 PROVE  \E t \in Tips(events[i].outcome, c)' :
                           /\ Tips(events[i].outcome, c)' = {t}
                           /\ events'[i].cutoff <= events'[t].cutoff
    BY <1>1 DEF OneEffectiveResult, Recorded
  <2>2. PICK x : x = events[i].outcome
    OBVIOUS
  <2>3. Tips(x, c)' = Tips(x, c)
    BY <1>1, TipsAreKept
  <2>4. \E t : Tips(x, c) = {t} /\ events[i].cutoff <= events[t].cutoff
    BY <2>1, <2>2 DEF IInv, OneEffectiveResult
  <2>5. Tips(events[i].outcome, c)' = Tips(x, c)' /\ \A j : events'[j] = events[j]
    BY <1>1, <2>2
  <2> QED BY <2>3, <2>4, <2>5
<1>3. ResultsAreReproducible'
  <2>1. SUFFICES ASSUME NEW i \in Recorded("attribution", Maximum)
                 PROVE  \E o \in Find("outcome", events[i].outcome, events[i].cutoff) :
                           /\ events[i].cutoff < i
                           /\ events[i].result = Attribute(events[o], events[i].cutoff)'
    BY <1>1 DEF ResultsAreReproducible, Find, Recorded
  <2>2. PICK o \in Find("outcome", events[i].outcome, events[i].cutoff) :
           events[i].cutoff < i /\ events[i].result = Attribute(events[o], events[i].cutoff)
    BY <2>1 DEF IInv, ResultsAreReproducible
  <2>3. PICK x, k : x = events[o] /\ k = events[i].cutoff
    OBVIOUS
  <2>4. k \in 0..Maximum
    <3>1. i \in 1..Maximum /\ events[i].kind = "attribution"
      BY <2>1 DEF Recorded
    <3>2. events[i] \notin Submittable
      BY <3>1, SubmittableAssumption DEF WellFormed
    <3>3. k \in 1..(i - 1)
      BY <2>3, <3>1, <3>2 DEF IInv, OriginInv, CapturedKind
    <3> QED BY <1>1, <3>1, <3>3
  <2>5. Attribute(x, k)' = Attribute(x, k)
    BY <1>1, <2>4, AttributeIsStable DEF IInv
  <2>6. Attribute(events[o], events[i].cutoff)' = Attribute(x, k)'
    BY <1>1, <2>3
  <2> QED BY <2>2, <2>3, <2>5, <2>6
<1> QED BY <1>2, <1>3

--------------------------------------------------------------------------------
(* What a result credits                                                      *)

\* An action that the policy accepts is of the account, from before the observation,
\* and linked to a decision of the account that was taken before it.
LEMMA UsableAction ==
    ASSUME IInv, Maximum \in Nat, NEW c \in 0..Maximum, NEW a \in Recorded("action", c),
           NEW F, F \subseteq {a}, NEW account, NEW observed \in Nat,
           ActionProblem(F, account, observed, c) = OK
    PROVE  /\ F = {a} /\ events[a].account = account /\ events[a].at < observed
           /\ observed - events[a].at <= Lookback
           /\ \E d \in Find("decision", events[a].decision, c) :
                 events[d].account = account /\ events[d].at < observed
<1>1. F = {a}
  BY DEF ActionProblem, OK
<1>2. (CHOOSE i \in F : TRUE) = a
  BY <1>1
<1>3. /\ events[a].account = account /\ events[a].at < observed
      /\ ~(observed - events[a].at > Lookback)
      /\ \E d \in Find("decision", events[a].decision, c) : events[d].account = account
  BY <1>1, <1>2 DEF ActionProblem, OK
<1>4. PICK d \in Find("decision", events[a].decision, c) : events[d].account = account
  BY <1>3
<1>5. a \in 1..Maximum /\ d \in 1..Maximum /\ a \in Recorded("action", Maximum)
  BY DEF Find, Recorded
<1>6. PICK k \in Find("decision", events[a].decision, a - 1) : events[k].at <= events[a].at
  BY <1>5 DEF IInv, ActionInv
<1>7. k \in 1..Maximum /\ events[k].id = events[d].id
  BY <1>5, <1>6 DEF Find, Recorded
<1>8. k = d
  BY <1>5, <1>7 DEF IInv, IdInv
<1>9. events[d].at \in Nat /\ events[a].at \in Nat
  <2>1. events[d].kind = "decision" /\ events[a].kind = "action"
    BY DEF Find, Recorded
  <2> QED BY <1>5, <2>1, EnvelopeOf DEF CapturedKind, IInv, WellFormed
<1>10. events[d].at < observed
  BY <1>3, <1>6, <1>8, <1>9
<1>11. observed - events[a].at <= Lookback
  BY <1>3, <1>9, BoundsAssumption
<1> QED BY <1>1, <1>3, <1>4, <1>10, <1>11

\* An action within reach, on a decision of the account, is one the policy may choose.
LEMMA ReachableIsEligible ==
    ASSUME NEW c, NEW o, o.at \in Int, NEW a \in Recorded("action", c), events[a].at \in Int,
           WithinReach(events[a], o), events[a].status # "failed",
           NEW d \in Find("decision", events[a].decision, c), events[d].account = o.account
    PROVE  a \in Eligible(o, c)
<1>1. /\ events[a].account = o.account /\ events[a].at < o.at
      /\ ~(o.at - events[a].at > Lookback)
  BY BoundsAssumption DEF WithinReach
<1>2. (CHOOSE i \in {a} : TRUE) = a
  OBVIOUS
<1>3. ActionProblem({a}, o.account, o.at, c) = OK
  BY <1>1, <1>2 DEF ActionProblem, OK
<1> QED BY <1>1, <1>3 DEF Eligible

\* attribute: what a result names is from before the observation, in its account.
LEMMA CreditedLooksBack ==
    ASSUME IInv, Maximum \in Nat, NEW c \in 0..Maximum, NEW o, o.at \in Nat,
           NEW r, r = Attribute(o, c)
    PROVE  /\ r.status # "unresolved" =>
                 \E d \in Find("decision", r.decision, c) :
                    events[d].at < o.at /\ events[d].account = o.account
           /\ r.action # NoId =>
                 \E a \in Find("action", r.action, c) :
                    WithinReach(events[a], o) /\ events[a].decision = r.decision
           /\ r.status = "unresolved" => Eligible(o, c) = {}
<1> DEFINE Decided(d) == d \in Find("decision", r.decision, c)
                            /\ events[d].at < o.at /\ events[d].account = o.account
           Acted(a) == /\ a \in Find("action", r.action, c)
                       /\ WithinReach(events[a], o) /\ events[a].decision = r.decision
<1>1. CASE Direct(o, c)
  <2>1. /\ r.status = "direct" /\ r.action = DirectAction(o, c)
        /\ r.decision = DirectDecision(o, c)
    BY <1>1 DEF Attribute, Result
  <2>2. /\ o.action # NoId \/ o.decision # NoId
        /\ o.action # NoId =>
              ActionProblem(Find("action", o.action, c), o.account, o.at, c) = OK
        /\ o.decision # NoId =>
              DecisionProblem(Find("decision", o.decision, c), o.account, o.at) = OK
        /\ r.action = o.action
    BY <1>1, <2>1 DEF Direct, DirectAction, ClaimProblems, NoReasons, OK
  <2>3. ASSUME o.action # NoId PROVE \E a : Acted(a) /\ \E d : Decided(d)
    <3>1. Find("action", o.action, c) # {}
      BY <2>2, <2>3 DEF ActionProblem, OK
    <3>2. PICK a : a \in Find("action", o.action, c)
      BY <3>1
    <3>3. a \in Recorded("action", c) /\ Find("action", o.action, c) \subseteq {a}
      <4>1. \A b \in Find("action", o.action, c) :
               b \in 1..Maximum /\ events[b].id = o.action /\ b \in Recorded("action", c)
        BY DEF Find, Recorded
      <4> QED BY <3>2, <4>1 DEF IInv, IdInv
    <3>4. /\ Find("action", o.action, c) = {a}
          /\ WithinReach(events[a], o)
          /\ \E d \in Find("decision", events[a].decision, c) :
                events[d].account = o.account /\ events[d].at < o.at
      BY <2>2, <2>3, <3>3, UsableAction DEF WithinReach
    <3>5. events[a].decision = r.decision
      <4>1. CASE o.decision = NoId
        BY <2>1, <3>4, <4>1 DEF DirectDecision
      <4>2. CASE o.decision # NoId
        BY <1>1, <2>1, <2>3, <3>2, <4>2 DEF DirectDecision, Direct, Disagree
      <4> QED BY <4>1, <4>2
    <3> QED BY <2>2, <3>2, <3>4, <3>5
  <2>4. ASSUME o.decision # NoId PROVE \E d : Decided(d)
    <3>1. DecisionProblem(Find("decision", o.decision, c), o.account, o.at) = OK
      BY <2>2, <2>4
    <3>2. Find("decision", o.decision, c) # {}
      BY <3>1 DEF DecisionProblem, OK
    <3>3. PICK d : d = CHOOSE i \in Find("decision", o.decision, c) : TRUE
      OBVIOUS
    <3>4. events[d].account = o.account /\ events[d].at < o.at
      BY <3>1, <3>2, <3>3 DEF DecisionProblem, OK
    <3>5. d \in Find("decision", o.decision, c) /\ r.decision = o.decision
      BY <2>1, <2>4, <3>2, <3>3 DEF DirectDecision
    <3> QED BY <3>4, <3>5
  <2> QED BY <2>1, <2>2, <2>3, <2>4
<1>2. CASE ~ Direct(o, c) /\ Eligible(o, c) # {}
  <2>1. PICK a : a = MostRecent(Eligible(o, c))
    OBVIOUS
  <2>2. a \in Eligible(o, c)
    <3>1. Eligible(o, c) \subseteq Recorded("action", c)
      BY DEF Eligible
    <3> QED BY <1>2, <2>1, <3>1, MostRecentIsEligible DEF IInv
  <2>3. a \in Recorded("action", c) /\ ActionProblem({a}, o.account, o.at, c) = OK
    BY <2>2 DEF Eligible
  <2>4. /\ WithinReach(events[a], o)
        /\ \E d \in Find("decision", events[a].decision, c) :
              events[d].account = o.account /\ events[d].at < o.at
    BY <2>3, UsableAction DEF WithinReach
  <2>5. r.action = events[a].id /\ r.decision = events[a].decision /\ r.status = "inferred"
    BY <1>2, <2>1 DEF Attribute, Result
  <2>6. a \in Find("action", r.action, c)
    BY <2>3, <2>5 DEF Find
  <2> QED BY <2>4, <2>5, <2>6
<1>3. CASE ~ Direct(o, c) /\ Eligible(o, c) = {}
  BY <1>3 DEF Attribute, Result
<1> QED BY <1>1, <1>2, <1>3

\* Credit goes backwards, and none is missed, in every state of the invariant.
LEMMA CreditFollows ==
    ASSUME IInv
    PROVE  CreditLooksBack
<1>1. Maximum \in Nat
  BY LenProperties DEF IInv, TypeInv, Maximum
<1>2. SUFFICES ASSUME NEW i \in Recorded("attribution", Maximum),
                      NEW o \in Find("outcome", events[i].outcome, Maximum),
                      NEW r, r = events[i].result, NEW c, c = events[i].cutoff
               PROVE  /\ r.status # "unresolved" =>
                            \E d \in Find("decision", r.decision, c) :
                               events[d].at < events[o].at /\ events[d].account = events[o].account
                      /\ r.action # NoId =>
                            \E a \in Find("action", r.action, c) :
                               WithinReach(events[a], events[o]) /\ events[a].decision = r.decision
                      /\ r.status = "unresolved" =>
                            \A a \in Recorded("action", c) :
                               WithinReach(events[a], events[o]) /\ events[a].status # "failed" =>
                                  ~\E d \in Find("decision", events[a].decision, c) :
                                      events[d].account = events[o].account
  BY DEF CreditLooksBack
<1>3. PICK p \in Find("outcome", events[i].outcome, c) : c < i /\ r = Attribute(events[p], c)
  BY <1>2 DEF IInv, ResultsAreReproducible
<1>4. c \in 1..(i - 1) /\ i \in 1..Maximum
  BY <1>1, <1>2, CutoffIsEarlier
<1>5. c \in 0..Maximum
  BY <1>1, <1>4
<1>6. p = o /\ events[o].at \in Nat
  <2>1. /\ p \in 1..Maximum /\ o \in 1..Maximum /\ events[p].id = events[o].id
        /\ events[o].kind = "outcome"
    BY <1>1, <1>3, <1>5 DEF Find, Recorded
  <2> QED BY <2>1, EnvelopeOf DEF CapturedKind, IInv, IdInv, WellFormed
<1>7. r = Attribute(events[o], c)
  BY <1>3, <1>6
<1>8. /\ r.status # "unresolved" =>
            \E d \in Find("decision", r.decision, c) :
               events[d].at < events[o].at /\ events[d].account = events[o].account
      /\ r.action # NoId =>
            \E a \in Find("action", r.action, c) :
               WithinReach(events[a], events[o]) /\ events[a].decision = r.decision
      /\ r.status = "unresolved" => Eligible(events[o], c) = {}
  BY <1>1, <1>5, <1>6, <1>7, CreditedLooksBack
<1>9. ASSUME NEW a \in Recorded("action", c) PROVE events[a].at \in Nat
  <2>1. a \in 1..Maximum /\ events[a].kind = "action"
    BY <1>1, <1>5, <1>9 DEF Recorded
  <2> QED BY <2>1, EnvelopeOf DEF CapturedKind, IInv, WellFormed
<1>10. ASSUME r.status = "unresolved", NEW a \in Recorded("action", c),
              WithinReach(events[a], events[o]), events[a].status # "failed",
              NEW d \in Find("decision", events[a].decision, c),
              events[d].account = events[o].account
       PROVE  FALSE
  <2>1. a \in Eligible(events[o], c)
    BY <1>6, <1>9, <1>10, ReachableIsEligible
  <2> QED BY <1>8, <1>10, <2>1
<1> QED BY <1>8, <1>10

--------------------------------------------------------------------------------
(* The theorems                                                               *)

\* The empty ledger satisfies the invariant.
LEMMA InvariantStarts ==
    ASSUME Init
    PROVE  IInv
<1>1. events = <<>> /\ Maximum = 0
  BY DEF Init, Maximum
<1>2. 1..Maximum = {} /\ \A kind : Recorded(kind, Maximum) = {}
  BY <1>1 DEF Recorded
<1>3. TypeInv
  BY <1>1, BoundsAssumption DEF TypeInv
<1>4. OneEffectiveResult
  <2>1. 0..Maximum = {0} /\ Recorded("attribution", 0) = {}
    BY <1>1 DEF Recorded
  <2> QED BY <2>1 DEF OneEffectiveResult
<1> QED BY <1>2, <1>3, <1>4 DEF IInv, OriginInv, IdInv, SupersessionInv, ActionInv,
           OutcomeChainsAreLinear, ResultsAreReproducible

\* An append keeps it.
LEMMA AppendKeepsInvariant ==
    ASSUME IInv, NEW e, events' = Append(events, e), Admits(e), Maximum < MaxEvents
    PROVE  IInv'
<1>1. PICK M : M = Maximum
  OBVIOUS
<1>2. Grown(e, M)
  BY <1>1, AppendGrows DEF IInv
<1>3. TypeInv'
  <2>1. Maximum \in Nat /\ Maximum' = Maximum + 1
        /\ events' \in Seq({events'[i] : i \in 1..Maximum'})
    BY Growth DEF IInv
  <2>2. Maximum' <= MaxEvents
    BY <2>1, BoundsAssumption
  <2> QED BY <2>1, <2>2 DEF TypeInv
<1>4. OriginInv'
  BY <1>1, <1>2, OriginIsKept
<1>5. IdInv' /\ SupersessionInv' /\ ActionInv' /\ OutcomeChainsAreLinear'
  BY <1>2, IdsAreUnique, SupersessionIsKept, ActionsAreKept, ChainsAreKept
<1>6. OneEffectiveResult' /\ ResultsAreReproducible'
  BY <1>2, <1>4, ResultsStaySelected, ResultsStayReproducible
<1> QED BY <1>3, <1>4, <1>5, <1>6 DEF IInv

\* So does every step.
LEMMA InvariantIsKept ==
    ASSUME IInv, [Next]_vars
    PROVE  IInv'
<1>1. CASE UNCHANGED events
  <2>1. ResultsAreReproducible' /\ OneEffectiveResult'
    BY <1>1, StutterKeepsResults
  <2> QED BY <1>1, <2>1 DEF IInv, TypeInv, OriginInv, IdInv, SupersessionInv, ActionInv,
             OutcomeChainsAreLinear, Maximum, Recorded, Find
<1>2. ASSUME NEW e, events' = Append(events, e), Accepts(e), Maximum < MaxEvents,
             e \in Submittable \/ e.kind = "attribution"
      PROVE  IInv'
  <2>1. Admits(e)
    BY <1>2 DEF Accepts, Admits
  <2> QED BY <1>2, <2>1, AppendKeepsInvariant
<1> QED BY <1>1, <1>2, StepAppends

\* Everything that the checks at ingest rely on is true at the start and after every append.
THEOREM LedgerInductive == Spec => []IInv
<1>1. Init => IInv
  BY InvariantStarts
<1>2. IInv /\ [Next]_vars => IInv'
  BY InvariantIsKept
<1> QED BY <1>1, <1>2, PTL DEF Spec

\* D-013: a correction of an outcome replaces one earlier version of its own account, and
\* no version is replaced twice, whatever envelopes are submitted in whatever order.
THEOREM ChainsAreLinear == Spec => []OutcomeChainsAreLinear
BY LedgerInductive, PTL DEF IInv

\* D-013: at every snapshot an outcome version that has results has one effective result.
THEOREM EffectiveResultIsUnique == Spec => []OneEffectiveResult
BY LedgerInductive, PTL DEF IInv

\* A recorded result is what the policy computes from the snapshot at its cutoff, however
\* the ledger has grown since.
THEOREM ResultsReproduce == Spec => []ResultsAreReproducible
BY LedgerInductive, PTL DEF IInv

\* A result credits a decision and an action of the outcome's account, from before it.
THEOREM CreditIsEarlier == Spec => []CreditLooksBack
BY LedgerInductive, CreditFollows, PTL
===============================================================================
