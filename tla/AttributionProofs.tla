--------------------------- MODULE AttributionProofs ---------------------------
(***************************************************************************)
(* Theorems about AttributionService for every catalogue of envelopes, any *)
(* runs of the command and any bounds: the command implements the ledger,  *)
(* and what it submits is refused only when it was overtaken.              *)
(***************************************************************************)
EXTENDS AttributionInv, LedgerProofs

--------------------------------------------------------------------------------
(* The walk along a chain of versions                                         *)

\* The one version that supersedes the event j by the cutoff.
After(j, cutoff) == CHOOSE k \in Successors(events[j].id, cutoff) : TRUE
Last(j, cutoff) == Successors(events[j].id, cutoff) = {}

\* What supersedes an event comes after it, and supersedes an outcome.
LEMMA ChainsGoOn ==
    ASSUME IInv, Maximum \in Nat, NEW c \in 0..Maximum, NEW j \in 1..c, ~ Last(j, c)
    PROVE  After(j, c) \in Recorded("outcome", c) /\ After(j, c) \in (j + 1)..c
<1> DEFINE k == After(j, c)
<1>1. k \in Successors(events[j].id, c)
  BY DEF Last, After
<1>2. k \in 1..c /\ events[k].kind = "outcome" /\ events[k].supersedes = events[j].id
  BY <1>1 DEF Successors, Recorded
<1> HIDE DEF k
<1>3. j \in 1..Maximum /\ k \in 1..Maximum
  BY <1>2
<1>4. events[j].id # NoId
  BY <1>3, SubmittableAssumption DEF IInv, OriginInv, WellFormed
<1>5. PICK i \in 1..(k - 1) : events[i].kind = "outcome" /\ events[i].id = events[k].supersedes
  BY <1>2, <1>3, <1>4 DEF IInv, SupersessionInv
<1>6. i = j
  BY <1>2, <1>3, <1>5 DEF IInv, IdInv
<1>7. k \in (j + 1)..c
  BY <1>2, <1>5, <1>6
<1> QED BY <1>2, <1>7 DEF k, Recorded

\* A function that walks along the chains from place n on.
Walks(f, n, c) == f = [j \in n..c |-> IF Last(j, c) THEN j ELSE f[After(j, c)]]

\* There is one from every place.
LEMMA WalkExists ==
    ASSUME IInv, Maximum \in Nat, NEW c \in 0..Maximum
    PROVE  \E f : Walks(f, 1, c)
<1> DEFINE T == {m \in 0..c : ~ \E f : Walks(f, c + 1 - m, c)}
<1>1. SUFFICES ASSUME T # {} PROVE FALSE
  <2>1. c \in 0..c /\ c + 1 - c = 1
    OBVIOUS
  <2> QED BY <2>1
<1>2. PICK m \in T : \A y \in T : m <= y
  <2>1. T \subseteq Nat
    OBVIOUS
  <2> HIDE DEF T
  <2> QED BY <1>1, <2>1, LeastElement
<1>3. m \in 0..c /\ ~ \E f : Walks(f, c + 1 - m, c)
  OBVIOUS
<1>4. CASE m = 0
  <2> DEFINE f == [j \in {} |-> j]
  <2>1. (c + 1 - m)..c = {}
    BY <1>4
  <2>2. Walks(f, c + 1 - m, c)
    BY <2>1 DEF Walks
  <2> QED BY <1>3, <2>2
<1>5. CASE m # 0
  <2> DEFINE n == c + 1 - m
  <2>1. m - 1 \in 0..c /\ m - 1 \notin T /\ n \in 1..c /\ c + 1 - (m - 1) = n + 1
    BY <1>2, <1>3, <1>5
  <2>2. PICK f : Walks(f, n + 1, c)
    BY <2>1
  <2> DEFINE g == [j \in n..c |-> IF Last(j, c) THEN j ELSE f[After(j, c)]]
  <2> HIDE DEF n
  <2>3. ASSUME NEW j \in (n + 1)..c PROVE g[j] = f[j]
    <3>1. f[j] = IF Last(j, c) THEN j ELSE f[After(j, c)]
      BY <2>2, Zenon DEF Walks
    <3>2. j \in n..c
      BY <2>1
    <3> QED BY <3>1, <3>2
  <2>4. ASSUME NEW j \in n..c, ~ Last(j, c) PROVE g[After(j, c)] = f[After(j, c)]
    <3>1. j \in 1..c
      BY <2>1
    <3>2. After(j, c) \in (j + 1)..c
      BY <2>4, <3>1, ChainsGoOn
    <3>3. After(j, c) \in (n + 1)..c
      BY <2>1, <3>2
    <3> QED BY <2>3, <3>3
  <2>5. Walks(g, n, c)
    BY <2>4 DEF Walks
  <2> QED BY <1>3, <2>5 DEF n
<1> QED BY <1>4, <1>5

\* The walk from a version of an outcome ends at a version that nothing supersedes.
LEMMA EffectiveIsLast ==
    ASSUME IInv, Maximum \in Nat, NEW c \in 0..Maximum, NEW i \in Recorded("outcome", c)
    PROVE  /\ EffectiveVersion(i, c) \in Recorded("outcome", c)
           /\ Successors(events[EffectiveVersion(i, c)].id, c) = {}
<1> DEFINE f == CHOOSE g : Walks(g, 1, c)
<1>1. Walks(f, 1, c)
  BY WalkExists
<1>2. EffectiveVersion(i, c) = f[i]
  BY DEF EffectiveVersion, Walks, Last, After
<1> HIDE DEF f
<1>3. \A j \in 1..c : f[j] = IF Last(j, c) THEN j ELSE f[After(j, c)]
  BY <1>1, Zenon DEF Walks
<1> DEFINE Ends(j) == f[j] \in Recorded("outcome", c) /\ Last(f[j], c)
           T == {m \in 0..c : c - m \in Recorded("outcome", c) /\ ~ Ends(c - m)}
<1>4. T = {}
  <2>1. SUFFICES ASSUME T # {} PROVE FALSE
    OBVIOUS
  <2>2. PICK m \in T : \A y \in T : m <= y
    <3>1. T \subseteq Nat
      OBVIOUS
    <3> HIDE DEF T
    <3> QED BY <2>1, <3>1, LeastElement
  <2>3. PICK j \in 1..c : j = c - m /\ j \in Recorded("outcome", c) /\ ~ Ends(j) /\ m \in 0..c
    <3>1. c - m \in 1..c
      BY DEF Recorded
    <3> QED BY <3>1
  <2> HIDE DEF T
  <2>4. CASE Last(j, c)
    BY <1>3, <2>3, <2>4
  <2>5. CASE ~ Last(j, c)
    <3> DEFINE k == After(j, c)
    <3>1. k \in Recorded("outcome", c) /\ k \in (j + 1)..c
      BY <2>5, ChainsGoOn
    <3>2. f[j] = f[k]
      BY <1>3, <2>5
    <3> HIDE DEF k
    <3>3. ~ Ends(k)
      BY <2>3, <3>2
    <3>4. c - k \in 0..c /\ c - (c - k) = k /\ c - k < m
      BY <2>3, <3>1
    <3>5. c - k \in T
      BY <3>1, <3>3, <3>4 DEF T
    <3> QED BY <2>2, <2>3, <3>4, <3>5
  <2> QED BY <2>4, <2>5
<1>5. i \in 1..c
  BY DEF Recorded
<1>6. c - i \in 0..c /\ c - (c - i) = i
  BY <1>5
<1>7. Ends(i)
  BY <1>4, <1>6
<1> QED BY <1>2, <1>7 DEF Last

--------------------------------------------------------------------------------
(* Envelopes of results are steps of the ledger                               *)

\* The parts of an envelope of a result.
LEMMA EnvelopeParts ==
    ASSUME NEW o, NEW c, NEW s, NEW t
    PROVE  LET e == AttributionEnvelope(o, c, s, t)
           IN  /\ e.kind = "attribution" /\ e.id = AttributionId(o.id, c) /\ e.account = o.account
               /\ e.outcome = o.id /\ e.cutoff = c /\ e.supersedes = s /\ e.result = Attribute(o, c)
BY DEF AttributionEnvelope

\* What is collected of a result is an attribution of the ledger, or nothing.
LEMMA CollectIsAStep ==
    ASSUME NEW e \in Envelopes, Collect(e)
    PROVE  [Next]_vars
<1>1. CASE Answer(e) = "created"
  <2>1. Room /\ Store(e)
    BY <1>1 DEF Collect
  <2>2. Accepts(e)
    BY <1>1 DEF Answer
  <2>3. PICK x \in Recorded("outcome", Maximum) \X (1..Maximum) \X (Results \cup {NoId}) \X Stamp :
               e = AttributionEnvelope(events[x[1]], x[2], x[3], x[4])
    BY DEF Envelopes
  <2>4. Attribution(events[x[1]], x[2], x[3], x[4])
    BY <2>1, <2>2, <2>3 DEF Attribution, Ingest, Room
  <2>5. /\ x[1] \in Recorded("outcome", Maximum) /\ x[2] \in 1..Maximum
        /\ x[3] \in Results \cup {NoId} /\ x[4] \in Stamp
    BY <2>3
  <2> QED BY <2>4, <2>5 DEF Next
<1>2. CASE Answer(e) # "created"
  BY <1>2 DEF Collect, vars
<1> QED BY <1>1, <1>2

\* What is built from a snapshot is one of them.
LEMMA BuiltIsAnEnvelope ==
    ASSUME Maximum \in Nat, NEW c \in 1..Maximum, NEW i \in 1..c, NEW e, BuiltFrom(e, i, c)
    PROVE  e \in Envelopes
<1>1. i \in Recorded("outcome", Maximum)
  BY DEF BuiltFrom, Recorded
<1>2. PICK s \in {events[t].id : t \in Tips(events[i].id, c)} \cup {NoId}, t \in Stamp :
             e = AttributionEnvelope(events[i], c, s, t)
  BY DEF BuiltFrom
<1>3. s \in Results \cup {NoId}
  BY DEF Tips, Recorded, Results
<1> DEFINE x == <<i, c, s, t>>
<1>4. x \in Recorded("outcome", Maximum) \X (1..Maximum) \X (Results \cup {NoId}) \X Stamp
  BY <1>1, <1>3
<1>5. e = AttributionEnvelope(events[x[1]], x[2], x[3], x[4])
  BY <1>2
<1> HIDE DEF x
<1> QED BY <1>4, <1>5 DEF Envelopes

\* An envelope in flight was.
LEMMA SentIsAnEnvelope ==
    ASSUME IInv, TypeOK, RunInv, NEW r \in Run, run[r].at = "send"
    PROVE  run[r].envelope \in Envelopes
<1>1. Maximum \in Nat /\ run[r] \in RunRecord
  BY LenProperties DEF IInv, TypeInv, Maximum, TypeOK
<1>2. run[r].cutoff \in 1..Maximum
  BY <1>1 DEF RunInv, Sound, RunRecord
<1>3. PICK i \in 1..run[r].cutoff : BuiltFrom(run[r].envelope, i, run[r].cutoff)
  BY DEF RunInv, Sound
<1> QED BY <1>1, <1>2, <1>3, BuiltIsAnEnvelope

\* Every step of the command is a step of the ledger, or none.
LEMMA ServiceStepIsALedgerStep ==
    ASSUME SInv, [ServiceNext]_serviceVars
    PROVE  [Next]_vars
<1>1. ASSUME NEW e \in Submittable, ServiceProduce(e) PROVE [Next]_vars
  BY <1>1 DEF ServiceProduce, Next
<1>2. ASSUME NEW r \in Run, NEW b \in BOOLEAN, RunStart(r, b) PROVE [Next]_vars
  BY <1>2 DEF RunStart, vars
<1>3. ASSUME NEW r \in Run, RunMoves(r) PROVE [Next]_vars
  <2>1. CASE RunAnswered(r)
    <3>1. run[r].at = "send" /\ Collect(run[r].envelope)
      BY <2>1 DEF RunAnswered
    <3> QED BY <3>1, SentIsAnEnvelope, CollectIsAStep DEF SInv
  <2>2. ASSUME NEW i \in 1..Maximum, RunSkip(r, i) \/ RunBuild(r, i) PROVE [Next]_vars
    BY <2>2 DEF RunSkip, RunBuild, vars
  <2> QED BY <1>3, <2>1, <2>2 DEF RunMoves
<1>4. ASSUME NEW r \in Run, RunLost(r) PROVE [Next]_vars
  <2>1. run[r].at = "send" /\ (Collect(run[r].envelope) \/ UNCHANGED vars)
    BY <1>4 DEF RunLost, vars
  <2> QED BY <2>1, SentIsAnEnvelope, CollectIsAStep DEF SInv
<1>5. ASSUME NEW r \in Run, RunCrash(r) PROVE [Next]_vars
  BY <1>5 DEF RunCrash, vars
<1>6. ASSUME NEW e \in held, Resubmit(e) PROVE [Next]_vars
  <2>1. e \in Envelopes
    BY DEF SInv, TypeOK
  <2> QED BY <1>6, <2>1, CollectIsAStep DEF Resubmit
<1>7. CASE UNCHANGED serviceVars
  BY <1>7 DEF serviceVars, vars
<1> QED BY <1>1, <1>2, <1>3, <1>4, <1>5, <1>6, <1>7 DEF ServiceNext

--------------------------------------------------------------------------------
(* What a step of the ledger keeps                                            *)

\* After a step, whatever the snapshot holds is as it was.
LEMMA StepKeepsSnapshots ==
    ASSUME IInv, [Next]_vars
    PROVE  /\ Maximum \in Nat /\ Maximum' \in Nat /\ Maximum <= Maximum'
           /\ \A c \in 0..Maximum : Kept(c)
<1>1. Maximum \in Nat
  BY LenProperties DEF IInv, TypeInv, Maximum
<1>2. CASE UNCHANGED events
  BY <1>1, <1>2 DEF Maximum, Kept
<1>3. ASSUME NEW e, events' = Append(events, e)
      PROVE  /\ Maximum' \in Nat /\ Maximum <= Maximum'
             /\ \A c \in 0..Maximum : Kept(c)
  <2>1. Maximum' = Maximum + 1
    BY <1>3, Growth DEF IInv
  <2>2. \A c \in 0..Maximum : Kept(c)
    BY <1>3, SnapshotsAreKept DEF IInv
  <2> QED BY <1>1, <2>1, <2>2
<1> QED BY <1>1, <1>2, <1>3, StepAppends

\* The identities of the results, and the envelopes, only become more.
LEMMA EnvelopesGrow ==
    ASSUME IInv, [Next]_vars
    PROVE  Results \subseteq Results' /\ Envelopes \subseteq Envelopes'
<1>1. /\ Maximum \in Nat /\ Maximum' \in Nat /\ Maximum <= Maximum'
      /\ \A c \in 0..Maximum : Kept(c)
  BY StepKeepsSnapshots
<1>2. \A i \in 1..Maximum : i \in 1..Maximum' /\ events'[i] = events[i]
  <2>1. Kept(Maximum)
    BY <1>1
  <2> QED BY <1>1, <2>1 DEF Kept
<1>3. \A kind : Recorded(kind, Maximum) \subseteq Recorded(kind, Maximum)'
  BY <1>2 DEF Recorded
<1>4. Results \subseteq Results'
  BY <1>2, <1>3 DEF Results, Recorded
<1>5. ASSUME NEW x \in Recorded("outcome", Maximum) \X (1..Maximum) \X (Results \cup {NoId}) \X Stamp
      PROVE  AttributionEnvelope(events[x[1]], x[2], x[3], x[4]) \in Envelopes'
  <2>1. x[1] \in 1..Maximum /\ x[2] \in 1..Maximum
    BY DEF Recorded
  <2>2. \A o : Attribute(o, x[2])' = Attribute(o, x[2])
    <3>1. Kept(x[2]) /\ x[2] \in 0..Maximum
      BY <1>1, <2>1
    <3> QED BY <1>1, <3>1, AttributeIsStable DEF IInv
  <2>3. events'[x[1]] = events[x[1]]
    BY <1>2, <2>1
  <2>4. AttributionEnvelope(events[x[1]], x[2], x[3], x[4])
          = AttributionEnvelope(events[x[1]], x[2], x[3], x[4])'
    BY <2>2, <2>3 DEF AttributionEnvelope
  <2>5. x \in (Recorded("outcome", Maximum) \X (1..Maximum) \X (Results \cup {NoId}) \X Stamp)'
    BY <1>2, <1>3, <1>4, <2>1
  <2> QED BY <2>4, <2>5 DEF Envelopes
<1> QED BY <1>4, <1>5 DEF Envelopes

\* An envelope stays the result of the version, at the snapshot, that it was built from.
LEMMA BuiltStaysBuilt ==
    ASSUME IInv, [Next]_vars, NEW e, NEW c \in 0..Maximum, NEW i \in 1..c, BuiltFrom(e, i, c)
    PROVE  BuiltFrom(e, i, c)'
<1>1. Maximum \in Nat /\ Kept(c)
  BY StepKeepsSnapshots
<1>2. \A o : Attribute(o, c)' = Attribute(o, c)
  BY <1>1, AttributeIsStable DEF IInv
<1>3. events'[i] = events[i]
  BY <1>1 DEF Kept
<1>4. \A o : Tips(o, c)' = Tips(o, c)
  BY <1>1, TipsAreKept
<1>5. /\ Recorded("outcome", c)' = Recorded("outcome", c)
      /\ \A o : Successors(o, c)' = Successors(o, c)
  BY <1>1 DEF Kept, Recorded, Successors
<1>6. \A o : \A t \in Tips(o, c) : events'[t] = events[t]
  BY <1>1 DEF Kept, Tips, Recorded
<1>7. \A s, t : AttributionEnvelope(events[i], c, s, t)' = AttributionEnvelope(events[i], c, s, t)
  BY <1>2, <1>3 DEF AttributionEnvelope
<1>8. i \in Recorded("outcome", c)' /\ (Successors(events[i].id, c) = {})'
  BY <1>3, <1>5 DEF BuiltFrom
<1>9. Tips(events[i].id, c)' = Tips(events[i].id, c)
      /\ {events[t].id : t \in Tips(events[i].id, c)}' = {events[t].id : t \in Tips(events[i].id, c)}
  BY <1>3, <1>4, <1>6
<1> QED BY <1>7, <1>8, <1>9 DEF BuiltFrom

\* Accounts are discovered before anything is recorded of them, and results carry the
\* identity of their operation.
LEMMA OriginsAreKept ==
    ASSUME IInv, AccountInv, DerivedInv, [Next]_vars
    PROVE  AccountInv' /\ DerivedInv'
<1>1. CASE UNCHANGED events
  BY <1>1 DEF AccountInv, DerivedInv, Maximum, Recorded
<1>2. ASSUME NEW e, events' = Append(events, e), Accepts(e),
             e \in Submittable \/ e.kind = "attribution"
      PROVE  AccountInv' /\ DerivedInv'
  <2>1. /\ Maximum \in Nat /\ Maximum' = Maximum + 1
        /\ \A i \in 1..Maximum : events'[i] = events[i]
        /\ events'[Maximum + 1] = e
    BY <1>2, Growth DEF IInv
  <2>2. PICK M : M = Maximum
    OBVIOUS
  <2>3. AccountInv'
    <3>1. SUFFICES ASSUME NEW i \in 1..(M + 1), events'[i].kind # "artifact"
                   PROVE  \E j \in 1..i : /\ events'[j].kind = "account"
                                          /\ events'[j].account = events'[i].account
      BY <2>1, <2>2 DEF AccountInv, Recorded
    <3>2. CASE i \in 1..M
      <4>1. PICK j \in 1..i : events[j].kind = "account" /\ events[j].account = events[i].account
        BY <2>1, <2>2, <3>1, <3>2 DEF AccountInv, Recorded
      <4>2. j \in 1..M
        BY <2>1, <2>2, <3>2
      <4> QED BY <2>1, <2>2, <3>2, <4>1, <4>2
    <3>3. CASE i = M + 1
      <4>1. events'[i] = e
        BY <2>1, <2>2, <3>3
      <4>2. CASE e.kind = "account"
        BY <2>1, <2>2, <3>3, <4>1, <4>2
      <4>3. CASE e.kind # "account"
        <5>1. PICK j \in Recorded("account", Maximum) : events[j].account = e.account
          BY <1>2, <3>1, <4>1, <4>3 DEF Accepts, AccountRules
        <5>2. j \in 1..M /\ events[j].kind = "account"
          BY <2>2, <5>1 DEF Recorded
        <5>3. j \in 1..i
          BY <2>1, <2>2, <3>3, <5>2
        <5> QED BY <2>1, <2>2, <4>1, <5>1, <5>2, <5>3
      <4> QED BY <4>2, <4>3
    <3> QED BY <2>1, <2>2, <3>2, <3>3
  <2>4. DerivedInv'
    <3>1. SUFFICES ASSUME NEW i \in 1..(M + 1), events'[i] \notin Submittable
                   PROVE  /\ events'[i].kind = "attribution"
                          /\ events'[i].id = AttributionId(events'[i].outcome, events'[i].cutoff)
      BY <2>1, <2>2 DEF DerivedInv, AttributionId
    <3>2. CASE i \in 1..M
      BY <2>1, <2>2, <3>1, <3>2 DEF DerivedInv
    <3>3. CASE i = M + 1
      <4>1. events'[i] = e /\ e.kind = "attribution" /\ Admits(e)
        BY <1>2, <2>1, <2>2, <3>1, <3>3 DEF Accepts, Admits
      <4>2. AttributionAgrees(e)
        BY <4>1, ReferencesOf
      <4> QED BY <4>1, <4>2 DEF AttributionAgrees
    <3> QED BY <2>1, <2>2, <3>2, <3>3
  <2> QED BY <2>3, <2>4
<1> QED BY <1>1, <1>2, StepAppends

--------------------------------------------------------------------------------
(* What a step of the command keeps                                           *)

\* A run that goes on with the same snapshot and the same envelope stays sound.
LEMMA RunStays ==
    ASSUME IInv, TypeOK, RunInv, [Next]_vars, NEW r \in Run, NEW n \in Nat,
           run'[r] = run[r] \/ run'[r] = [run[r] EXCEPT !.tries = n]
    PROVE  run'[r] \in RunRecord' /\ Sound(r)'
<1>1. /\ Maximum \in Nat /\ Maximum' \in Nat /\ Maximum <= Maximum'
      /\ \A c \in 0..Maximum : Kept(c)
  BY StepKeepsSnapshots
<1>2. run[r] \in RunRecord /\ Sound(r)
  BY DEF TypeOK, RunInv
<1>3. /\ run'[r].at = run[r].at /\ run'[r].cutoff = run[r].cutoff
      /\ run'[r].todo = run[r].todo /\ run'[r].envelope = run[r].envelope
  BY <1>2 DEF RunRecord
<1>4. Envelopes \subseteq Envelopes'
  BY EnvelopesGrow
<1>5. RunRecord \subseteq RunRecord'
  <2>1. 0..Maximum \subseteq (0..Maximum)' /\ SUBSET (1..Maximum) \subseteq (SUBSET (1..Maximum))'
    BY <1>1
  <2> QED BY <1>4, <2>1 DEF RunRecord
<1>6. run'[r] \in RunRecord'
  <2>1. run[r] \in RunRecord'
    BY <1>2, <1>5
  <2>2. [run[r] EXCEPT !.tries = n] \in RunRecord'
    BY <2>1 DEF RunRecord
  <2> QED BY <2>1, <2>2
<1> DEFINE c == run[r].cutoff
<1>7. CASE run[r].at = "idle"
  BY <1>3, <1>6, <1>7 DEF Sound
<1>8. CASE run[r].at # "idle"
  <2>1. c \in 0..Maximum /\ Kept(c)
    BY <1>1, <1>2 DEF RunRecord
  <2>2. c # 0 /\ run[r].todo # {} /\ run[r].todo \subseteq ChainRoots(c)
    BY <1>2, <1>8 DEF Sound
  <2>3. ChainRoots(c)' = ChainRoots(c)
    BY <1>3, <2>1 DEF ChainRoots, Recorded, Kept
  <2>4. ASSUME run[r].at = "send"
        PROVE  \E i \in 1..c : BuiltFrom(run[r].envelope, i, c)'
    <3>1. PICK i \in 1..c : BuiltFrom(run[r].envelope, i, c)
      BY <1>2, <2>4 DEF Sound
    <3> DEFINE e == run[r].envelope
    <3>2. PICK d, f : d = c /\ f = e
      OBVIOUS
    <3>3. BuiltFrom(f, i, d)'
      BY <2>1, <3>1, <3>2, BuiltStaysBuilt
    <3>4. d = c' /\ f = e'
      BY <1>3, <3>2
    <3> QED BY <3>1, <3>2, <3>3, <3>4
  <2> QED BY <1>3, <1>6, <2>2, <2>3, <2>4 DEF Sound
<1> QED BY <1>7, <1>8

\* The runs are sound after a step if the one that moves is.
LEMMA OneRunMoves ==
    ASSUME IInv, TypeOK, RunInv, [Next]_vars, NEW r \in Run, NEW v,
           run' = [run EXCEPT ![r] = v],
           run'[r] = v => run'[r] \in RunRecord' /\ Sound(r)'
    PROVE  run' \in [Run -> RunRecord'] /\ RunInv'
<1>1. run'[r] = v /\ \A q \in Run \ {r} : run'[q] = run[q]
  BY DEF TypeOK
<1>2. \A q \in Run : run'[q] \in RunRecord' /\ Sound(q)'
  <2>1. ASSUME NEW q \in Run, q # r PROVE run'[q] \in RunRecord' /\ Sound(q)'
    <3>1. run'[q] = run[q] /\ 0 \in Nat
      BY <1>1, <2>1
    <3> QED BY <3>1, RunStays
  <2> QED BY <1>1, <2>1
<1>3. run' \in [Run -> RunRecord']
  BY <1>2 DEF TypeOK
<1> QED BY <1>2, <1>3 DEF RunInv

\* A run that is over is sound.
LEMMA OverIsSound ==
    ASSUME Maximum' \in Nat, NEW r \in Run, run'[r] = Idle
    PROVE  run'[r] \in RunRecord' /\ Sound(r)'
BY DEF Idle, RunRecord, Sound

\* There is a first chain as long as there are chains.
LEMMA FirstChainIsOne ==
    ASSUME NEW r, run[r].todo \subseteq Nat, run[r].todo # {}
    PROVE  FirstChain(r) \in run[r].todo
BY LeastElement DEF FirstChain

\* An outcome that was recorded is of a chain, and chains have a beginning.
LEMMA ChainsBegin ==
    ASSUME IInv, Maximum \in Nat, Recorded("outcome", Maximum) # {}
    PROVE  ChainRoots(Maximum) # {}
<1>1. PICK i \in Recorded("outcome", Maximum) : \A j \in Recorded("outcome", Maximum) : i <= j
  <2>1. Recorded("outcome", Maximum) \subseteq Nat
    BY DEF Recorded
  <2> QED BY <2>1, LeastElement
<1>2. i \in 1..Maximum /\ events[i].kind = "outcome"
  BY DEF Recorded
<1>3. CASE events[i].supersedes = NoId
  BY <1>3 DEF ChainRoots
<1>4. CASE events[i].supersedes # NoId
  <2>1. PICK j \in 1..(i - 1) : events[j].kind = "outcome"
    BY <1>2, <1>4 DEF IInv, SupersessionInv
  <2>2. j \in Recorded("outcome", Maximum) /\ j < i
    BY <1>2, <2>1 DEF Recorded
  <2> QED BY <1>1, <1>2, <2>2
<1> QED BY <1>3, <1>4

\* A run that goes on to its next chain is sound.
LEMMA AdvanceIsSound ==
    ASSUME IInv, TypeOK, RunInv, [Next]_vars, NEW r \in Run, run[r].at # "idle", Advance(r)
    PROVE  run' \in [Run -> RunRecord'] /\ RunInv'
<1> DEFINE rest == run[r].todo \ {FirstChain(r)}
           v == [run[r] EXCEPT !.at = "read", !.todo = rest, !.envelope = NoEnvelope, !.tries = 0]
<1>1. /\ Maximum \in Nat /\ Maximum' \in Nat /\ Maximum <= Maximum'
      /\ \A c \in 0..Maximum : Kept(c)
  BY StepKeepsSnapshots
<1>2. run[r] \in RunRecord /\ Sound(r)
  BY DEF TypeOK, RunInv
<1>3. CASE rest = {}
  <2>1. run' = [run EXCEPT ![r] = Idle]
    BY <1>3 DEF Advance
  <2>2. run'[r] = Idle => run'[r] \in RunRecord' /\ Sound(r)'
    BY <1>1, OverIsSound
  <2> QED BY <2>1, <2>2, OneRunMoves
<1>4. CASE rest # {}
  <2>1. run' = [run EXCEPT ![r] = v]
    BY <1>4 DEF Advance
  <2>2. rest \subseteq run[r].todo /\ rest # {}
    BY <1>4
  <2> HIDE DEF rest
  <2>3. v.at = "read" /\ v.todo = rest /\ v.cutoff = run[r].cutoff
    BY <1>2 DEF RunRecord
  <2>4. v \in RunRecord'
    <3>1. 0..Maximum \subseteq (0..Maximum)' /\ rest \in (SUBSET (1..Maximum))'
      BY <1>1, <1>2, <2>2 DEF RunRecord
    <3> QED BY <1>2, <3>1 DEF RunRecord
  <2> HIDE DEF v
  <2>5. run[r].cutoff # 0 /\ rest \subseteq ChainRoots(run[r].cutoff)
    BY <1>2, <2>2 DEF Sound
  <2>6. run[r].cutoff \in 0..Maximum
    BY <1>2 DEF RunRecord
  <2>7. ASSUME run'[r] = v PROVE run'[r] \in RunRecord' /\ Sound(r)'
    <3>1. PICK c : c = run[r].cutoff
      OBVIOUS
    <3>2. ChainRoots(c)' = ChainRoots(c)
      <4>1. Kept(c)
        BY <1>1, <2>6, <3>1
      <4> QED BY <4>1 DEF ChainRoots, Recorded, Kept
    <3>3. run'[r].cutoff = c /\ run'[r].todo = rest /\ run'[r].at = "read"
      BY <2>3, <2>7, <3>1
    <3>4. Sound(r)'
      BY <2>2, <2>5, <3>1, <3>2, <3>3 DEF Sound
    <3> QED BY <2>4, <2>7, <3>4
  <2> QED BY <2>1, <2>7, OneRunMoves
<1> QED BY <1>3, <1>4

\* A run starts with the chains of its snapshot.
LEMMA StartIsSound ==
    ASSUME IInv, TypeOK, RunInv, [Next]_vars, NEW r \in Run, NEW b \in BOOLEAN, RunStart(r, b)
    PROVE  run' \in [Run -> RunRecord'] /\ RunInv'
<1> DEFINE v == [Idle EXCEPT !.at = "read", !.reevaluate = b, !.cutoff = Maximum,
                             !.todo = ChainRoots(Maximum)]
<1>1. Maximum \in Nat /\ UNCHANGED events /\ run' = [run EXCEPT ![r] = v]
      /\ Recorded("outcome", Maximum) # {}
  BY StepKeepsSnapshots DEF RunStart
<1>2. ChainRoots(Maximum) # {} /\ ChainRoots(Maximum) \subseteq 1..Maximum /\ Maximum # 0
  <2>1. Maximum # 0
    BY <1>1 DEF Recorded
  <2> QED BY <1>1, <2>1, ChainsBegin DEF ChainRoots, Recorded
<1>3. Maximum' = Maximum /\ ChainRoots(Maximum)' = ChainRoots(Maximum)
  BY <1>1 DEF Maximum, ChainRoots, Recorded
<1>4. v \in RunRecord'
  <2>1. Maximum \in (0..Maximum)' /\ ChainRoots(Maximum) \in (SUBSET (1..Maximum))'
    BY <1>1, <1>2, <1>3
  <2> QED BY <2>1 DEF RunRecord, Idle
<1>5. v.at = "read" /\ v.todo = ChainRoots(Maximum) /\ v.cutoff = Maximum
  BY DEF Idle
<1> HIDE DEF v
<1>6. ASSUME run'[r] = v PROVE run'[r] \in RunRecord' /\ Sound(r)'
  <2>1. run'[r].at = "read" /\ run'[r].todo = ChainRoots(Maximum) /\ run'[r].cutoff = Maximum'
    BY <1>3, <1>5, <1>6
  <2>2. PICK m : m = Maximum
    OBVIOUS
  <2>3. run'[r].at = "read" /\ run'[r].todo = ChainRoots(m) /\ run'[r].cutoff = m
    BY <1>3, <2>1, <2>2
  <2>4. ChainRoots(m)' = ChainRoots(m)
    BY <1>1 DEF ChainRoots, Recorded
  <2>5. Sound(r)'
    BY <1>2, <2>2, <2>3, <2>4 DEF Sound
  <2> QED BY <1>4, <1>6, <2>5
<1> QED BY <1>1, <1>6, OneRunMoves

\* What a run builds for the version at hand is the result of a version that is effective.
LEMMA BuildIsSound ==
    ASSUME IInv, TypeOK, RunInv, [Next]_vars, NEW r \in Run, NEW i, RunBuild(r, i)
    PROVE  run' \in [Run -> RunRecord'] /\ RunInv'
<1>1. PICK c : c = run[r].cutoff
  OBVIOUS
<1>2. run[r] \in RunRecord /\ Sound(r) /\ Reading(r, i) /\ Maximum \in Nat /\ UNCHANGED events
  BY StepKeepsSnapshots DEF TypeOK, RunInv, RunBuild
<1>3. /\ c \in 1..Maximum /\ run[r].todo # {}
      /\ run[r].todo \subseteq ChainRoots(c) /\ run[r].todo \subseteq Nat
  BY <1>1, <1>2 DEF Sound, Reading, RunRecord
<1>4. FirstChain(r) \in Recorded("outcome", c)
  BY <1>3, FirstChainIsOne DEF ChainRoots
<1>5. i \in Recorded("outcome", c) /\ Successors(events[i].id, c) = {} /\ i \in 1..c
  <2>1. i = EffectiveVersion(FirstChain(r), c) /\ c \in 0..Maximum
    BY <1>1, <1>2, <1>3 DEF Reading
  <2>2. i \in Recorded("outcome", c) /\ Successors(events[i].id, c) = {}
    BY <1>2, <1>4, <2>1, EffectiveIsLast
  <2> QED BY <2>2 DEF Recorded
<1>6. PICK s \in {events[t].id : t \in Tips(events[i].id, c)} \cup {NoId}, t \in Stamp :
         /\ Tips(events[i].id, c) # {} => s # NoId
         /\ run' = [run EXCEPT ![r].at = "send", ![r].tries = 0,
                       ![r].envelope = AttributionEnvelope(events[i], c, s, t)]
  BY <1>1 DEF RunBuild, Existing
<1> DEFINE e == AttributionEnvelope(events[i], c, s, t)
           v == [run[r] EXCEPT !.at = "send", !.tries = 0, !.envelope = e]
<1>7. BuiltFrom(e, i, c)
  BY <1>5, <1>6 DEF BuiltFrom
<1>8. e \in Envelopes
  <2> HIDE DEF e
  <2> QED BY <1>2, <1>3, <1>5, <1>7, BuiltIsAnEnvelope
<1>9. e \in Envelopes' /\ BuiltFrom(e, i, c)'
  <2>1. PICK f : f = e
    OBVIOUS
  <2>2. f \in Envelopes' /\ c \in 0..Maximum
    BY <1>3, <1>8, <2>1, EnvelopesGrow
  <2>3. BuiltFrom(f, i, c)'
    BY <1>2, <1>3, <1>5, <1>7, <2>1, <2>2, BuiltStaysBuilt
  <2>4. e' = e
    <3>1. Attribute(events[i], c)' = Attribute(events[i], c)
      <4>1. Kept(c)
        BY <1>2, <2>2, StepKeepsSnapshots
      <4>2. \A o : Attribute(o, c)' = Attribute(o, c)
        BY <1>2, <2>2, <4>1, AttributeIsStable DEF IInv
      <4> QED BY <1>2, <4>2
    <3> QED BY <1>2, <3>1 DEF AttributionEnvelope
  <2> HIDE DEF e
  <2> QED BY <2>1, <2>2, <2>3, <2>4
<1> HIDE DEF e
<1>10. run' = [run EXCEPT ![r] = v]
  BY <1>6 DEF e
<1>11. v \in RunRecord' /\ v.at = "send" /\ v.cutoff = c /\ v.todo = run[r].todo /\ v.envelope = e
  <2>1. Maximum' = Maximum
    BY <1>2 DEF Maximum
  <2> QED BY <1>1, <1>2, <1>9, <2>1 DEF RunRecord
<1> HIDE DEF v
<1>12. ASSUME run'[r] = v PROVE run'[r] \in RunRecord' /\ Sound(r)'
  <2>1. PICK f : f = e
    OBVIOUS
  <2>2. /\ run'[r].at = "send" /\ run'[r].cutoff = c /\ run'[r].todo = run[r].todo
        /\ run'[r].envelope = f
    BY <1>11, <1>12, <2>1
  <2>3. ChainRoots(c)' = ChainRoots(c)
    BY <1>2 DEF ChainRoots, Recorded
  <2>4. BuiltFrom(f, i, c)'
    BY <1>2, <1>3, <1>5, <1>7, <2>1, BuiltStaysBuilt
  <2>5. Sound(r)'
    BY <1>3, <1>5, <2>2, <2>3, <2>4 DEF Sound
  <2> QED BY <1>11, <1>12, <2>5
<1> QED BY <1>10, <1>12, OneRunMoves

\* An attempt that failed is made again with the same envelope, or the run is over.
LEMMA LossIsSound ==
    ASSUME IInv, TypeOK, RunInv, [Next]_vars, NEW r \in Run, RunLost(r)
    PROVE  run' \in [Run -> RunRecord'] /\ RunInv'
<1>1. Maximum' \in Nat
  BY StepKeepsSnapshots
<1>2. run[r] \in RunRecord /\ run[r].tries \in Nat
  BY DEF TypeOK, RunRecord
<1> DEFINE v == [run[r] EXCEPT !.tries = @ + 1]
<1>3. run' = [run EXCEPT ![r] = Idle] \/ run' = [run EXCEPT ![r] = v]
  <2>1. run' = [run EXCEPT ![r] = IF run[r].tries + 1 = SUBMIT_ATTEMPTS THEN Idle ELSE v]
    BY DEF RunLost
  <2> HIDE DEF v
  <2> QED BY <2>1
<1>4. CASE run' = [run EXCEPT ![r] = Idle]
  <2>1. run'[r] = Idle => run'[r] \in RunRecord' /\ Sound(r)'
    BY <1>1, OverIsSound
  <2> QED BY <1>4, <2>1, OneRunMoves
<1>5. CASE run' = [run EXCEPT ![r] = v]
  <2>1. run[r].tries + 1 \in Nat /\ v = [run[r] EXCEPT !.tries = run[r].tries + 1]
    BY <1>2
  <2> HIDE DEF v
  <2>2. run'[r] = v => run'[r] \in RunRecord' /\ Sound(r)'
    BY <2>1, RunStays
  <2> QED BY <1>5, <2>2, OneRunMoves
<1> QED BY <1>3, <1>4, <1>5

\* The runs stay sound.
LEMMA RunsStaySound ==
    ASSUME SInv, [ServiceNext]_serviceVars
    PROVE  run' \in [Run -> RunRecord'] /\ RunInv'
<1>1. [Next]_vars /\ IInv /\ TypeOK /\ RunInv /\ Maximum' \in Nat
  BY ServiceStepIsALedgerStep, StepKeepsSnapshots DEF SInv
<1>2. CASE run' = run
  <2>1. \A q \in Run : run'[q] \in RunRecord' /\ Sound(q)'
    <3>1. ASSUME NEW q \in Run PROVE run'[q] \in RunRecord' /\ Sound(q)'
      <4>1. run'[q] = run[q] /\ 0 \in Nat
        BY <1>2
      <4> QED BY <1>1, <4>1, RunStays
    <3> QED BY <3>1
  <2> QED BY <1>1, <1>2, <2>1 DEF TypeOK, RunInv
<1>3. ASSUME NEW r \in Run, run' = [run EXCEPT ![r] = Idle]
      PROVE  run' \in [Run -> RunRecord'] /\ RunInv'
  <2>1. run'[r] = Idle => run'[r] \in RunRecord' /\ Sound(r)'
    BY <1>1, OverIsSound
  <2> QED BY <1>1, <1>3, <2>1, OneRunMoves
<1>4. ASSUME NEW e \in Submittable, ServiceProduce(e) PROVE run' = run
  BY <1>4 DEF ServiceProduce
<1>5. ASSUME NEW r \in Run, NEW b \in BOOLEAN, RunStart(r, b)
      PROVE  run' \in [Run -> RunRecord'] /\ RunInv'
  BY <1>1, <1>5, StartIsSound
<1>6. ASSUME NEW r \in Run, RunAnswered(r)
      PROVE  run' \in [Run -> RunRecord'] /\ RunInv'
  <2>1. run[r].at # "idle" /\ (Advance(r) \/ run' = [run EXCEPT ![r] = Idle])
    BY <1>6 DEF RunAnswered
  <2> QED BY <1>1, <1>3, <2>1, AdvanceIsSound
<1>7. ASSUME NEW r \in Run, NEW i \in 1..Maximum, RunSkip(r, i)
      PROVE  run' \in [Run -> RunRecord'] /\ RunInv'
  <2>1. run[r].at # "idle" /\ Advance(r)
    BY <1>7 DEF RunSkip, Reading
  <2> QED BY <1>1, <2>1, AdvanceIsSound
<1>8. ASSUME NEW r \in Run, NEW i \in 1..Maximum, RunBuild(r, i)
      PROVE  run' \in [Run -> RunRecord'] /\ RunInv'
  BY <1>1, <1>8, BuildIsSound
<1>9. ASSUME NEW r \in Run, RunLost(r)
      PROVE  run' \in [Run -> RunRecord'] /\ RunInv'
  BY <1>1, <1>9, LossIsSound
<1>10. ASSUME NEW r \in Run, RunCrash(r)
       PROVE  run' \in [Run -> RunRecord'] /\ RunInv'
  BY <1>3, <1>10 DEF RunCrash
<1>11. ASSUME NEW e \in held, Resubmit(e) PROVE run' = run
  BY <1>11 DEF Resubmit
<1>12. CASE UNCHANGED serviceVars
  BY <1>2, <1>12 DEF serviceVars
<1> QED BY <1>2, <1>4, <1>5, <1>6, <1>7, <1>8, <1>9, <1>10, <1>11, <1>12 DEF ServiceNext, RunMoves

\* What callers keep are envelopes that were sent.
LEMMA HeldStaysEnvelopes ==
    ASSUME SInv, [ServiceNext]_serviceVars
    PROVE  held' \subseteq Envelopes'
<1>1. held \subseteq Envelopes /\ Envelopes \subseteq Envelopes'
  BY ServiceStepIsALedgerStep, EnvelopesGrow DEF SInv, TypeOK
<1>2. ASSUME NEW r \in Run, run[r].at = "send", Keep(run[r].envelope) PROVE held' \subseteq Envelopes'
  <2>1. run[r].envelope \in Envelopes
    BY <1>2, SentIsAnEnvelope DEF SInv
  <2> QED BY <1>1, <1>2, <2>1 DEF Keep
<1>3. ASSUME NEW r \in Run, RunMoves(r) \/ RunLost(r) \/ RunCrash(r) PROVE held' \subseteq Envelopes'
  BY <1>1, <1>2, <1>3 DEF RunMoves, RunAnswered, RunSkip, RunBuild, RunLost, RunCrash
<1>4. ASSUME held' = held PROVE held' \subseteq Envelopes'
  BY <1>1, <1>4
<1>5. CASE \E e \in Submittable : ServiceProduce(e)
  BY <1>4, <1>5 DEF ServiceProduce
<1>6. CASE \E r \in Run, b \in BOOLEAN : RunStart(r, b)
  BY <1>4, <1>6 DEF RunStart
<1>7. CASE \E e \in held : Resubmit(e)
  BY <1>4, <1>7 DEF Resubmit
<1>8. CASE UNCHANGED serviceVars
  BY <1>4, <1>8 DEF serviceVars
<1> QED BY <1>3, <1>5, <1>6, <1>7, <1>8 DEF ServiceNext

--------------------------------------------------------------------------------
(* The theorems                                                               *)

\* The invariant of the ledger and of the runs holds in every reachable state.
THEOREM ServiceInductive == ServiceSpec => []SInv
<1>1. ServiceInit => SInv
  <2> SUFFICES ASSUME ServiceInit PROVE SInv
    OBVIOUS
  <2>1. IInv /\ events = <<>> /\ Maximum = 0
    BY InvariantStarts DEF ServiceInit, Init, Maximum
  <2>2. AccountInv /\ DerivedInv
    BY <2>1 DEF AccountInv, DerivedInv, Recorded
  <2>3. Idle \in RunRecord
    BY <2>1 DEF Idle, RunRecord
  <2>4. TypeOK
    BY <2>3 DEF ServiceInit, TypeOK
  <2>5. RunInv
    BY DEF ServiceInit, RunInv, Sound, Idle
  <2> QED BY <2>1, <2>2, <2>4, <2>5 DEF SInv
<1>2. SInv /\ [ServiceNext]_serviceVars => SInv'
  <2> SUFFICES ASSUME SInv, [ServiceNext]_serviceVars PROVE SInv'
    OBVIOUS
  <2>1. [Next]_vars
    BY ServiceStepIsALedgerStep
  <2>2. IInv' /\ AccountInv' /\ DerivedInv'
    BY <2>1, InvariantIsKept, OriginsAreKept DEF SInv
  <2>3. run' \in [Run -> RunRecord'] /\ RunInv' /\ held' \subseteq Envelopes'
    BY RunsStaySound, HeldStaysEnvelopes
  <2>4. TypeOK'
    BY <2>3 DEF TypeOK
  <2> QED BY <2>2, <2>3, <2>4 DEF SInv
<1> QED BY <1>1, <1>2, PTL DEF ServiceSpec

\* The command writes through the collector only: with every interleaving of runs, loss,
\* crash and resubmission it implements the ledger.
THEOREM CommandImplementsLedger == ServiceSpec => ImplementsLedger
<1>1. ServiceInit => Init
  BY DEF ServiceInit
<1>2. SInv /\ [ServiceNext]_serviceVars => [Next]_vars
  BY ServiceStepIsALedgerStep
<1> QED BY <1>1, <1>2, ServiceInductive, PTL DEF ServiceSpec, ImplementsLedger, Spec

\* While nothing about its version was recorded since its snapshot, the collector creates
\* an envelope that was built from the snapshot.
LEMMA AcceptedUnlessOvertaken ==
    ASSUME IInv, AccountInv, DerivedInv, Maximum \in Nat,
           NEW c \in 1..Maximum, NEW i \in 1..c, NEW e, BuiltFrom(e, i, c),
           \A k \in (c + 1)..Maximum :
              /\ ~ (events[k].kind = "outcome" /\ events[k].supersedes = e.outcome)
              /\ ~ (events[k].kind = "attribution" /\ events[k].outcome = e.outcome)
    PROVE  Answer(e) = "created"
<1> DEFINE o == events[i]
<1>1. PICK s \in {events[t].id : t \in Tips(o.id, c)} \cup {NoId}, t \in Stamp :
             (Tips(o.id, c) # {} => s # NoId) /\ e = AttributionEnvelope(o, c, s, t)
  BY DEF BuiltFrom
<1>2. /\ e.kind = "attribution" /\ e.id = AttributionId(o.id, c) /\ e.account = o.account
      /\ e.outcome = o.id /\ e.cutoff = c /\ e.supersedes = s /\ e.result = Attribute(o, c)
  BY <1>1, EnvelopeParts
<1>3. i \in Recorded("outcome", Maximum) /\ o.kind = "outcome" /\ Successors(o.id, c) = {}
      /\ i \in 1..Maximum /\ c <= Maximum
  BY DEF BuiltFrom, Recorded
<1>4. o \in Submittable
  BY <1>3 DEF DerivedInv
<1>5. ASSUME NEW k \in Recorded("attribution", Maximum), events[k].outcome = o.id
      PROVE  k \in 1..c /\ events[k].cutoff \in 1..(k - 1)
  <2>1. k \in 1..Maximum /\ events[k].kind = "attribution"
    BY DEF Recorded
  <2>2. events[k].cutoff \in 1..(k - 1)
    BY <2>1, SubmittableAssumption DEF IInv, OriginInv, CapturedKind, WellFormed
  <2>3. k \notin (c + 1)..Maximum
    BY <1>2, <1>5, <2>1
  <2>4. k \in 1..c
    BY <2>1, <2>3
  <2> QED BY <2>2, <2>4
<1>6. ASSUME NEW k \in 1..Maximum PROVE events[k].id # e.id
  <2>1. SUFFICES ASSUME events[k].id = <<o.id, c>> PROVE FALSE
    BY <1>2 DEF AttributionId
  <2>2. CASE events[k] \in Submittable
    <3>1. c \in 1..MaxEvents
      BY BoundsAssumption DEF IInv, TypeInv
    <3> QED BY <1>4, <2>1, <2>2, <3>1, DerivedIdAssumption DEF AttributionId
  <2>3. CASE events[k] \notin Submittable
    <3>1. k \in Recorded("attribution", Maximum)
      BY <2>3 DEF DerivedInv, Recorded
    <3>2. events[k].id = <<events[k].outcome, events[k].cutoff>>
      BY <2>3 DEF DerivedInv, AttributionId
    <3>3. events[k].outcome = o.id /\ events[k].cutoff = c
      BY <2>1, <3>2
    <3>4. k \in 1..c /\ c \in 1..(k - 1)
      BY <1>5, <3>1, <3>3
    <3> QED BY <3>4
  <2> QED BY <2>2, <2>3
<1>7. AccountRules(e)
  <2>1. PICK j \in Recorded("account", i) : events[j].account = o.account
    BY <1>3 DEF AccountInv
  <2>2. j \in Recorded("account", Maximum)
    BY <1>3, <2>1 DEF Recorded
  <2> QED BY <1>2, <2>1, <2>2 DEF AccountRules
<1>8. Successors(o.id, Maximum) = {}
  <2>1. SUFFICES ASSUME NEW k \in 1..Maximum, events[k].kind = "outcome",
                        events[k].supersedes = o.id
                 PROVE  FALSE
    BY DEF Successors, Recorded
  <2>2. k \notin (c + 1)..Maximum
    BY <1>2, <2>1
  <2>3. k \in 1..c
    BY <2>2
  <2> QED BY <1>3, <2>1, <2>3 DEF Successors, Recorded
<1>9. Tips(o.id, Maximum) = Tips(o.id, c)
  <2>1. {k \in Recorded("attribution", Maximum) : events[k].outcome = o.id}
          = {k \in Recorded("attribution", c) : events[k].outcome = o.id}
    BY <1>3, <1>5 DEF Recorded
  <2> QED BY <2>1 DEF Tips
<1>10. AttributionSupersession(e)
  <2>1. CASE s = NoId
    BY <1>1, <1>2, <1>9, <2>1 DEF AttributionSupersession
  <2>2. CASE s # NoId
    <3>1. PICK k \in Tips(o.id, c) : s = events[k].id
      BY <1>1, <2>2
    <3>2. k \in Recorded("attribution", Maximum) /\ events[k].outcome = o.id
      BY <1>3, <3>1 DEF Tips, Recorded
    <3>3. events[k].cutoff < c
      BY <1>5, <3>2
    <3> QED BY <1>2, <1>9, <2>2, <3>1, <3>3 DEF AttributionSupersession
  <2> QED BY <2>1, <2>2
<1>11. ~ \E k \in Recorded("attribution", Maximum) :
            events[k].outcome = e.outcome /\ events[k].cutoff = e.cutoff
  BY <1>2, <1>5
<1>12. AttributionAgrees(e)
  <2>1. i \in Find("outcome", e.outcome, Maximum)
    BY <1>2, <1>3 DEF Find
  <2>2. events[i].account = e.account /\ Successors(e.outcome, Maximum) = {}
    BY <1>2, <1>8
  <2>3. e.cutoff \in 1..Maximum /\ i <= e.cutoff /\ e.id = AttributionId(e.outcome, e.cutoff)
        /\ e.result = Attribute(events[i], e.cutoff)
    BY <1>2
  <2> HIDE DEF o
  <2> QED BY <1>10, <1>11, <2>1, <2>2, <2>3 DEF AttributionAgrees
<1>13. Accepts(e)
  <2>1. References(e)
    BY <1>2, <1>12 DEF References
  <2> QED BY <1>6, <1>7, <2>1 DEF Accepts
<1> QED BY <1>6, <1>13 DEF Answer

\* What a run sends is refused only when the version was superseded, or another result of
\* it was recorded, after the snapshot of the run.
THEOREM RefusedWhenOvertaken == ServiceSpec => []RefusedOnlyWhenOvertaken
<1>1. SInv => RefusedOnlyWhenOvertaken
  <2>1. SUFFICES ASSUME SInv, NEW r \in Run, run[r].at = "send",
                        Answer(run[r].envelope) \in {"rejected", "conflict"},
                        ~ \E k \in (run[r].cutoff + 1)..Maximum :
                             \/ /\ events[k].kind = "outcome"
                                /\ events[k].supersedes = run[r].envelope.outcome
                             \/ /\ events[k].kind = "attribution"
                                /\ events[k].outcome = run[r].envelope.outcome
                 PROVE  FALSE
    BY DEF RefusedOnlyWhenOvertaken
  <2>2. Maximum \in Nat /\ run[r] \in RunRecord /\ Sound(r)
    BY <2>1, LenProperties DEF SInv, IInv, TypeInv, Maximum, TypeOK, RunInv
  <2>3. run[r].cutoff \in 1..Maximum
    BY <2>1, <2>2 DEF Sound, RunRecord
  <2>4. PICK i \in 1..run[r].cutoff : BuiltFrom(run[r].envelope, i, run[r].cutoff)
    BY <2>1, <2>2 DEF Sound
  <2>5. Answer(run[r].envelope) = "created"
    BY <2>1, <2>2, <2>3, <2>4, AcceptedUnlessOvertaken DEF SInv
  <2> QED BY <2>1, <2>5
<1> QED BY <1>1, ServiceInductive, PTL

\* Through every interleaving of runs, a version that has results has one effective result.
THEOREM CommandKeepsResultsUnique == ServiceSpec => []OneEffectiveResult
BY CommandImplementsLedger, EffectiveResultIsUnique, PTL DEF ImplementsLedger
================================================================================
