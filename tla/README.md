# Flight Recorder in TLA+

Flight Recorder records decisions of revenue automation so that they can be
replayed later from what was known at the time. One rule carries the design:
every fact enters through one collector, as an append to one SQLite ledger, and
everything else (results, replays, pages, writes back to a CRM) is computed from
that record or reported into it. The modules in this directory model the parts in
which order, concurrency and failure decide whether that rule holds, TLC checks
them on small instances, and TLAPS proves the central claims for all instances.
Source paths below are relative to `src/flight_recorder/` of the repository.

## 1. Inventory

| Component | State it keeps | Operations | What makes it correct |
| --- | --- | --- | --- |
| Collector (`collector/service.py`, `projections.py`, `schema.py`) | none of its own; writes the ledger | `ingest`: identity, account rules, references, projection, append, in one transaction | one content per identity, every reference resolvable at the moment of acceptance, all or nothing |
| Domain ledger (`ledger/`) | `events` in ingest order and projected tables | append | nothing is rewritten; evidence, artifacts, chains of corrections stay unambiguous |
| Attribution policy (`attribution/policy.py`) | none | `attribute`, `effective_outcome_version(s)`, `effective_attribution` at a cutoff | a function of the snapshot; credit looks backwards in time and stays in the account |
| Attribution command (`attribution/service.py`) | none; the caller keeps envelopes | run, reevaluate, resubmit, retry | one effective result per outcome version, never an older one over a newer one, no duplicates |
| CRM writer (`adapters/crm/writer.py`, `writer_store.py`) | policies, intents, outbox, receipts, attempts, refusals, terminals, progress, target ownership | set policy, prepare, send once, observe, flush | at most one request per operation; a target stays fenced until the effect is settled; nothing is reported that the provider did not say |
| CRM capture and poll queue (`store.py`, `poll_store.py`, `poll.py`, `capture.py`) | receipts, ticks, members, recoveries, terminals, captures, ownership | admit a tick, claim, read, freeze or record unchanged, settle | a lost read cannot publish; one capture sequence per target; ticks end |
| CRM submission (`submit.py`) | frozen stages, attempts, observations | freeze, resume | the ledger gets exactly the frozen bytes, in stage order, however often delivery is interrupted |
| CRM operations in the collector (`collector/crm_operations.py`) | operation tables of the ledger | admission of write observations | observations of an operation follow the protocol; revisions increase |
| Provenance versions 2 and 3 (`collector/provenance.py`, `crm_provenance.py`, `adapters/crm/mapping.py`) | version 2 and 3 tables | admission | each value leads back to the capture that read it; captures of an account in order |
| CRM transport (`http.py`, `salesforce.py`) | deadlines, one HTTP client | bounded reads, one conditional write | a write is never repeated by the transport |
| Tokens and OAuth (`secrets.py`, `oauth.py`) | token file with a generation and a state, pending sessions | install, refresh, authorize | a refresh token is used once; a callback finds its session once |
| Read control (`read_control.py`) | authority and evidence files | admit one tick, attempt, save the result | one read session, exactly the approved one |
| Runtime (`runtime.py`) | process lock, execution lock, runner thread | start, notify, run, close | one process, one piece of work at a time |
| HubSpot-style adapter (`adapters/hubspot/`) | capture, submission and writer stores | capture once, submit, prepare, send, reconcile | as for the CRM adapter, against an in-memory provider |
| Replay (`replay/`, `logic/`) | none | reconstruct, counterfactual, compare | the sealed context decides, nothing else |
| Insights (`analytics/insights.py`) | none | rates at one cutoff | every decision counted once, in the right arm |
| Dataset, public demo, web, command line | snapshot files | generate, publish, render | determinism, read only |

How they interact. Producers (workflows, the seed and attribution commands, the
adapters) call the collector over HTTP, in-process ASGI or directly; each call is one
SQLite transaction. The CRM adapter keeps a second database, so what it does spans
two files that no transaction covers together: it freezes captures and submissions
in its own store, delivers them to the collector, and stores the receipts. Its writer
shares the target ownership table with the poll runner, which is how the two exclude
each other.

Hard behaviour. Crashes between the two databases; provider effects that come after
the client's timeout; observations queued in an outbox that one refusal can block;
captures between the preparation and the send of a write; poll ticks that find a
target whose write was never settled; runs of the attribution command that race each other
over snapshots that are already old; evidence, corrections and claims in any order.
`PROJECT.json` lists the hazards with their lines.

## 2. Modules

**CrmWriter** composes the writer with the poll runner, the collector's admission of
write observations, and the provider. An operation is a pair of target and capture
sequence, because one decision is made of a frozen capture and one intent of a
decision. Variables `policy`, `intent`, `box`, `acked`, `attempt`, `terminal`,
`refusal`, `progress` and `owner` are the tables of the operational store; `seq`,
`stage`, `pre`, `domCapture`, `decided` the capture pipeline; `dom` the operation
history in the ledger; `remote`, `wire`, `reply` the provider and the network. A
public call (`prepare_write`, `send_write_once`, `observe_write`) is a sequence of
steps, each one durable transaction, collector call or provider exchange; `call` is
its program counter. `Fail` drops the call between any two steps: it stands for a
crash and for every exception the code raises. `sent` and `applied` are history.
`Expected` is the audit's recomputation of the progress row, so the model's
`AuditPasses` is the code's own audit.

**CrmWriterInv** holds the inductive invariant and the facts that follow from it, and
**CrmWriterProofs** the proofs. **FiniteFacts** has the lemmas about finite sets that several
modules of proofs need: the maximum of a set of naturals, two principles of induction
that are stated about a set instead of a predicate, and sums over a finite set.

**WriteOnce** is what both writers promise, without stores, ledgers, calls and crashes: an
operation is prepared above all others of its target, marked as sent when nothing of the target
is outstanding, sent once while nothing newer is known, processed at some moment whether
or not anybody waits, and settled as what became of its request. `CrmWriter` and
`HubspotWriter` each end with a mapping of their state to its four variables and with
`ImplementsWriteOnce`, its specification under that mapping. They differ in what a place
is (the capture or the revision), in what makes an operation ready, withdrawn or
outstanding, and in what happens to an unsent intent: a Salesforce intent is recorded when no other
of its target is ready, a HubSpot intent supersedes all that are. Everything else they do is a
stutter of `WriteOnce`.

**CrmPoll** is the capture pipeline by itself: the tick queue (`ticks`, `progress`,
`member`), ownership with its generations (`owner`), sealed reads and captures (`reads`,
`polling`), frozen submissions and their attempts (`frozen`, `attempts`), the ledger they
are delivered to (`domain`) and the runner thread (`wake`, `checking`, `work`). A step is
one transaction of the operational store, one delivery, or a move of the runner between
two of them. The delivery is a step of its own because the ledger commits before the
store does: `CrashDelivering`, `ReturnLost` and `AnswerRefused` are what may come in
between. A unit is a claim under a generation, which is what the code's owner, capture,
fact and submission rows are keyed by. Where `CrmWriter` keeps of a capture only what the
writer races with, `CrmPoll` leaves the writer out, except for the execution lock that a
status check of a writer takes. **CrmPollInv** and **CrmPollProofs** hold its inductive
invariant and its proofs.

**Ledger** is the collector with the domain ledger and the policy. A row of a
projected table is a copy of the event that wrote it, made in the same transaction,
so the ledger is the sequence `events`; the reasons retained beside an outcome's
claims are computed at ingest and have a variable of their own. One operator stands
for each validation function; `Ingest` is the transaction. A duplicate, a conflict and
a rejection write nothing and are therefore no steps. An attribution may be submitted
by anybody for any outcome, cutoff and replaced result, since the collector accepts
whatever agrees with the policy. What `collector/schema.py` requires of an envelope by
itself is `WellFormed`, and an evidence payload keeps its content as the ledger does
(`EvidencePayload`). **LedgerInv** and **LedgerProofs** hold the inductive invariant and the
proofs; they leave room for the captured events, so that the next module can use them.

**Logic** is the rules and the evaluator as functions: what a factor and an artifact say
of a set of inputs. Under `Ledger` it decides whether a version 1 decision agrees with
its artifact; under the modules below it evaluates captures and replays.

**Provenance** adds the captured events of versions 2 and 3 to `Ledger`. An event carries
the document of the capture it was made from. `Admissible2` and `Admissible3` are the
validations of the two collectors in the order of the code, `MapInputs` the adapter's
mapping of a record to inputs, which version 3 repeats at admission, and
`AdmitCaptured` the transaction. Every identity in a document is a digest of other
parts of it, so it is the record of those parts here. `CapturedSpec` is the ledger with all
three versions. `CapturedAssumption` says what an envelope of version 2 or 3 has passed
before it gets to a transaction: the wire validation of its schema. **ProvenanceInv** and
**ProvenanceProofs** hold the inductive invariant and the proofs of `CapturedSpec`, those about
`Replay` and `Insights` included.

**Replay** and **Insights** are what is computed from the ledger: the reconstruction of a
decision of each version, with the step that fails if one does, the counterfactual and
its comparison; and the counts, rates and signal rows at a cutoff. They have no
variables of their own. `Read` is all that a reconstruction takes from the ledger and
`Replayed` what it makes of that; likewise `Reads` and `Observations` for the metrics, and
`MetricsOf`. That the answers stay what they are is therefore an action property of
the ledger: `VerdictsAreSealed` and `InsightsAreReproducible` compute the answer again from
what is read after a step.

**AttributionService** adds the command: concurrent runs (`run`) and the envelopes
callers kept (`held`). Each read and each submission is a step of its own, an answer
may be lost with or without the commit, and a run may crash anywhere. A run visits the
chains of its snapshot one after the other: `todo` is the set of the first versions that are
left, and `FirstChain` the one it is at. `Room` bounds the ledger and the results.
`DerivedIdAssumption` says that no producer's envelope has the identity of a result, which
is a digest of the operation. **AttributionInv** and **AttributionProofs** hold the invariant
of the command over that of the ledger, and the proofs.
**AttributionLive** adds the assumption under which the command makes progress.

**CrmTokens** is the credential record (`visible`, with `durable`, the records of which a
power loss leaves one), the processes that refresh it (`refresh`) and the authorizations
that install it (`pending`, `connect`). Each transaction of the token store is a step, so
that another process, a failed write or a crash may come between the claim, the request
and its completion. A write has the outcomes the code tells apart: done, refused before
anything happened, and uncertain, after which the process pauses its store. `minted` and
`spent` are the provider's refresh tokens; `grants` and `exchanges` are history. It shares
nothing with the other modules but the connection that their requests use.
**CrmTokensInv** and **CrmTokensProofs** hold its inductive invariant and its proofs.

**HubspotCapture** is the other adapter up to the ledger: notifications (`registered`,
`progress`), the reads of a company under an ownership with generations (`ownership`,
`captures`), the frozen submissions and their attempts, and the callers (`call`), whose
store transactions and deliveries interleave. A reservation may be abandoned at any
moment. **HubspotWriter** adds the writer over the same ownership row: intents with
revisions, the marker of a send, the outbox and its receipts, the operations in the
ledger, and the fake CRM with its pending requests. The ledger and the receipts hold
places of the outbox. One operator, `Admitted`, is the collector's contract for
observations; `Finalizable` says when an operation is settled. What a flush has left to
deliver is a set of places (`todo`), of which the least is next. `Start` gives the initial
states: `CaptureAssumption` asks that at most one unit is submitted then, under a generation
that is over, which is a store that the code can have made. **HubspotInv** and
**HubspotProofs** hold the inductive invariant and the proofs.

How they are put together:

    Logic <- Ledger <- Provenance <- Replay <- Insights
    Ledger <- AttributionService <- AttributionLive
    Ledger <- LedgerCases;  LedgerCases, Insights <- CaptureCases <- MCLedger
    HubspotCapture <- HubspotWriter <- MCHubspot
    WriteOnce is instantiated by CrmWriter and by HubspotWriter
    CrmWriter <- CrmWriterInv <- CrmWriterProofs;  CrmPoll <- CrmPollInv <- CrmPollProofs
    CrmTokens <- CrmTokensInv <- CrmTokensProofs;  HubspotWriter <- HubspotInv <- HubspotProofs
    Ledger <- LedgerInv <- LedgerProofs
    Replay, LedgerInv <- ProvenanceInv;  ProvenanceInv, Insights, LedgerProofs <- ProvenanceProofs
    AttributionService, LedgerInv <- AttributionInv;  AttributionInv, LedgerProofs <- AttributionProofs

The modules whose names begin with **MC** hold the instances. **LedgerCases** and
**CaptureCases** have the catalogues of envelopes: those the collector must refuse as
well as those it must accept. A behaviour of MCLedger keeps to one of them.

Operators marked *mutant* are never used by a specification. Each is a plausible bug
in one definition; put in place of it, the property named beside it in
`PROJECT.json` fails.

## 3. Runs

| Run | Asks | Bounds, and why they are enough |
| --- | --- | --- |
| `writer_safety` | at most one request, fencing, truthfulness, audit, deliverability | one target, two captures, two policies, two foreign edits, five documents: enough for a send overtaken by a capture, a policy change between preparation and send, a late effect after a timeout and a second operation after the first |
| `writer_live` | does recovery finish, does the settled operation give its target back, and is every step one that `WriteOnce` allows | one target, two captures, one foreign edit, one policy, four documents: an operation to its end and the next one of its target |
| `poll_queue` | is the queue kept in order, are sealed reads final, and does what ticks report agree with the ledger | one target, three ticks (active, waiting, coalesced), two input values, one of them without a usable input, two faults, contention on a version 1 and a version 3 stage, another caller who discovers the account; ticks are symmetric |
| `poll_live` | does every tick end, with two targets whose members share the runner | two targets, two ticks, one fault or status check, contention on version 1 stages only; no symmetry |
| `poll_contention` (violated) | does frozen work resume after one moment of contention on the decision | one fault |
| `poll_wake` (violated) | does one dispatch suffice to get a tick worked off | one status check and no other fault: `WakeNext` has no refusal, lost answer, contention or crash, so only the lock can come in the runner's way. With `MaxFaults = 0` TLC finds no violation |
| `ledger` | does what a decision cites resolve; outcome chains, results and metrics at every snapshot; claims across accounts; captures of both later versions; are replays settled when the decision is recorded | six catalogues of envelopes, any of them up to nine events in any order: `Sourced` (evidence, corrections, artifacts, wrong references), `Attributed` (one account with ties, failures, claims that resolve late and claims that disagree, and two results, so that one replaces another, at every cutoff), `Accounts` (two accounts, one result), `Measured` (what the metrics count: both workflows, a period at its edge, a result), `Captures2` and `Captures3` (two captures of one observation, reuse of evidence, corrections, wrong lineage, a rule registered late). `Attributed` and `Accounts` begin with one scored account, registered in one order, since `Sourced` has the orders of those. Attributions outside `Attributed` take the newest cutoff, as the command does |
| `attribution_races` | is an envelope refused only because its run was overtaken | two concurrent runs against a late action and a correction; one attempt per envelope (a second adds only a repetition of the lost answer), one kept envelope, two stamps |
| `attribution_live` | do results get there, and is the command a refinement of the ledger | one run after another, two attempts, two outcome chains and a correction. Runs side by side and envelopes resubmitted later are in `attribution_races`; that they refine the ledger as well is the theorem `CommandImplementsLedger` |
| `tokens` | is a refresh claim used once, is a ready record usable, is a code exchanged once | two processes, three sessions, one pending per process (16 in the code, which only differs in how many are forgotten), seven generations and five tokens (an installation and two refreshes that complete or fail), four faults (a failed write in each process, a restart and a power loss); `nonrotating`, under which the provider may rotate or not, so that everything `required` allows happens too |
| `hubspot` | do captures follow the reads, when may a submission or an observation be refused, is an operation settled with proof, does the CRM ever go back to an older decision | two units of one company, two symmetric callers whose transactions interleave, abandonment at any moment, one failure (a call that ends, a contended admission, another edit), five generations and seven observations: one operation to its end and the next one begun. Two initial states: an empty store, in which two units are captured and the abandonments are all that goes wrong, and one in which the first unit is submitted, which leaves more generations for the writer and the failure |
| `hubspot_stuck` (violated) | can the outbox always be delivered | as `hubspot` |

`FirstRun` delays the first run until most events are there; the events before it
only multiply orders that `ledger` explores. Runs switch deadlock
checking off because producers may stop: a ledger that nobody writes to is a
legitimate end.

Two faults are enough for a lost answer followed by a crash of the recovery, and for a
read that is lost twice; a third repeats one of the two, since nothing counts attempts.

Fairness. `CrmPoll!LiveSpec` lets the runner's thread go on, status checks end, and dead
processes be started again, and it lets requests keep coming: the schedule in
`integrations/` dispatches every minute, and any request, a repeated one too, wakes the
runner. Nothing in the code retries a blocked member by itself. `WakeSpec` leaves the
last assumption out, and in turn lets nothing fail: its steps are dispatches, the runner's own,
and status checks, so a tick that stays behind does so for want of a wake alone.

`CrmWriter!Fairness` lets a running call go on or fail, and lets calls be
made again: operators and the runner repeat calls, and nothing in the code repeats
them by itself. The attribution command keeps no state and gives up at the first
failure, so `AttributionLive` assumes that both modes are run again and again, that a
run under way goes on, and that from some moment on (`calm`) nothing crashes and every
answer arrives; any number of faults may come before.

## 4. Proofs

Every module of proofs starts from an inductive invariant that TLC checked on a small
instance first, shows that each action keeps each of its parts, and concludes the properties
from it. A property is seldom inductive; what follows says what had to be added and why.

`CrmWriterProofs`, for every finite set of targets and all bounds:

- `Inductive`: `Spec => []IInv`. That a request leaves once (`SentInv`) needs to know that a
  request leaves only after the marker was acknowledged (`CallInv`, `fresh`) and that the
  marker is the second document (`BoxInv`). That a fence holds (`FenceInv`) needs to know
  that a claim of the poll runner owns the target (`StageInv`), since only the ownership row
  keeps a capture and an attempt apart. `TypeCorrect`, `SingleAttempt` and `FenceExcludes`
  follow.
- `Facts`: `Spec => []FactInv`, with what the remaining properties rest on: the documents of
  an operation follow the protocol (`ProtocolInv`), what is delivered is a prefix of them
  (`DeliveryInv`), the request on the wire and the answer are those of the documents
  (`WireInv`), and what a document says of the provider is so (`TruthInv`).
- From it `AuditsPass` (the code's own audit never fails), `ReleasedWhenSettled`,
  `ReportsAreTrue` and `DeliveryGoesOn`. All safety properties of the run are proved.
- `WriterImplementsWriteOnce`: the refinement of `WriteOnce`. An intent is the newest of its
  target because every capture with an intent was frozen before (`IntentsAreFrozen`); nothing
  else is outstanding at the marker because an open attempt holds the target (`FenceInv`);
  and a finish reports what became of the request because its last document is true of the
  answer (`TruthInv`). It needs one fact more, `RefusalInv`: what was refused by its own store
  had an intent, so an operation that is prepared was not withdrawn before.
- `WritesAreSerialized`: `Serialized` and `GoesForward` of `WriteOnce`, proved of its steps and
  carried over by the refinement. That no write of an older decision takes the place of a
  newer one's rests on `Serialized`: only the outstanding operation is pending, and it is the
  newest that was ever started.

The assumptions are `ConstantsAssumption` (a finite set of targets, natural bounds,
distinct principals).

`CrmPollProofs`, for any sets of ticks, targets and inputs, any order of the targets, any
contention and any discoveries by others:

- `Inductive`: `Spec => []IInv`. `QueueAudit` needs that a tick in state `waiting` or later has
  members in the states that go with it (`MemberInv`); `ReadsAreFenced` that a target is held
  exactly by the member at work on it (`FenceInv`) and what the runner has established where
  it is (`WorkInv`); `ReportsAreTrue` that what was accepted is in the ledger and that evidence
  and decisions come only from frozen submissions (`PlanInv`, `DomainInv`);
  `CoalescedIsCovered` that the read under way started after the tick came (`CoverInv`).
- `QueueIsInOrder`, `TargetsAreFenced`, `ReportsHold`, `DecisionsStandOnGrounds`,
  `CoalescedAreCovered` and `HeldOnlyForCause`: the six properties of `poll_queue`.

`CrmTokensProofs`, for any set of processes and of sessions, either rotation and any bounds:

- `Inductive`: `Spec => []IInv`. `GrantedOnce` needs `ClaimInv` (a claim that may still be
  used is the visible record, synced, and the only one, because it is taken from a ready
  record and only its owner moves it on) and `GrantInv` (no record from before a used claim
  can come back after a power loss). `ReadyIsUsable` needs `TokenInv`: a token is in one
  place, a record, a refresh or an authorization, so that spending the claim's token touches
  no other record. `ExchangedOnce` needs `SessionInv`: a session is pending once or in one
  callback's hands.
- `ClaimsAreGrantedOnce`, `ReadyRecordsAreUsable`, `CodesAreExchangedOnce` and
  `RecordsFollowEachOther`: the four properties of the run `tokens`. `TypeCorrect`: its
  type invariant.

The one assumption is that the bounds are natural numbers and the rotation is one of two.

`LedgerProofs`, for any set of well formed envelopes, any lookback and any bounds:

- `LedgerInductive`: `Spec => []IInv`. That a chain stays linear and that one result is
  effective needs `IdInv` (an id is recorded once) and `SupersessionInv` (what an event
  supersedes was recorded before it, so nothing supersedes an event that is yet to come).
  That a result is reproducible needs that its cutoff lies before it (`OriginInv`), and the
  lemma `AttributeIsStable`: the policy reads nothing past its cutoff, so its value is the
  same over every ledger with the same beginning.
- `ChainsAreLinear`, `EffectiveResultIsUnique`, `ResultsReproduce`: three properties. That the
  effective result is the one of the newest snapshot follows along the chain
  (`NewestIsAdmitted`): the collector compares a new result with the one it replaces only.
- `CreditIsEarlier`: `CreditLooksBack`, from `ResultsAreReproducible` by what the policy
  accepts (`UsableAction`) and passes over (`ReachableIsEligible`), and from `ActionInv`, since a result that names an action credits
  the decision of the action, whose time only the collector's check of the action bounds.

The assumptions are `SubmittableAssumption` (the envelope schema), `BoundsAssumption` (natural
bounds) and `IdAssumption` (the id of a result is never the absent reference).

`ProvenanceProofs`, for any envelopes of the three versions in any order:

- `CapturedInductive`: `CapturedSpec => []PInv`. It contains the invariant of the ledger, so
  what `LedgerProofs` concludes holds with captured events in the ledger too; the lemmas of
  that module are stated about one append, whoever makes it.
- `InputsAlwaysResolve`: `InputsResolve` says how many rows a cited version has; the invariant
  keeps apart that an identity is minted once (`VersionInv`) and that a row with the
  preserved value was there before the decision (`ResolveInv`).
- `OriginalDecisionIsOne`: `OneOriginalDecision` is inductive beside the rest, because an
  append leaves the earlier decisions of an observation as they were.
- `FactsStayWithTheAccount`: what the metrics credit to a decision is of its account.
- `CapturedDecisionsReproduce`: a replay of a captured decision succeeds however the ledger
  has grown. `ReplayInv` keeps what the collector required at admission, and the lemmas under
  `ReplayFollows` show that none of it reads anything that an append can change.
- `VerdictsStaySealed`: `VerdictsAreSealed`, for decisions of all versions, those that do not
  reproduce included. What is read is the same after an append because an identity of
  evidence is minted once (`VersionInv`), the artifact stays registered (`RegistryInv`), and
  the context was in order and stays so (`ContextIsInOrder`).
- `MetricsStay`: `InsightsAreReproducible`. The observations and the population at a cutoff
  read that snapshot only, except for the account of a decision, which may be recorded
  anywhere in the ledger: `RegistryInv` says that it was there from the start.
- `ComparisonsExplain`: `ComparisonExplains`. The score of an evaluation is a sum over a finite
  set of factors, one for a key, so it can be written as a sum over the keys of both artifacts
  (`ScoreByKeys`); the difference of two such sums is the sum of the differences, and the keys
  whose change is "unchanged" add nothing (`ChangesAddUp`). That a threshold above the
  positive weights is out of reach is `ScoreIsBounded`.

It assumes `CapturedAssumption` beside the assumptions of the ledger.

`AttributionProofs`, for any number of concurrent runs, attempts and kept envelopes:

- `CommandImplementsLedger`: `ServiceSpec` refines `Ledger!Spec`, whatever runs race, crash or
  are submitted again. A submission is a step of the ledger because what a run or a caller
  holds is an envelope built from a snapshot (`RunInv`, `Envelopes`); every other step
  stutters. `CommandKeepsResultsUnique` carries a theorem of the ledger over.
- `ServiceInductive`, and from it `RefusedWhenOvertaken`: `RefusedOnlyWhenOvertaken`. The
  argument goes through the collector's checks one by one, and for each that fails names
  the event after the snapshot that made it fail. That the effective version has no
  successor within the snapshot is a lemma about the walk along a chain, proved by a least
  counterexample, since a walk moves to later positions only.

It assumes `DerivedIdAssumption` and `AttemptsAssumption` beside those of the ledger.

`HubspotProofs`, for every finite set of units, any callers, any evidence versions and
occurrence times, and all bounds:

- `Inductive`: `Spec => []IInv`. `CaptureInv` gives each capture its place in the order;
  `SubmissionInv` ties plans to the ledger. `OutboxInv` says of each observation what the
  collector will ask of it, over the outbox before it instead of the ledger: it follows the
  newest one of its operation (or that is settled), its revision is the next or the newest,
  and no other operation is unknown where the contract says so. `LedgerInv` says that the
  ledger is a prefix of the outbox, so the two agree when its turn comes. `StateInv`,
  `RequestInv` and `RevisionInv` tie the state of an operation to its newest observation, to
  the fake's request and to the order of the captures. `CallsInv` is what a call knows at
  its stage: the generation it holds, what its flush leaves behind, and that one call at
  most has an unused marker of an operation, which it finds as it marked it.
- `AdapterImplementsWriteOnce`: the refinement of `WriteOnce`. The step that is hard to see is
  a preparation: it supersedes what is unsent in the history that it read before it locked the
  store, and `WriteOnce` asks for all that is unsent by then. They are the same
  (`UnsentIs`): the revision it takes must be above all others, so every other intent has an
  observation within that history (`PreparedBefore`), and what is unsent now was unsent in
  every earlier part of the outbox (`UnsentBefore`). No run checks this refinement; the theorem
  does without one.
- `CapturesAreInOrder`, `RejectionsAreOvertaken`, `RefusalsAreOfSettled`, `SettledHasProof`
  and the action property `DecisionsAreNotUndone`: the five properties of the run `hubspot`.
  The last one follows from `RevisionInv`: only an unknown operation changes the company's
  properties, and its revision is the highest of those that may ever have been sent.

The assumptions are `CaptureAssumption` and `WriterAssumption`.

Only model-checked:

- Liveness (`OutboxDrains`, `TerminalReleases`, `EveryTickSettles`, `EveryVersionAttributed`,
  `ResultsBecomeCurrent`), which rests on fairness and `ENABLED`. Every safety property of a
  passing run is the statement of a theorem.
  `TypeOK` of `CrmWriter` and the type invariants of the others are parts of the inductive
  invariants, and are proved instead of being checked by a run.

Induction over data. The induction theorems of the library take a predicate as a parameter,
which the provers cannot instantiate. Sums are within reach all the same: `AllNaturals` and
`AllSubsets` of `FiniteFacts` are inductions about a set that contains zero and successors, or
the empty set and every extension by one element, and the set is then the one of the
numbers or the subsets of which a fact holds. `SumsExist` shows with the first that the fold
behind `SumFunction` of the community modules is a function of the subsets, whatever
element it takes first; the facts about sums follow with the second.

## 5. Findings

- `poll_contention`. Contention of the ledger at a version 3 stage ends a frozen
  submission for good, and with it its tick and every later one: `submit.py:459` compares
  with the reason the collector uses for version 2 envelopes, while `service.py:159`
  answers `crm_admission_contended`. Contention at a version 1 stage is raised, recorded
  as unknown and retried, which `poll_live` confirms.
- `poll_wake`. The runner clears its wake event before it tries the execution lock; if a
  status check of a writer capable runtime holds the lock just then, the admitted tick
  waits for another request. The counterexample is `Dispatch`, `StatusBegins`, `RunnerBusy`,
  `StatusEnds`, and then nothing: no step of the run fails in any other way.
- `hubspot_stuck`. `reconcile_intent` looks whether it can finalize and, if not, observes
  the operation again, in a second transaction that does not look again. If another call
  has observed and delivered the settled state in between, the second observation is
  appended after a terminal one. The collector refuses it, the flush stops there, and no
  later observation of any operation is delivered. `RefusedOnlyOnceSettled`, which
  holds, says that this is the only way to get there.

What no run reports as violated but a reader should know: if another caller discovers
the account or registers the artifact between the freeze of a submission and its
delivery, the frozen plan can never be verified and its member stays blocked
(`HeldForCause` says that this is the only cause). The states `retryable` and
`not_sent_*` of a submission and the refusal of mixed evidence are unreachable with this
collector and one runner, so `CrmPoll` has no step for them.

Of the HubSpot adapter: a reservation that is abandoned while its operation is
outstanding is taken again by the next reconciliation, which keeps `SettledWithProof`;
and when another caller delivers the marker of a send, the caller who would have sent
does not, so the operation is never sent and its company stays held. Both are what the
code intends, the second at the price of an operator's intervention.

## 6. Abstractions

- Timestamps of the writer are left out: its clock is assumed not to run backwards.
  In the ledger instants are small numbers, so that ties and the edges of the lookback
  occur.
- Hashes are the values they are computed from: an artifact stands for its content, a
  capture for its document, and an identity minted from a document (a unit, a version of
  evidence, an observation) is the record of the parts it digests. Two are equal when the
  digests are, collisions aside.
- Checks of stored rows against their own bytes and hashes are left out: no append leads
  to a row that fails one. A replay keeps the failures that a ledger can lead to.
- A rule is the record its text parses to. A Salesforce record is, per field, available,
  unavailable or absent; an input is mapped from the fields that `Fields` names, with its
  date where the mapping has one.
- Metrics are counts and pairs of counts. Rounding and the layout of the report are left out.
- The fake CRM's answer to a request is its effect, at once or later, and an observation
  keeps of the fake what `Classify` reads: whether it is quiet, rejected, and complete.
- The deliveries of `CrmPoll` see of the ledger what the pipeline puts there and the two
  kinds of event another caller can get in its way with; the rest of the ledger's rules
  are `Ledger`'s. Every read is a new observation, so no evidence is reused.
- An ingest is one step. SQLite serializes writers, and a transaction that read before
  another one committed cannot upgrade to write: it fails and rolls back, which is
  no step here and a lost answer in `AttributionService`.
- Of the credentials `CrmTokens` keeps the refresh token; the access token and the
  metadata are written and verified with it. `TokenStore.replace` is left out: only the
  tests call it. A rename that the directory was not synced after may be undone by a
  power loss, one that it was synced after may not.
- One decision class and one attribution policy exist in the code and in the model.

## 7. Not modelled, and what could come next

- Read control (`read_control.py`) is the one stateful part without a module. It admits
  one approved tick into the queue that `CrmPoll` models. Most of its lines compare
  documents with each other; a model would be about the order of its three writes
  (admission file, tick, result file) over crashes.
- Of the HubSpot adapter: reprocessing a notification under another selection, mappings
  that are not supported, differing account names, freshness refusals that come from
  the contents of a document, and copies of the store file.
- Of the CRM adapter: `CRMStore.acquire`, `release` and `abandon` and the direct
  `capture_and_submit`, which only tests call; retries of reads; the process lock, which
  refuses a second process outright.
- The synthetic dataset and the public demo run once, over no state of their own; web pages
  and command lines render. Field formats, JSON canonicalization and the qualification of
  the operational directory are data and pure I/O.
