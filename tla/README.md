# Formal model of market-regime-alpha

This directory models the parts of `market-regime-alpha` in which several
processes, transactions or failures meet: the durable Runtime of the target
database, the admission rules that decide which process may write, owner
commands under their receipts, the artifact store and its garbage collection,
the seal on held-out labels, and the two services that touch the world outside:
the collection of a prospective archive and the delivery of the daily report.
The specifications are TLA+; TLC checks them on small instances, and TLAPS
proves the invariants that matter most for all values of the constants.

Paths below are relative to `src/src/market_regime_alpha/` of the repository
unless they start with `docs/` or `tests/`; `001_baseline.sql` and
`008_backtest_exploratory_holdout.sql` are in `infrastructure/postgres/migrations/`.

## 1. The system

A Python modular monolith over one PostgreSQL database, a content-addressed byte
store and several command line entry points. Its core is a set of *owner
commands*: each opens a unit of work, takes a command receipt under an
idempotency key, locks its rows, checks them, writes them with an audit row, and
commits. Long-running work is a *Run* of *Steps*; each try of a Step is an
*Attempt* with a lease and a fence.

| Component | State it keeps | Operations | What makes it correct |
|---|---|---|---|
| Runtime store (`infrastructure/postgres/repositories/runtime.py`, triggers in `001_baseline.sql`) | rows Run, Step, Attempt | insert, start, claim, start Attempt, heartbeat, succeed, fail, recover, expire, resume | one live Step per Run; rows agree; a lapsed claim has no result; dependencies first; an ended Run is frozen |
| Runtime application (`runtime/application/service.py`) | none of its own; one transaction per command, two scans per sweep | the commands above, `recover_expired` | sweeps on stale scans are harmless; a Run settles |
| Operation admission (`infrastructure/postgres/prospective_operation_session.py`) | two advisory locks, a supervisor session with scope and own Attempts | start a supervisor, enter a scope, admit a claim, admit a connection, retained connections | who holds what excludes whom |
| Daily delivery (`interfaces/daily_delivery.py`) | local state of `deliver`, published responses, the remote channel | register, recover, inspect, resume, claim, start, send, publish, fail | at most one accepted message; record and Run agree |
| Runtime domain model (`runtime/domain/model.py`) | value types | states, edges, retry policy, DAG validation | edges are those of the trigger |
| Unit of work, pool (`infrastructure/postgres/uow.py`, `pool.py`) | a connection | begin, commit, roll back | a connection is admitted before use |
| Artifact store and garbage collection (`runtime/application/artifacts.py`, `infrastructure/artifacts/local.py`) | bytes, artifact rows | publish, verify, scan, quarantine, delete | bytes in use are never deleted |
| Command failure and finalization (`runtime/application/command_failure.py`, `research_qualification/application/_command_support.py`) | receipts | execute under a key, replay, retry, record a failure after a rollback | one effect per key; a failure never hides a success; receipt and Attempt agree |
| Prospective archive runtime (`market/application/prospective_runtime.py`, `archive_operations.py`) | one Run per generation, one Step per slice, terminal rows | register, sweep, recover, run the slices that are due | one call of the provider per slice; the terminal row is what the evidence says |
| Market capture and normalization (`market/application/capture.py`) | Captures, receipts of rejections | ask, bind, normalize | a Capture is bound once, under a live claim |
| Partitions, experiments and holdout (`repositories/backtest_holdout.py`, `queries/outcome_inputs.py`, `008_backtest_exploratory_holdout.sql`) | reservations, openings, commitments, Evaluations | reserve, open, commit, read labels, evaluate, train | labels of a reserved window reach the opened Evaluations only |
| Daily research service (`interfaces/daily_service.py`) | phases of a day | call collection, research, delivery | sequencing under the supervisor |
| Selection, targets, candidates, outcomes, evaluation, model use, decision support | append-only facts | owner commands, numeric code | exact inputs |
| Retained account family (`application`, `execution`, `position`, `portfolio`, `platform`, `persistence`) | the older account database | its own commands | never beside a canonical writer |

They interact through the database: a command's rows are the next one's input,
row locks order commands on one Run, and two session-level advisory locks order
processes. There are no callbacks; the only message that leaves the system is
the report.

What is hard here is time and partial failure: leases that lapse while a worker
is stalled, sweeps that act on what an earlier transaction saw, supervisor
connections that drop without the process noticing, replayed commands that are
handed an old claim, remote sides whose answer may be lost, files and rows that
cannot change together, and transactions that decide on a snapshot.
`PROJECT.json` lists each such hazard at its line with the properties that
would catch it.

## 2. Modules

| Module | Models | Role |
|---|---|---|
| `RuntimeStore` | `repositories/runtime.py`, step trigger | rows, one operator per repository method, and what the rows satisfy between two transactions |
| `StoreProofs` | | TLAPS proofs about `StoreSpec`: its invariants, action properties and that it implements `RunLedger`; the proofs about Runtime, delivery and collection rest on them |
| `StoreCommands` | | the store under any callers (`StoreSpec`), and what its rows promise whoever calls |
| `RuntimeService` | `runtime/application/service.py` | who calls them, interleaved: sessions, holders, sweeps, clock |
| `RunLedger` | | abstract specification: what the Runtime promises callers |
| `StoreRefinement` | | the mapping from the rows to the ledger, `ImplementsLedger` |
| `RuntimeLiveness` | | fairness, `RunSettles`, `ExhaustedLeaseFails` |
| `RuntimeProofs` | | TLAPS proofs that `RuntimeService` obeys the store, and what follows |
| `OperationAdmission` | `prospective_operation_session.py` | locks, supervisors, scopes, claims |
| `AdmissionProofs` | | TLAPS proofs about it |
| `DailyDelivery` | `interfaces/daily_delivery.py` | `deliver`, on top of `RuntimeStore` |
| `DeliveryProofs` | | TLAPS proofs about it |
| `ArchiveCollection` | `market/application/prospective_runtime.py`, `archive_operations.py`, `capture.py`, `archive.py` | a tick of the collection and the slice it executes, on top of `RuntimeStore` |
| `ArchiveProofs` | | TLAPS proofs about it |
| `ArtifactStore` | `runtime/application/artifacts.py`, `infrastructure/artifacts/local.py`, `repositories/artifacts.py` | publish, verify, scan, delete over files and rows |
| `ContentLifecycle` | | abstract specification: what the artifact store promises; `ArtifactStore` holds the mapping, `ImplementsLifecycle` |
| `ArtifactProofs` | | TLAPS proofs about it, the refinement included |
| `CommandReceipts` | `_command_support.py`, `command_failure.py`, `runtime_finalization.py` | one owner command under its key |
| `CommandProofs` | | TLAPS proofs about it |
| `HoldoutSeal` | `repositories/backtest_holdout.py`, `queries/outcome_inputs.py`, triggers in `008_backtest_exploratory_holdout.sql` | reservation, opening and the ways to a label |
| `AtomicSeal` | | abstract specification: the seal with one step per transaction; `HoldoutSeal` holds the mapping, `ImplementsAtomicSeal` |
| `HoldoutProofs` | | TLAPS proofs about it, the refinement included |
| `MC...` | | instances for TLC, one module for each of the specifications above that runs |

`DailyDelivery` and `ArchiveCollection` compose with the store, not with
`RuntimeService`: they claim by name the Step they want, so their commands are
the store's operators directly, with the receipts that replay them beside. What
the store owes its callers, and what they owe it, is a contract: `StoreNext` is
any repository method at any time, except that a claim commits over an idle Run
(`TakeClaim`), which `claim_next` reads but does not lock. All three callers are
proved to take steps of `StoreNext` only, and the properties of the rows are
proved once, of `StoreSpec`.

### Correspondence with the code

* **Rows.** `runState`, `stepState`, `fence`, `current` are columns;
  `attempt[s][n]` is the Attempt row number `n` of Step `s`; `tried` is
  `max(attempt_no)`. States that no repository method writes (BLOCKED,
  CANCELLED, SKIPPED) are left out, and `StepEdges` is the trigger's list
  restricted to the rest.
* **Atomicity.** A repository method locks the Run, the Step and the Attempt row
  before it looks, so it is one step. `claim_next` is two, `AdmitClaim` and
  `CommitClaim`: its candidates come from one READ COMMITTED snapshot, and
  `FOR UPDATE SKIP LOCKED` looks again only at the Run and Step row it locked,
  not at the subqueries about other Steps. What closes that gap is the admission
  lock, and the mutant of `AdmissionFree` shows that it does. The unique index
  `runtime_attempt_one_live_idx` is not modelled: the properties must hold
  without that safety net.
* **Holders.** Nothing in the database ties a claim to a living worker. Any claim
  ever made may be presented at any time, whether the worker is slow, restarted or
  was handed the claim again by a replay, so `BeginWork`, `Beat`, `Succeed`,
  `Fail` take any Attempt. A worker that dies just issues nothing.
* **Order.** `ORDER BY ordinal` in `claim_next` and the order of a sweep's items
  are abstracted to any choice.
* **Time.** A lease is a number of ticks; a deadline has passed or not; a backoff
  has elapsed or not.
* **Sweeps.** `recover_expired` is `ScanExpired`, `RecoverOne` per item,
  `ScanDeadlines`, `ExpireOne` per item, `FinishSweep`; an item that raises is
  `RaiseInSweep`, which abandons the rest as the code does.
* **Admission.** A `Run` stands for all Runs of one scope and `Kind` for the kind
  of scope; a `Slot` is an Attempt row while live and is reused afterwards.
  A handover is two steps: the look under the admission lock with the change of
  scope, and the look at conflicting Attempts after that transaction.
* **Delivery.** `Check` is `before_action` or `canonical_writer_admission`; the
  command it precedes is a later step, so the lock may be lost in between.
  `claimed`, `started`, `resumed` are receipts by idempotency key. `Send` is the
  adapter; ACCEPTED stands for DELIVERED too. Entering the scope and the first
  ownership check are one step (`Enter`); the scan and the transaction of a
  one-item sweep are folded, since `RuntimeService` covers that gap. A plan
  frozen by an older version may expire before or after the target window starts,
  hence the independent `begun`. A second `failed:n` receipt is not modelled
  because the fence already rejects the second failure.
* **Collection.** A Step is a slice, its deadline the end of the slice's window.
  `Check` is `before_action`: the lock must be held, and other reasons (Attempts
  of others, resources) may refuse, so a check may fail at any time. `claimed`
  is the receipt `claim:<n>`, replayed without a look. `first` tells whether
  `requested_at`, read when the slice is loaded, comes before the start of the
  Capture: certain while nobody has asked, open (`Requested`) while another
  process is about to, false afterwards. The abstractions let in more than the
  code does: the windows are open from the start, so NOT_DUE does not arise, and
  a refusal by `predeclare` is not tied to its reason. The maintenance Run of
  the sweep has rows of its own and is left to `RuntimeService`. The archive
  commands need no receipt in the model: each ends its Attempt in its own
  transaction, so a replay under the same claim is stale. `run_due` sends no
  heartbeat, so neither does the model. Two terminal rows for one slice are
  rejected by the primary key, which is an exception in whoever is second
  (`Falter`). A Capture that says NO_MATURE_INTERVAL completes the Step without
  a terminal row, and the sweep later records MISSED.
* **Artifacts.** `object` and `vault` are the two directories, `row` and `cand`
  the rows. Each transaction and each file operation under its hash's file lock
  is one step; `Abandon` ends an operation between any two, be it by a death or
  an exception. `bound` are the references that `gc_status` counts, `loose`
  those it does not. `Decay` is damage from outside.
* **Receipts.** The receipt is inserted PENDING and ended by the same
  transaction, and `start` waits for the holder of the key, so a transaction is
  one step and nobody sees PENDING. A business transaction that rolls back
  changes nothing; what follows (the recorder, the preflight, the retry, the
  executor that fails what raised) are steps of their own, because the same
  command may succeed elsewhere in between. A lost commit answer is a step that
  commits and raises.
* **Holdout.** Transactions overlap. Each is a step that evaluates its guard and
  takes its lock, and a later step that commits. One advisory lock is exclusive
  for reservations and openings, shared for commitments and guarded reads.
  Sessions of the Calendar are numbers up to `horizon`, which grows; a label
  whose session is not known yet counts as inside the window, as in the code.

## 3. What is checked

Each run takes between a few seconds and a minute.

| Run | Instance | Shows |
|---|---|---|
| `runtime_safety` | 2 Runs, 4 Steps (one needs success, one only an end, one remote, two dated), budgets 2 and 1, lease of 2 ticks, 2 sessions, 2 sweeps; symmetric | the safety properties of `RuntimeStore` and `StoreCommands`, and `ImplementsLedger` |
| `runtime_liveness` | 1 Run, 3 Steps: two in sequence, the second remote and dated, and a dated one beside them with a budget of 1 | `RunSettles` |
| `runtime_exhausted_lease` | the same | finding 1 (expected violation) |
| `delivery_safety` | 2 processes, budget 3, 2 sends per call, lease of 1 tick; symmetric | the delivery properties, `ImplementsLedger`, and `DeliverGoesForward` |
| `delivery_exhausted` | 1 process | finding 2 (expected violation) |
| `admission_safety` | 2 narrow, 2 supervised, 2 retained clients, one Run per kind, one recoverable, 2 Attempts; symmetric | the admission properties |
| `artifact_store` | 1 hash, 1 publisher, 1 verifier, 2 scans, 2 deletions; symmetric | rows, candidates and directories agree, nothing in use is collected, `ImplementsLifecycle` |
| `artifact_loose` | 1 hash, 1 publisher, 1 scan, 1 deletion | finding 3 (expected violation) |
| `command_receipts` | 2 callers, 1 Step with 2 Attempts, 2 requests, 3 tries per call | the command takes effect once, receipt, Attempt and answers agree; `EveryCallEnds` |
| `holdout_seal` | 2 connections, 2 reservations with overlapping windows, 3 Runs, 2 commitments, 2 Evaluations, 4 sessions; symmetric | the seal holds; `ImplementsAtomicSeal` |
| `archive_collection` | 2 processes, 1 slice, 3 Attempts, lease of 1 tick; symmetric | the collection properties |
| `archive_retry` | the same | finding 4 (expected violation) |

**Bounds.** Two of each actor suffice for every hazard listed: each is a race of
one actor with one other. Budget 2 has a first and a last Attempt; budget 3 is
what delivery and collection use. A lease of 2 ticks can be renewed before it
lapses; where nobody renews, 1 is enough. One Step of each kind per position
reaches every verdict of `fail_attempt` and `recover_expired_attempt`. Hashes
share nothing (locks, rows and files are per hash, and a scan goes through them
one by one), so one hash has all races. Slices share only the Run, whose rules
`runtime_safety` covers with several Steps. `MaxTries` is the code's three
attempts at a transaction. Four sessions hold two windows that overlap, a
decision before both and a label due after the first. No state constraint cuts
behaviours off: the budgets bound the Attempts, and everything else is finite.
The work of `holdout_seal` is finite, so it may end; every other specification
is checked for deadlock. The symmetries are over interchangeable processes that
no property names, in runs of invariants and action properties; the runs with
fairness use none.

**Only proved.** The type invariants `TypeOK` of all modules are theorems
(section 5) and need no run; so are `FencesGrow`, `SuccessIsLast`,
`QuarantineIsOwned`, `AttemptEndsOnce`, `CallsGoForward`, `ReservationsDisjoint`
and `ReservedUncommitted`. The last two are what `AtomicSeal` asks of a
reservation, so `ImplementsAtomicSeal` checks them too.

**Properties worth reading first.**
`OneLiveStepPerRun` and `CurrentAttemptIsTheLiveOne` relate rows that different
transactions write. `StepsGoForward` is what makes a state that is read in one
transaction and met again in another the same state. `EndedRunIsFrozen`,
`LapsedAttemptHasNoResult` and `RemoteEffectIsNeverRetriedBlind` say what no step may do. `AtMostOneAcceptance`
is the purpose of the delivery design; its margin is thin:
process A may lose the lock after its check and send late, and what saves the
reader is only that nobody resumes without a published proof of absence, which
A alone can publish. `ResumeHasProof` depends on resume keys that name the
number of Attempts read, and so does `DeliverGoesForward`: with one key for all
Attempts a replayed resume sends the loop back to where it came from for ever.
`SupervisedClaimIsAlone` holds although the check is
made on one connection and the claim on another. `HeldIsNotCollected` and
`ErasedAfterDecision` hold although a scan, a publisher and a deletion act on
what they saw earlier: every transaction that decides looks at the candidate
again. `AttemptMatchesReceipt` and `AnswersAreTrue` relate three parties after
any mixture of retries and late failures. `SealHolds` depends on a guard that
is evaluated under the lock and still true at commit, and `ImplementsAtomicSeal`
says this of every guard the promise rests on. `OneProviderCall` is
stronger than the lock: only the first Attempt may ask, whoever runs the others.

**Fairness.** In `RuntimeLiveness`, leases and backoffs run out (the clock).
A holder that keeps its lease alive begins and finishes its work; one that died
lets the lease lapse, so weak fairness disabled by the lapse is all that is
asked. Claim loops and sweeps are called again and again, so claims and items
that are possible infinitely often are taken up (strong fairness): a sweep may
die anywhere, but not at every sweep before the same item. No fairness for
resuming a WAITING Run: an operator must decide that, so WAITING counts as
settled. `Wedged` names the two exceptions, which are findings 1 and 2. The
instance has one Run because every caller in the program sweeps one Run at a
time (`run_id` is given; the CLI's `recover` requires it), so that items of
another Run never wait behind an item that raises; only tests sweep without it.
The items of one sweep that can be left undone are an expired lease and the
deadlines of other Steps. In
`CommandReceipts` (`FairSpec`), a caller that is in a call goes on: it is
straight-line code that the database answers in the end. That a call ends
(`EveryCallEnds`) is not obvious because retries, replays and the failure
boundary are nested and one leads back into another.

**Mutants.** Every property has one: a plausible bug in a mapped definition
(a dropped guard, a fixed key, a forgotten holder) under which TLC finds it
violated. Mutants stand next to the definition they replace.

## 4. Findings

1. **A Step whose last Attempt lapses before it starts is never failed.**
   `recover_expired_attempt` writes CLAIMED to FAILED
   (`repositories/runtime.py:712`), which `guard_runtime_step_update`
   (`001_baseline.sql:759`) rejects. Each sweep raises on the item and reaches
   no later one; the Run stays RUNNING. The retry table
   (`docs/archive/pre-hygiene/docs/architecture/System-Architecture.md:175`)
   wants FAILED.
2. **An expired delivery may be resumed without budget.** After three proven
   absences, a call that comes after the expiry takes the expiry branch of
   `_deliver_frozen` (`interfaces/daily_delivery.py:352`) before the check for
   three Attempts (line 367). The resume makes the Step READY; the claim and
   the deadline sweep then raise on a Step that "exhausted attempts before
   deadline recovery", in this call and in every later one. No message is sent
   twice, but the Run never ends and the caller sees an error instead of EXPIRED.

3. **An artifact may be collected while a row refers to it.** `gc_status`
   (`infrastructure/postgres/repositories/artifacts.py:229`) counts references
   from eight tables. Some thirty other foreign keys bind an artifact, as
   `universe_revision.scope_artifact_id`, and nothing inserts the
   `artifact_dependency` row that would make up for them. Such an artifact is
   quarantined after its grace. What is counted or pinned is safe
   (`HeldIsNotCollected`).
4. **A retry cannot bring a prospective Capture to its end.** `execute_slice`
   takes the start of a replayed Capture as `requested_at` only in the
   RETROSPECTIVE_BACKFILL lane (`market/application/archive_operations.py:171`).
   A prospective Attempt that dies between its Capture and its observation is
   retried with a `requested_at` after that start, which
   `ArchiveCaptureObservation` (`market/domain/archive.py:307`) rejects as "out
   of order". The Run fails for good and `predeclare` refuses the series from
   then on.

Observations short of a finding, which no run checks: a failure of a Step that
is not `required` still fails its Run, and therefore a TERMINAL dependency is in
effect as strong as REQUIRED_SUCCESS (`DependenciesFirst` states the strong form
and holds). A caller with a claim whose commit answer was lost retries and finds
its own claim ended: it gets a stale fence, where the docstring at
`_command_support.py:59` speaks of a replay; the command has taken effect once
all the same. A reservation does not ask whether the Run it holds labels for is
already bound to the Runtime. The recovery of the prospective runtime
(`prospective_runtime.py:609`) sweeps its Runs one after another, so a Run that
is wedged as in finding 1 also keeps it from the Runs behind it.

## 5. What is proved

For all values of the constants that satisfy the assumptions of the modules:
`PlanAssumption` and `BudgetAssumption` (a plan whose dependencies stay inside a
Run, budgets of at least one), `ClientAssumption` (the kinds of client are
distinct), `DeliveryAssumption` (the report is the one Step, remote and dated),
`CollectionAssumption` (no slice is
remote and every slice has a window), `TokenAssumption`, `RequestAssumption` and `HoldoutAssumption` (types
of the constants, and distinct placeholders):

| Theorem | Statement |
|---|---|
| `StoreProofs!StoreRows` | `StoreSpec =>` the invariants of the rows |
| `StoreProofs!StoreFrozen`, `StoreLapsed`, `StoreRemote` | `StoreSpec =>` the action properties of the rows |
| `StoreProofs!StoreForward` | `StoreSpec => StepsGoForward` |
| `StoreProofs!StoreHistory` | `StoreSpec => AttemptEndsOnce` |
| `StoreProofs!StoreIsLedger` | `StoreSpec => ImplementsLedger` |
| `RuntimeProofs!ServiceObeysStore` | `Spec => StoreSpec` |
| `RuntimeProofs!TypeCorrect` | `Spec => []TypeOK` |
| `RuntimeProofs!OneLiveStep` | `Spec => []OneLiveStepPerRun` |
| `RuntimeProofs!CurrentAttempt` | `Spec => []CurrentAttemptIsTheLiveOne` |
| `RuntimeProofs!Fences` | `Spec => []FencesGrow` |
| `RuntimeProofs!EndedFrozen` | `Spec => EndedRunIsFrozen` |
| `RuntimeProofs!LapsedHasNoResult` | `Spec => LapsedAttemptHasNoResult` |
| `RuntimeProofs!RemoteIsResolved` | `Spec => RemoteEffectIsNeverRetriedBlind` |
| `RuntimeProofs!SuccessLast` | `Spec => []SuccessIsLast` |
| `RuntimeProofs!RunAgrees` | `Spec => []RunAgreesWithSteps` |
| `RuntimeProofs!Dependencies` | `Spec => []DependenciesFirst` |
| `RuntimeProofs!GoesOn` | `Spec => StepsGoForward` |
| `RuntimeProofs!EndsOnce` | `Spec => AttemptEndsOnce` |
| `RuntimeProofs!ImplementsRunLedger` | `Spec => ImplementsLedger` |
| `AdmissionProofs!AdmissionTypes` | `Spec => []TypeOK` |
| `AdmissionProofs!RetainedAlone` | `Spec => []RetainedIsAlone` |
| `AdmissionProofs!OneWriter` | `Spec => []AdmittedUnderOneWriter` |
| `AdmissionProofs!ClaimAlone` | `Spec => []SupervisedClaimIsAlone` |
| `AdmissionProofs!NarrowApart` | `Spec => []NarrowMeetsNoSupervisor` |
| `ArchiveProofs!CollectionTypes` | `Spec => []TypeOK` |
| `ArchiveProofs!AskedOnce` | `Spec => []OneProviderCall` |
| `ArchiveProofs!TerminalIsTrue` | `Spec => []TerminalMatchesEvidence` |
| `ArchiveProofs!TerminalStays` | `Spec => TerminalIsFinal` |
| `ArchiveProofs!CollectionObeysStore` | `Spec => StoreSpec` |
| `ArchiveProofs!CollectionIsLedger` | `Spec => ImplementsLedger` |
| `ArtifactProofs!StoreTypes` | `Spec => []TypeOK` |
| `ArtifactProofs!HeldIsSafe` | `Spec => []HeldIsNotCollected` |
| `ArtifactProofs!RowsTellTruth` | `Spec => []RowTellsTruth` |
| `ArtifactProofs!DirectoriesAgree` | `Spec => []OneRoot` |
| `ArtifactProofs!VaultIsOwned` | `Spec => []QuarantineIsOwned` |
| `ArtifactProofs!RowsAgree` | `Spec => []RowAgreesWithCandidate` |
| `ArtifactProofs!ErasureIsDecided` | `Spec => ErasedAfterDecision` |
| `ArtifactProofs!StoreImplementsLifecycle` | `Spec => ImplementsLifecycle` |
| `CommandProofs!CommandInvariant` | `Spec => []Inv` |
| `CommandProofs!CommandTypes` | `Spec => []TypeOK` |
| `CommandProofs!TakesEffectOnce` | `Spec => []EffectOnce` |
| `CommandProofs!AttemptsMatch` | `Spec => []AttemptMatchesReceipt` |
| `CommandProofs!ReceiptNames` | `Spec => []ReceiptNamesItsAttempt` |
| `CommandProofs!CallersKnow` | `Spec => []AnswersAreTrue` |
| `CommandProofs!ReceiptStays` | `Spec => ReceiptIsFinal` |
| `CommandProofs!CallsShorten` | `Spec => CallsGoForward` |
| `DeliveryProofs!DeliveryTypes` | `Spec => []TypeOK` |
| `DeliveryProofs!OneAcceptance` | `Spec => []AtMostOneAcceptance` |
| `DeliveryProofs!SentOnce` | `Spec => []OneSendPerAttempt` |
| `DeliveryProofs!OneResponse` | `Spec => []OneResponsePerAttempt` |
| `DeliveryProofs!AcceptanceAgrees` | `Spec => []AcceptedResponseIsTheSuccess` |
| `DeliveryProofs!ResumeProven` | `Spec => ResumeHasProof` |
| `DeliveryProofs!DeliveryObeysStore` | `Spec => StoreSpec` |
| `DeliveryProofs!DeliveryIsLedger` | `Spec => ImplementsLedger` |
| `DeliveryProofs!DeliveryGoesOn` | `Spec => StepsGoForward` |
| `DeliveryProofs!LoopGoesForward` | `Spec => DeliverGoesForward` |
| `HoldoutProofs!SealInvariant` | `Spec => []SealInv` |
| `HoldoutProofs!SealTypes` | `Spec => []TypeOK` |
| `HoldoutProofs!TheSealHolds` | `Spec => []SealHolds` |
| `HoldoutProofs!SelectedRead` | `Spec => []ReadBySelected` |
| `HoldoutProofs!NothingTrained` | `Spec => []NeverTrained` |
| `HoldoutProofs!WindowsApart` | `Spec => []ReservationsDisjoint` |
| `HoldoutProofs!NothingCommitted` | `Spec => ReservedUncommitted` |
| `HoldoutProofs!SealIsAtomic` | `Spec => ImplementsAtomicSeal` |

**Store.** `StoreInv` collects what the rows satisfy whoever calls the store:
types, pointer and fence agreement, no gaps in Attempt numbers, at most one live
Step per Run, and live Steps only in RUNNING Runs. It is preserved by every
store operator but `InsertClaim`, which needs that the Run is idle at commit
time: that is the one conjunct `TakeClaim` adds. The type invariant is not
inductive alone: that `tried` stays within the budget at a deadline or a claim
needs the checks there, and that `current` points to a budgeted number needs the
pointer agreement. `OthersOnlyReleased` says that at most one Step is written
besides the PENDING Steps that a success releases; so each property needs one
argument per repository method, at the Step it writes.

`RowInv` is the second inductive invariant, relative to the first:
`SuccessIsLast`, `RunFacts` (`RunAgreesWithSteps` Step by Step) and
`DependenciesFirst`. They need each other. A met TERMINAL dependency is a
success because a RUNNING Run has no failed Step; the Run row follows the Step
rows because beside a Step that is written nothing waits or has failed
(`RunningRun`); and `DependenciesFirst` survives because a success is never
undone. `RunOutcome` lists the four ways in which one step can leave a Step and
its Run. `StepsGoForward` and `AttemptEndsOnce` follow from both invariants:
a command finds the Step where its Attempt is, and what it closes is the newest
and live.

The refinement maps each repository method to one ledger action: a start to
`Open`, a claim to `Grant`, a success to `Finish`, a failure or a recovery to
`Drop`, `Park` or `LoseHeld`, an expiry to `LoseIdle`, a resume to `Unpark`; what
is left is a stutter. `Grant` needs both invariants: the Run was idle because the
claim leaves it with one live Step, and the predecessors are done because the
Step was READY.

**Who obeys the store.** A caller implements `StoreSpec` if each of its steps is
one of `StoreNext` or leaves the rows alone; everything proved of `StoreSpec`
then holds of it, the refinement of `RunLedger` included. For `RuntimeService`
the question is the claim, whose candidates were read earlier. `IInv` has the two
facts that carry it: at most one session is admitted, and every candidate of an
admitted session is a Step of an idle Run (`CandidatesAreIdle`). `NoNewLiveStep`
is the lemma shape that transports it over the other transactions. `deliver` and
the collection find the Run idle in the transaction that claims, so there the
proof goes through the actions, replays and stale presentations included.

**Admission.** Each rule follows from what the two locks allow, so the inductive
invariant is the conjunction of the rules with `AdmissionIsExclusive`: a
connection is admitted exactly while its transaction holds the admission lock,
and then no retained client shares it.

**Artifacts.** `Inv` ties the places that know of a hash to each other: the
files, the row, the candidate and what each process has seen of them. The
properties alone are not inductive, because processes act later on what they
saw: a scan moves or removes only bytes of a hash that is condemned by then
(`ScanHasGrounds`), a deletion erases only under a decision that is committed
(`DeleteHasGrounds`), and a verifier's verdict on bytes that nothing outside got
at still stands when it is written (`VerdictStands`). The refinement maps a hash to free, live, condemned or
gone by its row and its candidate; moving a file out of `objects` is the
abstract `Withdraw`, which needs `Inv` to know that the hash is condemned.

**Collection.** `Order` is why the provider is asked once. Only claim number 1
may ask. While a process owns the lock, the number of Attempts it read is current
(`OwnerIsCurrent`), so its claims are no replays, and claim 1 goes to an owner only for
a slice that nobody has tried. From there to the call it is alone with the slice
as long as it owns the lock or has passed the check (`FirstIsAlone`): whoever
else holds claim 1 got it by a replay and passes no check.
`Evidence` is why the terminal row is
true: a process is at a point that ends a slice only if the Capture calls for
that end (`PointMatches`), the Capture never changes once it is bound, and a
slice whose response was rejected has ended its Run (`RejectedEnded`), so no
later Attempt meets it. Both are relative to the types, which need that who
works on a slice has an Attempt (`WorkIsNamed`).

**Delivery.** A second message would need a newer Attempt, so the core is
`TriedIsSettled`: whenever the Step is READY, and for every Attempt but the
newest, what was tried is settled, that is, never started or proven not sent.
Only a resume makes a Step READY after an Attempt ran, and `ResumesAgree` is why
its proof is about the newest Attempt: every earlier one that had to be reconciled has
its own resume receipt, so a late resume is a replay. The one key that names no
Attempt, that of the resume after the expiry, is used by a process that owned
the lock when it had read the newest Attempt (`LeaverIsCurrent`), and while an
owner is about to claim nobody has used that key or is past the check to do so
(`OwnerIsCurrent`). Two processes never
send under one Attempt (`OneUser`): the key of a claim is the fence that an owner read, so an
owner's claim is new, and who gets a claim by a replay does not own the lock and
passes no check before START. `ProcessStep` and `OthersKeep` transport what a process knows
over the steps of the others.

That the loop of `deliver` goes forward needs a measure of what is left of a call
(`Left`): the sends, the ways that each of them takes (to a claim, to the end),
the Attempts that may still have to be resumed, and the places with their
checks, in lexicographic order. The jump back from a resume to the inspection is
the delicate step. It is progress only if the Attempt that was read is now
among the resumed ones or is no longer the newest, and the inspection must not
send the call to resume an Attempt twice. `LoopInv` adds the facts for that:
what has been resumed had to be reconciled, a Run that waits waits for an
Attempt that has not been resumed, and a call that leaves does not come back. No
step of anybody else may give a call back what it used up (`Onlooker`).

**Commands.** The four properties need `CallsAreSound` (what a call knows at each
of its points: its request is that of its Step, its Attempt was made, it has no
answer yet, and it rejects only a key that is taken) and `OpenHasNoResult`. A
step that writes neither receipt nor Attempt is one lemma (`MoveInv`); each that
does has its own. `CallsGoForward` is the argument behind `EveryCallEnds` for all
values of the constants: each step of a call lowers a rank that starts at five
times the number of tries, and no step of another call raises it. What it leaves
to TLC is that a call that can go on does.

**Holdout.** `SealInv` adds to the properties what a transaction relies on
between its guard and its commit (`PromisesHold`) and what the locks in force
exclude (`LocksHold`): while a transaction holds the advisory lock in its mode,
nobody can commit what would have made its guard false. Transactions without the
lock get by with facts that never become false again.

That `HoldoutSeal` implements `AtomicSeal` says more than the four properties:
whatever overlaps, each commit is a step of a specification without locks and
snapshots, whose guards look at the rows as they are at that moment. Each commit
takes its guard from its promise in `SealInv`. A settlement keeps no promise, as
its snapshot may be older than its lock; its label is still released because the
seal holds and a release is never taken back. Two things the code looks at are
not in `AtomicSeal`, because they need not be true at commit: that the Run of an
opening is not bound to the Runtime (`BindRuntime` takes no lock, so a binding may
slip in between) and what the Calendar knows.

**Only model-checked:** liveness (`RunSettles`, `EveryCallEnds`).
It stays with TLC, because the prover handles neither `ENABLED` nor
fairness; no model recurses over data. What is proved towards it are the
measures: `StepsGoForward`, `CallsGoForward`, `DeliverGoesForward`. That an adapter reports "proven not sent"
only when nothing was sent is an assumption of `DailyDelivery`, not a result.

## 6. Plan

1. *Done:* store, service, safety, ledger refinement, liveness; admission;
   delivery; artifacts with their abstract specification; receipts; the holdout
   seal and its atomic form; the collection of a prospective archive; the proofs of section 5.
2. The planning of the next generation (`predeclare`, `plan_next`): one
   registration per generation, gaps between generations.
3. Revocation of a model use while a forecast relies on it.
4. The phases of the daily service, as the caller of collection and delivery.
5. Pure functions: `validate_step_dag`, `RetryPolicy.delay_after`, ranking,
   against reference definitions over bounded inputs.

## 7. Not modelled

Numerical research code (features, forecasts, evaluation metrics) has no
behaviour over time worth a state machine, and it is most of the source. What a
normalizer makes of a response, and the facts behind it, is content that a
single transaction writes or rejects. The wrappers of Market, Selection, Outcome
and Decision commands have the shape of `CommandReceipts` and differ in what they
do with a stale claim (some look for the receipt first). Error codes that the
recorder writes are in no `RetryPolicy`, so a recorded failure is final for its
Step, and the model has no retry after one. Nothing outside the tests calls
`scan_orphans` and `delete_quarantined`, so no fairness of the collector can be
justified and that garbage goes away in the end is not claimed. How a Partition is
drawn, the Experiment rows and digests are abstracted to whether an Evaluation
has its planned Partition. Schema management, privileges and connection options
are deployment. The retained account family is left to its own tests except for
how its connections share the admission lock. Row-level
deadlocks are outside the model: the repository locks in one order (Run, Step,
Attempt), and PostgreSQL aborts whoever would close a cycle, which is an aborted
command here.

## 8. Running

    tlc -workers 2 -config MCRuntime.cfg MCRuntime
    tlc -workers 2 -config MCArtifactStore.cfg MCArtifactStore
    tlapm RuntimeProofs.tla        (and the other *Proofs modules)

`PROJECT.json` names module and configuration of every run, the source lines of
every definition, the mutant of every property and the hazards it is for.
