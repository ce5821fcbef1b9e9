# Verification of the security environment control plane

TLA+ models of the parts of this repository in which several actors, or one actor
that may stop at any point, change the same durable state: the lifecycle of cyber
ranges, the enrollment of workers, the scoring of competitions, the outbox between
the API and Temporal, real plan generation with the decisions it depends on, and
the installation of a controller. TLC checks the models on small instances; TLAPS
proves the results about enrollment, plan generation and the outbox, and one about
scoring, for every instance. Paths are relative to the repository (`src/`).

## 1. The system

The control plane is a FastAPI service (`apps/api`) over a SQL database, workers
(`apps/worker`) that execute what the API only records, Temporal between the two,
a management plane, installers, and a web UI. Every API request is one database
transaction (`deps.py`, `db.py`), committed before its response is written. The
engine's default isolation is READ COMMITTED; on SQLite `FOR UPDATE` does nothing,
so correctness rests on UNIQUE constraints and compare-and-swap updates.

| Component | State it keeps | Operations | What makes it correct |
|---|---|---|---|
| Range lifecycle (`services/ranges.py`, `secp_worker/range/execution.py`) | the range's state and residue verdict, operations, resource rows, numbered events | start deploy / reset / destroy, abandon, execute, refuse, fail, start and stop competition | one operation in flight, and the state says so; `ready` was observed; `destroyed` was proved; no resource is forgotten; nobody is wedged for ever |
| Local Docker provider (`range/local_docker.py`) | objects on a daemon | network, pull, run, verify, remove, confirm absence | reports only what it observed |
| Enrollment, controller (`worker_enrollment_contract.py`, `_repository.py`, `services/worker_enrollment.py`) | head, append-only history, receipts, nonce, signed offer | open, bind exchange, result exchange, revoke, recover | history chained to the head; invitation used once; retries answered truthfully; a closed enrollment never reopens |
| Enrollment driver (`enrollment_driver.py`) | ownership document, retry hint | bind, install ownership, report health, reconcile | owned before healthy; never believes a health the controller did not commit |
| Expiry sweep (`worker_enrollment_recovery*.py`) | none of its own | select, re-read, recover | an expired unfinished enrollment does not stay active |
| Competition scoring (`services/competitions.py`) | phase, submissions, awards | start, stop, submit, reset | one credit per team; attempts bounded; reset is complete |
| Worker ownership reset (`worker_ownership.py`) | ownership, hints, key | install, reset | an interrupted reset leaves no half-released identity |
| Outbox and dispatch (`dispatch.py`, `secp_worker/main.py`, `temporal_app.py`) | workflow runs, outbox rows; Temporal's executions | enqueue, read a batch, submit, mark, commit; take, finish, time out | `submitted` means taken; a committed request is executed |
| Plan-only activation (`services/plan_activation.py`) | dossier, evidence, authorization | create, record evidence, approve, revoke | a decision is never undone |
| Plan generation (`secp_worker/plan_gen`) | leases, attempts, results | check readiness, replay, lease, execute, record, recover | one process at a time; a result has one consumed lease; the budget holds |
| Controller install and upgrade (`secp_management/engine.py`, `controller_finalization.py`) | objects on the host, identity rows, marker, documents, journal | classify, install, activate, commit, compensate, roll back | `written` is no false success; an error leaves one generation of identity and documents; every install returns |
| Provisioning, Proxmox provider, approvals, topology authoring, IPAM, reconciliation, admission, OIDC, operator deployment, UI | see `components` in `PROJECT.json` | | not modelled, section 7 |

How they interact: the API commits an operation and an outbox row; Temporal
delivers it to a worker, up to three attempts; the worker commits progress and the
final result to the same rows the API reads, so an operator's abandonment and a
worker's result race. A reset also clears the competition's scores, and a
competition may only start on a ready range. A plan is generated by an activity
that comes through the same outbox, so it may be delivered twice, late, or to two
workers at once; it reads the decisions the API recorded and writes leases and
results. A worker enrolls with a signed
request per exchange, retried until it is answered; operators and the scheduled
sweep close enrollments in transactions of their own. The controller's installer
runs alone on its host: its difficulty is not another actor, but its own failure
at any step, including the steps that clean up after a failure.

What is hard: requests that read before another commits; an attempt that times out
while its thread, which cannot be cancelled, keeps writing; a crash between
creating an object and recording it; answers lost after the commit; an exact retry
that arrives after the state has moved on; a sweep that selected a row which is
meanwhile finished; marks flushed long before they are committed; a check and the
insert it protects in two queries; an effect on the host that is recorded after it
happened. `hazards` in `PROJECT.json` lists them at their lines with the
properties that would catch them.

## 2. Modules

| Module | Models | Used by |
|---|---|---|
| `RangeLifecycle` | one range, its API transactions, workers, Docker daemon, Temporal attempts | `MCRange`, `RangeProofs` |
| `RangeProofs` | theorems about `RangeLifecycle` | |
| `Enrollment` | one enrollment: rows, open transactions with their snapshots, drivers, sweep, clock, key rotation | `MCEnrollment`, `EnrollmentProofs` |
| `EnrollmentAgreement` | what an enrollment promises: open, claimed by one worker, enrolled, closed | refinement target of `Enrollment` |
| `EnrollmentProofs` | theorems about `Enrollment` | |
| `Competition` | one challenge: submissions, awards, open requests statement by statement | `MCCompetition`, `CompetitionProofs` |
| `CompetitionProofs` | theorems about `Competition` | |
| `WorkflowOutbox` | outbox rows, publishers, Temporal's executions, activity bodies | `OutboxProofs` |
| `OutboxProofs` | theorems about `WorkflowOutbox` | |
| `PlanActivation` | dossier, evidence and authorization of one manifest, with open API requests | `PlanGeneration` |
| `PlanGeneration` | composes `PlanActivation` with the workers that execute the plan | `MCPlan`, `PlanProofs` |
| `PlanProofs` | theorems about `PlanGeneration` | |
| `ControllerFinalization` | one host, its installer and the steps of a transaction and of its compensation | `FinalizationProofs` |
| `FinalizationProofs` | theorems about `ControllerFinalization` | |

`map` in `PROJECT.json` gives the lines each definition stands for.

### RangeLifecycle

An object is 0 (the network) or 1..N (a component's container); the daemon gives
each object it creates a fresh id. `op` holds the operation rows together with the
Temporal workflow of each; `rows` the resource rows; `ex` the worker threads, each
with the live set it read when it claimed its operation (`snap`), what it created
itself (`made`) and what it verified (`ver`). `tx` are open `start_operation`
transactions: the event number a transaction has read becomes unusable when
another event commits (`EventCommitted`), which is what really serialises two
starts. Every provider step reports progress through `OnChange`, which commits
`running` whatever the row holds and renews the lease. A step may succeed, be
refused, or take effect with its answer lost.

Two constants separate the behaviours the code intends from those it admits:
`Overlap` (a thread outlives its Temporal attempt) and `LiveAbandon` (an operator
abandons an operation a thread is still running). Properties marked SERIAL are
checked without them; `range_late` and `range_overlap` check what is left with
them.

### Enrollment

`db` is one record of all durable rows of the enrollment. A transaction (`tx`)
reads a snapshot when it begins and at its commit must get past what the database
enforces then: the compare-and-swap on the head's digest, the unique history
revision, the conditional consumption of the nonce, the write-once offer, the
unique receipts (`Commits`). The row lock is not assumed. Once sent, a request may
be delivered any number of times and at any later time (`sent` only grows), and
the answer of a committed transaction may be lost. A signature is abstracted to
the worker that made it, a digest to the columns that distinguish the rows of one
chain. The two exchanges perform two and three steps inside one transaction, each
of which is first looked up among the receipts.

There are two ways of closing. `refused` (`Closeable`) may still become
`recovery_required` (`Recoverable`): `require_recovery` absorbs `recovery_required`
alone, `recover_enrollment` runs it on any other head, and ADR-027 names
`recovery_required` the only absorbing state. `mark_recovery_required`, which the
operator route calls, answers a refused enrollment without a write, so the model's
`recover` writes wherever either service function may. A revision is at most 7: five
steps, a refusal and a recovery. `ClosedNeverReopens` says what closing is worth:
`recovery_required` stays as it is, and `refused` can only move there, with the
worker, the consumption, the offer and the receipts it had.

The claim-only progression routes are sealed in the shipped configuration and not
modelled. The wire format is not modelled either: the shipped HTTP transport and
the API's request schema disagree on field names
(`enrollment_http_transport.py:327`, `schemas_enrollment.py:226`), so this is the
protocol the endpoints implement, as the in-process tests drive it.

### Competition

`submit_flag` is one action per statement (state, count, award, duplicate and
verdict, commit), `reset_scores` likewise (two DELETEs, commit). A statement sees
what is committed when it runs; inserting an award where a reset has deleted one
and not yet committed waits. `Values` are the flag, the flag in another case, and
anything else. The range's readiness is `StartCompetition` of `RangeLifecycle`;
here a start may come at any time. Rosters are not modelled.

### WorkflowOutbox

`run` and `outbox` are the committed rows; `batch` and `marks` are what an open
publisher transaction has still to submit and has flushed; `wf` and `claim` are
Temporal's side (external, modelled from how `dispatch.py` uses it: default id
reuse policy, `AlreadyStarted` swallowed). A publisher reads the oldest `Limit`
rows, submits them one by one and commits all marks at the end, so a crash in
between leaves rows submitted and not marked. Two publishers may hold the same
rows and either commit may come last. `Poison` are rows Temporal rejects for ever;
the assumption that there are fewer of them than `Limit` is named
(`OutboxAssumption`) because without it newer rows starve. What an activity does
is abstracted to one commit that completes the run; `RangeLifecycle` and
`PlanGeneration` are what such a body looks like inside.

### PlanActivation and PlanGeneration

A handler's read and its write are two steps (`call` holds what it read), creation
is one, because a partial unique index admits one active row. A closed row is
never read again, so each table is its newest row. Expiry is a fact about time
(`due`); the code writes `expired` only with the successor.

The activity body is one database transaction (`temporal_app.py`), so its lease is
flushed and invisible until the body ends, and an insert that collides with it in
a unique index waits (`Waits`), then collides or succeeds (`Collides`). The model
takes one step per query between which another transaction can commit: the
replay check, the search for active leases, the budget, the epoch, the insert. A
worker that dies, or a body that raises, rolls everything back (`Die`). Upstream
facts (preflight, attestation, credentials, sealed composition) are one refusal,
and the process (render, init, plan, show) ends well, badly, or in recovery.

### ControllerFinalization

A transaction is the list of steps still to run (`tx.todo`); a failure replaces it
by the steps `_compensate` runs for what the transaction has noted so far, a
rollback by the steps that drive the prior release again. Each forward step may
raise before its effect, fail after it with the effect unrecorded, or be the last
before the process dies; each compensation step is proven or leaves a residual. The
errors are those the code tells apart. After the cleanup `recovery_required` is
raised for a `ManagementError` only, so a failed write of the committed evidence or
attestation ends the command in an ordinary refusal (`CommitEscapes`). A document
that cannot be read is journalled as newly created (`WriteDocumentUnread`), so
undoing its write removes it; a rollback that then has nothing to load is unproven
(`RollBackUnloadable`). A document's own install writes nothing when it fails, because
the rename is the last thing `atomic_install` does. A call that recreates the API and
fails may leave the old process, the new one or none (`ApiLeft`), and the code does
not look which.
What a transaction keeps in memory (receipt, originals, flags) dies with it.
Releases are numbered along the signed lineage. The staging root is what it is in
the code: nothing creates it, an operator may (`MakeStagingRoot`). The origin and the
broker unit are those of the first install, so the locator and the unit are created
or adopted and never replaced: the staged replacement (`MANAGED_REPLACED`) is left
out, and no property speaks of it.

## 3. Runs

| Run | Bounds | Checks |
|---|---|---|
| `range_serial` | 2 components, 3 operations, 4 object ids, 2 attempts, 1 thread, 2 clients | `TypeOK`, `ReadyMeansObserved`, `DestroyedMeansProved`, `InFlightAgrees`, `NeverForgets`, `DestroyedIsFinal` |
| `range_late` | 2 operations, 1 attempt, 2 threads, both overlaps | `ReadyMeansEnumerated`, `OperationsSettle` |
| `range_false_clean` | violation | `DestroyedMeansGone` |
| `range_overlap` | violation | `ResolvedOnce` |
| `enrollment_races` | 2 workers, 2 requests, 1 sweep | all safety properties of the exchange, and `ImplementsAgreement` |
| `enrollment_expiry` | 1 worker, 1 request, 2 sweeps | `ExpiredIsRecovered` |
| `competition_races` | 1 team, 2 requests, 3 submissions, 1 attempt, case-sensitive flag | `TypeOK`, `AcceptedIsAwarded`, `AttemptsBounded` |
| `outbox` | 3 requests, the oldest poisoned, 2 publishers, limit 2, 1 executor, 2 faults | `TypeOK`, `SubmittedWasTaken`, `RunsFinish` |
| `plan_races` | 2 workers, 2 clients, 1 dossier, 2 authorization versions, budget 2 | `TypeOK`, `OneProcess`, `ResultsAreLeased`, `BudgetOverrunBounded`, `DecisionsStand` |
| `plan_rerun` | violation, same instance | `NothingRunsAfterResult` |
| `finalization` | 3 releases, 3 faults | `TypeOK`, `WrittenMeansInstalled`, `ErrorIsCoherent`, `CommandShrinks`, `InstallReturns` |
| `finalization_residue` | violation, 2 releases, 1 fault | `ErrorLeavesNothing` |

Why the bounds are enough to be interesting: three operations give deploy, a
failed or abandoned second operation, and the destroy that has to clean up after
both; two components separate "the first answered" from "all answered"; four ids
let an object be recreated. Two workers with two open requests are enough for two
transactions that read the same head; a third would repeat the same conflict. Two
requests and three submissions let a count be stale by one; one attempt makes the
limit reachable. Teams never share a row, so one is enough. In `outbox` the
poisoned row is the oldest, so it heads every batch; limit 2 leaves room for one
row behind it, so the third has to wait for a later batch. In `plan_races` a
budget of 2 with two workers reaches the overrun by one that
`BudgetOverrunBounded` allows, and two versions let a revoked authorization be
replaced while a worker is still bound to it; dossiers change only the
fingerprint, so one is enough. Three faults in `finalization` are a failing step,
a failing compensation step and a failing rollback step; three releases let the
release that is upgraded be the first of the lineage or have one before it. No host
is upgraded twice, as long as the staging root an operator made stays where it is:
the upgrade needs it and the next install is refused because of it (the invariant of
`FinalizationProofs` says so: an upgrade always starts from the first identity). Deadlock is not checked where the system really may
stop: a destroyed range, a closed and expired enrollment, an outbox that is
drained, a manifest whose versions are used up. `finalization` checks it: there is
always a command to give. For size: `enrollment_races` has 220,664 distinct states,
`enrollment_expiry` 15,078 and `finalization` 115,385.

Fairness. `range_late`: worker threads run on, leases expire, and an operator
abandons what the API reports as stuck (`operation_staleness` exists for that, and
the refusal text names the way out); nothing is assumed of Temporal or of new
requests. `enrollment_expiry`: time passes; the sweep is a Temporal schedule that
runs again and again (`sweep_all_organizations`), and its transaction on a given
row does not fail every time (strong fairness of its commit). Nothing is assumed
of workers or operators. `outbox`: the publisher loop catches what a round raises
and goes on for ever (`main.py`), an activity body ends, Temporal times out an
attempt nobody executes, and a free executor takes what is waiting; faults are
bounded, which says that not everything goes wrong for ever. The workflows modelled
there set no retry policy, so Temporal retries them without limit;
`RangeOperationWorkflow` allows three attempts (`temporal_workflows.py:263`), which is
`MaxAttempts` of `RangeLifecycle`. `finalization`: the
installer is one process whose calls all have time limits, so its own next step
happens; nothing is assumed of the operator who starts it.

## 4. Where the code and its documentation disagree

* `range_false_clean`: resources are recorded only at the end of a bring-up
  (`execution.py:426`), so a crash before that leaves objects which a later,
  honestly clean destroy was never asked about, against "a destroy therefore
  always sweeps everything this range has ever created" (`execution.py:488`).
* `range_overlap`: a progress report of an old thread turns a resolved operation
  back to running (`execution.py:244`), against "the final state is written once"
  (`execution.py:112`).
* `plan_rerun`: the stored result is looked up before the lease is acquired and
  not again after it (`orchestration.py:114`), so a second delivery may execute
  an operation whose result is committed, against "a prior successful result for
  this exact operation returns WITHOUT execution" (`orchestration.py:107`). The
  second run leaves its lease `active`.
* `finalization_residue`: `finalization_effected` is set after the gate step
  returned (`engine.py:2533`), so a gate step that fails after its journal write
  is never compensated; the command ends in an ordinary error and the journal
  refuses every later install, against "any unproven residual in ANY participant
  → recovery_required" (`engine.py:2415`). The same window is open for a stack
  upgrade that fails half way and for an object whose readback fails.

Two disagreements in scoring have a definition and no run of their own; add the
definition as an `INVARIANT` to `CompetitionRaces.cfg` to see them:

* `RepeatCannotBeCorrect`: the right value, first sent before the opening or in
  another case, is answered `duplicate` for ever, against "cannot become correct"
  (`competitions.py:541`).
* `AwardIsBacked`: a submission that commits between the two DELETEs of a reset
  keeps its award and loses its row (`competitions.py:728`), against "Clear
  submissions and awards".

Smaller observations, without a run: a bring-up keeps a network that is already
there under the state and the id its row has (`local_docker.py:233`,
`execution.py:402`), so a reset after a failed destroy may offer a range as ready
whose network is recorded only as `created`, or under an id older than the network
that runs; a later destroy then finds the old id absent and reports the network
removed (`ReadyMeansObserved` states what is left: every component verified under
its running id, the network there and recorded); `max_attempts` may be exceeded by the
requests already past the count (`AttemptsBounded` states the bound the code
really gives); a failed range reset clears the scores as well; the ownership
reset says its order prevents a worker that is claimable while it still has its
old identity, and removes the ownership first (`worker_ownership.py:262`).

In plan generation: a worker that dies takes the attempt it spent out of the
books, because lease and attempt are committed only with the end of the body, while
`enums.py:1651` calls the budget durable across restarts; the budget may be
overrun by the workers already past its sum (`BudgetOverrunBounded` states the
bound the code gives); a `recovery_required` lease blocks its fingerprint, which
does not contain the authorization, so a new authorization version does not lift
it. In the outbox: a row that is submitted again after its workflow has closed
starts it again under Temporal's default id reuse policy, so bodies have to be
repeatable; a hundred rejected rows hide every newer one.

In the installer: nothing creates the staging root the marker's backup needs, so an
upgrade in which nothing fails ends in `recovery_required` after the activation,
and a host on which an operator created it is refused as transient at the next
install; a completed rollback leaves evidence in state `prepared`; the checkpoint a
failed cleanup leaves is kept "for resume", and no command resumes it.

`ErrorIsCoherent` is as strong as the code's error paths allow, and four of them are
weaker than the text beside them. A `FilesystemError` while the committed evidence or
attestation is written passes the `except ManagementError` of
`_finalize_prepared_checkpoint` (`engine.py:2722-2727`) and ends in an ordinary
refusal (`cli.py:683-690`) after the activation, with evidence and attestation bound
to different commit states, against "Any unproven step raises ``recovery_required``"
(`engine.py:2699`). `_DocWriter.install` takes any failed read for an absent document
(`engine.py:1151-1156`), so the compensation deletes the prior document and reports
it as proven, against "never silently leaves a pre-existing document mutated"
(`engine.py:1142-1143`). An upgrade whose `start_stack` fails leaves the API down or
the stack half upgraded in an ordinary error, because `stack_upgraded` is set only
after it returned (`engine.py:2534-2535`). A fresh stack that was started partly is
not in the bootstrap receipt and is not stopped (`real_adapters.py:387-388`). What
still holds, and is checked and proved: the marker binds the active identity, no
document of another generation is left, and an identity that moved is complete and
runs.

## 5. Proofs

`EnrollmentProofs` (assumptions: no worker is called `Nobody`, and a request slot
is not a sweep slot) proves for any sets of workers, requests and sweepers:
`TypeCorrect`, `HistoryAlwaysAgrees`, `UsedOnce`, `RetriesAreAnsweredTruthfully`,
`OwnershipComesFirst`, `HealthIsAgreed`, `ClosedStaysClosed`,
`HealthyIsNeverStale` and `ExchangeImplementsAgreement`.

The argument: none of the invariants is inductive, because a transaction may
commit long after it has read its snapshot. The invariant `IInv` says that the
durable rows are always in one of a few shapes (open; claimed by w; enrolled with
w; each of them closed by an operator or the sweep) and that every open
transaction's snapshot is one of those shapes. The lemma `DigestDetermines` then
shows that the digest of the head determines the shape: a transaction that gets
past the compare-and-swap acts on exactly the rows it read, so every commit takes
one shape to another, and each of these steps is a step of `EnrollmentAgreement`.
The row invariants are read off the shapes. `OwnedBeforeHealthy` and
`HealthyIsAgreed` need in addition that a result on the wire, or in a transaction,
implies an installed ownership document, and that what a driver was told is in the
history. A refused shape has one way on, to the same shape recovered; that the rows
below its head stay what they were is `ClosedStaysClosed`.

`PlanProofs` (assumptions: the bounds are positive numbers, the set of workers is
finite) proves for any sets of workers and requests and any number of dossiers and
versions: `TypeCorrect`, `DecisionsNeverUndone`, `OneProcessAtATime`,
`ResultsHaveTheirLease` and `BudgetOverrunStaysBounded`. The invariant has three
parts. `DecisionInv`: the revision counts the decisions, so a draft has revision 0
and an approved row revision 1, and what a handler has read is not newer than its
row; while the revision is the same, the row still allows what the handler decided.
The compare-and-swap then writes only along known edges. `PlanInv`: the row a worker
means to expire is committed and not consumed, so expiring it takes no consumed
lease away (`Follows`), and a lease is appended as consumed only with the first
result of its version. `BudgetInv`: the leases of a version together with the
workers that are past its sum and not yet done are fewer than the budget and the
workers together; the last one to pass the sum saw fewer leases than the budget.
The single process follows from the wait in the unique index alone.

`OutboxProofs` (assumption: `OutboxAssumption`) proves `MarkedIsTaken` and
`TypeCorrect`. The first needs strengthening by the same fact about the marks a
publisher has flushed and not committed (`FlushedWasTaken`), which is kept because
Temporal forgets no execution it has started. The type invariant holds the batch to
`Limit` rows, which is a pigeonhole argument (`SelectedIsLimited`): the selected
rows are numbered by the pending rows before them, and those numbers are below the
limit.

`CompetitionProofs` (assumptions: the bounds are numbers, the set of clients is
finite and not empty) proves `CreditedOnce`, `AttemptsStayBounded` and `TypeCorrect`
for any number of teams, requests and submissions. The invariant of the first is
about resets in progress: an award a reset has deleted and not committed cannot
change and is held by no other reset, and once its second DELETE has run it also
holds the accepted row of each of those awards. The other two rest on `Counted`:
submission ids are given once (`Numbered`), so a team has no more rows than there
are ids; an idle request holds nothing (`Tidy`); and a team's judged rows, together
with the requests that are past the count and will be judged, are fewer than the
limit and the clients together (`Overrun`).

`RangeProofs` (assumption: the bounds are numbers, at least one component and one
attempt) proves for any template and any number of operations, attempts, threads
and requests: `TypeCorrect` and `ReadyIsEnumerated` whatever outlives what; and
under `Serial` (no thread outlives its attempt or its operation) `OneOperationInFlight`,
`ReadyIsObserved`, `DestroyedIsProved`, `RowsNeverForgotten` and `DestroyedStays`.
`Serial` is the condition under which the properties are meant; `range_overlap`
shows one way in which a thread that outlives its attempt breaks what they say.
Two of the statements are narrower than their names. `ReadyIsObserved` speaks of the
components, recorded verified under the id that runs; of the network it says only
that a live row and an object exist. `DestroyedIsProved` speaks of what was recorded:
a clean verdict, no live row, nothing running under a recorded id. An object no row
names is outside it, and `range_false_clean` shows one.
The argument has three layers. `Base` is what one thread knows of itself: a
bring-up that reports success has made or kept every object of the template.
`FlightInv` is the chain that serialises: a request whose event number is still
free has seen no operation in flight (`FreshSees`); so one operation is in flight
at a time, and the range's state is that operation's (`InFlightAgrees`); so at most
one thread works (`OneThread`). `ObjectInv` is what this gives the thread: what it
has read of the rows and made on the daemon is still so when it writes
(`ThreadsFaithful`), an id the daemon has given is given once, and a row marked
removed names an object that is gone (`IdsSpent`).

`FinalizationProofs` (assumption: the bounds are numbers, at least one release)
proves for every length of the lineage and every number of failed calls and crashes:
`TypeCorrect`, `WrittenIsInstalled`, `ErrorsAreCoherent` and `CommandsShrink`.
`OnTrack` says that a transaction that has not failed is at some place n of its plan
(`Tracks`), and what the n - 1 steps behind it vouch for on the host (`Progress`);
at the end of the plan that is `WrittenMeansInstalled`. `BackingOut` says of a
transaction that has failed and is not yet reported as unproven that the undo step
which puts right, or reports, what is not as it was found is still ahead: the
documents, the journal of a first install that activated, the rollback of an upgrade
that activated. `Modal` relates what the transaction found to what is there,
and says that what an undo would put back, where it has not been lost, belongs to the first
identity (`Bound`): a step may forget an original, it never invents one (`Forgets`).
`Unstaged` says that without the staging root no second marker can have been
written. `ErrorsAreCoherent` then has three cases: a compensation that was proven leaves
the identity where it was and only its documents; a rollback that was proven has run
the prior release's plan to its end; an error that escaped the commit
phase was raised behind the runtime check, where `Progress` still holds all documents
to the active identity (`AllBelong`). `CommandsShrink` is the part of termination a safety proof can reach: the
calls a command may still make (`CallsLeft`) are at most 48 and decrease with every
step, so no pattern of failures makes a compensation and a rollback call each other
for ever; that the next call does return is the fairness of `InstallReturns`.

Each inductive invariant was first checked by TLC on the instance of its run.

Only model-checked: `ExpiredIsRecovered`, `OperationsSettle`, `RunsFinish` and
`InstallReturns`, because liveness under fairness is outside TLAPS' reach. Every
safety property of a passing run has a theorem.

## 6. Plan

Done: `RangeLifecycle`, `Enrollment` with its abstract specification, `Competition`,
`WorkflowOutbox`, `PlanActivation`, `PlanGeneration` and `ControllerFinalization`,
and proofs of all their safety properties. Next, in this order:

1. The operator who removes the staging root again, which makes a second upgrade
   possible; the invariant of `FinalizationProofs` then speaks of the row the command
   found in place of the first.
2. An abstract specification of the range (absent, in flight, offered, destroyed)
   that `RangeLifecycle` implements under `Serial`, with its proof.
3. `WorkerOwnership`: several controllers, drivers racing through the ownership
   gate, the three-step local reset with a crash between any two; property: a
   worker that can be claimed has no identity proven to an earlier owner.
4. Competition rosters, and `delete_team` racing `submit_flag`; a sweep over
   several enrollments in which one row fails.
5. The other commands of the management plane (worker bootstrap, adopt, status).

## 7. Not modelled

`components` in `PROJECT.json` gives the reason part by part. In numbers the models
stand for a small share of the repository, and will: most of its 557 source files
hold no state machine of their own. They are table and schema declarations and
enumerations (`models.py`, `enums.py`, request schemas), guards that repeat
transition tables as database triggers (`immutability.py`), CRUD services with one
transaction and no second actor, validators of documents and evidence, host
installation over a privileged boundary (`secp_discovery_activation`), process and
network I/O of providers that are sealed in the shipped configuration (OpenTofu,
Proxmox commands, the claim-only enrollment routes), acceptance and commissioning
tools, and the web UI with its generated client. Of these the transitions that
matter to a modelled component are inside its model (the immutability edges as
`Transitions`, the unique indexes as the guards of inserts); the rest is either
checked by its own tests on every path or is I/O of which a model would only
repeat the text.

Within the modelled parts: contents of images, compose files, units and rendered
workspaces; signatures and digests beyond what they distinguish; audit rows,
metrics and logging; reads that change nothing.
