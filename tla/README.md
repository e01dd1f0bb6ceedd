# Verification of research-ops-automation

TLA+ models of the parts of this repository that are hard to test: the run
queue with its workers, the e-mail queue with its dispatcher, the scheduler and
the task operations that race with it, an agent's invocation and the threads
beside it, the evidence a phase acquires and what later runs conclude from the
mail of earlier ones, accounts and sessions, restore, families of repeated runs,
and the delivery settings. TLC checks each module on small instances; for most of
them TLAPS proves the safety properties for every instance, and the e-mail queue an
implementation of its abstract specification.

## The system

The program runs *tasks* (sealed, versioned packages) as *runs*: an agent does
research, a second agent composes an e-mail from validated results, the message
is handed to an SMTP dispatcher. Everything durable is in one SQLite database
(`storage/`), plus workspaces, evidence archives, a settings file and an outbox on
disk. Several processes share them: workers, a scheduler, a dispatcher, a web
server and a CLI.

| Part | State it keeps | Operations | What is hard |
|---|---|---|---|
| Worker and orchestrator (`services/worker.py`, `engine/orchestrator.py`) | `scheduled_runs.status`, `task_claims`, `run_leases`, `execution_controls`, local variables of the execution | claim, stages, finalize, release, heartbeat, stale recovery | leases that expire under a live worker, crashes between any two writes, child processes that outlive their worker, cancellation at any moment |
| Workspace (`workspace/manager.py`) | `.lock.json` per task | acquire, release with evidence, is_locked | the lock outlives its process and is released by two different parties |
| Archive (`engine/archive.py`) | pending and final evidence directory | finish (rename) | the rename precedes the commit |
| Handoff (`delivery/handoff.py`) | `delivery_handoffs`, outbox package | prepare, publish, republish | several writes, any of which may fail; no fencing |
| SMTP queue and dispatcher (`delivery/queue.py`, `smtp_dispatcher.py`, `smtp_transport.py`) | `smtp_attempts` and their phase, `smtp_retry_requests`, receipts | enqueue, claim, start DATA, finish, retry, recover, cancel, reconcile | at-most-once delivery across crashes, acknowledgement of duplicates, cancel racing DATA |
| Scheduler (`services/scheduler.py`) | `scheduler_watermarks` and the run rows | tick, cron arithmetic | one run per occurrence, missed and overlapping ticks, edits under a tick |
| Run families (`services/run_service.py`, `services/prepared_delivery.py`, `delivery/retry_guard.py`) | parent links, request keys, plans, scopes | enqueue, retry, compose-only, delivery-only, cancel | duplicate requests, a plan read before the transaction, a retry of something still in flight |
| Delivery history (`engine/delivery_history.py`, `engine/dedupe.py`) | reported results, the worker's ledger | dedupe, projection of evidence, suggestions | the queue goes on while it is read |
| Task publication and catalog (`storage/repositories.py`, `services/task_service.py`, `services/catalog_service.py`) | versions, active version, approval flags, owners, deletions | publish, update, enable, approve, delete, restore | editing while a run or an e-mail is in flight |
| Delivery settings (`services/delivery_service.py`, `delivery/policy.py`) | settings file, catalog rows | create, edit, save all, approve a route | a file and a table change together, requests die in between |
| Accounts and sessions (`services/auth_service.py`, `web/`) | users, sessions, attempts, setup token | set-up, login, logout, touch, password and account changes | a slow derivation between read and commit, the last administrator |
| Maintenance (`operations.py`) | backups, restore marker, runtime guard | backup, restore, recover, cleanup | a crash in the middle of a restore, a log without its base |
| Runners (`runners/`) | process groups, agent sessions, helper threads, collectors | launch, supervise, interrupt, judge, import | proof that nothing is left, a service that acts late |
| Acquisition and image broker (`engine/research_acquisition.py`, `engine/artifact_acquirer.py`, `runners/image_broker.py`) | receipts, originals, budgets; jobs, responses | fetch, close, import, retain; image jobs | a thread beside the agent, a worker-writable directory, transfers that are killed |
| Web and CLI (`web/`, `cli/`) | none of their own | forward to services | some read before they lock |

Interaction: the scheduler, web and CLI insert queued runs; a worker claims one,
executes it and ends it as `awaiting_receipt`; the dispatcher takes messages of
runs in that state only and settles them; cancellation writes a flag that the
worker, the finalization and the dispatcher each read at their own time. Inside
a stage, the runner supervises an agent while acquisition and the image broker
serve its requests. Settings and the catalog are read by every approval of a
message and changed by pages at any time.

## Modules

| Module | Models | Read with |
|---|---|---|
| `RunLifecycle` | a run from the queue to its end: claims, leases, workspace lock, stages, handoff, finalization, recovery, cancellation | `services/worker.py`, `engine/orchestrator.py`, `engine/archive.py`, `storage/repositories.py` |
| `RunLifecycleLemmas`, `RunLifecycleProofs` | the proofs about it | |
| `SmtpQueueProofs`, `SchedulerProofs`, `InvocationProofs`, `RunFamilyProofs`, `ControlProofs`, `EvidenceProofs` | the proofs about `SmtpQueue` and `MailDelivery`, `Scheduler` and `Cron`, `AgentInvocation`, `RunFamily`; about `Accounts`, `Maintenance` and `DeliverySettings`; and about `DeliveryHistory`, `ImageBroker` and `Acquisition` | |
| `SmtpQueue` | the e-mail queue: attempts, dispatchers, the exchange with the server, recovery, retries, cancellation | `delivery/queue.py`, `delivery/smtp_dispatcher.py`, `delivery/smtp_transport.py` |
| `MailDelivery` | what the e-mail queue promises about one message | abstract; `SmtpQueue` implements it |
| `Scheduler` | ticks, watermarks and misfire policies; edits, activation, enabling, deletion and restoration of tasks | `services/scheduler.py`, `storage/repositories.py`, `services/task_service.py` |
| `Cron` | cron expressions and the search for an occurrence | `services/scheduler.py` |
| `BoundedProcess` | a command's process group and the evidence that it is gone | `runners/development_process.py`, `runners/launcher.py` |
| `ToolTrace` | what is believed of an agent's turn from its events | `runners/production_trace.py`, `runners/antigravity_response.py`, `runners/opencode.py` |
| `AgentInvocation` | one phase given to an agent by each of the runners; uses both | `runners/opencode.py`, `runners/production.py`, `runners/development_runner.py`, `runners/launcher.py` |
| `Acquisition` | fetches for a worker, their budget and receipts, the import of artifacts, reuse of evidence | `engine/research_acquisition.py`, `engine/artifact_acquirer.py`, `engine/acquisition_evidence.py`, `runners/research_fetch.py` |
| `DeliveryHistory` | left-out records, the projection of SMTP evidence, suggestions to the worker | `engine/delivery_history.py`, `engine/dedupe.py` |
| `ImageBroker` | image requests of a worker, engines, receipts, closing | `runners/image_broker.py`, `services/image_generation.py` |
| `Accounts` | set-up, logins, sessions, changes of accounts | `services/auth_service.py`, `web/` |
| `Maintenance` | backup, restore and recovery of the two files of a database | `operations.py`, `storage/db.py` |
| `RunFamily` | commands that repeat, recompose or mail a run, and what executes them | `services/run_service.py`, `delivery/retry_guard.py`, `delivery/authorization.py` |
| `DeliverySettings` | the settings file and the catalog, pages that change them, the route of a message | `services/delivery_service.py`, `delivery/policy.py` |
| `MCRunLifecycle`, `MCSmtpQueue`, `MCScheduler`, `MCProgress`, `MCEvidence`, `MCControl` | the instances TLC checks, with one `.cfg` per run | |

`PROJECT.json` maps every definition to its lines.

**How they meet.** `RunLifecycle` ends a run as
`awaiting_receipt` with its message published and has one action (`Deliver`) for
whatever settles it later. `SmtpQueue` starts there: its `EndRun` is all of
`RunLifecycle` in one step, and everything after it is in full detail.
`RunFamily` has both as the few steps a command can race with, and adds what the
commands read and write; `DeliverySettings` has a single letter, and adds what
every approval of it looks at. `Scheduler` sees of a run only that it waits, keeps
its task busy, or is over; `Cron` shows what `Scheduler` takes for granted in its
operator `Between`. `AgentInvocation` EXTENDS `BoundedProcess` and `ToolTrace`, and
what it shows (`CleanupIsTrue`) is what `RunLifecycle` takes from a runner;
`Acquisition` and `ImageBroker` are the two threads it knows by whether they were
closed in time. `MCEvidence`, `MCControl` and `MCProgress` put components that share
no state in one run each; a variable `part` says which of them moves, so that their
states add up and do not multiply.

Common to all: every SQLite transaction of this program is `BEGIN IMMEDIATE`
(`storage/db.py`), hence one step. What the code reads outside the transaction
that uses it is a step of its own, with the value kept in a variable of the
process, so stale reads are in the model. Definitions whose comment starts with
"Mutant" are plausible bugs, each defined beside the operator it would replace;
no specification uses them. `PROJECT.json` names the property each one breaks.

## RunLifecycle: from the queue to the handoff

**State.** The rows (`status`, `cancelRequested`, `cleanupVerified`, `claim`,
`lease`, `handoff`, `lastToken`), the files (`lock`, `archive`), the operating
system (`agents`: runs with child processes alive), and for each worker its
place in the code (`pc`), the run and token it holds (`own`), and the local
variables of `_execute_owned_run` that decide anything (`stage`, `locked`,
`cleanup`, `published`, `final`, `stop`, `raised`).

**Steps.** `ClaimNext` / `ClaimRun` are `claim_next_run` / `claim_run`.
`Preflight` to `PublishHandoff` are the stages of `_execute_owned_run`;
`FinalizeBegin`, `FinishArchive`, `FinalizeCommit` are the finalization
transaction, which renames the evidence directory before it commits and holds
the write lock meanwhile (`WriterFree`). `FinalizeAbort`, `FinalizeFailed`,
`SetupFailed`, `WorkerFailed` are the exception handlers, `Unlock`,
`MarkVerified`, `Release`, `ReleaseMark`, `ReleaseLease` the finally blocks.
`HeartbeatRenew` and `HeartbeatSignal` are the heartbeat thread. `StalePick` to
`StaleRelease` are `recover_stale_leases` (its listing and each decision are
separate steps). `RequestCancel` and `CancelPending` are the operator's
cancellation, `Crash` kills a worker anywhere and `Tick` lets leases run out.

**Abstractions.** What the gates and the agent decide is a nondeterministic
outcome. `timed_out` is treated as `failed`. The instant at which a lease
equals the clock is dropped. An orphaned agent process never exits by itself,
the worst case. A runner that reports verified cleanup tells the truth: that is
`CleanupIsTrue` of `AgentInvocation`, with the limits named there. `execute_run`
can also claim for itself, but production never calls it so. `scheduled_for <=
now` is taken as true of every run. SQLite errors inside the exception handlers
are left out.

**Runs.**

| Run | Instance | Shows |
|---|---|---|
| `serial` | two dry runs of one task, one compose-only and one delivery-only, two workers, one crash, leases of two ticks | one run at a time in a workspace (`TaskSerial`); a lock belongs to the task's claim (`LockFollowsClaim`); recovery beside an owner that still finishes changes no settled outcome (`OutcomeIsFinal`) |
| `live` | a full run that may be cancelled and a dry delivery of another task, one slot, one crash, fair | success needs evidence, cancellation prevails, a release needs proof of cleanup; runs end (`RunsSettle`); verified claims are released and the queue advances (`ClaimsSettle`) |
| `edit` | one run, no failure but a publication that raises | finding 1 below |

Two workers are enough for the races because every race is between an owner and
one other party (another owner, or recovery). One crash kills an owner or the
recovery that follows a lease left to run out; a lease of two ticks
(`serial`) can be renewed before it runs out, and one of a single tick may expire
between any two steps. `live` has one worker because it asks whether a single
one gets the installation going again; what recovery does beside a live owner is
`serial`'s question. In neither is a run cancelled that has settled, which is left to
`OutcomesAreFinal`. The theorems carry the safety properties
to every number of runs, workers, crashes and every lease term.

**Fairness.** A worker keeps executing its code (runner calls are bounded by
deadlines: `InvocationEnds` below), keeps polling and recovering between runs,
and the clock ticks. Nothing is assumed of operators, crashes or heartbeats.
`ClaimsSettle` excepts claims whose cleanup nobody could verify: the code keeps
those on purpose. Deadlock checking is off because a drained queue stops.

**Proved** (`RunLifecycleProofs`, for any runs, tasks, workers, plans, lease
terms and numbers of crashes, from the named assumptions on the constants):

| Theorem | Property |
|---|---|
| `TypesHold` | `TypeOK` |
| `InductiveHolds` | `Inductive` (in no run: the invariant behind the others) |
| `TasksAreSerial` | `TaskSerial` |
| `LocksFollowClaims` | `LockFollowsClaim` |
| `RunningRunsAreOwned` | `RunningIsOwned` (in no run) |
| `SuccessIsEvidenced` | `SuccessHasEvidence` |
| `ReleaseIsProven` | `ReleaseNeedsProof` |
| `CancellationPrevails` | `CancelPrevails` |
| `OutcomesAreFinal` | `OutcomeIsFinal` |

None of these is inductive alone. `TaskSerial`, for one, speaks of two workers in
a workspace, and what keeps them apart is a chain: a worker that is busy has not
recorded verified cleanup (`Verification`); while cleanup is unverified nobody
else drops the claim, so a busy worker's ticket *is* the claim of its task; two
workers that execute hold different runs (`Tickets`); and a task has one claim.
Recovery's unlock cannot remove a busy worker's lock since it needs the verified
cleanup a busy worker lacks (`Locking`). It can *meet* one: recovery picks an expired
run whose cleanup is verified, the owner releases it, claims the task's next run and
locks, and only then recovery gets to the lock. The token in the lock is not that of
the run it picked, and `release_lock` refuses (`manager.py:133`). A run that is running stays owned since
ownership is dropped only from steps a running run cannot be at (`Endings`,
`ClaimRows`). `Children` says child processes live under their run's lock, and
`Evidence` carries what finalization checked up to its commit. `Inductive` is
the conjunction; each conjunct has a lemma with one step per action.

## SmtpQueue: from the handoff to a verdict

**State.** `row` is the table of attempts: a job is a message and an attempt
number. `owner` is `claim_pid` while that process lives, so probing it with
`os.kill` asks whether there is an owner. `server` is what the mail server made
of each body. `handoff`, `runStatus` and `cancelRequested` are the rows that
settle with an attempt; `answered` is `smtp_retry_requests`; `effects` is a
history variable that counts what each request key caused. `live` stands for
every check of settings, files, catalog and task version, `revision` for
`delivery_revision`. Dispatchers and operators each have a `pc`, the `job` they
work on and the values they read before (`outcome`, `transient`, `request`).

**Steps.** A dispatcher passes through `RecoverRead`, `RecoverProbe`
(`recover_interrupted`), `EnqueueCheck`, `Enqueue` (`enqueue_handoff`) and
`Prepare`, `Claim`, `ConnectFails` / `ConnectionVerified`, `StartData`,
`SendBody`, `ReadReply` / `ExchangeBreaks`, `Finish` / `FinishFails` /
`FinishLost` (`_dispatch_job` and `SmtpQueue.finish`). `Store` is the whole of
`finish`: the attempt, its handoff, its run, and the automatic retry in its
savepoint. An operator cancels (`CancelRead`, `RequestCancel`, `CancelPending`)
or retries (`RetryRead`, then `Expedite`, `Retry` or `RetryEnds`, possibly after
superseding a delayed attempt). `ServerDecides` is the server, in its own time,
also after the connection broke.

**Abstractions.** The claim token is left out because an attempt is claimed at
most once. `StartData` joins the read-only repetition of `_prepare_job` with the
transaction that follows. A due time is a flag (`later`), expiry another. A
crashed process is replaced at once under a new pid; reuse of a pid is not
modelled. The export of attempts to the archive and MIME data are left out.
A failed SQLite commit is possible wherever a result is stored (`FinishFails`).

**The abstract specification.** `MailDelivery` knows only which attempts' bodies
a server may have, which it accepted, which attempts follow an operator's
acknowledgement, and the verdict shown. A body leaves only while the verdict is
pending; a further copy needs every earlier one refused, or an acknowledgement;
"not delivered" is said only if no server can have a copy, "delivered" only if
one accepted. `DeliversOnce` is the refinement, checked as a property.

**Runs.** An instance names the messages and processes that take part; a run
may have several.

| Run | Instances | Shows |
|---|---|---|
| `mail` | a report with a dispatcher and an operator, either of which may die; a connection test with two dispatchers. Three attempts, two request keys, one edit, one failure (a crash, or a result that cannot be stored) | the refinement; a run waits exactly while there is something to wait for, and uncertainty is never forgotten (`RunTellsOfMail`); a request key acts once |
| `settle` | a report, then an alert, with two dispatchers of which one may die, and an operator for the report. Two attempts, one failure, fair | the slot is released; waiting ends and cancellation ends (`MessagesSettle`); several recoveries of one attempt store one result (`ResultIsFinal`) |
| `probe` | two dispatchers and a crash | finding 2 below |

Three attempts allow an uncertain attempt, a retry of it that fails, and a
further one, which is where verdicts can go wrong; two interchangeable keys let a
request be repeated and contradicted. The report of `mail` has one dispatcher
because of finding 2, which needs two and a crash; `settle` has both, and asks
what holds even so. Every run here has one family, so the guard on families is
exercised in `RunFamily` instead.

**Fairness.** A process completes the call it is in (SMTP operations have
timeouts), the worker loop keeps turning, each pass starts with recovery, and due
times arrive. `WaitingEnds`, a part of `MessagesSettle`, excepts what the code
leaves to an operator: a first attempt that the settings refuse stays queued
until they are restored or the run is cancelled, and an attempt whose result
SQLite refused to store before DATA keeps the slot until its process ends
(`Stranded`). `CancelEnds`, the other part, is about a cancellation whose caller
lives through both of its transactions; one that dies between them leaves the
flag set and the run waiting until it is cancelled again. Deadlock checking is
off because a settled queue stops.

## Scheduler: from the clock to the queue

**State.** `active`, `enabled` and `watermark` are columns of `tasks` and
`scheduler_watermarks`, `deleted` and `gone` the deleted rows of `entity_catalog`
(tasks; senders and groups), `runs` the table `scheduled_runs` in the order of
insertion. `tick` holds what a `schedule tick` process has read, `edit` what a
save has sealed but not published. `fresh` are the edits whose expected
`updated_at` is still the row's: every write of the row removes them, which is
the comparison of timestamps that never repeat. Two history variables, read by no
guard, serve the properties: `since` says what last fixed where a task's
evaluation starts and when, `waited` when a run last left the queue.

**Time** is in half minutes. A tick truncates to the minute and occurrences are
whole minutes, but `sealed_at` and a restoration fall anywhere, and that is where
windows open on the left matter.

**Steps.** `Begin` (the clock), `ListTasks`, `ReadVersion` and, in one
transaction, one of `TickSkips`, `TickNotDue`, `TickAlreadyScheduled`,
`TickCoalesces`, `TickEnqueues` are `schedule_tick` and `_tick_task`; the process
may be `Killed` anywhere. `Seal` and `Publish` or `PublishRefused` are the two
halves of saving an edit. `Activate`, `SetEnabled`, `DeleteTask`, `RestoreTask`,
`DeleteItem`, `RestoreItem` are one transaction each. `Enqueue`, `Claim`,
`CancelQueued` and `EndRun` are the rest of the run queue as far as `_tick_task`
and `_require_idle_for_edit` look at it; "running" stands for every state that
keeps a task busy, a waiting message included.

**Abstractions.** A version is a hash with its occurrences, policy and the items
it refers to; all versions exist from the start, since only sealing them, and not
storing them, is visible to a tick. Opening the form and saving it are one step,
`Seal`: a form opened on an older row is refused by the comparison either way.
The check of ownership inside `require_catalog_references` is part of
`ReferencesLive`. Not modelled: a tick with an explicit `--now`, the
installation-wide switch, manual runs for a later time.

**Runs.**

| Run | Instance | Shows |
|---|---|---|
| `edits` | one scheduler, one editor, versions with `enqueue_once` and `skip` of which one refers to an item, five instants, two operations; then two overlapping schedulers with versions of `enqueue_once`, `catch_up` and without a schedule, and one operation | one run per occurrence although a late edit moves the watermark back (`OccurrenceOnce`); no occurrence behind the watermark is lost without a run that covers it, its own one under `catch_up` (`OccurrenceCovered`); no replay after an edit or a restoration, pending runs are of the active version, an enabled schedule can run (`ScheduleStands`) |
| `progress`, part `ticks` | two overlapping schedulers, versions with `catch_up`, with `enqueue_once` and without a schedule, five instants, one operation, fair | under `catch_up` each occurrence gets its run in the end (`CaughtUp`) |
| `replay` | one tick, two versions, two operations | finding 3 below |

Five instants hold three whole minutes: one evaluated, one missed, one present.
Overlap needs two ticks, but no third: what a tick can meet is one other that is
older or newer. `Init` leaves open which version is active, whether it is
enabled and what is already deleted, so few operations reach every order of
deletion, restoration and enabling. In `edits` the `enqueue_once` and `skip` versions
are also enqueued by hand (`Manual`); in `progress` none is. One task is enough because no
transaction reads another task's rows, except `Unused`, for which a second task
is a second reason to refuse.

**Fairness** (`FairSpec`): the clock moves, the timer starts a tick every minute
and the oneshot service runs to its end, workers claim and finish; users and the
operations counted by `MaxOps` owe nothing. Deadlock checking is off because the
bounded clock stops.

**A limit of `catch_up`.** If a tick commits between the sealing and the
publication of an edit, publication moves the watermark back over an occurrence
that already has its run; the next tick finds that run and advances to the
present (`TickAlreadyScheduled`), past later occurrences that have none. The proof
showed how far this goes: the edit need not be of a `catch_up` version, for another
version may be activated later, and `activate_version` leaves the watermark where
it is. `since` therefore records whether the present watermark was put behind a run
(`overtaken`, a history no guard reads), and `OccurrenceCovered` and `CaughtUp` except
exactly those tasks, and not every task that was ever edited.

## AgentInvocation: a phase given to an agent

A run is released when its runner says that everything it started is gone, so
that sentence has to be true. `AgentInvocation` is `_execute` of the six ways to
run a phase (`Runners`): `opencode` and its output-only relative `synthetic`
steer a session of a shared service by control commands, `codex` and
`antigravity` run a command and read its events, `sample` reads them afterwards,
`isolated` runs in a control group.

**State.** `pc` is the place in `_execute`, `local` its variables, `result` what
it returns; `service` is the session (and a request still under way in it, the
late effect), `helpers` the threads of acquisition and images, `turn` the agent's
turn as it really is and `collector` what the runner believes of it (`ToolTrace`),
`outside` the cancellation and the deadline. `child` is a command's processes
(`BoundedProcess`): which are alive, which left the group, which a signal does not
reach, which hold the pipes.

**Steps.** Each control command (`Probe` to `Listing`) is one step with every
outcome its call can have: done, done unknown to the caller, refused, killed with
a child that is not proved gone; each charges the trace budget. `Wait` polls and
forgives up to `Failures` failed polls in a row. `Start` to `EndChild` drive the
process, `Collect` and `Judge` are the verdict on its events, `Import` reads
what the agent submitted, `CloseHelpers` and the `Finally…` steps are the finally
blocks, the `Verdict…` steps compute `cleanup_verified`.

**Run `progress`** (`MCProgress`), part `agent`: two processes (the command and one it forks), one tool, a budget
of 10 and 3 failures. Two processes are enough because the evidence never counts:
it asks whether any is left in the group, or holds a pipe. The budget runs out
within a normal exchange, and the failed polls can both be forgiven and not.
`CleanupIsTrue` is what the workspace depends on, `SuccessIsEarned` what the
stages that follow do, `InvocationEnds` that the runner returns whatever the
agent, its service and the canceller do. **Fairness** is on the runner's own steps,
on the deadline, and on the kill at a timeout, which is a timed wait; nothing is
assumed of the agent, the service or a canceller. Its other part is the scheduler's
`CaughtUp`: both ask what must come to an end, each of its own fairness.

**What is not promised.** Processes that left the group and let go of the pipes are
outside the evidence of `run_bounded` (`Visible`); only a control group holds them.
The synthetic runner may return success with `cleanup_verified` false, after a
forgiven poll whose control child was not proved gone. OpenCode imports before it
closes acquisition, the command runners after. Children of an image engine with
unverified cleanup are not part of the image broker's verdict.

## Evidence: what a phase brings in and what its mail proves

Run `evidence` (`MCEvidence`) checks four modules that share no state.

**Cron** runs `occurrence_between` day by day on a calendar with short
days and months: `Parse` (or rejection), then `TakeOccurrence`, `NextDay`,
`GiveUp`. The two sorted loops over hours and minutes return the candidate that no
other `Precedes` in their order (`FirstOfDay`). The reference (`Names`, `Meant`, `Occurrences`) says what a crontab
means without reference to allowed-value sets, order or days. `FindsTheExtreme`
is checked for every window, also reversed and empty ones, in both directions, with
wildcards, lists, ranges, steps and Sunday as 7, in days that cross the end of a
month and of a week. Seoul has no daylight saving, so days have equal length.

**Acquisition.** `session`, `serve`, `channel` and `receipts` are the session's
thread, what the worker asked and was told; `files` are originals and the worker's
copies, which anybody may rewrite (`Overwrite`); `fetch` is the child that
transfers, `bytes` what it moved, what was charged and the overhanging probes;
`import` is `ArtifactAcquirer` and later `retain_acquisition_evidence`. A fetch may
be refused, fail, lie about its bytes or be killed at the deadline
(`FetchOutcomes`), authority may be lost at any moment. `TransferIsCharged`: no order
of failures and retries moves more than the phase may. `OnlyAuthentic`: what enters
the message is the original of a receipt of a session that ended well, and a later run
takes the evidence over only as it was fetched, with every source that the import's
derivatives refer to (`AsFetched`, `References`, `Available`).
`CleanCloseIsQuiet`: nothing happens after a close that was called clean. Three
sources of which two identify one document, two requests, three lists of artifacts,
and limits (2 files, 3 bytes in total, 2 per image) that every list can exceed.

**DeliveryHistory.** `mail` are the mails of a task with their attempts and
receipts, and with files that can be lost (`Spoil`); `build` is the projection in
progress (`ReadHandoff`, `LookPending`, `LookReceipt`, each at its own time, while
the queue goes on), `ledger` what the worker keeps, `left` the records left out by
dedupe. `NoFalseFailure`: nothing is called not sent that might have been.
`AcceptanceIsLearned`: an acceptance the history shows can always enter the ledger.
`LeftOutWasSent`: a record is left out only if its like was delivered. Two mails, two
retries, two builds and a history of one entry, so that the cut is exercised.

**ImageBroker.** `broker` is its thread, jobs and closing, `asked` and `answers` the
two kinds of files, `shelf` the images, which the worker may replace.
`AnswerHasReceipt`: a worker that is told "available" finds receipts in the result. The
thread looks at the stop flag twice while it settles a job, with a step between
(`LookAtStop`, `RecordJob`).
Two requests that want one file name, for `codex` (a directory per request) and
`openrouter` (one directory); `bailian` and `opencode` differ from the latter in
what they leave behind and are admitted by the module.

A finished acquisition stutters explicitly, so a deadlock there is an error;
the other three may come to rest.

**Observed while modelling**, and excepted by name in the properties:

- `ResearchAcquisitionSession.close` sets `_closed` and then looks at `is_alive()`; a
  fetch that starts in between is not waited for (`session.late`). A failed write of
  the worker's copy leaves a "failed" receipt with an `original_path`, which
  `retain_acquisition_evidence` then refuses for every later compose. The probe byte
  and the bytes of failed metadata can take the consumption past the total, which
  fails the run; metadata of a successful transfer is not charged.
- A retry accepted between the reading of the handoff and the look at pending
  attempts is still shown as `failed_not_sent` (nothing is wrong yet: it has not
  left). A cancelled retry has no receipt, so its mail stays unresolved.
- A stop between the broker's look at the cancellation and its record leaves an
  "available" answer without receipts (`broker.excused`). `bailian` and `opencode`
  leave earlier images behind when a later brief fails, and a retry of the request is
  refused its file name. The broker passes the remaining time as a float to
  `run_bounded`, which wants an integer, so these two engines fail when the phase has
  less time left than their own limit. Receipts hash what is read back from a
  directory the worker can write.

## Control: requests and operators

Run `control` (`MCControl`) checks four modules in five parts.

**Accounts.** `users`, `grants`, `sessions` and `bootstrap` are the tables, `calls`
the HTTP requests being served. A request looks (`Look`), derives a password hash
outside any transaction (`Derive`) and then commits; `Serve` and `Touch` are a page
with the renewal of its session. Whether a session was overtaken is history
(`outdated`), set by whoever changes an account. `SessionIsCurrent`: no usable session
stands on evidence that a later change has overtaken. `AdminRemains`: there is always
an administrator who can log in, and one set-up. Two people, two threads, three
sessions, two requests, two changes of accounts or one and a session that lapses, and
limits of one, so that every limit is reached. Two requests are enough because a check
is overtaken by one commit of another.

**Maintenance.** The database is a base and a write-ahead log, and a log is read with
whatever base lies beside it (`View`); `restore` passes through staging, the safety
copy, the marker, the removal of the log, the replacement and the removal of the
marker, and may die at each (`RestoreStops`), as may services and a backup.
`RestoreIsWhole`: who can open the database finds all of it, and while the marker
keeps everybody out the safety directory is whole. Two services, three contents, two
restores (one that dies, one after `Recover`).

**RunFamily.** `runs` with their frozen order (operation, scope, parent, version,
source, revision, authorization), handoff, attempt and message; `call` holds what a
command has read before its transaction (`create_run`, `_insert_retry`). The worker
and the dispatcher are the steps a command races with. `FamilySerial`: one run of a
family in the works. `StoredMailOnce`: one composed message is on the wire under
one run only. `SentOnCurrentTerms`: a body begins only for a live task under unchanged
delivery settings. `KeyMakesOneRun`. Dry runs send nothing and are left out, and so is the worker's
forcing of a queued run to be one (`set_force_dry_run`, `worker.py:93`). Two callers with one key, three versions of which
two share the delivery settings, three runs, three commands, two attempts.
It starts with a new task, with a run that failed after it composed its mail, or
while a second run sends that mail; the last is reachable from the one before and
only makes counterexamples short.

**DeliverySettings.** `mapping` is the settings file, `entry` the catalog with owners
and deletions, `page` the requests between their read, the lock, the catalog and the
file, `target` the task and what it refers to, `letter` a mail with one attempt at a
time. Part `pages` lets three requests run, die and be repeated while one item is
deleted: `OthersAreKept` (a request for one item keeps what others saved for the other
items) and `CreationIsOwned` (a request key makes one item, of that account). A request
is one of four kinds, by what it reads before the lock: a creation nothing
(`BeginCreate`), the page of a sender nothing that it does not fill in (`BeginEdit`),
the pages that add and remove a member the list of their group (`BeginMember`), and
`delivery config` and the form that creates a group under a given key the whole file
(`BeginWhole`). The form that creates a sender without a display name is left out. Part `routes` lets mail pass its
approvals while the catalog and the task change four times: `RoutesAreCurrent`.

Threads serve requests of every kind and the two people are interchangeable, so both
are symmetric. Deadlock checking is off: a restore that failed, a task
without requests and users who left may rest.

**Observed while modelling:**

- Accounts: a change of somebody's account looks again at the actor's account when it
  commits, not at the session. The scope of a request is that of its start.
- Maintenance: a restore survives the death of its process; the loss of power is not
  modelled. That no raw SQLite client is open is the operator's attestation
  (`NothingRuns`).
- Cleanup may retire an archive between the check of a retry and its commit; the job
  fails at its preflight. A handoff left `prepared` by a failed second approval
  protects its archive for ever.
- RunFamily: stored mail sent again by a second run fails, is sent again by a third
  and accepted; the e-mail retry of the second is still allowed, and delivers the
  message twice. The guard of an e-mail retry looks at relatives that wait, not at
  those accepted, while `docs/EMAIL_RETRY.md:28` blocks a new sending of stored mail
  after an acceptance in its family and `:95` says that an e-mail retry repeats nothing
  accepted. `StoredMailOnce` excepts attempts repeated by hand (`byhand`).
- A repeated request key is refused, and not answered with its run, once the active
  version changed; likewise for concurrent retries with an edit in between.
- DeliverySettings: requests that save a whole file read before the lock undo what
  others saved for any item in between; `OthersAreKept` is about the others
  (`SavesOneItem`). What two requests for one item lose is finding 4.
- Delete a task, delete its sender, restore the task: its restoration does not check
  what it refers to, and an e-mail retry of a failed message then sends from the
  deleted sender, for `require_approval` looks at the deletion of groups only.
  `docs/EMAIL_RETRY.md:43` says current sender checks are kept. `RoutesAreCurrent`
  excepts these. `require_catalog_references` does not look at the alert group.

## Findings

1. `edit` / `EndedRunLeavesNoPendingEmail`. When publication of a handoff raises
   after its row was saved, the run ends `failed` and its task is released while
   the handoff stays `prepared` or `published`. The task editor then refuses with
   "Wait for it to finish (or cancel it in Runs)", but waiting and cancelling do
   nothing for a run that failed. A published one also blocks retries in its
   family (`delivery/retry_guard.py`).
2. `probe` / `PostDataIsUncertain`. `recover_interrupted` promises "pre-DATA is
   failed, post-DATA uncertain", but it reads the phase before it probes the
   owner. If the owner enters DATA and dies in between, a second process that
   dispatches records `failed` for a message a server may have, and a retry of it
   needs no acknowledgement. One dispatcher alone cannot meet this.
3. `replay` / `NewRulesDoNotReplay`. `publish_production_update` moves the
   watermark because "New cron rules must not replay pre-edit occurrences under
   the new instructions after a long-disabled schedule is enabled".
   `activate_version` gives a task new rules as well but leaves the watermark:
   activate another version, enable the schedule, and the next tick enqueues an
   occurrence from before the activation (under `catch_up`, all of them).
4. `serialize` / `EditsAreSerialized`. `_config_edit_lock` is there to "Serialize whole
   read/modify/write operations across Web processes"
   (`services/delivery_service.py:62`), but the pages that add and remove a group's
   member read its list before they take it (`web/router.py:1063-1069`,
   `1079-1083`), and `save_recipient_group` replaces the list. Two additions to one
   group, both read first, leave one address. The run has the pages only; `delivery
   config` and the form that creates a group under a given key read the whole file
   before the lock and lose more. A request is serialized if the item it saves is the
   change it was asked for, made to what the file had when it was saved.

The smaller ones, met while modelling and excepted by name in the properties they
touch, are listed with their modules ("Observed").

## What is proved and what is model-checked

Every theorem is proved for every value of the constants that satisfies the named
assumptions of its module: any number of runs, workers, messages, processes, ticks,
pages, callers, and any limits. The runs show the same formulas on the instances
described. `RunLifecycle` has its table above.

A theorem says what its property's formula says, and some formulas are narrower than
their names. `LocksFollowClaims` is about whose the lock is; that recovery never finds a
stranger's does not follow and is not true. `RoutesStayCurrent` leaves out a deleted
sender when its mail is retried by hand, and `OthersStayKept` the edits of one item and
the requests that save a whole file. `NoFalseFailures` is about each mail as of the read
of its handoff, not about a record in all mails that hold it. `AcceptancesAreLearned` is
about an acceptance that a complete history shows, not about one whose files were lost.
`AnswersHaveReceipts` leaves out jobs that were told to stop while they settled.

| Module | Theorem | Property |
|---|---|---|
| `SmtpQueueProofs` | `InductiveQueue` | `Inductive` (in no run) |
| | `RunsTellOfMail` | `RunTellsOfMail` |
| | `KeysActOnce` | `RequestOnce` |
| | `ResultsStand` | `ResultIsFinal` |
| | `RecoveryIsTruthful` | `PostDataIsUncertain`, under `NoDeadPeer` |
| | `QueueDeliversOnce` | `DeliversOnce`, under `NoDeadPeer` |
| `SchedulerProofs` | `InductiveSchedule` | `Inductive` (in no run) |
| | `OccurrencesRunOnce` | `OccurrenceOnce` |
| | `SchedulesStand` | `ScheduleStands` |
| | `OccurrencesAreCovered` | `OccurrenceCovered` |
| | `CronStands` | `CronInv` (in no run) |
| | `OccurrencesAreFound` | `FindsTheExtreme` |
| `InvocationProofs` | `InvocationStands` | `InvocationInv` (in no run) |
| | `CleanupsAreTrue` | `CleanupIsTrue` |
| | `SuccessesAreEarned` | `SuccessIsEarned` |
| `RunFamilyProofs` | `FamiliesStand` | `FamInv` (in no run) |
| | `FamiliesAreSerial` | `FamilySerial` |
| | `StoredMailIsSentOnce` | `StoredMailOnce` |
| | `BodiesAreOnCurrentTerms` | `SentOnCurrentTerms` |
| | `KeysMakeOneRun` | `KeyMakesOneRun` |
| `ControlProofs` | `SettingsStand` | `SetInv` (in no run) |
| | `CreationsAreOwned` | `CreationIsOwned` |
| | `RoutesStayCurrent` | `RoutesAreCurrent` |
| | `OthersStayKept` | `OthersAreKept` |
| | `RestoresAreWhole` | `RestoreIsWhole` |
| | `SessionsAreCurrent` | `SessionIsCurrent` |
| | `AdminsRemain` | `AdminRemains` |
| `EvidenceProofs` | `HistoryStands` | `HistInv` (in no run) |
| | `NoFalseFailures` | `NoFalseFailure` |
| | `AcceptancesAreLearned` | `AcceptanceIsLearned` |
| | `LeftOutsWereSent` | `LeftOutWasSent` |
| | `AnswersHaveReceipts` | `AnswerHasReceipt` |
| | `AcquisitionStands` | `AcqInv` (in no run) |
| | `TransfersAreCharged` | `TransferIsCharged` |
| | `ImportsAreAuthentic` | `OnlyAuthentic` |
| | `CleanClosesAreQuiet` | `CleanCloseIsQuiet` |

The arguments, each an invariant stronger than the properties:

- *E-mail queue.* A property says what rows tell of mail; a step is decided by the
  local variables of a process that read the rows earlier. The invariant says what
  each place in the code implies of the row the process works on: the owner of an
  attempt has it to itself and its phase is on record (`Holds`), whoever recovers one
  found it sent for by a process that is gone (`Recovers`), what was checked before an
  insertion still holds but for a cancellation (`Inserts`); attempts of a message are
  numbered without gaps and only the last can be pending (`Ordered`), and a row's phase
  bounds what the server can have (`Exchange`).
- *Refinement.* Every step of `SmtpQueue` is a step of `MailDelivery` or leaves it
  where it is. That a message called not delivered is not with a server
  (`FailedWasNotSent`) needs that a recovery which read the phase "prepared" does not
  meet an owner that has since entered DATA and died (`Fates`), and this is false
  with two dispatchers of which one can die: finding 2. The hypothesis `NoDeadPeer` says
  that there is no such pair; it holds of the deployment the repository installs, one
  dispatcher that may die at any time, and of the instances of run `mail`. The first
  four theorems do without it.
- *Scheduler.* Nothing is dated after the clock (`Timely`), and no run is for an
  occurrence after the watermark unless an edit put it back there (`Marked`); so a tick
  that finds its occurrence scheduled has nothing earlier to lose.
- *Cron.* A whole minute is the place its day, hour and minute say (`PartsOfMinute`),
  and what a field allows is what it names (`AllowedNames`), so the minutes that are
  meant are the candidates of the days that match. No occurrence lies on a day the
  search has left (`NotPassed`), and it leaves the window's days only at their far end
  (`FromNearEnd`): a candidate found is the extreme, and without one there is none.
- *Agent invocation.* Three lines meet in the verdict. What a client may conclude of a
  session (`SessionStands`, `SessionAt`): none exists before it asked for one, a session
  it knows is not still to be created, and what was seen to be over stays over, because
  a request that arrives late can only reach a session that still waits for it. What the
  collector knows (`CollectorStands`, `TraceStands`): without an error, exactly the
  tools at work. What the evidence says of processes (`ChildStands`): the drain, and
  then the look, only ever overstate who is left.
- *Run families.* A run's parent has a smaller number, so the walk of `Root` ends (from
  a least counterexample, for induction over data is out of reach), and a family is
  well defined. `create_run` and `_insert_retry` decide about it inside the transaction
  that inserts, so two members are never in the works (`Serial`); a message carries the
  number of the run that composed it, and once it has left the works nothing but a
  retry by hand brings it back (`WireOnce`); the dispatcher's run awaits its receipt
  with its archive in place (`SenderIs`).
- *Delivery settings.* Who holds the lock has read the file as it is, unless its kind
  reads before it locks (`Stands`); owner and request key of an entry never change once
  it has one (`EntriesStand`); what a letter refers to is in use, so `Delete` refuses
  it, but for an e-mail retry by hand (`LetterStands`).
- *Accounts.* Rows of `auth_sessions` are at the present revision of an active account
  (`SessionRow`), and what a request has read of a revision is behind it once the
  account has changed (`Evidence`), so the commit of a slow request fails.
- *Maintenance.* The place of the restore says which of the two sets of files is whole
  (`RestoreStages`).

- *Delivery history.* Attempts of a mail only grow and what is settled stays
  (`MailStands`), so a word of the receipts stays proved for good (`NoteStands`); what the
  projection read of a handoff was true when it read it (`BuildStands`), and a failure
  it shows rests on every attempt up to the receipt it names. What the worker
  keeps in its ledger rests on receipts in the same way, so what is proved later
  extends it and never contradicts it.
- *Image broker.* Whoever is told "available" has its job on record before it is told
  (`Backed`), or was stopped while it settled.
- *Acquisition.* At most one of the thread and the import is at work (`SessionStands`).
  While one fetches, what it was allowed fits in what is left (`Allowances`), and every
  outcome is charged with no less than it moved, but for the probing byte, whatever the
  child reported (`OutcomeIsCharged`). A child left behind may still move its allowance,
  which was charged in full (`Stray`), and it ends the session or the import
  (`StrayEnds`), so that there is never a second one. All of that ends where `close()` no
  longer waited for the thread (`session.late`), as `TransferIsCharged` says.

The invariants named "in no run" were checked by TLC on the runs' instances before
they were proved. One statement was corrected by a proof that failed: the exception
of `OccurrenceCovered` (see `Scheduler`).

**Model-checked only.** *Liveness* (`RunsSettle`, `ClaimsSettle`, `SlotIsReleased`,
`MessagesSettle`, `CaughtUp`, `InvocationEnds`), with everything about fairness and `ENABLED`: the
installed prover does not reach them. Every safety property of the passing runs is a
theorem. No module declares a `RECURSIVE` operator, so each can be proved about.

The `TypeOK` of `SmtpQueue` and of `Scheduler` are parts of `RunTellsOfMail` and of
`ScheduleStands`.

## Not modelled, and why

- *Deployment tool*: calls systemd and copies files, once, by hand; the runtime guard
  it shares with backups is in `Maintenance`.
- *Run timeline and step events*: display data under a sequence number per run.
- *Schema and migrations*: run once under an exclusive lock at start-up.
- *Doctor, workspace and application services*: reads, checks, wiring.
- *Boundary validation, domain types, research gates, MIME and package content*: pure
  functions of one input; a model would repeat them. What they decide is a
  nondeterministic outcome of the stage they are in.
- *Export of SMTP attempts to the archive* (`archive_attempt`,
  `reconcile_completed_attempts`) and republication of a handoff, which change
  nothing that a later decision reads, the audit log apart.
- *Web pages and CLI commands* other than those named: they forward and render.

`PROJECT.json` lists every part with its status, and the hazards with the property
that is about each.

## Plan

1. That `Between` of `Scheduler` is what `Cron` finds, as a theorem: the two are
   joined by the reading of `Cron[v]` as `Occurrences`.
2. If runs allow: the deleted sender as a run of its own, and the composition of `SmtpQueue` with the approvals of `DeliverySettings`.
