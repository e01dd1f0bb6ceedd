----------------------------- MODULE Scheduler -----------------------------
(***************************************************************************)
(* The cron scheduler: ticks that turn due occurrences into queued runs,   *)
(* the watermark up to which each task has been evaluated, and the         *)
(* operations that race with a tick: an edit sealed before it is           *)
(* published, activation, enabling, deletion and restoration of a task,    *)
(* deletion of the sender or group a task refers to.                       *)
(*                                                                         *)
(* Time is counted in half minutes, so that an edit can fall between two   *)
(* whole minutes: a tick truncates its clock to the minute and cron        *)
(* occurrences are whole minutes, but sealed_at and the time of a          *)
(* restoration are not.                                                    *)
(***************************************************************************)
EXTENDS Integers, Sequences, FiniteSets, FiniteSetsExt

CONSTANTS
    Tasks,
    Versions,     \* sealed task versions, by hash; any task may use any
    Scheduled,    \* the versions with a valid schedule section
    Cron,         \* Cron[v]: the occurrences of v's cron expression
    Policy,       \* Policy[v]: v's misfire_policy
    Items,        \* senders and recipient groups
    Uses,         \* Uses[v]: the items v refers to
    Manual,       \* the versions that users also enqueue by hand
    Schedulers,   \* processes that run "schedule tick"
    Editors,      \* requests that save an edited task
    MaxNow,       \* bound on the clock
    MaxOps        \* bound on the operations of users, and on killed ticks

Minute == 2
Instants == 0 .. MaxNow
Policies == {"skip", "enqueue_once", "catch_up"}

ASSUME SchedulerAssumption ==
    /\ IsFiniteSet(Tasks) /\ IsFiniteSet(Schedulers)
    /\ MaxNow \in Nat /\ MaxOps \in Nat
    /\ Scheduled \subseteq Versions /\ Manual \subseteq Versions
    /\ Cron \in [Versions -> SUBSET {i \in Instants : i % Minute = 0}]
    /\ Policy \in [Versions -> Policies]
    /\ Uses \in [Versions -> SUBSET Items]

\* scheduler_watermarks has no row for a task that was never evaluated: before
\* every instant, the one a minute before the first included.
NoMark == -(Minute + 1)

VARIABLES
    clock,       \* the time of day all processes read
    ops,         \* operations done so far, at most MaxOps
    active,      \* active[t]: tasks.active_version_hash
    enabled,     \* enabled[t]: tasks.enabled
    deleted,     \* the tasks whose catalog entry is deleted
    gone,        \* the items whose catalog entry is deleted
    watermark,   \* watermark[t]: scheduler_watermarks.evaluated_through
    runs,        \* scheduled_runs, in the order of insertion
    tick,        \* tick[s]: the progress of one schedule_tick
    edit,        \* edit[e]: an edit between sealing and publication
    fresh,       \* the edits whose expected updated_at is still the row's
    since,       \* since[t]: what last fixed where t's evaluation starts, from
                 \* which instant, and whether it had gone further before
    waited       \* waited[t]: when a run of t last left the queue
                 \* (since and waited are history: no guard reads them)

taskVars == <<active, enabled, deleted, watermark, since>>
vars == <<clock, ops, taskVars, gone, runs, tick, edit, fresh, waited>>

Idle == [pc |-> "idle", now |-> 0, todo |-> {}]
NoEdit == [pc |-> "idle"]

Ticks ==
    {Idle} \cup
    [pc : {"begun"}, now : Instants, todo : {{}}] \cup
    [pc : {"listed"}, now : Instants, todo : SUBSET Tasks] \cup
    [pc : {"read"}, now : Instants, todo : SUBSET Tasks,
     task : Tasks, version : Versions]

Edits ==
    {NoEdit} \cup
    [pc : {"sealed"}, task : Tasks, version : Versions, expected : Versions,
     enable : BOOLEAN, at : Instants]

Sinces == [by : {"creation", "first_tick", "edit", "activation", "restore"},
           at : -Minute .. MaxNow, overtaken : BOOLEAN]

\* since: since[task] at the insertion of the run.
RunRecords ==
    [task : Tasks, version : Versions, at : Instants,
     trigger : {"schedule", "manual"}, status : {"queued", "running", "ended"},
     since : Sinces]

TypeOK ==
    /\ clock \in Instants
    /\ ops \in 0 .. MaxOps
    /\ active \in [Tasks -> Versions]
    /\ enabled \in [Tasks -> BOOLEAN]
    /\ deleted \subseteq Tasks
    /\ gone \subseteq Items
    /\ watermark \in [Tasks -> {NoMark} \cup (-Minute .. MaxNow)]
    /\ runs \in Seq(RunRecords)
    /\ tick \in [Schedulers -> Ticks]
    /\ edit \in [Editors -> Edits]
    /\ fresh \subseteq Editors
    /\ since \in [Tasks -> Sinces]
    /\ waited \in [Tasks -> {NoMark} \cup Instants]

\* An installation in use: tasks were published, with or without their schedule,
\* and not evaluated yet; some were deleted again, and so were some items, which
\* a restored task may still refer to, but none that an enabled task needs.
Init ==
    /\ clock = 0 /\ ops = 0
    /\ active \in [Tasks -> Versions]
    /\ enabled \in [Tasks -> BOOLEAN]
    /\ deleted \in SUBSET Tasks /\ gone \in SUBSET Items
    /\ \A t \in Tasks : enabled[t] => t \notin deleted /\ Uses[active[t]] \cap gone = {}
    /\ watermark = [t \in Tasks |-> NoMark]
    /\ runs = <<>>
    /\ tick = [s \in Schedulers |-> Idle]
    /\ edit = [e \in Editors |-> NoEdit]
    /\ fresh = {}
    /\ since = [t \in Tasks |-> [by |-> "creation", at |-> 0, overtaken |-> FALSE]]
    /\ waited = [t \in Tasks |-> NoMark]
-----------------------------------------------------------------------------
\* What the transactions ask of the tables.
IndexesOf(t) == {i \in DOMAIN runs : runs[i].task = t}

Queued(t) == {i \in IndexesOf(t) : runs[i].status = "queued"}

\* Mutant: an occurrence counts as scheduled only while its run is pending.
PendingAt(t, o) ==
    {i \in IndexesOf(t) : runs[i].trigger = "schedule" /\ runs[i].at = o
                           /\ runs[i].status # "ended"}

ScheduledAt(t, o) ==
    {i \in IndexesOf(t) : runs[i].trigger = "schedule" /\ runs[i].at = o}

\* History: a tick was past this instant.
Overtaken(t, instant) ==
    \E i \in IndexesOf(t) : runs[i].trigger = "schedule" /\ runs[i].at > instant

IdleForEdit(t) == \A i \in IndexesOf(t) : runs[i].status = "ended"
ReferencesLive(v) == Uses[v] \cap gone = {}

EditsOf(t) == {e \in Editors : edit[e] # NoEdit /\ edit[e].task = t}

Count == ops < MaxOps /\ ops' = ops + 1
-----------------------------------------------------------------------------
\* schedule_tick reads the clock, then the enabled tasks, then goes through
\* them one by one: the version outside any transaction, the rest inside one.
Begin(s) ==
    /\ tick[s] = Idle
    /\ tick' = [tick EXCEPT ![s] =
          [pc |-> "begun", now |-> clock - (clock % Minute), todo |-> {}]]
    /\ UNCHANGED <<clock, ops, taskVars, gone, runs, edit, fresh, waited>>

Listed == {t \in Tasks \ deleted : enabled[t]}

ListTasks(s) ==
    /\ tick[s].pc = "begun"
    /\ tick' = [tick EXCEPT ![s] =
          [pc |-> "listed", now |-> tick[s].now, todo |-> Listed]]
    /\ UNCHANGED <<clock, ops, taskVars, gone, runs, edit, fresh, waited>>

\* A version without a schedule is passed over.
ReadVersion(s, t) ==
    /\ tick[s].pc = "listed" /\ t \in tick[s].todo
    /\ tick' = [tick EXCEPT ![s] =
          IF active[t] \in Scheduled
          THEN [pc |-> "read", now |-> tick[s].now, todo |-> tick[s].todo \ {t},
                task |-> t, version |-> active[t]]
          ELSE [tick[s] EXCEPT !.todo = @ \ {t}]]
    /\ UNCHANGED <<clock, ops, taskVars, gone, runs, edit, fresh, waited>>

Finish(s) ==
    /\ tick[s].pc = "listed" /\ tick[s].todo = {}
    /\ tick' = [tick EXCEPT ![s] = Idle]
    /\ UNCHANGED <<clock, ops, taskVars, gone, runs, edit, fresh, waited>>

\* The oneshot process is killed: the transaction it is in rolls back.
Killed(s) ==
    /\ Count
    /\ tick[s] # Idle
    /\ tick' = [tick EXCEPT ![s] = Idle]
    /\ UNCHANGED <<clock, taskVars, gone, runs, edit, fresh, waited>>

NextTask(s) ==
    tick' = [tick EXCEPT ![s] =
        [pc |-> "listed", now |-> tick[s].now, todo |-> tick[s].todo]]

Previous(t, now) == IF watermark[t] = NoMark THEN now - Minute ELSE watermark[t]

\* Mutant: only the current minute is searched, whatever the policy.
SearchStartMinute(t, v, now) == now - Minute

SearchStart(t, v, now) ==
    IF Policy[v] = "skip" THEN now - Minute ELSE Previous(t, now)

\* CronExpression.occurrence_between over the occurrences in (start, end].
Between(v, start, end) == {o \in Cron[v] : start < o /\ o <= end}

Candidates(t, v, now) == Between(v, SearchStart(t, v, now), now)

Occurrence(t, v, now) ==
    IF Policy[v] = "catch_up"
    THEN Min(Candidates(t, v, now))
    ELSE Max(Candidates(t, v, now))

\* What _tick_task checks again inside its transaction.
StillCurrent(t, v) ==
    t \notin deleted /\ ReferencesLive(v) /\ enabled[t] /\ active[t] = v

Evaluates(t, v, now) == StillCurrent(t, v) /\ Previous(t, now) < now

TickSkips(s) ==
    /\ tick[s].pc = "read"
    /\ ~Evaluates(tick[s].task, tick[s].version, tick[s].now)
    /\ NextTask(s)
    /\ UNCHANGED <<clock, ops, taskVars, gone, runs, edit, fresh, waited>>

\* The watermark is written by every evaluation; the first one also fixes
\* where the task's evaluation starts.
Advance(t, now, to) ==
    /\ watermark' = [watermark EXCEPT ![t] = to]
    /\ since' = IF watermark[t] = NoMark
                THEN [since EXCEPT ![t] = [by |-> "first_tick", at |-> now - Minute,
                                            overtaken |-> FALSE]]
                ELSE since
    /\ UNCHANGED <<active, enabled, deleted>>

TickNotDue(s) ==
    LET t == tick[s].task  v == tick[s].version  now == tick[s].now IN
    /\ tick[s].pc = "read" /\ Evaluates(t, v, now)
    /\ Candidates(t, v, now) = {}
    /\ Advance(t, now, now)
    /\ NextTask(s)
    /\ UNCHANGED <<clock, ops, gone, runs, edit, fresh, waited>>

TickAlreadyScheduled(s) ==
    LET t == tick[s].task  v == tick[s].version  now == tick[s].now IN
    /\ tick[s].pc = "read" /\ Evaluates(t, v, now)
    /\ Candidates(t, v, now) # {}
    /\ ScheduledAt(t, Occurrence(t, v, now)) # {}
    /\ Advance(t, now, now)
    /\ NextTask(s)
    /\ UNCHANGED <<clock, ops, gone, runs, edit, fresh, waited>>

CoalescedMark(t, v, now) ==
    IF Policy[v] = "catch_up" THEN Previous(t, now) ELSE now

\* A run of the task is already queued, whoever asked for it.
TickCoalesces(s) ==
    LET t == tick[s].task  v == tick[s].version  now == tick[s].now IN
    /\ tick[s].pc = "read" /\ Evaluates(t, v, now)
    /\ Candidates(t, v, now) # {}
    /\ ScheduledAt(t, Occurrence(t, v, now)) = {}
    /\ Queued(t) # {}
    /\ Advance(t, now, CoalescedMark(t, v, now))
    /\ NextTask(s)
    /\ UNCHANGED <<clock, ops, gone, runs, edit, fresh, waited>>

\* Mutant: catch_up advances past the occurrences it has not enqueued.
EnqueuedMarkNow(t, v, now) == now

EnqueuedMark(t, v, now) ==
    IF Policy[v] = "catch_up" THEN Occurrence(t, v, now) ELSE now

NewRun(t, v, o, how) ==
    [task |-> t, version |-> v, at |-> o, trigger |-> how, status |-> "queued",
     since |-> since'[t]]

TickEnqueues(s) ==
    LET t == tick[s].task  v == tick[s].version  now == tick[s].now IN
    /\ tick[s].pc = "read" /\ Evaluates(t, v, now)
    /\ Candidates(t, v, now) # {}
    /\ ScheduledAt(t, Occurrence(t, v, now)) = {}
    /\ Queued(t) = {}
    /\ Advance(t, now, EnqueuedMark(t, v, now))
    /\ runs' = Append(runs, NewRun(t, v, Occurrence(t, v, now), "schedule"))
    /\ NextTask(s)
    /\ UNCHANGED <<clock, ops, gone, edit, fresh, waited>>
-----------------------------------------------------------------------------
\* The runs, as far as the scheduler sees them: RunLifecycle has the rest.
\* "running" stands for every state in which the task is busy, until the
\* message of the run is settled.

\* Any other run, of the active version or of a candidate.
Enqueue(t, v) ==
    /\ Count
    /\ t \notin deleted /\ ReferencesLive(v)
    /\ UNCHANGED <<clock, taskVars, gone, tick, edit, fresh, waited>>
    /\ runs' = Append(runs, NewRun(t, v, clock, "manual"))

Claim(i) ==
    /\ runs[i].status = "queued"
    /\ \A j \in IndexesOf(runs[i].task) : runs[j].status # "running"
    /\ runs' = [runs EXCEPT ![i].status = "running"]
    /\ waited' = [waited EXCEPT ![runs[i].task] = clock]
    /\ UNCHANGED <<clock, ops, taskVars, gone, tick, edit, fresh>>

CancelQueued(i) ==
    /\ Count
    /\ runs[i].status = "queued"
    /\ runs' = [runs EXCEPT ![i].status = "ended"]
    /\ waited' = [waited EXCEPT ![runs[i].task] = clock]
    /\ UNCHANGED <<clock, taskVars, gone, tick, edit, fresh>>

EndRun(i) ==
    /\ runs[i].status = "running"
    /\ runs' = [runs EXCEPT ![i].status = "ended"]
    /\ UNCHANGED <<clock, ops, taskVars, gone, tick, edit, fresh, waited>>
-----------------------------------------------------------------------------
\* Saving an edit: the form's version and updated_at are what the row has, the
\* new version is sealed (its sealed_at read), and only then published.  An
\* editor opened on an older row is refused by the comparison either way.
Seal(e, t, v, on) ==
    /\ Count
    /\ edit[e] = NoEdit /\ t \notin deleted
    /\ edit' = [edit EXCEPT ![e] =
          [pc |-> "sealed", task |-> t, version |-> v, expected |-> active[t],
           enable |-> on, at |-> clock]]
    /\ fresh' = fresh \cup {e}
    /\ UNCHANGED <<clock, taskVars, gone, runs, tick, waited>>

\* A write to the row of t gives it another updated_at.
Touch(t) == fresh' = fresh \ EditsOf(t)

Unchanged(e) ==
    /\ active[edit[e].task] = edit[e].version
    /\ \/ edit[e].expected # edit[e].version
       \/ /\ e \in fresh
          /\ enabled[edit[e].task] = edit[e].enable

\* The guards of publish_production_update, in its transaction.
MayPublish(e) ==
    LET t == edit[e].task IN
    /\ t \notin deleted /\ ReferencesLive(edit[e].version)
    /\ active[t] = edit[e].expected /\ e \in fresh
    /\ ~Unchanged(e)
    /\ IdleForEdit(t)

\* Refused, or a save that changes nothing.
PublishRefused(e) ==
    /\ edit[e] # NoEdit /\ ~MayPublish(e)
    /\ edit' = [edit EXCEPT ![e] = NoEdit]
    /\ fresh' = fresh \ {e}
    /\ UNCHANGED <<clock, ops, taskVars, gone, runs, tick, waited>>

\* Mutant: publication leaves the watermark alone.
PublishKeepsMark(e) == watermark

\* The watermark moves to sealed_at, which may be behind it.
PublishMark(e) == [watermark EXCEPT ![edit[e].task] = edit[e].at]

Publish(e) ==
    LET t == edit[e].task IN
    /\ edit[e] # NoEdit /\ MayPublish(e)
    /\ active' = [active EXCEPT ![t] = edit[e].version]
    /\ enabled' = [enabled EXCEPT ![t] = edit[e].enable]
    /\ watermark' = PublishMark(e)
    /\ since' = [since EXCEPT ![t] = [by |-> "edit", at |-> edit[e].at,
                                       overtaken |-> Overtaken(t, edit[e].at)]]
    /\ Touch(t)
    /\ edit' = [edit EXCEPT ![e] = NoEdit]
    /\ UNCHANGED <<clock, ops, deleted, gone, runs, tick, waited>>

\* activate_version in production: the schedule goes off, as every caller leaves
\* schedule_enabled at its default, and the watermark stays where it is.
Activate(t, v) ==
    /\ Count
    /\ t \notin deleted /\ ReferencesLive(v)
    /\ active[t] = v \/ IdleForEdit(t)
    /\ active' = [active EXCEPT ![t] = v]
    /\ enabled' = [enabled EXCEPT ![t] = FALSE]
    /\ since' = IF watermark[t] = NoMark \/ active[t] = v THEN since
                ELSE [since EXCEPT ![t] = [by |-> "activation", at |-> clock,
                                            overtaken |-> since[t].overtaken]]
    /\ Touch(t)
    /\ UNCHANGED <<clock, deleted, watermark, gone, runs, tick, edit, waited>>

SetEnabled(t, on) ==
    /\ Count
    /\ t \notin deleted
    /\ on => ReferencesLive(active[t])
    /\ enabled' = [enabled EXCEPT ![t] = on]
    /\ Touch(t)
    /\ UNCHANGED <<clock, active, deleted, watermark, since, gone, runs, tick, edit, waited>>

DeleteTask(t) ==
    /\ Count
    /\ t \notin deleted /\ IdleForEdit(t)
    /\ deleted' = deleted \cup {t}
    /\ enabled' = [enabled EXCEPT ![t] = FALSE]
    /\ Touch(t)
    /\ UNCHANGED <<clock, active, watermark, since, gone, runs, tick, edit, waited>>

RestoreTask(t) ==
    /\ Count
    /\ t \in deleted
    /\ deleted' = deleted \ {t}
    /\ enabled' = [enabled EXCEPT ![t] = FALSE]
    /\ watermark' = [watermark EXCEPT ![t] = clock]
    /\ since' = [since EXCEPT ![t] = [by |-> "restore", at |-> clock, overtaken |-> FALSE]]
    /\ Touch(t)
    /\ UNCHANGED <<clock, active, gone, runs, tick, edit, waited>>

\* A sender or group is not deleted under a task that refers to it.  (Nor under
\* an unsettled message, but while there is one the version it was made from
\* stays the active version of a task that is not deleted.)
Unused(x) == \A t \in Tasks \ deleted : x \notin Uses[active[t]]

DeleteItem(x) ==
    /\ Count
    /\ x \notin gone /\ Unused(x)
    /\ gone' = gone \cup {x}
    /\ UNCHANGED <<clock, taskVars, runs, tick, edit, fresh, waited>>

RestoreItem(x) ==
    /\ Count
    /\ x \in gone
    /\ gone' = gone \ {x}
    /\ UNCHANGED <<clock, taskVars, runs, tick, edit, fresh, waited>>

TimePasses ==
    /\ clock < MaxNow
    /\ clock' = clock + 1
    /\ UNCHANGED <<ops, taskVars, gone, runs, tick, edit, fresh, waited>>
-----------------------------------------------------------------------------
TickTask(s) ==
    TickSkips(s) \/ TickNotDue(s) \/ TickAlreadyScheduled(s)
    \/ TickCoalesces(s) \/ TickEnqueues(s)

SchedulerStep(s) ==
    \/ Begin(s) \/ ListTasks(s) \/ Finish(s) \/ TickTask(s)
    \/ \E t \in Tasks : ReadVersion(s, t)

WorkerStep(i) == Claim(i) \/ EndRun(i)

TaskStep(t) ==
    \/ \E v \in Versions : Activate(t, v)
    \/ \E on \in BOOLEAN : SetEnabled(t, on)
    \/ \E v \in Manual : Enqueue(t, v)
    \/ DeleteTask(t) \/ RestoreTask(t)

EditorStep(e) ==
    \/ \E t \in Tasks, v \in Versions, on \in BOOLEAN : Seal(e, t, v, on)
    \/ PublishRefused(e) \/ Publish(e)

Next ==
    \/ \E s \in Schedulers : SchedulerStep(s) \/ Killed(s)
    \/ \E i \in DOMAIN runs : WorkerStep(i) \/ CancelQueued(i)
    \/ \E t \in Tasks : TaskStep(t)
    \/ \E e \in Editors : EditorStep(e)
    \/ \E x \in Items : DeleteItem(x) \/ RestoreItem(x)
    \/ TimePasses

Spec == Init /\ [][Next]_vars

\* systemd starts a tick every minute and lets it finish, workers poll the
\* queue, and every run ends; users owe nothing.
FairSpec ==
    /\ Spec
    /\ WF_vars(TimePasses)
    /\ \A s \in Schedulers : WF_vars(SchedulerStep(s))
    /\ WF_vars(\E i \in DOMAIN runs : WorkerStep(i))
-----------------------------------------------------------------------------
\* The same task and occurrence never get two runs, whatever ticks overlap and
\* although an edit may move the watermark behind occurrences that were already
\* scheduled: the unique index idx_schedule_occurrence never has to refuse.
OccurrenceOnce ==
    \A i, j \in DOMAIN runs :
        /\ runs[i].trigger = "schedule" /\ runs[j].trigger = "schedule"
        /\ runs[i].task = runs[j].task /\ runs[i].at = runs[j].at
        => i = j

\* The comment in publish_production_update, "New cron rules must not replay
\* pre-edit occurrences under the new instructions after a long-disabled
\* schedule is enabled", for every way of giving a task new rules, with a
\* minute of grace for the tick that is under way.
NewRulesDoNotReplay ==
    \A i \in DOMAIN runs :
        /\ runs[i].trigger = "schedule"
        /\ runs[i].since.by \in {"edit", "activation"}
        => runs[i].at > runs[i].since.at - Minute

\* Nothing that was due is lost without a run that covers it, through coalescing,
\* killed ticks, overlapping ticks with different clocks, disabling, edits and
\* activation.  Under enqueue_once an occurrence behind the watermark has a run
\* that was still waiting when it was due, or was inserted for it or a later one;
\* under catch_up it has its own run.  (Under catch_up an edit that a tick overtook
\* can lose some, also if another version was activated since: it moves the watermark
\* back, and the next tick, on finding the first occurrence scheduled, advances past
\* the others.)
OccurrenceCovered ==
    \A t \in Tasks :
        active[t] \in Scheduled
        => \A o \in Between(active[t], since[t].at, watermark[t]) :
              CASE Policy[active[t]] = "enqueue_once" ->
                       \/ Queued(t) # {} \/ waited[t] >= o
                       \/ \E i \in IndexesOf(t) : runs[i].at >= o
                [] Policy[active[t]] = "catch_up" ->
                       since[t].overtaken \/ ScheduledAt(t, o) # {}
                [] OTHER -> TRUE

\* What a scheduled run finds: a rule that was in force at its occurrence, and not
\* published or brought back after it (publish_production_update and restore_task
\* move the watermark) ...
NoReplay(run) == run.since.by \in {"edit", "restore"} => run.at > run.since.at

\* ... and, until it is over, the version it was inserted for: no edit, activation
\* or deletion slips in under it, and no tick enqueues what was replaced, deleted
\* or lost its references after the tick read it.
StaysActive(run) ==
    run.status # "ended" => run.version = active[run.task] /\ run.task \notin deleted

\* A schedule acts for the task as it stands, although tasks, items, edits and
\* ticks are changed, deleted, restored and killed in any order; and what is
\* enabled can run, for what its version refers to is not deleted.
ScheduleStands ==
    /\ TypeOK
    /\ \A i \in DOMAIN runs : runs[i].trigger = "schedule" => NoReplay(runs[i]) /\ StaysActive(runs[i])
    /\ \A t \in Tasks : enabled[t] => t \notin deleted /\ ReferencesLive(active[t])

\* In the end a task that stays enabled under catch_up has its run for every
\* occurrence since its evaluation started.
CaughtUp ==
    <>[](\A t \in Tasks :
            /\ enabled[t] /\ active[t] \in Scheduled
            /\ Policy[active[t]] = "catch_up" /\ ~since[t].overtaken
            => \A o \in Between(active[t], since[t].at, MaxNow) : ScheduledAt(t, o) # {})
=============================================================================
