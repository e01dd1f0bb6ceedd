--------------------------- MODULE SchedulerProofs ---------------------------
(***************************************************************************)
(* The safety theorems of Scheduler, for any tasks, versions, crontabs and *)
(* overlapping ticks.  Times are kept in order (Timely); what fixed where  *)
(* a task's evaluation starts is not ahead of its watermark, and unless an *)
(* edit moved the watermark back, no run is (Marked); what is scheduled is *)
(* scheduled once, for the task as it stands (OccurrenceOnce, Stands), and *)
(* covers what was due (OccurrenceCovered).  And that of Cron, for any     *)
(* expression, window and calendar: what the ticks take an occurrence to   *)
(* be is what the search finds (CronInv).                                  *)
(***************************************************************************)
EXTENDS Scheduler, Cron, WellFoundedInduction, TLAPS

\* Nothing is dated after the clock, and ticks evaluate whole minutes.
Timely ==
    /\ \A s \in Schedulers : tick[s].now <= clock /\ tick[s].now % Minute = 0
    /\ \A e \in Editors : edit[e] # NoEdit => edit[e].at <= clock
    /\ \A i \in DOMAIN runs : runs[i].at <= clock
    /\ \A t \in Tasks : watermark[t] <= clock

\* A run for an occurrence after the watermark is left by an edit that moved it back.
MarkedOf(t) ==
    /\ watermark[t] = NoMark => ~since[t].overtaken /\ since[t].by = "creation"
    /\ since[t].by \in {"edit", "restore"} => since[t].at <= watermark[t]
    /\ ~since[t].overtaken => ~Overtaken(t, watermark[t])

Marked == \A t \in Tasks : MarkedOf(t)

\* ScheduleStands, run by run and task by task.
RunsStand ==
    \A i \in DOMAIN runs : runs[i].trigger = "schedule" => NoReplay(runs[i]) /\ StaysActive(runs[i])
EnabledLive == \A t \in Tasks : enabled[t] => t \notin deleted /\ ReferencesLive(active[t])

Inductive ==
    TypeOK /\ Timely /\ Marked /\ OccurrenceOnce /\ RunsStand /\ EnabledLive /\ OccurrenceCovered
-----------------------------------------------------------------------------
(* Sets of instants have a first and a last element.                         *)

\* A set of naturals that is not empty has a least element.
LEMMA LeastNatural ==
    ASSUME NEW S, S \subseteq Nat, S # {}
    PROVE  \E x \in S : \A y \in S : x <= y
<1>1. PICK x \in S : \A y \in S : ~ (<<y, x>> \in OpToRel(<, Nat))
  BY NatLessThanWellFounded, WFMin
<1>2. \A y \in S : ~(y < x)
  BY <1>1 DEF OpToRel
<1> QED BY <1>2

\* A set of instants has a first and a last.
LEMMA FirstAndLast ==
    ASSUME NEW S, S \subseteq Instants, S # {}
    PROVE  /\ Min(S) \in S /\ \A y \in S : Min(S) <= y
           /\ Max(S) \in S /\ \A y \in S : y <= Max(S)
<1>0. MaxNow \in Nat /\ \A y \in S : y \in Nat /\ y <= MaxNow
  BY SchedulerAssumption DEF Instants
<1>1. Min(S) \in S /\ \A y \in S : Min(S) <= y
  <2>1. \E x \in S : \A y \in S : x <= y
    BY <1>0, LeastNatural
  <2> QED BY <2>1 DEF Min
<1>2. Max(S) \in S /\ \A y \in S : y <= Max(S)
  <2> DEFINE D == {MaxNow - y : y \in S}
  <2>1. D \subseteq Nat /\ D # {}
    BY <1>0
  <2>2. PICK d \in D : \A e \in D : d <= e
    BY <2>1, LeastNatural
  <2>3. PICK x \in S : d = MaxNow - x
    BY <2>2
  <2>4. \A y \in S : y <= x
    BY <1>0, <2>2, <2>3
  <2>5. \E z \in S : \A y \in S : z >= y
    BY <1>0, <2>4
  <2>6. Max(S) \in S /\ \A y \in S : Max(S) >= y
    BY <2>5 DEF Max
  <2> QED BY <1>0, <2>6
<1> QED BY <1>1, <1>2

\* What a tick has found due, and which of it its policy enqueues.
LEMMA Due ==
    ASSUME NEW t, NEW v \in Versions, NEW now \in Instants, Candidates(t, v, now) # {}
    PROVE  /\ Occurrence(t, v, now) \in Candidates(t, v, now)
           /\ Policy[v] = "catch_up" =>
                 \A o \in Candidates(t, v, now) : Occurrence(t, v, now) <= o
           /\ Policy[v] # "catch_up" =>
                 \A o \in Candidates(t, v, now) : o <= Occurrence(t, v, now)
<1>1. Candidates(t, v, now) \subseteq Instants
  BY SchedulerAssumption DEF Candidates, Between
<1> QED BY <1>1, FirstAndLast DEF Occurrence

-----------------------------------------------------------------------------
(* Types. *)

\* What the type of ticks says of one, place by place.
LEMMA TickParts ==
    ASSUME TypeOK, NEW s \in Schedulers
    PROVE  /\ tick[s].now \in Instants
           /\ tick[s].pc \in {"idle", "begun", "listed", "read"}
           /\ tick[s].pc \in {"listed", "read"} => tick[s].todo \in SUBSET Tasks
           /\ tick[s].pc = "listed" =>
                 tick[s] = [pc |-> "listed", now |-> tick[s].now, todo |-> tick[s].todo]
           /\ tick[s].pc = "read" => tick[s].task \in Tasks /\ tick[s].version \in Versions
<1>1. tick[s] \in Ticks
  BY DEF TypeOK
<1>2. 0 \in Instants
  BY SchedulerAssumption DEF Instants
<1> QED BY <1>1, <1>2 DEF Ticks, Idle

\* What the type of edits says of one under way.
LEMMA EditParts ==
    ASSUME TypeOK, NEW e \in Editors, edit[e] # NoEdit
    PROVE  /\ edit[e].task \in Tasks /\ edit[e].version \in Versions
           /\ edit[e].enable \in BOOLEAN /\ edit[e].at \in Instants
<1>1. edit[e] \in Edits
  BY DEF TypeOK
<1> QED BY <1>1 DEF Edits

\* What the type of runs says of one.
LEMMA RunParts ==
    ASSUME TypeOK, NEW i \in DOMAIN runs
    PROVE  /\ runs[i] \in RunRecords
           /\ runs[i].task \in Tasks /\ runs[i].version \in Versions /\ runs[i].at \in Instants
           /\ runs[i].status \in {"queued", "running", "ended"} /\ runs[i].since \in Sinces
<1>1. runs[i] \in RunRecords
  BY DEF TypeOK
<1> QED BY <1>1 DEF RunRecords

\* A watermark, or the time from which a first evaluation looks.
LEMMA Starts ==
    ASSUME TypeOK, NEW t \in Tasks, NEW now \in Instants
    PROVE  /\ watermark[t] \in Int /\ now \in Int /\ now - Minute \in -Minute .. MaxNow
           /\ watermark[t] # NoMark => watermark[t] \in -Minute .. MaxNow
           /\ Previous(t, now) \in -Minute .. MaxNow /\ MaxNow \in Nat
<1>1. MaxNow \in Nat /\ Minute = 2 /\ NoMark = -3 /\ now \in 0 .. MaxNow
  BY SchedulerAssumption DEF Minute, NoMark, Instants
<1>2. watermark[t] = NoMark \/ watermark[t] \in -Minute .. MaxNow
  BY DEF TypeOK
<1> QED BY <1>1, <1>2 DEF Previous

\* What Advance, edits, activation and restoration set is of its type.
LEMMA SinceTypes ==
    /\ \A at \in -Minute .. MaxNow, b \in BOOLEAN :
          /\ [by |-> "first_tick", at |-> at, overtaken |-> b] \in Sinces
          /\ [by |-> "edit", at |-> at, overtaken |-> b] \in Sinces
          /\ [by |-> "activation", at |-> at, overtaken |-> b] \in Sinces
          /\ [by |-> "restore", at |-> at, overtaken |-> b] \in Sinces
          /\ [by |-> "creation", at |-> at, overtaken |-> b] \in Sinces
    /\ Instants \subseteq -Minute .. MaxNow
<1>1. Minute = 2 /\ MaxNow \in Nat
  BY SchedulerAssumption DEF Minute
<1> QED BY <1>1 DEF Sinces, Instants

-----------------------------------------------------------------------------
(* What the steps do to the runs and to the watermark.                       *)

base == <<clock, active, enabled, deleted, gone, watermark, since, runs, waited>>

Added(r) ==
    /\ runs' \in Seq(RunRecords)
    /\ DOMAIN runs' = DOMAIN runs \cup {Len(runs) + 1} /\ Len(runs) + 1 \notin DOMAIN runs
    /\ \A i \in DOMAIN runs : runs'[i] = runs[i]
    /\ runs'[Len(runs) + 1] = r

Moved(i, status) ==
    /\ runs' \in Seq(RunRecords)
    /\ DOMAIN runs' = DOMAIN runs
    /\ \A k \in DOMAIN runs :
          /\ runs'[k].task = runs[k].task /\ runs'[k].version = runs[k].version
          /\ runs'[k].at = runs[k].at /\ runs'[k].trigger = runs[k].trigger
          /\ runs'[k].since = runs[k].since
          /\ runs'[k].status = IF k = i THEN status ELSE runs[k].status

\* A run is appended and the others stay as they are.
LEMMA AddRun ==
    ASSUME TypeOK, NEW r \in RunRecords, runs' = Append(runs, r)
    PROVE  Added(r)
  BY DEF TypeOK, Added

\* A run changes its status and nothing else.
LEMMA MoveRun ==
    ASSUME TypeOK, NEW i \in DOMAIN runs, NEW status \in {"queued", "running", "ended"},
           runs' = [runs EXCEPT ![i].status = status]
    PROVE  Moved(i, status)
<1>1. runs[i] \in RunRecords /\ runs \in Seq(RunRecords)
  BY DEF TypeOK
<1>2. PICK r \in RunRecords : r = [runs[i] EXCEPT !.status = status]
  BY <1>1 DEF RunRecords
<1>3. runs' = [runs EXCEPT ![i] = r]
  BY <1>2
<1>4. runs' \in Seq(RunRecords) /\ DOMAIN runs' = DOMAIN runs
      /\ \A k \in DOMAIN runs : runs'[k] = IF k = i THEN r ELSE runs[k]
  BY <1>1, <1>3
<1>5. r.task = runs[i].task /\ r.version = runs[i].version /\ r.at = runs[i].at
      /\ r.trigger = runs[i].trigger /\ r.since = runs[i].since /\ r.status = status
  BY <1>1, <1>2 DEF RunRecords
<1> QED BY <1>4, <1>5 DEF Moved

\* One evaluation of task t: the watermark moves to "to", and maybe a run is added.
Evaluated(s, to) ==
    /\ tick[s].pc = "read"
    /\ Evaluates(tick[s].task, tick[s].version, tick[s].now)
    /\ Advance(tick[s].task, tick[s].now, to)
    /\ NextTask(s)
    /\ UNCHANGED <<clock, ops, gone, edit, fresh, waited>>

\* Nothing is due, the occurrence has its run, it waits behind a queued run, or gets one.
Idles(s) ==
    /\ Evaluated(s, tick[s].now) /\ UNCHANGED runs
    /\ Candidates(tick[s].task, tick[s].version, tick[s].now) = {}
Repeats(s) ==
    LET t == tick[s].task  v == tick[s].version  now == tick[s].now IN
    /\ Evaluated(s, now) /\ UNCHANGED runs
    /\ Candidates(t, v, now) # {} /\ ScheduledAt(t, Occurrence(t, v, now)) # {}
Waits(s) ==
    LET t == tick[s].task  v == tick[s].version  now == tick[s].now IN
    /\ Evaluated(s, CoalescedMark(t, v, now)) /\ UNCHANGED runs
    /\ Candidates(t, v, now) # {} /\ Queued(t) # {}
Schedules(s) ==
    LET t == tick[s].task  v == tick[s].version  now == tick[s].now IN
    /\ Evaluated(s, EnqueuedMark(t, v, now))
    /\ Candidates(t, v, now) # {}
    /\ ScheduledAt(t, Occurrence(t, v, now)) = {}
    /\ NewRun(t, v, Occurrence(t, v, now), "schedule") \in RunRecords
    /\ Added(NewRun(t, v, Occurrence(t, v, now), "schedule"))

\* The watermark moves forward, and not past the tick's own time.
LEMMA Forward ==
    ASSUME TypeOK, NEW s \in Schedulers, tick[s].pc = "read",
           Evaluates(tick[s].task, tick[s].version, tick[s].now)
    PROVE  LET t == tick[s].task  v == tick[s].version  now == tick[s].now IN
           /\ t \in Tasks /\ v \in Versions /\ now \in Instants /\ now \in Int
           /\ Previous(t, now) \in Int /\ Previous(t, now) < now
           /\ CoalescedMark(t, v, now) \in {Previous(t, now), now}
           /\ Candidates(t, v, now) # {} =>
                 /\ Occurrence(t, v, now) \in Candidates(t, v, now)
                 /\ Occurrence(t, v, now) \in Cron[v]
                 /\ Occurrence(t, v, now) \in Instants /\ Occurrence(t, v, now) <= now
                 /\ EnqueuedMark(t, v, now) \in {Occurrence(t, v, now), now}
<1> DEFINE t == tick[s].task  v == tick[s].version  now == tick[s].now
<1>1. t \in Tasks /\ v \in Versions /\ now \in Instants
  BY TickParts
<1>2. Previous(t, now) \in Int /\ now \in Int
  BY <1>1, Starts
<1>3. Previous(t, now) < now
  BY DEF Evaluates
<1>4. CoalescedMark(t, v, now) \in {Previous(t, now), now}
  BY DEF CoalescedMark
<1>5. ASSUME Candidates(t, v, now) # {}
      PROVE  /\ Occurrence(t, v, now) \in Candidates(t, v, now)
             /\ Occurrence(t, v, now) \in Cron[v]
             /\ Occurrence(t, v, now) \in Instants /\ Occurrence(t, v, now) <= now
             /\ EnqueuedMark(t, v, now) \in {Occurrence(t, v, now), now}
  <2>1. Occurrence(t, v, now) \in Candidates(t, v, now)
    BY <1>1, <1>5, Due
  <2>2. Occurrence(t, v, now) \in Cron[v] /\ Occurrence(t, v, now) <= now
    BY <2>1 DEF Candidates, Between
  <2>3. Cron[v] \subseteq Instants
    BY <1>1, SchedulerAssumption
  <2>4. EnqueuedMark(t, v, now) \in {Occurrence(t, v, now), now}
    BY DEF EnqueuedMark
  <2> QED BY <2>1, <2>2, <2>3, <2>4
<1> QED BY <1>1, <1>2, <1>3, <1>4, <1>5

\* Advancing a watermark is about one task, and its first tick starts it.
LEMMA AdvanceDoes ==
    ASSUME TypeOK, NEW t \in Tasks, NEW now \in Instants, NEW to, Advance(t, now, to)
    PROVE  /\ watermark'[t] = to
           /\ \A u \in Tasks \ {t} : watermark'[u] = watermark[u] /\ since'[u] = since[u]
           /\ watermark[t] = NoMark =>
                 since'[t] = [by |-> "first_tick", at |-> now - Minute, overtaken |-> FALSE]
           /\ watermark[t] # NoMark => since'[t] = since[t]
           /\ since' \in [Tasks -> Sinces]
           /\ UNCHANGED <<active, enabled, deleted>>
<1>1. watermark \in [Tasks -> {NoMark} \cup (-Minute .. MaxNow)] /\ since \in [Tasks -> Sinces]
  BY DEF TypeOK
<1>2. PICK r \in Sinces : r = [by |-> "first_tick", at |-> now - Minute, overtaken |-> FALSE]
  BY Starts, SinceTypes
<1>3. since' = IF watermark[t] = NoMark THEN [since EXCEPT ![t] = r] ELSE since
  BY <1>2 DEF Advance
<1>4. since' \in [Tasks -> Sinces]
  BY <1>1, <1>3
<1> QED BY <1>1, <1>2, <1>3, <1>4 DEF Advance

\* A tick that evaluates a task finds nothing, a repetition, a busy task, or an
\* occurrence to schedule.
LEMMA Evaluations ==
    ASSUME TypeOK, NEW s \in Schedulers, TickTask(s)
    PROVE  \/ UNCHANGED base
           \/ Idles(s) \/ Repeats(s) \/ Waits(s) \/ Schedules(s)
<1> DEFINE t == tick[s].task  v == tick[s].version  now == tick[s].now
           o == Occurrence(t, v, now)
<1>1. CASE TickSkips(s)
  BY <1>1 DEF TickSkips, base, taskVars
<1>2. CASE TickNotDue(s)
  BY <1>2 DEF TickNotDue, Idles, Evaluated
<1>3. CASE TickAlreadyScheduled(s)
  BY <1>3 DEF TickAlreadyScheduled, Repeats, Evaluated
<1>4. CASE TickCoalesces(s)
  BY <1>4 DEF TickCoalesces, Waits, Evaluated
<1>5. CASE TickEnqueues(s)
  <2>1. /\ tick[s].pc = "read" /\ Evaluates(t, v, now) /\ Candidates(t, v, now) # {}
        /\ Advance(t, now, EnqueuedMark(t, v, now))
    BY <1>5 DEF TickEnqueues
  <2>2. t \in Tasks /\ v \in Versions /\ now \in Instants /\ o \in Instants
    BY <2>1, Forward
  <2>3. since'[t] \in Sinces
    BY <2>1, <2>2, AdvanceDoes
  <2>4. PICK r \in RunRecords : r = NewRun(t, v, o, "schedule")
    BY <2>2, <2>3 DEF NewRun, RunRecords
  <2>5. runs' = Append(runs, r)
    BY <1>5, <2>4 DEF TickEnqueues
  <2>6. Added(r)
    BY <2>5, AddRun
  <2> QED BY <1>5, <2>4, <2>6 DEF TickEnqueues, Schedules, Evaluated
<1> QED BY <1>1, <1>2, <1>3, <1>4, <1>5 DEF TickTask

\* The other steps that change runs, and the ones that concern neither runs nor tasks.
LEMMA EnqueueDoes ==
    ASSUME TypeOK, NEW t \in Tasks, NEW v \in Manual, Enqueue(t, v)
    PROVE  /\ NewRun(t, v, clock, "manual") \in RunRecords
           /\ Added(NewRun(t, v, clock, "manual"))
<1>1. v \in Versions /\ since' = since /\ clock \in Instants
  BY SchedulerAssumption DEF Enqueue, taskVars, TypeOK
<1>2. since'[t] \in Sinces
  BY <1>1 DEF TypeOK
<1>3. PICK r \in RunRecords : r = NewRun(t, v, clock, "manual")
  BY <1>1, <1>2 DEF NewRun, RunRecords
<1>4. runs' = Append(runs, r)
  BY <1>3 DEF Enqueue
<1> QED BY <1>3, <1>4, AddRun

\* Workers move one run from queued to running to ended.
LEMMA WorkDoes ==
    ASSUME TypeOK, NEW i \in DOMAIN runs
    PROVE  /\ Claim(i) => Moved(i, "running") /\ runs[i].status = "queued"
           /\ CancelQueued(i) => Moved(i, "ended") /\ runs[i].status = "queued"
           /\ EndRun(i) => Moved(i, "ended") /\ runs[i].status = "running"
  BY MoveRun DEF Claim, CancelQueued, EndRun

\* The reads of ticks and the beginnings of edits change no table.
LEMMA QuietSteps ==
    /\ \A s \in Schedulers :
          \/ Begin(s) \/ ListTasks(s) \/ Finish(s) \/ Killed(s)
          \/ \E t \in Tasks : ReadVersion(s, t)
          => UNCHANGED <<base, edit>>
    /\ \A e \in Editors :
          PublishRefused(e) \/ (\E t \in Tasks, v \in Versions, on \in BOOLEAN : Seal(e, t, v, on))
          => UNCHANGED <<base, tick>>
  BY DEF Begin, ListTasks, Finish, Killed, ReadVersion, PublishRefused, Seal, base, taskVars

\* The ticks keep their type.
LEMMA TickTypes ==
    ASSUME TypeOK, Next
    PROVE  tick' \in [Schedulers -> Ticks]
<1>1. ASSUME NEW s \in Schedulers, NEW r \in Ticks, tick' = [tick EXCEPT ![s] = r]
      PROVE  tick' \in [Schedulers -> Ticks]
  BY <1>1 DEF TypeOK
<1>2. Idle \in Ticks
  BY DEF Ticks
<1>3. ASSUME NEW s \in Schedulers, Begin(s) PROVE tick' \in [Schedulers -> Ticks]
  <2>1. clock - (clock % Minute) \in Instants
    <3>1. clock \in 0 .. MaxNow /\ MaxNow \in Nat
      BY SchedulerAssumption DEF TypeOK, Instants
    <3>2. clock % 2 \in 0 .. 1 /\ clock % 2 <= clock
      BY <3>1
    <3> QED BY <3>1, <3>2 DEF Minute, Instants
  <2>2. PICK r \in Ticks : r = [pc |-> "begun", now |-> clock - (clock % Minute), todo |-> {}]
    BY <2>1 DEF Ticks
  <2> QED BY <1>1, <1>3, <2>2 DEF Begin
<1>4. ASSUME NEW s \in Schedulers, ListTasks(s) PROVE tick' \in [Schedulers -> Ticks]
  <2>1. Listed \in SUBSET Tasks /\ tick[s].now \in Instants
    BY TickParts DEF Listed
  <2>2. PICK r \in Ticks : r = [pc |-> "listed", now |-> tick[s].now, todo |-> Listed]
    BY <2>1 DEF Ticks
  <2> QED BY <1>1, <1>4, <2>2 DEF ListTasks
<1>5. ASSUME NEW s \in Schedulers, NEW t \in Tasks, ReadVersion(s, t)
      PROVE  tick' \in [Schedulers -> Ticks]
  <2>0. tick[s].now \in Instants /\ tick[s].todo \ {t} \in SUBSET Tasks /\ active[t] \in Versions
    BY <1>5, TickParts DEF ReadVersion, TypeOK
  <2>1. PICK r \in Ticks : r = [pc |-> "read", now |-> tick[s].now, todo |-> tick[s].todo \ {t},
                                task |-> t, version |-> active[t]]
    BY <2>0 DEF Ticks
  <2>2. PICK q \in Ticks : q = [pc |-> "listed", now |-> tick[s].now, todo |-> tick[s].todo \ {t}]
    BY <2>0 DEF Ticks
  <2>3. [tick[s] EXCEPT !.todo = @ \ {t}] = q
    <3>1. PICK n \in Instants, d \in SUBSET Tasks :
              tick[s] = [pc |-> "listed", now |-> n, todo |-> d]
      BY <1>5, TickParts DEF ReadVersion
    <3>2. tick[s].now = n /\ tick[s].todo = d
          /\ [tick[s] EXCEPT !.todo = @ \ {t}] = [pc |-> "listed", now |-> n, todo |-> d \ {t}]
      BY <3>1
    <3> QED BY <2>2, <3>2
  <2>4. tick' = [tick EXCEPT ![s] = IF active[t] \in Scheduled THEN r ELSE q]
    BY <1>5, <2>1, <2>3 DEF ReadVersion
  <2> QED BY <1>1, <2>4
<1>6. ASSUME NEW s \in Schedulers, Finish(s) \/ Killed(s) PROVE tick' \in [Schedulers -> Ticks]
  BY <1>1, <1>2, <1>6 DEF Finish, Killed
<1>7. ASSUME NEW s \in Schedulers, TickTask(s) PROVE tick' \in [Schedulers -> Ticks]
  <2>1. tick[s].pc = "read" /\ NextTask(s)
    BY <1>7 DEF TickTask, TickSkips, TickNotDue, TickAlreadyScheduled, TickCoalesces, TickEnqueues
  <2>2. tick[s].now \in Instants /\ tick[s].todo \in SUBSET Tasks
    BY <2>1, TickParts
  <2>3. PICK r \in Ticks : r = [pc |-> "listed", now |-> tick[s].now, todo |-> tick[s].todo]
    BY <2>2 DEF Ticks
  <2> QED BY <1>1, <2>1, <2>3 DEF NextTask
<1>8. ASSUME UNCHANGED tick PROVE tick' \in [Schedulers -> Ticks]
  BY <1>8 DEF TypeOK
<1>9. ASSUME NEW i \in DOMAIN runs, WorkerStep(i) \/ CancelQueued(i) PROVE UNCHANGED tick
  BY <1>9 DEF WorkerStep, Claim, EndRun, CancelQueued
<1>10. ASSUME NEW t \in Tasks, TaskStep(t) PROVE UNCHANGED tick
  BY <1>10 DEF TaskStep, Activate, SetEnabled, Enqueue, DeleteTask, RestoreTask
<1>11. ASSUME NEW e \in Editors, EditorStep(e) PROVE UNCHANGED tick
  BY <1>11 DEF EditorStep, Seal, PublishRefused, Publish
<1>12. ASSUME NEW x \in Items, DeleteItem(x) \/ RestoreItem(x) PROVE UNCHANGED tick
  BY <1>12 DEF DeleteItem, RestoreItem
<1>13. TimePasses => UNCHANGED tick
  BY DEF TimePasses
<1> QED BY <1>3, <1>4, <1>5, <1>6, <1>7, <1>8, <1>9, <1>10, <1>11, <1>12, <1>13
        DEF Next, SchedulerStep

\* The edits keep their type.
LEMMA EditTypes ==
    ASSUME TypeOK, Next
    PROVE  edit' \in [Editors -> Edits] /\ fresh' \subseteq Editors
<1>1. edit \in [Editors -> Edits] /\ fresh \subseteq Editors /\ NoEdit \in Edits
  BY DEF TypeOK, Edits
<1>2. ASSUME UNCHANGED edit, fresh' \subseteq fresh \cup Editors
      PROVE  edit' \in [Editors -> Edits] /\ fresh' \subseteq Editors
  BY <1>1, <1>2
<1>3. ASSUME NEW s \in Schedulers, SchedulerStep(s) \/ Killed(s) PROVE UNCHANGED <<edit, fresh>>
  BY <1>3 DEF SchedulerStep, TickTask, Begin, ListTasks, Finish, ReadVersion, Killed,
     TickSkips, TickNotDue, TickAlreadyScheduled, TickCoalesces, TickEnqueues
<1>4. ASSUME NEW i \in DOMAIN runs, WorkerStep(i) \/ CancelQueued(i) PROVE UNCHANGED <<edit, fresh>>
  BY <1>4 DEF WorkerStep, Claim, EndRun, CancelQueued
<1>5. ASSUME NEW t \in Tasks, TaskStep(t) PROVE UNCHANGED edit /\ fresh' \subseteq fresh
  BY <1>5 DEF TaskStep, Activate, SetEnabled, Enqueue, DeleteTask, RestoreTask, Touch
<1>6. ASSUME NEW e \in Editors, NEW t \in Tasks, NEW v \in Versions, NEW on \in BOOLEAN,
             Seal(e, t, v, on)
      PROVE  edit' \in [Editors -> Edits] /\ fresh' \subseteq Editors
  <2>1. active[t] \in Versions /\ clock \in Instants
    BY DEF TypeOK
  <2>2. PICK r \in Edits : r = [pc |-> "sealed", task |-> t, version |-> v, expected |-> active[t],
                                enable |-> on, at |-> clock]
    BY <2>1 DEF Edits
  <2> QED BY <1>1, <1>6, <2>2 DEF Seal
<1>7. ASSUME NEW e \in Editors, PublishRefused(e) \/ Publish(e)
      PROVE  edit' \in [Editors -> Edits] /\ fresh' \subseteq Editors
  BY <1>1, <1>7 DEF PublishRefused, Publish, Touch
<1>8. ASSUME NEW x \in Items, DeleteItem(x) \/ RestoreItem(x) PROVE UNCHANGED <<edit, fresh>>
  BY <1>8 DEF DeleteItem, RestoreItem
<1>9. TimePasses => UNCHANGED <<edit, fresh>>
  BY DEF TimePasses
<1> QED BY <1>1, <1>2, <1>3, <1>4, <1>5, <1>6, <1>7, <1>8, <1>9 DEF Next, EditorStep

\* The runs keep their type.
LEMMA RunTypes ==
    ASSUME TypeOK, Next
    PROVE  runs' \in Seq(RunRecords)
<1>1. ASSUME UNCHANGED runs PROVE runs' \in Seq(RunRecords)
  BY <1>1 DEF TypeOK
<1>2. ASSUME NEW s \in Schedulers, SchedulerStep(s) \/ Killed(s) PROVE runs' \in Seq(RunRecords)
  <2>1. CASE TickTask(s)
    BY <1>1, <2>1, Evaluations DEF base, Idles, Repeats, Waits, Schedules, Added
  <2> QED BY <1>1, <1>2, <2>1, QuietSteps DEF SchedulerStep, base
<1>3. ASSUME NEW i \in DOMAIN runs, WorkerStep(i) \/ CancelQueued(i) PROVE runs' \in Seq(RunRecords)
  BY <1>3, WorkDoes DEF WorkerStep, Moved
<1>4. ASSUME NEW t \in Tasks, TaskStep(t) PROVE runs' \in Seq(RunRecords)
  BY <1>1, <1>4, EnqueueDoes DEF TaskStep, Added, Activate, SetEnabled, DeleteTask, RestoreTask
<1>5. ASSUME NEW e \in Editors, EditorStep(e) PROVE UNCHANGED runs
  BY <1>5 DEF EditorStep, Seal, PublishRefused, Publish
<1>6. ASSUME NEW x \in Items, DeleteItem(x) \/ RestoreItem(x) PROVE UNCHANGED runs
  BY <1>6 DEF DeleteItem, RestoreItem
<1>7. TimePasses => UNCHANGED runs
  BY DEF TimePasses
<1> QED BY <1>1, <1>2, <1>3, <1>4, <1>5, <1>6, <1>7 DEF Next

\* The watermark and the tables of tasks.
TaskTypes ==
    /\ active \in [Tasks -> Versions] /\ enabled \in [Tasks -> BOOLEAN]
    /\ deleted \subseteq Tasks /\ gone \subseteq Items
    /\ watermark \in [Tasks -> {NoMark} \cup (-Minute .. MaxNow)]
    /\ since \in [Tasks -> Sinces]

\* A task that was evaluated keeps its types.
LEMMA EvaluatedTypes ==
    ASSUME TypeOK, NEW s \in Schedulers, NEW to \in {NoMark} \cup (-Minute .. MaxNow), Evaluated(s, to)
    PROVE  TaskTypes'
<1>1. tick[s].task \in Tasks /\ tick[s].now \in Instants
  BY TickParts DEF Evaluated
<1>2. since' \in [Tasks -> Sinces] /\ UNCHANGED <<active, enabled, deleted, gone>>
      /\ watermark' = [watermark EXCEPT ![tick[s].task] = to]
  BY <1>1, AdvanceDoes DEF Evaluated, Advance
<1> QED BY <1>2 DEF TypeOK, TaskTypes

\* The tasks' tables keep their types.
LEMMA TaskTypesStep ==
    ASSUME TypeOK, Next
    PROVE  TaskTypes'
<1>0. TaskTypes /\ clock \in Instants /\ clock \in -Minute .. MaxNow
  BY SinceTypes DEF TypeOK, TaskTypes
<1>1. ASSUME UNCHANGED <<taskVars, gone>> PROVE TaskTypes'
  BY <1>0, <1>1 DEF TaskTypes, taskVars
<1>2. ASSUME NEW s \in Schedulers, TickTask(s) PROVE TaskTypes'
  <2> DEFINE t == tick[s].task  v == tick[s].version  now == tick[s].now
  <2>1. CASE UNCHANGED base
    BY <1>1, <2>1 DEF base, taskVars
  <2>2. CASE Idles(s) \/ Repeats(s)
    <3>1. now \in -Minute .. MaxNow
      BY TickParts, SinceTypes
    <3> QED BY <2>2, <3>1, EvaluatedTypes DEF Idles, Repeats
  <2>3. CASE Waits(s)
    <3>1. CoalescedMark(t, v, now) \in -Minute .. MaxNow
      BY <2>3, Forward, Starts, SinceTypes DEF Waits, Evaluated
    <3> QED BY <2>3, <3>1, EvaluatedTypes DEF Waits
  <2>4. CASE Schedules(s)
    <3>1. EnqueuedMark(t, v, now) \in -Minute .. MaxNow
      BY <2>4, Forward, SinceTypes DEF Schedules, Evaluated
    <3> QED BY <2>4, <3>1, EvaluatedTypes DEF Schedules
  <2> QED BY <1>2, <2>1, <2>2, <2>3, <2>4, Evaluations
<1>3. ASSUME NEW s \in Schedulers, SchedulerStep(s) \/ Killed(s) PROVE TaskTypes'
  BY <1>1, <1>2, <1>3, QuietSteps DEF SchedulerStep, base, taskVars
<1>4. ASSUME NEW i \in DOMAIN runs, WorkerStep(i) \/ CancelQueued(i) PROVE TaskTypes'
  BY <1>1, <1>4 DEF WorkerStep, Claim, EndRun, CancelQueued
<1>5. ASSUME NEW t \in Tasks, TaskStep(t) PROVE TaskTypes'
  <2>1. ASSUME NEW v \in Versions, Activate(t, v) PROVE TaskTypes'
    <3>1. since[t].overtaken \in BOOLEAN
      BY DEF TypeOK, Sinces
    <3>2. PICK r \in Sinces :
              r = [by |-> "activation", at |-> clock, overtaken |-> since[t].overtaken]
      BY <1>0, <3>1, SinceTypes
    <3>3. since' = IF watermark[t] = NoMark \/ active[t] = v THEN since
                   ELSE [since EXCEPT ![t] = r]
      BY <2>1, <3>2 DEF Activate
    <3> QED BY <1>0, <2>1, <3>2, <3>3 DEF TaskTypes, Activate
  <2>2. CASE RestoreTask(t)
    <3>1. PICK r \in Sinces : r = [by |-> "restore", at |-> clock, overtaken |-> FALSE]
      BY <1>0, SinceTypes
    <3> QED BY <1>0, <2>2, <3>1 DEF TaskTypes, RestoreTask
  <2>3. ASSUME NEW v \in Manual, Enqueue(t, v) PROVE TaskTypes'
    BY <1>1, <2>3 DEF Enqueue
  <2>4. CASE DeleteTask(t) \/ \E on \in BOOLEAN : SetEnabled(t, on)
    BY <1>0, <2>4 DEF TaskTypes, DeleteTask, SetEnabled
  <2> QED BY <1>5, <2>1, <2>2, <2>3, <2>4 DEF TaskStep
<1>6. ASSUME NEW e \in Editors, EditorStep(e) PROVE TaskTypes'
  <2>1. CASE Publish(e)
    <3>1. edit[e].task \in Tasks /\ edit[e].version \in Versions /\ edit[e].enable \in BOOLEAN
          /\ edit[e].at \in -Minute .. MaxNow
      BY <2>1, EditParts, SinceTypes DEF Publish
    <3>2. Overtaken(edit[e].task, edit[e].at) \in BOOLEAN
      BY DEF Overtaken
    <3>3. PICK r \in Sinces : r = [by |-> "edit", at |-> edit[e].at,
                                   overtaken |-> Overtaken(edit[e].task, edit[e].at)]
      BY <3>1, <3>2, SinceTypes
    <3>4. since' = [since EXCEPT ![edit[e].task] = r]
      BY <2>1, <3>3 DEF Publish
    <3> QED BY <1>0, <2>1, <3>1, <3>4 DEF TaskTypes, Publish, PublishMark
  <2> QED BY <1>1, <1>6, <2>1 DEF EditorStep, Seal, PublishRefused
<1>7. ASSUME NEW x \in Items, DeleteItem(x) \/ RestoreItem(x) PROVE TaskTypes'
  BY <1>0, <1>7 DEF DeleteItem, RestoreItem, TaskTypes, taskVars
<1>8. TimePasses => TaskTypes'
  BY <1>1 DEF TimePasses
<1> QED BY <1>3, <1>4, <1>5, <1>6, <1>7, <1>8 DEF Next

\* The clock and the counters keep their types.
LEMMA OtherTypes ==
    ASSUME TypeOK, Next
    PROVE  clock' \in Instants /\ ops' \in 0 .. MaxOps
           /\ waited' \in [Tasks -> {NoMark} \cup Instants]
<1>0. MaxNow \in Nat /\ MaxOps \in Nat /\ clock \in Instants /\ ops \in 0 .. MaxOps
      /\ waited \in [Tasks -> {NoMark} \cup Instants]
  BY SchedulerAssumption DEF TypeOK
<1>1. clock' \in Instants
  <2>1. CASE TimePasses
    BY <1>0, <2>1 DEF TimePasses, Instants
  <2>2. CASE ~TimePasses
    BY <1>0, <2>2 DEF Next, SchedulerStep, TickTask, Begin, ListTasks, Finish, ReadVersion, Killed,
       TickSkips, TickNotDue, TickAlreadyScheduled, TickCoalesces, TickEnqueues, WorkerStep, Claim,
       EndRun, CancelQueued, TaskStep, Activate, SetEnabled, Enqueue, DeleteTask, RestoreTask,
       EditorStep, Seal, PublishRefused, Publish, DeleteItem, RestoreItem
  <2> QED BY <2>1, <2>2
<1>2. ops' \in 0 .. MaxOps
  <2>1. Count \/ UNCHANGED ops
    BY DEF Next, SchedulerStep, TickTask, Begin, ListTasks, Finish, ReadVersion, Killed,
       TickSkips, TickNotDue, TickAlreadyScheduled, TickCoalesces, TickEnqueues, WorkerStep, Claim,
       EndRun, CancelQueued, TaskStep, Activate, SetEnabled, Enqueue, DeleteTask, RestoreTask,
       EditorStep, Seal, PublishRefused, Publish, DeleteItem, RestoreItem, TimePasses
  <2> QED BY <1>0, <2>1 DEF Count
<1>3. waited' \in [Tasks -> {NoMark} \cup Instants]
  <2>1. ASSUME NEW i \in DOMAIN runs, Claim(i) \/ CancelQueued(i)
        PROVE  waited' \in [Tasks -> {NoMark} \cup Instants]
    BY <1>0, <2>1 DEF Claim, CancelQueued
  <2>2. (\E i \in DOMAIN runs : Claim(i) \/ CancelQueued(i)) \/ UNCHANGED waited
    BY DEF Next, SchedulerStep, TickTask, Begin, ListTasks, Finish, ReadVersion, Killed,
       TickSkips, TickNotDue, TickAlreadyScheduled, TickCoalesces, TickEnqueues, WorkerStep,
       EndRun, TaskStep, Activate, SetEnabled, Enqueue, DeleteTask, RestoreTask,
       EditorStep, Seal, PublishRefused, Publish, DeleteItem, RestoreItem, TimePasses
  <2> QED BY <1>0, <2>1, <2>2
<1> QED BY <1>1, <1>2, <1>3

\* TypeOK is kept.
LEMMA TypesStep ==
    ASSUME TypeOK, [Next]_vars
    PROVE  TypeOK'
<1>1. CASE Next
  BY <1>1, TickTypes, EditTypes, RunTypes, TaskTypesStep, OtherTypes DEF TypeOK, TaskTypes
<1>2. CASE UNCHANGED vars
  BY <1>2 DEF vars, taskVars, TypeOK
<1> QED BY <1>1, <1>2

-----------------------------------------------------------------------------
(* The steps that matter to runs, watermarks and versions.                   *)

\* The steps of the tables, one by one; every other step leaves them alone.
LEMMA Steps ==
    ASSUME TypeOK, Next
    PROVE  \/ UNCHANGED base
           \/ \E s \in Schedulers : Idles(s) \/ Repeats(s) \/ Waits(s) \/ Schedules(s)
           \/ \E t \in Tasks : \/ \E v \in Manual : Enqueue(t, v)
                               \/ \E v \in Versions : Activate(t, v)
                               \/ \E on \in BOOLEAN : SetEnabled(t, on)
                               \/ DeleteTask(t) \/ RestoreTask(t)
           \/ \E i \in DOMAIN runs : Claim(i) \/ CancelQueued(i) \/ EndRun(i)
           \/ \E e \in Editors : edit[e] # NoEdit /\ Publish(e)
           \/ \E x \in Items : DeleteItem(x) \/ RestoreItem(x)
           \/ TimePasses
<1>1. ASSUME NEW s \in Schedulers, SchedulerStep(s) \/ Killed(s)
      PROVE  UNCHANGED base \/ Idles(s) \/ Repeats(s) \/ Waits(s) \/ Schedules(s)
  BY <1>1, QuietSteps, Evaluations DEF SchedulerStep, base
<1>2. ASSUME NEW e \in Editors, EditorStep(e)
      PROVE  UNCHANGED base \/ (edit[e] # NoEdit /\ Publish(e))
  BY <1>2, QuietSteps DEF EditorStep, Publish, base
<1> QED BY <1>1, <1>2 DEF Next, TaskStep, WorkerStep

\* A tick is for the whole minute at which it began.
LEMMA TickNow ==
    ASSUME TypeOK, Next, NEW q \in Schedulers
    PROVE  tick'[q].now \in {tick[q].now, 0, clock - (clock % Minute)}
<1>0. tick \in [Schedulers -> Ticks]
  BY DEF TypeOK
<1>1. ASSUME NEW s \in Schedulers, NEW r, tick' = [tick EXCEPT ![s] = r],
             r.now \in {tick[s].now, 0, clock - (clock % Minute)}
      PROVE  tick'[q].now \in {tick[q].now, 0, clock - (clock % Minute)}
  BY <1>0, <1>1
<1>2. ASSUME NEW s \in Schedulers, Begin(s) \/ ListTasks(s) \/ Finish(s) \/ Killed(s)
      PROVE  tick'[q].now \in {tick[q].now, 0, clock - (clock % Minute)}
  BY <1>1, <1>2 DEF Begin, ListTasks, Finish, Killed, Idle
<1>3. ASSUME NEW s \in Schedulers, NEW t \in Tasks, ReadVersion(s, t)
      PROVE  tick'[q].now \in {tick[q].now, 0, clock - (clock % Minute)}
  <2>1. PICK n \in Instants, d \in SUBSET Tasks : tick[s] = [pc |-> "listed", now |-> n, todo |-> d]
    BY <1>3, TickParts DEF ReadVersion
  <2>2. [tick[s] EXCEPT !.todo = @ \ {t}] = [pc |-> "listed", now |-> n, todo |-> d \ {t}]
        /\ tick[s].now = n
    BY <2>1
  <2>3. CASE active[t] \in Scheduled
    BY <1>1, <1>3, <2>3 DEF ReadVersion
  <2>4. CASE active[t] \notin Scheduled
    BY <1>1, <1>3, <2>2, <2>4 DEF ReadVersion
  <2> QED BY <2>3, <2>4
<1>4. ASSUME NEW s \in Schedulers, TickTask(s)
      PROVE  tick'[q].now \in {tick[q].now, 0, clock - (clock % Minute)}
  <2>1. NextTask(s)
    BY <1>4 DEF TickTask, TickSkips, TickNotDue, TickAlreadyScheduled, TickCoalesces, TickEnqueues
  <2> QED BY <1>1, <2>1 DEF NextTask
<1>5. (\E s \in Schedulers : SchedulerStep(s) \/ Killed(s)) \/ UNCHANGED tick
  BY DEF Next, WorkerStep, Claim, EndRun, CancelQueued, TaskStep, Activate, SetEnabled, Enqueue,
     DeleteTask, RestoreTask, EditorStep, Seal, PublishRefused, Publish, DeleteItem, RestoreItem,
     TimePasses
<1> QED BY <1>2, <1>3, <1>4, <1>5 DEF SchedulerStep

\* An edit is dated when it was sealed.
LEMMA EditAt ==
    ASSUME TypeOK, Next, NEW d \in Editors, edit'[d] # NoEdit
    PROVE  edit'[d].at = clock \/ (edit[d] # NoEdit /\ edit'[d] = edit[d])
<1>0. edit \in [Editors -> Edits]
  BY DEF TypeOK
<1>1. (\E e \in Editors : EditorStep(e)) \/ UNCHANGED edit
  BY DEF Next, SchedulerStep, TickTask, Begin, ListTasks, Finish, ReadVersion, Killed, TickSkips,
     TickNotDue, TickAlreadyScheduled, TickCoalesces, TickEnqueues, WorkerStep, Claim, EndRun,
     CancelQueued, TaskStep, Activate, SetEnabled, Enqueue, DeleteTask, RestoreTask, DeleteItem,
     RestoreItem, TimePasses
<1>2. ASSUME NEW e \in Editors, NEW t, NEW v, NEW on, Seal(e, t, v, on)
      PROVE  edit'[d].at = clock \/ (edit[d] # NoEdit /\ edit'[d] = edit[d])
  BY <1>0, <1>2 DEF Seal
<1>3. ASSUME NEW e \in Editors, PublishRefused(e) \/ Publish(e)
      PROVE  edit[d] # NoEdit /\ edit'[d] = edit[d]
  BY <1>0, <1>3 DEF PublishRefused, Publish
<1> QED BY <1>1, <1>2, <1>3 DEF EditorStep

\* Where an evaluation leaves the watermark.
LEMMA Marks ==
    ASSUME TypeOK, NEW s \in Schedulers, NEW to, Evaluated(s, to),
           \/ to = tick[s].now
           \/ to = CoalescedMark(tick[s].task, tick[s].version, tick[s].now)
           \/ /\ Candidates(tick[s].task, tick[s].version, tick[s].now) # {}
              /\ to = EnqueuedMark(tick[s].task, tick[s].version, tick[s].now)
    PROVE  /\ to \in Int /\ to <= tick[s].now
           /\ watermark[tick[s].task] # NoMark => watermark[tick[s].task] <= to
           /\ to # NoMark
<1> DEFINE t == tick[s].task  v == tick[s].version  now == tick[s].now
<1>1. /\ t \in Tasks /\ v \in Versions /\ now \in Instants /\ now \in Int
      /\ Previous(t, now) \in Int /\ Previous(t, now) < now
      /\ CoalescedMark(t, v, now) \in {Previous(t, now), now}
  BY Forward DEF Evaluated
<1>2. Previous(t, now) \in -Minute .. MaxNow /\ Minute = 2 /\ NoMark = -3 /\ MaxNow \in Nat
      /\ now - Minute < now
  BY <1>1, Starts DEF Minute, NoMark
<1>3. watermark[t] # NoMark => Previous(t, now) = watermark[t]
  BY DEF Previous
<1>4. to \in Int /\ to <= now /\ Previous(t, now) <= to
  <2>1. CASE to = now
    BY <1>1, <2>1
  <2>2. CASE to = CoalescedMark(t, v, now)
    BY <1>1, <2>2
  <2>3. CASE Candidates(t, v, now) # {} /\ to = EnqueuedMark(t, v, now)
    <3> DEFINE o == Occurrence(t, v, now)
    <3>1. o \in Instants /\ o <= now /\ to \in {o, now} /\ o \in Candidates(t, v, now)
      BY <2>3, Forward DEF Evaluated
    <3>2. to = now \/ (Policy[v] = "catch_up" /\ to = o)
      BY <2>3 DEF EnqueuedMark
    <3>3. Policy[v] = "catch_up" => Previous(t, now) < o
      BY <3>1 DEF Candidates, Between, SearchStart
    <3>4. o \in Int
      BY <3>1 DEF Instants
    <3> HIDE DEF o
    <3> QED BY <1>1, <3>1, <3>2, <3>3, <3>4
  <2> QED BY <2>1, <2>2, <2>3
<1> QED BY <1>1, <1>2, <1>3, <1>4

\* An evaluation by s, with what it leaves of the watermark.
LEMMA EvaluationMarks ==
    ASSUME TypeOK, NEW s \in Schedulers, Idles(s) \/ Repeats(s) \/ Waits(s) \/ Schedules(s)
    PROVE  \E to \in Int :
              /\ Evaluated(s, to) /\ to <= tick[s].now /\ to # NoMark
              /\ watermark[tick[s].task] # NoMark => watermark[tick[s].task] <= to
<1> DEFINE t == tick[s].task  v == tick[s].version  now == tick[s].now
<1>1. CASE Idles(s) \/ Repeats(s)
  BY <1>1, Marks DEF Idles, Repeats
<1>2. CASE Waits(s)
  <2>1. Evaluated(s, CoalescedMark(t, v, now))
    BY <1>2 DEF Waits
  <2> QED BY <2>1, Marks
<1>3. CASE Schedules(s)
  <2>1. Evaluated(s, EnqueuedMark(t, v, now)) /\ Candidates(t, v, now) # {}
    BY <1>3 DEF Schedules
  <2> QED BY <2>1, Marks
<1> QED BY <1>1, <1>2, <1>3

-----------------------------------------------------------------------------
(* Times stay in order.                                                      *)

\* The clock does not go back, and moves alone.
LEMMA ClockStep ==
    ASSUME TypeOK, Next
    PROVE  clock \in Int /\ clock' \in Int /\ 0 <= clock /\ clock <= clock'
           /\ (clock' = clock \/ UNCHANGED <<active, enabled, deleted, gone, watermark, since, runs, waited>>)
<1>0. clock \in Nat
  BY SchedulerAssumption DEF TypeOK, Instants
<1>1. CASE TimePasses
  BY <1>0, <1>1 DEF TimePasses, taskVars
<1>2. CASE ~TimePasses
  <2>1. clock' = clock
    BY <1>2, Steps DEF base, Idles, Repeats, Waits, Schedules, Evaluated, Enqueue, Activate, SetEnabled,
       DeleteTask, RestoreTask, Claim, CancelQueued, EndRun, Publish, DeleteItem, RestoreItem
  <2> QED BY <1>0, <2>1
<1> QED BY <1>1, <1>2

\* No run is dated after the clock.
LEMMA RunsTimely ==
    ASSUME TypeOK, Timely, Next, NEW i \in DOMAIN runs'
    PROVE  runs'[i].at <= clock
<1>1. CASE UNCHANGED runs
  BY <1>1 DEF Timely
<1>2. ASSUME NEW r, Added(r), r.at <= clock PROVE runs'[i].at <= clock
  BY <1>2 DEF Added, Timely
<1>3. ASSUME NEW k \in DOMAIN runs, NEW status, Moved(k, status) PROVE runs'[i].at <= clock
  BY <1>3 DEF Moved, Timely
<1>4. ASSUME NEW s \in Schedulers, Schedules(s) PROVE runs'[i].at <= clock
  <2> DEFINE t == tick[s].task  v == tick[s].version  now == tick[s].now
  <2>1. Occurrence(t, v, now) \in Instants /\ Occurrence(t, v, now) <= now /\ now \in Int
    BY <1>4, Forward DEF Schedules, Evaluated
  <2>2. now <= clock /\ clock \in Int
    BY ClockStep DEF Timely
  <2>3. Occurrence(t, v, now) \in Int
    BY <2>1 DEF Instants
  <2>4. Occurrence(t, v, now) <= clock
    BY <2>1, <2>2, <2>3
  <2>5. NewRun(t, v, Occurrence(t, v, now), "schedule").at = Occurrence(t, v, now)
    BY DEF NewRun
  <2> QED BY <1>2, <1>4, <2>4, <2>5 DEF Schedules
<1>5. ASSUME NEW t \in Tasks, NEW v \in Manual, Enqueue(t, v) PROVE runs'[i].at <= clock
  <2>1. NewRun(t, v, clock, "manual").at <= clock
    BY ClockStep DEF NewRun
  <2> QED BY <1>2, <1>5, <2>1, EnqueueDoes
<1>6. ASSUME NEW k \in DOMAIN runs, Claim(k) \/ CancelQueued(k) \/ EndRun(k)
      PROVE  runs'[i].at <= clock
  BY <1>3, <1>6, WorkDoes
<1> QED BY <1>1, <1>4, <1>5, <1>6, Steps DEF base, Idles, Repeats, Waits, Activate, SetEnabled,
           DeleteTask, RestoreTask, Publish, DeleteItem, RestoreItem, TimePasses

\* No watermark is after the clock.
LEMMA MarksTimely ==
    ASSUME TypeOK, Timely, Next, NEW t \in Tasks
    PROVE  watermark'[t] <= clock
<1>0. watermark \in [Tasks -> {NoMark} \cup (-Minute .. MaxNow)] /\ watermark[t] <= clock /\ clock \in Int
  BY ClockStep DEF TypeOK, Timely
<1>1. ASSUME NEW s \in Schedulers, Idles(s) \/ Repeats(s) \/ Waits(s) \/ Schedules(s)
      PROVE  watermark'[t] <= clock
  <2>1. PICK to \in Int : Evaluated(s, to) /\ to <= tick[s].now
    BY <1>1, EvaluationMarks
  <2>2. watermark' = [watermark EXCEPT ![tick[s].task] = to]
    BY <2>1 DEF Evaluated, Advance
  <2>3. tick[s].now <= clock /\ tick[s].now \in Int
    BY <2>1, Forward DEF Timely, Evaluated
  <2>4. to <= clock
    BY <1>0, <2>1, <2>3
  <2> QED BY <1>0, <2>2, <2>4
<1>2. ASSUME NEW e \in Editors, edit[e] # NoEdit, Publish(e) PROVE watermark'[t] <= clock
  <2>1. edit[e].at <= clock
    BY <1>2 DEF Timely
  <2> QED BY <1>0, <1>2, <2>1 DEF Publish, PublishMark
<1>3. ASSUME NEW u \in Tasks, RestoreTask(u) PROVE watermark'[t] <= clock
  BY <1>0, <1>3 DEF RestoreTask
<1>4. CASE UNCHANGED watermark
  BY <1>0, <1>4
<1> QED BY <1>1, <1>2, <1>3, <1>4, Steps DEF base, taskVars, Enqueue, Activate, SetEnabled, DeleteTask,
           Claim, CancelQueued, EndRun, DeleteItem, RestoreItem, TimePasses

\* Timely is kept.
LEMMA TimelyStep ==
    ASSUME TypeOK, Timely, Next
    PROVE  Timely'
<1>0. clock \in Int /\ clock' \in Int /\ 0 <= clock /\ clock <= clock'
  BY ClockStep
<1>1. ASSUME NEW s \in Schedulers PROVE tick'[s].now <= clock' /\ tick'[s].now % Minute = 0
  <2>1. tick'[s].now \in {tick[s].now, 0, clock - (clock % Minute)}
    BY TickNow
  <2>2. tick[s].now <= clock /\ tick[s].now % Minute = 0 /\ tick[s].now \in Int
    <3>1. tick[s].now \in Instants
      BY TickParts
    <3> QED BY <3>1, SchedulerAssumption DEF Timely, Instants
  <2>3. (clock - (clock % Minute)) % Minute = 0 /\ clock - (clock % Minute) <= clock
        /\ clock - (clock % Minute) \in Int /\ 0 % Minute = 0
    BY <1>0 DEF Minute
  <2>4. tick'[s].now \in Int /\ tick'[s].now <= clock /\ tick'[s].now % Minute = 0
    BY <1>0, <2>1, <2>2, <2>3
  <2> QED BY <1>0, <2>4
<1>2. ASSUME NEW e \in Editors, edit'[e] # NoEdit PROVE edit'[e].at <= clock'
  <2>1. CASE edit'[e].at = clock
    BY <1>0, <2>1
  <2>2. CASE edit[e] # NoEdit /\ edit'[e] = edit[e]
    <3>1. edit[e].at <= clock /\ edit[e].at \in Int
      BY <2>2, EditParts DEF Timely, Instants
    <3> QED BY <1>0, <2>2, <3>1
  <2> QED BY <1>2, <2>1, <2>2, EditAt
<1>3. ASSUME NEW i \in DOMAIN runs' PROVE runs'[i].at <= clock'
  <2>1. runs'[i].at \in Int
    <3>1. runs'[i] \in RunRecords
      BY RunTypes
    <3>2. runs'[i].at \in Instants
      BY <3>1 DEF RunRecords
    <3> QED BY <3>2, SchedulerAssumption DEF Instants
  <2> QED BY <1>0, <2>1, RunsTimely
<1>4. ASSUME NEW t \in Tasks PROVE watermark'[t] <= clock'
  <2>1. watermark'[t] \in Int
    <3>1. watermark' \in [Tasks -> {NoMark} \cup (-Minute .. MaxNow)]
      BY TaskTypesStep DEF TaskTypes
    <3>2. NoMark \in Int /\ (-Minute .. MaxNow) \subseteq Int
      BY SchedulerAssumption DEF NoMark, Minute
    <3> QED BY <3>1, <3>2
  <2> QED BY <1>0, <2>1, MarksTimely
<1> QED BY <1>1, <1>2, <1>3, <1>4 DEF Timely

-----------------------------------------------------------------------------
(* Watermarks and scheduled runs.                                            *)

\* Steps that leave the runs that were scheduled as they are.
LEMMA ScheduledStays ==
    ASSUME \/ UNCHANGED runs
           \/ \E i \in DOMAIN runs : \E status : Moved(i, status)
           \/ \E r : Added(r) /\ r.trigger = "manual"
    PROVE  \A t, x : /\ Overtaken(t, x)' <=> Overtaken(t, x)
                     /\ (ScheduledAt(t, x) # {})' <=> ScheduledAt(t, x) # {}
<1>1. CASE UNCHANGED runs
  BY <1>1 DEF Overtaken, ScheduledAt, IndexesOf
<1>2. ASSUME NEW i \in DOMAIN runs, NEW status, Moved(i, status)
      PROVE  \A t, x : /\ Overtaken(t, x)' <=> Overtaken(t, x)
                       /\ (ScheduledAt(t, x) # {})' <=> ScheduledAt(t, x) # {}
  BY <1>2 DEF Moved, Overtaken, ScheduledAt, IndexesOf
<1>3. ASSUME NEW r, Added(r), r.trigger = "manual"
      PROVE  \A t, x : /\ Overtaken(t, x)' <=> Overtaken(t, x)
                       /\ (ScheduledAt(t, x) # {})' <=> ScheduledAt(t, x) # {}
  BY <1>3 DEF Added, Overtaken, ScheduledAt, IndexesOf
<1> QED BY <1>1, <1>2, <1>3

\* A run that is scheduled is one of its own task.
LEMMA OvertakenBySchedule ==
    ASSUME TypeOK, NEW s \in Schedulers, Idles(s) \/ Repeats(s) \/ Waits(s) \/ Schedules(s),
           NEW t \in Tasks, NEW x, Overtaken(t, x)'
    PROVE  \/ Overtaken(t, x)
           \/ /\ t = tick[s].task /\ Schedules(s)
              /\ Occurrence(t, tick[s].version, tick[s].now) > x
<1>1. CASE UNCHANGED runs
  BY <1>1, ScheduledStays
<1>2. CASE Schedules(s)
  <2> DEFINE r == NewRun(tick[s].task, tick[s].version,
                         Occurrence(tick[s].task, tick[s].version, tick[s].now), "schedule")
  <2>1. Added(r)
    BY <1>2 DEF Schedules
  <2>2. r.task = tick[s].task
        /\ r.at = Occurrence(tick[s].task, tick[s].version, tick[s].now)
    BY DEF NewRun
  <2> HIDE DEF r
  <2>3. PICK i \in DOMAIN runs' : runs'[i].task = t /\ runs'[i].trigger = "schedule" /\ runs'[i].at > x
    BY DEF Overtaken, IndexesOf
  <2>4. CASE i \in DOMAIN runs
    BY <2>1, <2>3, <2>4 DEF Added, Overtaken, IndexesOf
  <2>5. CASE i \notin DOMAIN runs
    BY <1>2, <2>1, <2>2, <2>3, <2>5 DEF Added
  <2> QED BY <2>4, <2>5
<1> QED BY <1>1, <1>2 DEF Idles, Repeats, Waits

\* A tick moves the watermark to what it scheduled or past what it looked at.
LEMMA MarkedEvaluation ==
    ASSUME TypeOK, Marked, NEW s \in Schedulers, Idles(s) \/ Repeats(s) \/ Waits(s) \/ Schedules(s),
           NEW u \in Tasks
    PROVE  MarkedOf(u)'
<1>0. PICK t, v, now : t = tick[s].task /\ v = tick[s].version /\ now = tick[s].now
  OBVIOUS
<1>1. PICK to \in Int : /\ Evaluated(s, to) /\ to <= now /\ to # NoMark
                        /\ watermark[t] # NoMark => watermark[t] <= to
  BY <1>0, EvaluationMarks
<1>2. t \in Tasks /\ v \in Versions /\ now \in Instants
  BY <1>0, <1>1, Forward DEF Evaluated
<1>3. /\ watermark'[t] = to
      /\ \A q \in Tasks \ {t} : watermark'[q] = watermark[q] /\ since'[q] = since[q]
      /\ watermark[t] = NoMark =>
            since'[t] = [by |-> "first_tick", at |-> now - Minute, overtaken |-> FALSE]
      /\ watermark[t] # NoMark => since'[t] = since[t]
  BY <1>0, <1>1, <1>2, AdvanceDoes DEF Evaluated
<1>4. CASE u # t
  <2>1. ASSUME Overtaken(u, watermark[u])' PROVE Overtaken(u, watermark[u])
    BY <1>0, <1>3, <1>4, <2>1, OvertakenBySchedule
  <2> QED BY <1>3, <1>4, <2>1 DEF Marked, MarkedOf
<1>5. CASE u = t
  <2>1. since'[t].by \in {"edit", "restore"} => since'[t].at <= to
    <3>1. CASE watermark[t] = NoMark
      BY <1>3, <3>1
    <3>2. CASE watermark[t] # NoMark
      <4>1. since[t].by \in {"edit", "restore"} => since[t].at <= watermark[t]
        BY <1>2 DEF Marked, MarkedOf
      <4>2. since[t].at \in Int /\ watermark[t] \in Int
        BY <1>2, Starts DEF TypeOK, Sinces
      <4> QED BY <1>1, <1>3, <3>2, <4>1, <4>2
    <3> QED BY <3>1, <3>2
  <2>2. ASSUME ~since'[t].overtaken, Overtaken(t, to)' PROVE FALSE
    <3>0. ~since[t].overtaken /\ ~Overtaken(t, watermark[t])
      BY <1>2, <1>3, <2>2 DEF Marked, MarkedOf
    <3>1. CASE Overtaken(t, to)
      <4>1. PICK i \in IndexesOf(t) : runs[i].trigger = "schedule" /\ runs[i].at > to
        BY <3>1 DEF Overtaken
      <4>2. runs[i].at \in Instants
        BY <4>1, RunParts DEF IndexesOf
      <4>3. runs[i].at \in Nat /\ watermark[t] \in Int /\ NoMark = -3
        BY <1>2, <4>2, Starts, SchedulerAssumption DEF Instants, NoMark, Minute
      <4>4. runs[i].at > watermark[t]
        BY <1>1, <4>1, <4>3
      <4> QED BY <3>0, <4>1, <4>4 DEF Overtaken
    <3>2. CASE Schedules(s) /\ Occurrence(t, v, now) > to
      <4>1. Evaluated(s, EnqueuedMark(t, v, now)) /\ Candidates(t, v, now) # {}
        BY <1>0, <3>2 DEF Schedules
      <4>2. Occurrence(t, v, now) \in Int /\ Occurrence(t, v, now) <= now /\ now \in Int
            /\ EnqueuedMark(t, v, now) \in {Occurrence(t, v, now), now}
        BY <1>0, <4>1, Forward DEF Evaluated, Instants
      <4>3. to = EnqueuedMark(t, v, now)
        BY <1>0, <1>2, <1>3, <4>1, AdvanceDoes DEF Evaluated
      <4> QED BY <3>2, <4>2, <4>3
    <3> QED BY <1>0, <1>2, <2>2, <3>1, <3>2, OvertakenBySchedule
  <2>3. watermark'[u] = to /\ to # NoMark
    BY <1>1, <1>3, <1>5
  <2>4. ~since'[u].overtaken => ~Overtaken(u, watermark[u])'
    <3>1. Overtaken(u, watermark[u])' <=> Overtaken(u, to)'
      BY <2>3 DEF Overtaken
    <3> QED BY <1>5, <2>2, <3>1
  <2> QED BY <1>5, <2>1, <2>3, <2>4 DEF MarkedOf
<1> QED BY <1>4, <1>5

\* Marked is kept: only edits, activation and restoration move a watermark back or
\* set it anew.
LEMMA MarkedStep ==
    ASSUME TypeOK, Timely, Marked, Next
    PROVE  Marked'
<1> SUFFICES ASSUME NEW u \in Tasks PROVE MarkedOf(u)'
  BY DEF Marked
<1>0. /\ watermark \in [Tasks -> {NoMark} \cup (-Minute .. MaxNow)] /\ since \in [Tasks -> Sinces]
      /\ MarkedOf(u)
  BY DEF TypeOK, Marked
<1>1. ASSUME UNCHANGED <<watermark, since>>,
             \/ UNCHANGED runs
             \/ \E i \in DOMAIN runs : \E status : Moved(i, status)
             \/ \E r : Added(r) /\ r.trigger = "manual"
      PROVE  MarkedOf(u)'
  <2>1. PICK w : w = watermark[u] /\ w = watermark'[u]
    BY <1>1
  <2>2. Overtaken(u, w)' <=> Overtaken(u, w)
    BY <1>1, ScheduledStays
  <2>3. (Overtaken(u, watermark[u])' <=> Overtaken(u, w)')
        /\ (Overtaken(u, watermark[u]) <=> Overtaken(u, w))
    BY <2>1 DEF Overtaken
  <2> QED BY <1>0, <1>1, <2>1, <2>2, <2>3 DEF MarkedOf
<1>2. ASSUME NEW t \in Tasks, NEW v \in Manual, Enqueue(t, v) PROVE MarkedOf(u)'
  <2>1. Added(NewRun(t, v, clock, "manual"))
    BY <1>2, EnqueueDoes
  <2>2. NewRun(t, v, clock, "manual").trigger = "manual"
    BY DEF NewRun
  <2> QED BY <1>1, <1>2, <2>1, <2>2 DEF Enqueue, taskVars
<1>3. ASSUME NEW i \in DOMAIN runs, Claim(i) \/ CancelQueued(i) \/ EndRun(i) PROVE MarkedOf(u)'
  <2>1. \E status : Moved(i, status)
    BY <1>3, WorkDoes
  <2> QED BY <1>1, <1>3, <2>1 DEF Claim, CancelQueued, EndRun, taskVars
<1>4. ASSUME UNCHANGED <<watermark, since, runs>> PROVE MarkedOf(u)'
  BY <1>1, <1>4
<1>5. ASSUME NEW t \in Tasks, NEW v \in Versions, Activate(t, v) PROVE MarkedOf(u)'
  <2>1. UNCHANGED <<watermark, runs>>
    BY <1>5 DEF Activate
  <2>2. \/ since'[u] = since[u]
        \/ /\ watermark[u] # NoMark /\ since'[u].overtaken = since[u].overtaken
           /\ since'[u].by = "activation"
    BY <1>0, <1>5 DEF Activate
  <2>3. Overtaken(u, watermark[u])' <=> Overtaken(u, watermark[u])
    BY <2>1 DEF Overtaken, IndexesOf
  <2>4. watermark'[u] = watermark[u]
    BY <2>1
  <2> QED BY <1>0, <2>2, <2>3, <2>4 DEF MarkedOf
<1>6. ASSUME NEW e \in Editors, edit[e] # NoEdit, Publish(e) PROVE MarkedOf(u)'
  <2>1. PICK t \in Tasks, x \in Instants : t = edit[e].task /\ x = edit[e].at
    BY <1>6, EditParts
  <2>2. PICK b : (b <=> Overtaken(t, x)) /\ since' = [since EXCEPT ![t] =
                        [by |-> "edit", at |-> x, overtaken |-> b]]
    BY <1>6, <2>1 DEF Publish
  <2>3. watermark' = [watermark EXCEPT ![t] = x] /\ runs' = runs
    BY <1>6, <2>1 DEF Publish, PublishMark
  <2>4. CASE u = t
    <3>1. watermark'[u] = x /\ since'[u].by = "edit" /\ since'[u].at = x
          /\ (since'[u].overtaken <=> b)
      BY <1>0, <2>2, <2>3, <2>4
    <3>2. Overtaken(u, watermark[u])' <=> Overtaken(t, x)
      BY <2>3, <2>4, <3>1 DEF Overtaken, IndexesOf
    <3>3. x # NoMark /\ x <= x
      BY SchedulerAssumption DEF Instants, NoMark, Minute
    <3> QED BY <2>2, <3>1, <3>2, <3>3 DEF MarkedOf
  <2>5. CASE u # t
    <3>1. watermark'[u] = watermark[u] /\ since'[u] = since[u]
      BY <1>0, <2>2, <2>3, <2>5
    <3>2. Overtaken(u, watermark[u])' <=> Overtaken(u, watermark[u])
      BY <2>3, <3>1 DEF Overtaken, IndexesOf
    <3> QED BY <1>0, <3>1, <3>2 DEF MarkedOf
  <2> QED BY <2>4, <2>5
<1>7. ASSUME NEW t \in Tasks, RestoreTask(t) PROVE MarkedOf(u)'
  <2>1. watermark' = [watermark EXCEPT ![t] = clock] /\ runs' = runs
        /\ since' = [since EXCEPT ![t] = [by |-> "restore", at |-> clock, overtaken |-> FALSE]]
    BY <1>7 DEF RestoreTask
  <2>2. CASE u = t
    <3>1. watermark'[u] = clock /\ since'[u].by = "restore" /\ since'[u].at = clock
      BY <1>0, <2>1, <2>2
    <3>2. clock \in Int /\ clock # NoMark /\ clock <= clock
      BY SchedulerAssumption DEF Instants, NoMark, Minute, TypeOK
    <3>3. ~Overtaken(u, watermark[u])'
      <4>1. ASSUME NEW i \in DOMAIN runs, runs[i].at > clock PROVE FALSE
        <5>1. runs[i].at \in Instants /\ runs[i].at <= clock
          BY RunParts DEF Timely
        <5>2. runs[i].at \in Int
          BY <5>1, SchedulerAssumption DEF Instants
        <5> QED BY <3>2, <4>1, <5>1, <5>2
      <4> QED BY <2>1, <3>1, <4>1 DEF Overtaken, IndexesOf
    <3> QED BY <3>1, <3>2, <3>3 DEF MarkedOf
  <2>3. CASE u # t
    <3>1. watermark'[u] = watermark[u] /\ since'[u] = since[u]
      BY <1>0, <2>1, <2>3
    <3>2. Overtaken(u, watermark[u])' <=> Overtaken(u, watermark[u])
      BY <2>1, <3>1 DEF Overtaken, IndexesOf
    <3> QED BY <1>0, <3>1, <3>2 DEF MarkedOf
  <2> QED BY <2>2, <2>3
<1> QED BY <1>2, <1>3, <1>4, <1>5, <1>6, <1>7, MarkedEvaluation, Steps
        DEF base, SetEnabled, DeleteTask, DeleteItem, RestoreItem, TimePasses, taskVars

-----------------------------------------------------------------------------
(* An occurrence has one run.                                                *)

\* OccurrenceOnce is kept: a tick looks for a scheduled run in the transaction that
\* inserts one.
LEMMA OnceStep ==
    ASSUME TypeOK, OccurrenceOnce, Next
    PROVE  OccurrenceOnce'
<1>1. ASSUME UNCHANGED runs PROVE OccurrenceOnce'
  BY <1>1 DEF OccurrenceOnce
<1>2. ASSUME NEW i \in DOMAIN runs, NEW status, Moved(i, status) PROVE OccurrenceOnce'
  BY <1>2 DEF Moved, OccurrenceOnce
<1>3. ASSUME NEW r, Added(r), r.trigger = "schedule" => ScheduledAt(r.task, r.at) = {}
      PROVE  OccurrenceOnce'
  BY <1>3 DEF Added, OccurrenceOnce, ScheduledAt, IndexesOf
<1>4. ASSUME NEW s \in Schedulers, Schedules(s) PROVE OccurrenceOnce'
  <2>1. PICK r : /\ r = NewRun(tick[s].task, tick[s].version,
                           Occurrence(tick[s].task, tick[s].version, tick[s].now), "schedule")
                 /\ Added(r)
    BY <1>4 DEF Schedules
  <2>2. r.task = tick[s].task
        /\ r.at = Occurrence(tick[s].task, tick[s].version, tick[s].now)
    BY <2>1 DEF NewRun
  <2>3. ScheduledAt(r.task, r.at) = {}
    BY <1>4, <2>2 DEF Schedules
  <2> QED BY <1>3, <2>1, <2>3
<1>5. ASSUME NEW t \in Tasks, NEW v \in Manual, Enqueue(t, v) PROVE OccurrenceOnce'
  <2>1. PICK r : r = NewRun(t, v, clock, "manual") /\ Added(r)
    BY <1>5, EnqueueDoes
  <2> QED BY <1>3, <2>1 DEF NewRun
<1>6. ASSUME NEW i \in DOMAIN runs, Claim(i) \/ CancelQueued(i) \/ EndRun(i) PROVE OccurrenceOnce'
  BY <1>2, <1>6, WorkDoes
<1> QED BY <1>1, <1>4, <1>5, <1>6, Steps DEF base, Idles, Repeats, Waits, Activate, SetEnabled,
           DeleteTask, RestoreTask, Publish, DeleteItem, RestoreItem, TimePasses

-----------------------------------------------------------------------------
(* What is enabled can run.                                                  *)

\* EnabledLive is kept: a task is enabled only with references that live.
LEMMA EnabledStep ==
    ASSUME TypeOK, EnabledLive, Next
    PROVE  EnabledLive'
<1> SUFFICES ASSUME NEW u \in Tasks, enabled'[u]
             PROVE  u \notin deleted' /\ Uses[active'[u]] \cap gone' = {}
  BY DEF EnabledLive, ReferencesLive
<1>0. /\ active \in [Tasks -> Versions] /\ enabled \in [Tasks -> BOOLEAN]
      /\ enabled[u] => u \notin deleted /\ Uses[active[u]] \cap gone = {}
  BY DEF TypeOK, EnabledLive, ReferencesLive
<1>1. CASE UNCHANGED <<active, enabled, deleted, gone>>
  BY <1>0, <1>1
<1>2. ASSUME NEW t \in Tasks, NEW v \in Versions, Activate(t, v)
      PROVE  u \notin deleted' /\ Uses[active'[u]] \cap gone' = {}
  BY <1>0, <1>2 DEF Activate
<1>3. ASSUME NEW t \in Tasks, NEW on \in BOOLEAN, SetEnabled(t, on)
      PROVE  u \notin deleted' /\ Uses[active'[u]] \cap gone' = {}
  BY <1>0, <1>3 DEF SetEnabled, ReferencesLive
<1>4. ASSUME NEW t \in Tasks, DeleteTask(t) \/ RestoreTask(t)
      PROVE  u \notin deleted' /\ Uses[active'[u]] \cap gone' = {}
  BY <1>0, <1>4 DEF DeleteTask, RestoreTask
<1>5. ASSUME NEW e \in Editors, edit[e] # NoEdit, Publish(e)
      PROVE  u \notin deleted' /\ Uses[active'[u]] \cap gone' = {}
  <2>1. PICK t \in Tasks, v \in Versions : t = edit[e].task /\ v = edit[e].version
    BY <1>5, EditParts
  <2> QED BY <1>0, <1>5, <2>1 DEF Publish, MayPublish, ReferencesLive
<1>6. ASSUME NEW x \in Items, DeleteItem(x) \/ RestoreItem(x)
      PROVE  u \notin deleted' /\ Uses[active'[u]] \cap gone' = {}
  BY <1>0, <1>6 DEF DeleteItem, RestoreItem, Unused, taskVars
<1>7. ASSUME NEW s \in Schedulers, Idles(s) \/ Repeats(s) \/ Waits(s) \/ Schedules(s)
      PROVE  UNCHANGED <<active, enabled, deleted, gone>>
  BY <1>7 DEF Idles, Repeats, Waits, Schedules, Evaluated, Advance
<1> QED BY <1>1, <1>2, <1>3, <1>4, <1>5, <1>6, <1>7, Steps DEF base, Enqueue, Claim, CancelQueued,
           EndRun, TimePasses, taskVars

-----------------------------------------------------------------------------
(* A schedule acts for the task as it stands.                                *)

\* The run a tick inserts: its occurrence is after the watermark, under skip too,
\* for there it is the tick's own minute.
LEMMA NewRunStands ==
    ASSUME TypeOK, Timely, Marked, NEW s \in Schedulers, Schedules(s)
    PROVE  LET r == NewRun(tick[s].task, tick[s].version,
                           Occurrence(tick[s].task, tick[s].version, tick[s].now), "schedule") IN
           /\ NoReplay(r)
           /\ r.version = active[r.task] /\ r.task \notin deleted
<1>0. PICK t, v, now, o : /\ t = tick[s].task /\ v = tick[s].version /\ now = tick[s].now
                          /\ o = Occurrence(t, v, now)
  OBVIOUS
<1>1. Evaluated(s, EnqueuedMark(t, v, now)) /\ Candidates(t, v, now) # {}
  BY <1>0 DEF Schedules
<1>2. /\ t \in Tasks /\ v \in Versions /\ now \in Instants /\ now \in Int
      /\ Previous(t, now) \in Int /\ Previous(t, now) < now
      /\ o \in Candidates(t, v, now) /\ o \in Cron[v] /\ o \in Instants /\ o <= now
  BY <1>0, <1>1, Forward DEF Evaluated
<1>3. PICK r : r = NewRun(t, v, o, "schedule")
  OBVIOUS
<1>4. r.task = t /\ r.version = v /\ r.at = o /\ r.since = since'[t]
  BY <1>3 DEF NewRun
<1>5. r.version = active[r.task] /\ r.task \notin deleted
  BY <1>0, <1>1, <1>4 DEF Evaluated, Evaluates, StillCurrent
<1>6. Previous(t, now) < o
  <2>1. CASE Policy[v] # "skip"
    BY <1>2, <2>1 DEF Candidates, Between, SearchStart
  <2>2. CASE Policy[v] = "skip"
    <3>1. now - 2 < o
      BY <1>2, <2>2 DEF Candidates, Between, SearchStart, Minute
    <3>2. o % 2 = 0 /\ now % 2 = 0
      BY <1>0, <1>2, SchedulerAssumption DEF Minute, Timely
    <3>3. o \in Nat /\ now \in Nat
      BY <1>2, SchedulerAssumption DEF Instants
    <3>4. o = now
      <4>1. now - o \in Nat /\ now - o < 2 /\ now - o # 1
        BY <1>2, <3>1, <3>2, <3>3
      <4> QED BY <3>3, <4>1
    <3> QED BY <1>2, <3>4
  <2> QED BY <2>1, <2>2
<1>7. NoReplay(r)
  <2>1. PICK to : Advance(t, now, to)
    BY <1>0, <1>1 DEF Evaluated
  <2>2. CASE watermark[t] = NoMark
    <3>0. since'[t] = [by |-> "first_tick", at |-> now - Minute, overtaken |-> FALSE]
      BY <1>2, <2>1, <2>2, AdvanceDoes
    <3>1. since'[t].by = "first_tick"
      BY <3>0
    <3> QED BY <1>4, <3>1 DEF NoReplay
  <2>3. CASE watermark[t] # NoMark
    <3>1. since'[t] = since[t]
      BY <1>2, <2>1, <2>3, AdvanceDoes
    <3>2. since[t].by \in {"edit", "restore"} => since[t].at <= watermark[t]
      BY <1>2 DEF Marked, MarkedOf
    <3>3. since[t].at \in Int /\ watermark[t] \in Int /\ Previous(t, now) = watermark[t] /\ o \in Int
      <4>1. since[t].at \in -Minute .. MaxNow
        BY <1>2 DEF TypeOK, Sinces
      <4> QED BY <1>2, <2>3, <4>1, Starts, SchedulerAssumption DEF Previous, Instants, Minute
    <3> QED BY <1>4, <1>6, <3>1, <3>2, <3>3 DEF NoReplay
  <2> QED BY <2>2, <2>3
<1> QED BY <1>0, <1>3, <1>5, <1>7

\* RunsStand is kept: scheduled runs that have not ended are of their task's active
\* version, and none is for an occurrence before an edit or a restoration.
LEMMA StandsStep ==
    ASSUME TypeOK, Timely, Marked, RunsStand, Next
    PROVE  RunsStand'
<1> SUFFICES ASSUME NEW k \in DOMAIN runs', runs'[k].trigger = "schedule"
             PROVE  /\ NoReplay(runs'[k])
                    /\ runs'[k].status # "ended" =>
                          runs'[k].version = active'[runs'[k].task] /\ runs'[k].task \notin deleted'
  BY DEF RunsStand, StaysActive, NoReplay
<1> DEFINE Stands == /\ NoReplay(runs'[k])
                     /\ runs'[k].status # "ended" =>
                          runs'[k].version = active'[runs'[k].task] /\ runs'[k].task \notin deleted'
<1>0. /\ \A j \in DOMAIN runs : runs[j].trigger = "schedule" =>
            /\ NoReplay(runs[j])
            /\ runs[j].status # "ended" =>
                  runs[j].version = active[runs[j].task] /\ runs[j].task \notin deleted
      /\ active \in [Tasks -> Versions]
  BY DEF RunsStand, StaysActive, TypeOK
<1>1. ASSUME UNCHANGED <<runs, active>>, deleted' \subseteq deleted PROVE Stands
  BY <1>0, <1>1
<1>2. ASSUME NEW i \in DOMAIN runs, NEW status, Moved(i, status), runs[i].status # "ended",
             UNCHANGED <<active, deleted>>
      PROVE  Stands
  <2>1. NoReplay(runs[k]) => NoReplay(runs'[k])
    BY <1>2 DEF Moved, NoReplay
  <2> QED BY <1>0, <1>2, <2>1 DEF Moved
<1>3. ASSUME NEW i \in DOMAIN runs, Claim(i) \/ CancelQueued(i) \/ EndRun(i) PROVE Stands
  BY <1>2, <1>3, WorkDoes DEF Claim, CancelQueued, EndRun, taskVars
<1>4. ASSUME NEW t \in Tasks, NEW v \in Manual, Enqueue(t, v) PROVE Stands
  <2>1. PICK r : r = NewRun(t, v, clock, "manual") /\ Added(r)
    BY <1>4, EnqueueDoes
  <2>2. r.trigger = "manual" /\ UNCHANGED <<active, deleted>>
    BY <1>4, <2>1 DEF NewRun, Enqueue, taskVars
  <2> QED BY <1>0, <2>1, <2>2 DEF Added
<1>5. ASSUME NEW s \in Schedulers, Idles(s) \/ Repeats(s) \/ Waits(s) PROVE Stands
  BY <1>1, <1>5 DEF Idles, Repeats, Waits, Evaluated, Advance
<1>6. ASSUME NEW s \in Schedulers, Schedules(s) PROVE Stands
  <2>1. PICK r : r = NewRun(tick[s].task, tick[s].version,
                            Occurrence(tick[s].task, tick[s].version, tick[s].now), "schedule")
    OBVIOUS
  <2>2. Added(r) /\ UNCHANGED <<active, deleted>>
    BY <1>6, <2>1 DEF Schedules, Evaluated, Advance
  <2>3. NoReplay(r) /\ r.version = active[r.task] /\ r.task \notin deleted
    BY <1>6, <2>1, NewRunStands
  <2> QED BY <1>0, <2>2, <2>3 DEF Added
<1>7. ASSUME NEW t \in Tasks, IdleForEdit(t), UNCHANGED runs,
             \A u \in Tasks \ {t} : active'[u] = active[u], deleted' \subseteq deleted \cup {t}
      PROVE  Stands
  <2>1. runs[k].task \in Tasks /\ k \in DOMAIN runs
    BY <1>7, RunParts
  <2>2. CASE runs[k].task = t
    BY <1>0, <1>7, <2>1, <2>2 DEF IdleForEdit, IndexesOf
  <2>3. CASE runs[k].task # t
    BY <1>0, <1>7, <2>1, <2>3
  <2> QED BY <2>2, <2>3
<1>8. ASSUME NEW t \in Tasks, NEW v \in Versions, Activate(t, v) PROVE Stands
  <2>1. CASE active[t] = v
    <3>1. active' = active
      BY <1>0, <1>8, <2>1 DEF Activate
    <3> QED BY <1>1, <1>8, <3>1 DEF Activate
  <2>2. CASE IdleForEdit(t)
    BY <1>0, <1>7, <1>8, <2>2 DEF Activate
  <2> QED BY <1>8, <2>1, <2>2 DEF Activate
<1>9. ASSUME NEW e \in Editors, edit[e] # NoEdit, Publish(e) PROVE Stands
  <2>1. PICK t \in Tasks : t = edit[e].task
    BY <1>9, EditParts
  <2> QED BY <1>0, <1>7, <1>9, <2>1 DEF Publish, MayPublish
<1>10. ASSUME NEW t \in Tasks, DeleteTask(t) \/ RestoreTask(t) PROVE Stands
  BY <1>1, <1>7, <1>10 DEF DeleteTask, RestoreTask
<1> QED BY <1>1, <1>3, <1>4, <1>5, <1>6, <1>8, <1>9, <1>10, Steps
        DEF base, SetEnabled, DeleteItem, RestoreItem, TimePasses, taskVars

-----------------------------------------------------------------------------
(* What was due is covered.                                                  *)

WaitedFor(t, o) ==
    Queued(t) # {} \/ waited[t] >= o \/ \E i \in IndexesOf(t) : runs[i].at >= o

CoveredAt(t, v, o) ==
    /\ Policy[v] = "enqueue_once" => WaitedFor(t, o)
    /\ Policy[v] = "catch_up" => since[t].overtaken \/ ScheduledAt(t, o) # {}

CoveredOf(t) ==
    active[t] \in Scheduled =>
        \A o \in Between(active[t], since[t].at, watermark[t]) : CoveredAt(t, active[t], o)

\* OccurrenceCovered, task by task.
LEMMA CoveredByTask ==
    /\ OccurrenceCovered <=> \A t \in Tasks : CoveredOf(t)
    /\ OccurrenceCovered' <=> \A t \in Tasks : CoveredOf(t)'
  BY DEF OccurrenceCovered, CoveredOf, CoveredAt, WaitedFor

\* No step takes a covering run away.
LEMMA CoverStays ==
    ASSUME TypeOK, Next, NEW u \in Tasks, NEW o \in Int, o <= clock
    PROVE  /\ WaitedFor(u, o) => WaitedFor(u, o)'
           /\ ScheduledAt(u, o) # {} => (ScheduledAt(u, o) # {})'
<1>0. waited \in [Tasks -> {NoMark} \cup Instants] /\ clock \in Int
  BY ClockStep DEF TypeOK
<1>1. ASSUME UNCHANGED <<runs, waited>>
      PROVE  /\ WaitedFor(u, o) => WaitedFor(u, o)'
             /\ ScheduledAt(u, o) # {} => (ScheduledAt(u, o) # {})'
  BY <1>1 DEF WaitedFor, ScheduledAt, Queued, IndexesOf
<1>2. ASSUME NEW r, Added(r), UNCHANGED waited
      PROVE  /\ WaitedFor(u, o) => WaitedFor(u, o)'
             /\ ScheduledAt(u, o) # {} => (ScheduledAt(u, o) # {})'
  BY <1>2 DEF Added, WaitedFor, ScheduledAt, Queued, IndexesOf
<1>3. ASSUME NEW k \in DOMAIN runs, NEW status, Moved(k, status), waited'[runs[k].task] = clock,
             \A t \in Tasks \ {runs[k].task} : waited'[t] = waited[t]
      PROVE  /\ WaitedFor(u, o) => WaitedFor(u, o)'
             /\ ScheduledAt(u, o) # {} => (ScheduledAt(u, o) # {})'
  <2>1. CASE u = runs[k].task
    BY <1>0, <1>3, <2>1 DEF Moved, WaitedFor, ScheduledAt, IndexesOf
  <2>2. CASE u # runs[k].task
    BY <1>3, <2>2 DEF Moved, WaitedFor, ScheduledAt, Queued, IndexesOf
  <2> QED BY <2>1, <2>2
<1>4. ASSUME NEW k \in DOMAIN runs, EndRun(k)
      PROVE  /\ WaitedFor(u, o) => WaitedFor(u, o)'
             /\ ScheduledAt(u, o) # {} => (ScheduledAt(u, o) # {})'
  <2>1. Moved(k, "ended") /\ runs[k].status = "running" /\ UNCHANGED waited
    BY <1>4, WorkDoes DEF EndRun
  <2> QED BY <2>1 DEF Moved, WaitedFor, ScheduledAt, Queued, IndexesOf
<1>5. ASSUME NEW k \in DOMAIN runs, Claim(k) \/ CancelQueued(k)
      PROVE  /\ WaitedFor(u, o) => WaitedFor(u, o)'
             /\ ScheduledAt(u, o) # {} => (ScheduledAt(u, o) # {})'
  <2>1. \E status : Moved(k, status)
    BY <1>5, WorkDoes
  <2>2. runs[k].task \in Tasks /\ waited' = [waited EXCEPT ![runs[k].task] = clock]
    BY <1>5, RunParts DEF Claim, CancelQueued
  <2> QED BY <1>0, <1>3, <2>1, <2>2
<1>6. ASSUME NEW s \in Schedulers, Idles(s) \/ Repeats(s) \/ Waits(s) \/ Schedules(s)
      PROVE  /\ WaitedFor(u, o) => WaitedFor(u, o)'
             /\ ScheduledAt(u, o) # {} => (ScheduledAt(u, o) # {})'
  BY <1>1, <1>2, <1>6 DEF Idles, Repeats, Waits, Schedules, Evaluated
<1>7. ASSUME NEW t \in Tasks, NEW v \in Manual, Enqueue(t, v)
      PROVE  /\ WaitedFor(u, o) => WaitedFor(u, o)'
             /\ ScheduledAt(u, o) # {} => (ScheduledAt(u, o) # {})'
  BY <1>2, <1>7, EnqueueDoes DEF Enqueue
<1> QED BY <1>1, <1>4, <1>5, <1>6, <1>7, Steps DEF base, Activate, SetEnabled, DeleteTask, RestoreTask,
           Publish, DeleteItem, RestoreItem, TimePasses

\* What an evaluation finds due between the old watermark and the new one is covered:
\* under enqueue_once by the latest occurrence or by the run that waits, under catch_up
\* because the watermark stops at the one occurrence that is enqueued.
LEMMA DueIsCovered ==
    ASSUME TypeOK, Marked, NEW s \in Schedulers, Idles(s) \/ Repeats(s) \/ Waits(s) \/ Schedules(s),
           NEW t \in Tasks, NEW v \in Versions, NEW now \in Instants, NEW to \in Int, NEW o \in Cron[v],
           t = tick[s].task, v = tick[s].version, now = tick[s].now,
           Evaluated(s, to), Previous(t, now) < o, o <= to, to <= now
    PROVE  CoveredAt(t, v, o)'
<1>0. /\ o \in Int /\ now \in Int /\ Previous(t, now) \in Int
      /\ Policy[v] # "skip" => o \in Candidates(t, v, now)
  <2>1. o \in Instants
    BY SchedulerAssumption
  <2>2. o \in Int /\ now \in Int /\ Previous(t, now) \in Int
    BY <2>1, Starts, SchedulerAssumption DEF Instants, Minute
  <2> QED BY <2>2 DEF Candidates, Between, SearchStart
<1>1. CASE Policy[v] \notin {"enqueue_once", "catch_up"}
  BY <1>1 DEF CoveredAt
<1>2. CASE Policy[v] \in {"enqueue_once", "catch_up"}
  <2>0. o \in Candidates(t, v, now) /\ Candidates(t, v, now) # {}
    BY <1>0, <1>2
  <2>1. PICK x \in Int : /\ x = Occurrence(t, v, now) /\ Previous(t, now) < x
                         /\ Policy[v] = "catch_up" => x <= o
                         /\ Policy[v] = "enqueue_once" => o <= x
    <3>1. /\ Occurrence(t, v, now) \in Candidates(t, v, now)
          /\ Policy[v] = "catch_up" => Occurrence(t, v, now) <= o
          /\ Policy[v] # "catch_up" => o <= Occurrence(t, v, now)
      BY <2>0, Due
    <3>2. Previous(t, now) < Occurrence(t, v, now) /\ Occurrence(t, v, now) \in Cron[v]
      BY <1>2, <3>1 DEF Candidates, Between, SearchStart
    <3>3. Occurrence(t, v, now) \in Int
      BY <3>2, SchedulerAssumption DEF Instants
    <3> QED BY <3>1, <3>2, <3>3
  <2>2. CASE Idles(s)
    BY <2>0, <2>2 DEF Idles
  <2>3. CASE Repeats(s)
    <3>1. PICK i \in IndexesOf(t) : runs[i].trigger = "schedule" /\ runs[i].at = x
      BY <2>1, <2>3 DEF Repeats, ScheduledAt
    <3>2. UNCHANGED runs
      BY <2>3 DEF Repeats
    <3>3. CASE Policy[v] = "enqueue_once"
      <4>1. i \in IndexesOf(t)' /\ runs'[i].at >= o
        BY <1>0, <2>1, <3>1, <3>2, <3>3 DEF IndexesOf
      <4> QED BY <3>3, <4>1 DEF CoveredAt, WaitedFor
    <3>4. CASE Policy[v] = "catch_up"
      <4>1. Overtaken(t, watermark[t])
        <5>1. watermark[t] < x
          <6>1. watermark[t] \in Int /\ NoMark = -3 /\ now - Minute \in -Minute .. MaxNow
            BY Starts DEF NoMark, Minute
          <6>2. watermark[t] <= Previous(t, now)
            BY <1>0, <6>1, SchedulerAssumption DEF Previous, Minute
          <6> QED BY <1>0, <2>1, <6>1, <6>2
        <5> QED BY <3>1, <5>1 DEF Overtaken
      <4>2. since[t].overtaken /\ watermark[t] # NoMark
        BY <4>1 DEF Marked, MarkedOf
      <4>3. since'[t] = since[t]
        BY <4>2, AdvanceDoes DEF Evaluated
      <4> QED BY <3>4, <4>2, <4>3 DEF CoveredAt
    <3> QED BY <1>2, <3>3, <3>4
  <2>4. CASE Waits(s)
    <3>1. Queued(t) # {} /\ UNCHANGED runs
      BY <2>4 DEF Waits
    <3>2. (Queued(t) # {})'
      BY <3>1 DEF Queued, IndexesOf
    <3>3. CASE Policy[v] = "enqueue_once"
      BY <3>2, <3>3 DEF CoveredAt, WaitedFor
    <3>4. CASE Policy[v] = "catch_up"
      <4>1. Evaluated(s, Previous(t, now))
        BY <2>4, <3>4 DEF Waits, CoalescedMark
      <4>2. PICK p : p = Previous(t, now) /\ Evaluated(s, p)
        BY <4>1
      <4>3. watermark'[t] = p /\ watermark'[t] = to
        <5>1. Advance(t, now, p) /\ Advance(t, now, to)
          BY <4>2 DEF Evaluated
        <5>2. watermark \in [Tasks -> {NoMark} \cup (-Minute .. MaxNow)]
          BY DEF TypeOK
        <5> QED BY <5>1, <5>2 DEF Advance
      <4> QED BY <1>0, <4>2, <4>3
    <3> QED BY <1>2, <3>3, <3>4
  <2>5. CASE Schedules(s)
    <3>1. PICK r : r = NewRun(t, v, x, "schedule") /\ Added(r)
      BY <2>1, <2>5 DEF Schedules
    <3>2. r.task = t /\ r.at = x /\ r.trigger = "schedule"
      BY <3>1 DEF NewRun
    <3>3. PICK j \in DOMAIN runs' : runs'[j].task = t /\ runs'[j].at = x /\ runs'[j].trigger = "schedule"
      BY <3>1, <3>2 DEF Added
    <3>4. CASE Policy[v] = "enqueue_once"
      <4>1. j \in IndexesOf(t)' /\ runs'[j].at >= o
        BY <1>0, <2>1, <3>3, <3>4 DEF IndexesOf
      <4> QED BY <3>4, <4>1 DEF CoveredAt, WaitedFor
    <3>5. CASE Policy[v] = "catch_up"
      <4>1. Evaluated(s, x)
        BY <2>1, <2>5, <3>5 DEF Schedules, EnqueuedMark
      <4>2. watermark'[t] = x /\ watermark'[t] = to
        <5>1. Advance(t, now, x) /\ Advance(t, now, to)
          BY <4>1 DEF Evaluated
        <5>2. watermark \in [Tasks -> {NoMark} \cup (-Minute .. MaxNow)]
          BY DEF TypeOK
        <5> QED BY <5>1, <5>2 DEF Advance
      <4>3. o = x
        BY <1>0, <2>1, <3>5, <4>2
      <4>4. (ScheduledAt(t, o) # {})'
        BY <3>3, <4>3 DEF ScheduledAt, IndexesOf
      <4> QED BY <3>5, <4>4 DEF CoveredAt
    <3> QED BY <1>2, <3>4, <3>5
  <2> QED BY <2>2, <2>3, <2>4, <2>5
<1> QED BY <1>1, <1>2

\* An evaluation extends the interval that is covered; where it starts stays.
LEMMA CoveredEvaluation ==
    ASSUME TypeOK, Timely, Marked, Next, NEW u \in Tasks, CoveredOf(u),
           NEW s \in Schedulers, Idles(s) \/ Repeats(s) \/ Waits(s) \/ Schedules(s), u = tick[s].task
    PROVE  CoveredOf(u)'
<1>0. PICK v, now : v = tick[s].version /\ now = tick[s].now
  OBVIOUS
<1>1. PICK to \in Int : Evaluated(s, to) /\ to <= now /\ to # NoMark
  BY <1>0, EvaluationMarks
<1>2. /\ v \in Versions /\ now \in Instants /\ now \in Int /\ Previous(u, now) \in Int
      /\ active[u] = v
  BY <1>0, <1>1, Forward DEF Evaluated, Evaluates, StillCurrent
<1>3. Advance(u, now, to)
  BY <1>0, <1>1 DEF Evaluated
<1>4. active'[u] = v /\ watermark'[u] = to
  <2>1. active' = active /\ watermark' = [watermark EXCEPT ![u] = to]
        /\ watermark \in [Tasks -> {NoMark} \cup (-Minute .. MaxNow)]
    BY <1>3 DEF Advance, TypeOK
  <2> QED BY <1>2, <2>1
<1>5. PICK from : from = since'[u].at
  OBVIOUS
<1>6. ASSUME NEW o \in Between(v, from, to), v \in Scheduled PROVE CoveredAt(u, v, o)'
  <2>1. o \in Cron[v] /\ from < o /\ o <= to /\ o \in Int
    <3>1. o \in Cron[v] /\ from < o /\ o <= to
      BY <1>6 DEF Between
    <3>2. o \in Instants
      BY <1>2, <3>1, SchedulerAssumption
    <3> QED BY <3>1, <3>2, SchedulerAssumption DEF Instants
  <2>2. CASE Previous(u, now) < o
    BY <1>0, <1>1, <1>2, <2>1, <2>2, DueIsCovered
  <2>3. CASE o <= Previous(u, now)
    <3>1. watermark[u] # NoMark
      <4>1. ASSUME watermark[u] = NoMark PROVE FALSE
        <5>1. since'[u] = [by |-> "first_tick", at |-> now - Minute, overtaken |-> FALSE]
          BY <1>2, <1>3, <4>1, AdvanceDoes
        <5>2. from = now - Minute /\ Previous(u, now) = now - Minute
          BY <1>5, <4>1, <5>1 DEF Previous
        <5> QED BY <1>2, <2>1, <2>3, <5>2
      <4> QED BY <4>1
    <3>2. since'[u] = since[u]
      BY <1>2, <1>3, <3>1, AdvanceDoes
    <3>3. Previous(u, now) = watermark[u]
      BY <3>1 DEF Previous
    <3>4. o \in Between(active[u], since[u].at, watermark[u])
      BY <1>2, <1>5, <2>1, <2>3, <3>2, <3>3 DEF Between
    <3>5. CoveredAt(u, v, o)
      BY <1>2, <1>6, <3>4 DEF CoveredOf
    <3>6. o <= clock
      <4>1. watermark[u] <= clock /\ watermark[u] \in Int /\ clock \in Int
        BY <1>2, <3>3, ClockStep DEF Timely
      <4> QED BY <2>1, <2>3, <3>3, <4>1
    <3>7. /\ WaitedFor(u, o) => WaitedFor(u, o)'
          /\ ScheduledAt(u, o) # {} => (ScheduledAt(u, o) # {})'
      BY <2>1, <3>6, CoverStays
    <3> QED BY <3>2, <3>5, <3>7 DEF CoveredAt
  <2> QED BY <1>2, <2>1, <2>2, <2>3
<1> QED BY <1>4, <1>5, <1>6 DEF CoveredOf

\* OccurrenceCovered is kept: a tick leaves behind only what its policy allows.
LEMMA CoveredStep ==
    ASSUME TypeOK, Timely, Marked, OccurrenceCovered, Next
    PROVE  OccurrenceCovered'
<1> SUFFICES ASSUME NEW u \in Tasks PROVE CoveredOf(u)'
  BY CoveredByTask
<1>0. /\ CoveredOf(u) /\ active \in [Tasks -> Versions] /\ since \in [Tasks -> Sinces]
      /\ watermark \in [Tasks -> {NoMark} \cup (-Minute .. MaxNow)]
  BY CoveredByTask DEF TypeOK
\* Where the interval is the old one, what covered it still does.
<1>1. ASSUME active'[u] = active[u], since'[u] = since[u], watermark'[u] = watermark[u]
      PROVE  CoveredOf(u)'
  <2>1. PICK v, from, to : v = active[u] /\ from = since[u].at /\ to = watermark[u]
    OBVIOUS
  <2>2. ASSUME NEW o \in Between(v, from, to), v \in Scheduled PROVE CoveredAt(u, v, o)'
    <3>1. CoveredAt(u, v, o)
      BY <1>0, <2>1, <2>2 DEF CoveredOf
    <3>2. o \in Int /\ o <= clock
      <4>1. o \in Instants /\ o <= to
        BY <1>0, <2>1, <2>2, SchedulerAssumption DEF Between
      <4>2. o \in Int
        BY <4>1, SchedulerAssumption DEF Instants
      <4>3. to \in Int /\ clock \in Int /\ to <= clock
        BY <1>0, <2>1, ClockStep, SchedulerAssumption DEF Timely, NoMark, Minute
      <4> QED BY <4>1, <4>2, <4>3
    <3>3. /\ WaitedFor(u, o) => WaitedFor(u, o)'
          /\ ScheduledAt(u, o) # {} => (ScheduledAt(u, o) # {})'
      BY <3>2, CoverStays
    <3> QED BY <1>1, <3>1, <3>3 DEF CoveredAt
  <2> QED BY <1>1, <2>1, <2>2 DEF CoveredOf
\* Where it starts anew, it is empty.
<1>2. ASSUME NEW from \in Int, NEW to \in Int, since'[u].at = from, watermark'[u] = to, to <= from,
             active'[u] \in Versions
      PROVE  CoveredOf(u)'
  <2>1. PICK v \in Versions : v = active'[u]
    BY <1>2
  <2>2. Between(v, from, to) = {}
    <3>1. ASSUME NEW o \in Between(v, from, to) PROVE FALSE
      <4>1. o \in Instants /\ from < o /\ o <= to
        BY <3>1, SchedulerAssumption DEF Between
      <4>2. o \in Int
        BY <4>1, SchedulerAssumption DEF Instants
      <4> QED BY <1>2, <4>1, <4>2
    <3> QED BY <3>1
  <2> QED BY <1>2, <2>1, <2>2 DEF CoveredOf
<1>3. ASSUME NEW s \in Schedulers, Idles(s) \/ Repeats(s) \/ Waits(s) \/ Schedules(s)
      PROVE  CoveredOf(u)'
  <2>1. CASE u = tick[s].task
    BY <1>0, <1>3, <2>1, CoveredEvaluation
  <2>2. CASE u # tick[s].task
    <3>1. PICK to : Evaluated(s, to)
      BY <1>3, EvaluationMarks
    <3>2. Advance(tick[s].task, tick[s].now, to)
      BY <3>1 DEF Evaluated
    <3>3. active'[u] = active[u] /\ watermark'[u] = watermark[u]
      BY <1>0, <2>2, <3>2 DEF Advance
    <3>4. since'[u] = since[u]
      BY <1>0, <2>2, <3>2 DEF Advance
    <3> QED BY <1>1, <3>3, <3>4
  <2> QED BY <2>1, <2>2
<1>4. ASSUME NEW t \in Tasks, NEW v \in Versions, Activate(t, v) PROVE CoveredOf(u)'
  <2>0. watermark'[u] = watermark[u] /\ active' = [active EXCEPT ![t] = v]
    BY <1>4 DEF Activate
  <2>1. CASE u # t
    <3>1. since'[u] = since[u] /\ active'[u] = active[u]
      BY <1>0, <1>4, <2>1 DEF Activate
    <3> QED BY <1>1, <2>0, <3>1
  <2>2. CASE u = t /\ active[t] = v
    <3>1. since'[u] = since[u] /\ active'[u] = active[u]
      BY <1>0, <1>4, <2>0, <2>2 DEF Activate
    <3> QED BY <1>1, <2>0, <3>1
  <2>3. CASE u = t /\ watermark[t] = NoMark
    <3>1. since'[u] = since[u] /\ active'[u] = v
      BY <1>0, <1>4, <2>0, <2>3 DEF Activate
    <3>2. since[u].at \in Int /\ NoMark \in Int /\ NoMark <= since[u].at
      <4>1. since[u].at \in -Minute .. MaxNow
        BY <1>0 DEF Sinces
      <4> QED BY <4>1, SchedulerAssumption DEF NoMark, Minute
    <3>3. PICK from \in Int : from = since'[u].at /\ NoMark <= from
      BY <3>1, <3>2
    <3> QED BY <1>2, <2>0, <2>3, <3>1, <3>2, <3>3
  <2>4. CASE u = t /\ active[t] # v /\ watermark[t] # NoMark
    <3>1. active'[u] = v
      BY <1>0, <2>0, <2>4
    <3>2. since' = [since EXCEPT ![t] = [by |-> "activation", at |-> clock,
                                            overtaken |-> since[t].overtaken]]
      BY <1>4, <2>4 DEF Activate
    <3>3. since'[u].at = clock
      BY <1>0, <2>4, <3>2
    <3>4. clock \in Int /\ watermark[u] \in Int /\ watermark[u] <= clock
      BY Starts, ClockStep DEF Timely, TypeOK
    <3>5. PICK from \in Int, to \in Int : from = clock /\ to = watermark[u] /\ to <= from
      BY <3>4
    <3> QED BY <1>2, <2>0, <3>1, <3>3, <3>5
  <2> QED BY <2>1, <2>2, <2>3, <2>4
<1>5. ASSUME NEW e \in Editors, edit[e] # NoEdit, Publish(e) PROVE CoveredOf(u)'
  <2>1. PICK t \in Tasks, x \in Instants, v \in Versions :
            t = edit[e].task /\ x = edit[e].at /\ v = edit[e].version
    BY <1>5, EditParts
  <2>2. PICK b : since' = [since EXCEPT ![t] = [by |-> "edit", at |-> x, overtaken |-> b]]
    BY <1>5, <2>1 DEF Publish
  <2>3. watermark' = [watermark EXCEPT ![t] = x] /\ active' = [active EXCEPT ![t] = v]
    BY <1>5, <2>1 DEF Publish, PublishMark
  <2>4. CASE u = t
    <3>1. watermark'[u] = x /\ since'[u].at = x /\ active'[u] = v
      BY <1>0, <2>2, <2>3, <2>4
    <3>2. x \in Int /\ x <= x
      BY SchedulerAssumption DEF Instants
    <3> QED BY <1>2, <2>1, <3>1, <3>2
  <2>5. CASE u # t
    BY <1>0, <1>1, <2>2, <2>3, <2>5
  <2> QED BY <2>4, <2>5
<1>6. ASSUME NEW t \in Tasks, RestoreTask(t) PROVE CoveredOf(u)'
  <2>1. watermark' = [watermark EXCEPT ![t] = clock] /\ active' = active
        /\ since' = [since EXCEPT ![t] = [by |-> "restore", at |-> clock, overtaken |-> FALSE]]
    BY <1>6 DEF RestoreTask
  <2>2. CASE u = t
    <3>1. PICK x \in Int : x = clock /\ x <= x
      BY ClockStep
    <3>2. watermark'[u] = x /\ since'[u].at = x /\ active'[u] \in Versions
      BY <1>0, <2>1, <2>2, <3>1
    <3> QED BY <1>2, <3>1, <3>2
  <2>3. CASE u # t
    BY <1>0, <1>1, <2>1, <2>3
  <2> QED BY <2>2, <2>3
<1>7. CASE UNCHANGED <<active, since, watermark>>
  BY <1>1, <1>7
<1> QED BY <1>3, <1>4, <1>5, <1>6, <1>7, Steps DEF base, Enqueue, SetEnabled, DeleteTask, Claim,
           CancelQueued, EndRun, DeleteItem, RestoreItem, TimePasses, taskVars

-----------------------------------------------------------------------------
\* The first state satisfies Inductive.
LEMMA InductiveInit == Init => Inductive
<1> SUFFICES ASSUME Init PROVE Inductive
  OBVIOUS
<1>0. runs = <<>> /\ DOMAIN runs = {} /\ clock = 0 /\ MaxNow \in Nat /\ MaxOps \in Nat
  BY SchedulerAssumption DEF Init
<1>1. TypeOK
  <2>1. 0 \in Instants /\ 0 \in -Minute .. MaxNow /\ 0 \in 0 .. MaxOps
    BY <1>0 DEF Instants, Minute
  <2>2. PICK r \in Sinces : r = [by |-> "creation", at |-> 0, overtaken |-> FALSE]
    BY <2>1, SinceTypes
  <2>3. since = [t \in Tasks |-> r]
    BY <2>2 DEF Init
  <2>4. tick \in [Schedulers -> Ticks] /\ edit \in [Editors -> Edits]
    BY DEF Init, Ticks, Edits
  <2>5. runs \in Seq(RunRecords)
    BY <1>0
  <2> QED BY <2>1, <2>2, <2>3, <2>4, <2>5 DEF Init, TypeOK
<1>2. \A t \in Tasks : watermark[t] = NoMark /\ since[t].by = "creation" /\ since[t].at = 0
                       /\ ~since[t].overtaken
  BY DEF Init
<1>3. Timely
  <2>1. \A s \in Schedulers : tick[s].now <= clock /\ tick[s].now % Minute = 0
    BY <1>0 DEF Init, Idle, Minute
  <2>2. NoMark <= 0
    BY DEF NoMark, Minute
  <2> QED BY <1>0, <1>2, <2>1, <2>2 DEF Init, Timely
<1>4. Marked
  BY <1>0, <1>2 DEF Marked, MarkedOf, Overtaken, IndexesOf
<1>5. OccurrenceOnce /\ RunsStand
  BY <1>0 DEF OccurrenceOnce, RunsStand
<1>6. EnabledLive
  BY DEF Init, EnabledLive, ReferencesLive
<1>7. OccurrenceCovered
  <2>1. ASSUME NEW t \in Tasks PROVE CoveredOf(t)
    <3>1. ASSUME NEW o \in Between(active[t], since[t].at, watermark[t]) PROVE FALSE
      <4>1. active[t] \in Versions
        BY <1>1 DEF TypeOK
      <4>2. o \in Instants /\ o <= NoMark
        BY <1>2, <3>1, <4>1, SchedulerAssumption DEF Between
      <4> QED BY <1>0, <4>2 DEF Instants, NoMark, Minute
    <3> QED BY <3>1 DEF CoveredOf
  <2> QED BY <2>1, CoveredByTask
<1> QED BY <1>1, <1>3, <1>4, <1>5, <1>6, <1>7 DEF Inductive

\* Every step keeps Inductive.
LEMMA InductiveStep ==
    ASSUME Inductive, [Next]_vars
    PROVE  Inductive'
<1>1. CASE Next
  BY <1>1, TypesStep, TimelyStep, MarkedStep, OnceStep, StandsStep, EnabledStep, CoveredStep
     DEF Inductive
<1>2. CASE UNCHANGED vars
  <2>0. UNCHANGED <<base, tick, edit>> /\ TypeOK'
    BY <1>2, TypesStep DEF vars, taskVars, base, Inductive
  <2>1. Timely'
    BY <2>0 DEF base, Inductive, Timely
  <2>2. Marked'
    BY <2>0 DEF base, Inductive, Marked, MarkedOf, Overtaken, IndexesOf
  <2>3. OccurrenceOnce' /\ RunsStand' /\ EnabledLive'
    BY <2>0 DEF base, Inductive, OccurrenceOnce, RunsStand, NoReplay, StaysActive, EnabledLive,
       ReferencesLive
  <2>4. OccurrenceCovered'
    <3>1. \A t \in Tasks : CoveredOf(t)' <=> CoveredOf(t)
      BY <2>0 DEF base, CoveredOf, CoveredAt, WaitedFor, Queued, ScheduledAt, IndexesOf
    <3> QED BY <3>1, CoveredByTask DEF Inductive
  <2> QED BY <2>0, <2>1, <2>2, <2>3, <2>4 DEF Inductive
<1> QED BY <1>1, <1>2

\* Whatever ticks overlap, are killed or read an old version, and whatever edits and
\* task operations run between a tick's reads and its transactions (_tick_task,
\* publish_production_update, activate_version, delete_task, restore_task), the tables
\* stay in the states described above.
THEOREM InductiveSchedule == Spec => []Inductive
<1>1. Init => Inductive
  BY InductiveInit
<1>2. Inductive /\ [Next]_vars => Inductive'
  BY InductiveStep
<1> QED BY <1>1, <1>2, PTL DEF Spec

\* The unique index idx_schedule_occurrence never has to refuse an insert: no two runs
\* of a task are scheduled for the same occurrence, although the check in _tick_task
\* looks at the watermark's interval and an edit moves the watermark back.
THEOREM OccurrencesRunOnce == Spec => []OccurrenceOnce
<1>1. Inductive => OccurrenceOnce
  BY DEF Inductive
<1> QED BY <1>1, InductiveSchedule, PTL

\* What _tick_task enqueues is not replayed under rules that were published after it was
\* due, waits for the version it was made from, and only an enabled task whose references
\* exist has a schedule.
THEOREM SchedulesStand == Spec => []ScheduleStands
<1>1. Inductive => ScheduleStands
  BY DEF Inductive, ScheduleStands, RunsStand, EnabledLive
<1> QED BY <1>1, InductiveSchedule, PTL

\* The watermark that _tick_task writes never passes an occurrence that no run covers:
\* the misfire policies lose nothing to coalescing, to killed or overlapping ticks, or to
\* edits, but what an edit that a tick overtook gives up under catch_up.
THEOREM OccurrencesAreCovered == Spec => []OccurrenceCovered
<1>1. Inductive => OccurrenceCovered
  BY DEF Inductive
<1> QED BY <1>1, InductiveSchedule, PTL
-----------------------------------------------------------------------------
(* Cron: the arithmetic of moments.                                        *)

\* A number is its quotient and its remainder.
LEMMA Division ==
    ASSUME NEW n \in Nat \ {0}, NEW i \in Nat
    PROVE  /\ i \div n \in Nat /\ i % n \in 0..(n - 1) /\ i = (i \div n) * n + (i % n)
  OBVIOUS

\* Quotient and remainder are what a number is made of.
LEMMA Quotient ==
    ASSUME NEW n \in Nat \ {0}, NEW q \in Nat, NEW r \in 0..(n - 1)
    PROVE  (q * n + r) \div n = q /\ (q * n + r) % n = r
  OBVIOUS

\* The parts of a moment: its day and what is past midnight.
LEMMA Lengths ==
    /\ MaxMinute + 1 \in Nat \ {0} /\ MaxHour + 1 \in Nat \ {0} /\ LastDay \in Nat
    /\ HalfMinutes \in Nat \ {0} /\ HalfMinutes = (MaxHour + 1) * (2 * (MaxMinute + 1))
<1>1. MaxMinute \in Nat /\ MaxHour \in Nat /\ LastDay \in Nat
  BY CronAssumption
<1>2. PICK m \in Nat \ {0}, h \in Nat \ {0} : m = MaxMinute + 1 /\ h = MaxHour + 1
  BY <1>1
<1>3. 2 * m * h \in Nat \ {0} /\ 2 * m * h = h * (2 * m)
  OBVIOUS
<1> QED BY <1>1, <1>2, <1>3 DEF HalfMinutes

\* The two fields place a minute within its day.
LEMMA WithinDay ==
    ASSUME NEW h \in 0..MaxHour, NEW m \in 0..MaxMinute
    PROVE  2 * (h * (MaxMinute + 1) + m) \in 0..(HalfMinutes - 1)
<1>1. PICK n \in Nat \ {0}, k \in Nat \ {0} : n = MaxMinute + 1 /\ k = MaxHour + 1
  BY Lengths
<1>2. h \in Nat /\ h <= k - 1 /\ m \in Nat /\ m <= n - 1
  BY <1>1, CronAssumption
<1>3. h * n <= (k - 1) * n
  BY <1>2
<1>4. (k - 1) * n = k * n - n /\ HalfMinutes = 2 * (k * n)
  BY <1>1, Lengths
<1> QED BY <1>1, <1>2, <1>3, <1>4

\* A candidate lies on the day it is made for.
LEMMA DayOfAt ==
    ASSUME NEW d \in Nat, NEW h \in 0..MaxHour, NEW m \in 0..MaxMinute
    PROVE  /\ At(d, h, m) \in Nat /\ DayOf(At(d, h, m)) = d
           /\ At(d, h, m) % HalfMinutes = 2 * (h * (MaxMinute + 1) + m)
<1>1. PICK r \in 0..(HalfMinutes - 1) : r = 2 * (h * (MaxMinute + 1) + m)
  BY WithinDay
<1>2. PICK n \in Nat \ {0} : n = HalfMinutes
  BY Lengths
<1>3. PICK i \in Nat : i = d * n + r /\ i = At(d, h, m)
  BY <1>1, <1>2 DEF At
<1>4. i \div n = d /\ i % n = r
  BY <1>2, <1>3, <1>1, Quotient
<1> QED BY <1>1, <1>2, <1>3, <1>4 DEF DayOf

\* A candidate has the hour and the minute it is made for, and is a whole minute.
LEMMA HourOfAt ==
    ASSUME NEW d \in Nat, NEW h \in 0..MaxHour, NEW m \in 0..MaxMinute
    PROVE  HourOf(At(d, h, m)) = h /\ MinuteOf(At(d, h, m)) = m /\ At(d, h, m) % 2 = 0
<1>1. PICK n \in Nat \ {0} : n = MaxMinute + 1
  BY Lengths
<1>2. h \in Nat /\ m \in 0..(n - 1)
  BY <1>1, CronAssumption
<1>3. PICK r \in Nat : r = h * n + m
  BY <1>2
<1>4. At(d, h, m) % HalfMinutes = 2 * r
  BY <1>1, <1>3, DayOfAt
<1>5. 2 * r = h * (2 * n) + 2 * m /\ 2 * m \in 0..(2 * n - 1) /\ 2 * n \in Nat \ {0}
  BY <1>2, <1>3
<1>6. (2 * r) \div (2 * n) = h
  <2>0. PICK n2 \in Nat \ {0} : n2 = 2 * n
    BY <1>5
  <2>1. PICK m2 \in 0..(n2 - 1) : m2 = 2 * m
    BY <1>5, <2>0
  <2>2. (h * n2 + m2) \div n2 = h
    BY <1>2, Quotient
  <2> QED BY <1>5, <2>0, <2>1, <2>2
<1>7. (2 * r) \div 2 = r /\ r % n = m
  <2>1. (h * n + m) % n = m
    BY <1>2, Quotient
  <2> QED BY <1>3, <2>1
<1>8. At(d, h, m) % 2 = 0
  <2>1. PICK k \in Nat : k = HalfMinutes /\ k % 2 = 0
    <3>1. PICK j \in Nat : j = n * (MaxHour + 1)
      BY Lengths
    <3> QED BY <1>1, <3>1, Lengths DEF HalfMinutes
  <2>2. PICK k2 \in Nat : k = 2 * k2
    BY <2>1
  <2>3. At(d, h, m) = d * (2 * k2) + 2 * r
    BY <1>1, <1>3, <2>1, <2>2 DEF At
  <2>4. d * (2 * k2) + 2 * r = 2 * (d * k2 + r)
    BY <1>3
  <2>5. PICK x \in Nat : x = d * k2 + r
    OBVIOUS
  <2> QED BY <2>3, <2>4, <2>5
<1> QED BY <1>1, <1>4, <1>6, <1>7, <1>8 DEF HourOf, MinuteOf

\* A whole minute is the place its fields say.
LEMMA PartsOfMinute ==
    ASSUME NEW i \in Minutes
    PROVE  /\ HourOf(i) \in 0..MaxHour /\ MinuteOf(i) \in 0..MaxMinute /\ DayOf(i) \in Days
           /\ i = At(DayOf(i), HourOf(i), MinuteOf(i))
<1>1. PICK n \in Nat \ {0}, k \in Nat \ {0}, w \in Nat \ {0} :
            n = MaxMinute + 1 /\ k = MaxHour + 1 /\ w = HalfMinutes /\ w = k * (2 * n)
  BY Lengths
<1>2. i \in Nat /\ i % 2 = 0 /\ i <= w * (LastDay + 1) - 1
  BY <1>1, Lengths DEF Minutes, Moments
<1>2a. i \in Nat
  BY <1>2
<1>3. PICK d \in Nat, r \in 0..(w - 1) : d = i \div w /\ r = i % w /\ i = d * w + r
  BY <1>2a, Division
<1>3a. r \in Nat
  OBVIOUS
<1>4. d <= LastDay
  <2>1. d * w < (LastDay + 1) * w
    BY <1>2, <1>3, Lengths
  <2>2. ASSUME d >= LastDay + 1 PROVE FALSE
    <3>1. d * w >= (LastDay + 1) * w
      BY <2>2, Lengths
    <3> QED BY <2>1, <3>1, Lengths
  <2> QED BY <2>2, Lengths
<1>5. PICK m2 \in Nat \ {0} : m2 = 2 * n
  OBVIOUS
<1>6. PICK h \in Nat, r2 \in 0..(m2 - 1) : h = r \div m2 /\ r2 = r % m2 /\ r = h * m2 + r2
  <2>1. /\ r \div m2 \in Nat /\ r % m2 \in 0..(m2 - 1)
        /\ r = (r \div m2) * m2 + (r % m2)
    BY <1>3a, Division
  <2> QED BY <2>1
<1>7. h < k
  <2>1. h * m2 < k * m2
    BY <1>1, <1>3, <1>5, <1>6
  <2>2. ASSUME h >= k PROVE FALSE
    <3>1. h * m2 >= k * m2
      BY <2>2
    <3> QED BY <2>1, <3>1
  <2> QED BY <2>2
<1>8. PICK m \in 0..(n - 1) : r2 = 2 * m
  <2>1. i = 2 * (d * k * n + h * n) + r2
    <3>1. d * w = 2 * (d * k * n)
      BY <1>1
    <3>2. h * m2 = 2 * (h * n)
      BY <1>5
    <3>3. PICK x \in Nat, y \in Nat : x = d * k * n /\ y = h * n
      OBVIOUS
    <3> QED BY <1>3, <1>6, <3>1, <3>2, <3>3
  <2>2. PICK x \in Nat : x = d * k * n + h * n
    OBVIOUS
  <2>3. r2 % 2 = 0
    BY <1>2, <2>1, <2>2
  <2> QED BY <1>5, <1>6, <2>3
<1>9. r = 2 * (h * n + m)
  <2>1. h * m2 = 2 * (h * n)
    BY <1>5
  <2> QED BY <1>6, <1>8, <2>1
<1>10. (r \div 2) % n = m
  <2>1. PICK s \in Nat : s = h * n + m
    OBVIOUS
  <2>2. r \div 2 = s
    BY <1>9, <2>1
  <2> QED BY <2>1, <2>2, Quotient
<1>11. HourOf(i) = h /\ MinuteOf(i) = m /\ DayOf(i) = d
  BY <1>1, <1>3, <1>5, <1>6, <1>10 DEF HourOf, MinuteOf, DayOf
<1>12. i = At(d, h, m)
  <2>1. HalfMinutes = w /\ MaxMinute + 1 = n
    BY <1>1
  <2>2. At(d, h, m) = d * w + 2 * (h * n + m)
    BY <2>1 DEF At
  <2> QED BY <1>3, <1>9, <2>2
<1>13. h \in 0..MaxHour /\ m \in 0..MaxMinute /\ d \in Days
  <2>1. /\ MaxMinute + 1 = n /\ MaxHour + 1 = k
        /\ MaxMinute \in Nat /\ MaxHour \in Nat /\ LastDay \in Nat
    BY <1>1, CronAssumption
  <2>2. h \in 0..MaxHour /\ m \in 0..MaxMinute
    BY <1>7, <2>1
  <2> QED BY <1>4, <2>1, <2>2 DEF Days
<1> QED BY <1>11, <1>12, <1>13

\* Days follow moments, and a moment has a day.
LEMMA DayOfMonotone ==
    ASSUME NEW i \in Moments, NEW j \in Moments, i <= j
    PROVE  DayOf(i) \in Days /\ DayOf(j) \in Days /\ DayOf(i) <= DayOf(j)
<1>1. PICK n \in Nat \ {0} : n = HalfMinutes
  BY Lengths
<1>2. i \in Nat /\ j \in Nat /\ j <= n * (LastDay + 1) - 1 /\ LastDay \in Nat
  BY <1>1, Lengths DEF Moments
<1>3. i \div n \in Nat /\ j \div n \in Nat /\ i \div n <= j \div n
  BY <1>1, <1>2
<1>4. j \div n <= LastDay
  <2>1. PICK q \in Nat, r \in 0..(n - 1) : q = j \div n /\ j = q * n + r
    BY <1>2, Division
  <2>2. q * n < (LastDay + 1) * n
    BY <1>2, <2>1
  <2>3. ASSUME q >= LastDay + 1 PROVE FALSE
    <3>1. q * n >= (LastDay + 1) * n
      BY <1>2, <2>3
    <3> QED BY <1>2, <2>2, <3>1
  <2> QED BY <1>2, <2>1, <2>3
<1> QED BY <1>1, <1>2, <1>3, <1>4 DEF DayOf, Days

-----------------------------------------------------------------------------
(* Cron: what a field allows is what it names.                             *)

\* An element of a field has the values it names, and they are in the field's
\* range.
LEMMA ItemNames ==
    ASSUME NEW f \in FieldNames, NEW item \in Elements, ValidItem(f, item), NEW v \in Nat
    PROVE  /\ v \in ItemValues(f, item) <=>
                \E n \in 0..v : v = Lo(f, item) + n * item.step /\ v <= Hi(f, item)
           /\ v \in ItemValues(f, item) => Lowest(f) <= v /\ v <= Highest(f)
<1>1. PICK step \in Nat \ {0}, lo \in Nat, hi \in Nat :
            /\ step = item.step /\ lo = Lo(f, item) /\ hi = Hi(f, item)
            /\ Lowest(f) <= lo /\ lo <= hi /\ hi <= Highest(f)
  <2>1. Lowest(f) \in Nat /\ Highest(f) \in Nat
    BY CronAssumption DEF FieldNames, Lowest, Highest
  <2>2. item.step \in Nat /\ item.lo \in Nat /\ item.hi \in Nat
        /\ item.span \in {"star", "range", "single", "from"}
    BY DEF Elements
  <2>3. Lo(f, item) \in Nat /\ Hi(f, item) \in Nat
    BY <2>1, <2>2 DEF Lo, Hi
  <2> QED BY <2>1, <2>2, <2>3 DEF ValidItem
<1>2. v \in ItemValues(f, item) <=> v \in lo..hi /\ (v - lo) % step = 0
  BY <1>1 DEF ItemValues
<1>3. v \in ItemValues(f, item) => Lowest(f) <= v /\ v <= Highest(f)
  <2>1. Lowest(f) \in Nat /\ Highest(f) \in Nat
    BY CronAssumption DEF FieldNames, Lowest, Highest
  <2> QED BY <1>1, <1>2, <2>1
<1>4. ASSUME v \in lo..hi, (v - lo) % step = 0
      PROVE  \E n \in 0..v : v = lo + n * step /\ v <= hi
  <2>1. PICK x \in Nat : x = v - lo
    BY <1>4
  <2>2. PICK n \in Nat : x = n * step
    <3>1. x \div step \in Nat /\ x = (x \div step) * step + (x % step) /\ x % step = 0
      BY <1>4, <2>1, Division
    <3>2. PICK q \in Nat : q = x \div step
      BY <3>1
    <3> QED BY <3>1, <3>2
  <2>3. n <= x
    BY <2>2
  <2>4. n \in 0..v /\ v <= hi /\ v = lo + x
    BY <1>4, <2>1, <2>3
  <2> QED BY <2>2, <2>4
<1>5. ASSUME NEW n \in 0..v, v = lo + n * step, v <= hi
      PROVE  v \in lo..hi /\ (v - lo) % step = 0
  <2>1. n * step \in Nat
    OBVIOUS
  <2>2. (n * step + 0) % step = 0
    BY Quotient
  <2> QED BY <1>5, <2>1, <2>2
<1> QED BY <1>1, <1>2, <1>3, <1>4, <1>5

\* An expression that was accepted: the fields and their elements.
LEMMA ExprIs ==
    ASSUME expr \in Expressions, NEW f \in FieldNames
    PROVE  expr[f] \in Seq(Elements) /\ \A i \in DOMAIN expr[f] : expr[f][i] \in Elements
<1>1. expr[f] \in Seq(Elements)
  BY CronAssumption
<1> QED BY <1>1

Plain(f) == UNION {ItemValues(f, expr[f][i]) : i \in DOMAIN expr[f]}

\* So has a whole field, before 0 and 7 are made one.
LEMMA PlainNames ==
    ASSUME expr \in Expressions, Valid, NEW f \in FieldNames, NEW v \in Nat
    PROVE  /\ v \in Plain(f) <=> Names(f, v)
           /\ v \in Plain(f) => Lowest(f) <= v /\ v <= Highest(f)
<1>1. \A i \in DOMAIN expr[f] : expr[f][i] \in Elements /\ ValidItem(f, expr[f][i])
  BY ExprIs DEF Valid
<1>2. v \in Plain(f) <=> \E i \in DOMAIN expr[f] : v \in ItemValues(f, expr[f][i])
  BY DEF Plain
<1>3. \A i \in DOMAIN expr[f] :
        /\ v \in ItemValues(f, expr[f][i]) <=>
            \E n \in 0..v : v = Lo(f, expr[f][i]) + n * expr[f][i].step /\ v <= Hi(f, expr[f][i])
        /\ v \in ItemValues(f, expr[f][i]) => Lowest(f) <= v /\ v <= Highest(f)
  <2> TAKE i \in DOMAIN expr[f]
  <2>1. PICK item \in Elements : item = expr[f][i] /\ ValidItem(f, item)
    BY <1>1
  <2> QED BY <2>1, ItemNames
<1>4. Names(f, v) <=> \E i \in DOMAIN expr[f] : \E n \in 0..v :
        v = Lo(f, expr[f][i]) + n * expr[f][i].step /\ v <= Hi(f, expr[f][i])
  BY DEF Names
<1> QED BY <1>2, <1>3, <1>4

\* The values of a field are numbers.
LEMMA PlainNatural ==
    ASSUME expr \in Expressions, NEW f \in FieldNames
    PROVE  Plain(f) \subseteq Int
<1>1. \A i \in DOMAIN expr[f] : ItemValues(f, expr[f][i]) \subseteq Int
  BY DEF ItemValues
<1> QED BY <1>1 DEF Plain

\* What a field allows is what it names; a field of weekdays allows 0 with 7.
LEMMA AllowedNames ==
    ASSUME expr \in Expressions, Valid, NEW f \in FieldNames, NEW v \in Nat
    PROVE  /\ f # "dow" => (v \in Allowed(f) <=> Names(f, v))
           /\ f = "dow" => (v \in Allowed(f) <=> \/ Names(f, v)
                                                 \/ v \in {0, 7} /\ (Names(f, 0) \/ Names(f, 7)))
<1>1. Allowed(f) = Plain(f) \cup IF f = "dow" /\ Plain(f) \cap {0, 7} # {} THEN {0, 7} ELSE {}
  BY DEF Allowed, Plain
<1>2. v \in Plain(f) <=> Names(f, v)
  BY PlainNames
<1>3. (0 \in Plain(f) <=> Names(f, 0)) /\ (7 \in Plain(f) <=> Names(f, 7))
  BY PlainNames
<1>4. Plain(f) \cap {0, 7} # {} <=> Names(f, 0) \/ Names(f, 7)
  BY <1>3
<1> QED BY <1>1, <1>2, <1>4

\* Hours and minutes that are allowed are hours and minutes of a day.
LEMMA HoursAndMinutes ==
    ASSUME expr \in Expressions, Valid
    PROVE  Allowed("hour") \subseteq 0..MaxHour /\ Allowed("minute") \subseteq 0..MaxMinute
<1>1. \A f \in {"hour", "minute"} : f \in FieldNames /\ f # "dow" /\ Lowest(f) = 0
  BY DEF FieldNames, Lowest
<1>2. Highest("hour") = MaxHour /\ Highest("minute") = MaxMinute /\ MaxHour \in Nat /\ MaxMinute \in Nat
  BY CronAssumption DEF Highest
<1>3. ASSUME NEW f \in {"hour", "minute"}, NEW v \in Allowed(f) PROVE v \in 0..Highest(f)
  <2>1. PICK i \in DOMAIN expr[f] : v \in ItemValues(f, expr[f][i])
    BY <1>1, <1>3 DEF Allowed
  <2>2. PICK item \in Elements : item = expr[f][i] /\ ValidItem(f, item)
    BY <1>1, ExprIs DEF Valid
  <2>3. v \in Lo(f, item)..Hi(f, item) /\ Lowest(f) <= Lo(f, item) /\ Hi(f, item) <= Highest(f)
    BY <2>1, <2>2 DEF ItemValues, ValidItem
  <2>4. Lo(f, item) \in Nat /\ Hi(f, item) \in Nat /\ Highest(f) \in Nat
    BY <1>1, <1>2, <2>2 DEF Elements, Lo, Hi
  <2> QED BY <1>1, <2>3, <2>4
<1> QED BY <1>2, <1>3

\* A day matches when it is meant.
LEMMA MatchesMeant ==
    ASSUME expr \in Expressions, Valid, NEW d \in Days
    PROVE  DayMatches(d) <=> Meant(d)
<1>1. /\ Dom[d] \in Nat /\ Month[d] \in Nat /\ Weekday[d] \in 0..6
  BY CronAssumption
<1>2. {"dom", "month", "dow"} \subseteq FieldNames
  BY DEF FieldNames
<1>3. (Dom[d] \in Allowed("dom") <=> Names("dom", Dom[d]))
      /\ (Month[d] \in Allowed("month") <=> Names("month", Month[d]))
  BY <1>1, <1>2, AllowedNames
<1>4. Weekday[d] \in Allowed("dow") <=> \/ Names("dow", Weekday[d])
                                        \/ Weekday[d] \in {0, 7} /\ (Names("dow", 0) \/ Names("dow", 7))
  BY <1>1, <1>2, AllowedNames
<1>5. Weekday[d] \in Allowed("dow") <=> Names("dow", Weekday[d]) \/ (Weekday[d] = 0 /\ Names("dow", 7))
  BY <1>1, <1>4
<1> QED BY <1>3, <1>5 DEF DayMatches, Meant

-----------------------------------------------------------------------------
(* Cron: the search.                                                       *)

\* What is after a day that the search is at was looked at: there is nothing.
NotPassed == \A i \in Occurrences : IF latest THEN DayOf(i) <= day ELSE day <= DayOf(i)

\* The search leaves the range only at its far end.
FromNearEnd == IF latest THEN day <= DayOf(end) ELSE DayOf(start) <= day

CronInv ==
    /\ FromNearEnd
    /\ expr \in Expressions /\ start \in Moments /\ end \in Moments /\ latest \in BOOLEAN
    /\ day \in Int /\ pc \in {"parse", "search", "found", "none", "rejected"}
    /\ pc \notin {"parse", "rejected"} => Valid
    /\ pc = "parse" => day = FirstDay
    /\ pc = "search" => NotPassed
    /\ FindsTheExtreme

\* An occurrence is a minute of the window, on one of its days.
LEMMA OccurrenceIs ==
    ASSUME CronInv, NEW i \in Occurrences
    PROVE  /\ i \in Minutes /\ i \in Moments /\ InWindow(i)
           /\ DayOf(i) \in Days /\ InRange(DayOf(i))
<1>1. i \in Minutes /\ i \in Moments /\ start < i /\ i <= end
  BY DEF Occurrences, Minutes
<1>2. /\ start \in Moments /\ end \in Moments /\ start \in Int /\ end \in Int /\ i \in Int
  BY <1>1, Lengths DEF CronInv, Moments
<1>3. DayOf(start) <= DayOf(i) /\ DayOf(i) <= DayOf(end) /\ DayOf(i) \in Days
  BY <1>1, <1>2, DayOfMonotone
<1> QED BY <1>1, <1>3 DEF InWindow, InRange

\* The candidates of a day that is meant are its occurrences.
Hits(d) == {c \in Allowed("hour") \X Allowed("minute") : InWindow(At(d, c[1], c[2]))}

\* An occurrence is a candidate of its day, which matches.
LEMMA OccurrenceIsHit ==
    ASSUME CronInv, Valid, NEW i \in Occurrences
    PROVE  /\ DayMatches(DayOf(i)) /\ <<HourOf(i), MinuteOf(i)>> \in Hits(DayOf(i))
           /\ i = At(DayOf(i), HourOf(i), MinuteOf(i))
<1>1. /\ i \in Minutes /\ InWindow(i) /\ Meant(DayOf(i)) /\ DayOf(i) \in Days
      /\ Names("hour", HourOf(i)) /\ Names("minute", MinuteOf(i)) /\ expr \in Expressions
  BY OccurrenceIs DEF Occurrences, CronInv
<1>2. PICK d \in Days, h \in 0..MaxHour, m \in 0..MaxMinute :
            d = DayOf(i) /\ h = HourOf(i) /\ m = MinuteOf(i) /\ i = At(d, h, m)
  BY <1>1, PartsOfMinute
<1>3. DayMatches(d)
  BY <1>1, <1>2, MatchesMeant
<1>4. h \in Nat /\ m \in Nat /\ "hour" \in FieldNames /\ "minute" \in FieldNames
  BY CronAssumption DEF FieldNames
<1>5. h \in Allowed("hour") /\ m \in Allowed("minute")
  BY <1>1, <1>2, <1>4, AllowedNames
<1>6. <<h, m>> \in Hits(d)
  BY <1>1, <1>2, <1>5 DEF Hits
<1> QED BY <1>2, <1>3, <1>6

\* A candidate inside the window, of a day that matches, is an occurrence.
LEMMA HitIsOccurrence ==
    ASSUME CronInv, Valid, NEW d \in Days, DayMatches(d), NEW c \in Hits(d)
    PROVE  /\ At(d, c[1], c[2]) \in Occurrences /\ DayOf(At(d, c[1], c[2])) = d
           /\ c[1] \in 0..MaxHour /\ c[2] \in 0..MaxMinute /\ c = <<c[1], c[2]>>
<1>1. PICK h \in Allowed("hour"), m \in Allowed("minute") : c = <<h, m>> /\ InWindow(At(d, h, m))
  BY DEF Hits
<1>2. h \in 0..MaxHour /\ m \in 0..MaxMinute /\ expr \in Expressions
  BY HoursAndMinutes DEF CronInv
<1>3. d \in Nat /\ h \in Nat /\ m \in Nat
  BY <1>2, CronAssumption DEF Days
<1>4. PICK i \in Nat : i = At(d, h, m) /\ DayOf(i) = d /\ HourOf(i) = h /\ MinuteOf(i) = m /\ i % 2 = 0
  BY <1>2, <1>3, DayOfAt, HourOfAt
<1>5. start < i /\ i <= end
  BY <1>1, <1>4 DEF InWindow
<1>6. i \in Minutes
  BY <1>4, <1>5, Lengths DEF CronInv, Minutes, Moments
<1>7. Meant(d)
  BY <1>2, MatchesMeant
<1>8. Names("hour", h) /\ Names("minute", m)
  <2>1. "hour" \in FieldNames /\ "minute" \in FieldNames
    BY DEF FieldNames
  <2> QED BY <1>1, <1>2, <1>3, <2>1, AllowedNames
<1>9. i \in Occurrences
  BY <1>4, <1>5, <1>6, <1>7, <1>8 DEF Occurrences
<1> QED BY <1>1, <1>2, <1>4, <1>9

\* The loops visit the moments of a day in their order.
LEMMA VisitsInOrder ==
    ASSUME NEW d \in Nat, latest \in BOOLEAN, NEW h \in 0..MaxHour, NEW m \in 0..MaxMinute,
           NEW g \in 0..MaxHour, NEW k \in 0..MaxMinute
    PROVE  ~Precedes(<<g, k>>, <<h, m>>) <=>
                IF latest THEN At(d, g, k) <= At(d, h, m) ELSE At(d, h, m) <= At(d, g, k)
<1>1. PICK n \in Nat \ {0}, w \in Nat : n = MaxMinute + 1 /\ w = d * HalfMinutes
  <2>1. HalfMinutes \in Nat
    BY Lengths
  <2> QED BY <2>1, Lengths
<1>2. h \in Nat /\ g \in Nat /\ m \in 0..(n - 1) /\ k \in 0..(n - 1)
  BY <1>1, CronAssumption
<1>3. PICK x \in Nat, y \in Nat : x = h * n /\ y = g * n
  BY <1>2
<1>4. At(d, h, m) = w + 2 * (x + m) /\ At(d, g, k) = w + 2 * (y + k)
  BY <1>1, <1>3 DEF At
<1>5. g > h => y >= x + n
  <2> SUFFICES ASSUME g > h PROVE y >= x + n
    OBVIOUS
  <2>1. g * n >= (h + 1) * n
    BY <1>2
  <2>2. (h + 1) * n = h * n + n
    BY <1>2
  <2> QED BY <1>3, <2>1, <2>2
<1>6. h > g => x >= y + n
  <2> SUFFICES ASSUME h > g PROVE x >= y + n
    OBVIOUS
  <2>1. h * n >= (g + 1) * n
    BY <1>2
  <2>2. (g + 1) * n = g * n + n
    BY <1>2
  <2> QED BY <1>3, <2>1, <2>2
<1>7. g = h => x = y
  BY <1>3
<1>8. Precedes(<<g, k>>, <<h, m>>) <=>
            IF latest THEN g > h \/ (g = h /\ k > m) ELSE g < h \/ (g = h /\ k < m)
  BY DEF Precedes, Sooner
<1> QED BY <1>2, <1>4, <1>5, <1>6, <1>7, <1>8

\* A day with a hit has a first.
LEMMA FirstExists ==
    ASSUME CronInv, Valid, NEW d \in Days, DayMatches(d), Hits(d) # {}
    PROVE  FirstOfDay(d) # {}
<1>0. d \in Nat /\ LastDay \in Nat
  BY CronAssumption DEF Days
<1> DEFINE Place(c) == At(d, c[1], c[2])
<1>1. \A c \in Hits(d) : /\ Place(c) \in Nat /\ Place(c) <= end
                         /\ c[1] \in 0..MaxHour /\ c[2] \in 0..MaxMinute /\ c = <<c[1], c[2]>>
  BY <1>0, HitIsOccurrence, DayOfAt DEF Hits, InWindow
<1>2. end \in Nat /\ latest \in BOOLEAN
  BY Lengths DEF CronInv, Moments
<1>3. PICK f \in Hits(d) : \A o \in Hits(d) :
            IF latest THEN Place(o) <= Place(f) ELSE Place(f) <= Place(o)
  <2>1. CASE latest
    <3> DEFINE S == {end - Place(c) : c \in Hits(d)}
    <3>1. S \subseteq Nat /\ S # {}
      BY <1>1, <1>2
    <3>2. PICK x \in S : \A y \in S : x <= y
      <4> HIDE DEF S
      <4> QED BY <3>1, LeastNatural
    <3>3. PICK f \in Hits(d) : x = end - Place(f)
      BY <3>2
    <3>4. ASSUME NEW o \in Hits(d) PROVE Place(o) <= Place(f)
      <4>1. x <= end - Place(o)
        BY <3>2
      <4>2. Place(o) \in Nat /\ Place(f) \in Nat
        BY <1>1
      <4> HIDE DEF Place
      <4> QED BY <1>2, <3>3, <4>1, <4>2
    <3> QED BY <2>1, <3>4
  <2>2. CASE ~latest
    <3> DEFINE S == {Place(c) : c \in Hits(d)}
    <3>1. S \subseteq Nat /\ S # {}
      BY <1>1
    <3>2. PICK x \in S : \A y \in S : x <= y
      <4> HIDE DEF S
      <4> QED BY <3>1, LeastNatural
    <3>3. PICK f \in Hits(d) : x = Place(f)
      BY <3>2
    <3>4. \A o \in Hits(d) : Place(f) <= Place(o)
      BY <3>2, <3>3
    <3> QED BY <2>2, <3>4
  <2> QED BY <1>2, <2>1, <2>2
<1>4. ASSUME NEW o \in Hits(d) PROVE ~Precedes(o, f)
  <2>1. PICK h \in 0..MaxHour, m \in 0..MaxMinute : f = <<h, m>>
    BY <1>1
  <2>2. PICK g \in 0..MaxHour, k \in 0..MaxMinute : o = <<g, k>>
    BY <1>1
  <2>3. IF latest THEN At(d, g, k) <= At(d, h, m) ELSE At(d, h, m) <= At(d, g, k)
    BY <1>3, <2>1, <2>2
  <2> QED BY <1>0, <1>2, <2>1, <2>2, <2>3, VisitsInOrder
<1>5. Place(f) \in FirstOfDay(d)
  BY <1>4 DEF FirstOfDay, Hits
<1> QED BY <1>5

\* What a day is first in is the extreme of its occurrences.
LEMMA FirstIsExtreme ==
    ASSUME CronInv, Valid, NEW d \in Days, DayMatches(d), NEW i \in FirstOfDay(d)
    PROVE  /\ i \in Occurrences /\ DayOf(i) = d
           /\ \A j \in Occurrences : DayOf(j) = d => IF latest THEN j <= i ELSE j >= i
<1>1. PICK c \in Hits(d) : i = At(d, c[1], c[2]) /\ \A o \in Hits(d) : ~Precedes(o, c)
  BY DEF FirstOfDay, Hits
<1>2. PICK h \in 0..MaxHour, m \in 0..MaxMinute : c = <<h, m>> /\ i = At(d, h, m)
  BY <1>1, HitIsOccurrence
<1>3. i \in Occurrences /\ DayOf(i) = d
  BY <1>1, HitIsOccurrence
<1>4. ASSUME NEW j \in Occurrences, DayOf(j) = d PROVE IF latest THEN j <= i ELSE j >= i
  <2>1. <<HourOf(j), MinuteOf(j)>> \in Hits(d) /\ j = At(d, HourOf(j), MinuteOf(j))
    BY <1>4, OccurrenceIsHit
  <2>2. PICK g \in 0..MaxHour, k \in 0..MaxMinute : g = HourOf(j) /\ k = MinuteOf(j)
    BY OccurrenceIs, PartsOfMinute
  <2>3. ~Precedes(<<g, k>>, <<h, m>>)
    BY <1>1, <1>2, <2>1, <2>2
  <2>4. d \in Nat /\ latest \in BOOLEAN
    BY CronAssumption DEF Days, CronInv
  <2>5. IF latest THEN At(d, g, k) <= At(d, h, m) ELSE At(d, h, m) <= At(d, g, k)
    BY <2>3, <2>4, VisitsInOrder
  <2>6. At(d, h, m) \in Nat /\ At(d, g, k) \in Nat
    BY <2>4, DayOfAt
  <2> QED BY <1>2, <2>1, <2>2, <2>4, <2>5, <2>6
<1> QED BY <1>3, <1>4

\* Days apart are moments apart.
LEMMA LaterDay ==
    ASSUME NEW i \in Moments, NEW j \in Moments, DayOf(i) < DayOf(j)
    PROVE  i < j
<1>1. i \in Nat /\ j \in Nat
  BY Lengths DEF Moments
<1>2. ASSUME j <= i PROVE FALSE
  <2>1. DayOf(j) \in Days /\ DayOf(i) \in Days /\ DayOf(j) <= DayOf(i)
    BY <1>2, DayOfMonotone
  <2>2. DayOf(j) \in Int /\ DayOf(i) \in Int
    BY <2>1 DEF Days
  <2> QED BY <2>1, <2>2
<1> QED BY <1>1, <1>2

\* The ends of the window have days, and those between them are days.
LEMMA RangeIsDays ==
    ASSUME CronInv
    PROVE  /\ DayOf(start) \in Days /\ DayOf(end) \in Days /\ LastDay \in Nat
           /\ \A d \in Int : InRange(d) => d \in Days
<1>1. start \in Moments /\ end \in Moments /\ LastDay \in Nat
  BY Lengths DEF CronInv
<1>2. start \in Nat /\ end \in Nat
  BY <1>1, Lengths DEF Moments
<1>3. DayOf(start) \in Days /\ DayOf(end) \in Days
  BY <1>1, <1>2, DayOfMonotone
<1> QED BY <1>1, <1>3 DEF InRange, Days

\* The search starts at the near end of the window.
LEMMA CronInvInit == CronInit => CronInv
<1> SUFFICES ASSUME CronInit PROVE CronInv
  OBVIOUS
<1>1. start \in Moments /\ end \in Moments /\ latest \in BOOLEAN
  BY DEF CronInit
<1>2. start \in Nat /\ end \in Nat
  BY <1>1, Lengths DEF Moments
<1>3. DayOf(start) \in Int /\ DayOf(end) \in Int
  BY <1>1, <1>2, DayOfMonotone DEF Days
<1>4. day \in Int
  BY <1>1, <1>3 DEF CronInit, FirstDay
<1>5. FromNearEnd
  BY <1>1, <1>3 DEF CronInit, FirstDay, FromNearEnd
<1> QED BY <1>1, <1>4, <1>5 DEF CronInit, CronInv, FindsTheExtreme

\* Every step of the search keeps CronInv.
LEMMA CronInvStep == CronInv /\ [CronNext]_cronVars => CronInv'
<1> SUFFICES ASSUME CronInv, [CronNext]_cronVars PROVE CronInv'
  OBVIOUS
\* No step changes the arguments, nor what is defined by them.
<1>1. expr' = expr /\ start' = start /\ end' = end /\ latest' = latest
  BY DEF CronNext, cronVars, Parse, TakeOccurrence, NextDay, GiveUp
<1>2. (Valid <=> Valid') /\ Occurrences' = Occurrences /\ FirstDay' = FirstDay
  BY <1>1 DEF Valid, Occurrences, InWindow, Meant, Names, Starred, FirstDay
<1>3. /\ expr' \in Expressions /\ start' \in Moments /\ end' \in Moments /\ latest' \in BOOLEAN
      /\ latest \in BOOLEAN /\ day \in Int /\ pc \in {"parse", "search", "found", "none", "rejected"}
  BY <1>1 DEF CronInv
<1>9. day' = day => FromNearEnd'
  BY <1>1 DEF CronInv, FromNearEnd, DayOf
<1>4. CASE Parse
  <2>1. pc = "parse" /\ pc' = (IF Valid THEN "search" ELSE "rejected") /\ day' = day /\ result' = result
    BY <1>4 DEF Parse
  <2>2. NotPassed
    <3> SUFFICES ASSUME NEW i \in Occurrences
                 PROVE  IF latest THEN DayOf(i) <= day ELSE day <= DayOf(i)
      BY DEF NotPassed
    <3>1. InRange(DayOf(i)) /\ day = FirstDay
      BY <2>1, OccurrenceIs DEF CronInv
    <3> QED BY <1>3, <3>1 DEF InRange, FirstDay
  <2>3. NotPassed'
    BY <1>1, <1>2, <2>1, <2>2 DEF NotPassed, DayOf
  <2> QED BY <1>2, <1>3, <1>9, <2>1, <2>3 DEF CronInv, FindsTheExtreme
<1>5. CASE TakeOccurrence
  <2>1. /\ pc = "search" /\ InRange(day) /\ DayMatches(day) /\ result' \in FirstOfDay(day)
        /\ pc' = "found" /\ day' = day
    BY <1>5 DEF TakeOccurrence
  <2>2. Valid /\ NotPassed /\ day \in Days
    BY <1>3, <2>1, RangeIsDays DEF CronInv
  <2>3. PICK i \in FirstOfDay(day) : i = result'
    BY <2>1
  <2>4. /\ i \in Occurrences /\ DayOf(i) = day
        /\ \A j \in Occurrences : DayOf(j) = day => IF latest THEN j <= i ELSE j >= i
    BY <2>1, <2>2, <2>3, FirstIsExtreme
  <2>5. ASSUME NEW j \in Occurrences PROVE IF latest THEN j <= i ELSE j >= i
    <3>1. /\ i \in Moments /\ j \in Moments /\ DayOf(j) \in Int
          /\ i \in Int /\ j \in Int
      BY <2>4, OccurrenceIs, Lengths DEF Days, Moments
    <3>2. IF latest THEN DayOf(j) <= day ELSE day <= DayOf(j)
      BY <2>2 DEF NotPassed
    <3>3. CASE DayOf(j) = day
      BY <2>4, <3>3
    <3>4. CASE DayOf(j) # day
      <4>1. IF latest THEN DayOf(j) < DayOf(i) ELSE DayOf(i) < DayOf(j)
        BY <1>3, <2>4, <3>1, <3>2, <3>4
      <4>2. IF latest THEN j < i ELSE i < j
        BY <3>1, <4>1, LaterDay
      <4> QED BY <3>1, <4>2
    <3> QED BY <3>3, <3>4
  <2>6. FindsTheExtreme'
    BY <1>1, <1>2, <2>1, <2>3, <2>4, <2>5 DEF FindsTheExtreme
  <2> QED BY <1>2, <1>3, <1>9, <2>1, <2>2, <2>6 DEF CronInv
<1>6. CASE NextDay
  <2>1. /\ pc = "search" /\ InRange(day) /\ (DayMatches(day) => FirstOfDay(day) = {})
        /\ day' = day + (IF latest THEN -1 ELSE 1) /\ pc' = pc /\ result' = result
    BY <1>6 DEF NextDay
  <2>2. Valid /\ NotPassed /\ day \in Days
    BY <1>3, <2>1, RangeIsDays DEF CronInv
  <2>3. \A i \in Occurrences : DayOf(i) # day /\ DayOf(i) \in Int
    <3> SUFFICES ASSUME NEW i \in Occurrences PROVE DayOf(i) # day /\ DayOf(i) \in Int
      OBVIOUS
    <3>1. DayOf(i) \in Int
      BY OccurrenceIs DEF Days
    <3>2. ASSUME DayOf(i) = day PROVE FALSE
      <4>1. DayMatches(day) /\ Hits(day) # {}
        BY <2>2, <3>2, OccurrenceIsHit
      <4> QED BY <2>1, <2>2, <4>1, FirstExists
    <3> QED BY <3>1, <3>2
  <2>4. NotPassed'
    <3>1. \A i \in Occurrences : IF latest THEN DayOf(i) <= day' ELSE day' <= DayOf(i)
      BY <1>3, <2>1, <2>2, <2>3 DEF NotPassed
    <3> QED BY <1>1, <1>2, <3>1 DEF NotPassed, DayOf
  <2>5. day' \in Int
    BY <1>3, <2>1
  <2>6. FromNearEnd'
    <3>1. DayOf(start) \in Int /\ DayOf(end) \in Int /\ DayOf(start)' = DayOf(start) /\ DayOf(end)' = DayOf(end)
      BY <1>1, RangeIsDays DEF Days, DayOf
    <3>2. FromNearEnd
      BY DEF CronInv
    <3>3. IF latest THEN day' <= DayOf(end) ELSE DayOf(start) <= day'
      BY <1>3, <2>1, <3>1, <3>2 DEF FromNearEnd
    <3> QED BY <1>1, <3>1, <3>3 DEF FromNearEnd
  <2> QED BY <1>2, <1>3, <2>1, <2>2, <2>4, <2>5, <2>6 DEF CronInv, FindsTheExtreme
<1>7. CASE GiveUp
  <2>1. pc = "search" /\ ~InRange(day) /\ pc' = "none" /\ day' = day /\ result' = result
    BY <1>7 DEF GiveUp
  <2>2. Valid /\ NotPassed
    BY <2>1 DEF CronInv
  <2>3. ASSUME NEW i \in Occurrences PROVE FALSE
    <3>1. InRange(DayOf(i)) /\ DayOf(i) \in Int
      BY OccurrenceIs DEF Days
    <3>2. IF latest THEN DayOf(i) <= day ELSE day <= DayOf(i)
      BY <2>2 DEF NotPassed
    <3>3. DayOf(start) \in Int /\ DayOf(end) \in Int
      BY RangeIsDays DEF Days
    <3>4. FromNearEnd
      BY DEF CronInv
    <3> QED BY <1>3, <2>1, <3>1, <3>2, <3>3, <3>4 DEF InRange, FromNearEnd
  <2> QED BY <1>2, <1>3, <1>9, <2>1, <2>2, <2>3 DEF CronInv, FindsTheExtreme
<1>8. CASE UNCHANGED cronVars
  <2>1. pc' = pc /\ day' = day /\ result' = result
    BY <1>8 DEF cronVars
  <2>2. NotPassed' <=> NotPassed
    BY <1>1, <1>2, <2>1 DEF NotPassed, DayOf
  <2> QED BY <1>1, <1>2, <1>3, <1>9, <2>1, <2>2 DEF CronInv, FindsTheExtreme
<1> QED BY <1>4, <1>5, <1>6, <1>7, <1>8 DEF CronNext

\* The search of any expression over any window and any calendar keeps CronInv.
THEOREM CronStands == CronSpec => []CronInv
<1>1. CronInit => CronInv
  BY CronInvInit
<1>2. CronInv /\ [CronNext]_cronVars => CronInv'
  BY CronInvStep
<1> QED BY <1>1, <1>2, PTL DEF CronSpec

\* Whatever the expression, the window and the direction, what
\* CronExpression.occurrence_between returns is the extreme occurrence, and it
\* returns nothing only when there is none.
THEOREM OccurrencesAreFound == CronSpec => []FindsTheExtreme
<1>1. CronInv => FindsTheExtreme
  BY DEF CronInv
<1> QED BY <1>1, CronStands, PTL
=============================================================================
