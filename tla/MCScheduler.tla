----------------------------- MODULE MCScheduler -----------------------------
(***************************************************************************)
(* Instances of Scheduler for TLC.  Time is in half minutes.               *)
(***************************************************************************)
EXTENDS Scheduler, TLC

CONSTANTS t1, s1, s2, e1, v1, v2, v3, v4, x1

\* v1 and v3 run every minute, v2 every other minute, v4 has no schedule.
Minutes == {i \in Instants : i % Minute = 0}
Crons == [v \in Versions |->
    CASE v \in {v1, v3} -> Minutes
      [] v = v2 -> {i \in Minutes : i % (2 * Minute) = Minute}
      [] v = v4 -> {}]

EnqueueOnce == [v \in Versions |-> "enqueue_once"]
EveryPolicy == [v \in Versions |->
    CASE v = v2 -> "skip" [] v = v3 -> "catch_up" [] OTHER -> "enqueue_once"]

NoUses == [v \in Versions |-> {}]
\* Only v2 refers to the one item that can be deleted.
UsedByV2 == [v \in Versions |-> IF v = v2 THEN {x1} ELSE {}]

(***************************************************************************)
(* Several instances in one run, which differ in the versions and the      *)
(* processes that are used: two commands beside one scheduler, or one      *)
(* beside two.                                                             *)
(***************************************************************************)
CONSTANT Instances
VARIABLE used

mcVars == <<vars, used>>

MCInit ==
    /\ Init /\ used \in Instances
    /\ gone \subseteq used /\ \A t \in Tasks : active[t] \in used

MCNext ==
    /\ UNCHANGED used
    /\ \/ \E s \in Schedulers \cap used : SchedulerStep(s) \/ Killed(s)
       \/ \E i \in DOMAIN runs : WorkerStep(i) \/ CancelQueued(i)
       \/ \E t \in Tasks :
              \/ \E v \in Versions \cap used : Activate(t, v)
              \/ \E on \in BOOLEAN : SetEnabled(t, on)
              \/ \E v \in Manual \cap used : Enqueue(t, v)
              \/ DeleteTask(t) \/ RestoreTask(t)
       \/ \E e \in Editors \cap used :
              \/ \E t \in Tasks, v \in Versions \cap used, on \in BOOLEAN : Seal(e, t, v, on)
              \/ PublishRefused(e) \/ Publish(e)
       \/ \E x \in Items \cap used : DeleteItem(x) \/ RestoreItem(x)
       \/ TimePasses
    /\ ops' + Cardinality(Schedulers \cap used) <= 3

MCSpec == MCInit /\ [][MCNext]_mcVars
=============================================================================
