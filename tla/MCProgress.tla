----------------------------- MODULE MCProgress -----------------------------
(***************************************************************************)
(* What must end in time, in one run: the ticks of the scheduler, and the  *)
(* runner with the agent it started.  They share no modelled state; `part` *)
(* says which moves.  The other is at rest: an agent that returned, a      *)
(* schedule nobody enabled.                                                *)
(***************************************************************************)
EXTENDS AgentInvocation, Scheduler, TLC

CONSTANTS v1, v2, v3

\* Time is in half minutes.  v1 runs every minute, v2 every other minute, v3 has
\* no schedule; what v1 misses is caught up.
Minutes == {i \in Instants : i % Minute = 0}
Crons == [v \in Versions |->
    CASE v = v1 -> Minutes
      [] v = v2 -> {i \in Minutes : i % (2 * Minute) = Minute}
      [] v = v3 -> {}]
CatchUpAndOnce == [v \in Versions |-> IF v = v1 THEN "catch_up" ELSE "enqueue_once"]
NoUses == [v \in Versions |-> {}]

VARIABLE part

progressVars == <<part, vars, invVars>>

AgentAtRest ==
    /\ runner = "isolated" /\ pc = "done" /\ local = NewLocal
    /\ result = [success |-> FALSE, cleanup |-> FALSE]
    /\ outside = [cancelled |-> FALSE, expired |-> FALSE]
    /\ service = [session |-> "none", terminals |-> FALSE, late |-> "none"]
    /\ turn = [active |-> {}, over |-> FALSE]
    /\ collector = NewCollector
    /\ helpers = [media |-> "absent", images |-> "absent", strays |-> 0, fetching |-> FALSE]
    /\ child = NoChild

ProgressInit ==
    \/ part = "ticks" /\ Init /\ AgentAtRest
    \/ /\ part = "agent" /\ InvInit /\ Init
       /\ deleted = {} /\ \A t \in Tasks : ~enabled[t] /\ active[t] = v3

ProgressNext ==
    /\ UNCHANGED part
    /\ \/ part = "ticks" /\ Next /\ UNCHANGED invVars
       \/ part = "agent" /\ InvNext /\ UNCHANGED vars

\* FairSpec's fairness and InvFairness, of the part that moves.
ProgressFairness ==
    /\ WF_vars(part = "ticks" /\ TimePasses)
    /\ \A s \in Schedulers : WF_vars(part = "ticks" /\ SchedulerStep(s))
    /\ WF_vars(part = "ticks" /\ \E i \in DOMAIN runs : WorkerStep(i))
    /\ InvFairness

ProgressSpec == ProgressInit /\ [][ProgressNext]_progressVars /\ ProgressFairness
=============================================================================
