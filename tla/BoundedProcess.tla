--------------------------- MODULE BoundedProcess ---------------------------
(***************************************************************************)
(* A command run as a process group of its own (run_bounded,               *)
(* runners/development_process.py), or in a control group                  *)
(* (IsolatedProcessLauncher.run, runners/launcher.py), and the evidence    *)
(* that nothing of it is left.                                             *)
(*                                                                         *)
(* child.alive are its live processes, child.away the ones among them that *)
(* started a session of their own, child.deaf the ones a signal does not   *)
(* reach (uninterruptible, or a signal the kernel refused).  Output is     *)
(* left out, except that a live process with an inherited pipe keeps it    *)
(* open; child.holding are those.                                          *)
(***************************************************************************)
EXTENDS Naturals, FiniteSets

CONSTANTS Procs, Leader

ASSUME LeaderAssumption == Leader \in Procs

VARIABLE child

NoChild ==
    [at |-> "none", spawned |-> FALSE, boxed |-> FALSE, alive |-> {}, away |-> {}, deaf |-> {},
     holding |-> {}, exited |-> FALSE, signalled |-> FALSE, reaped |-> FALSE,
     eof |-> FALSE, clean |-> TRUE]

\* The processes the signal and the final look can see: the group, or with a
\* control group every descendant.
Visible == IF child.boxed THEN child.alive ELSE child.alive \ child.away

-----------------------------------------------------------------------------
\* run_bounded before the loop: a cancellation, an unusable log file and a
\* command that cannot be started leave nothing to clean.
NotSpawned ==
    /\ child.at = "none"
    /\ child' = [child EXCEPT !.at = "over"]

Spawn ==
    /\ child.at = "none"
    /\ child' = [child EXCEPT !.at = "running", !.spawned = TRUE,
                              !.alive = {Leader}, !.holding = {Leader}]

\* IsolatedProcessLauncher.run: the helper stops itself, is put into its
\* control group and continued.  Until then it runs no task code, but it is
\* outside the group that will be killed.
SpawnStopped ==
    /\ child.at = "none"
    /\ child' = [child EXCEPT !.at = "stopped", !.spawned = TRUE,
                              !.alive = {Leader}, !.holding = {Leader}]

\* The stopped helper joins the group and the quota is looked at again; if
\* either fails, or the helper never stops, it is killed where it is.
Contain ==
    /\ child.at = "stopped"
    /\ \/ child' = [child EXCEPT !.at = "running", !.boxed = TRUE]
       \/ \E boxed \in BOOLEAN :
            child' = [child EXCEPT !.at = "stopping", !.boxed = boxed]

-----------------------------------------------------------------------------
Without(c, dead) ==
    [c EXCEPT !.alive = @ \ dead, !.holding = @ \ dead, !.away = @ \ dead,
              !.deaf = @ \ dead]

\* Meanwhile some processes end by themselves.
Later == {Without(child, dead) : dead \in SUBSET child.alive}

\* The loop of run_bounded ends: the leader is gone, the caller cancelled or
\* its check failed, time is up, output or its consumer is over a limit.  What
\* the command did until then (it forked, processes left its group, let go of
\* its pipes, became deaf to signals) shows only now.
Stop(reason) ==
    /\ child.at = "running"
    /\ \E alive \in SUBSET Procs : \E away, deaf, holding \in SUBSET alive :
        /\ Leader \notin away
        /\ reason = "exit" => Leader \notin alive
        /\ child' = [child EXCEPT !.at = "stopping", !.exited = reason = "exit", !.alive = alive,
                                  !.away = away, !.deaf = deaf, !.holding = holding]

\* killpg then kill, or cgroup.kill then kill.
Kill ==
    /\ child.at = "stopping"
    /\ \E c \in Later, signalled \in BOOLEAN :
        LET hit == (IF signalled THEN Visible ELSE {}) \cup {Leader} IN
        child' = [Without(c, hit \ child.deaf)
                    EXCEPT !.at = "killed", !.signalled = signalled]

\* proc.wait(timeout=2)
Reap ==
    /\ child.at = "killed"
    /\ \E c \in Later :
        child' = [c EXCEPT !.at = "reaped", !.reaped = Leader \notin c.alive]

\* The drain: pipes reach their end when no live process holds one, or the
\* time for it is over.
Drain ==
    /\ child.at = "reaped"
    /\ \E c \in Later : child' = [c EXCEPT !.at = "drained", !.eof = c.holding = {}]

\* Mutant of Look: the group is not looked at once the leader is reaped.
LookAtLeader ==
    /\ child.at = "drained"
    /\ child' = [child EXCEPT !.at = "over",
        !.clean = child.signalled /\ child.reaped /\ child.eof]

\* _group_quiescent, or _group_empty and rmdir; and the verdict.
Look ==
    /\ child.at = "drained"
    /\ \E c \in Later :
        child' = [c EXCEPT !.at = "over", !.deaf = {},
            !.signalled = FALSE, !.reaped = FALSE, !.eof = FALSE,
            !.clean = c.signalled /\ c.reaped /\ c.eof /\ Visible \subseteq child.alive \ c.alive]

\* What the supervisor does to end the command and to account for it.
Supervise == Contain \/ Kill \/ Reap \/ Drain \/ Look
=============================================================================
