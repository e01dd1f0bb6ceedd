---------------------------- MODULE RunLifecycle ----------------------------
(***************************************************************************)
(* The life of a run: the queue in SQLite (scheduled_runs, task_claims,    *)
(* run_leases, execution_controls, delivery_handoffs), the workers that    *)
(* claim and execute runs, the workspace lock file of a task, the agent    *)
(* processes a worker starts, the evidence archive, stale-lease recovery   *)
(* and the operator's cancellation.                                        *)
(*                                                                         *)
(* Sources: services/worker.py, engine/orchestrator.py, engine/archive.py, *)
(* storage/repositories.py (RunRepository), workspace/manager.py,          *)
(* services/run_service.py (cancel_run), delivery/handoff.py.              *)
(*                                                                         *)
(* Every SQLite transaction is BEGIN IMMEDIATE (storage/db.py), so it is   *)
(* one step here.  The one transaction that spans several steps is the     *)
(* finalization, which renames the archive directory while it holds the    *)
(* write lock: see WriterFree.                                             *)
(***************************************************************************)
EXTENDS Integers, FiniteSets

CONSTANTS
    Runs,           \* run ids, numbered in creation order
    Tasks,
    Workers,        \* worker processes, each executing one run at a time
    TaskOf,         \* the task of each run
    Plan,           \* the scope of each run's execution plan
    DryRuns,        \* runs that never hand a message to the dispatcher
    MaxRunning,     \* settings.runner.global_concurrency
    Cancellable,    \* bound: the runs an operator may cancel
    LeaseTerm,      \* clock ticks a lease lives without a heartbeat
    MaxCrashes      \* bound on worker crashes in a behaviour

NoRun == 0

Stages == {"research", "artifacts", "compose", "handoff"}
Scopes == {"full", "compose_only", "delivery_only"}

\* The first stage of a scope, and the stage that follows one that succeeded.
FirstStage == [full |-> "research", compose_only |-> "compose", delivery_only |-> "handoff"]
NextStage == [research |-> "artifacts", artifacts |-> "compose", compose |-> "handoff",
              handoff |-> "handoff"]

ASSUME RunsAssumption == Runs \subseteq Nat \ {NoRun}
ASSUME TaskOfAssumption == TaskOf \in [Runs -> Tasks]
ASSUME PlanAssumption == Plan \in [Runs -> Scopes]
ASSUME DryRunsAssumption == DryRuns \subseteq Runs /\ Cancellable \subseteq Runs
ASSUME LeaseTermAssumption == LeaseTerm \in Nat \ {0}
ASSUME BoundsAssumption == MaxRunning \in Nat /\ MaxCrashes \in Nat

VARIABLES
    status,           \* scheduled_runs.status
    cancelRequested,  \* execution_controls.cancel_requested
    cleanupVerified,  \* execution_controls.child_cleanup_verified
    claim,            \* task_claims: the run and token that own a task
    lease,            \* run_leases: token and remaining lifetime
    handoff,          \* delivery_handoffs.status of the run's message
    lastToken,        \* fencing tokens handed out so far
    lock,             \* the .lock.json file of each task's workspace
    archive,          \* evidence directory: absent, staged, or its manifest status
    agents,           \* runs with child processes alive in the workspace
    pc, own,          \* of each worker: where it is, and the run and token it holds
    stage,            \* ... the stage of the plan it is at
    locked,           \* ... locked
    cleanup,          \* ... cleanup_verified
    published,        \* ... handoff is not None
    final,            \* ... final_status
    stop,             \* ... cancel_event.is_set()
    raised,           \* ... an exception propagates out of _finalize_run
    crashes

database == <<status, cancelRequested, cleanupVerified, claim, lease, handoff, lastToken>>
files == <<lock, archive, agents>>
locals == <<stage, locked, cleanup, published, final, stop, raised>>
vars == <<database, files, pc, own, locals, crashes>>

\* "timed_out" is a failure like any other to everything in this module.
Finals == {"awaiting_receipt", "succeeded", "failed", "cancelled", "needs_attention"}
Statuses == {"queued", "running"} \cup Finals
HandoffStatuses == {"none", "prepared", "published", "failed", "smtp_accepted", "uncertain"}

Ticket == [run : Runs \cup {NoRun}, token : Nat]
NoTicket == [run |-> NoRun, token |-> 0]
Lease == [token : Nat, ttl : 0..LeaseTerm]
NoLease == [token |-> 0, ttl |-> 0]

\* Steps of a worker that is executing the run it claimed ...
ExecutingPc == {"preflight", "enter", "lock", "ready", "runner", "prepare", "publish",
                "finalize", "archive", "commit", "finalize_failed", "unlock", "verified",
                "setup_failed", "worker_failed", "release", "mark", "drop"}
\* ... and of a worker inside recover_stale_leases.
RecoveryPc == {"stale_mark", "stale_unlock", "stale_release"}

Labels == {"idle"} \cup ExecutingPc \cup RecoveryPc

RowTypes ==
    /\ status \in [Runs -> Statuses]
    /\ cancelRequested \in [Runs -> BOOLEAN]
    /\ cleanupVerified \in [Runs -> BOOLEAN]
    /\ claim \in [Tasks -> Ticket]
    /\ lease \in [Runs -> Lease]
    /\ handoff \in [Runs -> HandoffStatuses]
    /\ lastToken \in Nat

FileTypes ==
    /\ lock \in [Tasks -> Ticket]
    /\ archive \in [Runs -> {"none", "pending"} \cup Finals]
    /\ agents \in [Runs -> BOOLEAN]

WorkerTypes ==
    /\ pc \in [Workers -> Labels]
    /\ own \in [Workers -> Ticket]
    /\ stage \in [Workers -> Stages]
    /\ locked \in [Workers -> BOOLEAN]
    /\ cleanup \in [Workers -> BOOLEAN]
    /\ published \in [Workers -> BOOLEAN]
    /\ final \in [Workers -> Finals]
    /\ stop \in [Workers -> BOOLEAN]
    /\ raised \in [Workers -> BOOLEAN]

TypeOK == RowTypes /\ FileTypes /\ WorkerTypes /\ crashes \in Nat

Init ==
    /\ status = [r \in Runs |-> "queued"]
    /\ cancelRequested = [r \in Runs |-> FALSE]
    /\ cleanupVerified = [r \in Runs |-> FALSE]
    /\ claim = [t \in Tasks |-> NoTicket]
    /\ lease = [r \in Runs |-> NoLease]
    /\ handoff = [r \in Runs |-> "none"]
    /\ lastToken = 0
    /\ lock = [t \in Tasks |-> NoTicket]
    /\ archive = [r \in Runs |-> "none"]
    /\ agents = [r \in Runs |-> FALSE]
    /\ pc = [w \in Workers |-> "idle"]
    /\ own = [w \in Workers |-> NoTicket]
    /\ stage = [w \in Workers |-> "research"]
    /\ locked = [w \in Workers |-> FALSE]
    /\ cleanup = [w \in Workers |-> TRUE]
    /\ published = [w \in Workers |-> FALSE]
    /\ final = [w \in Workers |-> "failed"]
    /\ stop = [w \in Workers |-> FALSE]
    /\ raised = [w \in Workers |-> FALSE]
    /\ crashes = 0

-----------------------------------------------------------------------------
(* Shorthands for the run a worker holds. *)

At(w, label) == pc[w] = label
RunOf(w) == own[w].run
TaskAt(w) == TaskOf[own[w].run]

\* A transaction waits while a finalization holds the database write lock.
WriterFree == \A w \in Workers : pc[w] \notin {"archive", "commit"}

\* The rows the fenced queries join: a lease and a claim with the worker's token.
HoldsRows(w) ==
    /\ claim[TaskAt(w)] = own[w]
    /\ lease[RunOf(w)].token = own[w].token
LeaseLive(w) == HoldsRows(w) /\ lease[RunOf(w)].ttl > 0

\* assert_run_owner with allow_cancel=True, and the commit_guard of finalization.
Owns(w) == status[RunOf(w)] = "running" /\ LeaseLive(w)

\* guard(): the cancel event first, then assert_run_owner without allow_cancel.
Guard(w) == ~stop[w] /\ Owns(w) /\ ~cancelRequested[RunOf(w)]

\* The status an exception that is not a PolicyStop leads to: a requested
\* cancellation explains it, else a ConcurrencyError asks for attention.
ConcurrencyStatus(w) ==
    IF cancelRequested[RunOf(w)] THEN "cancelled" ELSE "needs_attention"
FailureStatus(w) ==
    IF cancelRequested[RunOf(w)] THEN "cancelled" ELSE "failed"

Goto(w, label) == pc' = [pc EXCEPT ![w] = label]
\* Leave the body of _execute_owned_run with final_status f.
Stop(w, f) == Goto(w, "finalize") /\ final' = [final EXCEPT ![w] = f]
\* Enter a call with fresh local variables.
Call(w, label, ticket, verified) ==
    /\ pc' = [pc EXCEPT ![w] = label]
    /\ own' = [own EXCEPT ![w] = ticket]
    /\ stage' = [stage EXCEPT ![w] = "research"]
    /\ locked' = [locked EXCEPT ![w] = FALSE]
    /\ cleanup' = [cleanup EXCEPT ![w] = verified]
    /\ published' = [published EXCEPT ![w] = FALSE]
    /\ final' = [final EXCEPT ![w] = "failed"]
    /\ stop' = [stop EXCEPT ![w] = FALSE]
    /\ raised' = [raised EXCEPT ![w] = FALSE]
Return(w) == Call(w, "idle", NoTicket, TRUE)

Pending(h) == h \in {"prepared", "published"}

-----------------------------------------------------------------------------
(* Claiming: RunRepository.claim_next_run. *)

Claims == {t \in Tasks : claim[t] # NoTicket}
Claimable == {r \in Runs : status[r] = "queued" /\ claim[TaskOf[r]] = NoTicket}

TakeClaim(w, r) ==
    /\ At(w, "idle")
    /\ WriterFree
    /\ Cardinality(Claims) < MaxRunning
    /\ r \in Claimable
    /\ lastToken' = lastToken + 1
    /\ claim' = [claim EXCEPT ![TaskOf[r]] = [run |-> r, token |-> lastToken + 1]]
    /\ lease' = [lease EXCEPT ![r] = [token |-> lastToken + 1, ttl |-> LeaseTerm]]
    /\ status' = [status EXCEPT ![r] = "running"]
    /\ Call(w, "preflight", [run |-> r, token |-> lastToken + 1], TRUE)
    /\ UNCHANGED <<cancelRequested, cleanupVerified, handoff, files, crashes>>

\* execute_next_run: the oldest queued run whose task nobody owns.
ClaimNext(w) ==
    \E r \in Claimable : (\A s \in Claimable : r <= s) /\ TakeClaim(w, r)

\* execute_run_id: a run named by the caller, out of queue order.
ClaimRun(w, r) == TakeClaim(w, r)

-----------------------------------------------------------------------------
(* WorkflowOrchestrator.execute_run and _execute_owned_run. *)

\* The first timeline step, assert_run_owner(allow_cancel=True), the execution
\* plan and RunArchive.__init__.  A cancellation seen here sets the event.
Preflight(w) ==
    /\ At(w, "preflight")
    /\ WriterFree
    /\ \/ /\ Owns(w)
          /\ Goto(w, "enter")
          /\ archive' = [archive EXCEPT ![RunOf(w)] = "pending"]
          /\ stage' = [stage EXCEPT ![w] = FirstStage[Plan[RunOf(w)]]]
          /\ stop' = [stop EXCEPT ![w] = @ \/ cancelRequested[RunOf(w)]]
       \/ /\ Goto(w, "setup_failed") \/ Goto(w, "worker_failed")
          /\ UNCHANGED <<archive, stage, stop>>
    /\ UNCHANGED <<database, lock, agents, own, locked, cleanup, published, final, raised,
                   crashes>>

\* guard() and require_run_delivery_authorization before the workspace lock.
Enter(w) ==
    /\ At(w, "enter")
    /\ \/ Guard(w) /\ Goto(w, "lock") /\ UNCHANGED final
       \/ ~Guard(w) /\ Stop(w, ConcurrencyStatus(w))
       \/ Stop(w, FailureStatus(w))
    /\ UNCHANGED <<database, files, own, stage, locked, cleanup, published, stop, raised,
                   crashes>>

\* WorkspaceManager.acquire_workspace_lock: under the flock of the guard file.
AcquireLock(w) ==
    /\ At(w, "lock")
    /\ IF lock[TaskAt(w)] \in {NoTicket, own[w]}
         THEN /\ lock' = [lock EXCEPT ![TaskAt(w)] = own[w]]
              /\ locked' = [locked EXCEPT ![w] = TRUE]
              /\ Goto(w, "ready")
              /\ UNCHANGED final
         ELSE /\ Stop(w, ConcurrencyStatus(w))
              /\ UNCHANGED <<lock, locked>>
    /\ UNCHANGED <<database, archive, agents, own, stage, cleanup, published, stop, raised,
                   crashes>>

\* phase(stage) and the start of the stage's child processes.  invoke() resets
\* cleanup_verified first; artifact acquisition keeps it until a cleanup fails.
BeginStage(w) ==
    /\ At(w, "ready")
    /\ stage[w] # "handoff"
    /\ WriterFree
    /\ \/ /\ Guard(w)
          /\ Goto(w, "runner")
          /\ agents' = [agents EXCEPT ![RunOf(w)] = TRUE]
          /\ cleanup' = [cleanup EXCEPT ![w] = (stage[w] = "artifacts")]
          /\ UNCHANGED final
       \/ ~Guard(w) /\ Stop(w, ConcurrencyStatus(w)) /\ UNCHANGED <<agents, cleanup>>
    /\ UNCHANGED <<database, lock, archive, own, stage, locked, published, stop, raised, crashes>>

\* A gate, a task policy or an I/O error between two stages.  "succeeded" is the
\* empty report that the task's policy does not send.
GateStop(w) ==
    /\ At(w, "ready")
    /\ \/ \E f \in {"needs_attention", "failed", FailureStatus(w)} : Stop(w, f)
       \/ stage[w] = "compose" /\ Plan[RunOf(w)] = "full" /\ Stop(w, "succeeded")
    /\ UNCHANGED <<database, files, own, stage, locked, cleanup, published, stop, raised,
                   crashes>>

\* The runner proves that its process group is gone and the stage succeeded or
\* failed; guard() runs before the result is looked at.
RunnerReturns(w) ==
    /\ At(w, "runner")
    /\ agents' = [agents EXCEPT ![RunOf(w)] = FALSE]
    /\ cleanup' = [cleanup EXCEPT ![w] = TRUE]
    /\ \/ /\ Guard(w)
          /\ Goto(w, "ready")
          /\ stage' = [stage EXCEPT ![w] = NextStage[@]]
          /\ UNCHANGED final
       \/ /\ Guard(w)
          /\ \E f \in {"needs_attention", "failed"} : Stop(w, f)
          /\ UNCHANGED stage
       \/ ~Guard(w) /\ Stop(w, ConcurrencyStatus(w)) /\ UNCHANGED stage
    /\ UNCHANGED <<database, lock, archive, own, locked, published, stop, raised, crashes>>

\* Mutant: cleanup_verified keeps the value of a clean exit.
CleanupAssumed(w) ==
    /\ At(w, "runner")
    /\ \E alive \in BOOLEAN : agents' = [agents EXCEPT ![RunOf(w)] = alive]
    /\ cleanup' = [cleanup EXCEPT ![w] = TRUE]
    /\ Stop(w, "failed")
    /\ UNCHANGED <<database, lock, archive, own, stage, locked, published, stop, raised, crashes>>

\* The runner returns without proof, or raises: its processes may be alive.
CleanupUnverified(w) ==
    /\ At(w, "runner")
    /\ \E alive \in BOOLEAN : agents' = [agents EXCEPT ![RunOf(w)] = alive]
    /\ cleanup' = [cleanup EXCEPT ![w] = FALSE]
    /\ \E f \in {"needs_attention", FailureStatus(w)} : Stop(w, f)
    /\ UNCHANGED <<database, lock, archive, own, stage, locked, published, stop, raised, crashes>>

\* phase("handoff"), after the composed message was validated and stored.
BeginHandoff(w) ==
    /\ At(w, "ready")
    /\ stage[w] = "handoff"
    /\ WriterFree
    /\ \/ Guard(w) /\ Goto(w, "prepare") /\ UNCHANGED final
       \/ ~Guard(w) /\ Stop(w, ConcurrencyStatus(w))
    /\ UNCHANGED <<database, files, own, stage, locked, cleanup, published, stop, raised,
                   crashes>>

\* create_and_publish_handoff returned its handoff; f is the mode's status, or
\* the failure to archive the delivery request afterwards.
HandedOver(w, f) == Stop(w, f) /\ published' = [published EXCEPT ![w] = TRUE]
HandoffRaised(w) == Stop(w, FailureStatus(w)) /\ UNCHANGED published

\* create_and_publish_handoff up to its first save.  save_handoff carries no
\* fencing token, so it succeeds after the lease is lost.
PrepareHandoff(w) ==
    /\ At(w, "prepare")
    /\ WriterFree
    /\ \/ /\ handoff' = [handoff EXCEPT ![RunOf(w)] = "prepared"]
          /\ \/ /\ RunOf(w) \in DryRuns
                /\ \E f \in {"succeeded", FailureStatus(w)} : HandedOver(w, f)
             \/ RunOf(w) \notin DryRuns /\ Goto(w, "publish") /\ UNCHANGED <<final, published>>
       \/ HandoffRaised(w) /\ UNCHANGED handoff
    /\ UNCHANGED <<status, cancelRequested, cleanupVerified, claim, lease, lastToken, files,
                   own, stage, locked, cleanup, stop, raised, crashes>>

\* _publish: the second approval, the outbox package and the second save.  An
\* exception before or after the save leaves the caller without the handoff.
PublishHandoff(w) ==
    /\ At(w, "publish")
    /\ WriterFree
    /\ \/ /\ handoff[RunOf(w)] = "prepared"
          /\ handoff' = [handoff EXCEPT ![RunOf(w)] = "published"]
          /\ \/ \E f \in {"awaiting_receipt", FailureStatus(w)} : HandedOver(w, f)
             \/ HandoffRaised(w)
       \/ HandoffRaised(w) /\ UNCHANGED handoff
    /\ UNCHANGED <<status, cancelRequested, cleanupVerified, claim, lease, lastToken, files,
                   own, stage, locked, cleanup, stop, raised, crashes>>

-----------------------------------------------------------------------------
(* WorkflowOrchestrator._finalize_run. *)

\* Mutant: cancel_requested is not read again inside the transaction.
FinalStatusNoCancel(w) ==
    IF ~cleanup[w] \/ stop[w] THEN "needs_attention" ELSE final[w]

\* The status the finalization transaction settles on: cancellation first, then
\* the cancel event, then unproven cleanup over both.
FinalStatus(w) ==
    IF ~cleanup[w] THEN "needs_attention"
    ELSE IF cancelRequested[RunOf(w)] THEN "cancelled"
    ELSE IF stop[w] THEN "needs_attention"
    ELSE final[w]

\* Open the transaction, pass the first commit_guard and fix the final status.
\* Acquisition processes that were not collected refuse finalization outright.
FinalizeBegin(w) ==
    /\ At(w, "finalize")
    /\ WriterFree
    /\ \/ Owns(w) /\ Goto(w, "archive") /\ final' = [final EXCEPT ![w] = FinalStatus(w)]
       \/ ~Owns(w) /\ Goto(w, "finalize_failed") /\ UNCHANGED final
       \/ ~cleanup[w] /\ Goto(w, "finalize_failed") /\ UNCHANGED final
    /\ UNCHANGED <<database, files, own, stage, locked, cleanup, published, stop, raised,
                   crashes>>

\* Mutant: a failure to publish the archive is only logged.
FinishArchiveSwallowed(w) ==
    /\ At(w, "archive")
    /\ Goto(w, "commit")
    /\ UNCHANGED <<database, files, own, locals, crashes>>

\* RunArchive.finish: the second commit_guard, then the rename that publishes
\* the evidence directory with its manifest.
FinishArchive(w) ==
    /\ At(w, "archive")
    /\ \/ /\ Owns(w)
          /\ archive' = [archive EXCEPT ![RunOf(w)] = final[w]]
          /\ Goto(w, "commit")
       \/ Goto(w, "finalize_failed") /\ UNCHANGED archive
    /\ UNCHANGED <<database, lock, agents, own, locals, crashes>>

\* The last timeline step (fenced once more), the run's status and the commit.
FinalizeCommit(w) ==
    /\ At(w, "commit")
    /\ Owns(w)
    /\ status' = [status EXCEPT ![RunOf(w)] = final[w]]
    /\ handoff' = [handoff EXCEPT ![RunOf(w)] =
            IF published[w] /\ RunOf(w) \notin DryRuns /\ Pending(@)
               /\ final[w] # "awaiting_receipt" THEN "failed" ELSE @]
    /\ Goto(w, "unlock")
    /\ UNCHANGED <<cancelRequested, cleanupVerified, claim, lease, lastToken, files, own,
                   locals, crashes>>

\* The lease ran out, or SQLite failed, after the rename: the transaction rolls back.
FinalizeAbort(w) ==
    /\ At(w, "commit")
    /\ Goto(w, "finalize_failed")
    /\ UNCHANGED <<database, files, own, locals, crashes>>

\* The except branch: only a live owner may still record the failure.
FinalizeFailed(w) ==
    /\ At(w, "finalize_failed")
    /\ WriterFree
    /\ IF LeaseLive(w)
         THEN /\ status' = [status EXCEPT ![RunOf(w)] =
                               IF @ = "running" THEN "needs_attention" ELSE @]
              /\ handoff' = [handoff EXCEPT ![RunOf(w)] = IF Pending(@) THEN "failed" ELSE @]
         ELSE UNCHANGED <<status, handoff>>
    /\ Goto(w, "unlock")
    /\ raised' = [raised EXCEPT ![w] = TRUE]
    /\ UNCHANGED <<cancelRequested, cleanupVerified, claim, lease, lastToken, files, own,
                   stage, locked, cleanup, published, final, stop, crashes>>

\* Where the finally block goes on: out of the call, or up the handlers.
AfterFinalize(w) == IF raised[w] THEN "setup_failed" ELSE "release"

\* Mutant: the finally block forgets to ask for cleanup_verified.
UnlockUnproven(w) ==
    /\ At(w, "unlock")
    /\ lock' = [lock EXCEPT ![TaskAt(w)] = IF locked[w] /\ @ = own[w] THEN NoTicket ELSE @]
    /\ Goto(w, IF locked[w] THEN "verified" ELSE AfterFinalize(w))
    /\ UNCHANGED <<database, archive, agents, own, locals, crashes>>

\* The finally block: the lock file goes only with proof of cleanup.
Unlock(w) ==
    /\ At(w, "unlock")
    /\ IF locked[w] /\ cleanup[w] /\ lock[TaskAt(w)] \in {NoTicket, own[w]}
         THEN /\ lock' = [lock EXCEPT ![TaskAt(w)] = NoTicket]
              /\ Goto(w, "verified")
         ELSE /\ UNCHANGED lock
              /\ Goto(w, AfterFinalize(w))
    /\ UNCHANGED <<database, archive, agents, own, locals, crashes>>

\* mark_cleanup_verified, which changes nothing unless the claim is still ours.
MarkVerified(w) ==
    IF claim[TaskAt(w)] = own[w]
      THEN cleanupVerified' = [cleanupVerified EXCEPT ![RunOf(w)] = TRUE]
      ELSE UNCHANGED cleanupVerified

RecordVerified(w) ==
    /\ At(w, "verified")
    /\ WriterFree
    /\ MarkVerified(w)
    /\ Goto(w, AfterFinalize(w))
    /\ UNCHANGED <<status, cancelRequested, claim, lease, handoff, lastToken, files, own,
                   locals, crashes>>

-----------------------------------------------------------------------------
(* The exception handlers around the orchestrator, and the worker's finally. *)

\* Mutant: the UPDATE lost its status='running' condition.
MarkStaleAnyStatus(w) ==
    status' = [status EXCEPT ![RunOf(w)] =
        IF lease[RunOf(w)] = [token |-> own[w].token, ttl |-> 0] THEN "needs_attention" ELSE @]

\* mark_stale_attention: only a run that still runs under this, expired, lease.
MarkStale(w) ==
    status' = [status EXCEPT ![RunOf(w)] =
        IF @ = "running" /\ lease[RunOf(w)].token = own[w].token /\ lease[RunOf(w)].ttl = 0
          THEN "needs_attention" ELSE @]

\* update_run_status under the token, falling back to mark_stale_attention.
RecordFailure(w, f) ==
    IF status[RunOf(w)] = "running" /\ lease[RunOf(w)].token = own[w].token
         /\ lease[RunOf(w)].ttl > 0
      THEN status' = [status EXCEPT ![RunOf(w)] = f]
      ELSE MarkStale(w)

\* execute_run's handler: version, plan, archive or finalization failed.
SetupFailed(w) ==
    /\ At(w, "setup_failed")
    /\ WriterFree
    /\ \E f \in {ConcurrencyStatus(w), FailureStatus(w)} : RecordFailure(w, f)
    /\ Goto(w, "worker_failed")
    /\ UNCHANGED <<cancelRequested, cleanupVerified, claim, lease, handoff, lastToken, files,
                   own, locals, crashes>>

\* _execute_claim's handler.
WorkerFailed(w) ==
    /\ At(w, "worker_failed")
    /\ WriterFree
    /\ RecordFailure(w, "failed")
    /\ Goto(w, "release")
    /\ UNCHANGED <<cancelRequested, cleanupVerified, claim, lease, handoff, lastToken, files,
                   own, locals, crashes>>

\* Mutant: is_locked is not consulted before ownership is given up.
ReleaseIgnoringLock(w) ==
    /\ At(w, "release")
    /\ Goto(w, "mark")
    /\ UNCHANGED <<database, files, own, locals, crashes>>

\* _execute_claim's finally: while the lock file is there, ownership is kept.
Release(w) ==
    /\ At(w, "release")
    /\ IF lock[TaskAt(w)] = NoTicket
         THEN Goto(w, "mark") /\ UNCHANGED <<own, locals>>
         ELSE Return(w)
    /\ UNCHANGED <<database, files, crashes>>

ReleaseMark(w) ==
    /\ At(w, "mark")
    /\ WriterFree
    /\ MarkVerified(w)
    /\ Goto(w, "drop")
    /\ UNCHANGED <<status, cancelRequested, claim, lease, handoff, lastToken, files, own,
                   locals, crashes>>

\* release_lease refuses without verified cleanup and deletes by token.
DropOwnership(w) ==
    IF cleanupVerified[RunOf(w)] \/ status[RunOf(w)] = "queued"
      THEN /\ lease' = [lease EXCEPT ![RunOf(w)] =
                           IF @.token = own[w].token THEN NoLease ELSE @]
           /\ claim' = [claim EXCEPT ![TaskAt(w)] = IF @ = own[w] THEN NoTicket ELSE @]
      ELSE UNCHANGED <<lease, claim>>

ReleaseLease(w) ==
    /\ At(w, "drop")
    /\ WriterFree
    /\ DropOwnership(w)
    /\ Return(w)
    /\ UNCHANGED <<status, cancelRequested, cleanupVerified, handoff, lastToken, files, crashes>>

-----------------------------------------------------------------------------
(* The heartbeat thread.  It starts with the claim and is told to stop in the *)
(* worker's finally, which waits for it two seconds and then goes on anyway.  *)

\* Mutant: the new expiry is one tick beyond the lease duration.
HeartbeatOverrun(w) ==
    /\ pc[w] \in ExecutingPc
    /\ lease[RunOf(w)].ttl > 0
    /\ lease' = [lease EXCEPT ![RunOf(w)] = [token |-> own[w].token, ttl |-> LeaseTerm + 1]]
    /\ UNCHANGED <<status, cancelRequested, cleanupVerified, claim, handoff, lastToken, files,
                   pc, own, locals, crashes>>

\* heartbeat_lease: an expired lease is never revived.
HeartbeatRenew(w) ==
    /\ pc[w] \in ExecutingPc
    /\ WriterFree
    /\ lease[RunOf(w)].token = own[w].token
    /\ lease[RunOf(w)].ttl \in 1..(LeaseTerm - 1)
    /\ lease' = [lease EXCEPT ![RunOf(w)] = [token |-> own[w].token, ttl |-> LeaseTerm]]
    /\ UNCHANGED <<status, cancelRequested, cleanupVerified, claim, handoff, lastToken, files,
                   pc, own, locals, crashes>>

\* The service stops, a cancellation is seen, a renewal is refused or fails.
HeartbeatSignal(w) ==
    /\ pc[w] \in ExecutingPc
    /\ ~stop[w]
    /\ stop' = [stop EXCEPT ![w] = TRUE]
    /\ UNCHANGED <<database, files, pc, own, stage, locked, cleanup, published, final, raised,
                   crashes>>

-----------------------------------------------------------------------------
(* WorkerService.recover_stale_leases, run by a worker before it claims. *)

\* Mutant: recovery only looks at leases whose cleanup is verified.
StalePickVerifiedOnly(w, r) ==
    /\ At(w, "idle")
    /\ lease[r].token # 0 /\ lease[r].ttl = 0
    /\ cleanupVerified[r]
    /\ Call(w, "stale_mark", [run |-> r, token |-> lease[r].token], TRUE)
    /\ UNCHANGED <<database, files, crashes>>

\* An expired lease is acted on when its cleanup is verified or its run runs.
StalePick(w, r) ==
    /\ At(w, "idle")
    /\ lease[r].token # 0 /\ lease[r].ttl = 0
    /\ \/ /\ status[r] = "running"
          /\ Call(w, "stale_mark", [run |-> r, token |-> lease[r].token], cleanupVerified[r])
       \/ /\ status[r] # "running" /\ cleanupVerified[r]
          /\ Call(w, "stale_unlock", [run |-> r, token |-> lease[r].token], TRUE)
    /\ UNCHANGED <<database, files, crashes>>

\* Without verified cleanup the claim is retained, for an operator.
StaleMark(w) ==
    /\ At(w, "stale_mark")
    /\ WriterFree
    /\ MarkStale(w)
    /\ IF cleanup[w] THEN Goto(w, "stale_unlock") /\ UNCHANGED <<own, locals>> ELSE Return(w)
    /\ UNCHANGED <<cancelRequested, cleanupVerified, claim, lease, handoff, lastToken, files,
                   crashes>>

\* A lock of another owner raises, and ends the whole recovery pass.
StaleUnlock(w) ==
    /\ At(w, "stale_unlock")
    /\ IF lock[TaskAt(w)] \in {NoTicket, own[w]}
         THEN /\ lock' = [lock EXCEPT ![TaskAt(w)] = NoTicket]
              /\ Goto(w, "stale_release")
              /\ UNCHANGED <<own, locals>>
         ELSE UNCHANGED lock /\ Return(w)
    /\ UNCHANGED <<database, archive, agents, crashes>>

\* Mutant: recovery unlocks the workspace and forgets release_lease.
StaleReleaseForgotten(w) ==
    /\ At(w, "stale_release")
    /\ Return(w)
    /\ UNCHANGED <<database, files, crashes>>

StaleRelease(w) ==
    /\ At(w, "stale_release")
    /\ WriterFree
    /\ DropOwnership(w)
    /\ Return(w)
    /\ UNCHANGED <<status, cancelRequested, cleanupVerified, handoff, lastToken, files, crashes>>

-----------------------------------------------------------------------------
(* Operators, dispatcher, time and failures. *)

\* cancel_run, first transaction: request_cancel.
RequestCancel(r) ==
    /\ r \in Cancellable
    /\ status[r] \notin {"succeeded", "failed", "cancelled"} /\ ~cancelRequested[r]
    /\ WriterFree
    /\ cancelRequested' = [cancelRequested EXCEPT ![r] = TRUE]
    /\ status' = [status EXCEPT ![r] = IF @ = "queued" THEN "cancelled" ELSE @]
    /\ UNCHANGED <<cleanupVerified, claim, lease, handoff, lastToken, files, pc, own, locals,
                   crashes>>

\* cancel_run, second transaction: cancel_pending_for_run, of the same call or of
\* a repeated one.  It does nothing while a sender owns the message, which is
\* left to the dispatcher's module, or when the caller died between the two.
CancelPending(r) ==
    /\ status[r] = "awaiting_receipt" /\ cancelRequested[r]
    /\ WriterFree
    /\ status' = [status EXCEPT ![r] = "cancelled"]
    /\ handoff' = [handoff EXCEPT ![r] = IF Pending(@) THEN "failed" ELSE @]
    /\ UNCHANGED <<cancelRequested, cleanupVerified, claim, lease, lastToken, files, pc, own,
                   locals, crashes>>

\* SmtpQueue.finish closes a delivered, refused or uncertain message.
DeliveryResult == [succeeded |-> "smtp_accepted", failed |-> "failed",
                   cancelled |-> "failed", needs_attention |-> "uncertain"]

Deliver(r) ==
    /\ status[r] = "awaiting_receipt"
    /\ WriterFree
    /\ \E s \in {"succeeded", "failed", "cancelled", "needs_attention"} :
           /\ s = "cancelled" => cancelRequested[r]
           /\ status' = [status EXCEPT ![r] = s]
           /\ handoff' = [handoff EXCEPT ![r] = DeliveryResult[s]]
    /\ UNCHANGED <<cancelRequested, cleanupVerified, claim, lease, lastToken, files, pc, own,
                   locals, crashes>>

\* A worker process dies: its transaction rolls back, its locals are gone, its
\* child processes, the lock file, the archive and the committed rows stay.
Crash(w) ==
    /\ ~At(w, "idle")
    /\ crashes < MaxCrashes
    /\ crashes' = crashes + 1
    /\ Return(w)
    /\ UNCHANGED <<database, files>>

\* Wall-clock time passes for every lease.
Elapse(l) == [token |-> l.token, ttl |-> IF l.ttl > 0 THEN l.ttl - 1 ELSE 0]

Tick ==
    /\ \E r \in Runs : lease[r].ttl > 0
    /\ lease' = [r \in Runs |-> Elapse(lease[r])]
    /\ UNCHANGED <<status, cancelRequested, cleanupVerified, claim, handoff, lastToken, files,
                   pc, own, locals, crashes>>

\* One step of the code a worker is inside of.
Execute(w) ==
    \/ Preflight(w) \/ Enter(w) \/ AcquireLock(w) \/ BeginStage(w) \/ GateStop(w)
    \/ RunnerReturns(w) \/ CleanupUnverified(w) \/ BeginHandoff(w) \/ PrepareHandoff(w)
    \/ PublishHandoff(w) \/ FinalizeBegin(w) \/ FinishArchive(w) \/ FinalizeCommit(w)
    \/ FinalizeAbort(w) \/ FinalizeFailed(w) \/ Unlock(w) \/ RecordVerified(w)
    \/ SetupFailed(w) \/ WorkerFailed(w) \/ Release(w) \/ ReleaseMark(w) \/ ReleaseLease(w)
    \/ StaleMark(w) \/ StaleUnlock(w) \/ StaleRelease(w)

Recover(w) == \E r \in Runs : StalePick(w, r)

Next ==
    \/ \E w \in Workers :
          \/ Execute(w)
          \/ ClaimNext(w)
          \/ Recover(w)
          \/ HeartbeatRenew(w)
          \/ HeartbeatSignal(w)
          \/ Crash(w)
          \/ \E r \in Runs : ClaimRun(w, r)
    \/ \E r \in Runs : RequestCancel(r) \/ CancelPending(r) \/ Deliver(r)
    \/ Tick

Spec == Init /\ [][Next]_vars

\* A worker keeps running the code it is in (runners time out), polls for
\* expired leases and queued runs, and time passes.
Fairness ==
    /\ \A w \in Workers : WF_vars(Execute(w)) /\ WF_vars(Recover(w)) /\ WF_vars(ClaimNext(w))
    /\ WF_vars(Tick)

FairSpec == Spec /\ Fairness

-----------------------------------------------------------------------------
(* Properties. *)

\* Steps in which a worker may still touch the workspace of its run.
BusyPc == ExecutingPc \ {"verified", "setup_failed", "worker_failed", "release", "mark", "drop"}

\* Runs of one task are serial, across expired leases, recovery and crashes:
\* no two workers are inside the workspace of the same task, and a task whose
\* earlier run left child processes behind is never given to a later run.
TaskSerial ==
    /\ \A v, w \in Workers :
          v # w /\ pc[v] \in BusyPc /\ pc[w] \in BusyPc
             => TaskAt(v) # TaskAt(w)
    /\ \A r \in Runs : agents[r] => claim[TaskOf[r]].run = r

\* The workspace lock file always belongs to the run that owns the task, so the
\* owner that acquires it never finds a stranger's.  Recovery may: the run it
\* picked can release the task before it unlocks, and the next owner lock it;
\* then release_workspace_lock raises, and the lock stays whose it is.
LockFollowsClaim ==
    \A t \in Tasks : lock[t] # NoTicket => claim[t] = lock[t]

\* A run that is shown as running has an owner: its task's claim and its lease
\* carry the same token, so either its worker or lease expiry will end it.
RunningIsOwned ==
    \A r \in Runs : status[r] = "running" =>
        /\ claim[TaskOf[r]].run = r
        /\ lease[r].token = claim[TaskOf[r]].token

\* A message waits for the dispatcher only after its evidence was archived with
\* that status, its package was published and no agent process is left; a run
\* succeeds only with an archive that says so or was waiting for delivery.
SuccessHasEvidence ==
    \A r \in Runs :
        /\ status[r] = "awaiting_receipt" =>
              archive[r] = "awaiting_receipt" /\ handoff[r] = "published" /\ ~agents[r]
        /\ status[r] = "succeeded" => archive[r] \in {"succeeded", "awaiting_receipt"}

ReleaseStep ==
    \A t \in Tasks : claim[t] # NoTicket /\ claim'[t] # claim[t] =>
        /\ claim'[t] = NoTicket /\ lock[t] = NoTicket
        /\ ~agents[claim[t].run] /\ status[claim[t].run] # "running"

\* Ownership of a task is given up only by a run that ended and whose child
\* processes are gone (release_lease, "until child cleanup is verified").
ReleaseNeedsProof == [][ReleaseStep]_vars

CancelStep ==
    \A r \in Runs : status[r] = "running" /\ cancelRequested[r] =>
        status'[r] \notin {"awaiting_receipt", "succeeded"}

\* A cancellation that was committed while the run was still running is never
\* lost: the run neither succeeds nor hands its message to the dispatcher.
CancelPrevails == [][CancelStep]_vars

OutcomeStep ==
    \A r \in Runs : status[r] \in Finals \ {"awaiting_receipt"} => status'[r] = status[r]

\* A settled run is never run again and never changes its outcome: recovery,
\* late workers, cancellation and a late sender leave it alone.  (Only the
\* operator's email retry, SmtpQueue._insert_retry, reopens a delivery; it is
\* the dispatcher's and not part of this module.)
OutcomeIsFinal == [][OutcomeStep]_vars

\* The doc's exception: cleanup that was not verified keeps the claim.
Unverified(r) ==
    /\ claim[TaskOf[r]].run = r
    /\ ~cleanupVerified[r]
    /\ \A w \in Workers : RunOf(w) # r

\* Every run that starts ends, whatever crashes: its worker finalizes it, or its
\* lease runs out and another worker marks it.
RunsSettle == \A r \in Runs : status[r] = "running" ~> status[r] # "running"

\* A task is not owned for ever by a run whose cleanup was verified ...
ClaimSettles(r) == claim[TaskOf[r]].run = r ~> (claim[TaskOf[r]].run # r \/ Unverified(r))

\* ... and a queued run is eventually taken, unless ownership that could not be
\* verified blocks its task or uses up the whole concurrency.
QueueAdvances(r) ==
    status[r] = "queued" ~>
        \/ status[r] # "queued"
        \/ \E s \in Runs : TaskOf[s] = TaskOf[r] /\ Unverified(s)
        \/ Cardinality({s \in Runs : Unverified(s)}) >= MaxRunning

ClaimsSettle == \A r \in Runs : ClaimSettles(r) /\ QueueAdvances(r)

-----------------------------------------------------------------------------
(* The inductive invariant behind the properties above. *)

\* The rows of task_claims and run_leases agree, and a run that runs has both.
ClaimRows ==
    /\ \A t \in Tasks : claim[t] # NoTicket =>
          claim[t].run \in Runs /\ TaskOf[claim[t].run] = t /\ claim[t].token # 0
    /\ \A r \in Runs :
          /\ lease[r].token = IF claim[TaskOf[r]].run = r THEN claim[TaskOf[r]].token ELSE 0
          /\ status[r] = "running" => claim[TaskOf[r]].run = r
          /\ status[r] = "queued" => claim[TaskOf[r]].run # r /\ ~cleanupVerified[r]

\* A worker that is not idle holds the one ticket its run was ever given, and
\* no other worker executes that run.
Tickets ==
    /\ \A w \in Workers : pc[w] # "idle" =>
          /\ RunOf(w) \in Runs /\ own[w].token # 0
          /\ status[RunOf(w)] # "queued"
          /\ claim[TaskAt(w)].run = RunOf(w) => claim[TaskAt(w)] = own[w]
    /\ \A v, w \in Workers :
          v # w /\ pc[v] \in ExecutingPc /\ pc[w] \in ExecutingPc
             => RunOf(v) # RunOf(w)

\* Ownership is only given up from steps that a running run cannot reach, and
\* a lease that recovery saw expired stays expired.
Endings ==
    \A w \in Workers :
        /\ pc[w] \in {"release", "mark", "drop", "stale_unlock", "stale_release"}
              => status[RunOf(w)] # "running"
        /\ pc[w] \in {"unlock", "verified"} /\ ~raised[w]
              => status[RunOf(w)] # "running"
        /\ At(w, "stale_mark") => lease[RunOf(w)].ttl = 0

\* Verified cleanup is final, and only the executor of a run records it.
Verification ==
    \A w \in Workers :
        /\ pc[w] \in ExecutingPc /\ ~cleanupVerified[RunOf(w)] => claim[TaskAt(w)] = own[w]
        /\ pc[w] \in BusyPc \cup {"verified"} => ~cleanupVerified[RunOf(w)]
        /\ pc[w] \in {"stale_unlock", "stale_release"} => cleanupVerified[RunOf(w)]
        /\ At(w, "stale_mark") /\ cleanup[w] => cleanupVerified[RunOf(w)]

\* The lock file is held by its run from the first stage to the proof of cleanup.
Locking ==
    /\ LockFollowsClaim
    /\ \A w \in Workers :
          /\ pc[w] \in BusyPc /\ locked[w] => lock[TaskAt(w)] = own[w]
          /\ pc[w] \in {"ready", "runner", "prepare", "publish"} => locked[w]
          /\ pc[w] \in {"verified", "mark"} /\ ~cleanupVerified[RunOf(w)]
                => lock[TaskAt(w)] = NoTicket

\* Child processes live under the lock of their run, and cleanup means none.
Children ==
    /\ \A r \in Runs :
          /\ agents[r] => lock[TaskOf[r]].run = r
          /\ cleanupVerified[r] => lock[TaskOf[r]].run # r
    /\ \A w \in Workers :
          /\ pc[w] \in BusyPc \ {"runner"} /\ cleanup[w] => ~agents[RunOf(w)]
          /\ pc[w] \in {"preflight", "enter", "lock", "ready", "prepare", "publish"}
                => cleanup[w]

\* Up to its commit, the evidence a worker is about to publish is complete.
Evidence ==
    \A w \in Workers :
        /\ pc[w] \in BusyPc \ {"unlock"} => status[RunOf(w)] \in {"running", "needs_attention"}
        /\ pc[w] \in {"finalize", "archive", "commit"} /\ final[w] = "awaiting_receipt"
              => handoff[RunOf(w)] = "published" /\ cleanup[w]
        /\ At(w, "commit") => archive[RunOf(w)] = final[w]
        /\ pc[w] \in {"archive", "commit"} /\ cancelRequested[RunOf(w)]
              => final[w] \notin {"awaiting_receipt", "succeeded"}

\* All of it: every step of every worker, of recovery, of the operator and of
\* the clock preserves this conjunction.
Inductive ==
    /\ TypeOK
    /\ ClaimRows
    /\ Tickets
    /\ Endings
    /\ Verification
    /\ Locking
    /\ Children
    /\ Evidence
    /\ SuccessHasEvidence

-----------------------------------------------------------------------------
(* A disagreement between the code and what it tells its users. *)

\* _require_idle_for_edit tells the operator to wait for the run to finish, or
\* to cancel it, before the task can be edited: once a run ended and its task is
\* released, no message of it may still count as pending.
EndedRunLeavesNoPendingEmail ==
    \A r \in Runs \ DryRuns :
        status[r] \in Finals \ {"awaiting_receipt"} /\ claim[TaskOf[r]].run # r
           => ~Pending(handoff[r])
=============================================================================
