------------------------- MODULE RunLifecycleProofs -------------------------
(***************************************************************************)
(* The safety theorems of RunLifecycle.  Inductive is shown to hold in the *)
(* initial state and to survive every action, one lemma per conjunct and   *)
(* in each one step per action; the properties follow from it.             *)
(***************************************************************************)
EXTENDS RunLifecycleLemmas, TLAPS

USE RunsAssumption, TaskOfAssumption, PlanAssumption, DryRunsAssumption, LeaseTermAssumption,
    BoundsAssumption

\* Entering a call initializes its locals with typed values.
LEMMA CallTypes ==
    ASSUME WorkerTypes, NEW w \in Workers, NEW l \in Labels, NEW t \in Ticket, NEW v \in BOOLEAN,
           Call(w, l, t, v)
    PROVE  WorkerTypes'
  BY DEF WorkerTypes, Call, Stages, Finals

\* Returning from a call leaves typed locals behind.
LEMMA ReturnTypes ==
    ASSUME WorkerTypes, NEW w \in Workers, Return(w)
    PROVE  WorkerTypes'
<1>1. "idle" \in Labels /\ NoTicket \in Ticket
  BY DEF Labels, NoTicket, Ticket
<1> QED BY <1>1, CallTypes DEF Return

\* Database rows keep their types.
LEMMA RowTypesStep ==
    ASSUME TypeOK, Tickets, Next
    PROVE  RowTypes'
<1>1. ASSUME NEW w \in Workers, Preflight(w) PROVE RowTypes'
  BY <1>1 DEF Preflight, RunOf, database, TypeOK, RowTypes
<1>2. ASSUME NEW w \in Workers, Enter(w) PROVE RowTypes'
  BY <1>2 DEF Enter, ConcurrencyStatus, FailureStatus, database, RunOf, TypeOK, RowTypes
<1>3. ASSUME NEW w \in Workers, AcquireLock(w) PROVE RowTypes'
  BY <1>3 DEF AcquireLock, TaskAt, NoTicket, ConcurrencyStatus, database, NoRun, RunOf, TypeOK,
       RowTypes
<1>4. ASSUME NEW w \in Workers, BeginStage(w) PROVE RowTypes'
  BY <1>4 DEF BeginStage, RunOf, ConcurrencyStatus, database, TypeOK, RowTypes
<1>5. ASSUME NEW w \in Workers, GateStop(w) PROVE RowTypes'
  BY <1>5 DEF GateStop, FailureStatus, RunOf, database, TypeOK, RowTypes
<1>6. ASSUME NEW w \in Workers, RunnerReturns(w) PROVE RowTypes'
  BY <1>6 DEF RunnerReturns, RunOf, ConcurrencyStatus, database, TypeOK, RowTypes
<1>7. ASSUME NEW w \in Workers, CleanupUnverified(w) PROVE RowTypes'
  BY <1>7 DEF CleanupUnverified, RunOf, FailureStatus, database, TypeOK, RowTypes
<1>8. ASSUME NEW w \in Workers, BeginHandoff(w) PROVE RowTypes'
  BY <1>8 DEF BeginHandoff, ConcurrencyStatus, database, RunOf, TypeOK, RowTypes
<1>9. ASSUME NEW w \in Workers, PrepareHandoff(w) PROVE RowTypes'
  BY <1>9 DEF PrepareHandoff, RunOf, TypeOK, RowTypes, HandoffStatuses
<1>10. ASSUME NEW w \in Workers, PublishHandoff(w) PROVE RowTypes'
  BY <1>10 DEF PublishHandoff, RunOf, TypeOK, RowTypes, HandoffStatuses
<1>11. ASSUME NEW w \in Workers, FinalizeBegin(w) PROVE RowTypes'
  BY <1>11 DEF FinalizeBegin, database, TypeOK, RowTypes
<1>12. ASSUME NEW w \in Workers, FinishArchive(w) PROVE RowTypes'
  BY <1>12 DEF FinishArchive, RunOf, database, TypeOK, RowTypes
<1>13. ASSUME NEW w \in Workers, FinalizeCommit(w) PROVE RowTypes'
  BY <1>13 DEF FinalizeCommit, RunOf, Pending, TypeOK, RowTypes, Statuses, Finals,
       HandoffStatuses, WorkerTypes
<1>14. ASSUME NEW w \in Workers, FinalizeAbort(w) PROVE RowTypes'
  BY <1>14 DEF FinalizeAbort, database, TypeOK, RowTypes
<1>15. ASSUME NEW w \in Workers, FinalizeFailed(w) PROVE RowTypes'
  BY <1>15 DEF FinalizeFailed, RunOf, Pending, TypeOK, RowTypes, Statuses, Finals,
       HandoffStatuses
<1>16. ASSUME NEW w \in Workers, Unlock(w) PROVE RowTypes'
  BY <1>16 DEF Unlock, TaskAt, NoTicket, database, NoRun, TypeOK, RowTypes
<1>17. ASSUME NEW w \in Workers, RecordVerified(w) PROVE RowTypes'
  BY <1>17 DEF RecordVerified, MarkVerified, TaskAt, RunOf, TypeOK, RowTypes
<1>18. ASSUME NEW w \in Workers, SetupFailed(w) PROVE RowTypes'
  BY <1>18 DEF SetupFailed, ConcurrencyStatus, FailureStatus, RecordFailure, RunOf, MarkStale,
       TypeOK, RowTypes, Statuses, Finals
<1>19. ASSUME NEW w \in Workers, WorkerFailed(w) PROVE RowTypes'
  BY <1>19 DEF WorkerFailed, RecordFailure, RunOf, MarkStale, TypeOK, RowTypes, Statuses, Finals
<1>20. ASSUME NEW w \in Workers, Release(w) PROVE RowTypes'
  BY <1>20 DEF Release, TaskAt, NoTicket, database, NoRun, TypeOK, RowTypes
<1>21. ASSUME NEW w \in Workers, ReleaseMark(w) PROVE RowTypes'
  BY <1>21 DEF ReleaseMark, MarkVerified, TaskAt, RunOf, TypeOK, RowTypes
<1>22. ASSUME NEW w \in Workers, ReleaseLease(w) PROVE RowTypes'
  BY <1>22 DEF ReleaseLease, DropOwnership, RunOf, NoLease, TaskAt, NoTicket, NoRun, TypeOK,
       RowTypes, Ticket, Lease
<1>23. ASSUME NEW w \in Workers, StaleMark(w) PROVE RowTypes'
  BY <1>23 DEF StaleMark, MarkStale, RunOf, TypeOK, RowTypes, Statuses, Finals
<1>24. ASSUME NEW w \in Workers, StaleUnlock(w) PROVE RowTypes'
  BY <1>24 DEF StaleUnlock, TaskAt, NoTicket, database, NoRun, TypeOK, RowTypes
<1>25. ASSUME NEW w \in Workers, StaleRelease(w) PROVE RowTypes'
  BY SMTT(30), <1>25 DEF StaleRelease, DropOwnership, RunOf, NoLease, TaskAt, NoTicket, NoRun,
       TypeOK,
       RowTypes, Ticket, Lease
<1>26. ASSUME NEW w \in Workers, NEW r \in Runs, TakeClaim(w, r) PROVE RowTypes'
  <2>1. /\ [run |-> r, token |-> lastToken + 1] \in Ticket
        /\ [token |-> lastToken + 1, ttl |-> LeaseTerm] \in Lease
    BY DEF TypeOK, RowTypes, Ticket, Lease
  <2> QED BY <1>26, <2>1 DEF TakeClaim, TypeOK, RowTypes, Statuses
<1>27. ASSUME NEW w \in Workers, NEW r \in Runs, StalePick(w, r) PROVE RowTypes'
  BY <1>27 DEF StalePick, database, TypeOK, RowTypes
<1>28. ASSUME NEW w \in Workers, HeartbeatRenew(w) PROVE RowTypes'
  <2>1. own[w] \in Ticket
    BY DEF TypeOK, WorkerTypes
  <2>2. own[w].token \in Nat
    BY <2>1 DEF Ticket
  <2>3. lease \in [Runs -> Lease] /\ [token |-> own[w].token, ttl |-> LeaseTerm] \in Lease
    BY <2>2 DEF TypeOK, RowTypes, Lease
  <2>4. lease' \in [Runs -> Lease]
    BY <1>28, <2>3 DEF HeartbeatRenew
  <2> QED BY <1>28, <2>4 DEF HeartbeatRenew, TypeOK, RowTypes
<1>29. ASSUME NEW w \in Workers, HeartbeatSignal(w) PROVE RowTypes'
  BY <1>29 DEF HeartbeatSignal, database, TypeOK, RowTypes
<1>30. ASSUME NEW w \in Workers, Crash(w) PROVE RowTypes'
  BY <1>30 DEF Crash, database, TypeOK, RowTypes
<1>31. ASSUME NEW r \in Runs, RequestCancel(r) PROVE RowTypes'
  BY <1>31 DEF RequestCancel, TypeOK, RowTypes, Statuses, Finals
<1>32. ASSUME NEW r \in Runs, CancelPending(r) PROVE RowTypes'
  BY <1>32 DEF CancelPending, Pending, TypeOK, RowTypes, Statuses, Finals, HandoffStatuses
<1>33. ASSUME NEW r \in Runs, Deliver(r) PROVE RowTypes'
  BY <1>33 DEF Deliver, DeliveryResult, TypeOK, RowTypes, Statuses, Finals, HandoffStatuses
<1>34. ASSUME Tick PROVE RowTypes'
  <2>1. ASSUME NEW r \in Runs PROVE Elapse(lease[r]) \in Lease
    <3>1. lease[r] \in Lease
      BY DEF TypeOK, RowTypes
    <3> QED BY <3>1 DEF Lease, Elapse
  <2>2. lease' \in [Runs -> Lease]
    BY <1>34, <2>1 DEF Tick
  <2> QED BY <1>34, <2>2 DEF Tick, TypeOK, RowTypes
<1> QED BY Next, <1>1, <1>2, <1>3, <1>4, <1>5, <1>6, <1>7, <1>8, <1>9, <1>10, <1>11, <1>12,
       <1>13, <1>14, <1>15, <1>16, <1>17, <1>18, <1>19, <1>20, <1>21, <1>22, <1>23, <1>24,
       <1>25, <1>26, <1>27, <1>28, <1>29, <1>30, <1>31, <1>32, <1>33, <1>34
       DEF Next, Execute, Recover, ClaimNext, ClaimRun, Claimable

\* Lock files, archives and process flags keep their types.
LEMMA FileTypesStep ==
    ASSUME TypeOK, Next
    PROVE  FileTypes'
<1>1. ASSUME NEW w \in Workers, Preflight(w) PROVE FileTypes'
  BY <1>1 DEF Preflight, RunOf, TypeOK, FileTypes, Finals
<1>2. ASSUME NEW w \in Workers, Enter(w) PROVE FileTypes'
  BY <1>2 DEF Enter, files, TypeOK, FileTypes
<1>3. ASSUME NEW w \in Workers, AcquireLock(w) PROVE FileTypes'
  BY <1>3 DEF AcquireLock, TaskAt, NoTicket, NoRun, TypeOK, FileTypes, WorkerTypes
<1>4. ASSUME NEW w \in Workers, BeginStage(w) PROVE FileTypes'
  BY <1>4 DEF BeginStage, RunOf, TypeOK, FileTypes
<1>5. ASSUME NEW w \in Workers, GateStop(w) PROVE FileTypes'
  BY <1>5 DEF GateStop, RunOf, files, TypeOK, FileTypes
<1>6. ASSUME NEW w \in Workers, RunnerReturns(w) PROVE FileTypes'
  BY <1>6 DEF RunnerReturns, RunOf, TypeOK, FileTypes
<1>7. ASSUME NEW w \in Workers, CleanupUnverified(w) PROVE FileTypes'
  BY <1>7 DEF CleanupUnverified, RunOf, TypeOK, FileTypes
<1>8. ASSUME NEW w \in Workers, BeginHandoff(w) PROVE FileTypes'
  BY <1>8 DEF BeginHandoff, files, TypeOK, FileTypes
<1>9. ASSUME NEW w \in Workers, PrepareHandoff(w) PROVE FileTypes'
  BY <1>9 DEF PrepareHandoff, RunOf, files, TypeOK, FileTypes
<1>10. ASSUME NEW w \in Workers, PublishHandoff(w) PROVE FileTypes'
  BY <1>10 DEF PublishHandoff, RunOf, files, TypeOK, FileTypes
<1>11. ASSUME NEW w \in Workers, FinalizeBegin(w) PROVE FileTypes'
  BY <1>11 DEF FinalizeBegin, files, TypeOK, FileTypes
<1>12. ASSUME NEW w \in Workers, FinishArchive(w) PROVE FileTypes'
  BY <1>12 DEF FinishArchive, RunOf, TypeOK, FileTypes, WorkerTypes
<1>13. ASSUME NEW w \in Workers, FinalizeCommit(w) PROVE FileTypes'
  BY <1>13 DEF FinalizeCommit, RunOf, files, TypeOK, FileTypes
<1>14. ASSUME NEW w \in Workers, FinalizeAbort(w) PROVE FileTypes'
  BY <1>14 DEF FinalizeAbort, files, TypeOK, FileTypes
<1>15. ASSUME NEW w \in Workers, FinalizeFailed(w) PROVE FileTypes'
  BY <1>15 DEF FinalizeFailed, RunOf, files, TypeOK, FileTypes
<1>16. ASSUME NEW w \in Workers, Unlock(w) PROVE FileTypes'
  BY <1>16 DEF Unlock, TaskAt, NoTicket, NoRun, TypeOK, FileTypes, Ticket
<1>17. ASSUME NEW w \in Workers, RecordVerified(w) PROVE FileTypes'
  BY <1>17 DEF RecordVerified, files, TypeOK, FileTypes
<1>18. ASSUME NEW w \in Workers, SetupFailed(w) PROVE FileTypes'
  BY <1>18 DEF SetupFailed, files, TypeOK, FileTypes
<1>19. ASSUME NEW w \in Workers, WorkerFailed(w) PROVE FileTypes'
  BY <1>19 DEF WorkerFailed, files, TypeOK, FileTypes
<1>20. ASSUME NEW w \in Workers, Release(w) PROVE FileTypes'
  BY <1>20 DEF Release, TaskAt, NoTicket, files, NoRun, TypeOK, FileTypes
<1>21. ASSUME NEW w \in Workers, ReleaseMark(w) PROVE FileTypes'
  BY <1>21 DEF ReleaseMark, files, TypeOK, FileTypes
<1>22. ASSUME NEW w \in Workers, ReleaseLease(w) PROVE FileTypes'
  BY <1>22 DEF ReleaseLease, files, TypeOK, FileTypes
<1>23. ASSUME NEW w \in Workers, StaleMark(w) PROVE FileTypes'
  BY <1>23 DEF StaleMark, files, TypeOK, FileTypes
<1>24. ASSUME NEW w \in Workers, StaleUnlock(w) PROVE FileTypes'
  BY <1>24 DEF StaleUnlock, TaskAt, NoTicket, NoRun, TypeOK, FileTypes, Ticket
<1>25. ASSUME NEW w \in Workers, StaleRelease(w) PROVE FileTypes'
  BY <1>25 DEF StaleRelease, files, TypeOK, FileTypes
<1>26. ASSUME NEW w \in Workers, NEW r \in Runs, TakeClaim(w, r) PROVE FileTypes'
  BY <1>26 DEF TakeClaim, files, TypeOK, FileTypes
<1>27. ASSUME NEW w \in Workers, NEW r \in Runs, StalePick(w, r) PROVE FileTypes'
  BY <1>27 DEF StalePick, files, TypeOK, FileTypes
<1>28. ASSUME NEW w \in Workers, HeartbeatRenew(w) PROVE FileTypes'
  BY <1>28 DEF HeartbeatRenew, RunOf, files, TypeOK, FileTypes
<1>29. ASSUME NEW w \in Workers, HeartbeatSignal(w) PROVE FileTypes'
  BY <1>29 DEF HeartbeatSignal, files, TypeOK, FileTypes
<1>30. ASSUME NEW w \in Workers, Crash(w) PROVE FileTypes'
  BY <1>30 DEF Crash, files, TypeOK, FileTypes
<1>31. ASSUME NEW r \in Runs, RequestCancel(r) PROVE FileTypes'
  BY <1>31 DEF RequestCancel, files, TypeOK, FileTypes
<1>32. ASSUME NEW r \in Runs, CancelPending(r) PROVE FileTypes'
  BY <1>32 DEF CancelPending, files, TypeOK, FileTypes
<1>33. ASSUME NEW r \in Runs, Deliver(r) PROVE FileTypes'
  BY <1>33 DEF Deliver, DeliveryResult, files, TypeOK, FileTypes
<1>34. ASSUME Tick PROVE FileTypes'
  BY <1>34 DEF Tick, Elapse, files, TypeOK, FileTypes
<1> QED BY Next, <1>1, <1>2, <1>3, <1>4, <1>5, <1>6, <1>7, <1>8, <1>9, <1>10, <1>11, <1>12,
       <1>13, <1>14, <1>15, <1>16, <1>17, <1>18, <1>19, <1>20, <1>21, <1>22, <1>23, <1>24,
       <1>25, <1>26, <1>27, <1>28, <1>29, <1>30, <1>31, <1>32, <1>33, <1>34
       DEF Next, Execute, Recover, ClaimNext, ClaimRun, Claimable

\* The local variables of the workers keep their types.
LEMMA WorkerTypesStep ==
    ASSUME TypeOK, Tickets, Next
    PROVE  WorkerTypes'
<1>1. ASSUME NEW w \in Workers, Preflight(w) PROVE WorkerTypes'
  <2>1. RunOf(w) \in Runs
    BY <1>1 DEF Preflight, At, Tickets
  <2>2. Plan[RunOf(w)] \in Scopes
    BY <2>1
  <2>3. FirstStage[Plan[RunOf(w)]] \in Stages
    BY <2>2 DEF FirstStage, Scopes, Stages
  <2>4. /\ stage' = stage \/ stage' = [stage EXCEPT ![w] = FirstStage[Plan[RunOf(w)]]]
        /\ stop' = stop \/ stop' = [stop EXCEPT ![w] = @ \/ cancelRequested[RunOf(w)]]
        /\ \E l \in {"enter", "setup_failed", "worker_failed"} : pc' = [pc EXCEPT ![w] = l]
        /\ UNCHANGED <<own, locked, cleanup, published, final, raised>>
    BY <1>1 DEF Preflight, Goto
  <2> QED BY <2>3, <2>4 DEF TypeOK, WorkerTypes, Labels, ExecutingPc
<1>2. ASSUME NEW w \in Workers, Enter(w) PROVE WorkerTypes'
  BY <1>2 DEF Enter, Goto, Stop, ConcurrencyStatus, FailureStatus, RunOf, TypeOK, WorkerTypes,
       Labels, ExecutingPc, RecoveryPc, Finals
<1>3. ASSUME NEW w \in Workers, AcquireLock(w) PROVE WorkerTypes'
  <2>1. /\ \E l \in {"ready", "finalize"} : pc' = [pc EXCEPT ![w] = l]
        /\ final' = final
              \/ \E f \in Finals : final' = [final EXCEPT ![w] = f]
    BY <1>3 DEF AcquireLock, Goto, Stop, ConcurrencyStatus, Finals
  <2>2. /\ locked' = locked \/ locked' = [locked EXCEPT ![w] = TRUE]
        /\ UNCHANGED <<own, stage, cleanup, published, stop, raised>>
    BY <1>3 DEF AcquireLock
  <2>3. pc' \in [Workers -> Labels] /\ final' \in [Workers -> Finals]
    BY <2>1 DEF TypeOK, WorkerTypes, Labels, ExecutingPc
  <2>4. locked' \in [Workers -> BOOLEAN]
    BY <2>2 DEF TypeOK, WorkerTypes
  <2> QED BY <2>2, <2>3, <2>4 DEF TypeOK, WorkerTypes
<1>4. ASSUME NEW w \in Workers, BeginStage(w) PROVE WorkerTypes'
  BY <1>4 DEF BeginStage, Goto, RunOf, Stop, ConcurrencyStatus, TypeOK, WorkerTypes, Labels,
       ExecutingPc, RecoveryPc, Finals
<1>5. ASSUME NEW w \in Workers, GateStop(w) PROVE WorkerTypes'
  BY <1>5 DEF GateStop, FailureStatus, Stop, RunOf, Goto, TypeOK, WorkerTypes, Labels,
       ExecutingPc, RecoveryPc, Finals
<1>6. ASSUME NEW w \in Workers, RunnerReturns(w) PROVE WorkerTypes'
  BY <1>6 DEF RunnerReturns, RunOf, Goto, NextStage, Stop, ConcurrencyStatus, TypeOK,
       WorkerTypes, Labels, ExecutingPc, RecoveryPc, Finals, Stages
<1>7. ASSUME NEW w \in Workers, CleanupUnverified(w) PROVE WorkerTypes'
  BY <1>7 DEF CleanupUnverified, RunOf, FailureStatus, Stop, Goto, TypeOK, WorkerTypes, Labels,
       ExecutingPc, RecoveryPc, Finals
<1>8. ASSUME NEW w \in Workers, BeginHandoff(w) PROVE WorkerTypes'
  BY <1>8 DEF BeginHandoff, Goto, Stop, ConcurrencyStatus, RunOf, TypeOK, WorkerTypes, Labels,
       ExecutingPc, RecoveryPc, Finals
<1>9. ASSUME NEW w \in Workers, PrepareHandoff(w) PROVE WorkerTypes'
  <2>1. /\ \E l \in {"publish", "finalize"} : pc' = [pc EXCEPT ![w] = l]
        /\ final' = final
              \/ \E f \in Finals : final' = [final EXCEPT ![w] = f]
    BY <1>9 DEF PrepareHandoff, Goto, Stop, HandedOver, HandoffRaised, FailureStatus, Finals
  <2>2. /\ published' = published \/ published' = [published EXCEPT ![w] = TRUE]
        /\ UNCHANGED <<own, stage, locked, cleanup, stop, raised>>
    BY <1>9 DEF PrepareHandoff, HandedOver, HandoffRaised
  <2>3. pc' \in [Workers -> Labels] /\ final' \in [Workers -> Finals]
    BY <2>1 DEF TypeOK, WorkerTypes, Labels, ExecutingPc
  <2>4. published' \in [Workers -> BOOLEAN]
    BY <2>2 DEF TypeOK, WorkerTypes
  <2> QED BY <2>2, <2>3, <2>4 DEF TypeOK, WorkerTypes
<1>10. ASSUME NEW w \in Workers, PublishHandoff(w) PROVE WorkerTypes'
  <2>1. /\ \E l \in {"publish", "finalize"} : pc' = [pc EXCEPT ![w] = l]
        /\ final' = final
              \/ \E f \in Finals : final' = [final EXCEPT ![w] = f]
    BY <1>10 DEF PublishHandoff, Goto, Stop, HandedOver, HandoffRaised, FailureStatus, Finals
  <2>2. /\ published' = published \/ published' = [published EXCEPT ![w] = TRUE]
        /\ UNCHANGED <<own, stage, locked, cleanup, stop, raised>>
    BY <1>10 DEF PublishHandoff, HandedOver, HandoffRaised
  <2>3. pc' \in [Workers -> Labels] /\ final' \in [Workers -> Finals]
    BY <2>1 DEF TypeOK, WorkerTypes, Labels, ExecutingPc
  <2>4. published' \in [Workers -> BOOLEAN]
    BY <2>2 DEF TypeOK, WorkerTypes
  <2> QED BY <2>2, <2>3, <2>4 DEF TypeOK, WorkerTypes
<1>11. ASSUME NEW w \in Workers, FinalizeBegin(w) PROVE WorkerTypes'
  BY <1>11 DEF FinalizeBegin, Goto, FinalStatus, RunOf, TypeOK, WorkerTypes, Labels,
       ExecutingPc, RecoveryPc, Finals
<1>12. ASSUME NEW w \in Workers, FinishArchive(w) PROVE WorkerTypes'
  BY <1>12 DEF FinishArchive, RunOf, Goto, locals, TypeOK, WorkerTypes, Labels, ExecutingPc,
       RecoveryPc, Finals
<1>13. ASSUME NEW w \in Workers, FinalizeCommit(w) PROVE WorkerTypes'
  BY <1>13 DEF FinalizeCommit, RunOf, Goto, locals, TypeOK, WorkerTypes, Labels, ExecutingPc,
       RecoveryPc, Finals
<1>14. ASSUME NEW w \in Workers, FinalizeAbort(w) PROVE WorkerTypes'
  BY <1>14 DEF FinalizeAbort, Goto, locals, TypeOK, WorkerTypes, Labels, ExecutingPc,
       RecoveryPc, Finals
<1>15. ASSUME NEW w \in Workers, FinalizeFailed(w) PROVE WorkerTypes'
  BY <1>15 DEF FinalizeFailed, RunOf, Goto, TypeOK, WorkerTypes, Labels, ExecutingPc,
       RecoveryPc, Finals
<1>16. ASSUME NEW w \in Workers, Unlock(w) PROVE WorkerTypes'
  BY <1>16 DEF Unlock, TaskAt, NoTicket, Goto, AfterFinalize, locals, NoRun, TypeOK,
       WorkerTypes, Labels, ExecutingPc, RecoveryPc
<1>17. ASSUME NEW w \in Workers, RecordVerified(w) PROVE WorkerTypes'
  BY <1>17 DEF RecordVerified, Goto, AfterFinalize, locals, TypeOK, WorkerTypes, Labels,
       ExecutingPc, RecoveryPc
<1>18. ASSUME NEW w \in Workers, SetupFailed(w) PROVE WorkerTypes'
  BY <1>18 DEF SetupFailed, ConcurrencyStatus, FailureStatus, Goto, locals, RunOf, TypeOK,
       WorkerTypes, Labels, ExecutingPc, RecoveryPc
<1>19. ASSUME NEW w \in Workers, WorkerFailed(w) PROVE WorkerTypes'
  BY <1>19 DEF WorkerFailed, Goto, locals, TypeOK, WorkerTypes, Labels, ExecutingPc, RecoveryPc
<1>20. ASSUME NEW w \in Workers, Release(w) PROVE WorkerTypes'
  BY <1>20, ReturnTypes DEF Release, TaskAt, NoTicket, Goto, locals, NoRun, TypeOK, WorkerTypes,
       Labels, ExecutingPc, RecoveryPc
<1>21. ASSUME NEW w \in Workers, ReleaseMark(w) PROVE WorkerTypes'
  BY <1>21 DEF ReleaseMark, Goto, locals, TypeOK, WorkerTypes, Labels, ExecutingPc, RecoveryPc
<1>22. ASSUME NEW w \in Workers, ReleaseLease(w) PROVE WorkerTypes'
  BY <1>22, ReturnTypes DEF ReleaseLease, TypeOK, WorkerTypes
<1>23. ASSUME NEW w \in Workers, StaleMark(w) PROVE WorkerTypes'
  BY <1>23, ReturnTypes DEF StaleMark, Goto, locals, TypeOK, WorkerTypes, Labels, ExecutingPc,
       RecoveryPc
<1>24. ASSUME NEW w \in Workers, StaleUnlock(w) PROVE WorkerTypes'
  BY <1>24, ReturnTypes DEF StaleUnlock, TaskAt, NoTicket, Goto, locals, NoRun, TypeOK,
       WorkerTypes, Labels, ExecutingPc, RecoveryPc
<1>25. ASSUME NEW w \in Workers, StaleRelease(w) PROVE WorkerTypes'
  BY <1>25, ReturnTypes DEF StaleRelease, TypeOK, WorkerTypes
<1>26. ASSUME NEW w \in Workers, NEW r \in Runs, TakeClaim(w, r) PROVE WorkerTypes'
  <2>1. "preflight" \in Labels /\ [run |-> r, token |-> lastToken + 1] \in Ticket
    BY DEF TypeOK, RowTypes, Ticket, Labels, ExecutingPc
  <2>2. Call(w, "preflight", [run |-> r, token |-> lastToken + 1], TRUE)
    BY <1>26 DEF TakeClaim
  <2> QED BY <2>1, <2>2, CallTypes DEF TypeOK
<1>27. ASSUME NEW w \in Workers, NEW r \in Runs, StalePick(w, r) PROVE WorkerTypes'
  <2>1. lease[r] \in Lease /\ cleanupVerified[r] \in BOOLEAN
    BY DEF TypeOK, RowTypes
  <2>2. /\ "stale_mark" \in Labels /\ "stale_unlock" \in Labels
        /\ [run |-> r, token |-> lease[r].token] \in Ticket
    BY <2>1 DEF Lease, Ticket, Labels, RecoveryPc
  <2>3. \/ Call(w, "stale_mark", [run |-> r, token |-> lease[r].token], cleanupVerified[r])
        \/ Call(w, "stale_unlock", [run |-> r, token |-> lease[r].token], TRUE)
    BY <1>27 DEF StalePick
  <2>4. WorkerTypes
    BY DEF TypeOK
  <2>5. CASE Call(w, "stale_mark", [run |-> r, token |-> lease[r].token], cleanupVerified[r])
    BY <2>1, <2>2, <2>4, <2>5, CallTypes
  <2>6. CASE Call(w, "stale_unlock", [run |-> r, token |-> lease[r].token], TRUE)
    BY <2>2, <2>4, <2>6, CallTypes
  <2> QED BY <2>3, <2>5, <2>6
<1>28. ASSUME NEW w \in Workers, HeartbeatRenew(w) PROVE WorkerTypes'
  BY <1>28 DEF HeartbeatRenew, RunOf, locals, TypeOK, WorkerTypes, Labels, ExecutingPc,
       RecoveryPc
<1>29. ASSUME NEW w \in Workers, HeartbeatSignal(w) PROVE WorkerTypes'
  BY <1>29 DEF HeartbeatSignal, TypeOK, WorkerTypes, Labels, ExecutingPc, RecoveryPc, Finals
<1>30. ASSUME NEW w \in Workers, Crash(w) PROVE WorkerTypes'
  BY <1>30, ReturnTypes DEF Crash, TypeOK, WorkerTypes
<1>31. ASSUME NEW r \in Runs, RequestCancel(r) PROVE WorkerTypes'
  BY <1>31 DEF RequestCancel, locals, TypeOK, WorkerTypes, Labels, ExecutingPc, RecoveryPc
<1>32. ASSUME NEW r \in Runs, CancelPending(r) PROVE WorkerTypes'
  BY <1>32 DEF CancelPending, locals, TypeOK, WorkerTypes, Labels, ExecutingPc, RecoveryPc
<1>33. ASSUME NEW r \in Runs, Deliver(r) PROVE WorkerTypes'
  BY <1>33 DEF Deliver, DeliveryResult, locals, TypeOK, WorkerTypes, Labels, ExecutingPc,
       RecoveryPc
<1>34. ASSUME Tick PROVE WorkerTypes'
  BY <1>34 DEF Tick, Elapse, locals, TypeOK, WorkerTypes, Labels, ExecutingPc, RecoveryPc
<1> QED BY Next, <1>1, <1>2, <1>3, <1>4, <1>5, <1>6, <1>7, <1>8, <1>9, <1>10, <1>11, <1>12,
       <1>13, <1>14, <1>15, <1>16, <1>17, <1>18, <1>19, <1>20, <1>21, <1>22, <1>23, <1>24,
       <1>25, <1>26, <1>27, <1>28, <1>29, <1>30, <1>31, <1>32, <1>33, <1>34
       DEF Next, Execute, Recover, ClaimNext, ClaimRun, Claimable

\* The crash counter stays a number.
LEMMA CrashCountStep ==
    ASSUME crashes \in Nat, Next
    PROVE  (crashes \in Nat)'
<1>1. ASSUME NEW w \in Workers, Preflight(w) PROVE (crashes \in Nat)'
  BY <1>1 DEF Preflight
<1>2. ASSUME NEW w \in Workers, Enter(w) PROVE (crashes \in Nat)'
  BY <1>2 DEF Enter
<1>3. ASSUME NEW w \in Workers, AcquireLock(w) PROVE (crashes \in Nat)'
  BY <1>3 DEF AcquireLock
<1>4. ASSUME NEW w \in Workers, BeginStage(w) PROVE (crashes \in Nat)'
  BY <1>4 DEF BeginStage
<1>5. ASSUME NEW w \in Workers, GateStop(w) PROVE (crashes \in Nat)'
  BY <1>5 DEF GateStop
<1>6. ASSUME NEW w \in Workers, RunnerReturns(w) PROVE (crashes \in Nat)'
  BY <1>6 DEF RunnerReturns
<1>7. ASSUME NEW w \in Workers, CleanupUnverified(w) PROVE (crashes \in Nat)'
  BY <1>7 DEF CleanupUnverified
<1>8. ASSUME NEW w \in Workers, BeginHandoff(w) PROVE (crashes \in Nat)'
  BY <1>8 DEF BeginHandoff
<1>9. ASSUME NEW w \in Workers, PrepareHandoff(w) PROVE (crashes \in Nat)'
  BY <1>9 DEF PrepareHandoff
<1>10. ASSUME NEW w \in Workers, PublishHandoff(w) PROVE (crashes \in Nat)'
  BY <1>10 DEF PublishHandoff
<1>11. ASSUME NEW w \in Workers, FinalizeBegin(w) PROVE (crashes \in Nat)'
  BY <1>11 DEF FinalizeBegin
<1>12. ASSUME NEW w \in Workers, FinishArchive(w) PROVE (crashes \in Nat)'
  BY <1>12 DEF FinishArchive
<1>13. ASSUME NEW w \in Workers, FinalizeCommit(w) PROVE (crashes \in Nat)'
  BY <1>13 DEF FinalizeCommit
<1>14. ASSUME NEW w \in Workers, FinalizeAbort(w) PROVE (crashes \in Nat)'
  BY <1>14 DEF FinalizeAbort
<1>15. ASSUME NEW w \in Workers, FinalizeFailed(w) PROVE (crashes \in Nat)'
  BY <1>15 DEF FinalizeFailed
<1>16. ASSUME NEW w \in Workers, Unlock(w) PROVE (crashes \in Nat)'
  BY <1>16 DEF Unlock
<1>17. ASSUME NEW w \in Workers, RecordVerified(w) PROVE (crashes \in Nat)'
  BY <1>17 DEF RecordVerified
<1>18. ASSUME NEW w \in Workers, SetupFailed(w) PROVE (crashes \in Nat)'
  BY <1>18 DEF SetupFailed
<1>19. ASSUME NEW w \in Workers, WorkerFailed(w) PROVE (crashes \in Nat)'
  BY <1>19 DEF WorkerFailed
<1>20. ASSUME NEW w \in Workers, Release(w) PROVE (crashes \in Nat)'
  BY <1>20 DEF Release
<1>21. ASSUME NEW w \in Workers, ReleaseMark(w) PROVE (crashes \in Nat)'
  BY <1>21 DEF ReleaseMark
<1>22. ASSUME NEW w \in Workers, ReleaseLease(w) PROVE (crashes \in Nat)'
  BY <1>22 DEF ReleaseLease
<1>23. ASSUME NEW w \in Workers, StaleMark(w) PROVE (crashes \in Nat)'
  BY <1>23 DEF StaleMark
<1>24. ASSUME NEW w \in Workers, StaleUnlock(w) PROVE (crashes \in Nat)'
  BY <1>24 DEF StaleUnlock
<1>25. ASSUME NEW w \in Workers, StaleRelease(w) PROVE (crashes \in Nat)'
  BY <1>25 DEF StaleRelease
<1>26. ASSUME NEW w \in Workers, NEW r \in Runs, TakeClaim(w, r) PROVE (crashes \in Nat)'
  BY <1>26 DEF TakeClaim
<1>27. ASSUME NEW w \in Workers, NEW r \in Runs, StalePick(w, r) PROVE (crashes \in Nat)'
  BY <1>27 DEF StalePick
<1>28. ASSUME NEW w \in Workers, HeartbeatRenew(w) PROVE (crashes \in Nat)'
  BY <1>28 DEF HeartbeatRenew
<1>29. ASSUME NEW w \in Workers, HeartbeatSignal(w) PROVE (crashes \in Nat)'
  BY <1>29 DEF HeartbeatSignal
<1>30. ASSUME NEW w \in Workers, Crash(w) PROVE (crashes \in Nat)'
  BY <1>30 DEF Crash
<1>31. ASSUME NEW r \in Runs, RequestCancel(r) PROVE (crashes \in Nat)'
  BY <1>31 DEF RequestCancel
<1>32. ASSUME NEW r \in Runs, CancelPending(r) PROVE (crashes \in Nat)'
  BY <1>32 DEF CancelPending
<1>33. ASSUME NEW r \in Runs, Deliver(r) PROVE (crashes \in Nat)'
  BY <1>33 DEF Deliver
<1>34. ASSUME Tick PROVE (crashes \in Nat)'
  BY <1>34 DEF Tick
<1> QED BY Next, <1>1, <1>2, <1>3, <1>4, <1>5, <1>6, <1>7, <1>8, <1>9, <1>10, <1>11, <1>12,
       <1>13, <1>14, <1>15, <1>16, <1>17, <1>18, <1>19, <1>20, <1>21, <1>22, <1>23, <1>24,
       <1>25, <1>26, <1>27, <1>28, <1>29, <1>30, <1>31, <1>32, <1>33, <1>34
       DEF Next, Execute, Recover, ClaimNext, ClaimRun, Claimable

-----------------------------------------------------------------------------
(* Preservation of the invariant, one lemma per conjunct. *)

\* Claims, leases and running statuses stay in step: only a run that no longer
\* runs loses its claim.
LEMMA ClaimRowsStep ==
    ASSUME TypeOK, ClaimRows, Tickets, Endings, Next
    PROVE  ClaimRows'
<1>1. ASSUME NEW w \in Workers, Preflight(w) PROVE ClaimRows'
  BY <1>1 DEF Preflight, At, Owns, RunOf, database, LeaseLive, HoldsRows, TaskAt, TypeOK,
       RowTypes, WorkerTypes, ClaimRows, Tickets, Endings
<1>2. ASSUME NEW w \in Workers, Enter(w) PROVE ClaimRows'
  BY <1>2 DEF Enter, At, database, files, TypeOK, RowTypes, WorkerTypes, ClaimRows, Tickets,
       Endings, RunOf, TaskAt
<1>3. ASSUME NEW w \in Workers, AcquireLock(w) PROVE ClaimRows'
  BY <1>3 DEF AcquireLock, At, TaskAt, NoTicket, database, NoRun, TypeOK, RowTypes, WorkerTypes,
       ClaimRows, Tickets, Endings, RunOf
<1>4. ASSUME NEW w \in Workers, BeginStage(w) PROVE ClaimRows'
  BY <1>4 DEF BeginStage, At, RunOf, database, TypeOK, RowTypes, WorkerTypes, ClaimRows,
       Tickets, Endings, TaskAt
<1>5. ASSUME NEW w \in Workers, GateStop(w) PROVE ClaimRows'
  BY <1>5 DEF GateStop, At, RunOf, database, files, TypeOK, RowTypes, WorkerTypes, ClaimRows,
       Tickets, Endings, TaskAt
<1>6. ASSUME NEW w \in Workers, RunnerReturns(w) PROVE ClaimRows'
  BY <1>6 DEF RunnerReturns, At, RunOf, database, TypeOK, RowTypes, WorkerTypes, ClaimRows,
       Tickets, Endings, TaskAt
<1>7. ASSUME NEW w \in Workers, CleanupUnverified(w) PROVE ClaimRows'
  BY <1>7 DEF CleanupUnverified, At, RunOf, database, TypeOK, RowTypes, WorkerTypes, ClaimRows,
       Tickets, Endings, TaskAt
<1>8. ASSUME NEW w \in Workers, BeginHandoff(w) PROVE ClaimRows'
  BY <1>8 DEF BeginHandoff, At, database, files, TypeOK, RowTypes, WorkerTypes, ClaimRows,
       Tickets, Endings, RunOf, TaskAt
<1>9. ASSUME NEW w \in Workers, PrepareHandoff(w) PROVE ClaimRows'
  BY <1>9 DEF PrepareHandoff, At, RunOf, files, TypeOK, RowTypes, WorkerTypes, ClaimRows,
       Tickets, Endings, TaskAt
<1>10. ASSUME NEW w \in Workers, PublishHandoff(w) PROVE ClaimRows'
  BY SMTT(30), <1>10 DEF PublishHandoff, At, RunOf, files, TypeOK, RowTypes, WorkerTypes,
       ClaimRows,
       Tickets, Endings, TaskAt
<1>11. ASSUME NEW w \in Workers, FinalizeBegin(w) PROVE ClaimRows'
  BY <1>11 DEF FinalizeBegin, At, Owns, database, files, RunOf, LeaseLive, HoldsRows, TaskAt,
       TypeOK, RowTypes, WorkerTypes, ClaimRows, Tickets, Endings
<1>12. ASSUME NEW w \in Workers, FinishArchive(w) PROVE ClaimRows'
  BY <1>12 DEF FinishArchive, At, Owns, RunOf, database, locals, LeaseLive, HoldsRows, TaskAt,
       TypeOK, RowTypes, WorkerTypes, ClaimRows, Tickets, Endings
<1>13. ASSUME NEW w \in Workers, FinalizeCommit(w) PROVE ClaimRows'
  <2>1. pc[w] # "idle" /\ Settles(w)
    BY <1>13, CommitSettles DEF FinalizeCommit, At
  <2>2. UNCHANGED <<claim, lease, cleanupVerified>>
    BY <1>13 DEF FinalizeCommit
  <2> QED BY <2>1, <2>2, ClaimRowsSettle
<1>14. ASSUME NEW w \in Workers, FinalizeAbort(w) PROVE ClaimRows'
  BY <1>14 DEF FinalizeAbort, At, database, files, locals, TypeOK, RowTypes, WorkerTypes,
       ClaimRows, Tickets, Endings, RunOf, TaskAt
<1>15. ASSUME NEW w \in Workers, FinalizeFailed(w) PROVE ClaimRows'
  <2>1. pc[w] # "idle" /\ Settles(w)
    BY <1>15, FinalizeFailedSettles DEF FinalizeFailed, At
  <2>2. UNCHANGED <<claim, lease, cleanupVerified>>
    BY <1>15 DEF FinalizeFailed
  <2> QED BY <2>1, <2>2, ClaimRowsSettle
<1>16. ASSUME NEW w \in Workers, Unlock(w) PROVE ClaimRows'
  BY <1>16 DEF Unlock, At, TaskAt, NoTicket, database, locals, NoRun, TypeOK, RowTypes,
       WorkerTypes, ClaimRows, Tickets, Endings, RunOf
<1>17. ASSUME NEW w \in Workers, RecordVerified(w) PROVE ClaimRows'
  BY <1>17 DEF RecordVerified, At, MarkVerified, files, locals, TaskAt, RunOf, TypeOK, RowTypes,
       WorkerTypes, ClaimRows, Tickets, Endings
<1>18. ASSUME NEW w \in Workers, SetupFailed(w) PROVE ClaimRows'
  <2>1. pc[w] # "idle" /\ Settles(w)
    BY <1>18, FailureSettles DEF SetupFailed, At, ConcurrencyStatus, FailureStatus, Finals
  <2>2. UNCHANGED <<claim, lease, cleanupVerified>>
    BY <1>18 DEF SetupFailed
  <2> QED BY <2>1, <2>2, ClaimRowsSettle
<1>19. ASSUME NEW w \in Workers, WorkerFailed(w) PROVE ClaimRows'
  <2>1. pc[w] # "idle" /\ Settles(w)
    BY <1>19, FailureSettles DEF WorkerFailed, At, Finals
  <2>2. UNCHANGED <<claim, lease, cleanupVerified>>
    BY <1>19 DEF WorkerFailed
  <2> QED BY <2>1, <2>2, ClaimRowsSettle
<1>20. ASSUME NEW w \in Workers, Release(w) PROVE ClaimRows'
  BY <1>20 DEF Release, At, TaskAt, NoTicket, locals, database, files, NoRun, TypeOK, RowTypes,
       WorkerTypes, ClaimRows, Tickets, Endings, RunOf
<1>21. ASSUME NEW w \in Workers, ReleaseMark(w) PROVE ClaimRows'
  BY <1>21 DEF ReleaseMark, At, MarkVerified, files, locals, TaskAt, RunOf, TypeOK, RowTypes,
       WorkerTypes, ClaimRows, Tickets, Endings
<1>22. ASSUME NEW w \in Workers, ReleaseLease(w) PROVE ClaimRows'
  <2>1. pc[w] # "idle" /\ DropOwnership(w) /\ status[RunOf(w)] # "running"
        /\ UNCHANGED <<status, cleanupVerified>>
    BY <1>22 DEF ReleaseLease, At, Endings
  <2> QED BY <2>1, ClaimRowsDrop
<1>23. ASSUME NEW w \in Workers, StaleMark(w) PROVE ClaimRows'
  <2>1. pc[w] # "idle" /\ Settles(w)
    BY <1>23, StaleSettles DEF StaleMark, At
  <2>2. UNCHANGED <<claim, lease, cleanupVerified>>
    BY <1>23 DEF StaleMark
  <2> QED BY <2>1, <2>2, ClaimRowsSettle
<1>24. ASSUME NEW w \in Workers, StaleUnlock(w) PROVE ClaimRows'
  BY <1>24 DEF StaleUnlock, At, TaskAt, NoTicket, locals, database, NoRun, TypeOK, RowTypes,
       WorkerTypes, ClaimRows, Tickets, Endings, RunOf
<1>25. ASSUME NEW w \in Workers, StaleRelease(w) PROVE ClaimRows'
  <2>1. pc[w] # "idle" /\ DropOwnership(w) /\ status[RunOf(w)] # "running"
        /\ UNCHANGED <<status, cleanupVerified>>
    BY <1>25 DEF StaleRelease, At, Endings
  <2> QED BY <2>1, ClaimRowsDrop
<1>26. ASSUME NEW w \in Workers, NEW r \in Runs, TakeClaim(w, r) PROVE ClaimRows'
  BY <1>26 DEF TakeClaim, At, Claimable, files, NoTicket, NoRun, TypeOK, RowTypes, WorkerTypes,
       ClaimRows, Tickets, Endings, RunOf, TaskAt, Ticket, Lease
<1>27. ASSUME NEW w \in Workers, NEW r \in Runs, StalePick(w, r) PROVE ClaimRows'
  BY <1>27 DEF StalePick, At, database, files, TypeOK, RowTypes, WorkerTypes, ClaimRows,
       Tickets, Endings, RunOf, TaskAt
<1>28. ASSUME NEW w \in Workers, HeartbeatRenew(w) PROVE ClaimRows'
  BY <1>28 DEF HeartbeatRenew, RunOf, files, locals, TypeOK, RowTypes, WorkerTypes, ClaimRows,
       Tickets, Endings, TaskAt, Ticket, Lease
<1>29. ASSUME NEW w \in Workers, HeartbeatSignal(w) PROVE ClaimRows'
  BY <1>29 DEF HeartbeatSignal, database, files, TypeOK, RowTypes, WorkerTypes, ClaimRows,
       Tickets, Endings, RunOf, TaskAt
<1>30. ASSUME NEW w \in Workers, Crash(w) PROVE ClaimRows'
  BY <1>30 DEF Crash, At, database, files, TypeOK, RowTypes, WorkerTypes, ClaimRows, Tickets,
       Endings, RunOf, TaskAt
<1>31. ASSUME NEW r \in Runs, RequestCancel(r) PROVE ClaimRows'
  BY <1>31 DEF RequestCancel, files, locals, TypeOK, RowTypes, WorkerTypes, ClaimRows, Tickets,
       Endings, RunOf, TaskAt
<1>32. ASSUME NEW r \in Runs, CancelPending(r) PROVE ClaimRows'
  BY <1>32 DEF CancelPending, files, locals, TypeOK, RowTypes, WorkerTypes, ClaimRows, Tickets,
       Endings, RunOf, TaskAt
<1>33. ASSUME NEW r \in Runs, Deliver(r) PROVE ClaimRows'
  BY <1>33 DEF Deliver, files, locals, TypeOK, RowTypes, WorkerTypes, ClaimRows, Tickets,
       Endings, RunOf, TaskAt
<1>34. ASSUME Tick PROVE ClaimRows'
  BY <1>34 DEF Tick, Elapse, files, locals, TypeOK, RowTypes, WorkerTypes, ClaimRows, Tickets,
       Endings, RunOf, TaskAt, Ticket, Lease
<1> QED BY Next, <1>1, <1>2, <1>3, <1>4, <1>5, <1>6, <1>7, <1>8, <1>9, <1>10, <1>11, <1>12,
       <1>13, <1>14, <1>15, <1>16, <1>17, <1>18, <1>19, <1>20, <1>21, <1>22, <1>23, <1>24,
       <1>25, <1>26, <1>27, <1>28, <1>29, <1>30, <1>31, <1>32, <1>33, <1>34
       DEF Next, Execute, Recover, ClaimNext, ClaimRun, Claimable

\* A worker keeps the one ticket its run was given, until it returns or dies.
LEMMA TicketsStep ==
    ASSUME TypeOK, ClaimRows, Tickets, Next
    PROVE  Tickets'
<1>1. ASSUME NEW w \in Workers, Preflight(w) PROVE Tickets'
  <2>1. pc[w] # "idle" /\ Wanes /\ own' = own /\ pc[w] \in ExecutingPc
    BY <1>1 DEF Preflight, At, Wanes, database, ExecutingPc
  <2>2. \E l : pc' = [pc EXCEPT ![w] = l]
    BY <1>1 DEF Preflight, Goto
  <2> QED BY <2>1, <2>2, TicketsAdvance
<1>2. ASSUME NEW w \in Workers, Enter(w) PROVE Tickets'
  <2>1. pc[w] # "idle" /\ Wanes /\ own' = own /\ pc[w] \in ExecutingPc
    BY <1>2 DEF Enter, At, Wanes, database, ExecutingPc
  <2>2. \E l : pc' = [pc EXCEPT ![w] = l]
    BY <1>2 DEF Enter, Goto, Stop
  <2> QED BY <2>1, <2>2, TicketsAdvance
<1>3. ASSUME NEW w \in Workers, AcquireLock(w) PROVE Tickets'
  <2>1. pc[w] # "idle" /\ Wanes /\ own' = own /\ pc[w] \in ExecutingPc
    BY <1>3 DEF AcquireLock, At, Wanes, database, ExecutingPc
  <2>2. \E l \in {"ready", "finalize"} : pc' = [pc EXCEPT ![w] = l]
    BY <1>3 DEF AcquireLock, Goto, Stop
  <2> QED BY <2>1, <2>2, TicketsAdvance
<1>4. ASSUME NEW w \in Workers, BeginStage(w) PROVE Tickets'
  <2>1. pc[w] # "idle" /\ Wanes /\ own' = own /\ pc[w] \in ExecutingPc
    BY <1>4 DEF BeginStage, At, Wanes, database, ExecutingPc
  <2>2. \E l : pc' = [pc EXCEPT ![w] = l]
    BY <1>4 DEF BeginStage, Goto, Stop
  <2> QED BY <2>1, <2>2, TicketsAdvance
<1>5. ASSUME NEW w \in Workers, GateStop(w) PROVE Tickets'
  <2>1. pc[w] # "idle" /\ Wanes /\ own' = own /\ pc[w] \in ExecutingPc
    BY <1>5 DEF GateStop, At, Wanes, database, ExecutingPc
  <2>2. pc' = [pc EXCEPT ![w] = "finalize"]
    BY <1>5 DEF GateStop, Goto, Stop
  <2> QED BY <2>1, <2>2, TicketsAdvance
<1>6. ASSUME NEW w \in Workers, RunnerReturns(w) PROVE Tickets'
  <2>1. pc[w] # "idle" /\ Wanes /\ own' = own /\ pc[w] \in ExecutingPc
    BY <1>6 DEF RunnerReturns, At, Wanes, database, ExecutingPc
  <2>2. \E l : pc' = [pc EXCEPT ![w] = l]
    BY <1>6 DEF RunnerReturns, Goto, Stop
  <2> QED BY <2>1, <2>2, TicketsAdvance
<1>7. ASSUME NEW w \in Workers, CleanupUnverified(w) PROVE Tickets'
  <2>1. pc[w] # "idle" /\ Wanes /\ own' = own /\ pc[w] \in ExecutingPc
    BY <1>7 DEF CleanupUnverified, At, Wanes, database, ExecutingPc
  <2>2. \E l : pc' = [pc EXCEPT ![w] = l]
    BY <1>7 DEF CleanupUnverified, Stop, Goto
  <2> QED BY <2>1, <2>2, TicketsAdvance
<1>8. ASSUME NEW w \in Workers, BeginHandoff(w) PROVE Tickets'
  <2>1. pc[w] # "idle" /\ Wanes /\ own' = own /\ pc[w] \in ExecutingPc
    BY <1>8 DEF BeginHandoff, At, Wanes, database, ExecutingPc
  <2>2. \E l : pc' = [pc EXCEPT ![w] = l]
    BY <1>8 DEF BeginHandoff, Goto, Stop
  <2> QED BY <2>1, <2>2, TicketsAdvance
<1>9. ASSUME NEW w \in Workers, PrepareHandoff(w) PROVE Tickets'
  <2>1. pc[w] # "idle" /\ Wanes /\ own' = own /\ pc[w] \in ExecutingPc
    BY <1>9 DEF PrepareHandoff, At, Wanes, database, ExecutingPc
  <2>2. \E l : pc' = [pc EXCEPT ![w] = l]
    BY <1>9 DEF PrepareHandoff, HandedOver, Goto, HandoffRaised, Stop
  <2> QED BY <2>1, <2>2, TicketsAdvance
<1>10. ASSUME NEW w \in Workers, PublishHandoff(w) PROVE Tickets'
  <2>1. pc[w] # "idle" /\ Wanes /\ own' = own /\ pc[w] \in ExecutingPc
    BY <1>10 DEF PublishHandoff, At, Wanes, database, ExecutingPc
  <2>2. \E l : pc' = [pc EXCEPT ![w] = l]
    BY <1>10 DEF PublishHandoff, HandedOver, HandoffRaised, Stop, Goto
  <2> QED BY <2>1, <2>2, TicketsAdvance
<1>11. ASSUME NEW w \in Workers, FinalizeBegin(w) PROVE Tickets'
  <2>1. pc[w] # "idle" /\ Wanes /\ own' = own /\ pc[w] \in ExecutingPc
    BY <1>11 DEF FinalizeBegin, At, Wanes, database, ExecutingPc
  <2>2. \E l : pc' = [pc EXCEPT ![w] = l]
    BY <1>11 DEF FinalizeBegin, Goto
  <2> QED BY <2>1, <2>2, TicketsAdvance
<1>12. ASSUME NEW w \in Workers, FinishArchive(w) PROVE Tickets'
  <2>1. pc[w] # "idle" /\ Wanes /\ own' = own /\ pc[w] \in ExecutingPc
    BY <1>12 DEF FinishArchive, At, Wanes, database, ExecutingPc
  <2>2. \E l : pc' = [pc EXCEPT ![w] = l]
    BY <1>12 DEF FinishArchive, Goto
  <2> QED BY <2>1, <2>2, TicketsAdvance
<1>13. ASSUME NEW w \in Workers, FinalizeCommit(w) PROVE Tickets'
  <2>1. pc[w] # "idle" /\ Settles(w)
    BY <1>13, CommitSettles DEF FinalizeCommit, At
  <2>2. claim' = claim /\ own' = own /\ pc' = [pc EXCEPT ![w] = "unlock"]
        /\ pc[w] \in ExecutingPc
    BY <1>13 DEF FinalizeCommit, At, Goto, ExecutingPc
  <2> QED BY <2>1, <2>2, SettlesWanes, TicketsAdvance
<1>14. ASSUME NEW w \in Workers, FinalizeAbort(w) PROVE Tickets'
  <2>1. pc[w] # "idle" /\ Wanes /\ own' = own /\ pc[w] \in ExecutingPc
    BY <1>14 DEF FinalizeAbort, At, Wanes, database, ExecutingPc
  <2>2. \E l : pc' = [pc EXCEPT ![w] = l]
    BY <1>14 DEF FinalizeAbort, Goto
  <2> QED BY <2>1, <2>2, TicketsAdvance
<1>15. ASSUME NEW w \in Workers, FinalizeFailed(w) PROVE Tickets'
  <2>1. pc[w] # "idle" /\ Settles(w)
    BY <1>15, FinalizeFailedSettles DEF FinalizeFailed, At
  <2>2. claim' = claim /\ own' = own /\ pc' = [pc EXCEPT ![w] = "unlock"]
        /\ pc[w] \in ExecutingPc
    BY <1>15 DEF FinalizeFailed, At, Goto, ExecutingPc
  <2> QED BY <2>1, <2>2, SettlesWanes, TicketsAdvance
<1>16. ASSUME NEW w \in Workers, Unlock(w) PROVE Tickets'
  <2>1. pc[w] # "idle" /\ Wanes /\ own' = own /\ pc[w] \in ExecutingPc
    BY <1>16 DEF Unlock, At, Wanes, database, ExecutingPc
  <2>2. \E l : pc' = [pc EXCEPT ![w] = l]
    BY <1>16 DEF Unlock, Goto
  <2> QED BY <2>1, <2>2, TicketsAdvance
<1>17. ASSUME NEW w \in Workers, RecordVerified(w) PROVE Tickets'
  <2>1. pc[w] # "idle" /\ Wanes /\ own' = own /\ pc[w] \in ExecutingPc
    BY <1>17 DEF RecordVerified, At, Wanes, database, ExecutingPc
  <2>2. \E l : pc' = [pc EXCEPT ![w] = l]
    BY <1>17 DEF RecordVerified, Goto
  <2> QED BY <2>1, <2>2, TicketsAdvance
<1>18. ASSUME NEW w \in Workers, SetupFailed(w) PROVE Tickets'
  <2>1. pc[w] # "idle" /\ Settles(w)
    BY <1>18, FailureSettles DEF SetupFailed, At, ConcurrencyStatus, FailureStatus, Finals
  <2>2. claim' = claim /\ own' = own /\ pc' = [pc EXCEPT ![w] = "worker_failed"]
        /\ pc[w] \in ExecutingPc
    BY <1>18 DEF SetupFailed, At, Goto, ExecutingPc
  <2> QED BY <2>1, <2>2, SettlesWanes, TicketsAdvance
<1>19. ASSUME NEW w \in Workers, WorkerFailed(w) PROVE Tickets'
  <2>1. pc[w] # "idle" /\ Settles(w)
    BY <1>19, FailureSettles DEF WorkerFailed, At, Finals
  <2>2. claim' = claim /\ own' = own /\ pc' = [pc EXCEPT ![w] = "release"]
        /\ pc[w] \in ExecutingPc
    BY <1>19 DEF WorkerFailed, At, Goto, ExecutingPc
  <2> QED BY <2>1, <2>2, SettlesWanes, TicketsAdvance
<1>20. ASSUME NEW w \in Workers, Release(w) PROVE Tickets'
  <2>1. pc[w] # "idle" /\ Wanes
    BY <1>20 DEF Release, At, Wanes, database
  <2>2. CASE Return(w)
    BY <2>1, <2>2, TicketsReturn
  <2>3. CASE pc' = [pc EXCEPT ![w] = "mark"] /\ own' = own
    <3>1. "mark" \in ExecutingPc => pc[w] \in ExecutingPc
      BY <1>20 DEF Release, At, ExecutingPc
    <3> QED BY <2>1, <2>3, <3>1, TicketsAdvance
  <2> QED BY <1>20, <2>2, <2>3 DEF Release, Goto
<1>21. ASSUME NEW w \in Workers, ReleaseMark(w) PROVE Tickets'
  <2>1. pc[w] # "idle" /\ Wanes /\ own' = own /\ pc[w] \in ExecutingPc
    BY <1>21 DEF ReleaseMark, At, Wanes, database, ExecutingPc
  <2>2. \E l : pc' = [pc EXCEPT ![w] = l]
    BY <1>21 DEF ReleaseMark, Goto
  <2> QED BY <2>1, <2>2, TicketsAdvance
<1>22. ASSUME NEW w \in Workers, ReleaseLease(w) PROVE Tickets'
  <2>1. pc[w] # "idle" /\ DropOwnership(w) /\ Return(w) /\ status' = status
    BY <1>22 DEF ReleaseLease, At
  <2> QED BY <2>1, DropWanes, TicketsReturn
<1>23. ASSUME NEW w \in Workers, StaleMark(w) PROVE Tickets'
  <2>1. pc[w] # "idle" /\ Settles(w)
    BY <1>23, StaleSettles DEF StaleMark, At
  <2>2. claim' = claim /\ Wanes
    BY <1>23, <2>1, SettlesWanes DEF StaleMark
  <2>3. CASE Return(w)
    BY <2>2, <2>3, TicketsReturn
  <2>4. CASE pc' = [pc EXCEPT ![w] = "stale_unlock"] /\ own' = own
    <3>1. "stale_unlock" \notin ExecutingPc
      BY DEF ExecutingPc
    <3> QED BY <2>1, <2>2, <2>4, <3>1, TicketsAdvance
  <2> QED BY <1>23, <2>3, <2>4 DEF StaleMark, Goto
<1>24. ASSUME NEW w \in Workers, StaleUnlock(w) PROVE Tickets'
  <2>1. pc[w] # "idle" /\ Wanes
    BY <1>24 DEF StaleUnlock, At, Wanes, database
  <2>2. CASE Return(w)
    BY <2>1, <2>2, TicketsReturn
  <2>3. CASE pc' = [pc EXCEPT ![w] = "stale_release"] /\ own' = own
    <3>1. "stale_release" \in ExecutingPc => pc[w] \in ExecutingPc
      BY <1>24 DEF StaleUnlock, At, ExecutingPc
    <3> QED BY <2>1, <2>3, <3>1, TicketsAdvance
  <2> QED BY <1>24, <2>2, <2>3 DEF StaleUnlock, Goto
<1>25. ASSUME NEW w \in Workers, StaleRelease(w) PROVE Tickets'
  <2>1. pc[w] # "idle" /\ DropOwnership(w) /\ Return(w) /\ status' = status
    BY <1>25 DEF StaleRelease, At
  <2> QED BY <2>1, DropWanes, TicketsReturn
<1>26. ASSUME NEW w \in Workers, NEW r \in Runs, TakeClaim(w, r) PROVE Tickets'
  BY <1>26, TicketsClaim
<1>27. ASSUME NEW w \in Workers, NEW r \in Runs, StalePick(w, r) PROVE Tickets'
  BY <1>27, TicketsPick
<1>28. ASSUME NEW w \in Workers, HeartbeatRenew(w) PROVE Tickets'
  BY <1>28 DEF HeartbeatRenew, RunOf, files, locals, TypeOK, RowTypes, WorkerTypes, ClaimRows,
       Tickets, TaskAt, database, ExecutingPc, RecoveryPc, Labels
<1>29. ASSUME NEW w \in Workers, HeartbeatSignal(w) PROVE Tickets'
  BY <1>29 DEF HeartbeatSignal, database, files, TypeOK, RowTypes, WorkerTypes, ClaimRows,
       Tickets, RunOf, TaskAt, locals, ExecutingPc, RecoveryPc, Labels
<1>30. ASSUME NEW w \in Workers, Crash(w) PROVE Tickets'
  BY <1>30 DEF Crash, At, Return, database, files, Call, NoTicket, NoRun, TypeOK, RowTypes,
       WorkerTypes, ClaimRows, Tickets, RunOf, TaskAt, locals, ExecutingPc, RecoveryPc, Labels
<1>31. ASSUME NEW r \in Runs, RequestCancel(r) PROVE Tickets'
  BY <1>31 DEF RequestCancel, files, locals, TypeOK, RowTypes, WorkerTypes, ClaimRows, Tickets,
       RunOf, TaskAt, database, ExecutingPc, RecoveryPc, Labels
<1>32. ASSUME NEW r \in Runs, CancelPending(r) PROVE Tickets'
  BY <1>32 DEF CancelPending, files, locals, TypeOK, RowTypes, WorkerTypes, ClaimRows, Tickets,
       RunOf, TaskAt, database, ExecutingPc, RecoveryPc, Labels
<1>33. ASSUME NEW r \in Runs, Deliver(r) PROVE Tickets'
  BY <1>33 DEF Deliver, files, locals, TypeOK, RowTypes, WorkerTypes, ClaimRows, Tickets, RunOf,
       TaskAt, database, ExecutingPc, RecoveryPc, Labels
<1>34. ASSUME Tick PROVE Tickets'
  BY <1>34 DEF Tick, Elapse, files, locals, TypeOK, RowTypes, WorkerTypes, ClaimRows, Tickets,
       RunOf, TaskAt, database, ExecutingPc, RecoveryPc, Labels
<1> QED BY Next, <1>1, <1>2, <1>3, <1>4, <1>5, <1>6, <1>7, <1>8, <1>9, <1>10, <1>11, <1>12,
       <1>13, <1>14, <1>15, <1>16, <1>17, <1>18, <1>19, <1>20, <1>21, <1>22, <1>23, <1>24,
       <1>25, <1>26, <1>27, <1>28, <1>29, <1>30, <1>31, <1>32, <1>33, <1>34
       DEF Next, Execute, Recover, ClaimNext, ClaimRun, Claimable

\* Ownership is only given up from steps that a running run cannot reach.
LEMMA EndingsStep ==
    ASSUME TypeOK, ClaimRows, Tickets, Endings, Next
    PROVE  Endings'
<1>1. ASSUME NEW w \in Workers, Preflight(w) PROVE Endings'
  BY <1>1 DEF Preflight, At, Owns, Goto, RunOf, database, LeaseLive, HoldsRows, TaskAt, TypeOK,
       RowTypes, WorkerTypes, ClaimRows, Tickets, Endings, files, locals
<1>2. ASSUME NEW w \in Workers, Enter(w) PROVE Endings'
  BY <1>2 DEF Enter, At, Goto, Stop, database, files, TypeOK, RowTypes, WorkerTypes, ClaimRows,
       Tickets, Endings, RunOf, TaskAt, locals
<1>3. ASSUME NEW w \in Workers, AcquireLock(w) PROVE Endings'
  BY <1>3 DEF AcquireLock, At, TaskAt, NoTicket, Goto, Stop, database, NoRun, TypeOK, RowTypes,
       WorkerTypes, ClaimRows, Tickets, Endings, RunOf, files, locals
<1>4. ASSUME NEW w \in Workers, BeginStage(w) PROVE Endings'
  BY <1>4 DEF BeginStage, At, Goto, RunOf, Stop, database, TypeOK, RowTypes, WorkerTypes,
       ClaimRows, Tickets, Endings, TaskAt, files, locals
<1>5. ASSUME NEW w \in Workers, GateStop(w) PROVE Endings'
  BY <1>5 DEF GateStop, At, Stop, RunOf, database, files, Goto, TypeOK, RowTypes, WorkerTypes,
       ClaimRows, Tickets, Endings, TaskAt, locals
<1>6. ASSUME NEW w \in Workers, RunnerReturns(w) PROVE Endings'
  BY <1>6 DEF RunnerReturns, At, RunOf, Goto, Stop, database, TypeOK, RowTypes, WorkerTypes,
       ClaimRows, Tickets, Endings, TaskAt, files, locals
<1>7. ASSUME NEW w \in Workers, CleanupUnverified(w) PROVE Endings'
  BY <1>7 DEF CleanupUnverified, At, RunOf, Stop, database, Goto, TypeOK, RowTypes, WorkerTypes,
       ClaimRows, Tickets, Endings, TaskAt, files, locals
<1>8. ASSUME NEW w \in Workers, BeginHandoff(w) PROVE Endings'
  BY <1>8 DEF BeginHandoff, At, Goto, Stop, database, files, TypeOK, RowTypes, WorkerTypes,
       ClaimRows, Tickets, Endings, RunOf, TaskAt, locals
<1>9. ASSUME NEW w \in Workers, PrepareHandoff(w) PROVE Endings'
  BY <1>9 DEF PrepareHandoff, At, RunOf, HandedOver, Goto, HandoffRaised, files, Stop, TypeOK,
       RowTypes, WorkerTypes, ClaimRows, Tickets, Endings, TaskAt, database, locals
<1>10. ASSUME NEW w \in Workers, PublishHandoff(w) PROVE Endings'
  BY <1>10 DEF PublishHandoff, At, RunOf, HandedOver, HandoffRaised, files, Stop, Goto, TypeOK,
       RowTypes, WorkerTypes, ClaimRows, Tickets, Endings, TaskAt, database, locals
<1>11. ASSUME NEW w \in Workers, FinalizeBegin(w) PROVE Endings'
  BY <1>11 DEF FinalizeBegin, At, Owns, Goto, database, files, RunOf, LeaseLive, HoldsRows,
       TaskAt, TypeOK, RowTypes, WorkerTypes, ClaimRows, Tickets, Endings, locals
<1>12. ASSUME NEW w \in Workers, FinishArchive(w) PROVE Endings'
  BY <1>12 DEF FinishArchive, At, Owns, RunOf, Goto, database, locals, LeaseLive, HoldsRows,
       TaskAt, TypeOK, RowTypes, WorkerTypes, ClaimRows, Tickets, Endings, files
<1>13. ASSUME NEW w \in Workers, FinalizeCommit(w) PROVE Endings'
  <2>1. pc[w] # "idle" /\ Settles(w)
    BY <1>13, CommitSettles DEF FinalizeCommit, At
  <2>2. lease' = lease /\ Others(w) /\ own' = own /\ pc'[w] = "unlock"
    BY <1>13 DEF FinalizeCommit, TypeOK, WorkerTypes, Others, Goto, locals
  <2>3. status'[RunOf(w)] # "running"
    BY <1>13, <2>1, CommitSettles
  <2>4. RunOf(w)' = RunOf(w)
    BY <2>2 DEF RunOf
  <2> QED BY <2>1, <2>2, <2>3, <2>4, SettlesStops, EndingsFrame
<1>14. ASSUME NEW w \in Workers, FinalizeAbort(w) PROVE Endings'
  BY <1>14 DEF FinalizeAbort, At, Goto, database, files, locals, TypeOK, RowTypes, WorkerTypes,
       ClaimRows, Tickets, Endings, RunOf, TaskAt
<1>15. ASSUME NEW w \in Workers, FinalizeFailed(w) PROVE Endings'
  <2>1. pc[w] # "idle" /\ Settles(w)
    BY <1>15, FinalizeFailedSettles DEF FinalizeFailed, At
  <2>2. lease' = lease /\ Others(w) /\ own' = own /\ pc'[w] = "unlock"
    BY <1>15 DEF FinalizeFailed, TypeOK, WorkerTypes, Others, Goto, locals
  <2>3. raised'[w]
    BY <1>15, <2>1 DEF FinalizeFailed, TypeOK, WorkerTypes
  <2>4. RunOf(w)' = RunOf(w)
    BY <2>2 DEF RunOf
  <2> QED BY <2>1, <2>2, <2>3, <2>4, SettlesStops, EndingsFrame
<1>16. ASSUME NEW w \in Workers, Unlock(w) PROVE Endings'
  BY <1>16 DEF Unlock, At, TaskAt, NoTicket, Goto, AfterFinalize, database, locals, NoRun,
       TypeOK, RowTypes, WorkerTypes, ClaimRows, Tickets, Endings, RunOf, files
<1>17. ASSUME NEW w \in Workers, RecordVerified(w) PROVE Endings'
  BY <1>17 DEF RecordVerified, At, MarkVerified, Goto, AfterFinalize, files, locals, TaskAt,
       RunOf, TypeOK, RowTypes, WorkerTypes, ClaimRows, Tickets, Endings, database
<1>18. ASSUME NEW w \in Workers, SetupFailed(w) PROVE Endings'
  <2>1. pc[w] # "idle" /\ Settles(w)
    BY <1>18, FailureSettles DEF SetupFailed, At, ConcurrencyStatus, FailureStatus, Finals
  <2>2. lease' = lease /\ Others(w) /\ own' = own /\ pc'[w] = "worker_failed"
    BY <1>18 DEF SetupFailed, TypeOK, WorkerTypes, Others, Goto, locals
  <2>3. TRUE
    BY <1>18, <2>1
  <2>4. RunOf(w)' = RunOf(w)
    BY <2>2 DEF RunOf
  <2> QED BY <2>1, <2>2, <2>3, <2>4, SettlesStops, EndingsFrame
<1>19. ASSUME NEW w \in Workers, WorkerFailed(w) PROVE Endings'
  <2>1. pc[w] # "idle" /\ Settles(w)
    BY <1>19, FailureSettles DEF WorkerFailed, At, Finals
  <2>2. lease' = lease /\ Others(w) /\ own' = own /\ pc'[w] = "release"
    BY <1>19 DEF WorkerFailed, TypeOK, WorkerTypes, Others, Goto, locals
  <2>3. status'[RunOf(w)] # "running"
    BY <1>19, <2>1, FailureSettles DEF WorkerFailed, Finals
  <2>4. RunOf(w)' = RunOf(w)
    BY <2>2 DEF RunOf
  <2> QED BY <2>1, <2>2, <2>3, <2>4, SettlesStops, EndingsFrame
<1>20. ASSUME NEW w \in Workers, Release(w) PROVE Endings'
  BY <1>20 DEF Release, At, TaskAt, NoTicket, Goto, locals, Return, database, files, NoRun,
       Call, TypeOK, RowTypes, WorkerTypes, ClaimRows, Tickets, Endings, RunOf
<1>21. ASSUME NEW w \in Workers, ReleaseMark(w) PROVE Endings'
  BY <1>21 DEF ReleaseMark, At, MarkVerified, Goto, files, locals, TaskAt, RunOf, TypeOK,
       RowTypes, WorkerTypes, ClaimRows, Tickets, Endings, database
<1>22. ASSUME NEW w \in Workers, ReleaseLease(w) PROVE Endings'
  <2>1. pc[w] # "idle" /\ DropOwnership(w) /\ Return(w) /\ status' = status
    BY <1>22 DEF ReleaseLease, At
  <2>2. \A r \in Runs : lease[r].ttl = 0 => lease'[r].ttl = 0
    BY <2>1, DropEffect DEF TypeOK, RowTypes, NoLease
  <2> QED BY <2>1, <2>2, ReturnOthers, EndingsFrame
<1>23. ASSUME NEW w \in Workers, StaleMark(w) PROVE Endings'
  <2>1. pc[w] # "idle" /\ Settles(w)
    BY <1>23, StaleSettles DEF StaleMark, At
  <2>2. lease' = lease /\ status'[RunOf(w)] # "running" /\ At(w, "stale_mark")
    BY <1>23, <2>1, StaleStops DEF StaleMark, Endings, At
  <2>3. CASE Return(w)
    BY <2>1, <2>2, <2>3, ReturnOthers, SettlesStops, EndingsFrame
  <2>4. CASE pc' = [pc EXCEPT ![w] = "stale_unlock"] /\ own' = own /\ UNCHANGED locals
    <3>1. Others(w) /\ pc'[w] = "stale_unlock" /\ RunOf(w)' = RunOf(w)
      BY <2>4 DEF TypeOK, WorkerTypes, Others, locals, RunOf
    <3> QED BY <2>1, <2>2, <3>1, SettlesStops, EndingsFrame
  <2> QED BY <1>23, <2>3, <2>4 DEF StaleMark, Goto
<1>24. ASSUME NEW w \in Workers, StaleUnlock(w) PROVE Endings'
  BY <1>24 DEF StaleUnlock, At, TaskAt, NoTicket, Goto, locals, Return, database, NoRun, Call,
       TypeOK, RowTypes, WorkerTypes, ClaimRows, Tickets, Endings, RunOf, files
<1>25. ASSUME NEW w \in Workers, StaleRelease(w) PROVE Endings'
  <2>1. pc[w] # "idle" /\ DropOwnership(w) /\ Return(w) /\ status' = status
    BY <1>25 DEF StaleRelease, At
  <2>2. \A r \in Runs : lease[r].ttl = 0 => lease'[r].ttl = 0
    BY <2>1, DropEffect DEF TypeOK, RowTypes, NoLease
  <2> QED BY <2>1, <2>2, ReturnOthers, EndingsFrame
<1>26. ASSUME NEW w \in Workers, NEW r \in Runs, TakeClaim(w, r) PROVE Endings'
  BY <1>26 DEF TakeClaim, At, Claimable, Call, files, NoTicket, NoRun, TypeOK, RowTypes,
       WorkerTypes, ClaimRows, Tickets, Endings, RunOf, TaskAt, database, locals
<1>27. ASSUME NEW w \in Workers, NEW r \in Runs, StalePick(w, r) PROVE Endings'
  BY SMTT(30), <1>27 DEF StalePick, At, Call, database, files, TypeOK, RowTypes, WorkerTypes,
       ClaimRows,
       Tickets, Endings, RunOf, TaskAt, locals
<1>28. ASSUME NEW w \in Workers, HeartbeatRenew(w) PROVE Endings'
  BY <1>28 DEF HeartbeatRenew, RunOf, files, locals, TypeOK, RowTypes, WorkerTypes, ClaimRows,
       Tickets, Endings, TaskAt, At, database
<1>29. ASSUME NEW w \in Workers, HeartbeatSignal(w) PROVE Endings'
  BY <1>29 DEF HeartbeatSignal, database, files, TypeOK, RowTypes, WorkerTypes, ClaimRows,
       Tickets, Endings, RunOf, TaskAt, At, locals
<1>30. ASSUME NEW w \in Workers, Crash(w) PROVE Endings'
  BY <1>30 DEF Crash, At, Return, database, files, Call, NoTicket, NoRun, TypeOK, RowTypes,
       WorkerTypes, ClaimRows, Tickets, Endings, RunOf, TaskAt, locals
<1>31. ASSUME NEW r \in Runs, RequestCancel(r) PROVE Endings'
  BY <1>31 DEF RequestCancel, files, locals, TypeOK, RowTypes, WorkerTypes, ClaimRows, Tickets,
       Endings, RunOf, TaskAt, At, database
<1>32. ASSUME NEW r \in Runs, CancelPending(r) PROVE Endings'
  BY <1>32 DEF CancelPending, files, locals, TypeOK, RowTypes, WorkerTypes, ClaimRows, Tickets,
       Endings, RunOf, TaskAt, At, database
<1>33. ASSUME NEW r \in Runs, Deliver(r) PROVE Endings'
  BY <1>33 DEF Deliver, files, locals, TypeOK, RowTypes, WorkerTypes, ClaimRows, Tickets,
       Endings, RunOf, TaskAt, At, database
<1>34. ASSUME Tick PROVE Endings'
  BY <1>34 DEF Tick, Elapse, files, locals, TypeOK, RowTypes, WorkerTypes, ClaimRows, Tickets,
       Endings, RunOf, TaskAt, At, database
<1> QED BY Next, <1>1, <1>2, <1>3, <1>4, <1>5, <1>6, <1>7, <1>8, <1>9, <1>10, <1>11, <1>12,
       <1>13, <1>14, <1>15, <1>16, <1>17, <1>18, <1>19, <1>20, <1>21, <1>22, <1>23, <1>24,
       <1>25, <1>26, <1>27, <1>28, <1>29, <1>30, <1>31, <1>32, <1>33, <1>34
       DEF Next, Execute, Recover, ClaimNext, ClaimRun, Claimable

\* Cleanup is recorded by the run's own executor and never taken back.
LEMMA VerificationStep ==
    ASSUME TypeOK, ClaimRows, Tickets, Endings, Verification, Next
    PROVE  Verification'
<1>1. ASSUME NEW w \in Workers, Preflight(w) PROVE Verification'
  BY <1>1 DEF Preflight, At, Owns, Goto, RunOf, database, LeaseLive, HoldsRows, TaskAt, TypeOK,
       RowTypes, WorkerTypes, Tickets, Verification, files, locals, BusyPc, ExecutingPc
<1>2. ASSUME NEW w \in Workers, Enter(w) PROVE Verification'
  BY <1>2 DEF Enter, At, Goto, Stop, database, files, TypeOK, RowTypes, WorkerTypes, Tickets,
       Verification, RunOf, TaskAt, locals, BusyPc, ExecutingPc
<1>3. ASSUME NEW w \in Workers, AcquireLock(w) PROVE Verification'
  BY <1>3 DEF AcquireLock, At, TaskAt, NoTicket, Goto, Stop, database, NoRun, TypeOK, RowTypes,
       WorkerTypes, Tickets, Verification, RunOf, files, locals, BusyPc, ExecutingPc
<1>4. ASSUME NEW w \in Workers, BeginStage(w) PROVE Verification'
  BY <1>4 DEF BeginStage, At, Goto, RunOf, Stop, database, TypeOK, RowTypes, WorkerTypes,
       Tickets, Verification, TaskAt, files, locals, BusyPc, ExecutingPc
<1>5. ASSUME NEW w \in Workers, GateStop(w) PROVE Verification'
  BY <1>5 DEF GateStop, At, Stop, RunOf, database, files, Goto, TypeOK, RowTypes, WorkerTypes,
       Tickets, Verification, TaskAt, locals, BusyPc, ExecutingPc
<1>6. ASSUME NEW w \in Workers, RunnerReturns(w) PROVE Verification'
  BY <1>6 DEF RunnerReturns, At, RunOf, Goto, Stop, database, TypeOK, RowTypes, WorkerTypes,
       Tickets, Verification, TaskAt, files, locals, BusyPc, ExecutingPc
<1>7. ASSUME NEW w \in Workers, CleanupUnverified(w) PROVE Verification'
  BY <1>7 DEF CleanupUnverified, At, RunOf, Stop, database, Goto, TypeOK, RowTypes, WorkerTypes,
       Tickets, Verification, TaskAt, files, locals, BusyPc, ExecutingPc
<1>8. ASSUME NEW w \in Workers, BeginHandoff(w) PROVE Verification'
  BY <1>8 DEF BeginHandoff, At, Goto, Stop, database, files, TypeOK, RowTypes, WorkerTypes,
       Tickets, Verification, RunOf, TaskAt, locals, BusyPc, ExecutingPc
<1>9. ASSUME NEW w \in Workers, PrepareHandoff(w) PROVE Verification'
  BY <1>9 DEF PrepareHandoff, At, RunOf, HandedOver, Goto, HandoffRaised, files, Stop, TypeOK,
       RowTypes, WorkerTypes, Tickets, Verification, TaskAt, database, locals, BusyPc,
       ExecutingPc
<1>10. ASSUME NEW w \in Workers, PublishHandoff(w) PROVE Verification'
  BY <1>10 DEF PublishHandoff, At, RunOf, HandedOver, HandoffRaised, files, Stop, Goto, TypeOK,
       RowTypes, WorkerTypes, Tickets, Verification, TaskAt, database, locals, BusyPc,
       ExecutingPc
<1>11. ASSUME NEW w \in Workers, FinalizeBegin(w) PROVE Verification'
  BY <1>11 DEF FinalizeBegin, At, Owns, Goto, database, files, RunOf, LeaseLive, HoldsRows,
       TaskAt, TypeOK, RowTypes, WorkerTypes, Tickets, Verification, locals, BusyPc, ExecutingPc
<1>12. ASSUME NEW w \in Workers, FinishArchive(w) PROVE Verification'
  BY <1>12 DEF FinishArchive, At, Owns, RunOf, Goto, database, locals, LeaseLive, HoldsRows,
       TaskAt, TypeOK, RowTypes, WorkerTypes, Tickets, Verification, files, BusyPc, ExecutingPc
<1>13. ASSUME NEW w \in Workers, FinalizeCommit(w) PROVE Verification'
  BY <1>13 DEF FinalizeCommit, At, Owns, RunOf, Goto, files, locals, LeaseLive, HoldsRows,
       TaskAt, TypeOK, RowTypes, WorkerTypes, Tickets, Verification, database, BusyPc,
       ExecutingPc
<1>14. ASSUME NEW w \in Workers, FinalizeAbort(w) PROVE Verification'
  BY <1>14 DEF FinalizeAbort, At, Goto, database, files, locals, TypeOK, RowTypes, WorkerTypes,
       Tickets, Verification, RunOf, TaskAt, BusyPc, ExecutingPc
<1>15. ASSUME NEW w \in Workers, FinalizeFailed(w) PROVE Verification'
  BY <1>15 DEF FinalizeFailed, At, LeaseLive, RunOf, Goto, files, HoldsRows, TaskAt, TypeOK,
       RowTypes, WorkerTypes, Tickets, Verification, database, locals, BusyPc, ExecutingPc
<1>16. ASSUME NEW w \in Workers, Unlock(w) PROVE Verification'
  BY <1>16 DEF Unlock, At, TaskAt, NoTicket, Goto, AfterFinalize, database, locals, NoRun,
       TypeOK, RowTypes, WorkerTypes, Tickets, Verification, RunOf, files, BusyPc, ExecutingPc
<1>17. ASSUME NEW w \in Workers, RecordVerified(w) PROVE Verification'
  <2>1. /\ pc[w] \in ExecutingPc /\ MarkVerified(w) /\ own' = own /\ claim' = claim
        /\ pc'[w] \in {"setup_failed", "release", "drop"} /\ Others(w)
    BY <1>17 DEF RecordVerified, At, ExecutingPc, AfterFinalize, TypeOK, WorkerTypes, Others,
         Goto, locals
  <2> QED BY <2>1, VerificationMark
<1>18. ASSUME NEW w \in Workers, SetupFailed(w) PROVE Verification'
  BY <1>18 DEF SetupFailed, At, RecordFailure, Goto, files, locals, RunOf, MarkStale, TypeOK,
       RowTypes, WorkerTypes, Tickets, Verification, TaskAt, database, BusyPc, ExecutingPc
<1>19. ASSUME NEW w \in Workers, WorkerFailed(w) PROVE Verification'
  BY <1>19 DEF WorkerFailed, At, RecordFailure, Goto, files, locals, RunOf, MarkStale, TypeOK,
       RowTypes, WorkerTypes, Tickets, Verification, TaskAt, database, BusyPc, ExecutingPc
<1>20. ASSUME NEW w \in Workers, Release(w) PROVE Verification'
  BY <1>20 DEF Release, At, TaskAt, NoTicket, Goto, locals, Return, database, files, NoRun,
       Call, TypeOK, RowTypes, WorkerTypes, Tickets, Verification, RunOf, BusyPc, ExecutingPc
<1>21. ASSUME NEW w \in Workers, ReleaseMark(w) PROVE Verification'
  <2>1. /\ pc[w] \in ExecutingPc /\ MarkVerified(w) /\ own' = own /\ claim' = claim
        /\ pc'[w] \in {"setup_failed", "release", "drop"} /\ Others(w)
    BY <1>21 DEF ReleaseMark, At, ExecutingPc, AfterFinalize, TypeOK, WorkerTypes, Others, Goto,
         locals
  <2> QED BY <2>1, VerificationMark
<1>22. ASSUME NEW w \in Workers, ReleaseLease(w) PROVE Verification'
  <2>1. pc[w] # "idle" /\ DropOwnership(w) /\ Return(w) /\ cleanupVerified' = cleanupVerified
    BY <1>22 DEF ReleaseLease, At
  <2> QED BY <2>1, VerificationDrop
<1>23. ASSUME NEW w \in Workers, StaleMark(w) PROVE Verification'
  BY SMTT(30), <1>23 DEF StaleMark, At, MarkStale, Goto, locals, Return, files, RunOf, Call,
       NoTicket,
       NoRun, TypeOK, RowTypes, WorkerTypes, Tickets, Verification, TaskAt, database, BusyPc,
       ExecutingPc
<1>24. ASSUME NEW w \in Workers, StaleUnlock(w) PROVE Verification'
  BY <1>24 DEF StaleUnlock, At, TaskAt, NoTicket, Goto, locals, Return, database, NoRun, Call,
       TypeOK, RowTypes, WorkerTypes, Tickets, Verification, RunOf, files, BusyPc, ExecutingPc
<1>25. ASSUME NEW w \in Workers, StaleRelease(w) PROVE Verification'
  <2>1. pc[w] # "idle" /\ DropOwnership(w) /\ Return(w) /\ cleanupVerified' = cleanupVerified
    BY <1>25 DEF StaleRelease, At
  <2> QED BY <2>1, VerificationDrop
<1>26. ASSUME NEW w \in Workers, NEW r \in Runs, TakeClaim(w, r) PROVE Verification'
  BY <1>26, VerificationClaim
<1>27. ASSUME NEW w \in Workers, NEW r \in Runs, StalePick(w, r) PROVE Verification'
  BY <1>27 DEF StalePick, At, Call, database, files, TypeOK, RowTypes, WorkerTypes, Tickets,
       Verification, RunOf, TaskAt, locals, BusyPc, ExecutingPc
<1>28. ASSUME NEW w \in Workers, HeartbeatRenew(w) PROVE Verification'
  BY <1>28 DEF HeartbeatRenew, RunOf, files, locals, TypeOK, RowTypes, WorkerTypes, Tickets,
       Verification, TaskAt, At, database, BusyPc, ExecutingPc
<1>29. ASSUME NEW w \in Workers, HeartbeatSignal(w) PROVE Verification'
  BY <1>29 DEF HeartbeatSignal, database, files, TypeOK, RowTypes, WorkerTypes, Tickets,
       Verification, RunOf, TaskAt, At, locals, BusyPc, ExecutingPc
<1>30. ASSUME NEW w \in Workers, Crash(w) PROVE Verification'
  BY <1>30 DEF Crash, At, Return, database, files, Call, NoTicket, NoRun, TypeOK, RowTypes,
       WorkerTypes, Tickets, Verification, RunOf, TaskAt, locals, BusyPc, ExecutingPc
<1>31. ASSUME NEW r \in Runs, RequestCancel(r) PROVE Verification'
  BY <1>31 DEF RequestCancel, files, locals, TypeOK, RowTypes, WorkerTypes, Tickets,
       Verification, RunOf, TaskAt, At, database, BusyPc, ExecutingPc
<1>32. ASSUME NEW r \in Runs, CancelPending(r) PROVE Verification'
  BY <1>32 DEF CancelPending, files, locals, TypeOK, RowTypes, WorkerTypes, Tickets,
       Verification, RunOf, TaskAt, At, database, BusyPc, ExecutingPc
<1>33. ASSUME NEW r \in Runs, Deliver(r) PROVE Verification'
  BY <1>33 DEF Deliver, files, locals, TypeOK, RowTypes, WorkerTypes, Tickets, Verification,
       RunOf, TaskAt, At, database, BusyPc, ExecutingPc
<1>34. ASSUME Tick PROVE Verification'
  BY <1>34 DEF Tick, Elapse, files, locals, TypeOK, RowTypes, WorkerTypes, Tickets,
       Verification, RunOf, TaskAt, At, database, BusyPc, ExecutingPc
<1> QED BY Next, <1>1, <1>2, <1>3, <1>4, <1>5, <1>6, <1>7, <1>8, <1>9, <1>10, <1>11, <1>12,
       <1>13, <1>14, <1>15, <1>16, <1>17, <1>18, <1>19, <1>20, <1>21, <1>22, <1>23, <1>24,
       <1>25, <1>26, <1>27, <1>28, <1>29, <1>30, <1>31, <1>32, <1>33, <1>34
       DEF Next, Execute, Recover, ClaimNext, ClaimRun, Claimable

\* The lock file follows the claim through acquisition, release and recovery.
LEMMA LockingStep ==
    ASSUME TypeOK, ClaimRows, Tickets, Verification, Locking, Children, Next
    PROVE  Locking'
<1>1. ASSUME NEW w \in Workers, Preflight(w) PROVE Locking'
  BY <1>1 DEF Preflight, At, Owns, Goto, RunOf, database, LeaseLive, HoldsRows, TaskAt, TypeOK,
       FileTypes, RowTypes, WorkerTypes, Tickets, Locking, LockFollowsClaim, files, locals,
       BusyPc, ExecutingPc
<1>2. ASSUME NEW w \in Workers, Enter(w) PROVE Locking'
  BY <1>2 DEF Enter, At, Goto, Stop, database, files, TypeOK, FileTypes, RowTypes, WorkerTypes,
       Tickets, Locking, LockFollowsClaim, RunOf, TaskAt, locals, BusyPc, ExecutingPc
<1>3. ASSUME NEW w \in Workers, AcquireLock(w) PROVE Locking'
  BY <1>3, LockingAcquire
<1>4. ASSUME NEW w \in Workers, BeginStage(w) PROVE Locking'
  BY SMTT(30), <1>4 DEF BeginStage, At, Goto, RunOf, Stop, database, TypeOK, FileTypes, RowTypes,
       WorkerTypes, Tickets, Locking, LockFollowsClaim, TaskAt, files, locals, BusyPc,
       ExecutingPc
<1>5. ASSUME NEW w \in Workers, GateStop(w) PROVE Locking'
  BY SMTT(30), <1>5 DEF GateStop, At, Stop, RunOf, database, files, Goto, TypeOK, FileTypes,
       RowTypes,
       WorkerTypes, Tickets, Locking, LockFollowsClaim, TaskAt, locals, BusyPc, ExecutingPc
<1>6. ASSUME NEW w \in Workers, RunnerReturns(w) PROVE Locking'
  <2>1. Others(w) /\ lock' = lock /\ claim' = claim /\ cleanupVerified' = cleanupVerified
        /\ pc'[w] \in {"ready", "finalize"} /\ own' = own /\ locked' = locked
        /\ At(w, "runner")
    BY <1>6 DEF RunnerReturns, Goto, Stop, Others, TypeOK, WorkerTypes, database, files
  <2>2. LockingAt(w)'
    BY <2>1 DEF LockingAt, Locking, BusyPc, ExecutingPc, At, TaskAt
  <2> QED BY <2>1, <2>2, LockingSame
<1>7. ASSUME NEW w \in Workers, CleanupUnverified(w) PROVE Locking'
  BY <1>7 DEF CleanupUnverified, At, RunOf, Stop, database, Goto, TypeOK, FileTypes, RowTypes,
       WorkerTypes, Tickets, Locking, LockFollowsClaim, TaskAt, files, locals, BusyPc,
       ExecutingPc
<1>8. ASSUME NEW w \in Workers, BeginHandoff(w) PROVE Locking'
  BY <1>8 DEF BeginHandoff, At, Goto, Stop, database, files, TypeOK, FileTypes, RowTypes,
       WorkerTypes, Tickets, Locking, LockFollowsClaim, RunOf, TaskAt, locals, BusyPc,
       ExecutingPc
<1>9. ASSUME NEW w \in Workers, PrepareHandoff(w) PROVE Locking'
  BY <1>9 DEF PrepareHandoff, At, RunOf, HandedOver, Goto, HandoffRaised, files, Stop, TypeOK,
       FileTypes, RowTypes, WorkerTypes, Tickets, Locking, LockFollowsClaim, TaskAt, database,
       locals, BusyPc, ExecutingPc
<1>10. ASSUME NEW w \in Workers, PublishHandoff(w) PROVE Locking'
  BY SMTT(30), <1>10 DEF PublishHandoff, At, RunOf, HandedOver, HandoffRaised, files, Stop,
       Goto, TypeOK,
       FileTypes, RowTypes, WorkerTypes, Tickets, Locking, LockFollowsClaim, TaskAt, database,
       locals, BusyPc, ExecutingPc
<1>11. ASSUME NEW w \in Workers, FinalizeBegin(w) PROVE Locking'
  <2>1. Others(w) /\ lock' = lock /\ claim' = claim /\ cleanupVerified' = cleanupVerified
        /\ pc'[w] \in {"archive", "finalize_failed"} /\ own' = own /\ locked' = locked
        /\ At(w, "finalize")
    BY <1>11 DEF FinalizeBegin, Goto, Others, TypeOK, WorkerTypes, database, files
  <2>2. LockingAt(w)'
    BY <2>1 DEF LockingAt, Locking, BusyPc, ExecutingPc, At, TaskAt
  <2> QED BY <2>1, <2>2, LockingSame
<1>12. ASSUME NEW w \in Workers, FinishArchive(w) PROVE Locking'
  BY SMTT(30), <1>12 DEF FinishArchive, At, Owns, RunOf, Goto, database, locals, LeaseLive,
       HoldsRows,
       TaskAt, TypeOK, FileTypes, RowTypes, WorkerTypes, Tickets, Locking, LockFollowsClaim,
       files, BusyPc, ExecutingPc
<1>13. ASSUME NEW w \in Workers, FinalizeCommit(w) PROVE Locking'
  BY <1>13 DEF FinalizeCommit, At, Owns, RunOf, Goto, files, locals, LeaseLive, HoldsRows,
       TaskAt, TypeOK, FileTypes, RowTypes, WorkerTypes, Tickets, Locking, LockFollowsClaim,
       database, BusyPc, ExecutingPc
<1>14. ASSUME NEW w \in Workers, FinalizeAbort(w) PROVE Locking'
  BY <1>14 DEF FinalizeAbort, At, Goto, database, files, locals, TypeOK, FileTypes, RowTypes,
       WorkerTypes, Tickets, Locking, LockFollowsClaim, RunOf, TaskAt, BusyPc, ExecutingPc
<1>15. ASSUME NEW w \in Workers, FinalizeFailed(w) PROVE Locking'
  BY <1>15 DEF FinalizeFailed, At, LeaseLive, RunOf, Goto, files, HoldsRows, TaskAt, TypeOK,
       FileTypes, RowTypes, WorkerTypes, Tickets, Locking, LockFollowsClaim, database, locals,
       BusyPc, ExecutingPc
<1>16. ASSUME NEW w \in Workers, Unlock(w) PROVE Locking'
  BY <1>16, LockingUnlock
<1>17. ASSUME NEW w \in Workers, RecordVerified(w) PROVE Locking'
  <2>1. /\ pc[w] \in ExecutingPc /\ MarkVerified(w) /\ own' = own /\ claim' = claim
        /\ pc'[w] \in {"setup_failed", "release", "drop"} /\ Others(w) /\ lock' = lock
    BY <1>17 DEF RecordVerified, At, ExecutingPc, AfterFinalize, files, TypeOK, WorkerTypes,
         Others, Goto, locals
  <2> QED BY <2>1, LockingMark
<1>18. ASSUME NEW w \in Workers, SetupFailed(w) PROVE Locking'
  BY <1>18 DEF SetupFailed, At, RecordFailure, Goto, files, locals, RunOf, MarkStale, TypeOK,
       FileTypes, RowTypes, WorkerTypes, Tickets, Locking, LockFollowsClaim, TaskAt, database,
       BusyPc, ExecutingPc
<1>19. ASSUME NEW w \in Workers, WorkerFailed(w) PROVE Locking'
  BY <1>19 DEF WorkerFailed, At, RecordFailure, Goto, files, locals, RunOf, MarkStale, TypeOK,
       FileTypes, RowTypes, WorkerTypes, Tickets, Locking, LockFollowsClaim, TaskAt, database,
       BusyPc, ExecutingPc
<1>20. ASSUME NEW w \in Workers, Release(w) PROVE Locking'
  BY <1>20 DEF Release, At, TaskAt, NoTicket, Goto, locals, Return, database, files, NoRun,
       Call, TypeOK, FileTypes, RowTypes, WorkerTypes, Tickets, Locking, LockFollowsClaim,
       RunOf, BusyPc, ExecutingPc
<1>21. ASSUME NEW w \in Workers, ReleaseMark(w) PROVE Locking'
  <2>1. /\ pc[w] \in ExecutingPc /\ MarkVerified(w) /\ own' = own /\ claim' = claim
        /\ pc'[w] \in {"setup_failed", "release", "drop"} /\ Others(w) /\ lock' = lock
    BY <1>21 DEF ReleaseMark, At, ExecutingPc, AfterFinalize, files, TypeOK, WorkerTypes,
         Others, Goto, locals
  <2> QED BY <2>1, LockingMark
<1>22. ASSUME NEW w \in Workers, ReleaseLease(w) PROVE Locking'
  <2>1. pc[w] # "idle" /\ DropOwnership(w) /\ Return(w) /\ cleanupVerified' = cleanupVerified
        /\ lock' = lock
    BY <1>22 DEF ReleaseLease, At, files
  <2> QED BY <2>1, LockingDrop
<1>23. ASSUME NEW w \in Workers, StaleMark(w) PROVE Locking'
  BY SMTT(30), <1>23 DEF StaleMark, At, MarkStale, Goto, locals, Return, files, RunOf, Call,
       NoTicket,
       NoRun, TypeOK, FileTypes, RowTypes, WorkerTypes, Tickets, Locking, LockFollowsClaim,
       TaskAt, database, BusyPc, ExecutingPc
<1>24. ASSUME NEW w \in Workers, StaleUnlock(w) PROVE Locking'
  BY <1>24, LockingStaleUnlock
<1>25. ASSUME NEW w \in Workers, StaleRelease(w) PROVE Locking'
  <2>1. pc[w] # "idle" /\ DropOwnership(w) /\ Return(w) /\ cleanupVerified' = cleanupVerified
        /\ lock' = lock
    BY <1>25 DEF StaleRelease, At, files
  <2> QED BY <2>1, LockingDrop
<1>26. ASSUME NEW w \in Workers, NEW r \in Runs, TakeClaim(w, r) PROVE Locking'
  BY <1>26 DEF TakeClaim, At, Claimable, Call, files, NoTicket, NoRun, TypeOK, FileTypes,
       RowTypes, WorkerTypes, Tickets, Locking, LockFollowsClaim, RunOf, TaskAt, database,
       locals, BusyPc, ExecutingPc
<1>27. ASSUME NEW w \in Workers, NEW r \in Runs, StalePick(w, r) PROVE Locking'
  <2>1. Others(w) /\ lock' = lock /\ claim' = claim /\ cleanupVerified' = cleanupVerified
        /\ pc'[w] \in {"stale_mark", "stale_unlock"}
    BY <1>27 DEF StalePick, Call, Others, TypeOK, WorkerTypes, database, files
  <2>2. LockingAt(w)'
    BY <2>1 DEF LockingAt, BusyPc, ExecutingPc
  <2> QED BY <2>1, <2>2, LockingSame
<1>28. ASSUME NEW w \in Workers, HeartbeatRenew(w) PROVE Locking'
  BY <1>28 DEF HeartbeatRenew, RunOf, files, locals, TypeOK, FileTypes, RowTypes, WorkerTypes,
       Tickets, Locking, LockFollowsClaim, TaskAt, At, database, BusyPc, ExecutingPc
<1>29. ASSUME NEW w \in Workers, HeartbeatSignal(w) PROVE Locking'
  BY <1>29 DEF HeartbeatSignal, database, files, TypeOK, FileTypes, RowTypes, WorkerTypes,
       Tickets, Locking, LockFollowsClaim, RunOf, TaskAt, At, locals, BusyPc, ExecutingPc
<1>30. ASSUME NEW w \in Workers, Crash(w) PROVE Locking'
  BY <1>30 DEF Crash, At, Return, database, files, Call, NoTicket, NoRun, TypeOK, FileTypes,
       RowTypes, WorkerTypes, Tickets, Locking, LockFollowsClaim, RunOf, TaskAt, locals, BusyPc,
       ExecutingPc
<1>31. ASSUME NEW r \in Runs, RequestCancel(r) PROVE Locking'
  BY <1>31 DEF RequestCancel, files, locals, TypeOK, FileTypes, RowTypes, WorkerTypes, Tickets,
       Locking, LockFollowsClaim, RunOf, TaskAt, At, database, BusyPc, ExecutingPc
<1>32. ASSUME NEW r \in Runs, CancelPending(r) PROVE Locking'
  BY <1>32 DEF CancelPending, files, locals, TypeOK, FileTypes, RowTypes, WorkerTypes, Tickets,
       Locking, LockFollowsClaim, RunOf, TaskAt, At, database, BusyPc, ExecutingPc
<1>33. ASSUME NEW r \in Runs, Deliver(r) PROVE Locking'
  BY <1>33 DEF Deliver, files, locals, TypeOK, FileTypes, RowTypes, WorkerTypes, Tickets,
       Locking, LockFollowsClaim, RunOf, TaskAt, At, database, BusyPc, ExecutingPc
<1>34. ASSUME Tick PROVE Locking'
  BY <1>34 DEF Tick, Elapse, files, locals, TypeOK, FileTypes, RowTypes, WorkerTypes, Tickets,
       Locking, LockFollowsClaim, RunOf, TaskAt, At, database, BusyPc, ExecutingPc
<1> QED BY Next, <1>1, <1>2, <1>3, <1>4, <1>5, <1>6, <1>7, <1>8, <1>9, <1>10, <1>11, <1>12,
       <1>13, <1>14, <1>15, <1>16, <1>17, <1>18, <1>19, <1>20, <1>21, <1>22, <1>23, <1>24,
       <1>25, <1>26, <1>27, <1>28, <1>29, <1>30, <1>31, <1>32, <1>33, <1>34
       DEF Next, Execute, Recover, ClaimNext, ClaimRun, Claimable

\* Child processes live and die under the lock of their run.
LEMMA ChildrenStep ==
    ASSUME TypeOK, ClaimRows, Tickets, Verification, Locking, Children, Next
    PROVE  Children'
<1>1. ASSUME NEW w \in Workers, Preflight(w) PROVE Children'
  BY SMTT(30), <1>1 DEF Preflight, At, Owns, Goto, RunOf, database, LeaseLive, HoldsRows,
       TaskAt, TypeOK,
       FileTypes, RowTypes, WorkerTypes, Tickets, Children, files, locals, BusyPc, ExecutingPc
<1>2. ASSUME NEW w \in Workers, Enter(w) PROVE Children'
  BY <1>2 DEF Enter, At, Goto, Stop, database, files, TypeOK, FileTypes, RowTypes, WorkerTypes,
       Tickets, Children, RunOf, TaskAt, locals, BusyPc, ExecutingPc
<1>3. ASSUME NEW w \in Workers, AcquireLock(w) PROVE Children'
  BY <1>3, ChildrenAcquire
<1>4. ASSUME NEW w \in Workers, BeginStage(w) PROVE Children'
  <2>1. /\ pc[w] = "ready" /\ Others(w) /\ own' = own /\ lock' = lock
        /\ cleanupVerified' = cleanupVerified
    BY <1>4 DEF BeginStage, At, Goto, Stop, Others, TypeOK, WorkerTypes, database
  <2>2. CASE agents' = [agents EXCEPT ![RunOf(w)] = TRUE] /\ pc'[w] = "runner"
    BY <2>1, <2>2, ChildrenSpawn
  <2>3. CASE agents' = agents /\ cleanup' = cleanup /\ pc'[w] = "finalize"
    <3>1. ChildRows'
      BY <2>1, <2>3 DEF ChildRows, Children
    <3>2. ChildrenAt(w)'
      BY <2>1, <2>3 DEF ChildrenAt, Children, BusyPc, ExecutingPc, RunOf
    <3> QED BY <2>1, <2>3, <3>1, <3>2, ChildrenFrame
  <2> QED BY <1>4, <2>2, <2>3 DEF BeginStage, Goto, Stop, TypeOK, WorkerTypes
<1>5. ASSUME NEW w \in Workers, GateStop(w) PROVE Children'
  BY SMTT(30), <1>5 DEF GateStop, At, Stop, RunOf, database, files, Goto, TypeOK, FileTypes,
       RowTypes,
       WorkerTypes, Tickets, Children, TaskAt, locals, BusyPc, ExecutingPc
<1>6. ASSUME NEW w \in Workers, RunnerReturns(w) PROVE Children'
  BY <1>6 DEF RunnerReturns, At, RunOf, Goto, Stop, database, TypeOK, FileTypes, RowTypes,
       WorkerTypes, Tickets, Children, TaskAt, files, locals, BusyPc, ExecutingPc
<1>7. ASSUME NEW w \in Workers, CleanupUnverified(w) PROVE Children'
  <2>1. /\ pc[w] \in {"ready", "runner"} /\ Others(w) /\ own' = own /\ lock' = lock
        /\ cleanupVerified' = cleanupVerified /\ pc'[w] = "finalize" /\ ~cleanup'[w]
    BY <1>7 DEF CleanupUnverified, At, Goto, Stop, Others, TypeOK, WorkerTypes, database
  <2>2. \E alive \in BOOLEAN : agents' = [agents EXCEPT ![RunOf(w)] = alive]
    BY <1>7 DEF CleanupUnverified
  <2> QED BY <2>1, <2>2, ChildrenSpawn
<1>8. ASSUME NEW w \in Workers, BeginHandoff(w) PROVE Children'
  BY <1>8 DEF BeginHandoff, At, Goto, Stop, database, files, TypeOK, FileTypes, RowTypes,
       WorkerTypes, Tickets, Children, RunOf, TaskAt, locals, BusyPc, ExecutingPc
<1>9. ASSUME NEW w \in Workers, PrepareHandoff(w) PROVE Children'
  BY <1>9 DEF PrepareHandoff, At, RunOf, HandedOver, Goto, HandoffRaised, files, Stop, TypeOK,
       FileTypes, RowTypes, WorkerTypes, Tickets, Children, TaskAt, database, locals, BusyPc,
       ExecutingPc
<1>10. ASSUME NEW w \in Workers, PublishHandoff(w) PROVE Children'
  BY SMTT(30), <1>10 DEF PublishHandoff, At, RunOf, HandedOver, HandoffRaised, files, Stop,
       Goto, TypeOK,
       FileTypes, RowTypes, WorkerTypes, Tickets, Children, TaskAt, database, locals, BusyPc,
       ExecutingPc
<1>11. ASSUME NEW w \in Workers, FinalizeBegin(w) PROVE Children'
  BY SMTT(30), <1>11 DEF FinalizeBegin, At, Owns, Goto, database, files, RunOf, LeaseLive,
       HoldsRows,
       TaskAt, TypeOK, FileTypes, RowTypes, WorkerTypes, Tickets, Children, locals, BusyPc,
       ExecutingPc
<1>12. ASSUME NEW w \in Workers, FinishArchive(w) PROVE Children'
  BY <1>12 DEF FinishArchive, At, Owns, RunOf, Goto, database, locals, LeaseLive, HoldsRows,
       TaskAt, TypeOK, FileTypes, RowTypes, WorkerTypes, Tickets, Children, files, BusyPc,
       ExecutingPc
<1>13. ASSUME NEW w \in Workers, FinalizeCommit(w) PROVE Children'
  BY <1>13 DEF FinalizeCommit, At, Owns, RunOf, Goto, files, locals, LeaseLive, HoldsRows,
       TaskAt, TypeOK, FileTypes, RowTypes, WorkerTypes, Tickets, Children, database, BusyPc,
       ExecutingPc
<1>14. ASSUME NEW w \in Workers, FinalizeAbort(w) PROVE Children'
  BY <1>14 DEF FinalizeAbort, At, Goto, database, files, locals, TypeOK, FileTypes, RowTypes,
       WorkerTypes, Tickets, Children, RunOf, TaskAt, BusyPc, ExecutingPc
<1>15. ASSUME NEW w \in Workers, FinalizeFailed(w) PROVE Children'
  BY <1>15 DEF FinalizeFailed, At, LeaseLive, RunOf, Goto, files, HoldsRows, TaskAt, TypeOK,
       FileTypes, RowTypes, WorkerTypes, Tickets, Children, database, locals, BusyPc,
       ExecutingPc
<1>16. ASSUME NEW w \in Workers, Unlock(w) PROVE Children'
  BY <1>16, ChildrenUnlock
<1>17. ASSUME NEW w \in Workers, RecordVerified(w) PROVE Children'
  <2>1. /\ pc[w] \in {"verified", "mark"} /\ MarkVerified(w) /\ own' = own /\ lock' = lock
        /\ pc'[w] \in {"setup_failed", "release", "drop"} /\ Others(w) /\ agents' = agents
    BY <1>17 DEF RecordVerified, At, AfterFinalize, files, TypeOK, WorkerTypes, Others, Goto,
         locals
  <2> QED BY <2>1, ChildrenMark
<1>18. ASSUME NEW w \in Workers, SetupFailed(w) PROVE Children'
  BY <1>18 DEF SetupFailed, At, RecordFailure, Goto, files, locals, RunOf, MarkStale, TypeOK,
       FileTypes, RowTypes, WorkerTypes, Tickets, Children, TaskAt, database, BusyPc,
       ExecutingPc
<1>19. ASSUME NEW w \in Workers, WorkerFailed(w) PROVE Children'
  BY <1>19 DEF WorkerFailed, At, RecordFailure, Goto, files, locals, RunOf, MarkStale, TypeOK,
       FileTypes, RowTypes, WorkerTypes, Tickets, Children, TaskAt, database, BusyPc,
       ExecutingPc
<1>20. ASSUME NEW w \in Workers, Release(w) PROVE Children'
  BY <1>20 DEF Release, At, TaskAt, NoTicket, Goto, locals, Return, database, files, NoRun,
       Call, TypeOK, FileTypes, RowTypes, WorkerTypes, Tickets, Children, RunOf, BusyPc,
       ExecutingPc
<1>21. ASSUME NEW w \in Workers, ReleaseMark(w) PROVE Children'
  <2>1. /\ pc[w] \in {"verified", "mark"} /\ MarkVerified(w) /\ own' = own /\ lock' = lock
        /\ pc'[w] \in {"setup_failed", "release", "drop"} /\ Others(w) /\ agents' = agents
    BY <1>21 DEF ReleaseMark, At, AfterFinalize, files, TypeOK, WorkerTypes, Others, Goto, locals
  <2> QED BY <2>1, ChildrenMark
<1>22. ASSUME NEW w \in Workers, ReleaseLease(w) PROVE Children'
  BY <1>22 DEF ReleaseLease, At, DropOwnership, Return, files, RunOf, NoLease, TaskAt, NoTicket,
       Call, NoRun, TypeOK, FileTypes, RowTypes, WorkerTypes, Tickets, Children, database,
       locals, BusyPc, ExecutingPc
<1>23. ASSUME NEW w \in Workers, StaleMark(w) PROVE Children'
  BY <1>23 DEF StaleMark, At, MarkStale, Goto, locals, Return, files, RunOf, Call, NoTicket,
       NoRun, TypeOK, FileTypes, RowTypes, WorkerTypes, Tickets, Children, TaskAt, database,
       BusyPc, ExecutingPc
<1>24. ASSUME NEW w \in Workers, StaleUnlock(w) PROVE Children'
  BY <1>24, ChildrenStaleUnlock
<1>25. ASSUME NEW w \in Workers, StaleRelease(w) PROVE Children'
  BY <1>25 DEF StaleRelease, At, DropOwnership, Return, files, RunOf, NoLease, TaskAt, NoTicket,
       Call, NoRun, TypeOK, FileTypes, RowTypes, WorkerTypes, Tickets, Children, database,
       locals, BusyPc, ExecutingPc
<1>26. ASSUME NEW w \in Workers, NEW r \in Runs, TakeClaim(w, r) PROVE Children'
  BY <1>26, ChildrenClaim
<1>27. ASSUME NEW w \in Workers, NEW r \in Runs, StalePick(w, r) PROVE Children'
  BY SMTT(30), <1>27 DEF StalePick, At, Call, database, files, TypeOK, FileTypes, RowTypes,
       WorkerTypes,
       Tickets, Children, RunOf, TaskAt, locals, BusyPc, ExecutingPc
<1>28. ASSUME NEW w \in Workers, HeartbeatRenew(w) PROVE Children'
  BY <1>28 DEF HeartbeatRenew, RunOf, files, locals, TypeOK, FileTypes, RowTypes, WorkerTypes,
       Tickets, Children, TaskAt, At, database, BusyPc, ExecutingPc
<1>29. ASSUME NEW w \in Workers, HeartbeatSignal(w) PROVE Children'
  BY <1>29 DEF HeartbeatSignal, database, files, TypeOK, FileTypes, RowTypes, WorkerTypes,
       Tickets, Children, RunOf, TaskAt, At, locals, BusyPc, ExecutingPc
<1>30. ASSUME NEW w \in Workers, Crash(w) PROVE Children'
  BY <1>30 DEF Crash, At, Return, database, files, Call, NoTicket, NoRun, TypeOK, FileTypes,
       RowTypes, WorkerTypes, Tickets, Children, RunOf, TaskAt, locals, BusyPc, ExecutingPc
<1>31. ASSUME NEW r \in Runs, RequestCancel(r) PROVE Children'
  BY <1>31 DEF RequestCancel, files, locals, TypeOK, FileTypes, RowTypes, WorkerTypes, Tickets,
       Children, RunOf, TaskAt, At, database, BusyPc, ExecutingPc
<1>32. ASSUME NEW r \in Runs, CancelPending(r) PROVE Children'
  BY <1>32 DEF CancelPending, files, locals, TypeOK, FileTypes, RowTypes, WorkerTypes, Tickets,
       Children, RunOf, TaskAt, At, database, BusyPc, ExecutingPc
<1>33. ASSUME NEW r \in Runs, Deliver(r) PROVE Children'
  BY <1>33 DEF Deliver, files, locals, TypeOK, FileTypes, RowTypes, WorkerTypes, Tickets,
       Children, RunOf, TaskAt, At, database, BusyPc, ExecutingPc
<1>34. ASSUME Tick PROVE Children'
  BY <1>34 DEF Tick, Elapse, files, locals, TypeOK, FileTypes, RowTypes, WorkerTypes, Tickets,
       Children, RunOf, TaskAt, At, database, BusyPc, ExecutingPc
<1> QED BY Next, <1>1, <1>2, <1>3, <1>4, <1>5, <1>6, <1>7, <1>8, <1>9, <1>10, <1>11, <1>12,
       <1>13, <1>14, <1>15, <1>16, <1>17, <1>18, <1>19, <1>20, <1>21, <1>22, <1>23, <1>24,
       <1>25, <1>26, <1>27, <1>28, <1>29, <1>30, <1>31, <1>32, <1>33, <1>34
       DEF Next, Execute, Recover, ClaimNext, ClaimRun, Claimable

\* What a finalization is about to commit is backed by archive and package.
LEMMA EvidenceStep ==
    ASSUME TypeOK, ClaimRows, Tickets, Verification, Children, Evidence, Next
    PROVE  Evidence'
<1>1. ASSUME NEW w \in Workers, Preflight(w) PROVE Evidence'
  BY <1>1 DEF Preflight, At, WriterFree, Owns, Goto, RunOf, database, LeaseLive, HoldsRows,
       TaskAt, TypeOK, FileTypes, RowTypes, WorkerTypes, Tickets, Evidence, files, locals,
       BusyPc, ExecutingPc
<1>2. ASSUME NEW w \in Workers, Enter(w) PROVE Evidence'
  <2>1. /\ pc[w] \in BusyPc \ {"unlock"} /\ own' = own /\ UNCHANGED <<database, archive>>
    BY <1>2 DEF Enter, At, BusyPc, ExecutingPc, files
  <2>2. \/ \E l \in {"lock", "ready", "runner", "prepare"} : pc' = [pc EXCEPT ![w] = l]
        \/ \E f \in {"failed", "succeeded", "cancelled", "needs_attention"} :
              pc' = [pc EXCEPT ![w] = "finalize"] /\ final' = [final EXCEPT ![w] = f]
    BY <1>2 DEF Enter, Goto, Stop, ConcurrencyStatus, FailureStatus
  <2>3. Others(w)
    BY <1>2 DEF Enter, Goto, Stop, Others, TypeOK, WorkerTypes
  <2>4. /\ pc'[w] \in BusyPc \ {"archive", "commit", "unlock"}
        /\ pc'[w] = "finalize" => final'[w] # "awaiting_receipt"
    BY <2>2 DEF TypeOK, WorkerTypes, BusyPc, ExecutingPc
  <2> QED BY <2>1, <2>3, <2>4, EvidencePlain
<1>3. ASSUME NEW w \in Workers, AcquireLock(w) PROVE Evidence'
  <2>1. /\ pc[w] \in BusyPc \ {"unlock"} /\ own' = own /\ UNCHANGED <<database, archive>>
    BY <1>3 DEF AcquireLock, At, BusyPc, ExecutingPc, files
  <2>2. \/ \E l \in {"lock", "ready", "runner", "prepare"} : pc' = [pc EXCEPT ![w] = l]
        \/ \E f \in {"failed", "succeeded", "cancelled", "needs_attention"} :
              pc' = [pc EXCEPT ![w] = "finalize"] /\ final' = [final EXCEPT ![w] = f]
    BY <1>3 DEF AcquireLock, Goto, Stop, ConcurrencyStatus, FailureStatus
  <2>3. Others(w)
    BY <1>3 DEF AcquireLock, Goto, Stop, Others, TypeOK, WorkerTypes
  <2>4. /\ pc'[w] \in BusyPc \ {"archive", "commit", "unlock"}
        /\ pc'[w] = "finalize" => final'[w] # "awaiting_receipt"
    BY <2>2 DEF TypeOK, WorkerTypes, BusyPc, ExecutingPc
  <2> QED BY <2>1, <2>3, <2>4, EvidencePlain
<1>4. ASSUME NEW w \in Workers, BeginStage(w) PROVE Evidence'
  <2>1. /\ pc[w] \in BusyPc \ {"unlock"} /\ own' = own /\ UNCHANGED <<database, archive>>
    BY <1>4 DEF BeginStage, At, BusyPc, ExecutingPc, files
  <2>2. \/ \E l \in {"lock", "ready", "runner", "prepare"} : pc' = [pc EXCEPT ![w] = l]
        \/ \E f \in {"failed", "succeeded", "cancelled", "needs_attention"} :
              pc' = [pc EXCEPT ![w] = "finalize"] /\ final' = [final EXCEPT ![w] = f]
    BY <1>4 DEF BeginStage, Goto, Stop, ConcurrencyStatus, FailureStatus
  <2>3. Others(w)
    BY <1>4 DEF BeginStage, Goto, Stop, Others, TypeOK, WorkerTypes
  <2>4. /\ pc'[w] \in BusyPc \ {"archive", "commit", "unlock"}
        /\ pc'[w] = "finalize" => final'[w] # "awaiting_receipt"
    BY <2>2 DEF TypeOK, WorkerTypes, BusyPc, ExecutingPc
  <2> QED BY <2>1, <2>3, <2>4, EvidencePlain
<1>5. ASSUME NEW w \in Workers, GateStop(w) PROVE Evidence'
  <2>1. /\ pc[w] \in BusyPc \ {"unlock"} /\ own' = own /\ UNCHANGED <<database, archive>>
    BY <1>5 DEF GateStop, At, BusyPc, ExecutingPc, files
  <2>2. \/ \E l \in {"lock", "ready", "runner", "prepare"} : pc' = [pc EXCEPT ![w] = l]
        \/ \E f \in {"failed", "succeeded", "cancelled", "needs_attention"} :
              pc' = [pc EXCEPT ![w] = "finalize"] /\ final' = [final EXCEPT ![w] = f]
    BY <1>5 DEF GateStop, Goto, Stop, ConcurrencyStatus, FailureStatus
  <2>3. Others(w)
    BY <1>5 DEF GateStop, Goto, Stop, Others, TypeOK, WorkerTypes
  <2>4. /\ pc'[w] \in BusyPc \ {"archive", "commit", "unlock"}
        /\ pc'[w] = "finalize" => final'[w] # "awaiting_receipt"
    BY <2>2 DEF TypeOK, WorkerTypes, BusyPc, ExecutingPc
  <2> QED BY <2>1, <2>3, <2>4, EvidencePlain
<1>6. ASSUME NEW w \in Workers, RunnerReturns(w) PROVE Evidence'
  <2>1. /\ pc[w] \in BusyPc \ {"unlock"} /\ own' = own /\ UNCHANGED <<database, archive>>
    BY <1>6 DEF RunnerReturns, At, BusyPc, ExecutingPc, files
  <2>2. \/ \E l \in {"lock", "ready", "runner", "prepare"} : pc' = [pc EXCEPT ![w] = l]
        \/ \E f \in {"failed", "succeeded", "cancelled", "needs_attention"} :
              pc' = [pc EXCEPT ![w] = "finalize"] /\ final' = [final EXCEPT ![w] = f]
    BY <1>6 DEF RunnerReturns, Goto, Stop, ConcurrencyStatus, FailureStatus
  <2>3. Others(w)
    BY <1>6 DEF RunnerReturns, Goto, Stop, Others, TypeOK, WorkerTypes
  <2>4. /\ pc'[w] \in BusyPc \ {"archive", "commit", "unlock"}
        /\ pc'[w] = "finalize" => final'[w] # "awaiting_receipt"
    BY <2>2 DEF TypeOK, WorkerTypes, BusyPc, ExecutingPc
  <2> QED BY <2>1, <2>3, <2>4, EvidencePlain
<1>7. ASSUME NEW w \in Workers, CleanupUnverified(w) PROVE Evidence'
  <2>1. /\ pc[w] \in BusyPc \ {"unlock"} /\ own' = own /\ UNCHANGED <<database, archive>>
    BY <1>7 DEF CleanupUnverified, At, BusyPc, ExecutingPc, files
  <2>2. \/ \E l \in {"lock", "ready", "runner", "prepare"} : pc' = [pc EXCEPT ![w] = l]
        \/ \E f \in {"failed", "succeeded", "cancelled", "needs_attention"} :
              pc' = [pc EXCEPT ![w] = "finalize"] /\ final' = [final EXCEPT ![w] = f]
    BY <1>7 DEF CleanupUnverified, Goto, Stop, ConcurrencyStatus, FailureStatus
  <2>3. Others(w)
    BY <1>7 DEF CleanupUnverified, Goto, Stop, Others, TypeOK, WorkerTypes
  <2>4. /\ pc'[w] \in BusyPc \ {"archive", "commit", "unlock"}
        /\ pc'[w] = "finalize" => final'[w] # "awaiting_receipt"
    BY <2>2 DEF TypeOK, WorkerTypes, BusyPc, ExecutingPc
  <2> QED BY <2>1, <2>3, <2>4, EvidencePlain
<1>8. ASSUME NEW w \in Workers, BeginHandoff(w) PROVE Evidence'
  <2>1. /\ pc[w] \in BusyPc \ {"unlock"} /\ own' = own /\ UNCHANGED <<database, archive>>
    BY <1>8 DEF BeginHandoff, At, BusyPc, ExecutingPc, files
  <2>2. \/ \E l \in {"lock", "ready", "runner", "prepare"} : pc' = [pc EXCEPT ![w] = l]
        \/ \E f \in {"failed", "succeeded", "cancelled", "needs_attention"} :
              pc' = [pc EXCEPT ![w] = "finalize"] /\ final' = [final EXCEPT ![w] = f]
    BY <1>8 DEF BeginHandoff, Goto, Stop, ConcurrencyStatus, FailureStatus
  <2>3. Others(w)
    BY <1>8 DEF BeginHandoff, Goto, Stop, Others, TypeOK, WorkerTypes
  <2>4. /\ pc'[w] \in BusyPc \ {"archive", "commit", "unlock"}
        /\ pc'[w] = "finalize" => final'[w] # "awaiting_receipt"
    BY <2>2 DEF TypeOK, WorkerTypes, BusyPc, ExecutingPc
  <2> QED BY <2>1, <2>3, <2>4, EvidencePlain
<1>9. ASSUME NEW w \in Workers, PrepareHandoff(w) PROVE Evidence'
  BY <1>9, EvidenceHandoff
<1>10. ASSUME NEW w \in Workers, PublishHandoff(w) PROVE Evidence'
  BY <1>10, EvidenceHandoff
<1>11. ASSUME NEW w \in Workers, FinalizeBegin(w) PROVE Evidence'
  BY SMTT(30), <1>11 DEF FinalizeBegin, At, WriterFree, Owns, Goto, FinalStatus, database,
       files, RunOf,
       LeaseLive, HoldsRows, TaskAt, TypeOK, FileTypes, RowTypes, WorkerTypes, Tickets,
       Evidence, locals, BusyPc, ExecutingPc
<1>12. ASSUME NEW w \in Workers, FinishArchive(w) PROVE Evidence'
  BY <1>12, EvidenceArchive
<1>13. ASSUME NEW w \in Workers, FinalizeCommit(w) PROVE Evidence'
  BY <1>13 DEF FinalizeCommit, At, Owns, RunOf, Pending, Goto, files, locals, LeaseLive,
       HoldsRows, TaskAt, TypeOK, FileTypes, RowTypes, WorkerTypes, Tickets, Evidence, database,
       BusyPc, ExecutingPc
<1>14. ASSUME NEW w \in Workers, FinalizeAbort(w) PROVE Evidence'
  BY <1>14 DEF FinalizeAbort, At, Goto, database, files, locals, TypeOK, FileTypes, RowTypes,
       WorkerTypes, Tickets, Evidence, RunOf, TaskAt, BusyPc, ExecutingPc
<1>15. ASSUME NEW w \in Workers, FinalizeFailed(w) PROVE Evidence'
  <2>1. pc[w] # "idle" /\ Settles(w)
    BY <1>15, FinalizeFailedSettles DEF FinalizeFailed, At
  <2>2. Others(w) /\ pc'[w] = "unlock" /\ pc[w] \in ExecutingPc /\ RunOf(w) \in Runs
        /\ UNCHANGED <<cancelRequested, archive>>
    BY <1>15 DEF FinalizeFailed, At, ExecutingPc, files, Tickets, TypeOK, WorkerTypes, Others,
         Goto, locals
  <2>3. handoff' = handoff \/ \E h : handoff' = [handoff EXCEPT ![RunOf(w)] = h]
    BY <1>15 DEF FinalizeFailed
  <2> QED BY <2>1, <2>2, <2>3, SettlesOwnRun, EvidenceFailed
<1>16. ASSUME NEW w \in Workers, Unlock(w) PROVE Evidence'
  BY <1>16 DEF Unlock, At, TaskAt, NoTicket, Goto, AfterFinalize, database, locals, NoRun,
       TypeOK, FileTypes, RowTypes, WorkerTypes, Tickets, Evidence, RunOf, files, BusyPc,
       ExecutingPc
<1>17. ASSUME NEW w \in Workers, RecordVerified(w) PROVE Evidence'
  BY <1>17 DEF RecordVerified, At, WriterFree, MarkVerified, Goto, AfterFinalize, files, locals,
       TaskAt, RunOf, TypeOK, FileTypes, RowTypes, WorkerTypes, Tickets, Evidence, database,
       BusyPc, ExecutingPc
<1>18. ASSUME NEW w \in Workers, SetupFailed(w) PROVE Evidence'
  <2>1. pc[w] # "idle" /\ Settles(w)
    BY <1>18, FailureSettles DEF SetupFailed, At, ConcurrencyStatus, FailureStatus, Finals
  <2>2. Others(w) /\ pc'[w] = "worker_failed" /\ pc[w] \in ExecutingPc /\ RunOf(w) \in Runs
        /\ UNCHANGED <<cancelRequested, archive>>
    BY <1>18 DEF SetupFailed, At, ExecutingPc, files, Tickets, TypeOK, WorkerTypes, Others,
         Goto, locals
  <2>3. handoff' = handoff \/ \E h : handoff' = [handoff EXCEPT ![RunOf(w)] = h]
    BY <1>18 DEF SetupFailed
  <2> QED BY <2>1, <2>2, <2>3, SettlesOwnRun, EvidenceFailed
<1>19. ASSUME NEW w \in Workers, WorkerFailed(w) PROVE Evidence'
  <2>1. pc[w] # "idle" /\ Settles(w)
    BY <1>19, FailureSettles DEF WorkerFailed, At, Finals
  <2>2. Others(w) /\ pc'[w] = "release" /\ pc[w] \in ExecutingPc /\ RunOf(w) \in Runs
        /\ UNCHANGED <<cancelRequested, archive>>
    BY <1>19 DEF WorkerFailed, At, ExecutingPc, files, Tickets, TypeOK, WorkerTypes, Others,
         Goto, locals
  <2>3. handoff' = handoff \/ \E h : handoff' = [handoff EXCEPT ![RunOf(w)] = h]
    BY <1>19 DEF WorkerFailed
  <2> QED BY <2>1, <2>2, <2>3, SettlesOwnRun, EvidenceFailed
<1>20. ASSUME NEW w \in Workers, Release(w) PROVE Evidence'
  BY <1>20 DEF Release, At, TaskAt, NoTicket, Goto, locals, Return, database, files, NoRun,
       Call, TypeOK, FileTypes, RowTypes, WorkerTypes, Tickets, Evidence, RunOf, BusyPc,
       ExecutingPc
<1>21. ASSUME NEW w \in Workers, ReleaseMark(w) PROVE Evidence'
  BY <1>21 DEF ReleaseMark, At, WriterFree, MarkVerified, Goto, files, locals, TaskAt, RunOf,
       TypeOK, FileTypes, RowTypes, WorkerTypes, Tickets, Evidence, database, BusyPc,
       ExecutingPc
<1>22. ASSUME NEW w \in Workers, ReleaseLease(w) PROVE Evidence'
  BY <1>22 DEF ReleaseLease, At, WriterFree, DropOwnership, Return, files, RunOf, NoLease,
       TaskAt, NoTicket, Call, NoRun, TypeOK, FileTypes, RowTypes, WorkerTypes, Tickets,
       Evidence, database, locals, BusyPc, ExecutingPc
<1>23. ASSUME NEW w \in Workers, StaleMark(w) PROVE Evidence'
  BY <1>23 DEF StaleMark, At, WriterFree, MarkStale, Goto, locals, Return, files, RunOf, Call,
       NoTicket, NoRun, TypeOK, FileTypes, RowTypes, WorkerTypes, Tickets, Evidence, TaskAt,
       database, BusyPc, ExecutingPc
<1>24. ASSUME NEW w \in Workers, StaleUnlock(w) PROVE Evidence'
  BY SMTT(30), <1>24 DEF StaleUnlock, At, TaskAt, NoTicket, Goto, locals, Return, database,
       NoRun, Call,
       TypeOK, FileTypes, RowTypes, WorkerTypes, Tickets, Evidence, RunOf, files, BusyPc,
       ExecutingPc
<1>25. ASSUME NEW w \in Workers, StaleRelease(w) PROVE Evidence'
  BY <1>25 DEF StaleRelease, At, WriterFree, DropOwnership, Return, files, RunOf, NoLease,
       TaskAt, NoTicket, Call, NoRun, TypeOK, FileTypes, RowTypes, WorkerTypes, Tickets,
       Evidence, database, locals, BusyPc, ExecutingPc
<1>26. ASSUME NEW w \in Workers, NEW r \in Runs, TakeClaim(w, r) PROVE Evidence'
  BY <1>26 DEF TakeClaim, At, WriterFree, Claimable, Call, files, NoTicket, NoRun, TypeOK,
       FileTypes, RowTypes, WorkerTypes, Tickets, Evidence, RunOf, TaskAt, database, locals,
       BusyPc, ExecutingPc
<1>27. ASSUME NEW w \in Workers, NEW r \in Runs, StalePick(w, r) PROVE Evidence'
  BY SMTT(30), <1>27 DEF StalePick, At, Call, database, files, TypeOK, FileTypes, RowTypes,
       WorkerTypes,
       Tickets, Evidence, RunOf, TaskAt, locals, BusyPc, ExecutingPc
<1>28. ASSUME NEW w \in Workers, HeartbeatRenew(w) PROVE Evidence'
  BY <1>28 DEF HeartbeatRenew, WriterFree, RunOf, files, locals, TypeOK, FileTypes, RowTypes,
       WorkerTypes, Tickets, Evidence, TaskAt, At, database, BusyPc, ExecutingPc
<1>29. ASSUME NEW w \in Workers, HeartbeatSignal(w) PROVE Evidence'
  BY <1>29 DEF HeartbeatSignal, database, files, TypeOK, FileTypes, RowTypes, WorkerTypes,
       Tickets, Evidence, RunOf, TaskAt, At, locals, BusyPc, ExecutingPc
<1>30. ASSUME NEW w \in Workers, Crash(w) PROVE Evidence'
  BY <1>30 DEF Crash, At, Return, database, files, Call, NoTicket, NoRun, TypeOK, FileTypes,
       RowTypes, WorkerTypes, Tickets, Evidence, RunOf, TaskAt, locals, BusyPc, ExecutingPc
<1>31. ASSUME NEW r \in Runs, RequestCancel(r) PROVE Evidence'
  BY <1>31 DEF RequestCancel, WriterFree, files, locals, TypeOK, FileTypes, RowTypes,
       WorkerTypes, Tickets, Evidence, RunOf, TaskAt, At, database, BusyPc, ExecutingPc
<1>32. ASSUME NEW r \in Runs, CancelPending(r) PROVE Evidence'
  BY <1>32 DEF CancelPending, WriterFree, Pending, files, locals, TypeOK, FileTypes, RowTypes,
       WorkerTypes, Tickets, Evidence, RunOf, TaskAt, At, database, BusyPc, ExecutingPc
<1>33. ASSUME NEW r \in Runs, Deliver(r) PROVE Evidence'
  BY <1>33 DEF Deliver, WriterFree, files, locals, TypeOK, FileTypes, RowTypes, WorkerTypes,
       Tickets, Evidence, RunOf, TaskAt, At, database, BusyPc, ExecutingPc
<1>34. ASSUME Tick PROVE Evidence'
  BY <1>34 DEF Tick, Elapse, files, locals, TypeOK, FileTypes, RowTypes, WorkerTypes, Tickets,
       Evidence, RunOf, TaskAt, At, database, BusyPc, ExecutingPc
<1> QED BY Next, <1>1, <1>2, <1>3, <1>4, <1>5, <1>6, <1>7, <1>8, <1>9, <1>10, <1>11, <1>12,
       <1>13, <1>14, <1>15, <1>16, <1>17, <1>18, <1>19, <1>20, <1>21, <1>22, <1>23, <1>24,
       <1>25, <1>26, <1>27, <1>28, <1>29, <1>30, <1>31, <1>32, <1>33, <1>34
       DEF Next, Execute, Recover, ClaimNext, ClaimRun, Claimable

\* Waiting for delivery and success keep their evidence.
LEMMA SuccessStep ==
    ASSUME TypeOK, ClaimRows, Tickets, Verification, Locking, Children, Evidence,
           SuccessHasEvidence, Next
    PROVE  SuccessHasEvidence'
<1>1. ASSUME NEW w \in Workers, Preflight(w) PROVE SuccessHasEvidence'
  BY <1>1 DEF Preflight, At, Owns, RunOf, database, LeaseLive, HoldsRows, TaskAt, TypeOK,
       FileTypes, RowTypes, WorkerTypes, Tickets, Evidence, SuccessHasEvidence, files
<1>2. ASSUME NEW w \in Workers, Enter(w) PROVE SuccessHasEvidence'
  BY <1>2 DEF Enter, At, database, files, TypeOK, FileTypes, RowTypes, WorkerTypes, Tickets,
       Evidence, SuccessHasEvidence, RunOf, TaskAt
<1>3. ASSUME NEW w \in Workers, AcquireLock(w) PROVE SuccessHasEvidence'
  BY <1>3 DEF AcquireLock, At, TaskAt, NoTicket, database, NoRun, TypeOK, FileTypes, RowTypes,
       WorkerTypes, Tickets, Evidence, SuccessHasEvidence, RunOf, files
<1>4. ASSUME NEW w \in Workers, BeginStage(w) PROVE SuccessHasEvidence'
  <2>1. pc[w] \in BusyPc \ {"unlock"} /\ own' = own /\ archive' = archive /\ status' = status
    BY <1>4 DEF BeginStage, At, BusyPc, ExecutingPc, files, database
  <2>2. status[RunOf(w)] \in {"running", "needs_attention"} /\ pc[w] # "idle"
    BY <2>1 DEF Evidence, BusyPc, ExecutingPc
  <2>3. \A r \in Runs \ {RunOf(w)} : handoff'[r] = handoff[r] /\ agents'[r] = agents[r]
    BY <1>4 DEF BeginStage, files, database, TypeOK, RowTypes, FileTypes
  <2> QED BY <2>1, <2>2, <2>3, SuccessBusy
<1>5. ASSUME NEW w \in Workers, GateStop(w) PROVE SuccessHasEvidence'
  BY <1>5 DEF GateStop, At, RunOf, database, files, TypeOK, FileTypes, RowTypes, WorkerTypes,
       Tickets, Evidence, SuccessHasEvidence, TaskAt
<1>6. ASSUME NEW w \in Workers, RunnerReturns(w) PROVE SuccessHasEvidence'
  BY <1>6 DEF RunnerReturns, At, RunOf, database, TypeOK, FileTypes, RowTypes, WorkerTypes,
       Tickets, Evidence, SuccessHasEvidence, TaskAt, files
<1>7. ASSUME NEW w \in Workers, CleanupUnverified(w) PROVE SuccessHasEvidence'
  <2>1. pc[w] \in BusyPc \ {"unlock"} /\ own' = own /\ archive' = archive /\ status' = status
    BY <1>7 DEF CleanupUnverified, At, BusyPc, ExecutingPc, files, database
  <2>2. status[RunOf(w)] \in {"running", "needs_attention"} /\ pc[w] # "idle"
    BY <2>1 DEF Evidence, BusyPc, ExecutingPc
  <2>3. \A r \in Runs \ {RunOf(w)} : handoff'[r] = handoff[r] /\ agents'[r] = agents[r]
    BY <1>7 DEF CleanupUnverified, files, database, TypeOK, RowTypes, FileTypes
  <2> QED BY <2>1, <2>2, <2>3, SuccessBusy
<1>8. ASSUME NEW w \in Workers, BeginHandoff(w) PROVE SuccessHasEvidence'
  BY <1>8 DEF BeginHandoff, At, database, files, TypeOK, FileTypes, RowTypes, WorkerTypes,
       Tickets, Evidence, SuccessHasEvidence, RunOf, TaskAt
<1>9. ASSUME NEW w \in Workers, PrepareHandoff(w) PROVE SuccessHasEvidence'
  <2>1. pc[w] \in BusyPc \ {"unlock"} /\ own' = own /\ archive' = archive /\ status' = status
    BY <1>9 DEF PrepareHandoff, At, BusyPc, ExecutingPc, files, database
  <2>2. status[RunOf(w)] \in {"running", "needs_attention"} /\ pc[w] # "idle"
    BY <2>1 DEF Evidence, BusyPc, ExecutingPc
  <2>3. \A r \in Runs \ {RunOf(w)} : handoff'[r] = handoff[r] /\ agents'[r] = agents[r]
    BY <1>9 DEF PrepareHandoff, files, database, TypeOK, RowTypes, FileTypes
  <2> QED BY <2>1, <2>2, <2>3, SuccessBusy
<1>10. ASSUME NEW w \in Workers, PublishHandoff(w) PROVE SuccessHasEvidence'
  BY <1>10 DEF PublishHandoff, At, RunOf, files, TypeOK, FileTypes, RowTypes, WorkerTypes,
       Tickets, Evidence, SuccessHasEvidence, TaskAt, database
<1>11. ASSUME NEW w \in Workers, FinalizeBegin(w) PROVE SuccessHasEvidence'
  BY <1>11 DEF FinalizeBegin, At, Owns, database, files, RunOf, LeaseLive, HoldsRows, TaskAt,
       TypeOK, FileTypes, RowTypes, WorkerTypes, Tickets, Evidence, SuccessHasEvidence
<1>12. ASSUME NEW w \in Workers, FinishArchive(w) PROVE SuccessHasEvidence'
  BY <1>12 DEF FinishArchive, At, Owns, RunOf, database, locals, LeaseLive, HoldsRows, TaskAt,
       TypeOK, FileTypes, RowTypes, WorkerTypes, Tickets, Evidence, SuccessHasEvidence, files
<1>13. ASSUME NEW w \in Workers, FinalizeCommit(w) PROVE SuccessHasEvidence'
  BY <1>13, SuccessCommit
<1>14. ASSUME NEW w \in Workers, FinalizeAbort(w) PROVE SuccessHasEvidence'
  BY <1>14 DEF FinalizeAbort, At, database, files, locals, TypeOK, FileTypes, RowTypes,
       WorkerTypes, Tickets, Evidence, SuccessHasEvidence, RunOf, TaskAt
<1>15. ASSUME NEW w \in Workers, FinalizeFailed(w) PROVE SuccessHasEvidence'
  <2>1. /\ pc[w] \in BusyPc \ {"unlock"} /\ own' = own /\ archive' = archive /\ agents' = agents
        /\ RunOf(w) \in Runs
    BY <1>15 DEF FinalizeFailed, Tickets, At, BusyPc, ExecutingPc, files, database
  <2>2. status[RunOf(w)] \in {"running", "needs_attention"} /\ pc[w] # "idle"
    BY <2>1 DEF Evidence, BusyPc, ExecutingPc
  <2>3. status'[RunOf(w)] \notin {"awaiting_receipt", "succeeded"}
    BY <1>15, <2>1, <2>2 DEF FinalizeFailed, TypeOK, RowTypes
  <2>4. \A r \in Runs \ {RunOf(w)} : status'[r] = status[r] /\ handoff'[r] = handoff[r]
    BY <1>15, <2>1 DEF FinalizeFailed, TypeOK, RowTypes
  <2> QED BY <2>1, <2>2, <2>3, <2>4, SuccessBusy
<1>16. ASSUME NEW w \in Workers, Unlock(w) PROVE SuccessHasEvidence'
  BY <1>16 DEF Unlock, At, TaskAt, NoTicket, database, locals, NoRun, TypeOK, FileTypes,
       RowTypes, WorkerTypes, Tickets, Evidence, SuccessHasEvidence, RunOf, files
<1>17. ASSUME NEW w \in Workers, RecordVerified(w) PROVE SuccessHasEvidence'
  BY <1>17 DEF RecordVerified, At, MarkVerified, files, locals, TaskAt, RunOf, TypeOK,
       FileTypes, RowTypes, WorkerTypes, Tickets, Evidence, SuccessHasEvidence, database
<1>18. ASSUME NEW w \in Workers, SetupFailed(w) PROVE SuccessHasEvidence'
  BY <1>18, SuccessSetupFailed
<1>19. ASSUME NEW w \in Workers, WorkerFailed(w) PROVE SuccessHasEvidence'
  BY <1>19 DEF WorkerFailed, At, RecordFailure, files, locals, RunOf, MarkStale, TypeOK,
       FileTypes, RowTypes, WorkerTypes, Tickets, Evidence, SuccessHasEvidence, TaskAt, database
<1>20. ASSUME NEW w \in Workers, Release(w) PROVE SuccessHasEvidence'
  BY <1>20 DEF Release, At, TaskAt, NoTicket, locals, database, files, NoRun, TypeOK, FileTypes,
       RowTypes, WorkerTypes, Tickets, Evidence, SuccessHasEvidence, RunOf
<1>21. ASSUME NEW w \in Workers, ReleaseMark(w) PROVE SuccessHasEvidence'
  BY <1>21 DEF ReleaseMark, At, MarkVerified, files, locals, TaskAt, RunOf, TypeOK, FileTypes,
       RowTypes, WorkerTypes, Tickets, Evidence, SuccessHasEvidence, database
<1>22. ASSUME NEW w \in Workers, ReleaseLease(w) PROVE SuccessHasEvidence'
  BY <1>22 DEF ReleaseLease, At, DropOwnership, files, RunOf, NoLease, TaskAt, NoTicket, NoRun,
       TypeOK, FileTypes, RowTypes, WorkerTypes, Tickets, Evidence, SuccessHasEvidence, database
<1>23. ASSUME NEW w \in Workers, StaleMark(w) PROVE SuccessHasEvidence'
  BY <1>23 DEF StaleMark, At, MarkStale, locals, files, RunOf, TypeOK, FileTypes, RowTypes,
       WorkerTypes, Tickets, Evidence, SuccessHasEvidence, TaskAt, database
<1>24. ASSUME NEW w \in Workers, StaleUnlock(w) PROVE SuccessHasEvidence'
  BY <1>24 DEF StaleUnlock, At, TaskAt, NoTicket, locals, database, NoRun, TypeOK, FileTypes,
       RowTypes, WorkerTypes, Tickets, Evidence, SuccessHasEvidence, RunOf, files
<1>25. ASSUME NEW w \in Workers, StaleRelease(w) PROVE SuccessHasEvidence'
  BY <1>25 DEF StaleRelease, At, DropOwnership, files, RunOf, NoLease, TaskAt, NoTicket, NoRun,
       TypeOK, FileTypes, RowTypes, WorkerTypes, Tickets, Evidence, SuccessHasEvidence, database
<1>26. ASSUME NEW w \in Workers, NEW r \in Runs, TakeClaim(w, r) PROVE SuccessHasEvidence'
  BY <1>26 DEF TakeClaim, At, Claimable, files, NoTicket, NoRun, TypeOK, FileTypes, RowTypes,
       WorkerTypes, Tickets, Evidence, SuccessHasEvidence, RunOf, TaskAt, database
<1>27. ASSUME NEW w \in Workers, NEW r \in Runs, StalePick(w, r) PROVE SuccessHasEvidence'
  BY <1>27 DEF StalePick, At, database, files, TypeOK, FileTypes, RowTypes, WorkerTypes,
       Tickets, Evidence, SuccessHasEvidence, RunOf, TaskAt
<1>28. ASSUME NEW w \in Workers, HeartbeatRenew(w) PROVE SuccessHasEvidence'
  BY <1>28 DEF HeartbeatRenew, RunOf, files, locals, TypeOK, FileTypes, RowTypes, WorkerTypes,
       Tickets, Evidence, SuccessHasEvidence, TaskAt, At, database
<1>29. ASSUME NEW w \in Workers, HeartbeatSignal(w) PROVE SuccessHasEvidence'
  BY <1>29 DEF HeartbeatSignal, database, files, TypeOK, FileTypes, RowTypes, WorkerTypes,
       Tickets, Evidence, SuccessHasEvidence, RunOf, TaskAt, At
<1>30. ASSUME NEW w \in Workers, Crash(w) PROVE SuccessHasEvidence'
  BY <1>30 DEF Crash, At, database, files, TypeOK, FileTypes, RowTypes, WorkerTypes, Tickets,
       Evidence, SuccessHasEvidence, RunOf, TaskAt
<1>31. ASSUME NEW r \in Runs, RequestCancel(r) PROVE SuccessHasEvidence'
  BY <1>31 DEF RequestCancel, files, locals, TypeOK, FileTypes, RowTypes, WorkerTypes, Tickets,
       Evidence, SuccessHasEvidence, RunOf, TaskAt, At, database
<1>32. ASSUME NEW r \in Runs, CancelPending(r) PROVE SuccessHasEvidence'
  BY <1>32 DEF CancelPending, Pending, files, locals, TypeOK, FileTypes, RowTypes, WorkerTypes,
       Tickets, Evidence, SuccessHasEvidence, RunOf, TaskAt, At, database
<1>33. ASSUME NEW r \in Runs, Deliver(r) PROVE SuccessHasEvidence'
  BY <1>33 DEF Deliver, DeliveryResult, files, locals, TypeOK, FileTypes, RowTypes, WorkerTypes,
       Tickets, Evidence, SuccessHasEvidence, RunOf, TaskAt, At, database
<1>34. ASSUME Tick PROVE SuccessHasEvidence'
  BY <1>34 DEF Tick, Elapse, files, locals, TypeOK, FileTypes, RowTypes, WorkerTypes, Tickets,
       Evidence, SuccessHasEvidence, RunOf, TaskAt, At, database
<1> QED BY Next, <1>1, <1>2, <1>3, <1>4, <1>5, <1>6, <1>7, <1>8, <1>9, <1>10, <1>11, <1>12,
       <1>13, <1>14, <1>15, <1>16, <1>17, <1>18, <1>19, <1>20, <1>21, <1>22, <1>23, <1>24,
       <1>25, <1>26, <1>27, <1>28, <1>29, <1>30, <1>31, <1>32, <1>33, <1>34
       DEF Next, Execute, Recover, ClaimNext, ClaimRun, Claimable

-----------------------------------------------------------------------------
(* The action properties, step by step. *)

\* release_lease, called for a run that ended, gives up a task without lock,
\* processes or running run.
LEMMA DropNeedsProof ==
    ASSUME Inductive, NEW w \in Workers, pc[w] # "idle", DropOwnership(w),
           status[RunOf(w)] # "running"
    PROVE  ReleaseStep
<1> USE DEF Inductive
<1>1. CASE claim' = claim
  BY <1>1 DEF ReleaseStep
<1>2. CASE /\ claim[TaskAt(w)] = own[w] /\ cleanupVerified[RunOf(w)]
           /\ claim' = [claim EXCEPT ![TaskAt(w)] = NoTicket]
  <2>1. /\ TaskAt(w) = TaskOf[RunOf(w)] /\ RunOf(w) \in Runs /\ own[w].run = RunOf(w)
        /\ TaskAt(w) \in Tasks
    BY HolderFacts
  <2>2. lock[TaskAt(w)].run # RunOf(w) /\ ~agents[RunOf(w)]
    BY <1>2, <2>1 DEF Children
  <2>3. lock[TaskAt(w)] = NoTicket
    BY <1>2, <2>1, <2>2 DEF Locking, LockFollowsClaim
  <2>4. claim[TaskAt(w)].run = RunOf(w) /\ claim'[TaskAt(w)] = NoTicket
        /\ \A t \in Tasks \ {TaskAt(w)} : claim'[t] = claim[t]
    BY <1>2, <2>1 DEF TypeOK, RowTypes
  <2> QED BY <2>2, <2>3, <2>4 DEF ReleaseStep
<1> QED BY <1>1, <1>2, DropEffect

\* No step takes a claim away without proof of cleanup.
LEMMA ReleaseStepHolds ==
    ASSUME Inductive, Next
    PROVE  ReleaseStep
<1>1. ASSUME NEW w \in Workers, Preflight(w) PROVE ReleaseStep
  BY <1>1 DEF Preflight, database, ReleaseStep
<1>2. ASSUME NEW w \in Workers, Enter(w) PROVE ReleaseStep
  BY <1>2 DEF Enter, database, ReleaseStep
<1>3. ASSUME NEW w \in Workers, AcquireLock(w) PROVE ReleaseStep
  BY <1>3 DEF AcquireLock, database, ReleaseStep
<1>4. ASSUME NEW w \in Workers, BeginStage(w) PROVE ReleaseStep
  BY <1>4 DEF BeginStage, database, ReleaseStep
<1>5. ASSUME NEW w \in Workers, GateStop(w) PROVE ReleaseStep
  BY <1>5 DEF GateStop, database, ReleaseStep
<1>6. ASSUME NEW w \in Workers, RunnerReturns(w) PROVE ReleaseStep
  BY <1>6 DEF RunnerReturns, database, ReleaseStep
<1>7. ASSUME NEW w \in Workers, CleanupUnverified(w) PROVE ReleaseStep
  BY <1>7 DEF CleanupUnverified, database, ReleaseStep
<1>8. ASSUME NEW w \in Workers, BeginHandoff(w) PROVE ReleaseStep
  BY <1>8 DEF BeginHandoff, database, ReleaseStep
<1>9. ASSUME NEW w \in Workers, PrepareHandoff(w) PROVE ReleaseStep
  BY <1>9 DEF PrepareHandoff, ReleaseStep
<1>10. ASSUME NEW w \in Workers, PublishHandoff(w) PROVE ReleaseStep
  BY <1>10 DEF PublishHandoff, ReleaseStep
<1>11. ASSUME NEW w \in Workers, FinalizeBegin(w) PROVE ReleaseStep
  BY <1>11 DEF FinalizeBegin, database, ReleaseStep
<1>12. ASSUME NEW w \in Workers, FinishArchive(w) PROVE ReleaseStep
  BY <1>12 DEF FinishArchive, database, ReleaseStep
<1>13. ASSUME NEW w \in Workers, FinalizeCommit(w) PROVE ReleaseStep
  BY <1>13 DEF FinalizeCommit, ReleaseStep
<1>14. ASSUME NEW w \in Workers, FinalizeAbort(w) PROVE ReleaseStep
  BY <1>14 DEF FinalizeAbort, database, ReleaseStep
<1>15. ASSUME NEW w \in Workers, FinalizeFailed(w) PROVE ReleaseStep
  BY <1>15 DEF FinalizeFailed, ReleaseStep
<1>16. ASSUME NEW w \in Workers, Unlock(w) PROVE ReleaseStep
  BY <1>16 DEF Unlock, database, ReleaseStep
<1>17. ASSUME NEW w \in Workers, RecordVerified(w) PROVE ReleaseStep
  BY <1>17 DEF RecordVerified, ReleaseStep
<1>18. ASSUME NEW w \in Workers, SetupFailed(w) PROVE ReleaseStep
  BY <1>18 DEF SetupFailed, ReleaseStep
<1>19. ASSUME NEW w \in Workers, WorkerFailed(w) PROVE ReleaseStep
  BY <1>19 DEF WorkerFailed, ReleaseStep
<1>20. ASSUME NEW w \in Workers, Release(w) PROVE ReleaseStep
  BY <1>20 DEF Release, database, ReleaseStep
<1>21. ASSUME NEW w \in Workers, ReleaseMark(w) PROVE ReleaseStep
  BY <1>21 DEF ReleaseMark, ReleaseStep
<1>22. ASSUME NEW w \in Workers, ReleaseLease(w) PROVE ReleaseStep
  <2>1. pc[w] # "idle" /\ DropOwnership(w) /\ status[RunOf(w)] # "running"
    BY <1>22 DEF ReleaseLease, At, Inductive, Endings
  <2> QED BY <2>1, DropNeedsProof
<1>23. ASSUME NEW w \in Workers, StaleMark(w) PROVE ReleaseStep
  BY <1>23 DEF StaleMark, ReleaseStep
<1>24. ASSUME NEW w \in Workers, StaleUnlock(w) PROVE ReleaseStep
  BY <1>24 DEF StaleUnlock, database, ReleaseStep
<1>25. ASSUME NEW w \in Workers, StaleRelease(w) PROVE ReleaseStep
  <2>1. pc[w] # "idle" /\ DropOwnership(w) /\ status[RunOf(w)] # "running"
    BY <1>25 DEF StaleRelease, At, Inductive, Endings
  <2> QED BY <2>1, DropNeedsProof
<1>26. ASSUME NEW w \in Workers, NEW r \in Runs, TakeClaim(w, r) PROVE ReleaseStep
  <2>1. claim[TaskOf[r]] = NoTicket /\ \A t \in Tasks \ {TaskOf[r]} : claim'[t] = claim[t]
    BY <1>26, ClaimEffect DEF Inductive
  <2> QED BY <2>1 DEF ReleaseStep
<1>27. ASSUME NEW w \in Workers, NEW r \in Runs, StalePick(w, r) PROVE ReleaseStep
  BY <1>27 DEF StalePick, database, ReleaseStep
<1>28. ASSUME NEW w \in Workers, HeartbeatRenew(w) PROVE ReleaseStep
  BY <1>28 DEF HeartbeatRenew, ReleaseStep
<1>29. ASSUME NEW w \in Workers, HeartbeatSignal(w) PROVE ReleaseStep
  BY <1>29 DEF HeartbeatSignal, database, ReleaseStep
<1>30. ASSUME NEW w \in Workers, Crash(w) PROVE ReleaseStep
  BY <1>30 DEF Crash, database, ReleaseStep
<1>31. ASSUME NEW r \in Runs, RequestCancel(r) PROVE ReleaseStep
  BY <1>31 DEF RequestCancel, ReleaseStep
<1>32. ASSUME NEW r \in Runs, CancelPending(r) PROVE ReleaseStep
  BY <1>32 DEF CancelPending, ReleaseStep
<1>33. ASSUME NEW r \in Runs, Deliver(r) PROVE ReleaseStep
  BY <1>33 DEF Deliver, ReleaseStep
<1>34. ASSUME Tick PROVE ReleaseStep
  BY <1>34 DEF Tick, ReleaseStep
<1> QED BY Next, <1>1, <1>2, <1>3, <1>4, <1>5, <1>6, <1>7, <1>8, <1>9, <1>10, <1>11, <1>12,
       <1>13, <1>14, <1>15, <1>16, <1>17, <1>18, <1>19, <1>20, <1>21, <1>22, <1>23, <1>24,
       <1>25, <1>26, <1>27, <1>28, <1>29, <1>30, <1>31, <1>32, <1>33, <1>34
       DEF Next, Execute, Recover, ClaimNext, ClaimRun, Claimable

\* No step turns a cancelled running run into a success.
LEMMA CancelStepHolds ==
    ASSUME Inductive, Next
    PROVE  CancelStep
<1>1. ASSUME NEW w \in Workers, Preflight(w) PROVE CancelStep
  BY <1>1 DEF Preflight, At, RunOf, database, CancelStep, Inductive, TypeOK, RowTypes, Tickets
<1>2. ASSUME NEW w \in Workers, Enter(w) PROVE CancelStep
  BY <1>2 DEF Enter, At, database, CancelStep, Inductive, TypeOK, RowTypes, Tickets
<1>3. ASSUME NEW w \in Workers, AcquireLock(w) PROVE CancelStep
  BY <1>3 DEF AcquireLock, At, database, CancelStep, Inductive, TypeOK, RowTypes, Tickets
<1>4. ASSUME NEW w \in Workers, BeginStage(w) PROVE CancelStep
  BY <1>4 DEF BeginStage, At, RunOf, database, CancelStep, Inductive, TypeOK, RowTypes, Tickets
<1>5. ASSUME NEW w \in Workers, GateStop(w) PROVE CancelStep
  BY <1>5 DEF GateStop, At, RunOf, database, CancelStep, Inductive, TypeOK, RowTypes, Tickets
<1>6. ASSUME NEW w \in Workers, RunnerReturns(w) PROVE CancelStep
  BY <1>6 DEF RunnerReturns, At, RunOf, database, CancelStep, Inductive, TypeOK, RowTypes,
       Tickets
<1>7. ASSUME NEW w \in Workers, CleanupUnverified(w) PROVE CancelStep
  BY <1>7 DEF CleanupUnverified, At, RunOf, database, CancelStep, Inductive, TypeOK, RowTypes,
       Tickets
<1>8. ASSUME NEW w \in Workers, BeginHandoff(w) PROVE CancelStep
  BY <1>8 DEF BeginHandoff, At, database, CancelStep, Inductive, TypeOK, RowTypes, Tickets
<1>9. ASSUME NEW w \in Workers, PrepareHandoff(w) PROVE CancelStep
  BY <1>9 DEF PrepareHandoff, At, RunOf, CancelStep, Inductive, TypeOK, RowTypes, Tickets
<1>10. ASSUME NEW w \in Workers, PublishHandoff(w) PROVE CancelStep
  BY <1>10 DEF PublishHandoff, At, RunOf, CancelStep, Inductive, TypeOK, RowTypes, Tickets
<1>11. ASSUME NEW w \in Workers, FinalizeBegin(w) PROVE CancelStep
  BY <1>11 DEF FinalizeBegin, At, database, CancelStep, Inductive, TypeOK, RowTypes, Tickets
<1>12. ASSUME NEW w \in Workers, FinishArchive(w) PROVE CancelStep
  BY <1>12 DEF FinishArchive, At, RunOf, database, CancelStep, Inductive, TypeOK, RowTypes,
       Tickets
<1>13. ASSUME NEW w \in Workers, FinalizeCommit(w) PROVE CancelStep
  <2>1. /\ pc[w] = "commit" /\ RunOf(w) \in Runs /\ status \in [Runs -> Statuses]
        /\ status' = [status EXCEPT ![RunOf(w)] = final[w]]
    BY <1>13 DEF FinalizeCommit, At, Tickets, Inductive, TypeOK, RowTypes
  <2>2. cancelRequested[RunOf(w)] => final[w] \notin {"awaiting_receipt", "succeeded"}
    BY <2>1 DEF Inductive, Evidence
  <2> QED BY <2>1, <2>2 DEF CancelStep
<1>14. ASSUME NEW w \in Workers, FinalizeAbort(w) PROVE CancelStep
  BY <1>14 DEF FinalizeAbort, At, database, CancelStep, Inductive, TypeOK, RowTypes, Tickets
<1>15. ASSUME NEW w \in Workers, FinalizeFailed(w) PROVE CancelStep
  BY <1>15 DEF FinalizeFailed, At, RunOf, CancelStep, Inductive, TypeOK, RowTypes, Tickets
<1>16. ASSUME NEW w \in Workers, Unlock(w) PROVE CancelStep
  BY <1>16 DEF Unlock, At, database, CancelStep, Inductive, TypeOK, RowTypes, Tickets
<1>17. ASSUME NEW w \in Workers, RecordVerified(w) PROVE CancelStep
  BY <1>17 DEF RecordVerified, At, CancelStep, Inductive, TypeOK, RowTypes, Tickets
<1>18. ASSUME NEW w \in Workers, SetupFailed(w) PROVE CancelStep
  <2>1. RunOf(w) \in Runs /\ status \in [Runs -> Statuses]
    BY <1>18 DEF SetupFailed, At, Tickets, Inductive, TypeOK, RowTypes
  <2>2. PICK f \in {"cancelled", "failed", "needs_attention"} : RecordFailure(w, f)
    BY <1>18 DEF SetupFailed, ConcurrencyStatus, FailureStatus
  <2>3. \E s : /\ status' = [status EXCEPT ![RunOf(w)] = s]
               /\ s \notin {"awaiting_receipt", "succeeded"} \/ s = status[RunOf(w)]
    BY <2>2 DEF RecordFailure, MarkStale
  <2> QED BY <2>1, <2>3 DEF CancelStep
<1>19. ASSUME NEW w \in Workers, WorkerFailed(w) PROVE CancelStep
  <2>1. RunOf(w) \in Runs /\ status \in [Runs -> Statuses]
    BY <1>19 DEF WorkerFailed, At, Tickets, Inductive, TypeOK, RowTypes
  <2>2. PICK f \in {"cancelled", "failed", "needs_attention"} : RecordFailure(w, f)
    BY <1>19 DEF WorkerFailed, ConcurrencyStatus, FailureStatus
  <2>3. \E s : /\ status' = [status EXCEPT ![RunOf(w)] = s]
               /\ s \notin {"awaiting_receipt", "succeeded"} \/ s = status[RunOf(w)]
    BY <2>2 DEF RecordFailure, MarkStale
  <2> QED BY <2>1, <2>3 DEF CancelStep
<1>20. ASSUME NEW w \in Workers, Release(w) PROVE CancelStep
  BY <1>20 DEF Release, At, database, CancelStep, Inductive, TypeOK, RowTypes, Tickets
<1>21. ASSUME NEW w \in Workers, ReleaseMark(w) PROVE CancelStep
  BY <1>21 DEF ReleaseMark, At, CancelStep, Inductive, TypeOK, RowTypes, Tickets
<1>22. ASSUME NEW w \in Workers, ReleaseLease(w) PROVE CancelStep
  BY <1>22 DEF ReleaseLease, At, CancelStep, Inductive, TypeOK, RowTypes, Tickets
<1>23. ASSUME NEW w \in Workers, StaleMark(w) PROVE CancelStep
  BY <1>23 DEF StaleMark, At, MarkStale, RunOf, CancelStep, Inductive, TypeOK, RowTypes, Tickets
<1>24. ASSUME NEW w \in Workers, StaleUnlock(w) PROVE CancelStep
  BY <1>24 DEF StaleUnlock, At, database, CancelStep, Inductive, TypeOK, RowTypes, Tickets
<1>25. ASSUME NEW w \in Workers, StaleRelease(w) PROVE CancelStep
  BY <1>25 DEF StaleRelease, At, CancelStep, Inductive, TypeOK, RowTypes, Tickets
<1>26. ASSUME NEW w \in Workers, NEW r \in Runs, TakeClaim(w, r) PROVE CancelStep
  <2>1. \A s \in Runs : status[s] = "running" => status'[s] = "running"
    BY <1>26, ClaimEffect DEF Inductive
  <2> QED BY <2>1 DEF CancelStep
<1>27. ASSUME NEW w \in Workers, NEW r \in Runs, StalePick(w, r) PROVE CancelStep
  BY <1>27 DEF StalePick, At, database, CancelStep, Inductive, TypeOK, RowTypes, Tickets
<1>28. ASSUME NEW w \in Workers, HeartbeatRenew(w) PROVE CancelStep
  BY <1>28 DEF HeartbeatRenew, RunOf, CancelStep, Inductive, TypeOK, RowTypes, Tickets
<1>29. ASSUME NEW w \in Workers, HeartbeatSignal(w) PROVE CancelStep
  BY <1>29 DEF HeartbeatSignal, database, CancelStep, Inductive, TypeOK, RowTypes, Tickets
<1>30. ASSUME NEW w \in Workers, Crash(w) PROVE CancelStep
  BY <1>30 DEF Crash, At, database, CancelStep, Inductive, TypeOK, RowTypes, Tickets
<1>31. ASSUME NEW r \in Runs, RequestCancel(r) PROVE CancelStep
  BY <1>31 DEF RequestCancel, CancelStep, Inductive, TypeOK, RowTypes, Tickets
<1>32. ASSUME NEW r \in Runs, CancelPending(r) PROVE CancelStep
  BY <1>32 DEF CancelPending, CancelStep, Inductive, TypeOK, RowTypes, Tickets
<1>33. ASSUME NEW r \in Runs, Deliver(r) PROVE CancelStep
  BY <1>33 DEF Deliver, CancelStep, Inductive, TypeOK, RowTypes, Tickets
<1>34. ASSUME Tick PROVE CancelStep
  BY <1>34 DEF Tick, CancelStep, Inductive, TypeOK, RowTypes, Tickets
<1> QED BY Next, <1>1, <1>2, <1>3, <1>4, <1>5, <1>6, <1>7, <1>8, <1>9, <1>10, <1>11, <1>12,
       <1>13, <1>14, <1>15, <1>16, <1>17, <1>18, <1>19, <1>20, <1>21, <1>22, <1>23, <1>24,
       <1>25, <1>26, <1>27, <1>28, <1>29, <1>30, <1>31, <1>32, <1>33, <1>34
       DEF Next, Execute, Recover, ClaimNext, ClaimRun, Claimable

\* No step rewrites a settled outcome.
LEMMA OutcomeStepHolds ==
    ASSUME Inductive, Next
    PROVE  OutcomeStep
<1>1. ASSUME NEW w \in Workers, Preflight(w) PROVE OutcomeStep
  BY <1>1 DEF Preflight, database, OutcomeStep, Inductive, TypeOK, RowTypes, Finals
<1>2. ASSUME NEW w \in Workers, Enter(w) PROVE OutcomeStep
  BY <1>2 DEF Enter, database, OutcomeStep, Inductive, TypeOK, RowTypes, Finals
<1>3. ASSUME NEW w \in Workers, AcquireLock(w) PROVE OutcomeStep
  BY <1>3 DEF AcquireLock, database, OutcomeStep, Inductive, TypeOK, RowTypes, Finals
<1>4. ASSUME NEW w \in Workers, BeginStage(w) PROVE OutcomeStep
  BY <1>4 DEF BeginStage, database, OutcomeStep, Inductive, TypeOK, RowTypes, Finals
<1>5. ASSUME NEW w \in Workers, GateStop(w) PROVE OutcomeStep
  BY <1>5 DEF GateStop, database, OutcomeStep, Inductive, TypeOK, RowTypes, Finals
<1>6. ASSUME NEW w \in Workers, RunnerReturns(w) PROVE OutcomeStep
  BY <1>6 DEF RunnerReturns, database, OutcomeStep, Inductive, TypeOK, RowTypes, Finals
<1>7. ASSUME NEW w \in Workers, CleanupUnverified(w) PROVE OutcomeStep
  BY <1>7 DEF CleanupUnverified, database, OutcomeStep, Inductive, TypeOK, RowTypes, Finals
<1>8. ASSUME NEW w \in Workers, BeginHandoff(w) PROVE OutcomeStep
  BY <1>8 DEF BeginHandoff, database, OutcomeStep, Inductive, TypeOK, RowTypes, Finals
<1>9. ASSUME NEW w \in Workers, PrepareHandoff(w) PROVE OutcomeStep
  BY <1>9 DEF PrepareHandoff, OutcomeStep, Inductive, TypeOK, RowTypes, Finals
<1>10. ASSUME NEW w \in Workers, PublishHandoff(w) PROVE OutcomeStep
  BY <1>10 DEF PublishHandoff, OutcomeStep, Inductive, TypeOK, RowTypes, Finals
<1>11. ASSUME NEW w \in Workers, FinalizeBegin(w) PROVE OutcomeStep
  BY <1>11 DEF FinalizeBegin, database, OutcomeStep, Inductive, TypeOK, RowTypes, Finals
<1>12. ASSUME NEW w \in Workers, FinishArchive(w) PROVE OutcomeStep
  BY <1>12 DEF FinishArchive, database, OutcomeStep, Inductive, TypeOK, RowTypes, Finals
<1>13. ASSUME NEW w \in Workers, FinalizeCommit(w) PROVE OutcomeStep
  <2>1. pc[w] # "idle" /\ Settles(w)
    BY <1>13, CommitSettles DEF Inductive, FinalizeCommit, At
  <2> QED BY <2>1 DEF Settles, OutcomeStep, Finals
<1>14. ASSUME NEW w \in Workers, FinalizeAbort(w) PROVE OutcomeStep
  BY <1>14 DEF FinalizeAbort, database, OutcomeStep, Inductive, TypeOK, RowTypes, Finals
<1>15. ASSUME NEW w \in Workers, FinalizeFailed(w) PROVE OutcomeStep
  <2>1. pc[w] # "idle" /\ Settles(w)
    BY <1>15, FinalizeFailedSettles DEF Inductive, FinalizeFailed, At
  <2> QED BY <2>1 DEF Settles, OutcomeStep, Finals
<1>16. ASSUME NEW w \in Workers, Unlock(w) PROVE OutcomeStep
  BY <1>16 DEF Unlock, database, OutcomeStep, Inductive, TypeOK, RowTypes, Finals
<1>17. ASSUME NEW w \in Workers, RecordVerified(w) PROVE OutcomeStep
  BY <1>17 DEF RecordVerified, OutcomeStep, Inductive, TypeOK, RowTypes, Finals
<1>18. ASSUME NEW w \in Workers, SetupFailed(w) PROVE OutcomeStep
  <2>1. pc[w] # "idle" /\ Settles(w)
    BY <1>18, FailureSettles DEF Inductive, SetupFailed, At, ConcurrencyStatus, FailureStatus,
         Finals
  <2> QED BY <2>1 DEF Settles, OutcomeStep, Finals
<1>19. ASSUME NEW w \in Workers, WorkerFailed(w) PROVE OutcomeStep
  <2>1. pc[w] # "idle" /\ Settles(w)
    BY <1>19, FailureSettles DEF Inductive, WorkerFailed, At, Finals
  <2> QED BY <2>1 DEF Settles, OutcomeStep, Finals
<1>20. ASSUME NEW w \in Workers, Release(w) PROVE OutcomeStep
  BY <1>20 DEF Release, database, OutcomeStep, Inductive, TypeOK, RowTypes, Finals
<1>21. ASSUME NEW w \in Workers, ReleaseMark(w) PROVE OutcomeStep
  BY <1>21 DEF ReleaseMark, OutcomeStep, Inductive, TypeOK, RowTypes, Finals
<1>22. ASSUME NEW w \in Workers, ReleaseLease(w) PROVE OutcomeStep
  BY <1>22 DEF ReleaseLease, OutcomeStep, Inductive, TypeOK, RowTypes, Finals
<1>23. ASSUME NEW w \in Workers, StaleMark(w) PROVE OutcomeStep
  <2>1. pc[w] # "idle" /\ Settles(w)
    BY <1>23, StaleSettles DEF Inductive, StaleMark, At
  <2> QED BY <2>1 DEF Settles, OutcomeStep, Finals
<1>24. ASSUME NEW w \in Workers, StaleUnlock(w) PROVE OutcomeStep
  BY <1>24 DEF StaleUnlock, database, OutcomeStep, Inductive, TypeOK, RowTypes, Finals
<1>25. ASSUME NEW w \in Workers, StaleRelease(w) PROVE OutcomeStep
  BY <1>25 DEF StaleRelease, OutcomeStep, Inductive, TypeOK, RowTypes, Finals
<1>26. ASSUME NEW w \in Workers, NEW r \in Runs, TakeClaim(w, r) PROVE OutcomeStep
  <2>1. status[r] = "queued" /\ \A s \in Runs \ {r} : status'[s] = status[s]
    BY <1>26, ClaimEffect DEF Inductive
  <2> QED BY <2>1 DEF OutcomeStep, Finals
<1>27. ASSUME NEW w \in Workers, NEW r \in Runs, StalePick(w, r) PROVE OutcomeStep
  BY <1>27 DEF StalePick, database, OutcomeStep, Inductive, TypeOK, RowTypes, Finals
<1>28. ASSUME NEW w \in Workers, HeartbeatRenew(w) PROVE OutcomeStep
  BY <1>28 DEF HeartbeatRenew, OutcomeStep, Inductive, TypeOK, RowTypes, Finals
<1>29. ASSUME NEW w \in Workers, HeartbeatSignal(w) PROVE OutcomeStep
  BY <1>29 DEF HeartbeatSignal, database, OutcomeStep, Inductive, TypeOK, RowTypes, Finals
<1>30. ASSUME NEW w \in Workers, Crash(w) PROVE OutcomeStep
  BY <1>30 DEF Crash, database, OutcomeStep, Inductive, TypeOK, RowTypes, Finals
<1>31. ASSUME NEW r \in Runs, RequestCancel(r) PROVE OutcomeStep
  BY <1>31 DEF RequestCancel, OutcomeStep, Inductive, TypeOK, RowTypes, Finals
<1>32. ASSUME NEW r \in Runs, CancelPending(r) PROVE OutcomeStep
  BY <1>32 DEF CancelPending, OutcomeStep, Inductive, TypeOK, RowTypes, Finals
<1>33. ASSUME NEW r \in Runs, Deliver(r) PROVE OutcomeStep
  BY <1>33 DEF Deliver, OutcomeStep, Inductive, TypeOK, RowTypes, Finals
<1>34. ASSUME Tick PROVE OutcomeStep
  BY <1>34 DEF Tick, OutcomeStep, Inductive, TypeOK, RowTypes, Finals
<1> QED BY Next, <1>1, <1>2, <1>3, <1>4, <1>5, <1>6, <1>7, <1>8, <1>9, <1>10, <1>11, <1>12,
       <1>13, <1>14, <1>15, <1>16, <1>17, <1>18, <1>19, <1>20, <1>21, <1>22, <1>23, <1>24,
       <1>25, <1>26, <1>27, <1>28, <1>29, <1>30, <1>31, <1>32, <1>33, <1>34
       DEF Next, Execute, Recover, ClaimNext, ClaimRun, Claimable

-----------------------------------------------------------------------------
(* The theorems. *)

\* The first state of an installation satisfies the inductive invariant.
LEMMA InductiveInit ==
    Init => Inductive
<1> SUFFICES ASSUME Init PROVE Inductive
  OBVIOUS
<1>1. TypeOK
  BY DEF Init, TypeOK, RowTypes, FileTypes, WorkerTypes, Statuses, Finals, HandoffStatuses,
       Stages,
     Labels, Ticket, NoTicket, Lease, NoLease
<1>2. ClaimRows
  BY DEF Init, ClaimRows, NoTicket, NoLease, NoRun
<1>3. Tickets /\ Endings /\ Verification /\ Evidence
  BY DEF Init, Tickets, Endings, Verification, Evidence, At, BusyPc, ExecutingPc
<1>4. Locking /\ Children
  BY DEF Init, Locking, LockFollowsClaim, Children, At, BusyPc, ExecutingPc
<1>5. SuccessHasEvidence
  BY DEF Init, SuccessHasEvidence
<1> QED BY <1>1, <1>2, <1>3, <1>4, <1>5 DEF Inductive

\* Every action of the system preserves the inductive invariant.
LEMMA InductiveStep ==
    ASSUME Inductive, Next
    PROVE  Inductive'
<1> USE DEF Inductive
<1>1. TypeOK'
  BY RowTypesStep, FileTypesStep, WorkerTypesStep, CrashCountStep DEF TypeOK
<1>2. ClaimRows'
  BY ClaimRowsStep
<1>3. Tickets'
  BY TicketsStep
<1>4. Endings'
  BY EndingsStep
<1>5. Verification'
  BY VerificationStep
<1>6. Locking'
  BY LockingStep
<1>7. Children'
  BY ChildrenStep
<1>8. Evidence'
  BY EvidenceStep
<1>9. SuccessHasEvidence'
  BY SuccessStep
<1> QED BY <1>1, <1>2, <1>3, <1>4, <1>5, <1>6, <1>7, <1>8, <1>9

\* A step that changes nothing preserves it too.
LEMMA InductiveStutter ==
    ASSUME Inductive, UNCHANGED vars
    PROVE  Inductive'
<1> USE DEF vars, database, files, locals
<1>1. TypeOK'
  BY DEF Inductive, TypeOK, RowTypes, FileTypes, WorkerTypes
<1>2. ClaimRows' /\ Tickets' /\ Endings'
  BY DEF Inductive, ClaimRows, Tickets, Endings, RunOf, TaskAt, At
<1>3. Verification' /\ Locking' /\ Children'
  BY DEF Inductive, Verification, Locking, LockFollowsClaim, Children, RunOf, TaskAt, At
<1>4. Evidence' /\ SuccessHasEvidence'
  BY DEF Inductive, Evidence, SuccessHasEvidence, RunOf, At
<1> QED BY <1>1, <1>2, <1>3, <1>4 DEF Inductive

\* The inductive invariant holds in every reachable state, whatever the number
\* of runs, tasks, workers and crashes and however long a lease lives.
THEOREM InductiveHolds ==
    Spec => []Inductive
<1>1. Init => Inductive
  BY InductiveInit
<1>2. Inductive /\ [Next]_vars => Inductive'
  BY InductiveStep, InductiveStutter
<1> QED BY <1>1, <1>2, PTL DEF Spec

\* Every row, file and local variable keeps its type; in particular a renewed
\* lease never outlives LeaseTerm.
THEOREM TypesHold ==
    Spec => []TypeOK
<1>1. Inductive => TypeOK
  BY DEF Inductive
<1> QED BY <1>1, InductiveHolds, PTL

\* No two workers are ever inside the workspace of the same task, and no task
\* passes to a new run while processes of the old one are alive.
THEOREM TasksAreSerial ==
    Spec => []TaskSerial
<1>1. ASSUME Inductive
      PROVE  TaskSerial
  <2>1. ASSUME NEW v \in Workers, NEW w \in Workers, v # w, pc[v] \in BusyPc, pc[w] \in BusyPc
        PROVE  TaskAt(v) # TaskAt(w)
    <3>1. /\ pc[v] \in ExecutingPc /\ pc[w] \in ExecutingPc
          /\ ~cleanupVerified[RunOf(v)] /\ ~cleanupVerified[RunOf(w)]
      BY <1>1, <2>1 DEF Inductive, Verification, BusyPc
    <3> QED BY <1>1, <2>1, <3>1, OpenExecutorsApart DEF Inductive
  <2>2. ASSUME NEW r \in Runs, agents[r]
        PROVE  claim[TaskOf[r]].run = r
    <3>1. lock[TaskOf[r]].run = r /\ r # 0
      BY <1>1, <2>2 DEF Inductive, Children, NoRun
    <3>2. lock[TaskOf[r]] # NoTicket
      BY <3>1 DEF NoTicket, NoRun
    <3>3. claim[TaskOf[r]] = lock[TaskOf[r]]
      BY <1>1, <3>2 DEF Inductive, Locking, LockFollowsClaim
    <3> QED BY <3>1, <3>3
  <2> QED BY <2>1, <2>2 DEF TaskSerial
<1> QED BY <1>1, InductiveHolds, PTL

\* The workspace lock file always belongs to the owner of the task, so an owner that
\* acquires it meets no stranger's; recovery that comes late may, and is refused.
THEOREM LocksFollowClaims ==
    Spec => []LockFollowsClaim
<1>1. Inductive => LockFollowsClaim
  BY DEF Inductive, Locking
<1> QED BY <1>1, InductiveHolds, PTL

\* A run that is shown as running has its claim and its lease, so that either
\* its worker or the expiry of the lease ends it.
THEOREM RunningRunsAreOwned ==
    Spec => []RunningIsOwned
<1>1. Inductive => RunningIsOwned
  BY DEF Inductive, ClaimRows, RunningIsOwned
<1> QED BY <1>1, InductiveHolds, PTL

\* A message waits for the dispatcher, and a run succeeds, only with its evidence.
THEOREM SuccessIsEvidenced ==
    Spec => []SuccessHasEvidence
<1>1. Inductive => SuccessHasEvidence
  BY DEF Inductive
<1> QED BY <1>1, InductiveHolds, PTL

\* Ownership of a task is only given up with proof of cleanup (release_lease).
THEOREM ReleaseIsProven ==
    Spec => ReleaseNeedsProof
<1>1. Inductive /\ [Next]_vars => [ReleaseStep]_vars
  BY ReleaseStepHolds
<1> QED BY <1>1, InductiveHolds, PTL DEF Spec, ReleaseNeedsProof

\* A cancellation committed while the run runs is never overtaken by success.
THEOREM CancellationPrevails ==
    Spec => CancelPrevails
<1>1. Inductive /\ [Next]_vars => [CancelStep]_vars
  BY CancelStepHolds
<1> QED BY <1>1, InductiveHolds, PTL DEF Spec, CancelPrevails

\* A settled outcome is never rewritten by recovery, late workers or operators.
THEOREM OutcomesAreFinal ==
    Spec => OutcomeIsFinal
<1>1. Inductive /\ [Next]_vars => [OutcomeStep]_vars
  BY OutcomeStepHolds
<1> QED BY <1>1, InductiveHolds, PTL DEF Spec, OutcomeIsFinal
=============================================================================
