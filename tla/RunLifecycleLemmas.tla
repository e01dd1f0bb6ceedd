------------------------- MODULE RunLifecycleLemmas -------------------------
(***************************************************************************)
(* What single operations of RunLifecycle do, as far as the conjuncts of   *)
(* Inductive can tell, and frame lemmas: a conjunct survives a step of one *)
(* worker that leaves alone what the other workers rely on.                *)
(***************************************************************************)
EXTENDS RunLifecycle, TLAPS

USE RunsAssumption, TaskOfAssumption, PlanAssumption, DryRunsAssumption, LeaseTermAssumption,
    BoundsAssumption

\* Returning from a call makes the worker idle, without a ticket.
LEMMA ReturnEffect ==
    ASSUME NEW w \in Workers, Return(w)
    PROVE  pc' = [pc EXCEPT ![w] = "idle"] /\ own' = [own EXCEPT ![w] = NoTicket]
  BY DEF Return, Call

\* The run of a worker inside a call, and the lease row that matches its claim.
LEMMA HolderFacts ==
    ASSUME Tickets, NEW w \in Workers, pc[w] # "idle"
    PROVE  /\ RunOf(w) \in Runs /\ TaskAt(w) \in Tasks /\ TaskAt(w) = TaskOf[RunOf(w)]
           /\ own[w].run = RunOf(w) /\ own[w].token # 0 /\ own[w] # NoTicket
           /\ status[RunOf(w)] # "queued"
<1>1. RunOf(w) \in Runs /\ own[w].token # 0 /\ status[RunOf(w)] # "queued"
  BY DEF Tickets
<1>2. own[w] # NoTicket
  <2>1. NoTicket.token = 0
    BY DEF NoTicket
  <2> QED BY <1>1, <2>1
<1> QED BY <1>1, <1>2 DEF RunOf, TaskAt

\* A worker whose run holds the claim holds it with its own token, as does the lease.
LEMMA OwnerLease ==
    ASSUME ClaimRows, Tickets, NEW w \in Workers, pc[w] # "idle",
           claim[TaskAt(w)].run = RunOf(w)
    PROVE  claim[TaskAt(w)] = own[w] /\ lease[RunOf(w)].token = own[w].token
<1>1. claim[TaskAt(w)] = own[w]
  BY DEF Tickets
<1>2. claim[TaskOf[RunOf(w)]].run = RunOf(w) /\ claim[TaskOf[RunOf(w)]].token = own[w].token
  BY <1>1, HolderFacts
<1> QED BY <1>1, <1>2, HolderFacts DEF ClaimRows

\* Giving up ownership either does nothing or deletes both rows of one ticket.
LEMMA DropEffect ==
    ASSUME TypeOK, ClaimRows, Tickets, NEW w \in Workers, pc[w] # "idle", DropOwnership(w)
    PROVE  \/ claim' = claim /\ lease' = lease
           \/ /\ claim[TaskAt(w)] = own[w] /\ cleanupVerified[RunOf(w)]
              /\ claim' = [claim EXCEPT ![TaskAt(w)] = NoTicket]
              /\ lease' = [lease EXCEPT ![RunOf(w)] = NoLease]
<1>1. /\ RunOf(w) \in Runs /\ TaskAt(w) \in Tasks /\ own[w].token # 0
      /\ status[RunOf(w)] # "queued"
      /\ RunOf(w) = own[w].run /\ TaskAt(w) = TaskOf[RunOf(w)]
  BY HolderFacts
<1>2. CASE ~cleanupVerified[RunOf(w)]
  BY <1>1, <1>2 DEF DropOwnership
<1>3. CASE cleanupVerified[RunOf(w)] /\ claim[TaskAt(w)] = own[w]
  <2>1. claim[TaskAt(w)].run = RunOf(w)
    BY <1>1, <1>3
  <2>2. lease[RunOf(w)].token = own[w].token
    BY <2>1, OwnerLease
  <2> QED BY <1>1, <1>3, <2>2 DEF DropOwnership
<1>4. CASE cleanupVerified[RunOf(w)] /\ claim[TaskAt(w)] # own[w]
  <2>1. claim[TaskAt(w)].run # RunOf(w)
    BY <1>1, <1>4 DEF Tickets, RunOf, TaskAt
  <2>2. lease[RunOf(w)].token = 0
    BY <1>1, <2>1 DEF ClaimRows
  <2>3. lease' = [lease EXCEPT ![RunOf(w)] = lease[RunOf(w)]]
        /\ claim' = [claim EXCEPT ![TaskAt(w)] = claim[TaskAt(w)]]
    BY <1>1, <1>4, <2>2 DEF DropOwnership
  <2> QED BY <2>3 DEF TypeOK, RowTypes
<1> QED BY <1>2, <1>3, <1>4

\* What a handler may do to the statuses: settle the one run, if it runs.
Settles(w) ==
    /\ status' \in [Runs -> Statuses]
    /\ \A r \in Runs : \/ status'[r] = status[r]
                       \/ r = RunOf(w) /\ status[r] = "running" /\ status'[r] \in Finals

\* update_run_status with its fallback always ends a run that still runs.
LEMMA FailureSettles ==
    ASSUME TypeOK, ClaimRows, Tickets, NEW w \in Workers, pc[w] # "idle",
           NEW f \in Finals, RecordFailure(w, f)
    PROVE  Settles(w) /\ status'[RunOf(w)] # "running"
<1>1. RunOf(w) \in Runs /\ TaskAt(w) = TaskOf[RunOf(w)] /\ TaskAt(w) \in Tasks
  BY HolderFacts
<1>2. status \in [Runs -> Statuses] /\ lease[RunOf(w)].ttl \in Nat
  <2>1. lease[RunOf(w)] \in Lease
    BY <1>1 DEF TypeOK, RowTypes
  <2> QED BY <2>1 DEF Lease, TypeOK, RowTypes
<1>3. CASE status[RunOf(w)] # "running"
  <2>1. status' = [status EXCEPT ![RunOf(w)] = status[RunOf(w)]]
    BY <1>3, <1>1 DEF RecordFailure, MarkStale
  <2> QED BY <1>1, <1>2, <1>3, <2>1 DEF Settles
<1>4. CASE status[RunOf(w)] = "running"
  <2>1. claim[TaskAt(w)].run = RunOf(w)
    BY <1>1, <1>4 DEF ClaimRows
  <2>2. lease[RunOf(w)].token = own[w].token
    BY <2>1, OwnerLease
  <2>3. \E s \in Finals : status' = [status EXCEPT ![RunOf(w)] = s]
    <3>1. CASE lease[RunOf(w)].ttl > 0
      BY <1>4, <2>2, <3>1 DEF RecordFailure
    <3>2. CASE lease[RunOf(w)].ttl = 0
      <4>1. status' = [status EXCEPT ![RunOf(w)] = "needs_attention"]
        BY <1>4, <2>2, <3>2 DEF RecordFailure, MarkStale
      <4> QED BY <4>1 DEF Finals
    <3> QED BY <1>2, <3>1, <3>2
  <2> QED BY <1>1, <1>2, <1>4, <2>3 DEF Settles, Statuses, Finals
<1> QED BY <1>3, <1>4

\* mark_stale_attention at most settles the run it was called for.
LEMMA StaleSettles ==
    ASSUME TypeOK, Tickets, NEW w \in Workers, pc[w] # "idle", MarkStale(w)
    PROVE  Settles(w)
<1>1. RunOf(w) \in Runs
  BY DEF Tickets
<1>2. status' = [status EXCEPT ![RunOf(w)] = IF @ = "running" THEN "needs_attention" ELSE @]
      \/ status' = [status EXCEPT ![RunOf(w)] = status[RunOf(w)]]
  BY <1>1 DEF MarkStale
<1> QED BY <1>1, <1>2 DEF Settles, TypeOK, RowTypes, Statuses, Finals

\* When recovery marks a run whose lease it saw expire, the run stops running.
LEMMA StaleStops ==
    ASSUME TypeOK, ClaimRows, Tickets, NEW w \in Workers, pc[w] # "idle", MarkStale(w),
           lease[RunOf(w)].ttl = 0
    PROVE  status'[RunOf(w)] # "running"
<1>1. RunOf(w) \in Runs /\ TaskAt(w) = TaskOf[RunOf(w)] /\ TaskAt(w) \in Tasks
  BY HolderFacts
<1>2. status[RunOf(w)] = "running" => lease[RunOf(w)].token = own[w].token
  <2> SUFFICES ASSUME status[RunOf(w)] = "running" PROVE lease[RunOf(w)].token = own[w].token
    OBVIOUS
  <2>1. claim[TaskAt(w)].run = RunOf(w)
    BY <1>1 DEF ClaimRows
  <2> QED BY <2>1, OwnerLease
<1> QED BY <1>1, <1>2 DEF MarkStale, TypeOK, RowTypes

\* The commit of a finalization ends its run.
LEMMA CommitSettles ==
    ASSUME TypeOK, Tickets, NEW w \in Workers, FinalizeCommit(w)
    PROVE  Settles(w) /\ status'[RunOf(w)] # "running"
<1>1. /\ RunOf(w) \in Runs /\ final[w] \in Finals /\ status[RunOf(w)] = "running"
      /\ status' = [status EXCEPT ![RunOf(w)] = final[w]]
      /\ status \in [Runs -> Statuses]
  BY DEF FinalizeCommit, At, Tickets, Owns, TypeOK, RowTypes, WorkerTypes
<1> QED BY <1>1 DEF Settles, Statuses, Finals

\* The except branch of _finalize_run at most settles its own run.
LEMMA FinalizeFailedSettles ==
    ASSUME TypeOK, Tickets, NEW w \in Workers, FinalizeFailed(w)
    PROVE  Settles(w)
<1>1. RunOf(w) \in Runs /\ status \in [Runs -> Statuses]
  BY DEF FinalizeFailed, At, Tickets, TypeOK, RowTypes
<1>2. \/ status' = [status EXCEPT ![RunOf(w)] = IF @ = "running" THEN "needs_attention" ELSE @]
      \/ status' = status
  BY DEF FinalizeFailed
<1> QED BY <1>1, <1>2 DEF Settles, Statuses, Finals

\* Settling a run keeps the claim and lease rows consistent.
LEMMA ClaimRowsSettle ==
    ASSUME TypeOK, ClaimRows, Tickets, NEW w \in Workers, Settles(w),
           UNCHANGED <<claim, lease, cleanupVerified>>
    PROVE  ClaimRows'
<1>1. \A r \in Runs : (status'[r] = "running" => status[r] = "running")
                      /\ (status'[r] = "queued" => status[r] = "queued")
  BY DEF Settles, Finals
<1> QED BY <1>1 DEF ClaimRows

\* release_lease of a run that ended keeps the remaining rows consistent.
LEMMA ClaimRowsDrop ==
    ASSUME TypeOK, ClaimRows, Tickets, NEW w \in Workers, pc[w] # "idle", DropOwnership(w),
           status[RunOf(w)] # "running", UNCHANGED <<status, cleanupVerified>>
    PROVE  ClaimRows'
<1>1. CASE claim' = claim /\ lease' = lease
  BY <1>1 DEF ClaimRows
<1>2. CASE /\ claim[TaskAt(w)] = own[w] /\ cleanupVerified[RunOf(w)]
           /\ claim' = [claim EXCEPT ![TaskAt(w)] = NoTicket]
           /\ lease' = [lease EXCEPT ![RunOf(w)] = NoLease]
  <2>1. claim \in [Tasks -> Ticket] /\ lease \in [Runs -> Lease]
    BY DEF TypeOK, RowTypes
  <2>2. RunOf(w) \in Runs /\ TaskAt(w) \in Tasks /\ TaskAt(w) = TaskOf[RunOf(w)]
        /\ claim[TaskAt(w)].run = RunOf(w)
    BY <1>2, HolderFacts
  <2>3. \A t \in Tasks : t # TaskAt(w) => claim'[t] = claim[t]
    BY <1>2, <2>1
  <2>4. claim'[TaskAt(w)] = NoTicket /\ lease'[RunOf(w)].token = 0
        /\ NoTicket.run = 0 /\ NoTicket.token = 0
    BY <1>2, <2>1, <2>2 DEF NoTicket, NoLease, NoRun
  <2>5. \A r \in Runs : r # RunOf(w) => lease'[r] = lease[r]
    BY <1>2, <2>1
  <2>6. \A t \in Tasks : claim'[t] # NoTicket =>
          claim'[t].run \in Runs /\ TaskOf[claim'[t].run] = t /\ claim'[t].token # 0
    BY <2>3, <2>4 DEF ClaimRows
  <2>7. ASSUME NEW r \in Runs
        PROVE  /\ lease'[r].token = IF claim'[TaskOf[r]].run = r
                                      THEN claim'[TaskOf[r]].token ELSE 0
               /\ status[r] = "running" => claim'[TaskOf[r]].run = r
               /\ status[r] = "queued" => claim'[TaskOf[r]].run # r /\ ~cleanupVerified[r]
    <3>1. r # 0 /\ TaskOf[r] \in Tasks
      BY DEF NoRun
    <3>2. CASE TaskOf[r] # TaskAt(w)
      BY <2>2, <2>3, <2>5, <3>1, <3>2 DEF ClaimRows
    <3>3. CASE TaskOf[r] = TaskAt(w) /\ r # RunOf(w)
      <4>1. lease[r].token = 0 /\ status[r] # "running"
            /\ (status[r] = "queued" => ~cleanupVerified[r])
        BY <2>2, <3>3 DEF ClaimRows
      <4> QED BY <2>4, <2>5, <3>1, <3>3, <4>1
    <3>4. CASE r = RunOf(w)
      <4>1. status[r] # "queued" /\ status[r] # "running"
        BY <3>4, HolderFacts
      <4> QED BY <2>2, <2>4, <3>1, <3>4, <4>1
    <3> QED BY <3>2, <3>3, <3>4
  <2> QED BY <2>6, <2>7 DEF ClaimRows
<1> QED BY <1>1, <1>2, DropEffect

\* Nothing is queued again, and claims are at most deleted.
Wanes == /\ \A r \in Runs : status'[r] = "queued" => status[r] = "queued"
         /\ \A t \in Tasks : claim'[t] \in {claim[t], NoTicket}

\* Settling a run queues nothing again.
LEMMA SettlesWanes ==
    ASSUME NEW w \in Workers, Settles(w), claim' = claim
    PROVE  Wanes
  BY DEF Settles, Wanes, Finals

\* release_lease only deletes claims.
LEMMA DropWanes ==
    ASSUME TypeOK, ClaimRows, Tickets, NEW w \in Workers, pc[w] # "idle", DropOwnership(w),
           status' = status
    PROVE  Wanes
  BY DropEffect DEF Wanes, TypeOK, RowTypes

\* A worker that moves on inside its call keeps its ticket valid.
LEMMA TicketsAdvance ==
    ASSUME TypeOK, Tickets, NEW w \in Workers, pc[w] # "idle", NEW l,
           l \in ExecutingPc => pc[w] \in ExecutingPc,
           pc' = [pc EXCEPT ![w] = l], own' = own, Wanes
    PROVE  Tickets'
<1>1. \A v \in Workers : /\ pc'[v] # "idle" => pc[v] # "idle"
                         /\ pc'[v] \in ExecutingPc => pc[v] \in ExecutingPc
  BY DEF TypeOK, WorkerTypes
<1>2. ASSUME NEW v \in Workers, pc'[v] # "idle"
      PROVE  /\ RunOf(v)' \in Runs /\ own'[v].token # 0
             /\ status'[RunOf(v)'] # "queued"
             /\ claim'[TaskAt(v)'].run = RunOf(v)' => claim'[TaskAt(v)'] = own'[v]
  <2>1. RunOf(v)' = RunOf(v) /\ TaskAt(v)' = TaskAt(v)
    BY DEF RunOf, TaskAt
  <2>2. /\ RunOf(v) \in Runs /\ TaskAt(v) \in Tasks /\ own[v].token # 0
        /\ status[RunOf(v)] # "queued"
    BY <1>1, <1>2, HolderFacts
  <2>3. claim[TaskAt(v)].run = RunOf(v) => claim[TaskAt(v)] = own[v]
    BY <1>1, <1>2 DEF Tickets
  <2>4. NoTicket.run # RunOf(v)
    BY <2>2 DEF NoTicket, NoRun
  <2> QED BY <2>1, <2>2, <2>3, <2>4 DEF Wanes
<1> QED BY <1>1, <1>2 DEF Tickets, RunOf

\* A worker that returns leaves the tickets of the others valid.
LEMMA TicketsReturn ==
    ASSUME TypeOK, Tickets, NEW w \in Workers, Return(w), Wanes
    PROVE  Tickets'
<1>1. \A v \in Workers : pc'[v] # "idle" => pc'[v] = pc[v] /\ own'[v] = own[v]
  BY ReturnEffect DEF TypeOK, WorkerTypes
<1>2. ASSUME NEW v \in Workers, pc'[v] # "idle"
      PROVE  /\ RunOf(v)' \in Runs /\ own'[v].token # 0
             /\ status'[RunOf(v)'] # "queued"
             /\ claim'[TaskAt(v)'].run = RunOf(v)' => claim'[TaskAt(v)'] = own'[v]
  <2>1. RunOf(v)' = RunOf(v) /\ TaskAt(v)' = TaskAt(v) /\ own'[v] = own[v]
    BY <1>1, <1>2 DEF RunOf, TaskAt
  <2>2. /\ RunOf(v) \in Runs /\ TaskAt(v) \in Tasks /\ own[v].token # 0
        /\ status[RunOf(v)] # "queued"
    BY <1>1, <1>2, HolderFacts
  <2>3. claim[TaskAt(v)].run = RunOf(v) => claim[TaskAt(v)] = own[v]
    BY <1>1, <1>2 DEF Tickets
  <2>4. NoTicket.run # RunOf(v)
    BY <2>2 DEF NoTicket, NoRun
  <2> QED BY <2>1, <2>2, <2>3, <2>4 DEF Wanes
<1>3. "idle" \notin ExecutingPc
  BY DEF ExecutingPc
<1> QED BY <1>1, <1>2, <1>3 DEF Tickets, RunOf

\* claim_next_run hands out a run that no worker executes.
LEMMA TicketsClaim ==
    ASSUME TypeOK, ClaimRows, Tickets, NEW w \in Workers, NEW r \in Runs, TakeClaim(w, r)
    PROVE  Tickets'
<1> DEFINE tk == [run |-> r, token |-> lastToken + 1]
<1>1. /\ status[r] = "queued" /\ status' = [status EXCEPT ![r] = "running"]
      /\ claim' = [claim EXCEPT ![TaskOf[r]] = tk]
      /\ pc' = [pc EXCEPT ![w] = "preflight"] /\ own' = [own EXCEPT ![w] = tk]
  BY DEF TakeClaim, Claimable, Call
<1>2. /\ status \in [Runs -> Statuses] /\ claim \in [Tasks -> Ticket] /\ lastToken \in Nat
      /\ own \in [Workers -> Ticket] /\ pc \in [Workers -> Labels]
  BY DEF TypeOK, RowTypes, WorkerTypes
<1>3. tk.run = r /\ tk.token # 0
  BY <1>2
<1> HIDE DEF tk
<1>4. /\ own'[w] = tk /\ status'[r] = "running" /\ TaskOf[r] \in Tasks
      /\ claim'[TaskOf[r]] = tk /\ pc'[w] = "preflight"
      /\ \A v \in Workers \ {w} : pc'[v] = pc[v] /\ own'[v] = own[v]
      /\ \A s \in Runs \ {r} : status'[s] = status[s]
      /\ \A t \in Tasks \ {TaskOf[r]} : claim'[t] = claim[t]
  BY <1>1, <1>2
<1>5. ASSUME NEW v \in Workers \ {w}, pc[v] # "idle"
      PROVE  RunOf(v) # r
  BY <1>1, <1>5, HolderFacts
<1>6. ASSUME NEW v \in Workers, pc'[v] # "idle"
      PROVE  /\ RunOf(v)' \in Runs /\ own'[v].token # 0
             /\ status'[RunOf(v)'] # "queued"
             /\ claim'[TaskAt(v)'].run = RunOf(v)' => claim'[TaskAt(v)'] = own'[v]
  <2>1. CASE v = w
    BY <1>3, <1>4, <2>1 DEF RunOf, TaskAt
  <2>2. CASE v # w
    <3>1. pc[v] # "idle" /\ RunOf(v)' = RunOf(v) /\ TaskAt(v)' = TaskAt(v) /\ own'[v] = own[v]
      BY <1>4, <1>6, <2>2 DEF RunOf, TaskAt
    <3>2. /\ RunOf(v) \in Runs /\ TaskAt(v) \in Tasks /\ own[v].token # 0
          /\ status[RunOf(v)] # "queued" /\ RunOf(v) # r
      BY <3>1, <2>2, <1>5, HolderFacts
    <3>3. claim[TaskAt(v)].run = RunOf(v) => claim[TaskAt(v)] = own[v]
      BY <3>1 DEF Tickets
    <3>4. claim'[TaskAt(v)].run = RunOf(v) => claim'[TaskAt(v)] = own[v]
      <4>1. CASE TaskAt(v) = TaskOf[r]
        BY <1>3, <1>4, <3>2, <4>1
      <4>2. CASE TaskAt(v) # TaskOf[r]
        BY <1>4, <3>2, <3>3, <4>2
      <4> QED BY <4>1, <4>2
    <3>5. status'[RunOf(v)] # "queued"
      BY <1>4, <3>2
    <3> QED BY <3>1, <3>2, <3>4, <3>5
  <2> QED BY <2>1, <2>2
<1>7. ASSUME NEW u \in Workers, NEW v \in Workers, u # v,
             pc'[u] \in ExecutingPc, pc'[v] \in ExecutingPc
      PROVE  RunOf(u)' # RunOf(v)'
  <2>1. \A x \in Workers \ {w} : pc'[x] \in ExecutingPc =>
            pc[x] \in ExecutingPc /\ RunOf(x)' = RunOf(x) /\ RunOf(x) # r
    BY <1>4, <1>5 DEF RunOf, ExecutingPc
  <2>2. RunOf(w)' = r
    BY <1>3, <1>4 DEF RunOf
  <2>3. CASE u # w /\ v # w
    BY <1>7, <2>1, <2>3 DEF Tickets
  <2> QED BY <1>7, <2>1, <2>2, <2>3
<1> QED BY <1>6, <1>7 DEF Tickets

\* The ticket recovery reconstructs from an expired lease is the claim itself.
LEMMA LeaseIsClaim ==
    ASSUME TypeOK, ClaimRows, NEW r \in Runs, lease[r].token # 0
    PROVE  /\ claim[TaskOf[r]] = [run |-> r, token |-> lease[r].token]
           /\ status[r] # "queued"
<1>1. claim[TaskOf[r]].run = r /\ claim[TaskOf[r]].token = lease[r].token
      /\ status[r] # "queued"
  BY DEF ClaimRows
<1>2. claim[TaskOf[r]] \in Ticket
  BY DEF TypeOK, RowTypes
<1> QED BY <1>1, <1>2 DEF Ticket

\* What recovery remembers of the expired lease it picked.
LEMMA PickEffect ==
    ASSUME NEW w \in Workers, NEW r \in Runs, StalePick(w, r)
    PROVE  /\ pc[w] = "idle" /\ lease[r].token # 0 /\ lease[r].ttl = 0
           /\ UNCHANGED <<database, files, crashes>>
           /\ own' = [own EXCEPT ![w] = [run |-> r, token |-> lease[r].token]]
           /\ \/ /\ status[r] = "running" /\ pc' = [pc EXCEPT ![w] = "stale_mark"]
                 /\ cleanup' = [cleanup EXCEPT ![w] = cleanupVerified[r]]
              \/ /\ status[r] # "running" /\ cleanupVerified[r]
                 /\ pc' = [pc EXCEPT ![w] = "stale_unlock"]
                 /\ cleanup' = [cleanup EXCEPT ![w] = TRUE]
  BY DEF StalePick, Call, At

\* The ticket that recovery reconstructs is the ticket of the claim.
LEMMA TicketsPick ==
    ASSUME TypeOK, ClaimRows, Tickets, NEW w \in Workers, NEW r \in Runs, StalePick(w, r)
    PROVE  Tickets'
<1>1. /\ status' = status /\ claim' = claim
      /\ own \in [Workers -> Ticket] /\ pc \in [Workers -> Labels]
  BY PickEffect DEF TypeOK, WorkerTypes, database
<1> DEFINE tk == [run |-> r, token |-> lease[r].token]
<1>2. tk.run = r /\ tk.token # 0 /\ claim[TaskOf[r]] = tk /\ status[r] # "queued"
  BY LeaseIsClaim, PickEffect
<1>3. /\ own' = [own EXCEPT ![w] = tk]
      /\ \E l \in {"stale_mark", "stale_unlock"} : pc' = [pc EXCEPT ![w] = l]
  BY PickEffect
<1> HIDE DEF tk
<1>4. /\ own'[w] = tk /\ pc'[w] \in {"stale_mark", "stale_unlock"}
      /\ \A v \in Workers \ {w} : pc'[v] = pc[v] /\ own'[v] = own[v]
  BY <1>1, <1>3
<1>5. ASSUME NEW v \in Workers, pc'[v] # "idle"
      PROVE  /\ RunOf(v)' \in Runs /\ own'[v].token # 0
             /\ status'[RunOf(v)'] # "queued"
             /\ claim'[TaskAt(v)'].run = RunOf(v)' => claim'[TaskAt(v)'] = own'[v]
  <2>1. CASE v = w
    BY <1>1, <1>2, <1>4, <2>1 DEF RunOf, TaskAt
  <2>2. CASE v # w
    <3>1. pc[v] # "idle" /\ RunOf(v)' = RunOf(v) /\ TaskAt(v)' = TaskAt(v) /\ own'[v] = own[v]
      BY <1>4, <1>5, <2>2 DEF RunOf, TaskAt
    <3>2. RunOf(v) \in Runs /\ own[v].token # 0 /\ status[RunOf(v)] # "queued"
      BY <3>1, HolderFacts
    <3> QED BY <1>1, <3>1, <3>2 DEF Tickets
  <2> QED BY <2>1, <2>2
<1>6. \A x \in Workers : pc'[x] \in ExecutingPc =>
            pc[x] \in ExecutingPc /\ RunOf(x)' = RunOf(x)
  BY <1>4 DEF RunOf, ExecutingPc
<1> QED BY <1>5, <1>6 DEF Tickets

\* The other workers stay where they are.
Others(w) == \A v \in Workers \ {w} :
    /\ pc'[v] = pc[v] /\ own'[v] = own[v] /\ raised'[v] = raised[v] /\ cleanup'[v] = cleanup[v]
    /\ locked'[v] = locked[v] /\ final'[v] = final[v]

\* Returning from a call concerns one worker only.
LEMMA ReturnOthers ==
    ASSUME TypeOK, NEW w \in Workers, Return(w)
    PROVE  Others(w) /\ pc'[w] = "idle"
  BY DEF TypeOK, WorkerTypes, Return, Call, Others

\* Endings survives when no run starts running and no lease revives.
LEMMA EndingsFrame ==
    ASSUME Tickets, Endings, NEW w \in Workers, Others(w),
           \A r \in Runs : /\ status'[r] = "running" => status[r] = "running"
                           /\ lease[r].ttl = 0 => lease'[r].ttl = 0,
           /\ pc'[w] \in {"release", "mark", "drop", "stale_unlock", "stale_release"}
                 => status'[RunOf(w)'] # "running"
           /\ pc'[w] \in {"unlock", "verified"} /\ ~raised'[w]
                 => status'[RunOf(w)'] # "running"
           /\ pc'[w] = "stale_mark" => lease'[RunOf(w)'].ttl = 0
    PROVE  Endings'
<1>1. ASSUME NEW v \in Workers
      PROVE  /\ pc'[v] \in {"release", "mark", "drop", "stale_unlock", "stale_release"}
                   => status'[RunOf(v)'] # "running"
             /\ pc'[v] \in {"unlock", "verified"} /\ ~raised'[v]
                   => status'[RunOf(v)'] # "running"
             /\ pc'[v] = "stale_mark" => lease'[RunOf(v)'].ttl = 0
  <2>1. CASE v = w
    BY <2>1
  <2>2. CASE v # w
    <3>1. pc'[v] = pc[v] /\ raised'[v] = raised[v] /\ RunOf(v)' = RunOf(v)
          /\ (pc[v] # "idle" => RunOf(v) \in Runs)
      BY <2>2 DEF Others, RunOf, Tickets
    <3> QED BY <3>1 DEF Endings, At
  <2> QED BY <2>1, <2>2
<1> QED BY <1>1 DEF Endings, At

\* Settling a run starts none and revives no lease.
LEMMA SettlesStops ==
    ASSUME NEW w \in Workers, Settles(w), lease' = lease
    PROVE  \A r \in Runs : /\ status'[r] = "running" => status[r] = "running"
                           /\ lease[r].ttl = 0 => lease'[r].ttl = 0
  BY DEF Settles

\* Verification, of one worker.
VerificationAt(w) ==
    /\ pc[w] \in ExecutingPc /\ ~cleanupVerified[RunOf(w)] => claim[TaskAt(w)] = own[w]
    /\ pc[w] \in BusyPc \cup {"verified"} => ~cleanupVerified[RunOf(w)]
    /\ pc[w] \in {"stale_unlock", "stale_release"} => cleanupVerified[RunOf(w)]
    /\ At(w, "stale_mark") /\ cleanup[w] => cleanupVerified[RunOf(w)]

\* Verification survives a step of one worker that respects the others' rows.
LEMMA VerificationFrame ==
    ASSUME Tickets, Verification, NEW w \in Workers, Others(w), VerificationAt(w)',
           \A v \in Workers \ {w} : pc[v] # "idle" =>
              /\ claim[TaskAt(v)] = own[v] /\ ~cleanupVerified[RunOf(v)]
                    => claim'[TaskAt(v)] = own[v]
              /\ cleanupVerified[RunOf(v)] => cleanupVerified'[RunOf(v)]
              /\ pc[v] \in ExecutingPc /\ cleanupVerified'[RunOf(v)] => cleanupVerified[RunOf(v)]
    PROVE  Verification'
<1>1. ASSUME NEW v \in Workers \ {w}
      PROVE  VerificationAt(v)'
  <2>1. pc'[v] = pc[v] /\ cleanup'[v] = cleanup[v] /\ own'[v] = own[v]
        /\ RunOf(v)' = RunOf(v) /\ TaskAt(v)' = TaskAt(v)
    BY DEF Others, RunOf, TaskAt
  <2>2. VerificationAt(v)
    BY DEF Verification, VerificationAt
  <2> QED BY <2>1, <2>2 DEF VerificationAt, At, BusyPc, ExecutingPc
<1>2. \A v \in Workers : VerificationAt(v)'
  BY <1>1
<1> QED BY <1>2 DEF Verification, VerificationAt

\* mark_cleanup_verified touches the run of one executor only.
LEMMA VerificationMark ==
    ASSUME TypeOK, Tickets, Verification, NEW w \in Workers, pc[w] \in ExecutingPc,
           pc'[w] \in {"setup_failed", "release", "drop"},
           MarkVerified(w), Others(w), own' = own, claim' = claim
    PROVE  Verification'
<1>1. pc[w] # "idle" /\ RunOf(w) \in Runs
  BY DEF Tickets, ExecutingPc
<1>2. \/ cleanupVerified' = [cleanupVerified EXCEPT ![RunOf(w)] = TRUE]
      \/ cleanupVerified' = cleanupVerified
  BY DEF MarkVerified
<1>3. \A v \in Workers \ {w} : pc[v] # "idle" =>
          /\ cleanupVerified[RunOf(v)] => cleanupVerified'[RunOf(v)]
          /\ pc[v] \in ExecutingPc /\ cleanupVerified'[RunOf(v)] => cleanupVerified[RunOf(v)]
  BY <1>1, <1>2 DEF Tickets, TypeOK, RowTypes
<1>4. cleanupVerified'[RunOf(w)] \/ claim[TaskAt(w)] = own[w]
  BY <1>1 DEF MarkVerified, Verification
<1>4a. ~cleanupVerified'[RunOf(w)] => ~cleanupVerified[RunOf(w)]
  BY <1>1, <1>2 DEF TypeOK, RowTypes
<1>5. RunOf(w)' = RunOf(w) /\ TaskAt(w)' = TaskAt(w)
  BY DEF RunOf, TaskAt
<1>6. VerificationAt(w)'
  BY <1>4, <1>5 DEF VerificationAt, At, BusyPc
<1> QED BY <1>3, <1>6, VerificationFrame

\* release_lease takes no claim from a worker whose cleanup is open.
LEMMA VerificationDrop ==
    ASSUME TypeOK, ClaimRows, Tickets, Verification, NEW w \in Workers, pc[w] # "idle",
           DropOwnership(w), Return(w), cleanupVerified' = cleanupVerified
    PROVE  Verification'
<1>1. VerificationAt(w)'
  BY ReturnOthers DEF VerificationAt, At, BusyPc, ExecutingPc
<1>2. ASSUME NEW v \in Workers \ {w}, pc[v] # "idle", claim[TaskAt(v)] = own[v],
             ~cleanupVerified[RunOf(v)]
      PROVE  claim'[TaskAt(v)] = own[v]
  <2>1. CASE claim' = claim
    BY <1>2, <2>1
  <2>2. CASE /\ claim[TaskAt(w)] = own[w] /\ cleanupVerified[RunOf(w)]
             /\ claim' = [claim EXCEPT ![TaskAt(w)] = NoTicket]
    <3>1. TaskAt(v) # TaskAt(w)
      BY <1>2, <2>2 DEF RunOf
    <3> QED BY <1>2, <2>2, <3>1, HolderFacts DEF TypeOK, RowTypes
  <2> QED BY <2>1, <2>2, DropEffect
<1> QED BY <1>1, <1>2, ReturnOthers, VerificationFrame

\* Everything a successful claim_next_run changes.
LEMMA ClaimEffect ==
    ASSUME TypeOK, ClaimRows, Tickets, NEW w \in Workers, NEW r \in Runs, TakeClaim(w, r)
    PROVE  /\ status[r] = "queued" /\ status'[r] = "running" /\ ~cleanupVerified[r]
           /\ claim[TaskOf[r]] = NoTicket /\ pc[w] = "idle"
           /\ own'[w].run = r /\ claim'[TaskOf[r]] = own'[w] /\ own'[w] # NoTicket
           /\ pc'[w] = "preflight" /\ ~locked'[w] /\ cleanup'[w] /\ ~raised'[w]
           /\ Others(w)
           /\ \A s \in Runs \ {r} : status'[s] = status[s]
           /\ \A t \in Tasks \ {TaskOf[r]} : claim'[t] = claim[t]
           /\ \A v \in Workers : pc[v] # "idle" => RunOf(v) # r
           /\ UNCHANGED <<cancelRequested, cleanupVerified, handoff, files>>
<1>1. /\ status[r] = "queued" /\ status' = [status EXCEPT ![r] = "running"]
      /\ claim[TaskOf[r]] = NoTicket
      /\ claim' = [claim EXCEPT ![TaskOf[r]] = [run |-> r, token |-> lastToken + 1]]
      /\ pc[w] = "idle" /\ pc' = [pc EXCEPT ![w] = "preflight"]
      /\ own' = [own EXCEPT ![w] = [run |-> r, token |-> lastToken + 1]]
      /\ locked' = [locked EXCEPT ![w] = FALSE]
      /\ cleanup' = [cleanup EXCEPT ![w] = TRUE]
      /\ raised' = [raised EXCEPT ![w] = FALSE]
      /\ final' = [final EXCEPT ![w] = "failed"]
      /\ UNCHANGED <<cancelRequested, cleanupVerified, handoff, files>>
  BY DEF TakeClaim, Claimable, Call, At
<1>2. /\ status \in [Runs -> Statuses] /\ claim \in [Tasks -> Ticket]
      /\ own \in [Workers -> Ticket] /\ pc \in [Workers -> Labels]
      /\ locked \in [Workers -> BOOLEAN] /\ cleanup \in [Workers -> BOOLEAN]
      /\ raised \in [Workers -> BOOLEAN] /\ final \in [Workers -> Finals]
  BY DEF TypeOK, RowTypes, WorkerTypes
<1>3. /\ pc'[w] = "preflight" /\ ~locked'[w] /\ cleanup'[w] /\ ~raised'[w]
      /\ Others(w) /\ own'[w] = [run |-> r, token |-> lastToken + 1]
  BY <1>1, <1>2 DEF Others
<1>4. own'[w] # NoTicket /\ own'[w].run = r
  <2>1. own'[w].run = r /\ NoTicket.run = 0 /\ r # 0
    BY <1>3 DEF NoTicket, NoRun
  <2> QED BY <2>1
<1>5. /\ status'[r] = "running" /\ TaskOf[r] \in Tasks /\ claim'[TaskOf[r]] = own'[w]
      /\ \A s \in Runs \ {r} : status'[s] = status[s]
      /\ \A t \in Tasks \ {TaskOf[r]} : claim'[t] = claim[t]
  BY <1>1, <1>2, <1>3
<1>6. ~cleanupVerified[r] /\ \A v \in Workers : pc[v] # "idle" => RunOf(v) # r
  BY <1>1, HolderFacts DEF ClaimRows
<1> QED BY <1>1, <1>3, <1>4, <1>5, <1>6

\* A new claim starts with open cleanup and the claim of its ticket.
LEMMA VerificationClaim ==
    ASSUME TypeOK, ClaimRows, Tickets, Verification, NEW w \in Workers, NEW r \in Runs,
           TakeClaim(w, r)
    PROVE  Verification'
<1>1. Others(w) /\ cleanupVerified' = cleanupVerified
  BY ClaimEffect
<1>2. VerificationAt(w)'
  <2>1. RunOf(w)' = r /\ TaskAt(w)' = TaskOf[r] /\ ~cleanupVerified'[r]
        /\ claim'[TaskOf[r]] = own'[w] /\ pc'[w] = "preflight"
    BY ClaimEffect DEF RunOf, TaskAt
  <2> QED BY <2>1 DEF VerificationAt, At
<1>3. ASSUME NEW v \in Workers \ {w}, pc[v] # "idle", claim[TaskAt(v)] = own[v]
      PROVE  claim'[TaskAt(v)] = own[v]
  <2>1. TaskAt(v) \in Tasks /\ own[v] # NoTicket
    BY <1>3, HolderFacts
  <2>2. TaskAt(v) # TaskOf[r]
    BY <1>3, <2>1, ClaimEffect
  <2> QED BY <1>3, <2>1, <2>2, ClaimEffect
<1> QED BY <1>1, <1>2, <1>3, VerificationFrame

\* Locking, of one worker.
LockingAt(w) ==
    /\ pc[w] \in BusyPc /\ locked[w] => lock[TaskAt(w)] = own[w]
    /\ pc[w] \in {"ready", "runner", "prepare", "publish"} => locked[w]
    /\ pc[w] \in {"verified", "mark"} /\ ~cleanupVerified[RunOf(w)]
          => lock[TaskAt(w)] = NoTicket

\* Locking survives when the locks of the other open executors are untouched.
LEMMA LockingFrame ==
    ASSUME Tickets, Locking, NEW w \in Workers, Others(w), LockFollowsClaim', LockingAt(w)',
           \A v \in Workers \ {w} :
              pc[v] \in ExecutingPc /\ ~cleanupVerified'[RunOf(v)] =>
                /\ ~cleanupVerified[RunOf(v)]
                /\ lock'[TaskAt(v)] = lock[TaskAt(v)],
           \A v \in Workers \ {w} : pc[v] \in BusyPc => ~cleanupVerified'[RunOf(v)]
    PROVE  Locking'
<1>1. ASSUME NEW v \in Workers \ {w}
      PROVE  LockingAt(v)'
  <2>1. pc'[v] = pc[v] /\ locked'[v] = locked[v] /\ own'[v] = own[v]
        /\ RunOf(v)' = RunOf(v) /\ TaskAt(v)' = TaskAt(v)
    BY DEF Others, RunOf, TaskAt
  <2>2. LockingAt(v)
    BY DEF Locking, LockingAt
  <2>3. BusyPc \cup {"verified", "mark"} \subseteq ExecutingPc
    BY DEF BusyPc, ExecutingPc
  <2> QED BY <2>1, <2>2, <2>3 DEF LockingAt
<1>2. \A v \in Workers : LockingAt(v)'
  BY <1>1
<1> QED BY <1>2 DEF Locking, LockingAt

\* Two executors whose cleanup is open never share a task.
LEMMA OpenExecutorsApart ==
    ASSUME Tickets, Verification, NEW v \in Workers, NEW w \in Workers, v # w,
           pc[v] \in ExecutingPc, pc[w] \in ExecutingPc,
           ~cleanupVerified[RunOf(v)], ~cleanupVerified[RunOf(w)]
    PROVE  TaskAt(v) # TaskAt(w)
<1>1. claim[TaskAt(v)] = own[v] /\ claim[TaskAt(w)] = own[w]
  BY DEF Verification
<1>2. RunOf(v) # RunOf(w)
  BY DEF Tickets
<1> QED BY <1>1, <1>2 DEF RunOf

\* Steps that leave the lock files and the rows alone.
LEMMA LockingSame ==
    ASSUME Tickets, Verification, Locking, NEW w \in Workers, Others(w), LockingAt(w)',
           lock' = lock, claim' = claim, cleanupVerified' = cleanupVerified
    PROVE  Locking'
<1>1. LockFollowsClaim'
  BY DEF Locking, LockFollowsClaim
<1>2. \A v \in Workers : pc[v] \in BusyPc => ~cleanupVerified'[RunOf(v)]
  BY DEF Verification
<1> QED BY <1>1, <1>2, LockingFrame

\* A worker writes the lock file of its own task only.
LEMMA LockingWrite ==
    ASSUME TypeOK, ClaimRows, Tickets, Verification, Locking, NEW w \in Workers,
           pc[w] \in BusyPc, NEW l \in {NoTicket, own[w]},
           lock' = [lock EXCEPT ![TaskAt(w)] = l], Others(w), LockingAt(w)',
           claim' = claim, cleanupVerified' = cleanupVerified
    PROVE  Locking'
<1>1. /\ pc[w] \in ExecutingPc /\ ~cleanupVerified[RunOf(w)] /\ claim[TaskAt(w)] = own[w]
      /\ pc[w] # "idle"
  BY DEF Verification, BusyPc, ExecutingPc
<1>2. /\ lock \in [Tasks -> Ticket]
      /\ TaskAt(w) \in Tasks
  BY <1>1, HolderFacts DEF TypeOK, FileTypes
<1>3. LockFollowsClaim'
  BY <1>1, <1>2 DEF LockFollowsClaim, Locking
<1>4. \A v \in Workers \ {w} : pc[v] \in ExecutingPc /\ ~cleanupVerified'[RunOf(v)] =>
         /\ ~cleanupVerified[RunOf(v)]
         /\ lock'[TaskAt(v)] = lock[TaskAt(v)]
  <2> SUFFICES ASSUME NEW v \in Workers \ {w}, pc[v] \in ExecutingPc, ~cleanupVerified[RunOf(v)]
               PROVE  lock'[TaskAt(v)] = lock[TaskAt(v)]
    OBVIOUS
  <2>1. TaskAt(v) # TaskAt(w)
    BY <1>1, OpenExecutorsApart
  <2>2. TaskAt(v) \in Tasks
    BY HolderFacts DEF ExecutingPc
  <2> QED BY <1>2, <2>1, <2>2
<1>5. \A v \in Workers : pc[v] \in BusyPc => ~cleanupVerified'[RunOf(v)]
  BY DEF Verification
<1> QED BY <1>3, <1>4, <1>5, LockingFrame

\* acquire_workspace_lock locks the task its worker owns.
LEMMA LockingAcquire ==
    ASSUME TypeOK, ClaimRows, Tickets, Verification, Locking, NEW w \in Workers, AcquireLock(w)
    PROVE  Locking'
<1>0. TaskAt(w)' = TaskAt(w) /\ TaskAt(w) \in Tasks /\ own' = own /\ Others(w)
      /\ pc[w] \in BusyPc /\ claim' = claim /\ cleanupVerified' = cleanupVerified
  BY HolderFacts DEF AcquireLock, At, TaskAt, Others, TypeOK, WorkerTypes, Goto, Stop, BusyPc,
     ExecutingPc, database
<1>1. CASE lock[TaskAt(w)] \in {NoTicket, own[w]}
  <2>1. lock' = [lock EXCEPT ![TaskAt(w)] = own[w]] /\ pc'[w] = "ready" /\ locked'[w]
    BY <1>1 DEF AcquireLock, Goto, TypeOK, WorkerTypes
  <2>2. LockingAt(w)'
    BY <1>0, <2>1 DEF LockingAt, TypeOK, FileTypes
  <2> QED BY <1>0, <2>1, <2>2, LockingWrite
<1>2. CASE lock[TaskAt(w)] \notin {NoTicket, own[w]}
  <2>1. lock' = lock /\ locked' = locked /\ pc'[w] = "finalize"
    BY <1>2 DEF AcquireLock, Stop, Goto, TypeOK, WorkerTypes
  <2>2. LockingAt(w)'
    BY <1>0, <2>1 DEF LockingAt, Locking, BusyPc
  <2> QED BY <1>0, <2>1, <2>2, LockingSame
<1> QED BY <1>1, <1>2

\* The finally block of _finalize_run removes its own lock only.
LEMMA LockingUnlock ==
    ASSUME TypeOK, ClaimRows, Tickets, Verification, Locking, NEW w \in Workers, Unlock(w)
    PROVE  Locking'
<1>0. TaskAt(w)' = TaskAt(w) /\ TaskAt(w) \in Tasks /\ own' = own /\ Others(w)
      /\ pc[w] \in BusyPc /\ claim' = claim /\ cleanupVerified' = cleanupVerified
  BY HolderFacts DEF Unlock, At, TaskAt, Others, TypeOK, WorkerTypes, Goto, BusyPc,
     ExecutingPc, database, locals
<1>1. CASE lock' = [lock EXCEPT ![TaskAt(w)] = NoTicket] /\ pc'[w] = "verified"
  <2>1. LockingAt(w)'
    BY <1>0, <1>1 DEF LockingAt, TypeOK, FileTypes, BusyPc
  <2> QED BY <1>0, <1>1, <2>1, LockingWrite
<1>2. CASE lock' = lock /\ pc'[w] \in {"setup_failed", "release"}
  <2>1. LockingAt(w)'
    BY <1>2 DEF LockingAt, BusyPc
  <2> QED BY <1>0, <1>2, <2>1, LockingSame
<1> QED BY <1>1, <1>2 DEF Unlock, Goto, AfterFinalize, TypeOK, WorkerTypes

\* Recovery never removes the lock of a worker that is still busy.
LEMMA LockingStaleUnlock ==
    ASSUME TypeOK, ClaimRows, Tickets, Verification, Locking, NEW w \in Workers, StaleUnlock(w)
    PROVE  Locking'
<1>0. /\ pc[w] = "stale_unlock" /\ TaskAt(w) \in Tasks /\ own[w] # NoTicket
      /\ cleanupVerified[RunOf(w)] /\ claim' = claim /\ cleanupVerified' = cleanupVerified
      /\ lock \in [Tasks -> Ticket]
  BY HolderFacts DEF StaleUnlock, At, Verification, database, TypeOK, FileTypes
<1>1. Others(w) /\ pc'[w] \in {"idle", "stale_release"}
  <2>1. CASE Return(w)
    BY <2>1, ReturnOthers
  <2>2. CASE Goto(w, "stale_release") /\ UNCHANGED <<own, locals>>
    BY <2>2 DEF Goto, locals, Others, TypeOK, WorkerTypes
  <2> QED BY <2>1, <2>2 DEF StaleUnlock
<1>2. LockingAt(w)'
  BY <1>1 DEF LockingAt, BusyPc, ExecutingPc
<1>3. CASE lock' = lock
  BY <1>0, <1>1, <1>2, <1>3, LockingSame
<1>4. CASE lock[TaskAt(w)] \in {NoTicket, own[w]} /\ lock' = [lock EXCEPT ![TaskAt(w)] = NoTicket]
  <2>1. LockFollowsClaim'
    BY <1>0, <1>4 DEF Locking, LockFollowsClaim
  <2>2. ASSUME NEW v \in Workers \ {w}
        PROVE  LockingAt(v)'
    <3>1. pc'[v] = pc[v] /\ locked'[v] = locked[v] /\ own'[v] = own[v]
          /\ RunOf(v)' = RunOf(v) /\ TaskAt(v)' = TaskAt(v)
      BY <1>1 DEF Others, RunOf, TaskAt
    <3>2. LockingAt(v)
      BY DEF Locking, LockingAt
    <3>3. pc[v] \in BusyPc /\ locked[v] => lock'[TaskAt(v)] = own[v]
      <4> SUFFICES ASSUME pc[v] \in BusyPc, locked[v] PROVE lock'[TaskAt(v)] = own[v]
        OBVIOUS
      <4>1. lock[TaskAt(v)] = own[v] /\ ~cleanupVerified[RunOf(v)]
        BY <3>2 DEF LockingAt, Verification
      <4>2. own[v] # NoTicket /\ TaskAt(v) \in Tasks
        BY HolderFacts DEF BusyPc, ExecutingPc
      <4>3. TaskAt(v) # TaskAt(w)
        BY <1>0, <1>4, <4>1, <4>2 DEF RunOf
      <4> QED BY <1>0, <1>4, <4>1, <4>2, <4>3
    <3>4. lock[TaskAt(v)] = NoTicket /\ pc[v] # "idle" => lock'[TaskAt(v)] = NoTicket
      BY <1>0, <1>4, HolderFacts
    <3> QED BY <1>0, <3>1, <3>2, <3>3, <3>4 DEF LockingAt
  <2>3. \A v \in Workers : LockingAt(v)'
    BY <1>2, <2>2
  <2> QED BY <2>1, <2>3 DEF Locking, LockingAt
<1> QED BY <1>3, <1>4 DEF StaleUnlock

\* mark_cleanup_verified does not disturb the locks of others.
LEMMA LockingMark ==
    ASSUME TypeOK, Tickets, Verification, Locking, NEW w \in Workers, pc[w] \in ExecutingPc,
           pc'[w] \in {"setup_failed", "release", "drop"},
           MarkVerified(w), Others(w), own' = own, claim' = claim, lock' = lock
    PROVE  Locking'
<1>1. pc[w] # "idle" /\ RunOf(w) \in Runs
  BY DEF Tickets, ExecutingPc
<1>2. \/ cleanupVerified' = [cleanupVerified EXCEPT ![RunOf(w)] = TRUE]
      \/ cleanupVerified' = cleanupVerified
  BY DEF MarkVerified
<1>3. \A v \in Workers \ {w} : pc[v] \in ExecutingPc =>
          cleanupVerified'[RunOf(v)] = cleanupVerified[RunOf(v)]
  <2>1. \A v \in Workers \ {w} : pc[v] \in ExecutingPc => RunOf(v) # RunOf(w)
    BY DEF Tickets
  <2>2. \A v \in Workers : pc[v] \in ExecutingPc => RunOf(v) \in Runs
    BY DEF Tickets, ExecutingPc
  <2> QED BY <1>1, <1>2, <2>1, <2>2 DEF TypeOK, RowTypes
<1>4. LockingAt(w)' /\ LockFollowsClaim'
  BY DEF LockingAt, BusyPc, Locking, LockFollowsClaim
<1>5. \A v \in Workers \ {w} : pc[v] \in BusyPc => ~cleanupVerified'[RunOf(v)]
  BY <1>3 DEF Verification, BusyPc
<1> QED BY <1>3, <1>4, <1>5, LockingFrame

\* A claim is deleted only when its lock file is gone.
LEMMA LockingDrop ==
    ASSUME TypeOK, ClaimRows, Tickets, Verification, Locking, Children, NEW w \in Workers,
           pc[w] # "idle", DropOwnership(w), Return(w), cleanupVerified' = cleanupVerified,
           lock' = lock
    PROVE  Locking'
<1>1. Others(w) /\ LockingAt(w)'
  BY ReturnOthers DEF LockingAt, BusyPc, ExecutingPc
<1>2. CASE claim' = claim
  BY <1>1, <1>2, LockingSame
<1>3. CASE /\ claim[TaskAt(w)] = own[w] /\ cleanupVerified[RunOf(w)]
           /\ claim' = [claim EXCEPT ![TaskAt(w)] = NoTicket]
  <2>1. /\ TaskAt(w) = TaskOf[RunOf(w)] /\ RunOf(w) \in Runs /\ own[w].run = RunOf(w)
        /\ TaskAt(w) \in Tasks
    BY HolderFacts
  <2>2. lock[TaskAt(w)].run # RunOf(w)
    BY <1>3, <2>1 DEF Children
  <2>3. lock[TaskAt(w)] = NoTicket
    BY <1>3, <2>1, <2>2 DEF Locking, LockFollowsClaim
  <2>4. LockFollowsClaim'
    BY <1>3, <2>1, <2>3 DEF Locking, LockFollowsClaim, TypeOK, RowTypes
  <2>5. \A v \in Workers : pc[v] \in BusyPc => ~cleanupVerified'[RunOf(v)]
    BY DEF Verification
  <2> QED BY <1>1, <2>4, <2>5, LockingFrame
<1> QED BY <1>2, <1>3, DropEffect

\* Children, of the rows and of one worker.
ChildRows ==
    \A r \in Runs :
        /\ agents[r] => lock[TaskOf[r]].run = r
        /\ cleanupVerified[r] => lock[TaskOf[r]].run # r
ChildrenAt(w) ==
    /\ pc[w] \in BusyPc \ {"runner"} /\ cleanup[w] => ~agents[RunOf(w)]
    /\ pc[w] \in {"preflight", "enter", "lock", "ready", "prepare", "publish"} => cleanup[w]

\* Children survives when no busy run of another worker gains processes.
LEMMA ChildrenFrame ==
    ASSUME Children, NEW w \in Workers, Others(w), ChildRows', ChildrenAt(w)',
           \A v \in Workers \ {w} : pc[v] \in BusyPc /\ agents'[RunOf(v)] => agents[RunOf(v)]
    PROVE  Children'
<1>1. ASSUME NEW v \in Workers \ {w}
      PROVE  ChildrenAt(v)'
  <2>1. pc'[v] = pc[v] /\ cleanup'[v] = cleanup[v] /\ RunOf(v)' = RunOf(v)
    BY DEF Others, RunOf
  <2>2. ChildrenAt(v)
    BY DEF Children, ChildrenAt
  <2> QED BY <2>1, <2>2 DEF ChildrenAt
<1>2. \A v \in Workers : ChildrenAt(v)'
  BY <1>1
<1> QED BY <1>2 DEF Children, ChildrenAt, ChildRows

\* Cleanup is marked verified only when the lock file is gone.
LEMMA ChildrenMark ==
    ASSUME TypeOK, Tickets, Verification, Locking, Children, NEW w \in Workers,
           pc[w] \in {"verified", "mark"},
           pc'[w] \in {"setup_failed", "release", "drop"},
           MarkVerified(w), Others(w), own' = own, agents' = agents, lock' = lock
    PROVE  Children'
<1>1. RunOf(w) \in Runs /\ TaskAt(w) = TaskOf[RunOf(w)]
  BY HolderFacts
<1>2. \/ cleanupVerified' = [cleanupVerified EXCEPT ![RunOf(w)] = TRUE]
      \/ cleanupVerified' = cleanupVerified
  BY DEF MarkVerified
<1>3. lock[TaskOf[RunOf(w)]].run # RunOf(w)
  <2>1. CASE cleanupVerified[RunOf(w)]
    BY <1>1, <2>1 DEF Children
  <2>2. CASE ~cleanupVerified[RunOf(w)]
    <3>1. lock[TaskAt(w)] = NoTicket
      BY <2>2 DEF Locking
    <3> QED BY <1>1, <3>1 DEF NoTicket, NoRun
  <2> QED BY <2>1, <2>2
<1>4. ChildRows'
  BY <1>1, <1>2, <1>3 DEF ChildRows, Children, TypeOK, RowTypes
<1>5. ChildrenAt(w)'
  BY DEF ChildrenAt, BusyPc
<1> QED BY <1>4, <1>5, ChildrenFrame

\* Recovery with verified cleanup finds no lock of that run left.
LEMMA ChildrenStaleUnlock ==
    ASSUME TypeOK, Tickets, Verification, Children, NEW w \in Workers, StaleUnlock(w)
    PROVE  Children'
<1>0. /\ pc[w] = "stale_unlock" /\ TaskAt(w) = TaskOf[RunOf(w)] /\ own[w].run = RunOf(w)
      /\ RunOf(w) \in Runs /\ TaskAt(w) \in Tasks
      /\ cleanupVerified[RunOf(w)] /\ agents' = agents /\ cleanupVerified' = cleanupVerified
      /\ lock \in [Tasks -> Ticket]
  BY HolderFacts DEF StaleUnlock, At, Verification, database, TypeOK, FileTypes
<1>1. Others(w) /\ pc'[w] \in {"idle", "stale_release"}
  <2>1. CASE Return(w)
    BY <2>1, ReturnOthers
  <2>2. CASE Goto(w, "stale_release") /\ UNCHANGED <<own, locals>>
    BY <2>2 DEF Goto, locals, Others, TypeOK, WorkerTypes
  <2> QED BY <2>1, <2>2 DEF StaleUnlock
<1>2. ChildrenAt(w)'
  BY <1>1 DEF ChildrenAt, BusyPc, ExecutingPc
<1>3. lock[TaskAt(w)] # own[w]
  <2>1. lock[TaskOf[RunOf(w)]].run # RunOf(w)
    BY <1>0 DEF Children
  <2> QED BY <1>0, <2>1
<1>4. lock' = lock
  BY <1>0, <1>3 DEF StaleUnlock
<1>5. ChildRows'
  BY <1>0, <1>4 DEF ChildRows, Children
<1> QED BY <1>0, <1>1, <1>2, <1>5, ChildrenFrame

\* The lock goes only when the run has no processes left.
LEMMA ChildrenUnlock ==
    ASSUME TypeOK, Tickets, Verification, Children, NEW w \in Workers, Unlock(w)
    PROVE  Children'
<1>0. /\ pc[w] = "unlock" /\ TaskAt(w) = TaskOf[RunOf(w)] /\ own[w].run = RunOf(w)
      /\ RunOf(w) \in Runs /\ TaskAt(w) \in Tasks
      /\ agents' = agents /\ cleanupVerified' = cleanupVerified
      /\ lock \in [Tasks -> Ticket]
  BY HolderFacts DEF Unlock, At, database, TypeOK, FileTypes
<1>1. Others(w) /\ pc'[w] \in {"verified", "setup_failed", "release"}
  BY DEF Unlock, Goto, AfterFinalize, locals, Others, TypeOK, WorkerTypes
<1>2. ChildrenAt(w)'
  BY <1>1 DEF ChildrenAt, BusyPc
<1>3. CASE lock' = lock
  <2>1. ChildRows'
    BY <1>0, <1>3 DEF ChildRows, Children
  <2> QED BY <1>0, <1>1, <1>2, <2>1, ChildrenFrame
<1>4. CASE /\ cleanup[w] /\ lock[TaskAt(w)] \in {NoTicket, own[w]}
           /\ lock' = [lock EXCEPT ![TaskAt(w)] = NoTicket]
  <2>1. ~agents[RunOf(w)]
    BY <1>0, <1>4 DEF Children, BusyPc, ExecutingPc
  <2>2. lock'[TaskAt(w)] = NoTicket /\ NoTicket.run = 0
        /\ \A t \in Tasks \ {TaskAt(w)} : lock'[t] = lock[t]
    BY <1>0, <1>4 DEF NoTicket, NoRun
  <2>3. ASSUME NEW r \in Runs
        PROVE  /\ agents[r] => lock'[TaskOf[r]].run = r
               /\ cleanupVerified[r] => lock'[TaskOf[r]].run # r
    <3>1. r # 0 /\ TaskOf[r] \in Tasks
      BY DEF NoRun
    <3>2. CASE TaskOf[r] # TaskAt(w)
      BY <2>2, <3>1, <3>2 DEF Children
    <3>3. CASE TaskOf[r] = TaskAt(w)
      <4>1. ~agents[r]
        BY <1>0, <1>4, <2>1, <2>2, <3>1, <3>3 DEF Children
      <4> QED BY <2>2, <3>1, <3>3, <4>1
    <3> QED BY <3>2, <3>3
  <2>4. ChildRows'
    BY <1>0, <2>3 DEF ChildRows
  <2> QED BY <1>0, <1>1, <1>2, <2>4, ChildrenFrame
<1> QED BY <1>3, <1>4 DEF Unlock

\* Acquiring the lock hides no process of another run.
LEMMA ChildrenAcquire ==
    ASSUME TypeOK, Tickets, Verification, Children, NEW w \in Workers, AcquireLock(w)
    PROVE  Children'
<1>0. /\ pc[w] = "lock" /\ TaskAt(w) = TaskOf[RunOf(w)] /\ own[w].run = RunOf(w)
      /\ RunOf(w) \in Runs /\ TaskAt(w) \in Tasks
      /\ agents' = agents /\ cleanupVerified' = cleanupVerified
      /\ lock \in [Tasks -> Ticket] /\ own' = own /\ cleanup' = cleanup
  BY HolderFacts DEF AcquireLock, At, database, TypeOK, FileTypes
<1>1. Others(w) /\ pc'[w] \in {"ready", "finalize"} /\ RunOf(w)' = RunOf(w)
  BY DEF AcquireLock, Goto, Stop, Others, TypeOK, WorkerTypes, RunOf
<1>2. ChildrenAt(w)'
  BY <1>0, <1>1 DEF ChildrenAt, Children, BusyPc, ExecutingPc
<1>3. CASE lock' = lock
  <2>1. ChildRows'
    BY <1>0, <1>3 DEF ChildRows, Children
  <2> QED BY <1>0, <1>1, <1>2, <2>1, ChildrenFrame
<1>4. CASE /\ lock[TaskAt(w)] \in {NoTicket, own[w]}
           /\ lock' = [lock EXCEPT ![TaskAt(w)] = own[w]]
  <2>1. ~cleanupVerified[RunOf(w)]
    BY <1>0 DEF Verification, BusyPc, ExecutingPc
  <2>2. lock'[TaskAt(w)] = own[w] /\ NoTicket.run = 0
        /\ \A t \in Tasks \ {TaskAt(w)} : lock'[t] = lock[t]
    BY <1>0, <1>4 DEF NoTicket, NoRun
  <2>3. ASSUME NEW r \in Runs
        PROVE  /\ agents[r] => lock'[TaskOf[r]].run = r
               /\ cleanupVerified[r] => lock'[TaskOf[r]].run # r
    <3>1. r # 0 /\ TaskOf[r] \in Tasks
      BY DEF NoRun
    <3>2. CASE TaskOf[r] # TaskAt(w)
      BY <2>2, <3>1, <3>2 DEF Children
    <3>3. CASE TaskOf[r] = TaskAt(w)
      <4>1. agents[r] => r = RunOf(w)
        BY <1>0, <1>4, <2>2, <3>1, <3>3 DEF Children
      <4> QED BY <1>0, <2>1, <2>2, <3>3, <4>1
    <3> QED BY <3>2, <3>3
  <2>4. ChildRows'
    BY <1>0, <2>3 DEF ChildRows
  <2> QED BY <1>0, <1>1, <1>2, <2>4, ChildrenFrame
<1> QED BY <1>3, <1>4 DEF AcquireLock

\* Child processes are started, or left behind, only under the run's own lock.
LEMMA ChildrenSpawn ==
    ASSUME TypeOK, Tickets, Verification, Locking, Children, NEW w \in Workers, NEW b \in BOOLEAN,
           pc[w] \in {"ready", "runner"}, Others(w), own' = own,
           agents' = [agents EXCEPT ![RunOf(w)] = b],
           cleanupVerified' = cleanupVerified, lock' = lock,
           \/ pc'[w] = "runner"
           \/ pc'[w] \notin {"preflight", "enter", "lock", "ready", "prepare", "publish"}
              /\ ~cleanup'[w]
    PROVE  Children'
<1>0. /\ pc[w] \in ExecutingPc /\ pc[w] \in BusyPc /\ TaskAt(w) = TaskOf[RunOf(w)]
      /\ own[w].run = RunOf(w) /\ RunOf(w) \in Runs /\ RunOf(w)' = RunOf(w)
  BY HolderFacts DEF BusyPc, ExecutingPc, RunOf
<1>1. lock[TaskOf[RunOf(w)]].run = RunOf(w)
  BY <1>0 DEF Locking
<1>2. ChildRows'
  BY <1>0, <1>1 DEF ChildRows, Children, TypeOK, FileTypes
<1>3. ChildrenAt(w)'
  BY DEF ChildrenAt
<1>4. \A v \in Workers \ {w} : pc[v] \in BusyPc => RunOf(v) # RunOf(w) /\ RunOf(v) \in Runs
  BY <1>0 DEF Tickets, BusyPc, ExecutingPc
<1>5. \A v \in Workers \ {w} : pc[v] \in BusyPc /\ agents'[RunOf(v)] => agents[RunOf(v)]
  BY <1>0, <1>4 DEF TypeOK, FileTypes
<1> QED BY <1>2, <1>3, <1>5, ChildrenFrame

\* A queued run has no processes when it is claimed.
LEMMA ChildrenClaim ==
    ASSUME TypeOK, ClaimRows, Tickets, Locking, Children, NEW w \in Workers, NEW r \in Runs,
           TakeClaim(w, r)
    PROVE  Children'
<1>1. /\ Others(w) /\ cleanupVerified' = cleanupVerified /\ agents' = agents /\ lock' = lock
      /\ RunOf(w)' = r /\ pc'[w] = "preflight" /\ cleanup'[w] /\ claim[TaskOf[r]] = NoTicket
  BY ClaimEffect DEF files, RunOf
<1>2. ~agents[r]
  <2>1. lock[TaskOf[r]] = NoTicket /\ r # 0
    BY <1>1 DEF Locking, LockFollowsClaim, NoRun
  <2>2. lock[TaskOf[r]].run # r
    BY <2>1 DEF NoTicket, NoRun
  <2> QED BY <2>2 DEF Children
<1>3. ChildRows'
  BY <1>1 DEF ChildRows, Children
<1>4. ChildrenAt(w)'
  BY <1>1, <1>2 DEF ChildrenAt
<1> QED BY <1>1, <1>3, <1>4, ChildrenFrame

\* Evidence, of one worker.
EvidenceAt(w) ==
    /\ pc[w] \in BusyPc \ {"unlock"} => status[RunOf(w)] \in {"running", "needs_attention"}
    /\ pc[w] \in {"finalize", "archive", "commit"} /\ final[w] = "awaiting_receipt"
          => handoff[RunOf(w)] = "published" /\ cleanup[w]
    /\ At(w, "commit") => archive[RunOf(w)] = final[w]
    /\ pc[w] \in {"archive", "commit"} /\ cancelRequested[RunOf(w)]
          => final[w] \notin {"awaiting_receipt", "succeeded"}

\* What an executor does to rows and files concerns its own run only.
OwnRunOnly(w) ==
    /\ cancelRequested' = cancelRequested
    /\ \A r \in Runs \ {RunOf(w)} :
          status'[r] = status[r] /\ handoff'[r] = handoff[r] /\ archive'[r] = archive[r]

\* Evidence survives a step that concerns the executor's own run only.
LEMMA EvidenceFrame ==
    ASSUME Tickets, Evidence, NEW w \in Workers, pc[w] \in ExecutingPc, Others(w),
           OwnRunOnly(w), EvidenceAt(w)'
    PROVE  Evidence'
<1>1. ASSUME NEW v \in Workers \ {w}
      PROVE  EvidenceAt(v)'
  <2>1. pc'[v] = pc[v] /\ cleanup'[v] = cleanup[v] /\ final'[v] = final[v] /\ RunOf(v)' = RunOf(v)
    BY DEF Others, RunOf
  <2>2. EvidenceAt(v)
    BY DEF Evidence, EvidenceAt
  <2>3. CASE pc[v] \in ExecutingPc
    <3>1. RunOf(v) \in Runs \ {RunOf(w)}
      BY <2>3 DEF Tickets, ExecutingPc
    <3>2. status'[RunOf(v)] = status[RunOf(v)] /\ handoff'[RunOf(v)] = handoff[RunOf(v)]
          /\ archive'[RunOf(v)] = archive[RunOf(v)] /\ cancelRequested' = cancelRequested
      BY <3>1 DEF OwnRunOnly
    <3> QED BY <2>1, <2>2, <3>2 DEF EvidenceAt, At
  <2>4. CASE pc[v] \notin ExecutingPc
    BY <2>1, <2>4 DEF EvidenceAt, At, BusyPc, ExecutingPc
  <2> QED BY <2>3, <2>4
<1>2. \A v \in Workers : EvidenceAt(v)'
  BY <1>1
<1> QED BY <1>2 DEF Evidence, EvidenceAt

\* Steps before the finalization never announce delivery.
LEMMA EvidencePlain ==
    ASSUME Tickets, Evidence, NEW w \in Workers, Others(w),
           pc[w] \in BusyPc \ {"unlock"}, pc'[w] \in BusyPc \ {"archive", "commit", "unlock"},
           pc'[w] = "finalize" => final'[w] # "awaiting_receipt",
           own' = own, UNCHANGED <<database, archive>>
    PROVE  Evidence'
<1>1. OwnRunOnly(w)
  BY DEF OwnRunOnly, database
<1>2. RunOf(w)' = RunOf(w) /\ status' = status
  BY DEF RunOf, database
<1>3. EvidenceAt(w)'
  BY <1>2 DEF EvidenceAt, Evidence, At
<1>4. pc[w] \in ExecutingPc
  BY DEF BusyPc
<1> QED BY <1>1, <1>3, <1>4, EvidenceFrame

\* create_and_publish_handoff announces delivery only of a published package.
LEMMA EvidenceHandoff ==
    ASSUME TypeOK, Tickets, Children, Evidence, NEW w \in Workers,
           PrepareHandoff(w) \/ PublishHandoff(w)
    PROVE  Evidence'
<1>1. /\ pc[w] \in {"prepare", "publish"} /\ own' = own /\ status' = status
      /\ cancelRequested' = cancelRequested /\ archive' = archive /\ cleanup' = cleanup
      /\ RunOf(w) \in Runs
  BY DEF PrepareHandoff, PublishHandoff, At, files, Tickets
<1>2. /\ pc'[w] \in {"publish", "finalize"} /\ Others(w)
      /\ pc'[w] = "finalize" /\ final'[w] = "awaiting_receipt" => handoff'[RunOf(w)] = "published"
  <2>1. FailureStatus(w) # "awaiting_receipt"
    BY DEF FailureStatus
  <2>2. CASE PrepareHandoff(w)
    BY <2>1, <2>2 DEF PrepareHandoff, Goto, Stop, HandedOver, HandoffRaised, Others, TypeOK,
       WorkerTypes
  <2>3. CASE PublishHandoff(w)
    BY <1>1, <2>1, <2>3 DEF PublishHandoff, Goto, Stop, HandedOver, HandoffRaised, Others,
       TypeOK, WorkerTypes, RowTypes
  <2> QED BY <2>2, <2>3
<1>3. OwnRunOnly(w)
  <2>1. \/ handoff' = handoff
        \/ \E h \in HandoffStatuses : handoff' = [handoff EXCEPT ![RunOf(w)] = h]
    BY DEF PrepareHandoff, PublishHandoff, HandoffStatuses
  <2> QED BY <1>1, <2>1 DEF OwnRunOnly, TypeOK, RowTypes
<1>4. cleanup[w] /\ status[RunOf(w)] \in {"running", "needs_attention"} /\ pc[w] \in ExecutingPc
  BY <1>1 DEF Children, Evidence, BusyPc, ExecutingPc
<1>5. EvidenceAt(w)'
  <2>1. RunOf(w)' = RunOf(w)
    BY <1>1 DEF RunOf
  <2> QED BY <1>1, <1>2, <1>4, <2>1 DEF EvidenceAt, At
<1> QED BY <1>2, <1>3, <1>4, <1>5, EvidenceFrame

\* RunArchive.finish writes the manifest with the status to be committed.
LEMMA EvidenceArchive ==
    ASSUME TypeOK, Tickets, Evidence, NEW w \in Workers, FinishArchive(w)
    PROVE  Evidence'
<1>1. /\ pc[w] = "archive" /\ own' = own /\ UNCHANGED <<database, locals>>
      /\ RunOf(w) \in Runs /\ RunOf(w)' = RunOf(w)
  BY DEF FinishArchive, At, Tickets, RunOf
<1>2. Others(w) /\ OwnRunOnly(w)
  <2>1. archive' = archive \/ archive' = [archive EXCEPT ![RunOf(w)] = final[w]]
    BY DEF FinishArchive
  <2> QED BY <1>1, <2>1 DEF FinishArchive, Goto, Others, OwnRunOnly, TypeOK, FileTypes, WorkerTypes,
         database, locals
<1>3. \/ pc'[w] = "finalize_failed"
      \/ pc'[w] = "commit" /\ archive'[RunOf(w)] = final[w]
  BY <1>1 DEF FinishArchive, Goto, TypeOK, FileTypes, WorkerTypes
<1>4. EvidenceAt(w)
  BY DEF Evidence, EvidenceAt
<1>5. EvidenceAt(w)'
  BY <1>1, <1>3, <1>4 DEF EvidenceAt, At, BusyPc, ExecutingPc, database, locals
<1>6. pc[w] \in ExecutingPc
  BY <1>1 DEF ExecutingPc
<1> QED BY <1>2, <1>5, <1>6, EvidenceFrame

\* The failure handlers leave the evidence of other runs alone.
LEMMA EvidenceFailed ==
    ASSUME Tickets, Evidence, NEW w \in Workers, Others(w), pc[w] \in ExecutingPc,
           pc'[w] \in {"unlock", "worker_failed", "release"}, OwnRunOnly(w)
    PROVE  Evidence'
<1>1. EvidenceAt(w)'
  BY DEF EvidenceAt, At, BusyPc
<1> QED BY <1>1, EvidenceFrame

\* Settling a run concerns its own rows only.
LEMMA SettlesOwnRun ==
    ASSUME TypeOK, NEW w \in Workers, RunOf(w) \in Runs, Settles(w),
           UNCHANGED <<cancelRequested, archive>>,
           handoff' = handoff \/ \E h : handoff' = [handoff EXCEPT ![RunOf(w)] = h]
    PROVE  OwnRunOnly(w)
  BY DEF OwnRunOnly, Settles, TypeOK, RowTypes

\* SuccessHasEvidence, of one run.
SuccessOf(r) ==
    /\ status[r] = "awaiting_receipt" =>
          archive[r] = "awaiting_receipt" /\ handoff[r] = "published" /\ ~agents[r]
    /\ status[r] = "succeeded" => archive[r] \in {"succeeded", "awaiting_receipt"}

\* SuccessHasEvidence survives a step that respects the other runs.
LEMMA SuccessFrame ==
    ASSUME SuccessHasEvidence, NEW w \in Workers, SuccessOf(RunOf(w))',
           \A r \in Runs \ {RunOf(w)} : /\ status'[r] = status[r] /\ handoff'[r] = handoff[r]
                                        /\ archive'[r] = archive[r] /\ agents'[r] = agents[r],
           RunOf(w)' = RunOf(w)
    PROVE  SuccessHasEvidence'
<1>1. ASSUME NEW r \in Runs
      PROVE  SuccessOf(r)'
  <2>1. CASE r = RunOf(w)
    BY <2>1 DEF SuccessOf
  <2>2. CASE r # RunOf(w)
    BY <2>2 DEF SuccessOf, SuccessHasEvidence
  <2> QED BY <2>1, <2>2
<1> QED BY <1>1 DEF SuccessHasEvidence, SuccessOf

\* The finalization commits success only with its evidence.
LEMMA SuccessCommit ==
    ASSUME TypeOK, Tickets, Children, Evidence, SuccessHasEvidence, NEW w \in Workers,
           FinalizeCommit(w)
    PROVE  SuccessHasEvidence'
<1>1. /\ pc[w] = "commit" /\ RunOf(w) \in Runs /\ own' = own /\ RunOf(w)' = RunOf(w)
      /\ archive' = archive /\ agents' = agents
      /\ status' = [status EXCEPT ![RunOf(w)] = final[w]]
  BY DEF FinalizeCommit, At, Tickets, files, RunOf
<1>2. \E h : /\ handoff' = [handoff EXCEPT ![RunOf(w)] = h]
             /\ final[w] = "awaiting_receipt" => h = handoff[RunOf(w)]
  BY DEF FinalizeCommit
<1>3. /\ final[w] = "awaiting_receipt" => handoff[RunOf(w)] = "published" /\ cleanup[w]
      /\ archive[RunOf(w)] = final[w]
  BY <1>1 DEF Evidence, At
<1>4. cleanup[w] => ~agents[RunOf(w)]
  BY <1>1 DEF Children, BusyPc, ExecutingPc
<1>5. /\ status'[RunOf(w)] = final[w]
      /\ final[w] = "awaiting_receipt" => handoff'[RunOf(w)] = "published"
      /\ \A r \in Runs \ {RunOf(w)} : status'[r] = status[r] /\ handoff'[r] = handoff[r]
  BY <1>1, <1>2, <1>3 DEF TypeOK, RowTypes
<1>6. SuccessOf(RunOf(w))'
  BY <1>1, <1>3, <1>4, <1>5 DEF SuccessOf
<1> QED BY <1>1, <1>5, <1>6, SuccessFrame

\* While an executor is busy its run is neither waiting for delivery nor done.
LEMMA SuccessBusy ==
    ASSUME Tickets, SuccessHasEvidence, NEW w \in Workers, pc[w] # "idle", own' = own,
           status'[RunOf(w)] \notin {"awaiting_receipt", "succeeded"}, archive' = archive,
           \A r \in Runs \ {RunOf(w)} :
              status'[r] = status[r] /\ handoff'[r] = handoff[r] /\ agents'[r] = agents[r]
    PROVE  SuccessHasEvidence'
<1>1. RunOf(w)' = RunOf(w)
  BY DEF RunOf
<1>2. SuccessOf(RunOf(w))'
  BY <1>1 DEF SuccessOf
<1> QED BY <1>1, <1>2, SuccessFrame

\* The handler of execute_run never records a success.
LEMMA SuccessSetupFailed ==
    ASSUME TypeOK, ClaimRows, Tickets, SuccessHasEvidence, NEW w \in Workers, SetupFailed(w)
    PROVE  SuccessHasEvidence'
<1>1. /\ RunOf(w) \in Runs /\ handoff' = handoff /\ archive' = archive /\ agents' = agents
      /\ status \in [Runs -> Statuses]
  BY DEF SetupFailed, At, Tickets, files, TypeOK, RowTypes
<1>2. PICK f \in {"cancelled", "failed", "needs_attention"} : RecordFailure(w, f)
  BY DEF SetupFailed, ConcurrencyStatus, FailureStatus
<1>3. \E s : /\ status' = [status EXCEPT ![RunOf(w)] = s]
             /\ s \notin {"awaiting_receipt", "succeeded"} \/ s = status[RunOf(w)]
  BY <1>2 DEF RecordFailure, MarkStale
<1>4. \A r \in Runs : status'[r] = status[r]
                      \/ status'[r] \notin {"awaiting_receipt", "succeeded"}
  BY <1>1, <1>3
<1> QED BY <1>1, <1>4 DEF SuccessHasEvidence
=============================================================================
