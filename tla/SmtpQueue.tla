------------------------------ MODULE SmtpQueue ------------------------------
(***************************************************************************)
(* The e-mail queue: attempts (table smtp_attempts), the dispatcher that   *)
(* claims and sends them, the SMTP server, recovery of attempts whose      *)
(* dispatcher died, automatic and manual retries, and cancellation.        *)
(*                                                                         *)
(* Sources: delivery/queue.py, delivery/smtp_dispatcher.py,                *)
(* delivery/smtp_transport.py, delivery/retry_guard.py,                    *)
(* services/run_service.py (cancel_run), cli/main.py (the worker loop).    *)
(*                                                                         *)
(* Each SQLite transaction is one step.  What happens before a run waits   *)
(* for delivery is RunLifecycle's: here a run is "running" until its       *)
(* message is published or it ends without one.                            *)
(***************************************************************************)
EXTENDS Integers, FiniteSets

CONSTANTS
    Messages,       \* handoffs and unbound jobs, one logical message each
    Kind,           \* report, alert, test (mail) or probe (connection test)
    Family,         \* the run family of a report
    Started,        \* reports whose run is running at first
    Dispatchers,    \* processes that run dispatch_all_pending
    Operators,      \* CLI and web requests: retry_email, cancel_run
    Mortal,         \* processes that may die
    Keys,           \* request keys operators may use
    AutoLimit,      \* settings.delivery.smtp_max_attempts
    MaxAttempts,    \* bound on attempts of one message
    MaxEdits,       \* bound on changes of the delivery settings
    MaxCrashes,     \* bound on process crashes
    MaxFaults       \* bound on results that SQLite fails to store

Kinds == {"report", "alert", "test", "probe"}
Processes == Dispatchers \cup Operators
Jobs == Messages \X (1..MaxAttempts)
NoJob == <<>>
Nobody == 0
NoKey == 0

ASSUME KindAssumption == Kind \in [Messages -> Kinds]
ASSUME StartedAssumption ==
    /\ Started \subseteq {m \in Messages : Kind[m] = "report"}
    /\ DOMAIN Family = Messages
ASSUME ProcessAssumption ==
    /\ Dispatchers \cap Operators = {}
    /\ Mortal \subseteq Processes
    /\ Nobody \notin Processes /\ NoKey \notin Keys
ASSUME LimitAssumption ==
    /\ AutoLimit \in Nat /\ MaxAttempts \in Nat \ {0}
    /\ MaxEdits \in Nat /\ MaxCrashes \in Nat /\ MaxFaults \in Nat

VARIABLES
    runStatus,        \* scheduled_runs.status of a report's run
    cancelRequested,  \* execution_controls.cancel_requested
    handoff,          \* delivery_handoffs.status
    row,              \* smtp_attempts
    answered,         \* smtp_retry_requests: the attempt a request key got
    effects,          \* history: attempts that a key inserted or brought forward
    live,             \* settings, files and task version allow sending
    revision,         \* delivery_revision of the current settings
    server,           \* the SMTP server's view of each attempt's body
    pc, job,          \* of each process: where it is, the attempt it works on
    outcome,          \* ... the result it is going to store
    transient,        \* ... whether that result is retryable
    request,          \* ... key, acknowledgement and revision of a retry
    crashes, faults, edits

runs == <<runStatus, cancelRequested>>
settings == <<live, revision, edits>>
ledger == <<answered, effects>>
locals == <<job, outcome, transient, request>>
vars == <<runs, handoff, row, ledger, settings, server, pc, locals, crashes, faults>>

RunStatuses == {"none", "running", "awaiting_receipt", "succeeded", "failed", "cancelled",
                "needs_attention"}
Results == {"smtp_accepted", "connection_ok", "failed", "uncertain"}
Statuses == {"none", "queued", "sending"} \cup Results
HandoffStatuses == {"none", "published", "queued"} \cup Results

Row == [status : Statuses, phase : {"prepared", "data_started", "finished"},
        owner : Processes \cup {Nobody},     \* claim_pid, if that process lives
        later : BOOLEAN,                     \* next_attempt_at is in the future
        expiry : {"none", "open", "past"},   \* expires_at
        consent : BOOLEAN,                   \* request: allow_uncertain
        key : Keys \cup {NoKey},             \* request_key
        revision : Nat]                      \* config_revision
Queued(later, expiry, consent, key, rev) ==
    [status |-> "queued", phase |-> "prepared", owner |-> Nobody, later |-> later,
     expiry |-> expiry, consent |-> consent, key |-> key, revision |-> rev]
NoRow == [Queued(FALSE, "none", FALSE, NoKey, 0) EXCEPT !.status = "none"]

Request == [key : Keys \cup {NoKey}, consent : BOOLEAN, revision : Nat]
NoRequest == [key |-> NoKey, consent |-> FALSE, revision |-> 0]

Labels == {"idle", "insert", "claim", "retire", "connect", "body", "reply", "finish",
           "finish_again", "close", "probe", "recover", "flag", "cancel", "supersede", "retry"}

TypeOK ==
    /\ runStatus \in [Messages -> RunStatuses]
    /\ cancelRequested \in [Messages -> BOOLEAN]
    /\ handoff \in [Messages -> HandoffStatuses]
    /\ row \in [Jobs -> Row]
    /\ answered \in [Keys -> Jobs \cup {NoJob}]
    /\ effects \in [Keys -> Nat]
    /\ live \in BOOLEAN /\ revision \in Nat
    /\ server \in [Jobs -> {"none", "receiving", "accepted", "rejected"}]
    /\ pc \in [Processes -> Labels]
    /\ job \in [Processes -> Jobs \cup {NoJob}]
    /\ outcome \in [Processes -> Results]
    /\ transient \in [Processes -> BOOLEAN]
    /\ request \in [Processes -> Request]
    /\ crashes \in Nat /\ faults \in Nat /\ edits \in Nat

Init ==
    /\ runStatus = [m \in Messages |-> IF m \in Started THEN "running" ELSE "none"]
    /\ cancelRequested = [m \in Messages |-> FALSE]
    /\ handoff = [m \in Messages |-> "none"]
    /\ row = [j \in Jobs |-> NoRow]
    /\ answered = [k \in Keys |-> NoJob]
    /\ effects = [k \in Keys |-> 0]
    /\ live = TRUE /\ revision = 0
    /\ server = [j \in Jobs |-> "none"]
    /\ pc = [p \in Processes |-> "idle"]
    /\ job = [p \in Processes |-> NoJob]
    /\ outcome = [p \in Processes |-> "failed"]
    /\ transient = [p \in Processes |-> FALSE]
    /\ request = [p \in Processes |-> NoRequest]
    /\ crashes = 0 /\ faults = 0 /\ edits = 0

-----------------------------------------------------------------------------
(* Queries the code asks of the tables. *)

At(p, label) == pc[p] = label
Status(j) == row[j].status
Attempts(m) == {j \in Jobs : j[1] = m /\ Status(j) # "none"}
Latest(m) == CHOOSE j \in Attempts(m) : \A i \in Attempts(m) : i[2] <= j[2]
Next1(j) == <<j[1], j[2] + 1>>
First(m) == <<m, 1>>

Pending(j) == Status(j) \in {"queued", "sending"}
Some(m, status) == \E j \in Attempts(m) : Status(j) = status
\* The unique index one_smtp_dispatcher: one attempt is being sent at a time.
Sending == {j \in Jobs : Status(j) = "sending"}

\* An earlier (or any other) attempt of the message whose fate is unknown.
PriorUncertain(j) == \E i \in Attempts(j[1]) \ {j} : Status(i) = "uncertain"

Report(m) == Kind[m] = "report"
Bound(m) == Kind[m] \in {"report", "alert"}

\* require_retry_family_clear: no other member of the run family is under way
\* or has an e-mail that is pending or uncertain.
Unsettled(m) ==
    \/ runStatus[m] \in {"running", "awaiting_receipt"}
    \/ handoff[m] \in {"published", "queued", "uncertain"}
Relatives(m) == {n \in Messages : Report(n) /\ Family[n] = Family[m]}
FamilyClear(m) == \A n \in Relatives(m) \ {m} : ~Unsettled(n)

\* _prepare_job: settings, the snapshot's revision, the handoff and its run.
Sendable(j) ==
    LET m == j[1] IN
    /\ Kind[m] = "probe" \/ live
    /\ row[j].revision = revision
    /\ Bound(m) => handoff[m] \in {"published", "queued"}
    /\ Report(m) => runStatus[m] = "awaiting_receipt" /\ ~cancelRequested[m]

\* _prepare_job(retry=True, allow_revision_change=True).
Retryable(m) ==
    /\ live
    /\ handoff[m] \in {"published", "queued", "failed", "uncertain"}
    /\ runStatus[m] \in {"awaiting_receipt", "failed", "needs_attention"}
    /\ ~cancelRequested[m]
    /\ FamilyClear(m)

Goto(p, label) == pc' = [pc EXCEPT ![p] = label]
Take(p, label, j) == Goto(p, label) /\ job' = [job EXCEPT ![p] = j]
Return(p) ==
    /\ Goto(p, "idle")
    /\ job' = [job EXCEPT ![p] = NoJob]
    /\ outcome' = [outcome EXCEPT ![p] = "failed"]
    /\ transient' = [transient EXCEPT ![p] = FALSE]
    /\ request' = [request EXCEPT ![p] = NoRequest]
\* Leave the exchange with a result to be stored.
Conclude(p, result, retry) ==
    /\ Goto(p, "finish")
    /\ outcome' = [outcome EXCEPT ![p] = result]
    /\ transient' = [transient EXCEPT ![p] = retry]
    /\ UNCHANGED <<job, request>>

-----------------------------------------------------------------------------
(* Where messages come from. *)

\* create_run for a retry: require_retry_family_clear in the same transaction.
CreateRun(m) ==
    /\ Report(m) /\ runStatus[m] = "none"
    /\ FamilyClear(m)
    /\ runStatus' = [runStatus EXCEPT ![m] = "running"]
    /\ UNCHANGED <<cancelRequested, handoff, row, ledger, settings, server, pc, locals,
                   crashes, faults>>

\* RunLifecycle: the run is finalized with its message published, or ends.
EndRun(m) ==
    /\ runStatus[m] = "running"
    /\ \/ /\ ~cancelRequested[m]
          /\ runStatus' = [runStatus EXCEPT ![m] = "awaiting_receipt"]
          /\ handoff' = [handoff EXCEPT ![m] = "published"]
       \/ /\ \E s \in {"failed", "needs_attention"} :
                 runStatus' = [runStatus EXCEPT ![m] = IF cancelRequested[m] THEN "cancelled" ELSE s]
          /\ UNCHANGED handoff
    /\ UNCHANGED <<cancelRequested, row, ledger, settings, server, pc, locals, crashes, faults>>

\* SystemAlertManager.emit_alert.
PublishAlert(m) ==
    /\ Kind[m] = "alert" /\ handoff[m] = "none"
    /\ live
    /\ handoff' = [handoff EXCEPT ![m] = "published"]
    /\ UNCHANGED <<runs, row, ledger, settings, server, pc, locals, crashes, faults>>

\* send_test_email and the queued connection test.
EnqueueTest(m) ==
    /\ ~Bound(m) /\ Status(First(m)) = "none"
    /\ Kind[m] = "probe" \/ live
    /\ row' = [row EXCEPT ![First(m)] = Queued(FALSE, "none", FALSE, NoKey, revision)]
    /\ UNCHANGED <<runs, handoff, ledger, settings, server, pc, locals, crashes, faults>>

\* enqueue_handoff of a published handoff without a job: the checks ...
EnqueueCheck(p, m) ==
    /\ p \in Dispatchers /\ At(p, "idle")
    /\ Bound(m) /\ handoff[m] = "published" /\ Status(First(m)) = "none"
    /\ live
    /\ Report(m) => runStatus[m] = "awaiting_receipt" /\ ~cancelRequested[m]
    /\ Take(p, "insert", First(m))
    /\ request' = [request EXCEPT ![p].revision = revision]
    /\ UNCHANGED <<runs, handoff, row, ledger, settings, server, outcome, transient, crashes,
                   faults>>

\* ... and SmtpQueue.enqueue, which asks nothing of the run.
Enqueue(p) ==
    /\ At(p, "insert")
    /\ row' = [row EXCEPT ![job[p]] =
                  IF @.status = "none"
                    THEN Queued(FALSE, "none", FALSE, NoKey, request[p].revision) ELSE @]
    /\ Return(p)
    /\ UNCHANGED <<runs, handoff, ledger, settings, server, crashes, faults>>

-----------------------------------------------------------------------------
(* SmtpQueue.finish: the attempt, its handoff, its run and an automatic retry *)
(* in one transaction.                                                        *)

SettledRun(j, result) ==
    CASE result = "smtp_accepted" -> "succeeded"
      [] result = "uncertain" -> "needs_attention"
      [] result = "failed" /\ PriorUncertain(j) -> "needs_attention"
      [] result = "failed" /\ ~PriorUncertain(j) ->
            IF cancelRequested[j[1]] /\ row[j].phase # "data_started" THEN "cancelled" ELSE "failed"

SettledHandoff(j, result) ==
    IF result = "failed" /\ Report(j[1]) /\ PriorUncertain(j) THEN "uncertain" ELSE result

\* A due time within the expiry is up to the clock: the retry may be left out.
AutoRetryable(j, result, retry) ==
    /\ result = "failed" /\ retry
    /\ Report(j[1]) /\ ~cancelRequested[j[1]] /\ ~PriorUncertain(j)
    /\ j[2] < AutoLimit /\ j[2] < MaxAttempts
    /\ FamilyClear(j[1]) /\ ~Some(j[1], "smtp_accepted")

Closed(j, result) ==
    [row[j] EXCEPT !.status = result, !.phase = "finished", !.owner = Nobody]

Store(j, result, retry) ==
    LET m == j[1]
        open == runStatus[m] \in {"awaiting_receipt", "running"} IN
    \/ /\ row' = [row EXCEPT ![j] = Closed(j, result)]
       /\ handoff' = IF Bound(m) THEN [handoff EXCEPT ![m] = SettledHandoff(j, result)]
                                 ELSE handoff
       /\ runStatus' = IF Report(m) /\ open
                          THEN [runStatus EXCEPT ![m] = SettledRun(j, result)] ELSE runStatus
    \/ /\ AutoRetryable(j, result, retry)
       /\ open \/ runStatus[m] \in {"failed", "needs_attention"}
       /\ row' = [row EXCEPT ![j] = Closed(j, result),
                             ![Next1(j)] = Queued(TRUE, "open", FALSE, NoKey, row[j].revision)]
       /\ handoff' = [handoff EXCEPT ![m] = "queued"]
       /\ runStatus' = [runStatus EXCEPT ![m] = "awaiting_receipt"]

\* Steps that store a result, with the step that follows.
Storing == {"finish", "finish_again", "close", "recover"}

\* Mutant: finish stores a result whoever stored one before.
HeldAlways(p) == Status(job[p]) # "queued"

\* The attempt is still this process's to finish (or a dead process's).
Held(p) == Status(job[p]) = "sending"

Finish(p) ==
    /\ pc[p] \in Storing
    /\ Held(p)
    /\ Store(job[p], outcome[p], transient[p])
    /\ IF At(p, "close") /\ p \in Operators
         THEN Goto(p, "retry") /\ UNCHANGED locals
         ELSE Return(p)
    /\ UNCHANGED <<cancelRequested, ledger, settings, server, crashes, faults>>

\* Somebody else stored a result of this attempt: "dispatch ownership lost".
FinishLost(p) ==
    /\ pc[p] \in Storing
    /\ ~Held(p)
    /\ Return(p)
    /\ UNCHANGED <<runs, handoff, row, ledger, settings, server, crashes, faults>>

\* SQLite fails.  After DATA the dispatcher tries once more, as uncertain;
\* otherwise the exception ends the attempt's handling, and its row stays.
FinishFails(p) ==
    /\ pc[p] \in Storing
    /\ faults < MaxFaults
    /\ faults' = faults + 1
    /\ IF At(p, "finish") /\ row[job[p]].phase = "data_started"
         THEN /\ Goto(p, "finish_again")
              /\ outcome' = [outcome EXCEPT ![p] = "uncertain"]
              /\ transient' = [transient EXCEPT ![p] = FALSE]
              /\ UNCHANGED <<job, request>>
         ELSE Return(p)
    /\ UNCHANGED <<runs, handoff, row, ledger, settings, server, crashes>>

-----------------------------------------------------------------------------
(* SmtpDispatcher._dispatch_job. *)

\* The attempt is read and checked.  A first attempt that does not pass stays
\* queued; a retry that does not pass, or is too late, is retired unsent.
Prepare(p, j) ==
    /\ p \in Dispatchers /\ At(p, "idle")
    /\ Status(j) = "queued" /\ ~row[j].later
    /\ \/ row[j].expiry # "past" /\ Sendable(j) /\ Take(p, "claim", j)
       \/ row[j].expiry = "past" /\ Take(p, "retire", j)
       \/ ~Sendable(j) /\ j[2] > 1 /\ Take(p, "retire", j)
    /\ UNCHANGED <<runs, handoff, row, ledger, settings, server, outcome, transient, request,
                   crashes, faults>>

\* SmtpQueue.claim.  The unique index refuses a second sender.
Claimed(p) ==
    /\ Status(job[p]) = "queued"
    /\ Sending = {}
    /\ ~row[job[p]].later \/ At(p, "supersede")

Claim(p) ==
    /\ pc[p] \in {"claim", "retire", "supersede"}
    /\ Claimed(p)
    /\ row' = [row EXCEPT ![job[p]] =
                  [@ EXCEPT !.status = "sending", !.owner = p, !.later = FALSE]]
    /\ Goto(p, IF At(p, "claim") THEN "connect" ELSE "close")
    /\ UNCHANGED <<runs, handoff, ledger, settings, server, locals, crashes, faults>>

ClaimRefused(p) ==
    /\ pc[p] \in {"claim", "retire", "supersede"}
    /\ ~Claimed(p)
    /\ Return(p)
    /\ UNCHANGED <<runs, handoff, row, ledger, settings, server, crashes, faults>>

\* Everything up to the server's 354: connection, TLS, login, MAIL, RCPT, DATA,
\* and the progress record of each stage.
ConnectFails(p) ==
    /\ At(p, "connect")
    /\ \E retry \in BOOLEAN : Conclude(p, "failed", retry)
    /\ UNCHANGED <<runs, handoff, row, ledger, settings, server, crashes, faults>>

\* A connection test ends before MAIL.
ConnectionVerified(p) ==
    /\ At(p, "connect") /\ Kind[job[p][1]] = "probe"
    /\ Conclude(p, "connection_ok", FALSE)
    /\ UNCHANGED <<runs, handoff, row, ledger, settings, server, crashes, faults>>

\* before_body: expiry, _prepare_job again and start_data, which asks for the
\* cancellation flag, the run and the claim inside its transaction.
StartData(p) ==
    LET j == job[p] IN
    /\ At(p, "connect") /\ Kind[j[1]] # "probe"
    /\ IF row[j].expiry # "past" /\ Sendable(j) /\ Status(j) = "sending"
         THEN /\ row' = [row EXCEPT ![j].phase = "data_started"]
              /\ Goto(p, "body")
              /\ UNCHANGED locals
         ELSE Conclude(p, "failed", FALSE) /\ UNCHANGED row
    /\ UNCHANGED <<runs, handoff, ledger, settings, server, crashes, faults>>

SendBody(p) ==
    /\ At(p, "body")
    /\ server' = [server EXCEPT ![job[p]] = "receiving"]
    /\ Goto(p, "reply")
    /\ UNCHANGED <<runs, handoff, row, ledger, settings, locals, crashes, faults>>

\* External: the server accepts or drops what it received, in its own time.
ServerDecides(j) ==
    /\ server[j] = "receiving"
    /\ \E verdict \in {"accepted", "rejected"} : server' = [server EXCEPT ![j] = verdict]
    /\ UNCHANGED <<runs, handoff, row, ledger, settings, pc, locals, crashes, faults>>

\* The final reply: 2xx, or an explicit 4xx (retryable) or 5xx.
ReadReply(p) ==
    /\ At(p, "reply")
    /\ \/ server[job[p]] = "accepted" /\ Conclude(p, "smtp_accepted", FALSE)
       \/ /\ server[job[p]] = "rejected"
          /\ \E retry \in BOOLEAN : Conclude(p, "failed", retry)
    /\ UNCHANGED <<runs, handoff, row, ledger, settings, server, crashes, faults>>

\* failure_result with body_started: a timeout, a lost connection or an odd
\* reply, before or after the server made up its mind.
ExchangeBreaks(p) ==
    /\ pc[p] \in {"body", "reply"}
    /\ Conclude(p, "uncertain", FALSE)
    /\ UNCHANGED <<runs, handoff, row, ledger, settings, server, crashes, faults>>

-----------------------------------------------------------------------------
(* recover_interrupted: the rows are read first, then each owner is probed. *)

RecoverRead(p, j) ==
    /\ p \in Dispatchers /\ At(p, "idle")
    /\ Status(j) = "sending"
    /\ Take(p, "probe", j)
    /\ outcome' = [outcome EXCEPT ![p] =
                      IF row[j].phase = "data_started" THEN "uncertain" ELSE "failed"]
    /\ UNCHANGED <<runs, handoff, row, ledger, settings, server, transient, request, crashes,
                   faults>>

\* Mutant: only interrupted DATA is recovered.
RecoverDataOnly(p) ==
    /\ At(p, "probe")
    /\ IF Status(job[p]) = "sending" /\ row[job[p]].owner = Nobody /\ outcome[p] = "uncertain"
         THEN Goto(p, "recover") /\ UNCHANGED locals
         ELSE Return(p)
    /\ UNCHANGED <<runs, handoff, row, ledger, settings, server, crashes, faults>>

\* os.kill(claim_pid, 0): a live owner keeps its attempt.
RecoverProbe(p) ==
    /\ At(p, "probe")
    /\ IF Status(job[p]) = "sending" /\ row[job[p]].owner = Nobody
         THEN Goto(p, "recover") /\ UNCHANGED locals
         ELSE Return(p)
    /\ UNCHANGED <<runs, handoff, row, ledger, settings, server, crashes, faults>>

-----------------------------------------------------------------------------
(* Operators. *)

\* cancel_run: the status is read, the flag is set, then pending mail is closed.
CancelRead(p, m) ==
    /\ p \in Operators /\ At(p, "idle")
    /\ Report(m) /\ runStatus[m] \in {"running", "awaiting_receipt", "needs_attention"}
    /\ Take(p, "flag", First(m))
    /\ UNCHANGED <<runs, handoff, row, ledger, settings, server, outcome, transient, request,
                   crashes, faults>>

RequestCancel(p) ==
    /\ At(p, "flag")
    /\ cancelRequested' = [cancelRequested EXCEPT ![job[p][1]] = TRUE]
    /\ Goto(p, "cancel")
    /\ UNCHANGED <<runStatus, handoff, row, ledger, settings, server, locals, crashes, faults>>

\* Mutant: it forgets attempts whose fate is unknown.
CancelPendingForgetful(p) ==
    LET m == job[p][1] IN
    /\ At(p, "cancel")
    /\ IF Some(m, "sending") \/ runStatus[m] # "awaiting_receipt"
         THEN UNCHANGED <<runStatus, handoff, row>>
         ELSE /\ runStatus' = [runStatus EXCEPT ![m] = "cancelled"]
              /\ handoff' = [handoff EXCEPT ![m] = "failed"]
              /\ row' = [j \in Jobs |-> IF j[1] = m /\ Status(j) = "queued"
                                           THEN Closed(j, "failed") ELSE row[j]]
    /\ Return(p)
    /\ UNCHANGED <<cancelRequested, ledger, settings, server, crashes, faults>>

\* Mutant: it closes what is queued, and nothing if nothing is queued yet.
CancelPendingQueued(p) ==
    LET m == job[p][1] IN
    /\ At(p, "cancel")
    /\ IF ~Some(m, "queued") \/ runStatus[m] # "awaiting_receipt"
         THEN UNCHANGED <<runStatus, handoff, row>>
         ELSE /\ runStatus' = [runStatus EXCEPT ![m] = "cancelled"]
              /\ handoff' = [handoff EXCEPT ![m] = "failed"]
              /\ row' = [j \in Jobs |-> IF j[1] = m /\ Status(j) = "queued"
                                           THEN Closed(j, "failed") ELSE row[j]]
    /\ Return(p)
    /\ UNCHANGED <<cancelRequested, ledger, settings, server, crashes, faults>>

\* cancel_pending_for_run.  An attempt that is being sent is left to its sender,
\* which will see the flag.
CancelPending(p) ==
    LET m == job[p][1]
        unsure == Some(m, "uncertain") /\ ~Some(m, "smtp_accepted") IN
    /\ At(p, "cancel")
    /\ IF Some(m, "sending") \/ runStatus[m] # "awaiting_receipt"
         THEN UNCHANGED <<runStatus, handoff, row>>
         ELSE /\ runStatus' = [runStatus EXCEPT ![m] =
                                  IF unsure THEN "needs_attention" ELSE "cancelled"]
              /\ handoff' = [handoff EXCEPT ![m] =
                                IF unsure THEN "uncertain"
                                ELSE IF @ \in {"published", "queued"} THEN "failed" ELSE @]
              /\ row' = [j \in Jobs |-> IF j[1] = m /\ Status(j) = "queued"
                                           THEN Closed(j, "failed") ELSE row[j]]
    /\ Return(p)
    /\ UNCHANGED <<cancelRequested, ledger, settings, server, crashes, faults>>

\* retry_email: status and latest attempt are read and checked outside the
\* transaction that will insert the new attempt.
RetryRead(p, m, k, consent) ==
    LET j == Latest(m) IN
    /\ p \in Operators /\ At(p, "idle")
    /\ answered[k] = NoJob
    /\ Report(m) /\ Attempts(m) # {} /\ Retryable(m)
    /\ \/ Status(j) \in {"failed", "uncertain"}
       \/ Status(j) = "queued" /\ row[j].later
    /\ Some(m, "uncertain") => consent
    /\ request' = [request EXCEPT ![p] = [key |-> k, consent |-> consent, revision |-> revision]]
    /\ Take(p, IF Status(j) = "queued" /\ row[j].revision # revision THEN "supersede" ELSE "retry", j)
    /\ UNCHANGED <<runs, handoff, row, ledger, settings, server, outcome, transient, crashes,
                   faults>>

\* Mutant: the acknowledgement is only asked for when the status is read.
RetryAllowedUnacknowledged(j, r) ==
    /\ answered[r.key] = NoJob
    /\ j = Latest(j[1])

\* SmtpQueue.retry, what it requires: no answer to this key yet, an
\* acknowledgement if any attempt is uncertain, and no newer attempt.
RetryAllowed(j, r) ==
    /\ answered[r.key] = NoJob
    /\ Some(j[1], "uncertain") => r.consent
    /\ j = Latest(j[1])

\* Mutant: the request key is not stored with the attempt it brought forward.
ExpediteUnrecorded(p) ==
    LET j == job[p] IN
    /\ At(p, "retry")
    /\ RetryAllowed(j, request[p])
    /\ Status(j) = "queued" /\ row[j].later
    /\ row' = [row EXCEPT ![j].later = FALSE]
    /\ effects' = [effects EXCEPT ![request[p].key] = @ + 1]
    /\ Return(p)
    /\ UNCHANGED <<runs, handoff, answered, settings, server, crashes, faults>>

\* A delayed automatic attempt is sent now.
Expedite(p) ==
    LET j == job[p] IN
    /\ At(p, "retry")
    /\ RetryAllowed(j, request[p])
    /\ Status(j) = "queued" /\ row[j].later
    /\ row' = [row EXCEPT ![j].later = FALSE]
    /\ answered' = [answered EXCEPT ![request[p].key] = j]
    /\ effects' = [effects EXCEPT ![request[p].key] = @ + 1]
    /\ Return(p)
    /\ UNCHANGED <<runs, handoff, settings, server, crashes, faults>>

\* _insert_retry: what it requires of the family, the run and the message.
Insertable(j) ==
    LET m == j[1] IN
    /\ Status(j) \in {"failed", "uncertain"}
    /\ FamilyClear(m) /\ ~cancelRequested[m]
    /\ \A i \in Attempts(m) : Status(i) \notin {"queued", "sending", "smtp_accepted"}
    /\ runStatus[m] \in {"failed", "needs_attention"}

Retry(p) ==
    LET j == job[p]
        r == request[p] IN
    /\ At(p, "retry")
    /\ RetryAllowed(j, r) /\ Insertable(j) /\ j[2] < MaxAttempts
    /\ row' = [row EXCEPT ![Next1(j)] = Queued(FALSE, "none", r.consent, r.key, r.revision)]
    /\ answered' = [answered EXCEPT ![r.key] = Next1(j)]
    /\ effects' = [effects EXCEPT ![r.key] = @ + 1]
    /\ handoff' = [handoff EXCEPT ![j[1]] = "queued"]
    /\ runStatus' = [runStatus EXCEPT ![j[1]] = "awaiting_receipt"]
    /\ Return(p)
    /\ UNCHANGED <<cancelRequested, settings, server, crashes, faults>>

\* The answer is repeated, or something changed since the status was read.
RetryEnds(p) ==
    LET j == job[p] IN
    /\ At(p, "retry")
    /\ ~(RetryAllowed(j, request[p]) /\ Status(j) = "queued" /\ row[j].later)
    /\ ~(RetryAllowed(j, request[p]) /\ Insertable(j) /\ j[2] < MaxAttempts)
    /\ Return(p)
    /\ UNCHANGED <<runs, handoff, row, ledger, settings, server, crashes, faults>>

\* An operator changes what sending depends on.
EditSettings ==
    /\ edits < MaxEdits
    /\ edits' = edits + 1
    /\ \/ revision' = revision + 1 /\ UNCHANGED live
       \/ live' = ~live /\ UNCHANGED revision
    /\ UNCHANGED <<runs, handoff, row, ledger, server, pc, locals, crashes, faults>>

-----------------------------------------------------------------------------
(* Time and failures. *)

DueArrives(j) ==
    /\ Status(j) = "queued" /\ row[j].later
    /\ row' = [row EXCEPT ![j].later = FALSE]
    /\ UNCHANGED <<runs, handoff, ledger, settings, server, pc, locals, crashes, faults>>

\* The due time of an automatic attempt is not after its expiry.
ExpiryPasses(j) ==
    /\ Status(j) \in {"queued", "sending"} /\ row[j].expiry = "open" /\ ~row[j].later
    /\ row' = [row EXCEPT ![j].expiry = "past"]
    /\ UNCHANGED <<runs, handoff, ledger, settings, server, pc, locals, crashes, faults>>

\* A process dies; systemd or the next command replaces it under a new pid.
Crash(p) ==
    /\ p \in Mortal
    /\ ~At(p, "idle") \/ \E j \in Sending : row[j].owner = p
    /\ crashes < MaxCrashes
    /\ crashes' = crashes + 1
    /\ row' = [j \in Jobs |-> IF row[j].owner = p THEN [row[j] EXCEPT !.owner = Nobody]
                              ELSE row[j]]
    /\ Return(p)
    /\ UNCHANGED <<runs, handoff, ledger, settings, server, faults>>

\* One step of the call a process is inside of.
Proceed(p) ==
    \/ Enqueue(p) \/ Claim(p) \/ ClaimRefused(p)
    \/ ConnectFails(p) \/ ConnectionVerified(p) \/ StartData(p) \/ SendBody(p)
    \/ ReadReply(p) \/ ExchangeBreaks(p)
    \/ Finish(p) \/ FinishLost(p) \/ FinishFails(p)
    \/ RecoverProbe(p) \/ RequestCancel(p) \/ CancelPending(p)
    \/ Expedite(p) \/ Retry(p) \/ RetryEnds(p)

\* What the worker loop turns to between two calls.
Poll(p) ==
    \/ \E j \in Jobs : Prepare(p, j) \/ RecoverRead(p, j)
    \/ \E m \in Messages : EnqueueCheck(p, m)

Command(p) ==
    \E m \in Messages :
        \/ CancelRead(p, m)
        \/ \E k \in Keys, consent \in BOOLEAN : RetryRead(p, m, k, consent)

Next ==
    \/ \E p \in Processes : Proceed(p) \/ Poll(p) \/ Command(p) \/ Crash(p)
    \/ \E m \in Messages : CreateRun(m) \/ EndRun(m) \/ PublishAlert(m) \/ EnqueueTest(m)
    \/ \E j \in Jobs : ServerDecides(j) \/ DueArrives(j) \/ ExpiryPasses(j)
    \/ EditSettings

Spec == Init /\ [][Next]_vars

\* Calls proceed (SMTP operations time out), the worker loop begins every pass
\* with recovery and turns to what else there is, and due times arrive.
Fairness ==
    /\ \A p \in Processes : WF_vars(Proceed(p)) /\ WF_vars(Poll(p))
    /\ \A p \in Dispatchers : SF_vars(\E j \in Jobs : RecoverRead(p, j))
    /\ WF_vars(\E j \in Jobs : DueArrives(j))

FairSpec == Spec /\ Fairness

-----------------------------------------------------------------------------
(* Properties. *)

\* A server has this attempt's body, or may have it.
Possible(j) == server[j] \in {"receiving", "accepted"}

\* What a message's owner is told of it.
RunVerdict == [none |-> "pending", running |-> "pending", awaiting_receipt |-> "pending",
               succeeded |-> "delivered", failed |-> "not_delivered",
               cancelled |-> "not_delivered", needs_attention |-> "unknown"]
HandoffVerdict == [none |-> "pending", published |-> "pending", queued |-> "pending",
                   sending |-> "pending", smtp_accepted |-> "delivered",
                   connection_ok |-> "not_delivered", failed |-> "not_delivered",
                   uncertain |-> "unknown"]
Verdict(m) ==
    CASE Report(m) -> RunVerdict[runStatus[m]]
      [] Kind[m] = "alert" -> HandoffVerdict[handoff[m]]
      [] ~Bound(m) -> HandoffVerdict[Status(First(m))]

Numbers == 1..MaxAttempts
Copies(m) == {n \in Numbers : Possible(<<m, n>>)}
Arrived(m) == {n \in Numbers : server[<<m, n>>] = "accepted"}
Consented(m) == {n \in Numbers : row[<<m, n>>].consent}

\* The queue implements MailDelivery: a body leaves only while its run waits for
\* it, no second copy can exist without the operator's acknowledgement, and
\* every verdict is true ("never resend dead-owner jobs").
Mail == INSTANCE MailDelivery WITH
    copies <- [m \in Messages |-> Copies(m)],
    arrived <- [m \in Messages |-> Arrived(m)],
    consented <- [m \in Messages |-> Consented(m)],
    verdict <- [m \in Messages |-> Verdict(m)]
DeliversOnce == Mail!MailSpec

\* An attempt that is recorded as failed was not, and will not be, delivered.
FailedWasNotSent == \A j \in Jobs : Status(j) = "failed" => ~Possible(j)

\* A run waits for its receipt exactly while there is something to wait for: its
\* published handoff, or an attempt that is queued or being sent.  Only the
\* first attempt can be queued too late, for a run that was just cancelled.
WaitingHasCause(m) ==
    /\ runStatus[m] = "awaiting_receipt" =>
          \/ handoff[m] = "published" /\ \A j \in Attempts(m) : Pending(j)
          \/ handoff[m] = "queued" /\ \E j \in Attempts(m) : Pending(j)
    /\ \A j \in Attempts(m) : Pending(j) =>
          \/ runStatus[m] = "awaiting_receipt"
          \/ cancelRequested[m] /\ runStatus[m] = "cancelled" /\ j = First(m)

\* An uncertain attempt that no later attempt settled stays visible: the run
\* asks for attention and the handoff says uncertain, whatever happened to
\* retries of it since (refused, expired, cancelled, superseded).
UncertaintyIsKept(m) ==
    Some(m, "uncertain") /\ ~Some(m, "smtp_accepted") /\ (\A j \in Attempts(m) : ~Pending(j))
        => runStatus[m] = "needs_attention" /\ handoff[m] = "uncertain"

\* What a run and its handoff say of a message is what its attempts know, through
\* cancellation, retries, recovery and failed commits.
RunTellsOfMail ==
    /\ TypeOK
    /\ \A m \in Messages : Report(m) => WaitingHasCause(m) /\ UncertaintyIsKept(m)

ResultStep == \A j \in Jobs : Status(j) \in Results => row'[j] = row[j]

\* The result of an attempt is stored once: when its sender died and several
\* processes recover it at the same time, with whatever phase each of them read,
\* or it is cancelled meanwhile, the first result stands.
ResultIsFinal == [][ResultStep]_vars

\* A request key has one effect, however often, by whom and whenever its request
\* is repeated: also when all it did was to bring an automatic attempt forward.
RequestOnce == \A k \in Keys : effects[k] <= 1

\* An attempt whose result could not be stored, under a process that lives on
\* and turned to other work: nothing but the end of that process releases it.
Stranded(j) ==
    Status(j) = "sending" /\ row[j].owner # Nobody /\ job[row[j].owner] # j

\* The one sending slot is given back: the sender stores a result, or dies and
\* is recovered.
SlotIsReleased ==
    \A j \in Jobs : Status(j) = "sending" ~> (Status(j) # "sending" \/ Stranded(j))

\* A message whose run waits for it is settled, unless the settings refuse its
\* first attempt (which stays queued until they are restored, or the run is
\* cancelled) or the sending slot is stranded.
Refused(m) ==
    \/ ~live \/ cancelRequested[m]
    \/ \E j \in Attempts(m) : row[j].revision # revision
WaitingEnds(m) ==
    runStatus[m] = "awaiting_receipt" ~>
        \/ runStatus[m] # "awaiting_receipt"
        \/ Refused(m)
        \/ \E j \in Jobs : Stranded(j)

\* A cancellation ends it, too: either cancel_pending_for_run closes the queue, or
\* the sender that kept it from doing so stores its result.  (Unless the caller
\* dies between its two transactions: then the flag stays, and the run waits until
\* somebody cancels it again.)
CancelEnds(m) ==
    (\E p \in Operators : At(p, "cancel") /\ job[p] = First(m)) ~>
        \/ runStatus[m] # "awaiting_receipt"
        \/ \E j \in Jobs : Stranded(j)

MessagesSettle == \A m \in Messages : WaitingEnds(m) /\ CancelEnds(m)

-----------------------------------------------------------------------------
(* What a comment says of recovery. *)

\* recover_interrupted: "Never resend dead-owner jobs; pre-DATA is failed,
\* post-DATA uncertain", whoever else is dispatching at the time.
PostDataIsUncertain == FailedWasNotSent
=============================================================================
