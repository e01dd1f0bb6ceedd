----------------------------- MODULE RunFamily ------------------------------
(***************************************************************************)
(* One production task whose runs are repeated, recomposed and mailed from *)
(* storage (services/run_service.py, services/prepared_delivery.py,        *)
(* storage/repositories.py create_run, delivery/retry_guard.py,            *)
(* delivery/authorization.py, delivery/policy.py).                         *)
(*                                                                         *)
(* A command reads first and writes later, in one transaction; whatever it *)
(* read may have changed in between.  The worker and the dispatcher appear *)
(* as the steps the commands race with: their own protocols are            *)
(* RunLifecycle and SmtpQueue.  Dry runs, which send nothing, are left     *)
(* out: the flag is inherited by what is made from a run, and only a       *)
(* worker asked for one run by name can still set it on a queued run       *)
(* (set_force_dry_run), which takes that run and its descendants out of    *)
(* what is said here.                                                      *)
(***************************************************************************)
EXTENDS Integers, FiniteSets, Sequences, FiniteSetsExt

CONSTANTS
    Callers,        \* requests being served at once
    RequestKeys,    \* request keys
    Contract,       \* version -> its delivery settings
    MaxRuns,        \* bound: runs ever made
    MaxActs,        \* bound: commands given and settings changed
    MaxTries        \* bound: SMTP attempts of one mail

ASSUME RunFamilyAssumption ==
    /\ Contract \in Seq(STRING) /\ Contract # <<>>
    /\ MaxRuns \in Nat /\ MaxActs \in Nat /\ MaxTries \in Nat

VARIABLES
    task,           \* [active, mode]: the active version; delivery_mode = handoff
    usable,         \* kill switch off, SMTP enabled, sender and recipients live
    runs,           \* scheduled_runs with their controls, archive and handoff
    claim,          \* the run that holds the task, or 0
    sender,         \* the run whose mail the dispatcher holds, or 0
    call,           \* caller -> the command it is carrying out
    given,          \* the request key that clients send, or none
    acts,
    proper          \* history: every body so far was begun on current terms

famVars == <<task, usable, runs, claim, sender, call, given, acts, proper>>

Runs == 1 .. Len(runs)
NoKey == "no key"

\* What a command asks create_run for, and run_commands keeps under its key.
Order(op, scope, parent, version, source, rev, auth) ==
    [op |-> op, scope |-> scope, parent |-> parent, version |-> version,
     source |-> source, rev |-> rev, auth |-> auth]

NewRun(order, key) ==
    [order |-> order, key |-> key, status |-> "queued", cancel |-> FALSE, clean |-> FALSE,
     step |-> "none", input |-> FALSE, message |-> 0, archive |-> "none",
     handoff |-> "none", job |-> "none", tries |-> 0, doubt |-> FALSE,
     byhand |-> FALSE]

Idle == [op |-> "none"]

\* A run that composed its mail and failed before it was handed over.
Stranded ==
    [NewRun(Order("enqueue", "full", 0, 1, 0, 1, 0), NoKey) EXCEPT
        !.status = "failed", !.clean = TRUE, !.input = TRUE, !.message = 1, !.archive = "final"]

\* A run that sends the stored mail of the stranded one, while it does.
Sending ==
    [NewRun(Order("send", "delivery_only", 1, 1, 1, 2, 0), NoKey) EXCEPT
        !.status = "awaiting_receipt", !.clean = TRUE, !.input = TRUE, !.message = 1,
        !.archive = "ready", !.handoff = "queued", !.job = "data", !.tries = 1]

\* The search starts with a new task, with a stranded run, or in the middle of
\* what follows one.
FamInit ==
    /\ task = [active |-> 1, mode |-> TRUE]
    /\ usable = TRUE
    /\ given \in RequestKeys \cup {NoKey}
    /\ \/ runs \in {<<>>, <<Stranded>>} /\ sender = 0 /\ acts = 0
       \/ runs = <<Stranded, Sending>> /\ given = NoKey /\ sender = 2 /\ acts = 1
    /\ claim = 0
    /\ call = [c \in Callers |-> Idle]
    /\ proper = TRUE

Counted == acts < MaxActs /\ acts' = acts + 1

Busy(r) == runs[r].status \in {"queued", "running", "awaiting_receipt"}
Failed(r) == runs[r].status = "failed"

---------------------------------------------------------------------------
(* Families: runs joined by parent_run_id.                                 *)

Parent(r) == runs[r].order.parent

\* Runs are numbered as they are made, so a parent comes before its children.
Root[r \in Nat] == IF r \in Runs /\ Parent(r) # 0 THEN Root[Parent(r)] ELSE r

Family(r) == {s \in Runs : Root[s] = Root[r]}

Pending(r) == Busy(r) \/ runs[r].handoff \in {"published", "queued", "uncertain"}

MayHaveArrived(r) == runs[r].handoff \in {"smtp_accepted", "uncertain"} \/ runs[r].doubt

\* Mutant: stored mail is held to the rule for ordinary retries.
FamilyClearOfPending(r, except, prepared) ==
    \A s \in Family(r) : s \notin except => ~Pending(s)

\* require_retry_family_clear
FamilyClear(r, except, prepared) ==
    \A s \in Family(r) :
        /\ prepared => ~MayHaveArrived(s)
        /\ s \notin except => ~Pending(s)

---------------------------------------------------------------------------
(* Permission to deliver: authorization.py and policy.py.                  *)

SameContract(v, w) == Contract[v] = Contract[w]

\* build_delivery_authorization: none is needed while the version is active.
Authorizable(version) ==
    task.mode /\ usable /\ SameContract(version, task.active)

Authorization(version) == IF task.active = version THEN 0 ELSE task.active

\* validate_delivery_authorization
Valid(order) ==
    /\ order.op # "enqueue"
    /\ order.version = runs[order.parent].order.version
    /\ task.mode
    /\ task.active = order.auth
    /\ SameContract(order.version, task.active)

\* assert_delivery_version
VersionHolds(r) ==
    LET order == runs[r].order IN
    /\ task.mode
    /\ IF order.auth = 0 THEN task.active = order.version
       ELSE ~runs[r].cancel /\ Valid(order)

\* require_run_delivery_authorization, require_approval
Approved(r) == usable /\ VersionHolds(r) /\ ~runs[r].cancel

---------------------------------------------------------------------------
(* Stored mail.                                                            *)

Scope(r) == runs[r].order.scope

\* _composition_source
CompositionSource(r) ==
    IF runs[r].input THEN r
    ELSE IF Scope(r) # "full" THEN runs[r].order.source ELSE 0

\* A run that only delivered stands for the run it took its mail from.
MessageSource(r) == IF Scope(r) = "delivery_only" THEN runs[r].order.source ELSE r

\* load_prepared_message: validated and never handed over, its files in place.
Prepared(s) ==
    /\ Failed(s)
    /\ ~runs[s].cancel /\ runs[s].clean
    /\ runs[s].handoff = "none"
    /\ runs[s].message # 0 /\ runs[s].archive = "final"

---------------------------------------------------------------------------
(* Commands, as far as they read.                                          *)

Answered(c) == call' = [call EXCEPT ![c] = Idle]

Holders(k) == {r \in Runs : k # NoKey /\ runs[r].key = k}

Ordered(c, key, order) ==
    /\ Counted
    /\ call[c] = Idle
    /\ call' = [call EXCEPT ![c] = [op |-> order.op, key |-> key, order |-> order]]
    /\ UNCHANGED <<task, usable, runs, claim, sender, proper, given>>

enqueue_run(c, key) == Ordered(c, key, Order("enqueue", "full", 0, task.active, 0, 1, 0))

\* The revision of what is composed anew from a source.
NextRevision(r, source) ==
    IF source = 0 THEN 1 ELSE Max({runs[r].order.rev, runs[source].order.rev}) + 1

\* A key that was used answers at once, with its run or with a refusal; only a
\* new one gets this far.
Retry(c, key, op, scope, r) ==
    LET source == IF scope = "compose_only" THEN CompositionSource(r) ELSE 0
        version == runs[r].order.version
    IN  /\ ~Busy(r)
        /\ {h \in Holders(key) : runs[h].order.op # "enqueue"} = {}
        /\ scope = "compose_only" => source # 0
        /\ Authorizable(version)
        /\ Ordered(c, key, Order(op, scope, r, version, source, NextRevision(r, source),
                                 Authorization(version)))

retry_run(c, key, r) == Scope(r) # "delivery_only" /\ Retry(c, key, "retry", Scope(r), r)

compose_only(c, key, r) == Retry(c, key, "compose_only", "compose_only", r)

\* The family is not looked at here: create_run does, after the key.
send_prepared_email(c, key, r) ==
    LET source == MessageSource(r)
        version == runs[r].order.version
    IN  /\ Holders(key) = {}
        /\ Failed(r)
        /\ Prepared(source)
        /\ ~runs[r].cancel
        /\ Authorizable(version)
        /\ Ordered(c, key, Order("send", "delivery_only", r, version, source,
                                 NextRevision(r, source), Authorization(version)))

---------------------------------------------------------------------------
(* create_run: one transaction decides with what holds then.               *)

Deliverable(r) ==
    /\ Failed(r) /\ ~runs[r].cancel /\ runs[r].clean
    /\ claim = 0
    /\ runs[r].handoff = "none"

Acceptable(order) ==
    /\ order.op = "enqueue" => task.active = order.version
    /\ order.parent # 0 =>
        FamilyClear(order.parent, {}, order.op = "send")
    /\ order.op = "send" => Deliverable(order.parent)
    /\ order.auth # 0 => Valid(order)

\* Mutant: a key is looked up before the transaction only.
create_run_keyless(c) ==
    /\ call[c].op \notin {"none", "email"}
    /\ Answered(c)
    /\ IF Acceptable(call[c].order) /\ Len(runs) < MaxRuns
       THEN runs' = Append(runs, NewRun(call[c].order, call[c].key))
       ELSE UNCHANGED runs
    /\ UNCHANGED <<task, usable, claim, sender, acts, proper, given>>

\* A key that was used gives its run again, if it asks for the same.
create_run(c) ==
    /\ call[c].op \notin {"none", "email"}
    /\ Answered(c)
    /\ IF Holders(call[c].key) = {} /\ Acceptable(call[c].order) /\ Len(runs) < MaxRuns
       THEN runs' = Append(runs, NewRun(call[c].order, call[c].key))
       ELSE UNCHANGED runs
    /\ UNCHANGED <<task, usable, claim, sender, acts, proper, given>>

---------------------------------------------------------------------------
(* The worker (orchestrator.py, handoff.py), one run of the task at a time. *)

Worker == UNCHANGED <<task, usable, sender, call, acts, proper, given>>

claim_run(r) ==
    /\ runs[r].status = "queued" /\ claim = 0
    /\ claim' = r
    /\ runs' = [runs EXCEPT ![r].status = "running", ![r].step = "begun"]
    /\ Worker

At(r, step) == runs[r].status = "running" /\ runs[r].step = step

\* A run that composes nothing new depends on what its source left behind.
SourceStands(r) ==
    LET source == runs[r].order.source IN
    /\ Scope(r) = "compose_only" => runs[source].archive # "none"
    /\ Scope(r) = "delivery_only" => Prepared(source)

MessageOf(r) ==
    IF Scope(r) = "delivery_only" THEN runs[runs[r].order.source].message ELSE r

\* Nothing is composed for a run that may not be delivered.  The message is the
\* agent's, or the stored one; if the agent fails, its input stays.
Compose(r) ==
    /\ At(r, "begun") /\ Approved(r) /\ SourceStands(r)
    /\ \/ runs' = [runs EXCEPT ![r].step = "stopped", ![r].input = TRUE]
       \/ runs' = [runs EXCEPT ![r].step = "composed", ![r].input = TRUE,
                               ![r].message = MessageOf(r)]
    /\ UNCHANGED claim /\ Worker

\* The handoff is saved after one look at the policy and published after another,
\* which may refuse it.
create_and_publish_handoff(r) ==
    /\ At(r, "composed") /\ Approved(r)
    /\ \/ runs' = [runs EXCEPT ![r].step = "stopped", ![r].handoff = "prepared"]
       \/ runs' = [runs EXCEPT ![r].step = "handed", ![r].handoff = "published"]
    /\ UNCHANGED claim /\ Worker

Ended(r, status, handoff, archive) ==
    runs' = [runs EXCEPT ![r].step = "none", ![r].status = status,
                 ![r].handoff = handoff, ![r].archive = archive]

FinalizeDone(r) ==
    /\ At(r, "handed") /\ ~runs[r].cancel
    /\ Ended(r, "awaiting_receipt", "published", "ready")
    /\ UNCHANGED claim /\ Worker

\* An exception, or a cancellation seen at the end.  The orchestrator knows of
\* a handoff only once the publisher has returned it.
FinalizeFailed(r) ==
    /\ runs[r].status = "running"
    /\ At(r, "handed") => runs[r].cancel
    /\ Ended(r, IF runs[r].cancel THEN "cancelled" ELSE "failed",
             IF At(r, "handed") THEN "failed" ELSE runs[r].handoff, "final")
    /\ UNCHANGED claim /\ Worker

\* The worker is lost and its lease expires: no archive, no verdict.
mark_stale_attention(r) ==
    /\ runs[r].status = "running"
    /\ Ended(r, "needs_attention", runs[r].handoff, "none")
    /\ UNCHANGED claim /\ Worker

\* mark_cleanup_verified and release_lease, by the worker or by recovery.
release_lease(r) ==
    /\ claim = r /\ runs[r].status # "running"
    /\ claim' = 0
    /\ runs' = [runs EXCEPT ![r].clean = TRUE]
    /\ Worker

---------------------------------------------------------------------------
(* The dispatcher (smtp_dispatcher.py, queue.py), one mail at a time.      *)

Dispatcher == UNCHANGED <<task, usable, claim, call, acts, given>>

\* _check_handoff; the package in the outbox is the one the run published.
Checked(r) ==
    /\ Approved(r)
    /\ runs[r].handoff \in {"published", "queued"}
    /\ runs[r].status = "awaiting_receipt"
    /\ runs[r].archive = "ready"

RetryChecked(r) ==
    /\ Approved(r)
    /\ runs[r].handoff \in {"failed", "uncertain"}
    /\ runs[r].status \in {"failed", "needs_attention"}
    /\ runs[r].archive = "ready"

enqueue_handoff(r) ==
    /\ runs[r].job = "none" /\ Checked(r)
    /\ runs' = [runs EXCEPT ![r].job = "queued", ![r].handoff = "queued", ![r].tries = 1]
    /\ UNCHANGED <<sender, proper>> /\ Dispatcher

\* _prepare_job before the claim and again before the body: the last look counts.
PrepareJob(r) ==
    /\ runs[r].job = "queued" /\ sender = 0 /\ Checked(r)
    /\ runs' = [runs EXCEPT ![r].job = "checked"]
    /\ sender' = r
    /\ UNCHANGED proper /\ Dispatcher

\* What a body must be begun under.
OnCurrentTerms(r) ==
    /\ task.mode
    /\ SameContract(runs[r].order.version, task.active)
    /\ ~runs[r].cancel
    /\ runs[r].archive = "ready"

\* Mutant: the checks before the transaction are taken to hold in it.
start_data_unchecked(r) ==
    /\ runs[r].job = "checked"
    /\ runs' = [runs EXCEPT ![r].job = "data"]
    /\ proper' = (proper /\ OnCurrentTerms(r))
    /\ UNCHANGED sender /\ Dispatcher

start_data(r) ==
    /\ runs[r].job = "checked"
    /\ task.mode /\ ~runs[r].cancel
    /\ runs[r].status = "awaiting_receipt"
    /\ VersionHolds(r)
    /\ runs' = [runs EXCEPT ![r].job = "data"]
    /\ proper' = (proper /\ OnCurrentTerms(r))
    /\ UNCHANGED sender /\ Dispatcher

\* finish: what was in doubt stays so after an attempt that was not sent.
NotSent(r) ==
    [runs EXCEPT
        ![r].job = "failed",
        ![r].handoff = IF runs[r].doubt THEN "uncertain" ELSE "failed",
        ![r].status = IF runs[r].doubt THEN "needs_attention"
                      ELSE IF runs[r].cancel /\ runs[r].job # "data" THEN "cancelled"
                      ELSE "failed"]

\* The same transaction queues the next automatic attempt, unless it may not.
AutoRetry(r) ==
    IF ~runs[r].doubt /\ ~runs[r].cancel /\ runs[r].tries < MaxTries
       /\ FamilyClear(r, {r}, FALSE)
    THEN [runs EXCEPT ![r].job = "queued", ![r].handoff = "queued",
                      ![r].status = "awaiting_receipt", ![r].tries = @ + 1]
    ELSE NotSent(r)

\* A failure may be one that the policy does not repeat.
finish(r, outcome) ==
    /\ sender = r /\ sender' = 0
    /\ \/ /\ outcome = "smtp_accepted" /\ runs[r].job = "data"
          /\ runs' = [runs EXCEPT ![r].job = "smtp_accepted", ![r].handoff = "smtp_accepted",
                                  ![r].status = "succeeded"]
       \/ /\ outcome = "uncertain" /\ runs[r].job = "data"
          /\ runs' = [runs EXCEPT ![r].job = "uncertain", ![r].handoff = "uncertain",
                                  ![r].status = "needs_attention", ![r].doubt = TRUE]
       \/ outcome = "failed" /\ runs' \in {NotSent(r), AutoRetry(r)}
    /\ UNCHANGED proper /\ Dispatcher

\* A repeated attempt that may no longer be sent is failed; a first one waits.
RejectJob(r) ==
    /\ runs[r].job = "queued" /\ sender = 0 /\ ~Checked(r) /\ runs[r].tries > 1
    /\ runs' = NotSent(r)
    /\ UNCHANGED <<sender, proper>> /\ Dispatcher

\* retry_email: what retry_status and _prepare_job read ...
retry_email(c, r) ==
    /\ Counted
    /\ call[c] = Idle
    /\ runs[r].job \in {"failed", "uncertain"} /\ runs[r].tries < MaxTries
    /\ FamilyClear(r, {r}, FALSE)
    /\ RetryChecked(r)
    /\ call' = [call EXCEPT ![c] = [op |-> "email", run |-> r, tries |-> runs[r].tries,
                                    acknowledged |-> runs[r].doubt]]
    /\ UNCHANGED <<task, usable, runs, claim, sender, proper, given>>

\* Mutant: the family is not looked at again.
RetryStandsAsRead(r, tries, acknowledged) ==
    /\ runs[r].tries = tries /\ runs[r].job \in {"failed", "uncertain"}
    /\ runs[r].doubt => acknowledged
    /\ ~runs[r].cancel
    /\ runs[r].status \in {"failed", "needs_attention"}

\* ... and what queue.retry finds.
RetryStands(r, tries, acknowledged) ==
    /\ runs[r].tries = tries /\ runs[r].job \in {"failed", "uncertain"}
    /\ runs[r].doubt => acknowledged
    /\ FamilyClear(r, {r}, FALSE)
    /\ ~runs[r].cancel
    /\ runs[r].status \in {"failed", "needs_attention"}

_insert_retry(c) ==
    LET r == call[c].run IN
    /\ call[c].op = "email"
    /\ Answered(c)
    /\ IF RetryStands(r, call[c].tries, call[c].acknowledged)
       THEN runs' = [runs EXCEPT ![r].job = "queued", ![r].handoff = "queued",
                                 ![r].status = "awaiting_receipt", ![r].tries = @ + 1,
                                 ![r].byhand = TRUE]
       ELSE UNCHANGED runs
    /\ UNCHANGED <<task, usable, claim, sender, acts, proper, given>>

---------------------------------------------------------------------------
(* Operators.                                                              *)

Intervene ==
    /\ Counted
    /\ UNCHANGED <<claim, sender, call, proper, given>>

\* request_cancel and cancel_pending_for_run; SmtpQueue takes them apart.
cancel_run(r) ==
    /\ runs[r].status \notin {"succeeded", "failed", "cancelled"} /\ ~runs[r].cancel
    /\ runs' =
        [runs EXCEPT
            ![r].cancel = TRUE,
            ![r].status = IF @ = "queued" THEN "cancelled"
                          ELSE IF @ = "awaiting_receipt" /\ sender # r
                          THEN IF runs[r].doubt THEN "needs_attention" ELSE "cancelled"
                          ELSE @,
            ![r].job = IF @ = "queued" THEN "failed" ELSE @,
            ![r].handoff = IF runs[r].status = "awaiting_receipt" /\ sender # r
                           THEN IF runs[r].doubt THEN "uncertain" ELSE "failed"
                           ELSE @]
    /\ UNCHANGED <<task, usable>> /\ Intervene

\* _require_idle_for_edit holds for every change of version in production.
publish_production_update(v) ==
    /\ v # task.active
    /\ \A r \in Runs : ~Busy(r) /\ runs[r].handoff \notin {"prepared", "published"}
    /\ claim = 0
    /\ task' = [task EXCEPT !.active = v]
    /\ UNCHANGED <<usable, runs>> /\ Intervene

set_production_delivery_enabled ==
    /\ task' = [task EXCEPT !.mode = ~@]
    /\ UNCHANGED <<usable, runs>> /\ Intervene

SaveDelivery == usable' = ~usable /\ UNCHANGED <<task, runs>> /\ Intervene

\* Nothing of the run waits to be sent or to be looked at.
Retirable(r) ==
    /\ runs[r].status \in {"succeeded", "failed", "cancelled"}
    /\ runs[r].handoff \in {"none", "smtp_accepted", "failed"} /\ ~runs[r].doubt

\* cleanup_archives, once the retention period of all runs is over.
cleanup_archives ==
    /\ \A r \in Runs : ~Busy(r) /\ runs[r].status # "needs_attention"
    /\ runs' = [r \in Runs |-> IF Retirable(r) THEN [runs[r] EXCEPT !.archive = "none"] ELSE runs[r]]
    /\ UNCHANGED <<task, usable>> /\ Intervene

---------------------------------------------------------------------------
CommandStep(c) ==
    \/ enqueue_run(c, given)
    \/ \E r \in Runs :
        \/ retry_run(c, given, r) \/ compose_only(c, given, r)
        \/ send_prepared_email(c, given, r) \/ retry_email(c, r)
    \/ create_run(c) \/ _insert_retry(c)

WorkerStep(r) ==
    \/ claim_run(r) \/ Compose(r) \/ create_and_publish_handoff(r)
    \/ FinalizeDone(r) \/ FinalizeFailed(r) \/ mark_stale_attention(r) \/ release_lease(r)

DispatcherStep(r) ==
    \/ enqueue_handoff(r) \/ PrepareJob(r) \/ start_data(r) \/ RejectJob(r)
    \/ \E outcome \in {"smtp_accepted", "uncertain", "failed"} : finish(r, outcome)

OperatorStep ==
    \/ \E r \in Runs : cancel_run(r)
    \/ cleanup_archives
    \/ \E v \in DOMAIN Contract : publish_production_update(v)
    \/ set_production_delivery_enabled \/ SaveDelivery

FamNext ==
    \/ \E c \in Callers : CommandStep(c)
    \/ \E r \in Runs : WorkerStep(r) \/ DispatcherStep(r)
    \/ OperatorStep

FamSpec == FamInit /\ [][FamNext]_famVars

---------------------------------------------------------------------------
\* However commands, attempts and cancellations interleave, a family has at most
\* one run in the works that could send mail: require_retry_family_clear decides
\* in the transaction of create_run and of _insert_retry, never on what was read.
FamilySerial ==
    \A r, s \in Runs :
        r # s /\ Busy(r) /\ Busy(s) => Root[r] # Root[s]

OnTheWire(r) == runs[r].job = "data" \/ runs[r].handoff = "smtp_accepted" \/ runs[r].doubt

\* One composed message is on the wire, or may have arrived, under one run only:
\* send_prepared_email never repeats what another handoff of the family may have
\* delivered, and an automatic attempt stands in its way until it is over.  Only
\* an attempt that an operator repeats by hand may.
StoredMailOnce ==
    \A r, s \in Runs :
        OnTheWire(r) /\ OnTheWire(s) /\ runs[r].message = runs[s].message =>
            r = s \/ runs[r].byhand \/ runs[s].byhand

\* When a body is begun, the task is in live mode, its active version has the
\* settings the mail was made under, nobody has cancelled the run, and the
\* evidence of the mail is in the archive.
SentOnCurrentTerms == proper

\* A request key makes one run, whichever requests carry it at the same time.
KeyMakesOneRun ==
    \A r, s \in Runs : runs[r].key # NoKey /\ runs[r].key = runs[s].key => r = s
=============================================================================
