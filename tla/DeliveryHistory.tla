--------------------------- MODULE DeliveryHistory ---------------------------
(***************************************************************************)
(* What a task's later runs may conclude from the mail of its earlier      *)
(* ones.  Records that were mailed unchanged are left out (dedupe); a      *)
(* projection of the SMTP evidence is given to the worker                  *)
(* (delivery_history), with suggested changes to the ledger of products    *)
(* sent that the worker keeps.  The evidence changes while it is read: the *)
(* queue of SmtpQueue goes on, retries are asked for and cancelled, files  *)
(* are lost.                                                               *)
(*                                                                         *)
(* A mail's attempts are a sequence; a receipt is known by the number of   *)
(* its attempt (0: none).  Hash comparisons are the flag `intact` of the   *)
(* mail they protect.                                                      *)
(***************************************************************************)
EXTENDS Integers, Sequences, FiniteSets

CONSTANTS
    MailCount,      \* bound on the mails of the task
    Finds,          \* mail -> sets of records, [entity, content], research may find
    Alias,          \* entity -> the entities declared to be the same
    NoKey,          \* the entity of a record without its key fields
    MaxRetries,     \* bound on the retries of all mails together
    MaxBuilds,      \* bound on the projections built
    HistoryLimit    \* MAX_HISTORY_ENTRIES

\* in the order of their runs
Mails == 1..MailCount

ASSUME HistoryAssumption ==
    {MailCount, MaxRetries, MaxBuilds, HistoryLimit} \subseteq Nat \ {0}

VARIABLES
    mail,       \* handoff, attempts and receipts of each mail
    reported,   \* reported_items: <<record, mail>>
    left,       \* <<record, mail>>: left out of a message as already reported
    build,      \* build_delivery_history, and the projection so far
    ledger,     \* the worker's ledger: a message per mail
    builds      \* how many projections were built

histVars == <<mail, reported, left, build, ledger, builds>>

NoMail == [at |-> "none", records |-> {}, attempts |-> <<>>, status |-> "none",
           receipt |-> 0, intact |-> TRUE, cancelled |-> FALSE, reached |-> FALSE]
NoEntry == [status |-> "none", receipt |-> 0, chain |-> <<>>]
Unsent == [status |-> "none", receipt |-> 0]
NoBuild == [at |-> "idle", todo |-> {}, on |-> 0, seen |-> Unsent,
            entries |-> [m \in Mails |-> NoEntry], doubt |-> [m \in Mails |-> FALSE],
            complete |-> TRUE, offers |-> [m \in Mails |-> NoEntry]]

HistInit ==
    /\ mail = [m \in Mails |-> NoMail]
    /\ reported = {} /\ left = {}
    /\ build = NoBuild
    /\ ledger = [m \in Mails |-> Unsent]
    /\ builds = 0

-----------------------------------------------------------------------------
\* Research, the technical gate, deduplication and the composition input.

\* validate_research_output: one malformed record, or an identifier twice,
\* and the whole candidate is refused; nothing is dropped.
Candidates(m) == [records : Finds[m], sound : BOOLEAN]

\* derive_entity_key, equivalent_records: the same content under each of the
\* identities that were declared to be one entity.
Equivalents(r) ==
    IF r.entity = NoKey THEN {} ELSE {[r EXCEPT !.entity = e] : e \in Alias[r.entity]}
\* is_reported_item_unchanged
ReportedUnchanged(r) ==
    \E m \in Mails : <<r, m>> \in reported /\ mail[m].status = "smtp_accepted"

\* Mutant: another content under the same identity counts as reported.
ReportedBefore(r) ==
    \E x \in reported : x[1].entity \in Alias[r.entity] /\ mail[x[2]].status = "smtp_accepted"

\* process_records
AlreadyReported(r) == \E q \in Equivalents(r) : ReportedUnchanged(q)

ComposeMail(m) ==
    /\ mail[m].at = "none" /\ \A k \in Mails : k < m => mail[k].at # "none"
    /\ build.at \in {"idle", "done"}
    /\ \E c \in Candidates(m) :
        LET kept == {r \in c.records : ~AlreadyReported(r)} IN
        IF c.sound
        THEN /\ mail' = [mail EXCEPT ![m].at = "ready", ![m].records = kept,
                                     ![m].status = "published"]
             /\ left' = left \cup {<<r, m>> : r \in c.records \ kept}
             /\ ledger' = [ledger EXCEPT ![m].status = "prepared"]
        ELSE /\ mail' = [mail EXCEPT ![m].at = "refused"]
             /\ left' = left /\ ledger' = ledger
    /\ UNCHANGED <<reported, build, builds>>

-----------------------------------------------------------------------------
\* The queue (SmtpQueue has it in full).

last(m) == mail[m].attempts[Len(mail[m].attempts)]
UncertainAttempts(m) == {k \in DOMAIN mail[m].attempts : mail[m].attempts[k].status = "uncertain"}
Latest(S) == CHOOSE k \in S : \A j \in S : j <= k
Attempt(status, proof) == [status |-> status, proof |-> proof]

EnqueueMail(m) ==
    /\ mail[m].at = "ready" /\ mail[m].attempts = <<>>
    /\ mail' = [mail EXCEPT ![m].attempts = <<Attempt("queued", FALSE)>>]
    /\ UNCHANGED <<reported, left, build, ledger, builds>>

ClaimMail(m) ==
    /\ mail[m].attempts # <<>> /\ last(m).status = "queued"
    /\ mail' = [mail EXCEPT ![m].attempts[Len(mail[m].attempts)].status = "sending"]
    /\ UNCHANGED <<reported, left, build, ledger, builds>>

\* finish: receipt and handoff; an attempt that failed after an uncertain one
\* leaves the handoff with the uncertain one's receipt.  _commit_reported.
Commits(status) == status = "smtp_accepted"

FinishMail(m) ==
    /\ mail[m].attempts # <<>> /\ last(m).status = "sending"
    /\ \E status \in {"failed", "uncertain", "smtp_accepted"} :
        LET n == Len(mail[m].attempts)
            kept == status = "failed" /\ UncertainAttempts(m) # {} IN
        /\ \E got \in (CASE status = "smtp_accepted" -> {TRUE}
                         [] status = "uncertain" -> BOOLEAN [] OTHER -> {FALSE}) :
            mail' = [mail EXCEPT ![m].attempts[n] = Attempt(status, TRUE),
                        ![m].status = IF kept THEN "uncertain" ELSE status,
                        ![m].receipt = IF kept THEN Latest(UncertainAttempts(m)) ELSE n,
                        ![m].reached = @ \/ got]
        /\ reported' = IF Commits(status)
                       THEN reported \cup {<<r, m>> : r \in {r \in mail[m].records : r.entity # NoKey}}
                       ELSE reported
    /\ UNCHANGED <<left, build, ledger, builds>>

Retries == Cardinality({x \in Mails \X (2..(MaxRetries + 1)) :
                            x[2] \in DOMAIN mail[x[1]].attempts})

\* retry, by hand or automatic; after an uncertain result somebody has to
\* accept a duplicate.
RetryMail(m) ==
    /\ mail[m].attempts # <<>> /\ last(m).status \in {"failed", "uncertain"}
    /\ ~mail[m].cancelled /\ Retries < MaxRetries
    /\ mail' = [mail EXCEPT ![m].attempts = Append(@, Attempt("queued", FALSE)),
                            ![m].status = "queued", ![m].receipt = 0]
    /\ UNCHANGED <<reported, left, build, ledger, builds>>

\* finalize_cancelled_pending: the attempt has failed, without a receipt.
CancelQueued(m) ==
    /\ mail[m].attempts # <<>> /\ last(m).status = "queued"
    /\ mail' = [mail EXCEPT ![m].attempts[Len(mail[m].attempts)].status = "failed",
                    ![m].cancelled = TRUE,
                    ![m].status = IF UncertainAttempts(m) = {} THEN "failed" ELSE "uncertain",
                    ![m].receipt = IF UncertainAttempts(m) = {} THEN 0 ELSE Latest(UncertainAttempts(m))]
    /\ UNCHANGED <<reported, left, build, ledger, builds>>

\* A file of the mail's archive, its version or a stored row is gone or other.
Spoil(m) ==
    /\ mail[m].at = "ready" /\ \A k \in Mails : mail[k].intact   \* bound: one mail
    /\ mail' = [mail EXCEPT ![m].intact = FALSE]
    /\ UNCHANGED <<reported, left, build, ledger, builds>>

-----------------------------------------------------------------------------
\* build_delivery_history: newest first, at most HistoryLimit handoffs; then
\* each on its own, in several reads of a database that others write.
BuildBegins ==
    /\ build.at \in {"idle", "done"} /\ builds < MaxBuilds
    /\ LET all == {m \in Mails : mail[m].at = "ready"}
           newest == {m \in all : Cardinality({k \in all : k > m}) < HistoryLimit} IN
        build' = [NoBuild EXCEPT !.at = "next", !.todo = newest, !.complete = newest = all]
    /\ builds' = builds + 1
    /\ UNCHANGED <<mail, reported, left, ledger>>

\* (ghost) somebody may have the mail, or may get it from what is under way
MayBeSent(m) ==
    mail[m].reached \/ \E k \in DOMAIN mail[m].attempts :
        mail[m].attempts[k].status \in {"uncertain", "smtp_accepted", "sending"}

\* The handoff is read, its version, composition, archive and bodies compared
\* (_version_series, _verified_message, _record_bindings); a mail that fails
\* is unresolved and the others go on.
ReadHandoff ==
    /\ build.at = "next" /\ build.todo # {}
    /\ LET m == Latest(build.todo) IN
        build' = IF mail[m].intact
                 THEN [build EXCEPT !.todo = @ \ {m}, !.at = "pending", !.on = m,
                                    !.seen = [status |-> mail[m].status, receipt |-> mail[m].receipt],
                                    !.doubt[m] = MayBeSent(m)]
                 ELSE [build EXCEPT !.todo = @ \ {m}, !.complete = FALSE,
                                    !.entries[m].status = "none"]
    /\ UNCHANGED <<mail, reported, left, ledger, builds>>

\* _verified_retry_receipts: every attempt up to n finished with a receipt,
\* accepted at most at the end; no failure after an uncertain one.
Word(status) == IF status = "failed" THEN "failed_not_sent" ELSE status
Chain(m, n) == [k \in 1..n |-> Word(mail[m].attempts[k].status)]
Proved(m, n) ==
    /\ \A k \in 1..n : mail[m].attempts[k].proof
    /\ \A k \in 1..(n - 1) : mail[m].attempts[k].status # "smtp_accepted"
Conclusive(m, n) ==
    Proved(m, n) /\ (mail[m].attempts[n].status = "failed"
                        => \A k \in 1..n : mail[m].attempts[k].status # "uncertain")

EnterInto(e) ==
    [build EXCEPT !.at = "next", !.on = 0, !.seen = Unsent, !.entries[build.on] = e]
Unresolved == [build EXCEPT !.at = "next", !.on = 0, !.seen = Unsent, !.complete = FALSE]

\* _pending_retry: an attempt under way, other than the first, reserves the
\* records whatever the receipts say.
LookPending ==
    /\ build.at = "pending"
    /\ LET m == build.on
           n == Len(mail[m].attempts)
           active == n > 1 /\ last(m).status \in {"queued", "sending"} IN
        build' = IF ~active THEN [build EXCEPT !.at = "receipt"]
                 ELSE IF ~Proved(m, n - 1) \/ mail[m].attempts[n - 1].status = "smtp_accepted"
                 THEN Unresolved
                 ELSE EnterInto([status |-> "pending", receipt |-> 0, chain |-> Chain(m, n - 1)])
    /\ UNCHANGED <<mail, reported, left, ledger, builds>>

\* The receipt the handoff named when it was read, bound to handoff, attempt
\* and chain as they are now.
TakesLatest(m, seen) ==
    LET done == {k \in DOMAIN mail[m].attempts : mail[m].attempts[k].proof} IN
    IF done = {} THEN [NoEntry EXCEPT !.status = "unresolved"]
    ELSE [status |-> Word(mail[m].attempts[Latest(done)].status),
          receipt |-> Latest(done), chain |-> Chain(m, Latest(done))]

ReceiptEntry(m, seen) ==
    LET n == seen.receipt IN
    IF n = 0 THEN [NoEntry EXCEPT !.status = "unresolved"]
    ELSE IF mail[m].attempts[n].status = seen.status /\ Conclusive(m, n)
    THEN [status |-> Word(seen.status), receipt |-> n, chain |-> Chain(m, n)]
    ELSE NoEntry

LookReceipt ==
    /\ build.at = "receipt"
    /\ LET e == ReceiptEntry(build.on, build.seen) IN
        build' = IF e = NoEntry THEN Unresolved ELSE EnterInto(e)
    /\ UNCHANGED <<mail, reported, left, ledger, builds>>

\* attach_ledger_reconciliation, for one message of the ledger and its entry
\* (matching_delivery_entry): what to change it to, or nothing.
Earlier(e, msg, k) == k < Len(e.chain) /\ msg.receipt = k /\ e.chain[k] = msg.status
ReplacesFailedOnly(e, msg, k) == Earlier(e, msg, k) /\ e.chain[k] = "failed_not_sent"

Replaces(e, msg, k) ==
    /\ Earlier(e, msg, k)
    /\ e.chain[k] = "failed_not_sent"
           \/ (e.chain[k] = "uncertain" /\ e.status = "smtp_accepted")

Fresh == {"pending", "prepared", "unresolved"}
Offer(e, msg) ==
    IF e.status = "pending"
    THEN IF \/ \E k \in DOMAIN e.chain : msg.receipt = k /\ e.chain[k] = msg.status
               /\ msg.status \in {"failed_not_sent", "uncertain"}
            \/ msg.receipt = 0 /\ msg.status \in Fresh \ {"pending"}
         THEN [e EXCEPT !.chain = <<>>] ELSE NoEntry
    ELSE IF msg.receipt = e.receipt /\ msg.status = e.status THEN NoEntry
    ELSE IF \/ msg.receipt \in {0, e.receipt} /\ msg.status \in Fresh \cup {e.status}
            \/ \E k \in DOMAIN e.chain : Replaces(e, msg, k)
         THEN [e EXCEPT !.chain = <<>>] ELSE NoEntry

\* The end, within the byte limit (_bounded_history): entries may have to go,
\* and with them the suggestions.
BuildEnds ==
    /\ build.at = "next" /\ build.todo = {}
    /\ \/ build' = [build EXCEPT !.at = "done", !.offers = [m \in Mails |->
                        IF /\ ledger[m].status # "none"
                           /\ build.entries[m].status \notin {"none", "unresolved"}
                        THEN Offer(build.entries[m], ledger[m]) ELSE NoEntry]]
       \/ \E kept \in Mails \cup {0} :
            build' = [build EXCEPT !.at = "done", !.complete = FALSE,
                        !.entries = [m \in Mails |-> IF m > kept THEN build.entries[m] ELSE NoEntry]]
    /\ UNCHANGED <<mail, reported, left, ledger, builds>>

\* The worker takes a suggestion over into its ledger, or does not.
Adopt(m) ==
    /\ build.at = "done" /\ build.offers[m] # NoEntry
    /\ ledger' = [ledger EXCEPT ![m] = [status |-> build.offers[m].status,
                                        receipt |-> build.offers[m].receipt]]
    /\ build' = [build EXCEPT !.offers[m] = NoEntry]
    /\ UNCHANGED <<mail, reported, left, builds>>

HistNext ==
    \/ \E m \in Mails :
        ComposeMail(m) \/ EnqueueMail(m) \/ ClaimMail(m) \/ FinishMail(m) \/ RetryMail(m) \/ CancelQueued(m)
            \/ Spoil(m) \/ Adopt(m)
    \/ BuildBegins \/ ReadHandoff \/ LookPending \/ LookReceipt \/ BuildEnds

HistSpec == HistInit /\ [][HistNext]_histVars

-----------------------------------------------------------------------------
\* Nothing the worker is told, or notes on that ground, calls a mail not sent
\* that might have been: when the handoff was read no attempt had reached a
\* recipient or was uncertain, however retries, cancellations and lost files
\* interleaved with the reading; and what is called accepted is.
NoFalseFailure ==
    \A m \in Mails :
        /\ build.entries[m].status = "failed_not_sent" => ~build.doubt[m]
        /\ ledger[m].status = "failed_not_sent" =>
            \A k \in 1..ledger[m].receipt : mail[m].attempts[k].status = "failed"
        /\ "smtp_accepted" \in {build.entries[m].status, ledger[m].status} =>
            \E k \in DOMAIN mail[m].attempts : mail[m].attempts[k].status = "smtp_accepted"

\* A worker that follows the suggestions, or skips some of them, is never in a
\* position in which an acceptance that the history shows can no longer enter
\* its ledger as a conflict with what it was told before.
AcceptanceIsLearned ==
    \A m \in Mails :
        build.at = "done" /\ build.complete /\ build.entries[m].status = "smtp_accepted"
            => "smtp_accepted" \in {ledger[m].status, build.offers[m].status}

\* A record that was left out of a message reached the recipients of an earlier
\* one with the same content, under its own or a declared identity.
LeftOutWasSent ==
    \A x \in left : \E m \in Mails :
        /\ m # x[2] /\ mail[m].reached
        /\ Equivalents(x[1]) \cap mail[m].records # {}
=============================================================================
