----------------------------- MODULE Acquisition -----------------------------
(***************************************************************************)
(* The files a research phase may use.  During the phase a thread of the   *)
(* application (ResearchAcquisitionSession) fetches what the worker asks   *)
(* for by files of requests, keeps the original and gives the worker a     *)
(* copy; afterwards ArtifactAcquirer takes the artifacts of the result     *)
(* into the message, from the originals, from the worker's own files or by *)
(* fetches of its own, within the same limits of files and bytes; a later  *)
(* run that only composes takes the evidence over (acquisition_evidence).  *)
(*                                                                         *)
(* A fetch is a killable child process.  A body is a number of bytes and   *)
(* whether it is what the source holds ("good"); a file is also "changed"  *)
(* when somebody outside the application rewrote it.  URLs, headers and    *)
(* MIME types are classified, not parsed; reason codes are grouped.        *)
(***************************************************************************)
EXTENDS Integers, Sequences, FiniteSets

CONSTANTS
    Sources,        \* descriptors a worker may name
    Kind,           \* Sources -> {"pdf", "image"}
    Size,           \* the size a PDF's descriptor declares
    Document,       \* Sources -> what the descriptor identifies
    MaxAsks,        \* bound on the requests a worker makes
    Artifacts,      \* lists of artifacts a research result may declare
    MaxFiles, MaxTotal, MaxImage, MaxMessage,   \* settings.media, delivery
    MetadataBytes   \* the most a metadata answer may hold

AskNames == 1..MaxAsks

ASSUME AcquisitionAssumption ==
    /\ Sources \cap {"none", "local", "malformed", "served", "ledger"} = {}
    /\ MaxAsks \in Nat
    /\ Kind \in [Sources -> {"pdf", "image"}]
    /\ Size \in [Sources -> Nat \ {0}]
    /\ {MaxFiles, MaxTotal, MaxImage} \subseteq Nat \ {0}
    /\ {MaxMessage, MetadataBytes} \subseteq Nat
    /\ \A list \in Artifacts : list \in Seq({list[i] : i \in DOMAIN list})

VARIABLES
    session,    \* the fields of ResearchAcquisitionSession
    serve,      \* its thread: where it is, and the request it works on
    channel,    \* .researchops-acquire: the requests
    receipts,   \* _records, by descriptor
    files,      \* the originals, the worker's copies, the ledger on disk
    fetch,      \* the child process, for whom, and its allowance
    bytes,      \* consumed_bytes, and what really moved
    import,     \* ArtifactAcquirer.acquire
    authority   \* what the cancellation check would say

acqVars == <<session, serve, channel, receipts, files, fetch, bytes, import, authority>>

NoReceipt == [status |-> "none"]
Receipt(status, reason, size, kept) ==
    [status |-> status, reason |-> reason, size |-> size, kept |-> kept]
Idle == [for |-> "none", source |-> "none", allowance |-> 0]
NewImport ==
    [at |-> "idle", artifacts |-> <<>>, entries |-> <<>>, total |-> 0, count |-> 0,
     message |-> 0, hold |-> FALSE, locals |-> "none",
     retained |-> "no", evidence |-> {}]

AcqInit ==
    /\ session = [started |-> FALSE, state |-> "none", stop |-> FALSE, closing |-> "no",
                  clean |-> TRUE, failure |-> "none", count |-> 0, late |-> FALSE]
    /\ serve = [at |-> "none", source |-> "none", body |-> 0]
    /\ channel = [n \in AskNames |-> "none"]
    /\ receipts = [s \in Sources |-> NoReceipt]
    /\ files = [original |-> [s \in Sources |-> "none"],
                copy |-> [s \in Sources |-> "none"], ledger |-> "none"]
    /\ fetch = Idle
    /\ bytes = [consumed |-> 0, moved |-> 0, probes |-> 0, stuck |-> 0]
    /\ import = NewImport
    /\ authority = "held"

ThreadEndedOrIdle == serve.at \in {"none", "dead", "fetch"}

ThreadEnded == serve.at \in {"none", "dead"}

closed == session.closing \in {"joined", "done"}
Stopping == session.stop \/ authority # "held"
\* _cancelled: a check that raises ends the session with a reason of its own.
Heeds(s) ==
    IF ~s.stop /\ authority = "lost"
    THEN [s EXCEPT !.stop = TRUE, !.failure = "authorization_lost"] ELSE s

-----------------------------------------------------------------------------
\* The world: the run is cancelled or its fence lost; a file of the worker's
\* directory, or even of the protected one, is rewritten by somebody else.
Untouched ==
    /\ \A s \in Sources : files.copy[s] # "changed" /\ files.original[s] # "changed"
    /\ files.ledger # "changed" /\ import.locals # "changed"

LoseAuthority ==
    /\ authority = "held" /\ authority' \in {"cancelled", "lost"}
    /\ UNCHANGED <<session, serve, channel, receipts, files, fetch, bytes, import>>

Overwrite ==
    /\ Untouched    \* bound: one file
    /\ \/ \E s \in Sources : files.copy[s] = "good" /\ files' = [files EXCEPT !.copy[s] = "changed"]
       \/ \E s \in Sources : files.original[s] = "good"
                                /\ files' = [files EXCEPT !.original[s] = "changed"]
       \/ files.ledger = "good" /\ files' = [files EXCEPT !.ledger = "changed"]
    /\ UNCHANGED <<session, serve, channel, receipts, fetch, bytes, import, authority>>

RewriteLocal ==
    /\ Untouched /\ import.at = "loop" /\ import.locals = "good"
    /\ import' = [import EXCEPT !.locals = "changed"]
    /\ UNCHANGED <<session, serve, channel, receipts, files, fetch, bytes, authority>>

\* acquire_file: the worker publishes a request while session.json accepts
\* them (after a stop nobody takes it), then waits, which changes nothing here;
\* a worker may also write a request by hand.
Ask ==
    /\ session.state = "accepting" /\ ~session.stop
    /\ \E n \in AskNames, s \in Sources \cup {"malformed"} :
        /\ channel[n] = "none" /\ \A m \in 1..(n - 1) : channel[m] # "none"
        /\ channel' = [channel EXCEPT ![n] = s]
    /\ UNCHANGED <<session, serve, receipts, files, fetch, bytes, import, authority>>

-----------------------------------------------------------------------------
\* One fetch, as the set of its outcomes: the code of an error or "body"; the
\* bytes of the body that crossed the network; the count of them the caller is
\* told, -1 for none; what the body is worth.
Outcome(code, moved, told) == [code |-> code, moved |-> moved, told |-> told]

\* _Reader.body: a declared or chunked length is checked before the bytes are
\* read; without one the reader asks for one byte more than allowed.
ReadBody(max) ==
    {Outcome("body", n, n) : n \in 0..max}
        \cup {Outcome("incomplete", n, n) : n \in 0..max}
        \cup {Outcome("too_large", 0, 0), Outcome("too_large", max + 1, max + 1)}

\* _target, _resolve, _connect, _connect_proxy: a URL, name, address, peer or
\* certificate that is not acceptable ends the fetch before any body.
Refused == {Outcome("refused", 0, 0)}

\* _fetch_direct and _worker_main: redirects are followed by the same rules; the
\* deadline may pass and the socket may fail in the middle of a body, and the
\* count reported then is of no use.
ChildOutcomes(max) ==
    ReadBody(max)
        \cup Refused
        \cup {Outcome("timeout", n, 0) : n \in 0..(max + 1)}
        \cup {Outcome("transport", n, 0) : n \in 0..(max + 1)}
        \cup {Outcome("worker_failed", n, -1) : n \in 0..(max + 1)}

\* _direct of the PDF service: first the document's metadata, whose bytes are
\* reported when its transfer fails and forgotten when it does not.
MediaOutcomes(max) ==
    ChildOutcomes(max)
        \cup {Outcome("incomplete", 0, n) : n \in 0..MetadataBytes}
        \cup {Outcome("metadata", 0, -1)}

\* fetch of either class, with _communicate and _stop_worker: what the child
\* said, or the child was killed, whatever it had moved; a child that does
\* not end after the kill is left behind.
Killed(max, cancelled) ==
    {Outcome(code, n, -1) : n \in 0..(max + 1),
        code \in {"killed_timeout", "cleanup_failed"} \cup (IF cancelled THEN {"cancelled"} ELSE {})}
FetchOutcomes(kind, max, cancelled) ==
    Killed(max, cancelled)
        \cup (IF kind = "pdf" THEN MediaOutcomes(max) ELSE ChildOutcomes(max))

\* What is charged for a fetch that failed: what was reported, or the whole
\* allowance when that may be less than what moved.
UnsureMoves(o) ==
    o.code # "refused"
        /\ (o.told < 0 \/ o.code \in {"timeout", "killed_timeout", "cancelled",
                                      "worker_failed", "cleanup_failed", "transport"})
ChargeReported(o, allowance) == IF o.told < 0 THEN 0 ELSE o.told

Charge(o, allowance) ==
    LET told == IF o.told < 0 THEN 0 ELSE o.told
        kept == IF UnsureMoves(o) THEN allowance ELSE 0
    IN IF told > kept THEN told ELSE kept

\* The ghost of a transfer: the bytes, the bytes beyond the allowance, and the
\* bytes a child that was left behind may still move.
Moves(o, allowance) ==
    [bytes EXCEPT !.moved = @ + o.moved,
                  !.probes = @ + (IF o.moved > allowance THEN 1 ELSE 0),
                  !.stuck = IF o.code = "cleanup_failed" THEN allowance + 1 - o.moved ELSE @]

\* A child that outlived its kill goes on.
StrayTransfer ==
    /\ bytes.stuck > 0
    /\ bytes' = [bytes EXCEPT !.stuck = 0, !.moved = @ + bytes.stuck, !.probes = @ + 1]
    /\ UNCHANGED <<session, serve, channel, receipts, files, fetch, import, authority>>

-----------------------------------------------------------------------------
\* ResearchAcquisitionSession

\* Done with a request: its response is published, unless the session is
\* stopped, and the thread looks for the next.
Scanning == [at |-> "scan", source |-> "none", body |-> 0]

Start ==
    /\ ~session.started /\ session.closing = "no" /\ import.at = "idle"
    /\ session' = [session EXCEPT !.started = TRUE, !.state = "accepting", !.clean = FALSE]
    /\ serve' = Scanning
    /\ UNCHANGED <<channel, receipts, files, fetch, bytes, import, authority>>

\* The end of _serve: the session is published as closed on the way out.
ServeEnds(s, failure) ==
    /\ session' = [s EXCEPT !.state = "closed",
                            !.failure = IF failure = "none" THEN @ ELSE failure,
                            !.stop = @ \/ failure # "none"]
    /\ serve' = [serve EXCEPT !.at = "dead"]

ServeStops ==
    /\ serve.at = "scan" /\ Stopping
    /\ ServeEnds(Heeds(session), "none")
    /\ UNCHANGED <<channel, receipts, files, fetch, bytes, import, authority>>

\* The worker put something else among the requests, or too many of them.
ServeUnsafe ==
    /\ serve.at = "scan" /\ ~Stopping
    /\ ServeEnds(session, "unsafe")
    /\ UNCHANGED <<channel, receipts, files, fetch, bytes, import, authority>>

Take(n) ==
    /\ serve.at = "scan" /\ ~Stopping
    /\ channel[n] \notin {"none", "served"}
    /\ channel' = [channel EXCEPT ![n] = "served"]

\* _process_request: a request that cannot be read as one is answered so.
ServeMalformed ==
    /\ \E n \in AskNames :
        /\ Take(n) /\ channel[n] = "malformed"
    /\ UNCHANGED <<session, serve, receipts, files, fetch, bytes, import, authority>>

\* _normalized: one descriptor per document, or the channel is at an end.
Contradicts(s) ==
    \E t \in Sources : t # s /\ Document[t] = Document[s] /\ receipts[t] # NoReceipt
\* _verify_copy and _read_original
Intact(s) == files.copy[s] = "good" /\ files.original[s] = "good"

ServeContradiction ==
    /\ \E n \in AskNames :
        /\ Take(n) /\ channel[n] \in Sources
        /\ LET s == channel[n] IN
            Contradicts(s) \/ (receipts[s].status = "available" /\ ~Intact(s))
    /\ ServeEnds(session, "unsafe")
    /\ UNCHANGED <<receipts, files, fetch, bytes, import, authority>>

\* _acquire of what has a receipt: the same receipt again.
ServeKnown ==
    /\ \E n \in AskNames :
        /\ Take(n) /\ channel[n] \in Sources
        /\ LET s == channel[n] IN
            /\ receipts[s] # NoReceipt /\ ~Contradicts(s)
            /\ receipts[s].status = "available" => Intact(s)
    /\ UNCHANGED <<session, serve, receipts, files, fetch, bytes, import, authority>>

\* The allowance of a fetch: a PDF's declared size, an image's limit within
\* what is left of the budget.
Reserve(s, spent) ==
    IF Kind[s] = "pdf" THEN Size[s]
    ELSE IF MaxTotal - spent < MaxImage THEN MaxTotal - spent ELSE MaxImage
Affordable(s, spent) ==
    MaxTotal - spent >= 1 /\ (Kind[s] = "pdf" => Size[s] <= MaxTotal - spent)

\* _acquire of something new, up to the fetch: a receipt that says it failed,
\* a count, and the checks; a missing provider, host list or the end of the
\* phase's time refuses too.
ServeNew ==
    /\ \E n \in AskNames :
        /\ Take(n) /\ channel[n] \in Sources
        /\ LET s == channel[n]
               allowed == session.count < MaxFiles /\ Affordable(s, bytes.consumed) IN
            /\ receipts[s] = NoReceipt /\ ~Contradicts(s)
            /\ \/ /\ allowed
                  /\ fetch' = [for |-> "session", source |-> s,
                               allowance |-> Reserve(s, bytes.consumed)]
                  /\ serve' = [serve EXCEPT !.at = "fetch", !.source = s]
                  /\ receipts' = [receipts EXCEPT ![s] = Receipt("failed", "interrupted", 0, FALSE)]
               \/ /\ fetch' = fetch
                  /\ serve' = serve
                  /\ receipts' = [receipts EXCEPT ![s] =
                        Receipt("failed", IF allowed THEN "unavailable" ELSE "limit", 0, FALSE)]
    /\ session' = [session EXCEPT !.count = @ + 1]
    /\ UNCHANGED <<files, bytes, import, authority>>

\* The fetch raised.  Once the session is closed nothing is written any more.
FetchFails ==
    /\ serve.at = "fetch"
    /\ LET s == fetch.source IN
       \E o \in FetchOutcomes(Kind[s], fetch.allowance, Stopping) :
        /\ o.code # "body"
        /\ LET s2 == IF o.code = "cancelled" THEN Heeds(session) ELSE session
               left == o.code = "cleanup_failed" IN
           IF closed
           THEN /\ bytes' = Moves(o, fetch.allowance)
                /\ session' = s2 /\ receipts' = receipts
           ELSE /\ bytes' = [Moves(o, fetch.allowance)
                                EXCEPT !.consumed = @ + Charge(o, fetch.allowance)]
                /\ receipts' = [receipts EXCEPT ![s].reason = "fetch"]
                /\ session' = IF left THEN [s2 EXCEPT !.stop = TRUE, !.failure = "stray"] ELSE s2
    /\ fetch' = Idle
    /\ serve' = Scanning
    /\ UNCHANGED <<channel, files, import, authority>>

\* The fetch returned: the body is charged, then judged.
FetchReturns ==
    /\ serve.at = "fetch"
    /\ \E o \in FetchOutcomes(Kind[fetch.source], fetch.allowance, Stopping), good \in BOOLEAN :
        /\ o.code = "body"
        /\ IF closed
           THEN /\ bytes' = Moves(o, fetch.allowance)
                /\ serve' = Scanning
           ELSE /\ bytes' = [Moves(o, fetch.allowance) EXCEPT !.consumed = @ + o.moved]
                /\ serve' = [serve EXCEPT !.at = IF good THEN "store" ELSE "judge", !.body = o.moved]
    /\ fetch' = Idle
    /\ UNCHANGED <<session, channel, receipts, files, import, authority>>

\* Cancellation, status, MIME type, hash, size and structure.
Rejected ==
    /\ \/ serve.at = "judge"
       \/ serve.at = "store" /\ Stopping
       \/ serve.at = "store" /\ serve.body = 0
       \/ serve.at = "store" /\ Kind[serve.source] = "pdf" /\ serve.body # Size[serve.source]
    /\ receipts' = IF closed THEN receipts
                   ELSE [receipts EXCEPT ![serve.source].reason = "rejected"]
    /\ session' = Heeds(session)
    /\ serve' = Scanning
    /\ UNCHANGED <<channel, files, fetch, bytes, import, authority>>

\* Under the lock, unless the session is stopped: original, then copy, then
\* the receipt; either write may fail, the second after the receipt has a path.
Store ==
    /\ serve.at = "store" /\ ~session.stop /\ ~closed /\ serve.body > 0
    /\ Kind[serve.source] = "pdf" => serve.body = Size[serve.source]
    /\ LET s == serve.source IN
        \/ /\ files' = [files EXCEPT !.original[s] = "good", !.copy[s] = "good"]
           /\ receipts' = [receipts EXCEPT ![s] = Receipt("available", "available", serve.body, TRUE)]
        \/ /\ \E kept \in BOOLEAN :
                /\ files' = IF kept THEN [files EXCEPT !.original[s] = "good"] ELSE files
                /\ receipts' = [receipts EXCEPT ![s] = Receipt("failed", "write", serve.body, kept)]
    /\ serve' = Scanning
    /\ UNCHANGED <<session, channel, fetch, bytes, import, authority>>

-----------------------------------------------------------------------------
\* close, in the thread of the runner: stop, wait a few seconds, look.
CloseBegin ==
    /\ session.closing = "no" /\ import.at = "idle"
    /\ session' = [session EXCEPT !.stop = TRUE, !.closing = "joining"]
    /\ UNCHANGED <<serve, channel, receipts, files, fetch, bytes, import, authority>>

CloseJoined ==
    /\ session.closing = "joining"
    /\ session' = [session EXCEPT !.closing = "joined", !.late = ~ThreadEnded]
    /\ UNCHANGED <<serve, channel, receipts, files, fetch, bytes, import, authority>>

CloseLooks ==
    /\ session.closing = "joined"
    /\ LET clean == ThreadEnded /\ session.failure # "stray"
           spoiled == \E s \in Sources : receipts[s].status = "available" /\ ~Intact(s) IN
        session' = [session EXCEPT !.closing = "done", !.clean = clean,
                        !.state = IF session.started THEN "closed" ELSE @,
                        !.failure = IF ~clean THEN "cleanup" ELSE IF spoiled THEN "changed" ELSE @]
    /\ files' = IF session.started THEN [files EXCEPT !.ledger = "good"] ELSE files
    /\ UNCHANGED <<serve, channel, receipts, fetch, bytes, import, authority>>

\* raise_if_failed, and the session's own word for its cleanup.
Trusted == session.closing = "done" /\ session.clean /\ session.failure = "none"

-----------------------------------------------------------------------------
\* ArtifactAcquirer.acquire

\* Everything that is decided before the network is used: the session's
\* verdict and its ledger, every descriptor, the counts, the local files.  A
\* list in which two artifacts contradict each other is refused as a whole.
Locals(list) == {i \in DOMAIN list : list[i].from = "local"}
Sound(list) ==
    \A i \in DOMAIN list :
        /\ list[i].from \in Sources \cup {"local"}
        /\ list[i].from \in Sources => ~Contradicts(list[i].from)
LocalBytes(list) == Cardinality(Locals(list))      \* each of one byte
Derivable(list) ==
    \A i \in DOMAIN list : list[i].derived # "none" =>
        /\ list[i].derived \in Sources /\ receipts[list[i].derived].status = "available"
        /\ files.original[list[i].derived] = "good"
Admissible(list) ==
    /\ Trusted /\ (session.started => files.ledger = "good")
    /\ Sound(list) /\ Derivable(list) /\ Len(list) <= MaxFiles
    /\ bytes.consumed + LocalBytes(list) <= MaxTotal
    /\ session.count + Cardinality(Locals(list)) <= MaxFiles

ImportBegins ==
    /\ import.at = "idle" /\ session.closing = "done"
    /\ \E list \in Artifacts :
        import' = IF Admissible(list)
                  THEN [import EXCEPT !.at = "loop", !.artifacts = list, !.locals = "good",
                            !.total = bytes.consumed + LocalBytes(list),
                            !.count = session.count + Cardinality(Locals(list))]
                  ELSE [import EXCEPT !.at = "refused"]
    /\ UNCHANGED <<session, serve, channel, receipts, files, fetch, bytes, authority>>

here == Len(import.entries) + 1
artifact == import.artifacts[here]
Working == import.at = "loop" /\ here <= Len(import.artifacts)
Entry(status, content) == [status |-> status, content |-> content, from |-> artifact.from]
Enter(status, content) == [import EXCEPT !.entries = Append(@, Entry(status, content))]
\* A failure of a wanted artifact may hold the message back.
Lost(status) ==
    [Enter(status, "none") EXCEPT !.hold = @ \/ (artifact.hold /\ artifact.wanted)]

ImportStops ==
    /\ Working /\ authority # "held" /\ (artifact.from \in Sources => artifact.wanted)
    /\ import' = [Lost("failed") EXCEPT !.at = "refused"]
    /\ UNCHANGED <<session, serve, channel, receipts, files, fetch, bytes, authority>>

\* Not among the records that will be reported: not even fetched.
ImportUnwanted ==
    /\ Working /\ artifact.from \in Sources /\ ~artifact.wanted
    /\ import' = Enter("excluded", "none")
    /\ UNCHANGED <<session, serve, channel, receipts, files, fetch, bytes, authority>>

\* Into the message, if it still fits.
Attach(i, size, content) ==
    IF i.message + size + 1 > MaxMessage
    THEN [i EXCEPT !.entries = Append(@, Entry("excluded", "none")),
                   !.hold = @ \/ (artifact.hold /\ artifact.wanted)]
    ELSE [i EXCEPT !.entries = Append(@, Entry("available", content)), !.message = @ + size + 1]

\* The receipt decides, and the original it names is read again; one of another
\* kind, hash or size than the artifact declares has failed.
ReadsOnTrust(s) == files.original[s] # "none"

ReadsOriginal(s) == files.original[s] = "good"

ImportReceipt ==
    /\ Working /\ authority = "held" /\ artifact.from \in Sources /\ artifact.wanted
    /\ LET s == artifact.from IN
        /\ receipts[s] # NoReceipt
        /\ \/ import' = IF receipts[s].status = "failed" THEN Lost("failed")
                        ELSE IF ~ReadsOriginal(s) THEN [Lost("failed") EXCEPT !.at = "refused"]
                        ELSE Attach(import, receipts[s].size, files.original[s])
           \/ receipts[s].status = "available" /\ ReadsOriginal(s) /\ import' = Lost("failed")
    /\ UNCHANGED <<session, serve, channel, receipts, files, fetch, bytes, authority>>

\* The worker's own file, hashed when space was reserved and not touched since,
\* unless it was missing, or is no medium.
ImportLocal ==
    /\ Working /\ authority = "held" /\ artifact.from = "local"
    /\ \/ import' = Lost("failed")
       \/ import' = IF import.locals = "changed" THEN [Lost("failed") EXCEPT !.at = "refused"]
                    ELSE IF ~artifact.wanted THEN Enter("excluded", "none")
                    ELSE Attach(import, 1, "good")
    /\ UNCHANGED <<session, serve, channel, receipts, files, fetch, bytes, authority>>

\* A PDF that would not fit into the message is not even fetched.
TooLong(s) == Kind[s] = "pdf" /\ import.message + Size[s] + 1 > MaxMessage

\* Nothing was asked for during the phase: the acquirer's own fetch.  Without
\* time or a file left the artifact is lost; otherwise it counts, also when the
\* network is off, the provider unknown or the budget too small.
ImportFetches ==
    /\ Working /\ authority = "held" /\ artifact.from \in Sources /\ artifact.wanted
    /\ receipts[artifact.from] = NoReceipt
    /\ LET s == artifact.from
           spend == [import EXCEPT !.count = @ + 1] IN
       \/ import' = Lost("failed") /\ fetch' = fetch
       \/ /\ import.count < MaxFiles
          /\ import' = [Lost("failed") EXCEPT !.count = @ + 1] /\ fetch' = fetch
       \/ /\ import.count < MaxFiles /\ Affordable(s, import.total) /\ TooLong(s)
          /\ import' = [Lost("excluded") EXCEPT !.count = @ + 1] /\ fetch' = fetch
       \/ /\ import.count < MaxFiles /\ Affordable(s, import.total) /\ ~TooLong(s)
          /\ import' = [spend EXCEPT !.at = "fetch"]
          /\ fetch' = [for |-> "import", source |-> s, allowance |-> Reserve(s, import.total)]
    /\ UNCHANGED <<session, serve, channel, receipts, files, bytes, authority>>

Smaller(a, b) == IF a < b THEN a ELSE b
ImportFetchFails ==
    /\ import.at = "fetch"
    /\ \E o \in FetchOutcomes(Kind[fetch.source], fetch.allowance, authority # "held") :
        /\ o.code # "body"
        /\ import' = [Lost("failed")
                        EXCEPT !.at = IF o.code \in {"cancelled", "cleanup_failed"} THEN "refused" ELSE "loop",
                               !.total = @ + Smaller(Charge(o, fetch.allowance), MaxTotal - @)]
        /\ bytes' = Moves(o, fetch.allowance)
    /\ fetch' = Idle
    /\ UNCHANGED <<session, serve, channel, receipts, files, authority>>

ImportFetchReturns ==
    /\ import.at = "fetch"
    /\ \E o \in FetchOutcomes(Kind[fetch.source], fetch.allowance, authority # "held"), good \in BOOLEAN :
        /\ o.code = "body"
        /\ LET spent == [import EXCEPT !.at = "loop", !.total = @ + o.moved]
               right == good /\ o.moved > 0
                            /\ (Kind[fetch.source] = "pdf" => o.moved = Size[fetch.source])
               lost == [spent EXCEPT !.entries = Append(@, Entry("failed", "none")),
                                     !.hold = @ \/ artifact.hold] IN
            import' = IF right /\ authority # "held" THEN [lost EXCEPT !.at = "refused"]
                      ELSE IF right THEN Attach(spent, o.moved, "good") ELSE lost
        /\ bytes' = Moves(o, fetch.allowance)
    /\ fetch' = Idle
    /\ UNCHANGED <<session, serve, channel, receipts, files, authority>>

ImportEnds ==
    /\ import.at = "loop" /\ Len(import.entries) = Len(import.artifacts)
    /\ import' = [import EXCEPT !.at = "done"]
    /\ UNCHANGED <<session, serve, channel, receipts, files, fetch, bytes, authority>>

\* retain_acquisition_evidence, of a later run that only composes: the ledger
\* and every original, exactly as they were bound and indexed, and what each
\* derived artifact rests on, or an error.  What is written is what was read.
Available == {s \in Sources : receipts[s].status = "available"}
References == {import.artifacts[i].derived : i \in DOMAIN import.artifacts} \ {"none"}
Evidence ==
    {[source |-> s, content |-> IF s = "ledger" THEN files.ledger ELSE files.original[s]] :
        s \in Available \cup {"ledger"}}

Retain ==
    /\ import.at = "done" /\ import.retained = "no" /\ session.started
    /\ import' = IF /\ files.ledger = "good"
                    /\ \A s \in Available : ReadsOriginal(s)
                    /\ \A s \in Sources : receipts[s].status = "failed" => ~receipts[s].kept
                    /\ References \subseteq Available
                 THEN [import EXCEPT !.retained = "kept", !.evidence = Evidence]
                 ELSE [import EXCEPT !.retained = "refused"]
    /\ UNCHANGED <<session, serve, channel, receipts, files, fetch, bytes, authority>>

-----------------------------------------------------------------------------
\* Every byte of a body that crossed the network, for whatever fetch and
\* however it ended, has been charged against max_total_bytes, but for the one
\* byte by which a reader without a length looks beyond its allowance (and a
\* fetch that close() no longer waited for): no order of failures, kills and
\* retries of a source moves more than the phase may.
TransferIsCharged ==
    ~session.late =>
        /\ \/ bytes.moved <= bytes.consumed + bytes.probes
           \/ bytes.moved <= import.total - LocalBytes(import.artifacts) + bytes.probes
        /\ bytes.moved <= MaxTotal + bytes.probes

\* Whoever rewrote which file meanwhile: what the message takes from a protected
\* source is the original of a receipt of a session that ended well; and what a
\* later run that only composes took over is the ledger and the original of every
\* available receipt, each as the session left it, with all that the derived
\* artifacts of the message rest on.
AsFetched == {[source |-> s, content |-> "good"] : s \in Available \cup {"ledger"}}
OnlyAuthentic ==
    /\ \A i \in DOMAIN import.entries : import.entries[i].status = "available" =>
        /\ import.entries[i].content = "good"
        /\ Trusted
        /\ import.entries[i].from \in Sources =>
            receipts[import.entries[i].from].status \in {"none", "available"}
    /\ bytes.stuck > 0 /\ ~session.late => import.at = "refused" \/ import.entries = <<>>
    /\ import.retained = "kept" => import.evidence = AsFetched /\ References \subseteq Available

\* Once close() has called the cleanup verified, the session is over: no step
\* of anybody changes a receipt, a charge, the session or the thread's state.
CleanCloseIsQuiet ==
    [][session.closing = "done" /\ session.clean =>
        UNCHANGED <<session, serve, receipts, bytes.consumed>>]_acqVars

AcqFinished ==
    /\ import.at \in {"done", "refused"} /\ ThreadEnded
    /\ UNCHANGED acqVars

AcqNext ==
    \/ LoseAuthority \/ Overwrite \/ RewriteLocal \/ Ask
    \/ StrayTransfer \/ Start \/ ServeStops \/ ServeUnsafe \/ ServeMalformed
    \/ ServeContradiction \/ ServeKnown \/ ServeNew \/ FetchFails \/ FetchReturns
    \/ Rejected \/ Store \/ CloseBegin \/ CloseJoined \/ CloseLooks
    \/ ImportBegins \/ ImportStops \/ ImportUnwanted \/ ImportReceipt \/ ImportLocal
    \/ ImportFetches \/ ImportFetchFails \/ ImportFetchReturns \/ ImportEnds \/ Retain
    \/ AcqFinished

AcqSpec == AcqInit /\ [][AcqNext]_acqVars
=============================================================================
