----------------------------- MODULE ImageBroker -----------------------------
(***************************************************************************)
(* ImageBroker: a thread beside a research invocation that serves the      *)
(* worker's requests for images with the configured engine, and the        *)
(* receipts a composed message may later refer to.  The worker shares its  *)
(* directory with the thread, the run may be cancelled or run out of time, *)
(* and the invocation closes the broker and waits for it for a while only. *)
(*                                                                         *)
(* The content of a file is named by who made it: a request, or the worker.*)
(***************************************************************************)
EXTENDS Integers, Sequences, FiniteSets

CONSTANTS
    ImageEngines,   \* the configured engine is one of them
    ImageNames,     \* file names
    ImageBriefs     \* of each request: its file names

ImageRequests == DOMAIN ImageBriefs

ASSUME ImageAssumption ==
    /\ ImageEngines \subseteq {"codex", "bailian", "opencode", "openrouter"}
    /\ \A q \in ImageRequests : q \in Nat \ {0} /\ ImageBriefs[q] \in Seq(ImageNames)

VARIABLES
    broker,     \* the fields of ImageBroker and where its thread is
    asked,      \* request files, and what the worker's call returned
    answers,    \* response files
    shelf       \* the images under work_dir

imgVars == <<broker, asked, answers, shelf>>

Nothing == 0
Worker == -1

\* Codex makes its files in a directory of the request's own, the other engines
\* copy or write into the worker's directory.
Places == (ImageRequests \cup {0}) \X ImageNames
PlaceOf(q, name) == <<IF broker.engine = "codex" THEN q ELSE 0, name>>

ImgInit ==
    /\ \E engine \in ImageEngines :
        broker = [engine |-> engine, at |-> "idle", stop |-> FALSE, cancelled |-> FALSE,
                  session |-> "accepting", closing |-> "open", clean |-> FALSE,
                  list |-> {}, processed |-> {}, req |-> 0, todo |-> <<>>, images |-> <<>>,
                  status |-> "none", jobs |-> {}, excused |-> {}]
    /\ asked = [q \in ImageRequests |-> "no"]
    /\ answers = [q \in ImageRequests |-> "none"]
    /\ shelf = [p \in Places |-> Nothing]

-----------------------------------------------------------------------------
\* The worker's side: generate_images.

\* A request is put down only while the session says it accepts them; the call
\* then waits for the answer, for the session to close, or for its own timeout.
AskImage(q) ==
    /\ asked[q] = "no" /\ \A k \in ImageRequests : k < q => asked[k] # "no"
    /\ asked' = [asked EXCEPT ![q] = IF broker.session = "accepting" THEN "waiting" ELSE "unavailable"]
    /\ UNCHANGED <<broker, answers, shelf>>

AskReturns(q) ==
    /\ asked[q] = "waiting"
    /\ \E r \in ({answers[q]} \ {"none"}) \cup {"timeout"}
            \cup (IF broker.session = "closed" THEN {"closed"} ELSE {}) :
        asked' = [asked EXCEPT ![q] = r]
    /\ UNCHANGED <<broker, answers, shelf>>

\* The worker writes, replaces or removes a file of its directory; once.
Meddle(p) ==
    /\ \A k \in Places : shelf[k] # Worker
    /\ p \in {PlaceOf(q, name) : q \in ImageRequests, name \in ImageNames}
    /\ broker.at \notin {"idle", "dead"}
    /\ shelf' = [shelf EXCEPT ![p] = Worker]
    /\ UNCHANGED <<broker, asked, answers>>

\* cancellation_check, the deadline
LoseTime ==
    /\ ~broker.cancelled
    /\ broker' = [broker EXCEPT !.cancelled = TRUE]
    /\ UNCHANGED <<asked, answers, shelf>>

-----------------------------------------------------------------------------
\* The thread.

Off == broker.stop \/ broker.cancelled      \* cancel_or_stop

\* A listing of the requests; stop is looked at between listings only.
Scan ==
    /\ broker.at = "idle"
    /\ LET list == {q \in ImageRequests : asked[q] # "no" /\ asked[q] # "unavailable"} \ broker.processed IN
        \/ broker.stop /\ broker' = [broker EXCEPT !.at = "dead"]
        \/ ~broker.stop /\ list # {} /\ broker' = [broker EXCEPT !.at = "scan", !.list = list]
    /\ UNCHANGED <<asked, answers, shelf>>

ScanEnds ==
    /\ broker.at = "scan" /\ broker.list = {}
    /\ broker' = [broker EXCEPT !.at = "idle"]
    /\ UNCHANGED <<asked, answers, shelf>>

First == CHOOSE q \in broker.list : \A k \in broker.list : q <= k
WithResult(b, status, images) == [b EXCEPT !.at = "settle", !.status = status, !.todo = <<>>, !.images = images]

\* A file that is gone is left for the next listing, one that is no regular
\* bounded file is done with; a request is handled once.  One that is malformed,
\* comes too late or asks for what the engine does not offer has failed.
TakeImageRequest ==
    /\ broker.at = "scan" /\ broker.list # {}
    /\ LET b == [broker EXCEPT !.list = @ \ {First}, !.req = First, !.processed = @ \cup {First}] IN
        \/ broker' = [broker EXCEPT !.list = @ \ {First}]
        \/ broker' = [broker EXCEPT !.list = @ \ {First}, !.processed = @ \cup {First}]
        \/ broker' = WithResult(b, "failed", <<>>)
        \/ ~Off /\ broker' = [b EXCEPT !.at = "engine", !.todo = ImageBriefs[First], !.images = <<>>]
    /\ UNCHANGED <<asked, answers, shelf>>

\* An engine's call ends without images; what earlier briefs left stays.
EngineFails ==
    /\ broker.at \in {"engine", "written"}
    /\ broker' = WithResult(broker, "failed", <<>>)
    /\ UNCHANGED <<asked, answers, shelf>>

\* Only _openrouter takes back what it wrote when it is told to stop, and
\* without a look at what is there now.
TakeBack ==
    /\ broker.engine = "openrouter" /\ Off /\ broker.at = "engine"
    /\ broker' = WithResult(broker, "failed", <<>>)
    /\ shelf' = [p \in Places |-> IF \E i \in DOMAIN broker.images : broker.images[i].place = p
                                   THEN Nothing ELSE shelf[p]]
    /\ UNCHANGED <<asked, answers>>

\* codex_exec_image: the command fills the request's own directory, is stopped
\* with its group, and each file is read (_image).
CodexReturns ==
    /\ broker.engine = "codex" /\ broker.at = "engine"
    /\ LET q == broker.req
           Mine(p) == p[1] = q /\ \E i \in DOMAIN broker.todo : broker.todo[i] = p[2] IN
        /\ shelf' = [p \in Places |-> IF Mine(p) /\ shelf[p] = Nothing THEN q ELSE shelf[p]]
        /\ broker' = WithResult(broker, "available", [i \in DOMAIN broker.todo |->
                [place |-> <<q, broker.todo[i]>>, hash |-> shelf'[<<q, broker.todo[i]>>]]])
    /\ UNCHANGED <<asked, answers>>

\* _safe_write_image, _copy_verified: one file per brief, never over another.
WriteImage ==
    /\ broker.engine # "codex" /\ broker.at = "engine" /\ broker.todo # <<>> /\ ~Off
    /\ LET p == PlaceOf(broker.req, Head(broker.todo)) IN
        /\ shelf[p] = Nothing
        /\ shelf' = [shelf EXCEPT ![p] = broker.req]
        /\ broker' = [broker EXCEPT !.at = "written"]
    /\ UNCHANGED <<asked, answers>>

\* _image reads back what is there.
ReadImage ==
    /\ broker.at = "written"
    /\ LET p == PlaceOf(broker.req, Head(broker.todo)) IN
        /\ shelf[p] # Nothing
        /\ broker' = [broker EXCEPT !.at = "engine", !.todo = Tail(@),
                            !.images = Append(@, [place |-> p, hash |-> shelf[p]])]
    /\ UNCHANGED <<asked, answers, shelf>>

\* The last brief is done; a model other than the requested one is a failure
\* (EngineFails).
EngineReturns ==
    /\ broker.engine # "codex" /\ broker.at = "engine" /\ broker.todo = <<>>
    /\ broker.engine = "openrouter" => ~Off
    /\ broker' = WithResult(broker, "available", broker.images)
    /\ UNCHANGED <<asked, answers, shelf>>

\* Told to stop meanwhile: the files of the result are removed, each only if it
\* still is what the engine reported.
CleanUp ==
    /\ broker.at = "settle"
    /\ shelf' = [p \in Places |->
            IF Off /\ \E i \in DOMAIN broker.images : broker.images[i] = [place |-> p, hash |-> shelf[p]]
            THEN Nothing ELSE shelf[p]]
    /\ broker' = [broker EXCEPT !.at = "record"]
    /\ UNCHANGED <<asked, answers>>

\* Closed meanwhile: on to the next request, without an answer.
LookAtStop ==
    /\ broker.at = "record"
    /\ broker' = [broker EXCEPT !.at = IF broker.stop THEN "scan" ELSE "decide"]
    /\ UNCHANGED <<asked, answers, shelf>>

\* The receipt comes first, unless a second look finds the job told to stop, then
\* the answer.  An exception, of the ledger file here, ends this listing: the
\* request stays without an answer.
Receipted(b) == [b EXCEPT !.jobs = @ \cup {[req |-> b.req, images |-> b.images]}]

\* Mutant: the ledger file is written first, and a failure to write it is
\* forgiven.
ReceiptsAfterFile ==
    LET good == broker.status = "available" /\ ~Off IN
    {IF good THEN [Receipted(broker) EXCEPT !.at = "respond"] ELSE [broker EXCEPT !.at = "respond"],
     [broker EXCEPT !.at = "respond"]}

Receipts ==
    IF broker.status = "available" /\ ~Off
    THEN {[Receipted(broker) EXCEPT !.at = "respond"], [Receipted(broker) EXCEPT !.at = "idle", !.list = {}]}
    ELSE {[broker EXCEPT !.at = "respond"]}

RecordJob ==
    /\ broker.at = "decide"
    /\ \E b \in Receipts :
        broker' = [b EXCEPT !.excused = IF Off THEN @ \cup {broker.req} ELSE @]
    /\ UNCHANGED <<asked, answers, shelf>>

Respond ==
    /\ broker.at = "respond"
    /\ \/ /\ answers' = [answers EXCEPT ![broker.req] = broker.status]
          /\ broker' = [broker EXCEPT !.at = "scan", !.req = 0, !.images = <<>>, !.status = "none"]
       \/ /\ answers' = answers
          /\ broker' = [broker EXCEPT !.at = "idle", !.list = {}, !.req = 0, !.images = <<>>, !.status = "none"]
    /\ UNCHANGED <<asked, shelf>>

-----------------------------------------------------------------------------
\* close: stop, publish the session as closed (or fail to), wait two seconds.
ImgClose ==
    /\ broker.closing = "open"
    /\ \E session \in {"accepting", "closed"} :
        broker' = [broker EXCEPT !.stop = TRUE, !.closing = "joining", !.session = session]
    /\ UNCHANGED <<asked, answers, shelf>>

ImgJoined ==
    /\ broker.closing = "joining"
    /\ broker' = [broker EXCEPT !.closing = "closed", !.clean = broker.at = "dead"]
    /\ UNCHANGED <<asked, answers, shelf>>

\* The receipts the phase's result carries: snapshot, taken after close().
Snapshot == IF broker.clean THEN broker.jobs ELSE {}

ImgNext ==
    \/ \E q \in ImageRequests : AskImage(q) \/ AskReturns(q)
    \/ \E p \in Places : Meddle(p)
    \/ LoseTime \/ Scan \/ ScanEnds \/ TakeImageRequest \/ EngineFails \/ TakeBack \/ CodexReturns
    \/ WriteImage \/ ReadImage \/ EngineReturns \/ CleanUp \/ LookAtStop \/ RecordJob
    \/ Respond \/ ImgClose \/ ImgJoined

ImgSpec == ImgInit /\ [][ImgNext]_imgVars

-----------------------------------------------------------------------------
\* A worker that was told its images are available finds their receipts in the
\* result of its phase: whatever failed to be written or was cancelled or closed
\* in between, an answer without a receipt comes only from a job that was told
\* to stop while it settled, and a broker that ended in time shows every receipt.
AnswerHasReceipt ==
    \A q \in ImageRequests :
        answers[q] = "available" =>
            \/ q \in broker.excused
            \/ /\ \E j \in broker.jobs : j.req = q
               /\ broker.clean => \E j \in Snapshot : j.req = q
=============================================================================
