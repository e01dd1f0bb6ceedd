--------------------------- MODULE AgentInvocation ---------------------------
(***************************************************************************)
(* One phase of a run handed to an agent: OpenCodeRunner._execute          *)
(* ("opencode") and OpenCodeOutputOnlyRunner._execute ("synthetic"), which *)
(* steer a session of a shared service by control commands;                *)
(* ProductionRunner._execute ("codex", "antigravity"), which runs a        *)
(* command and reads its events; OutputOnlyDevelopmentRunner._execute      *)
(* ("sample", of Antigravity), which reads them afterwards; and            *)
(* IsolatedProcessLauncher.run ("isolated").  The result's                 *)
(* cleanup_verified is what lets the orchestrator release the workspace    *)
(* (RunLifecycle): it must be true of the service, the command's processes *)
(* and the helper threads.                                                 *)
(*                                                                         *)
(* Prompts, permissions, the inventory of MCP servers, usage, logs and     *)
(* exit codes are left out.  A control command runs as one step.           *)
(***************************************************************************)
EXTENDS BoundedProcess, ToolTrace

CONSTANTS
    Runners,    \* the kinds of runner that may be asked
    Budget,     \* OpenCodeTraceBudget.max_events: control commands and messages
    Failures    \* session.get may fail this often in a row

ASSUME InvocationAssumption ==
    /\ Runners \subseteq {"opencode", "synthetic", "codex", "antigravity",
                    "sample", "isolated"}
    /\ Budget \in Nat /\ Failures \in Nat \ {0}

VARIABLES
    runner,
    pc,         \* where _execute is
    local,      \* its local variables and the client's
    result,     \* what it returned
    outside,    \* has the run been cancelled, is the phase's deadline past?
    service,    \* OpenCode: the session, its terminals, requests under way
    turn,       \* Codex, Antigravity: the tools at work, is the turn over?
    collector,  \* what the runner knows of the turn
    helpers     \* the media thread, the image thread, stray commands and fetches

invVars == <<runner, pc, local, result, outside, service, turn, collector,
          helpers, child>>
hosted == runner \in {"opencode", "synthetic"}

NewLocal ==
    [error |-> "none", attempted |-> FALSE, known |-> FALSE, control |-> TRUE,
     budget |-> Budget, failures |-> 0, terminal |-> FALSE,
     interruption |-> "none", session |-> FALSE, trace |-> "none",
     imported |-> FALSE, media |-> "unset", images |-> TRUE]

InvInit ==
    /\ runner \in Runners
    /\ pc = "setup" /\ local = NewLocal
    /\ result = [success |-> FALSE, cleanup |-> FALSE]
    /\ outside = [cancelled |-> FALSE, expired |-> FALSE]
    /\ service = [session |-> "none", terminals |-> FALSE, late |-> "none"]
    /\ turn = [active |-> {}, over |-> FALSE]
    /\ collector = NewCollector
    /\ helpers = [media |-> "absent", images |-> "absent", strays |-> 0,
                  fetching |-> FALSE]
    /\ child = NoChild

-----------------------------------------------------------------------------
\* Once a command is being ended neither makes a difference to it.
Heeded == pc # "done" /\ (hosted \/ child.at \in {"none", "stopped", "running"})

Cancel ==
    /\ Heeded /\ ~outside.cancelled /\ outside' = [outside EXCEPT !.cancelled = TRUE]
    /\ UNCHANGED <<runner, pc, local, result, service, turn, collector, helpers, child>>

Expire ==
    /\ Heeded /\ ~outside.expired /\ outside' = [outside EXCEPT !.expired = TRUE]
    /\ UNCHANGED <<runner, pc, local, result, service, turn, collector, helpers, child>>

\* What a request does once the service has it.
Effect(s, op) ==
    CASE op = "create" /\ s.session = "none" -> [s EXCEPT !.session = "idle"]
      [] op = "prompt" /\ s.session = "idle" -> [s EXCEPT !.session = "working"]
      [] OTHER -> s

\* The session works, opens and closes shells and terminals, and ends by
\* itself or because it was interrupted; a request whose command was killed
\* may still arrive.
SessionActs ==
    /\ \/ /\ service.session = "working"
          /\ \E outcome \in {"succeeded", "failed"} :
                service' = [service EXCEPT !.session = outcome]
       \/ /\ service.session = "working" /\ ~service.terminals
          /\ service' = [service EXCEPT !.terminals = TRUE]
       \/ service.terminals /\ service' = [service EXCEPT !.terminals = FALSE]
       \/ /\ service.late # "none"
          /\ service' = [Effect(service, service.late) EXCEPT !.late = "none"]
    /\ UNCHANGED <<runner, pc, local, result, outside, turn, collector, helpers, child>>

-----------------------------------------------------------------------------
\* The start of _execute: arguments, directories, then the image broker and
\* the acquisition session, as the stage and the settings ask; anything of it
\* may fail, with what was started so far.
Equip(next) ==
    /\ pc = "setup"
    /\ \E media, images \in {"absent", "open"} :
        helpers' = [helpers EXCEPT !.media = media, !.images = images]
    /\ \/ local' = [local EXCEPT !.error = "failed"] /\ pc' = "brokers"
       \/ local' = local /\ pc' = next
    /\ UNCHANGED <<runner, result, outside, service, turn, collector, child>>

\* _phase_guard
Guarded ==
    /\ pc = "setup" /\ hosted /\ (outside.cancelled \/ outside.expired)
    /\ local' = [local EXCEPT !.error = IF outside.cancelled THEN "cancelled" ELSE "timeout"]
    /\ pc' = "brokers"
    /\ UNCHANGED <<runner, result, outside, service, turn, collector, helpers, child>>

SetupSession == runner = "opencode" /\ ~outside.cancelled /\ ~outside.expired /\ Equip("probe")
SetupCommand == runner \in {"codex", "antigravity"} /\ Equip("spawn")
SetupSynthetic ==
    runner = "synthetic" /\ ~outside.cancelled /\ ~outside.expired /\ Equip("probe")
        /\ helpers' = helpers
SetupSample == runner = "sample" /\ Equip("spawn") /\ helpers' = helpers
SetupIsolated ==
    runner = "isolated" /\ Equip("spawn") /\ helpers' = helpers /\ local' = local

-----------------------------------------------------------------------------
\* OpenCodeClient.call and local, as sets of outcomes: the guard refuses; the
\* command runs and fails, is cancelled or runs out of time, the request
\* reaching the service or not, at once or later, its processes accounted for
\* or not; or the answer is there.  Every command that ran is charged to the
\* budget, whatever came of it.
Refusals ==
    {[error |-> e, ran |-> FALSE, reached |-> "no", clean |-> TRUE] :
        e \in (IF outside.cancelled THEN {"cancelled"} ELSE {"check"})
              \cup (IF outside.expired THEN {"timeout"} ELSE {})}
Answers ==
    {[error |-> "none", ran |-> TRUE, reached |-> "now", clean |-> TRUE]}
        \cup [error : {"api", "cancelled", "timeout"}, ran : {TRUE},
              reached : {"no", "now", "later"}, clean : BOOLEAN]

Outcomes(guarded) ==
    IF guarded THEN (IF outside.cancelled \/ outside.expired THEN {} ELSE Answers) \cup Refusals
    ELSE {o \in Answers : o.error # "cancelled"}

ErrorOf(o) == IF o.ran /\ local.budget = 0 THEN "trace" ELSE o.error
Charged(o) ==
    [local EXCEPT !.control = @ /\ o.clean,
                  !.budget = IF o.ran /\ @ > 0 THEN @ - 1 ELSE @]
Reaches(op, o) ==
    /\ service' = CASE o.reached = "now" -> Effect(service, op)
                    [] o.reached = "later" /\ op \in {"create", "prompt"} ->
                            [service EXCEPT !.late = op]
                    [] OTHER -> service
    /\ helpers' = IF o.clean THEN helpers ELSE [helpers EXCEPT !.strays = 1]
\* Cancellation or the deadline may have come while the command ran.
Meanwhile(o) ==
    outside' = [outside EXCEPT !.cancelled = @ \/ o.error = "cancelled",
                               !.expired = @ \/ o.error = "timeout"]

Kept == UNCHANGED <<runner, result, turn, collector, child>>
Class(error) == IF error \in {"cancelled", "timeout"} THEN error ELSE "failed"

\* One control command and nothing else: on to the next, or to the handlers.
\* An answer of the wrong shape is as good as an error.
Ask(at, op, next) ==
    /\ pc = at /\ hosted
    /\ \E o \in Outcomes(TRUE), valid \in BOOLEAN :
        LET error == ErrorOf(o)
            good == error = "none" /\ valid IN
        /\ Reaches(op, o) /\ Meanwhile(o)
        /\ pc' = IF good THEN next ELSE "brokers"
        /\ local' = [Charged(o) EXCEPT !.error = IF good THEN @ ELSE Class(error),
                        !.attempted = @ \/ op = "create",
                        !.known = @ \/ (op = "create" /\ error = "none")]
    /\ Kept

\* version, service status, model.list
Probe == Ask("probe", "probe", IF runner = "opencode" THEN "inventory" ELSE "create")

\* _mcp_inventory: an error of the API is forgiven, in favour of a command
\* whose errors are not; one of the resource catalogue is only noted.
Inventory ==
    /\ pc = "inventory"
    /\ \E o \in Outcomes(TRUE), valid \in BOOLEAN :
        /\ Reaches("mcp", o) /\ Meanwhile(o) /\ local' = Charged(o)
        /\ pc' = IF ErrorOf(o) = "none" /\ valid THEN "catalog" ELSE "fallback"
    /\ Kept
Catalog ==
    /\ pc = "catalog" /\ pc' = "create"
    /\ \E o \in Outcomes(TRUE) : Reaches("mcp", o) /\ Meanwhile(o) /\ local' = Charged(o)
    /\ Kept
Fallback == Ask("fallback", "mcp", "create")

CreateSession == Ask("create", "create", "environment")
SetEnvironment == Ask("environment", "environment", "prompt")
Prompt == Ask("prompt", "prompt", "wait")

\* _wait_terminal: polls until the session has an outcome and is idle; a few
\* failures in a row are forgiven.
Wait ==
    /\ pc = "wait"
    /\ \E o \in Outcomes(TRUE) :
        LET error == ErrorOf(o)
            ended == service.session \in {"succeeded", "failed"}
            raised == \/ error \in {"cancelled", "timeout", "check", "trace"}
                      \/ error = "api" /\ local.failures + 1 >= Failures
        IN
        /\ Reaches("get", o) /\ Meanwhile(o)
        /\ local' = [Charged(o) EXCEPT
                !.failures = IF error = "api" THEN @ + 1 ELSE 0,
                !.error = IF raised THEN Class(error) ELSE @]
        /\ pc' = CASE raised -> IF runner = "opencode" THEN "interrupt" ELSE "brokers"
                   [] error = "none" /\ ended -> "messages"
                   [] OTHER -> "wait"
    /\ Kept

\* _messages and _parse_trace: what the session's messages show of its turn.
\* Messages that cannot be read raise, any others leave a trace.
Messages ==
    /\ pc = "messages"
    /\ \E o \in Outcomes(TRUE), p \in Projections :
        LET error == ErrorOf(o)
            good == error = "none" /\ p.valid IN
        /\ Reaches("messages", o) /\ Meanwhile(o)
        /\ pc' = IF good THEN "resources" ELSE "brokers"
        /\ local' = [Charged(o) EXCEPT
                !.error = IF good THEN @ ELSE Class(error),
                !.trace = CASE ~good -> @
                            [] ParseTrace(service.session, p, runner = "opencode") -> "good"
                            [] OTHER -> "bad"]
    /\ Kept

-----------------------------------------------------------------------------
\* _resource_snapshot: shells, terminals and persistent terminals are listed
\* by three commands; none may fail and none may show anything alive.
Snapshot(o) == ErrorOf(o) = "none" /\ ~service.terminals

\* _cleanup_snapshot, then the checks of the trace and of what it shows.
Resources ==
    /\ pc = "resources"
    /\ \E o \in Outcomes(FALSE), fine \in BOOLEAN :
        /\ Reaches("list", o)
        /\ local' = [Charged(o) EXCEPT
                !.session = Snapshot(o),
                !.error = IF Snapshot(o) /\ fine /\ local.trace = "good" THEN @ ELSE "failed"]
    /\ pc' = IF local'.error = "none" THEN "import" ELSE "brokers"
    /\ UNCHANGED outside /\ Kept

\* _interrupt_and_observe: the interrupt may get lost; the session is then
\* looked at for a while, and its resources listed.
Interrupt ==
    /\ pc = "interrupt"
    /\ \E o \in Outcomes(FALSE) :
        /\ Reaches("interrupt", o) /\ local' = Charged(o)
    /\ pc' = "observe" /\ UNCHANGED outside /\ Kept

Observe ==
    /\ pc = "observe"
    /\ \E o \in Outcomes(FALSE) :
        /\ Reaches("get", o)
        /\ local' = [Charged(o) EXCEPT !.terminal =
                ErrorOf(o) = "none" /\ service.session \in {"succeeded", "failed"}]
    /\ pc' = "listing" /\ UNCHANGED outside /\ Kept

Listing ==
    /\ pc = "listing"
    /\ \E o \in Outcomes(FALSE) :
        /\ Reaches("list", o)
        /\ local' = [Charged(o) EXCEPT !.interruption =
                IF local.terminal /\ Snapshot(o) THEN "verified" ELSE "unverified"]
    /\ pc' = IF local.media = "unset" THEN "brokers" ELSE "partial"
    /\ UNCHANGED outside /\ Kept

-----------------------------------------------------------------------------
\* ProductionRunner._execute: the command is started, its events are fed to
\* the collector as they come, and it is ended; run_bounded.
Process(step) ==
    /\ pc \in {"spawn", "process"} /\ ~hosted /\ step
    /\ UNCHANGED <<runner, local, result, outside, service, helpers>>

Start ==
    /\ pc = "spawn"
    /\ Process(\/ NotSpawned
               \/ runner = "isolated" /\ SpawnStopped
               \/ runner # "isolated" /\ ~outside.cancelled /\ Spawn)
    /\ pc' = "process" /\ UNCHANGED <<turn, collector>>

\* The agent at work: it starts and ends tools, ends its turn, and prints
\* what it does; it may end its turn with tools at work, or die any time.
AgentActs(ev) ==
    /\ pc = "process" /\ runner \in {"codex", "antigravity", "sample"} /\ ~turn.over
    /\ Leader \in child.alive /\ child.at = "running"
    /\ ev.kind = "completed" => ev.tool \in turn.active
    /\ Process(UNCHANGED child) /\ UNCHANGED pc
    /\ collector' = IF collector.error THEN collector ELSE Feed(runner, collector, ev)
    /\ turn' = [active |-> CASE ev.kind = "started" -> turn.active \cup {ev.tool}
                             [] ev.kind = "completed" -> turn.active \ {ev.tool}
                             [] OTHER -> turn.active,
                over |-> ev.kind = "terminal"]

\* Mutant of StopChild: the deadline of the phase is not looked at.
StopChildPatient(reason) ==
    /\ pc = "process" /\ reason # "timeout"
    /\ reason = "cancelled" => outside.cancelled
    /\ reason = "consumer" => runner # "sample" /\ collector.error
    /\ Process(Stop(reason))
    /\ UNCHANGED <<pc, turn, collector>>

StopChild(reason) ==
    /\ pc = "process"
    /\ reason = "cancelled" => outside.cancelled
    /\ reason = "timeout" => outside.expired
    /\ reason = "consumer" => runner # "sample" /\ collector.error
    /\ Process(Stop(reason))
    /\ UNCHANGED <<pc, turn, collector>>

EndChild ==
    /\ pc = "process" /\ Process(Supervise) /\ UNCHANGED <<pc, turn, collector>>

\* close_acquisition, wherever it is called: the session is closed once, and
\* the verdict is its own.  A thread that outlives its join and a fetch that
\* was not reaped are both unverified.
CloseMedia(l) ==
    IF l.media # "unset" THEN local' = l /\ UNCHANGED helpers
    ELSE \E late, fetching \in BOOLEAN :
        /\ helpers.media = "absent" => ~late /\ ~fetching
        /\ helpers' = [helpers EXCEPT !.fetching = fetching,
                !.media = CASE helpers.media = "absent" -> "absent"
                            [] late -> "late" [] OTHER -> "dead"]
        /\ local' = [l EXCEPT !.media = IF late \/ fetching THEN "unverified" ELSE "verified"]

\* After the process: acquisition is closed, the trace finished or kept as
\* far as it goes.
Collect ==
    /\ pc = "process" /\ child.at = "over"
    /\ collector' = FinishTrace(collector)
    /\ pc' = CASE runner = "isolated" -> "verdict" [] runner = "sample" -> "sampled"
               [] OTHER -> "judge"
    /\ CloseMedia([local EXCEPT !.trace = IF Successful(collector') THEN "good" ELSE "bad"])
    /\ UNCHANGED <<runner, result, outside, service, turn, child>>

\* The checks up to the import: process, trace, permission mode, network
\* tools, acquisition.
Judge ==
    /\ pc = "judge"
    /\ \E fine \in BOOLEAN :
        local' = [local EXCEPT !.error =
            IF /\ fine /\ child.exited /\ child.clean
               /\ local.trace = "good" /\ local.media = "verified"
            THEN @ ELSE "failed"]
    /\ pc' = IF local'.error = "none" THEN "import" ELSE "brokers"
    /\ UNCHANGED <<runner, result, outside, service, turn, collector, helpers, child>>

\* OutputOnlyDevelopmentRunner: the output is parsed only if the process
\* ended well, and imported only if its cleanup is verified.
JudgeSample ==
    /\ pc = "sampled"
    /\ \E fine \in BOOLEAN :
        local' = [local EXCEPT
            !.terminal = child.exited /\ local.trace = "good",
            !.error = IF fine /\ child.exited /\ child.clean /\ local.trace = "good"
                      THEN @ ELSE "failed"]
    /\ pc' = IF local'.error = "none" THEN "import" ELSE "brokers"
    /\ UNCHANGED <<runner, result, outside, service, turn, collector, helpers, child>>

-----------------------------------------------------------------------------
\* parse_response_transport, _resolve_submission: the answer must be the
\* envelope submit_result printed, and the file it names still hold what it
\* held then.
Resolved(answer, file) == answer = "envelope" /\ file = "as submitted"

\* _import: prepare_result accepts the document, paths and sizes are in
\* bounds, the run is not cancelled; all outputs are copied or none count.
Imported(good) ==
    [local EXCEPT !.imported = good, !.error = IF good THEN @ ELSE "failed"]
Submission == [answer : {"envelope", "malformed"}, file : {"as submitted", "altered", "unsafe"},
               accepted : BOOLEAN]

\* OpenCode closes the acquisition session after the import, and before the
\* outputs count.
ImportSession ==
    /\ pc = "import" /\ runner = "opencode" /\ pc' = "brokers"
    /\ \E sub \in Submission :
        IF Resolved(sub.answer, sub.file) /\ sub.accepted
        THEN CloseMedia(Imported(TRUE))
        ELSE local' = Imported(FALSE) /\ UNCHANGED helpers
    /\ UNCHANGED <<runner, result, outside, service, turn, collector, child>>

Import ==
    /\ pc = "import" /\ runner # "opencode" /\ pc' = "brokers"
    /\ \E sub \in Submission :
        local' = Imported(Resolved(sub.answer, sub.file) /\ sub.accepted)
    /\ UNCHANGED <<runner, result, outside, service, turn, collector, helpers, child>>

\* ImageBroker.close, then close_acquisition; either, unverified, is an error.
CloseHelpers ==
    \E late \in IF helpers.images = "absent" THEN {FALSE} ELSE BOOLEAN,
       slow, fetching \in IF local.media # "unset" \/ helpers.media = "absent"
                          THEN {FALSE} ELSE BOOLEAN :
        LET media == CASE local.media # "unset" -> local.media
                       [] slow \/ fetching -> "unverified"
                       [] OTHER -> "verified"
        IN
        /\ local' = [local EXCEPT !.images = ~late, !.media = media,
                !.error = IF @ = "none" /\ (late \/ media = "unverified") THEN "failed" ELSE @]
        /\ helpers' = [helpers EXCEPT !.fetching = @ \/ fetching,
                !.images = IF @ = "absent" THEN @ ELSE IF late THEN "late" ELSE "dead",
                !.media = CASE local.media # "unset" \/ @ = "absent" -> @
                            [] slow -> "late" [] OTHER -> "dead"]

\* The handlers and finally.  A session known and in error is interrupted, if
\* it was not yet.
FinallySession ==
    /\ pc = "brokers" /\ hosted /\ CloseHelpers
    /\ pc' = IF local.known /\ local.interruption = "none" /\ local'.error # "none"
             THEN "interrupt" ELSE "partial"
    /\ UNCHANGED <<runner, result, outside, service, turn, collector, child>>

FinallyCommand ==
    /\ pc = "brokers" /\ ~hosted /\ CloseHelpers /\ pc' = "verdict"
    /\ UNCHANGED <<runner, result, outside, service, turn, collector, child>>

\* _partial_message_diagnostics: one more command, for the log.
Partial ==
    /\ pc = "partial" /\ pc' = "verdict"
    /\ IF local.trace = "none" /\ local.known
       THEN \E o \in Outcomes(FALSE) : Reaches("messages", o) /\ local' = Charged(o)
       ELSE UNCHANGED <<local, service, helpers>>
    /\ UNCHANGED outside /\ Kept

-----------------------------------------------------------------------------
Return(cleanup, success) ==
    /\ pc = "verdict" /\ pc' = "done"
    /\ result' = [cleanup |-> cleanup, success |-> success]
    /\ UNCHANGED <<runner, local, outside, service, turn, collector, helpers, child>>

\* Mutant of SessionClean: a session whose creation was never answered is
\* taken not to exist.
SessionCleanIfUnknown ==
    /\ local.control /\ local.images /\ local.media = "verified"
    /\ local.known => IF local.interruption # "none" THEN local.interruption = "verified"
                      ELSE local.session

\* cleanup of OpenCode: the control commands, the helpers, and the session, if
\* it is known; if one may exist that is not known, nothing is.
SessionClean ==
    /\ local.control /\ local.images /\ local.media = "verified"
    /\ IF local.known
       THEN IF local.interruption # "none" THEN local.interruption = "verified"
            ELSE local.session
       ELSE ~local.attempted

\* OpenCode refuses to succeed without it; the synthetic runner does not.
VerdictSession ==
    runner = "opencode" /\ Return(SessionClean, local.error = "none" /\ SessionClean)
VerdictSynthetic ==
    runner = "synthetic" /\ Return(SessionClean, local.error = "none")

\* Antigravity's turn goes on in a service of its own, so that its terminal
\* event must have been seen.
VerdictCommand ==
    /\ runner \in {"codex", "antigravity"}
    /\ Return(/\ child.clean /\ local.images /\ local.media = "verified"
              /\ runner = "antigravity" /\ child.spawned => collector.terminal,
              local.error = "none")

VerdictSample ==
    /\ runner = "sample"
    /\ Return(child.clean /\ (child.spawned => local.terminal), local.error = "none")

\* An isolated command succeeds with the exit code it chose.
VerdictIsolated ==
    /\ runner = "isolated"
    /\ \E code \in {0, 1} : Return(child.clean, code = 0 /\ child.exited /\ child.clean)

-----------------------------------------------------------------------------
Steps ==
    \/ Guarded \/ SetupSession \/ SetupSynthetic \/ SetupCommand \/ SetupSample \/ SetupIsolated
    \/ Probe \/ Inventory \/ Catalog \/ Fallback
    \/ CreateSession \/ SetEnvironment \/ Prompt \/ Wait \/ Messages \/ Resources
    \/ Interrupt \/ Observe \/ Listing \/ Partial
    \/ Start \/ EndChild \/ Collect \/ Judge \/ JudgeSample
    \/ ImportSession \/ Import \/ FinallySession \/ FinallyCommand
    \/ VerdictSession \/ VerdictSynthetic \/ VerdictCommand \/ VerdictSample
    \/ VerdictIsolated

Done == pc = "done" /\ UNCHANGED invVars

InvNext ==
    \/ Steps
    \/ \E reason \in {"exit", "output", "cancelled", "timeout", "consumer"} : StopChild(reason)
    \/ \E ev \in Events : AgentActs(ev)
    \/ Cancel \/ Expire \/ SessionActs
    \/ Done

\* The runner's thread is scheduled and the clock runs on; nothing is assumed
\* of the agent, the service or the one who cancels.
InvFairness ==
    /\ WF_invVars(Steps) /\ WF_invVars(Expire)
    /\ WF_invVars(StopChild("timeout"))

InvSpec == InvInit /\ [][InvNext]_invVars /\ InvFairness

-----------------------------------------------------------------------------
\* A cleanup the result calls verified is one: no session of the service
\* works or will be made to work by a request still under way, it has no
\* terminal, no process the runner can see is left (with a control group,
\* none at all) and none holds its pipes, no thread or fetch of its own is
\* left, and an Antigravity turn, which goes on in a service of its own, has
\* ended.
CleanupIsTrue ==
    pc = "done" /\ result.cleanup =>
        /\ service.session \in {"none", "succeeded", "failed"} /\ service.late = "none"
        /\ ~service.terminals
        /\ Visible = {} /\ child.holding = {}
        /\ helpers.strays = 0 /\ ~helpers.fetching
        /\ "late" \notin {helpers.media, helpers.images}
        /\ runner \in {"antigravity", "sample"} /\ child.spawned => turn.over

\* A phase that succeeds has cleaned up, its outputs are imported, its agent
\* said that it was done and had no tool at work when it said so.
SuccessIsEarned ==
    pc = "done" /\ result.success =>
        /\ runner # "synthetic" => result.cleanup
        /\ runner # "isolated" => local.imported
        /\ hosted => service.session = "succeeded"
        /\ runner \in {"codex", "antigravity", "sample"} => turn.over /\ turn.active = {}

\* Whatever the agent and its service do, the runner returns.
InvocationEnds == <>(pc = "done")
=============================================================================
