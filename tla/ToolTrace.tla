------------------------------ MODULE ToolTrace ------------------------------
(***************************************************************************)
(* What a runner believes of an agent's turn from the events it prints     *)
(* (runners/production_trace.py, runners/antigravity_response.py) or from  *)
(* the messages of its session (runners/opencode.py).                      *)
(*                                                                         *)
(* A collector is a record.  Bytes, lines and compaction are left out: an  *)
(* event is complete, or it is "garbled": it cannot be decoded, or goes    *)
(* past one of the limits on lines, events and bytes.                      *)
(***************************************************************************)
EXTENDS Naturals, FiniteSets

CONSTANT Tools    \* identities of tool calls

\* "started" is item.started or an ACTIVE step, "completed" item.completed or
\* a DONE or ERROR step, "alien" an action no runner approves.
Events ==
    [kind : {"opening", "error", "answer", "garbled", "alien"}]
        \cup [kind : {"started", "completed"}, tool : Tools]
        \cup [kind : {"terminal"}, success : BOOLEAN, denied : BOOLEAN]

\* ProductionToolTraceCollector.__init__
NewCollector ==
    [stage |-> 0, pending |-> {}, seen |-> {}, terminal |-> FALSE,
     success |-> FALSE, failed |-> FALSE, answer |-> FALSE, denied |-> FALSE,
     error |-> FALSE, complete |-> FALSE]

\* _fail: the stream is closed; of what was learnt so far the runner goes on to
\* use only whether the turn ended (partial_trace).
Fail(c) == [NewCollector EXCEPT !.error = TRUE, !.terminal = c.terminal]

\* Mutant of CodexAccepts: a turn may end with tools still at work.
CodexForgetsPending(c, ev) ==
    \/ c.stage < 2 /\ ev.kind = "opening"
    \/ /\ c.stage = 2 /\ ~c.terminal
       /\ \/ ev.kind \in {"error", "answer", "terminal"}
          \/ ev.kind = "started" /\ ev.tool \notin c.seen \cup c.pending
          \/ ev.kind = "completed" /\ ev.tool \notin c.seen

\* _codex: one thread and one turn, tool calls that start at most once and
\* complete once, nothing after the terminal event.
CodexAccepts(c, ev) ==
    \/ c.stage < 2 /\ ev.kind = "opening"
    \/ /\ c.stage = 2 /\ ~c.terminal
       /\ \/ ev.kind \in {"error", "answer"}
          \/ ev.kind = "started" /\ ev.tool \notin c.seen \cup c.pending
          \/ ev.kind = "completed" /\ ev.tool \notin c.seen
          \/ ev.kind = "terminal" /\ c.pending = {}

\* _agy: one initial event; a step may be reported active again.
AgyAccepts(c, ev) ==
    \/ c.stage = 0 /\ ev.kind = "opening"
    \/ /\ c.stage > 0 /\ ~c.terminal
       /\ \/ ev.kind \in {"error", "answer"}
          \/ ev.kind \in {"started", "completed"} /\ ev.tool \notin c.seen
          \/ ev.kind = "terminal" /\ c.pending = {}

\* codex_response, parse_antigravity_response: an output-only turn has one
\* answer and no tool.
SampleAccepts(c, ev) ==
    \/ c.stage = 0 /\ ev.kind = "opening"
    \/ /\ c.stage > 0 /\ ~c.terminal
       /\ \/ ev.kind = "answer" /\ ~c.answer
          \/ ev.kind = "terminal" /\ c.answer /\ ev.success

\* What an accepted event adds.  A tool call the service denied is known only
\* from the terminal event.
Learn(c, ev) ==
    CASE ev.kind = "opening" -> [c EXCEPT !.stage = @ + 1]
      [] ev.kind = "error" -> [c EXCEPT !.failed = TRUE]
      [] ev.kind = "answer" -> [c EXCEPT !.answer = TRUE]
      [] ev.kind = "started" -> [c EXCEPT !.pending = @ \cup {ev.tool}]
      [] ev.kind = "completed" ->
            [c EXCEPT !.pending = @ \ {ev.tool}, !.seen = @ \cup {ev.tool}]
      [] ev.kind = "terminal" ->
            [c EXCEPT !.terminal = TRUE, !.denied = ev.denied,
                      !.success = ev.success /\ ~c.failed /\ ~ev.denied]

\* feed and _line: a closed collector, an event that cannot be decoded, one
\* past a limit and one that breaks the life cycle all end the stream.
Feed(runner, c, ev) ==
    IF \/ c.error \/ c.complete
       \/ ev.kind \in {"garbled", "alien"}
       \/ runner = "codex" /\ ~CodexAccepts(c, ev)
       \/ runner = "antigravity" /\ ~AgyAccepts(c, ev)
       \/ runner = "sample" /\ ~SampleAccepts(c, ev)
    THEN Fail(c)
    ELSE Learn(c, ev)

\* finish: without an error and with a terminal event the trace is complete.
FinishTrace(c) ==
    IF c.error \/ ~c.terminal THEN Fail(c) ELSE [c EXCEPT !.complete = TRUE]

\* The trace the runner may import from: complete, successful, undenied.
Successful(c) == c.complete /\ c.success /\ ~c.denied /\ c.answer

-----------------------------------------------------------------------------
\* What the messages of an OpenCode session say, as _parse_trace sees them.
\* running: some tool has not ended; identity: ids, model and agent agree.
Projections ==
    [text : BOOLEAN, finish : {"stop", "length"}, timed : BOOLEAN,
     running : BOOLEAN, identity : BOOLEAN, valid : BOOLEAN,
     denied : {"none", "outside", "other"}]

\* _parse_trace: is there a response_error?  A file operation denied outside
\* the workspace is forgiven when the runner says so.
ParseTrace(session, p, forgiving) ==
    /\ session = "succeeded"
    /\ p.text /\ p.finish = "stop" /\ p.timed
    /\ p.identity /\ p.valid
    /\ ~p.running
    /\ p.denied = "none" \/ (forgiving /\ p.denied = "outside")
=============================================================================
