-------------------------- MODULE InvocationProofs --------------------------
(***************************************************************************)
(* Proofs about AgentInvocation, for every set of processes, tools and     *)
(* runners and every budget: a cleanup called verified is one, and a phase *)
(* that succeeds has earned it.                                            *)
(*                                                                         *)
(* The invariant follows three lines that meet in the verdict: what the    *)
(* client may conclude of a session from its commands, what the collector  *)
(* knows of the turn, and what the evidence says of the command's          *)
(* processes.                                                              *)
(***************************************************************************)
EXTENDS AgentInvocation, TLAPS

Hosts == {"opencode", "synthetic"}
Ended == {"succeeded", "failed"}

Locals ==
    [error : {"none", "failed", "cancelled", "timeout"},
     attempted : BOOLEAN, known : BOOLEAN, control : BOOLEAN,
     budget : Nat, failures : Nat, terminal : BOOLEAN,
     interruption : {"none", "verified", "unverified"}, session : BOOLEAN,
     trace : {"none", "good", "bad"}, imported : BOOLEAN,
     media : {"unset", "verified", "unverified"}, images : BOOLEAN]
Services ==
    [session : {"none", "idle", "working", "succeeded", "failed"}, terminals : BOOLEAN,
     late : {"none", "create", "prompt"}]
HelperStates == {"absent", "open", "late", "dead"}
HelperRecords ==
    [media : HelperStates, images : HelperStates, strays : {0, 1}, fetching : BOOLEAN]
Turns == [active : SUBSET Tools, over : BOOLEAN]
Collectors ==
    [stage : Nat, pending : SUBSET Tools, seen : SUBSET Tools, terminal : BOOLEAN,
     success : BOOLEAN, failed : BOOLEAN, answer : BOOLEAN, denied : BOOLEAN,
     error : BOOLEAN, complete : BOOLEAN]
Children ==
    [at : {"none", "stopped", "running", "stopping", "killed", "reaped", "drained", "over"},
     spawned : BOOLEAN, boxed : BOOLEAN, alive : SUBSET Procs, away : SUBSET Procs,
     deaf : SUBSET Procs, holding : SUBSET Procs, exited : BOOLEAN, signalled : BOOLEAN,
     reaped : BOOLEAN, eof : BOOLEAN, clean : BOOLEAN]

Types ==
    /\ runner \in Runners
    /\ local \in Locals /\ service \in Services /\ helpers \in HelperRecords
    /\ turn \in Turns /\ collector \in Collectors /\ child \in Children
    /\ result \in [success : BOOLEAN, cleanup : BOOLEAN]

\* What a client knows of its session: none exists before it asked for one; one
\* it knows is not still to be created; a prompt is still under way only to a
\* session that waits for it; and what was seen to be over stays over.
SessionStands(s, l) ==
    /\ ~l.attempted => s.session = "none" /\ ~s.terminals /\ s.late = "none"
    /\ l.known => s.session # "none" /\ s.late # "create"
    /\ s.late = "prompt" => s.session = "idle"
    /\ l.session \/ l.interruption = "verified" => s.session \in Ended /\ ~s.terminals

Before == {"setup", "probe", "inventory", "catalog", "fallback", "create"}

Talking == {"probe", "inventory", "catalog", "fallback", "create", "environment", "prompt",
            "wait", "messages", "resources", "interrupt", "observe", "listing", "partial"}

SessionAt(r, p, s, l) ==
    /\ p \in Talking => r \in Hosts
    /\ p \in Before \/ r \notin Hosts => ~l.attempted
    /\ p \in {"environment", "prompt"} =>
            s.session = "idle" /\ ~s.terminals /\ s.late = "none"
    /\ p \in {"environment", "prompt", "wait", "messages", "resources", "interrupt",
              "observe", "listing"} => l.known
    /\ r \in Hosts =>
        /\ p \in {"messages", "resources", "import"} \/ l.terminal => s.session \in Ended
        /\ l.trace = "good" => s.session = "succeeded"
        /\ p = "import" => l.trace = "good"
        /\ p \in {"brokers", "partial", "verdict"} /\ l.error = "none" =>
            l.imported /\ l.trace = "good"
    /\ p \in {"interrupt", "observe", "listing"} => l.error # "none"

\* The threads and stray commands a runner says are gone are gone.
HelpersStand(r, l, h) ==
    /\ l.control => h.strays = 0
    /\ r \notin Hosts => l.control
    /\ h.images = "late" => ~l.images
    /\ l.media # "unverified" => h.media # "late" /\ ~h.fetching
    /\ r \in {"synthetic", "sample", "isolated"} =>
        h.media = "absent" /\ h.images = "absent" /\ ~h.fetching

\* While the collector has no error it knows the tools at work, and a turn it
\* saw end has ended with none.
CollectorStands(r, c, t) ==
    /\ c.terminal => t.over
    /\ c.complete => c.terminal /\ ~c.error
    /\ ~c.error => /\ c.pending = t.active
                   /\ r = "sample" \/ c.terminal => t.active = {}

TraceStands(r, l, c, t) ==
    /\ r \notin Hosts /\ l.trace = "good" => c.complete
    /\ r = "sample" /\ l.terminal => t.over

\* The evidence of the drain and of the last look.
ChildStands(ch) ==
    /\ ch.at = "drained" /\ ch.eof => ch.holding = {}
    /\ ch.at = "over" /\ ch.clean =>
        ch.holding = {} /\ ch.alive \subseteq (IF ch.boxed THEN {} ELSE ch.away)

CommandAt(r, p, l, ch) ==
    /\ p \in {"spawn", "process", "judge", "sampled"} => r \notin Hosts
    /\ p = "judge" => r \in {"codex", "antigravity"}
    /\ p = "sampled" => r = "sample"
    /\ p \in {"setup", "spawn"} \/ r \in Hosts => ch = NoChild
    /\ p # "process" => ch = NoChild \/ ch.at = "over"
    /\ p = "import" /\ r \notin Hosts =>
        ch.clean /\ l.trace = "good" /\ (r # "sample" => l.media = "verified")
    /\ p \in {"brokers", "verdict"} /\ r \in {"codex", "antigravity", "sample"}
            /\ l.error = "none" =>
        /\ l.imported /\ ch.clean /\ l.trace = "good"
        /\ r # "sample" => l.media = "verified" /\ (p = "verdict" => l.images)
        /\ r = "sample" => l.terminal
    /\ p = "import" /\ r = "sample" => l.terminal

InvocationInv ==
    /\ Types
    /\ SessionStands(service, local) /\ SessionAt(runner, pc, service, local)
    /\ HelpersStand(runner, local, helpers)
    /\ CollectorStands(runner, collector, turn) /\ TraceStands(runner, local, collector, turn)
    /\ ChildStands(child) /\ CommandAt(runner, pc, local, child)
    /\ CleanupIsTrue /\ SuccessIsEarned

---------------------------------------------------------------------------
(* Control commands.                                                       *)

OutcomeRecords ==
    [error : {"none", "api", "cancelled", "timeout", "check"}, ran : BOOLEAN,
     reached : {"no", "now", "later"}, clean : BOOLEAN]

\* An answer is there only if the service has the request and the command is
\* accounted for; a command that did not run left nothing.
LEMMA OutcomesAre ==
  ASSUME NEW guarded \in BOOLEAN, NEW o \in Outcomes(guarded)
  PROVE  /\ o \in OutcomeRecords
         /\ ErrorOf(o) = "none" => o.reached = "now" /\ o.clean
<1>1. CASE o \in Refusals
  <2>1. PICK e \in {"cancelled", "check", "timeout"} :
            o = [error |-> e, ran |-> FALSE, reached |-> "no", clean |-> TRUE]
    BY <1>1 DEF Refusals
  <2>2. o \in OutcomeRecords /\ ~o.ran /\ o.error # "none"
    BY <2>1 DEF OutcomeRecords
  <2> QED BY <2>2 DEF ErrorOf
<1>2. CASE o \in Answers
  <2>1. CASE o = [error |-> "none", ran |-> TRUE, reached |-> "now", clean |-> TRUE]
    BY <2>1 DEF OutcomeRecords
  <2>2. CASE o \in [error : {"api", "cancelled", "timeout"}, ran : {TRUE},
                    reached : {"no", "now", "later"}, clean : BOOLEAN]
    <3>1. o \in OutcomeRecords /\ o.error # "none"
      BY <2>2 DEF OutcomeRecords
    <3> QED BY <3>1 DEF ErrorOf
  <2> QED BY <1>2, <2>1, <2>2 DEF Answers
<1>3. o \in Refusals \cup Answers
  BY DEF Outcomes
<1> QED BY <1>1, <1>2, <1>3

\* What the budget and the account of a command leave alone.
Alike(l, k) ==
    /\ l.error = k.error /\ (l.attempted <=> k.attempted) /\ (l.known <=> k.known)
    /\ (l.terminal <=> k.terminal) /\ l.interruption = k.interruption
    /\ (l.session <=> k.session) /\ l.trace = k.trace /\ (l.imported <=> k.imported)
    /\ l.media = k.media /\ (l.images <=> k.images)

\* A call is charged to the budget; what is known of the control child is lost with
\* a call that is not clean.
LEMMA ChargedIs ==
  ASSUME Types, NEW o \in OutcomeRecords
  PROVE  \E k \in Locals : /\ k = Charged(o) /\ Alike(k, local)
                           /\ k.control <=> local.control /\ o.clean
<1>1. PICK j \in Locals : /\ j = [local EXCEPT !.control = @ /\ o.clean]
                          /\ Alike(j, local) /\ j.budget = local.budget
                          /\ j.control <=> local.control /\ o.clean
  <2>1. local \in Locals
    BY DEF Types
  <2>2. o.clean \in BOOLEAN
    BY DEF OutcomeRecords
  <2>3. PICK b \in BOOLEAN : b <=> local.control /\ o.clean
    OBVIOUS
  <2>4. PICK j \in Locals : j = [local EXCEPT !.control = b]
    BY <2>1 DEF Locals
  <2>5. Alike(j, local) /\ j.budget = local.budget /\ (j.control <=> b)
    BY <2>1, <2>4 DEF Locals, Alike
  <2>6. j = [local EXCEPT !.control = @ /\ o.clean]
    BY <2>1, <2>2, <2>3, <2>4 DEF Locals
  <2> QED BY <2>3, <2>5, <2>6
<1>2. PICK n \in Nat : n = IF o.ran /\ local.budget > 0 THEN local.budget - 1 ELSE local.budget
  BY DEF Types, Locals
<1>3. PICK k \in Locals : /\ k = [j EXCEPT !.budget = n] /\ Alike(k, j)
                          /\ k.control <=> j.control
  <2>1. PICK k \in Locals : k = [j EXCEPT !.budget = n]
    BY DEF Locals
  <2> QED BY <2>1 DEF Locals, Alike
<1>4. k = Charged(o)
  BY <1>1, <1>2, <1>3 DEF Charged
<1> QED BY <1>1, <1>3, <1>4 DEF Alike

\* A request moves the session of the service only as its operation says.
LEMMA EffectIs ==
  ASSUME NEW s \in Services, NEW op
  PROVE  /\ Effect(s, op) \in Services
         /\ Effect(s, op).terminals <=> s.terminals
         /\ Effect(s, op).late = s.late
         /\ Effect(s, op).session =
                CASE op = "create" /\ s.session = "none" -> "idle"
                  [] op = "prompt" /\ s.session = "idle" -> "working"
                  [] OTHER -> s.session
BY DEF Effect, Services

\* Only a call that is not clean can leave a stray.
LEMMA ReachesIs ==
  ASSUME Types, NEW op, NEW o \in OutcomeRecords, Reaches(op, o)
  PROVE  /\ helpers' \in HelperRecords
         /\ helpers'.media = helpers.media /\ helpers'.images = helpers.images
         /\ helpers'.fetching <=> helpers.fetching
         /\ o.clean => helpers'.strays = helpers.strays
         /\ op \notin {"create", "prompt"} => service' = service
<1>1. helpers' = IF o.clean THEN helpers ELSE [helpers EXCEPT !.strays = 1]
  BY DEF Reaches
<1>2. helpers \in HelperRecords
  BY DEF Types
<1>3. /\ helpers' \in HelperRecords
      /\ helpers'.media = helpers.media /\ helpers'.images = helpers.images
      /\ helpers'.fetching <=> helpers.fetching
      /\ o.clean => helpers'.strays = helpers.strays
  BY <1>1, <1>2 DEF HelperRecords
<1>4. op \notin {"create", "prompt"} => service' = service
  BY DEF Reaches, Effect, OutcomeRecords
<1> QED BY <1>3, <1>4

\* A call leaves the helpers as the runner then knows them.
LEMMA HelpersAsked ==
  ASSUME InvocationInv, NEW op, NEW o \in OutcomeRecords, Reaches(op, o), runner \in Hosts,
         NEW l \in Locals, l.control <=> local.control /\ o.clean,
         l.images <=> local.images, l.media = local.media
  PROVE  helpers' \in HelperRecords /\ HelpersStand(runner, l, helpers')
<1>1. /\ helpers' \in HelperRecords
      /\ helpers'.media = helpers.media /\ helpers'.images = helpers.images
      /\ helpers'.fetching <=> helpers.fetching
      /\ o.clean => helpers'.strays = helpers.strays
  BY ReachesIs DEF InvocationInv
<1> QED BY <1>1 DEF InvocationInv, HelpersStand

\* A step of a runner that steers a session: what it has to keep.
HostedKept == UNCHANGED <<runner, result, turn, collector, child>>

\* A step of a runner with a service: what is to be shown of it.
LEMMA HostedStep ==
  ASSUME InvocationInv, runner \in Hosts, HostedKept,
         pc' \notin {"done", "spawn", "process", "judge", "sampled"},
         local' \in Locals, service' \in Services, helpers' \in HelperRecords,
         SessionStands(service', local'), SessionAt(runner, pc', service', local'),
         HelpersStand(runner, local', helpers')
  PROVE  InvocationInv'
<1>1. Types'
  BY DEF InvocationInv, Types, HostedKept
<1>2. child = NoChild /\ child' = child /\ runner' = runner
  BY DEF InvocationInv, CommandAt, HostedKept
<1>3. CommandAt(runner, pc', local', child)
  BY <1>2 DEF CommandAt, Hosts
<1>4. CollectorStands(runner, collector, turn)' /\ ChildStands(child)'
  BY DEF HostedKept, InvocationInv
<1>5. TraceStands(runner, local', collector', turn')
  BY DEF TraceStands, Hosts
<1>6. CleanupIsTrue' /\ SuccessIsEarned'
  BY DEF CleanupIsTrue, SuccessIsEarned
<1> QED BY <1>1, <1>2, <1>3, <1>4, <1>5, <1>6 DEF InvocationInv

\* One command and nothing else.
LEMMA AskIs ==
  ASSUME InvocationInv, NEW at, NEW op, NEW next, Ask(at, op, next)
  PROVE  \E o \in OutcomeRecords, l \in Locals :
            /\ Reaches(op, o) /\ l = local' /\ pc = at /\ runner \in Hosts /\ HostedKept
            /\ l.terminal <=> local.terminal
            /\ l.interruption = local.interruption /\ (l.session <=> local.session)
            /\ l.trace = local.trace /\ (l.imported <=> local.imported)
            /\ l.attempted <=> local.attempted \/ op = "create"
            /\ local.known => l.known
            /\ l.known /\ ~local.known => op = "create" /\ o.reached = "now"
            /\ \/ pc' = next /\ l.error = local.error /\ o.reached = "now"
                  /\ (op = "create" => l.known)
               \/ pc' = "brokers" /\ l.error # "none"
            /\ helpers' \in HelperRecords /\ HelpersStand(runner, l, helpers')
<1>1. PICK o \in Outcomes(TRUE), valid \in BOOLEAN :
        LET error == ErrorOf(o)
            good == error = "none" /\ valid IN
        /\ Reaches(op, o) /\ Meanwhile(o)
        /\ pc' = IF good THEN next ELSE "brokers"
        /\ local' = [Charged(o) EXCEPT !.error = IF good THEN @ ELSE Class(error),
                        !.attempted = @ \/ op = "create",
                        !.known = @ \/ (op = "create" /\ error = "none")]
  BY Zenon DEF Ask
<1>2. o \in OutcomeRecords /\ (ErrorOf(o) = "none" => o.reached = "now" /\ o.clean)
  BY OutcomesAre
<1>3. PICK k \in Locals : /\ k = Charged(o) /\ Alike(k, local)
                          /\ k.control <=> local.control /\ o.clean
  BY <1>2, ChargedIs DEF InvocationInv
<1>4. PICK e \in {"none", "failed", "cancelled", "timeout"} :
        /\ e = IF ErrorOf(o) = "none" /\ valid THEN k.error ELSE Class(ErrorOf(o))
        /\ ErrorOf(o) = "none" /\ valid => e = k.error
        /\ ~(ErrorOf(o) = "none" /\ valid) => e # "none"
  BY DEF Class, Locals
<1>5. PICK known \in BOOLEAN : known <=> k.known \/ (op = "create" /\ ErrorOf(o) = "none")
  OBVIOUS
<1>6. PICK attempted \in BOOLEAN : attempted <=> k.attempted \/ op = "create"
  OBVIOUS
<1>7. PICK l \in Locals : l = [k EXCEPT !.error = e, !.attempted = attempted, !.known = known]
  BY DEF Locals
<1>8. /\ l.error = e /\ (l.attempted <=> attempted) /\ (l.known <=> known)
      /\ l.terminal <=> k.terminal
      /\ l.interruption = k.interruption /\ (l.session <=> k.session)
      /\ l.trace = k.trace /\ (l.imported <=> k.imported) /\ (l.control <=> k.control)
      /\ l.media = k.media /\ (l.images <=> k.images)
  BY <1>7 DEF Locals
<1>9. local' = l
  <2>1. (k.attempted \/ op = "create") = attempted
    BY <1>6
  <2>2. (k.known \/ (op = "create" /\ ErrorOf(o) = "none")) = known
    BY <1>5
  <2>3. [k EXCEPT !.error = IF ErrorOf(o) = "none" /\ valid THEN @ ELSE Class(ErrorOf(o)),
                  !.attempted = @ \/ op = "create",
                  !.known = @ \/ (op = "create" /\ ErrorOf(o) = "none")] = l
    BY <1>4, <1>7, <2>1, <2>2 DEF Locals
  <2> QED BY <1>1, <1>3, <2>3 DEF Locals
<1>10. helpers' \in HelperRecords /\ HelpersStand(runner, l, helpers')
  <2>1. runner \in Hosts
    BY DEF Ask, hosted, Hosts
  <2> QED BY <1>1, <1>2, <1>3, <1>8, <2>1, HelpersAsked DEF Alike
<1>11. pc = at /\ runner \in Hosts /\ HostedKept
  BY DEF Ask, hosted, Hosts, Kept, HostedKept
<1>12. \/ pc' = next /\ l.error = local.error /\ o.reached = "now" /\ (op = "create" => l.known)
       \/ pc' = "brokers" /\ l.error # "none"
  BY <1>1, <1>2, <1>3, <1>4, <1>5, <1>8 DEF Alike
<1> QED BY <1>1, <1>2, <1>3, <1>5, <1>6, <1>8, <1>9, <1>10, <1>11, <1>12 DEF Alike

\* The service and the runner's locals have their types.
LEMMA ServiceTypes == ASSUME InvocationInv PROVE service \in Services /\ local \in Locals
BY DEF InvocationInv, Types

\* A call that neither creates nor prompts leaves the session where it is.
LEMMA PlainAskKeeps ==
  ASSUME InvocationInv, NEW at, NEW op, NEW next, Ask(at, op, next),
         op \notin {"create", "prompt"},
         <<at, next>> \in {<<"probe", "inventory">>, <<"probe", "create">>, <<"fallback", "create">>,
                           <<"environment", "prompt">>}
  PROVE  InvocationInv'
<1>1. PICK o \in OutcomeRecords, l \in Locals :
        /\ Reaches(op, o) /\ l = local' /\ pc = at /\ runner \in Hosts /\ HostedKept
        /\ l.terminal <=> local.terminal
        /\ l.interruption = local.interruption /\ (l.session <=> local.session)
        /\ l.trace = local.trace /\ (l.imported <=> local.imported)
        /\ l.attempted <=> local.attempted
        /\ l.known <=> local.known
        /\ \/ pc' = next
           \/ pc' = "brokers" /\ l.error # "none"
        /\ helpers' \in HelperRecords /\ HelpersStand(runner, l, helpers')
  BY AskIs
<1>2. service' = service /\ service \in Services
  BY <1>1, ReachesIs, ServiceTypes DEF InvocationInv
<1>3. SessionStands(service, l)
  BY <1>1 DEF InvocationInv, SessionStands
<1>4. SessionAt(runner, pc', service, l)
  BY <1>1 DEF InvocationInv, SessionAt, Before
<1>5. pc' \notin {"done", "spawn", "process", "judge", "sampled"}
  BY <1>1
<1> QED BY <1>1, <1>2, <1>3, <1>4, <1>5, HostedStep

\* The health probe is a plain call.
LEMMA ProbeKeeps == ASSUME InvocationInv, Probe PROVE InvocationInv'
BY PlainAskKeeps DEF Probe

\* The fallback is a plain call.
LEMMA FallbackKeeps == ASSUME InvocationInv, Fallback PROVE InvocationInv'
BY PlainAskKeeps DEF Fallback

\* Setting the environment is a plain call.
LEMMA SetEnvironmentKeeps == ASSUME InvocationInv, SetEnvironment PROVE InvocationInv'
BY PlainAskKeeps DEF SetEnvironment

\* The request for a session may reach the service at once, later or never; it is
\* known only if the answer came.
LEMMA CreateSessionKeeps == ASSUME InvocationInv, CreateSession PROVE InvocationInv'
<1>1. PICK o \in OutcomeRecords, l \in Locals :
        /\ Reaches("create", o) /\ l = local' /\ pc = "create" /\ runner \in Hosts /\ HostedKept
        /\ l.terminal <=> local.terminal
        /\ l.interruption = local.interruption /\ (l.session <=> local.session)
        /\ l.trace = local.trace /\ (l.imported <=> local.imported)
        /\ l.attempted
        /\ l.known /\ ~local.known => o.reached = "now"
        /\ \/ pc' = "environment" /\ o.reached = "now" /\ l.known
           \/ pc' = "brokers" /\ l.error # "none"
        /\ helpers' \in HelperRecords /\ HelpersStand(runner, l, helpers')
  BY AskIs DEF CreateSession
<1>2. /\ service \in Services /\ service.session = "none" /\ ~service.terminals
      /\ service.late = "none" /\ ~local.known
  BY <1>1, ServiceTypes DEF InvocationInv, SessionStands, SessionAt, Before
<1>3. PICK s \in Services : /\ s = service' /\ ~s.terminals /\ s.late # "prompt"
                            /\ o.reached = "now" => s.session = "idle" /\ s.late = "none"
  <2>1. CASE o.reached = "now"
    BY <1>1, <1>2, <2>1, EffectIs DEF Reaches
  <2>2. CASE o.reached = "later"
    <3>1. service' = [service EXCEPT !.late = "create"]
      BY <1>1, <2>2 DEF Reaches
    <3> QED BY <1>2, <2>2, <3>1 DEF Services
  <2>3. CASE o.reached = "no"
    BY <1>1, <1>2, <2>3 DEF Reaches
  <2> QED BY <2>1, <2>2, <2>3 DEF OutcomeRecords
<1>4. SessionStands(s, l)
  BY <1>1, <1>2, <1>3 DEF InvocationInv, SessionStands, Ended
<1>5. SessionAt(runner, pc', s, l)
  BY <1>1, <1>2, <1>3 DEF InvocationInv, SessionAt, Before, Ended
<1>6. pc' \notin {"done", "spawn", "process", "judge", "sampled"}
  BY <1>1
<1> QED BY <1>1, <1>3, <1>4, <1>5, <1>6, HostedStep

\* A prompt sets a waiting session to work, at once or when it arrives.
LEMMA PromptKeeps == ASSUME InvocationInv, Prompt PROVE InvocationInv'
<1>1. PICK o \in OutcomeRecords, l \in Locals :
        /\ Reaches("prompt", o) /\ l = local' /\ pc = "prompt" /\ runner \in Hosts /\ HostedKept
        /\ l.terminal <=> local.terminal
        /\ l.interruption = local.interruption /\ (l.session <=> local.session)
        /\ l.trace = local.trace /\ (l.imported <=> local.imported)
        /\ l.attempted <=> local.attempted
        /\ l.known <=> local.known
        /\ \/ pc' = "wait" /\ o.reached = "now"
           \/ pc' = "brokers" /\ l.error # "none"
        /\ helpers' \in HelperRecords /\ HelpersStand(runner, l, helpers')
  BY AskIs DEF Prompt
<1>2. /\ service \in Services /\ service.session = "idle" /\ ~service.terminals
      /\ service.late = "none" /\ local.known
  BY <1>1, ServiceTypes DEF InvocationInv, SessionAt
<1>3. PICK s \in Services : /\ s = service' /\ ~s.terminals /\ s.late # "create"
                            /\ s.session \in {"idle", "working"}
                            /\ s.late = "prompt" => s.session = "idle"
  <2>1. CASE o.reached = "now"
    BY <1>1, <1>2, <2>1, EffectIs DEF Reaches
  <2>2. CASE o.reached = "later"
    <3>1. service' = [service EXCEPT !.late = "prompt"]
      BY <1>1, <2>2 DEF Reaches
    <3> QED BY <1>2, <2>2, <3>1 DEF Services
  <2>3. CASE o.reached = "no"
    BY <1>1, <1>2, <2>3 DEF Reaches
  <2> QED BY <2>1, <2>2, <2>3 DEF OutcomeRecords
<1>4. SessionStands(s, l)
  BY <1>1, <1>2, <1>3 DEF InvocationInv, SessionStands, Ended
<1>5. SessionAt(runner, pc', s, l)
  BY <1>1, <1>2, <1>3 DEF InvocationInv, SessionAt, Before, Ended
<1>6. pc' \notin {"done", "spawn", "process", "judge", "sampled"}
  BY <1>1
<1> QED BY <1>1, <1>3, <1>4, <1>5, <1>6, HostedStep

\* What every other command leaves: its service as it was, its account changed.
LEMMA CommandIs ==
  ASSUME InvocationInv, NEW guarded \in BOOLEAN, NEW o \in Outcomes(guarded), NEW op,
         Reaches(op, o), op \notin {"create", "prompt"}, runner \in Hosts
  PROVE  /\ service' = service /\ service \in Services
         /\ \E k \in Locals : /\ k = Charged(o) /\ Alike(k, local)
                              /\ k.control <=> local.control /\ o.clean
         /\ \A l \in Locals : (/\ l.control <=> Charged(o).control
                               /\ l.images <=> local.images
                               /\ l.media = local.media)
                => helpers' \in HelperRecords /\ HelpersStand(runner, l, helpers')
<1>1. o \in OutcomeRecords
  BY OutcomesAre
<1>2. service' = service /\ service \in Services
  BY <1>1, ReachesIs, ServiceTypes DEF InvocationInv
<1>3. PICK k \in Locals : /\ k = Charged(o) /\ Alike(k, local)
                          /\ k.control <=> local.control /\ o.clean
  BY <1>1, ChargedIs DEF InvocationInv
<1>4. ASSUME NEW l \in Locals, l.control <=> Charged(o).control, l.images <=> local.images,
             l.media = local.media
      PROVE  helpers' \in HelperRecords /\ HelpersStand(runner, l, helpers')
  BY <1>1, <1>3, <1>4, HelpersAsked
<1> QED BY <1>2, <1>3, <1>4

\* Only a runner with a service talks to one.
LEMMA TalkingIsHosted == ASSUME InvocationInv, pc \in Talking PROVE runner \in Hosts
BY DEF InvocationInv, SessionAt

\* The list of tools changes nothing of the session.
LEMMA InventoryKeeps == ASSUME InvocationInv, Inventory PROVE InvocationInv'
<1>0. pc = "inventory" /\ runner \in Hosts /\ HostedKept
  BY TalkingIsHosted DEF Inventory, Talking, Kept, HostedKept
<1>1. PICK o \in Outcomes(TRUE) : /\ Reaches("mcp", o) /\ local' = Charged(o)
                                  /\ pc' \in {"catalog", "fallback"}
  BY DEF Inventory
<1>2. PICK l \in Locals : /\ l = local' /\ Alike(l, local) /\ service' = service
                          /\ service \in Services
                          /\ helpers' \in HelperRecords /\ HelpersStand(runner, l, helpers')
  BY <1>0, <1>1, CommandIs DEF Alike
<1>3. SessionStands(service, l)
  BY <1>2 DEF InvocationInv, SessionStands, Alike
<1>4. SessionAt(runner, pc', service, l)
  BY <1>0, <1>1, <1>2 DEF InvocationInv, SessionAt, Before, Alike
<1> QED BY <1>0, <1>1, <1>2, <1>3, <1>4, HostedStep

\* The list of models changes nothing of the session.
LEMMA CatalogKeeps == ASSUME InvocationInv, Catalog PROVE InvocationInv'
<1>0. pc = "catalog" /\ runner \in Hosts /\ HostedKept /\ pc' = "create"
  BY TalkingIsHosted DEF Catalog, Talking, Kept, HostedKept
<1>1. PICK o \in Outcomes(TRUE) : Reaches("mcp", o) /\ local' = Charged(o)
  BY DEF Catalog
<1>2. PICK l \in Locals : /\ l = local' /\ Alike(l, local) /\ service' = service
                          /\ service \in Services
                          /\ helpers' \in HelperRecords /\ HelpersStand(runner, l, helpers')
  BY <1>0, <1>1, CommandIs DEF Alike
<1>3. SessionStands(service, l)
  BY <1>2 DEF InvocationInv, SessionStands, Alike
<1>4. SessionAt(runner, pc', service, l)
  BY <1>0, <1>1, <1>2 DEF InvocationInv, SessionAt, Before, Alike
<1> QED BY <1>0, <1>1, <1>2, <1>3, <1>4, HostedStep

\* The session is believed to be over only on an answer that shows it.
LEMMA WaitKeeps == ASSUME InvocationInv, Wait PROVE InvocationInv'
<1>0. pc = "wait" /\ runner \in Hosts /\ HostedKept
  BY TalkingIsHosted DEF Wait, Talking, Kept, HostedKept
<1>1. PICK o \in Outcomes(TRUE) :
        LET error == ErrorOf(o)
            ended == service.session \in {"succeeded", "failed"}
            raised == \/ error \in {"cancelled", "timeout", "check", "trace"}
                      \/ error = "api" /\ local.failures + 1 >= Failures
        IN
        /\ Reaches("get", o)
        /\ local' = [Charged(o) EXCEPT
                !.failures = IF error = "api" THEN @ + 1 ELSE 0,
                !.error = IF raised THEN Class(error) ELSE @]
        /\ pc' = CASE raised -> IF runner = "opencode" THEN "interrupt" ELSE "brokers"
                   [] error = "none" /\ ended -> "messages"
                   [] OTHER -> "wait"
  BY Zenon DEF Wait
<1>2. PICK raised \in BOOLEAN :
        /\ raised <=> \/ ErrorOf(o) \in {"cancelled", "timeout", "check", "trace"}
                      \/ ErrorOf(o) = "api" /\ local.failures + 1 >= Failures
        /\ local' = [Charged(o) EXCEPT
                !.failures = IF ErrorOf(o) = "api" THEN @ + 1 ELSE 0,
                !.error = IF raised THEN Class(ErrorOf(o)) ELSE @]
        /\ raised => ErrorOf(o) # "none" /\ pc' \in {"interrupt", "brokers"}
        /\ ~raised => \/ pc' = "messages" /\ service.session \in Ended
                      \/ pc' = "wait"
  BY <1>1 DEF Ended
<1>3. PICK k \in Locals : k = Charged(o) /\ Alike(k, local)
  BY <1>0, <1>1, CommandIs
<1>4. PICK e \in {"none", "failed", "cancelled", "timeout"}, n \in Nat :
        /\ e = IF raised THEN Class(ErrorOf(o)) ELSE k.error
        /\ raised => e # "none"
        /\ n = IF ErrorOf(o) = "api" THEN k.failures + 1 ELSE 0
  BY <1>2 DEF Class, Locals
<1>5. PICK l \in Locals : l = [k EXCEPT !.failures = n, !.error = e]
  BY DEF Locals
<1>6. /\ l.error = e /\ (l.attempted <=> k.attempted) /\ (l.known <=> k.known)
      /\ l.terminal <=> k.terminal
      /\ l.interruption = k.interruption /\ (l.session <=> k.session)
      /\ l.trace = k.trace /\ (l.imported <=> k.imported) /\ (l.control <=> k.control)
      /\ l.media = k.media /\ (l.images <=> k.images)
  BY <1>5 DEF Locals
<1>7. local' = l
  BY <1>2, <1>3, <1>4, <1>5 DEF Locals
<1>8. /\ service' = service /\ service \in Services
      /\ helpers' \in HelperRecords /\ HelpersStand(runner, l, helpers')
  BY <1>0, <1>1, <1>3, <1>6, CommandIs DEF Alike
<1>9. SessionStands(service, l)
  BY <1>3, <1>6 DEF InvocationInv, SessionStands, Alike
<1>10. SessionAt(runner, pc', service, l)
  BY <1>0, <1>2, <1>3, <1>4, <1>6 DEF InvocationInv, SessionAt, Before, Alike
<1>11. pc' \in {"messages", "wait", "interrupt", "brokers"}
  BY <1>2
<1> QED BY <1>0, <1>7, <1>8, <1>9, <1>10, <1>11, HostedStep

\* What the messages show of the session is so when they are read.
LEMMA MessagesKeeps == ASSUME InvocationInv, Messages PROVE InvocationInv'
<1>0. pc = "messages" /\ runner \in Hosts /\ HostedKept
  BY TalkingIsHosted DEF Messages, Talking, Kept, HostedKept
<1>1. PICK o \in Outcomes(TRUE), p \in Projections :
        LET error == ErrorOf(o)
            good == error = "none" /\ p.valid IN
        /\ Reaches("messages", o)
        /\ pc' = IF good THEN "resources" ELSE "brokers"
        /\ local' = [Charged(o) EXCEPT
                !.error = IF good THEN @ ELSE Class(error),
                !.trace = CASE ~good -> @
                            [] ParseTrace(service.session, p, runner = "opencode") -> "good"
                            [] OTHER -> "bad"]
  BY Zenon DEF Messages
<1>2. PICK good \in BOOLEAN :
        /\ good <=> ErrorOf(o) = "none" /\ p.valid
        /\ pc' = IF good THEN "resources" ELSE "brokers"
        /\ local' = [Charged(o) EXCEPT
                !.error = IF good THEN @ ELSE Class(ErrorOf(o)),
                !.trace = CASE ~good -> @
                            [] ParseTrace(service.session, p, runner = "opencode") -> "good"
                            [] OTHER -> "bad"]
  BY <1>1
<1>3. PICK k \in Locals : k = Charged(o) /\ Alike(k, local)
  BY <1>0, <1>1, CommandIs
<1>4. PICK e \in {"none", "failed", "cancelled", "timeout"}, t \in {"none", "good", "bad"} :
        /\ e = IF good THEN k.error ELSE Class(ErrorOf(o))
        /\ ~good => e # "none"
        /\ t = CASE ~good -> k.trace
                 [] ParseTrace(service.session, p, runner = "opencode") -> "good"
                 [] OTHER -> "bad"
        /\ t = "good" => t = k.trace \/ service.session = "succeeded"
  BY <1>2 DEF Class, Locals, ParseTrace
<1>5. PICK l \in Locals : l = [k EXCEPT !.error = e, !.trace = t]
  BY DEF Locals
<1>6. /\ l.error = e /\ (l.attempted <=> k.attempted) /\ (l.known <=> k.known)
      /\ l.terminal <=> k.terminal
      /\ l.interruption = k.interruption /\ (l.session <=> k.session)
      /\ l.trace = t /\ (l.imported <=> k.imported) /\ (l.control <=> k.control)
      /\ l.media = k.media /\ (l.images <=> k.images)
  BY <1>5 DEF Locals
<1>7. local' = l
  BY <1>2, <1>3, <1>4, <1>5 DEF Locals
<1>8. /\ service' = service /\ service \in Services
      /\ helpers' \in HelperRecords /\ HelpersStand(runner, l, helpers')
  BY <1>0, <1>1, <1>3, <1>6, CommandIs DEF Alike
<1>9. SessionStands(service, l)
  BY <1>3, <1>6 DEF InvocationInv, SessionStands, Alike
<1>10. SessionAt(runner, pc', service, l)
  BY <1>0, <1>2, <1>3, <1>4, <1>6 DEF InvocationInv, SessionAt, Before, Alike
<1>11. pc' \in {"resources", "brokers"}
  BY <1>2
<1> QED BY <1>0, <1>7, <1>8, <1>9, <1>10, <1>11, HostedStep

\* What lists no terminal of a session that is over will not list one later.
LEMMA ResourcesKeeps == ASSUME InvocationInv, Resources PROVE InvocationInv'
<1>0. pc = "resources" /\ runner \in Hosts /\ HostedKept
  BY TalkingIsHosted DEF Resources, Talking, Kept, HostedKept
<1>1. PICK o \in Outcomes(FALSE), fine \in BOOLEAN :
        /\ Reaches("list", o)
        /\ local' = [Charged(o) EXCEPT
                !.session = Snapshot(o),
                !.error = IF Snapshot(o) /\ fine /\ local.trace = "good" THEN @ ELSE "failed"]
  BY DEF Resources
<1>2. PICK k \in Locals : k = Charged(o) /\ Alike(k, local)
  BY <1>0, <1>1, CommandIs
<1>3. PICK shown \in BOOLEAN : shown = Snapshot(o) /\ (shown => ~service.terminals)
  BY DEF Snapshot
<1>4. PICK e \in {"none", "failed", "cancelled", "timeout"} :
        /\ e = IF shown /\ fine /\ local.trace = "good" THEN k.error ELSE "failed"
        /\ e = "none" => local.trace = "good"
  BY DEF Locals
<1>5. PICK l \in Locals : l = [k EXCEPT !.session = shown, !.error = e]
  BY DEF Locals
<1>6. /\ l.error = e /\ (l.attempted <=> k.attempted) /\ (l.known <=> k.known)
      /\ l.terminal <=> k.terminal
      /\ l.interruption = k.interruption /\ (l.session <=> shown)
      /\ l.trace = k.trace /\ (l.imported <=> k.imported) /\ (l.control <=> k.control)
      /\ l.media = k.media /\ (l.images <=> k.images)
  BY <1>5 DEF Locals
<1>7. local' = l
  BY <1>1, <1>2, <1>3, <1>4, <1>5 DEF Locals
<1>8. /\ service' = service /\ service \in Services
      /\ helpers' \in HelperRecords /\ HelpersStand(runner, l, helpers')
  BY <1>0, <1>1, <1>2, <1>6, CommandIs DEF Alike
<1>9. service.session \in Ended /\ local.known
  BY <1>0 DEF InvocationInv, SessionAt
<1>10. SessionStands(service, l)
  BY <1>2, <1>3, <1>6, <1>9 DEF InvocationInv, SessionStands, Alike
<1>11. \/ pc' = "import" /\ l.error = "none"
       \/ pc' = "brokers" /\ l.error # "none"
  BY <1>0, <1>7 DEF Resources
<1>12. SessionAt(runner, pc', service, l)
  BY <1>0, <1>2, <1>4, <1>6, <1>9, <1>11 DEF InvocationInv, SessionAt, Before, Alike
<1> QED BY <1>0, <1>7, <1>8, <1>10, <1>11, <1>12, HostedStep

\* The request to interrupt concludes nothing; the looks after it do.
LEMMA InterruptKeeps == ASSUME InvocationInv, Interrupt PROVE InvocationInv'
<1>0. pc = "interrupt" /\ runner \in Hosts /\ HostedKept /\ pc' = "observe"
  BY TalkingIsHosted DEF Interrupt, Talking, Kept, HostedKept
<1>1. PICK o \in Outcomes(FALSE) : Reaches("interrupt", o) /\ local' = Charged(o)
  BY DEF Interrupt
<1>2. PICK l \in Locals : /\ l = local' /\ Alike(l, local) /\ service' = service
                          /\ service \in Services
                          /\ helpers' \in HelperRecords /\ HelpersStand(runner, l, helpers')
  BY <1>0, <1>1, CommandIs DEF Alike
<1>3. SessionStands(service, l)
  BY <1>2 DEF InvocationInv, SessionStands, Alike
<1>4. SessionAt(runner, pc', service, l)
  BY <1>0, <1>1, <1>2 DEF InvocationInv, SessionAt, Before, Alike
<1> QED BY <1>0, <1>2, <1>3, <1>4, HostedStep

\* A session that is seen to be over stays so.
LEMMA ObserveKeeps == ASSUME InvocationInv, Observe PROVE InvocationInv'
<1>0. pc = "observe" /\ runner \in Hosts /\ HostedKept /\ pc' = "listing"
  BY TalkingIsHosted DEF Observe, Talking, Kept, HostedKept
<1>1. PICK o \in Outcomes(FALSE) :
        /\ Reaches("get", o)
        /\ local' = [Charged(o) EXCEPT !.terminal =
                ErrorOf(o) = "none" /\ service.session \in {"succeeded", "failed"}]
  BY DEF Observe
<1>2. PICK k \in Locals : k = Charged(o) /\ Alike(k, local)
  BY <1>0, <1>1, CommandIs
<1>3. PICK seen \in BOOLEAN :
        /\ seen = (ErrorOf(o) = "none" /\ service.session \in {"succeeded", "failed"})
        /\ seen => service.session \in Ended
  BY DEF Ended
<1>4. PICK l \in Locals : l = [k EXCEPT !.terminal = seen]
  BY DEF Locals
<1>5. /\ l.error = k.error /\ (l.attempted <=> k.attempted) /\ (l.known <=> k.known)
      /\ l.terminal <=> seen
      /\ l.interruption = k.interruption /\ (l.session <=> k.session)
      /\ l.trace = k.trace /\ (l.imported <=> k.imported) /\ (l.control <=> k.control)
      /\ l.media = k.media /\ (l.images <=> k.images)
  BY <1>4 DEF Locals
<1>6. local' = l
  BY <1>1, <1>2, <1>3, <1>4 DEF Locals
<1>7. /\ service' = service /\ service \in Services
      /\ helpers' \in HelperRecords /\ HelpersStand(runner, l, helpers')
  BY <1>0, <1>1, <1>2, <1>5, CommandIs DEF Alike
<1>8. SessionStands(service, l)
  BY <1>2, <1>5 DEF InvocationInv, SessionStands, Alike
<1>9. SessionAt(runner, pc', service, l)
  BY <1>0, <1>2, <1>3, <1>5 DEF InvocationInv, SessionAt, Before, Alike
<1> QED BY <1>0, <1>6, <1>7, <1>8, <1>9, HostedStep

\* The listing verifies an interruption only of a session seen to be over.
LEMMA ListingKeeps == ASSUME InvocationInv, Listing PROVE InvocationInv'
<1>0. pc = "listing" /\ runner \in Hosts /\ HostedKept /\ pc' \in {"brokers", "partial"}
  BY TalkingIsHosted DEF Listing, Talking, Kept, HostedKept
<1>1. PICK o \in Outcomes(FALSE) :
        /\ Reaches("list", o)
        /\ local' = [Charged(o) EXCEPT !.interruption =
                IF local.terminal /\ Snapshot(o) THEN "verified" ELSE "unverified"]
  BY DEF Listing
<1>2. PICK k \in Locals : k = Charged(o) /\ Alike(k, local)
  BY <1>0, <1>1, CommandIs
<1>3. PICK verdict \in {"verified", "unverified"} :
        /\ verdict = IF local.terminal /\ Snapshot(o) THEN "verified" ELSE "unverified"
        /\ verdict = "verified" => local.terminal /\ ~service.terminals
  BY DEF Snapshot
<1>4. PICK l \in Locals : l = [k EXCEPT !.interruption = verdict]
  BY DEF Locals
<1>5. /\ l.error = k.error /\ (l.attempted <=> k.attempted) /\ (l.known <=> k.known)
      /\ l.terminal <=> k.terminal
      /\ l.interruption = verdict /\ (l.session <=> k.session)
      /\ l.trace = k.trace /\ (l.imported <=> k.imported) /\ (l.control <=> k.control)
      /\ l.media = k.media /\ (l.images <=> k.images)
  BY <1>4 DEF Locals
<1>6. local' = l
  BY <1>1, <1>2, <1>3, <1>4 DEF Locals
<1>7. /\ service' = service /\ service \in Services
      /\ helpers' \in HelperRecords /\ HelpersStand(runner, l, helpers')
  BY <1>0, <1>1, <1>2, <1>5, CommandIs DEF Alike
<1>8. SessionStands(service, l)
  BY <1>0, <1>2, <1>3, <1>5 DEF InvocationInv, SessionStands, SessionAt, Alike
<1>9. SessionAt(runner, pc', service, l)
  BY <1>0, <1>2, <1>3, <1>5 DEF InvocationInv, SessionAt, Before, Alike
<1> QED BY <1>0, <1>6, <1>7, <1>8, <1>9, HostedStep

\* Reading a partial answer changes nothing of the session.
LEMMA PartialKeeps == ASSUME InvocationInv, Partial PROVE InvocationInv'
<1>0. pc = "partial" /\ runner \in Hosts /\ HostedKept /\ pc' = "verdict"
  BY TalkingIsHosted DEF Partial, Talking, Kept, HostedKept
<1>1. PICK l \in Locals : /\ l = local' /\ Alike(l, local) /\ service' = service
                          /\ service \in Services
                          /\ helpers' \in HelperRecords /\ HelpersStand(runner, l, helpers')
  <2>1. CASE UNCHANGED <<local, service, helpers>>
    BY <2>1, ServiceTypes DEF InvocationInv, Types, Alike
  <2>2. CASE \E o \in Outcomes(FALSE) : Reaches("messages", o) /\ local' = Charged(o)
    <3>1. PICK o \in Outcomes(FALSE) : Reaches("messages", o) /\ local' = Charged(o)
      BY <2>2
    <3> QED BY <1>0, <3>1, CommandIs DEF Alike
  <2> QED BY <2>1, <2>2 DEF Partial
<1>2. SessionStands(service, l)
  BY <1>1 DEF InvocationInv, SessionStands, Alike
<1>3. SessionAt(runner, pc', service, l)
  BY <1>0, <1>1 DEF InvocationInv, SessionAt, Before, Alike
<1> QED BY <1>0, <1>1, <1>2, <1>3, HostedStep

---------------------------------------------------------------------------
(* The threads beside the agent.                                           *)

\* All but the verdict on acquisition.
AlikeButMedia(l, k) ==
    /\ l.error = k.error /\ (l.attempted <=> k.attempted) /\ (l.known <=> k.known)
    /\ (l.control <=> k.control) /\ (l.terminal <=> k.terminal)
    /\ l.interruption = k.interruption
    /\ (l.session <=> k.session) /\ l.trace = k.trace /\ (l.imported <=> k.imported)
    /\ (l.images <=> k.images)

\* Closing media ends its thread or says that it did not.
LEMMA CloseMediaIs ==
  ASSUME InvocationInv, NEW k \in Locals, CloseMedia(k), HelpersStand(runner, k, helpers)
  PROVE  /\ helpers' \in HelperRecords
         /\ \E l \in Locals : /\ l = local' /\ AlikeButMedia(l, k) /\ l.media # "unset"
                              /\ HelpersStand(runner, l, helpers')
<1>0. helpers \in HelperRecords
  BY DEF InvocationInv, Types
<1>1. CASE k.media # "unset"
  BY <1>0, <1>1 DEF CloseMedia, AlikeButMedia
<1>2. CASE k.media = "unset"
  <2>1. PICK late \in BOOLEAN, fetching \in BOOLEAN :
        /\ helpers.media = "absent" => ~late /\ ~fetching
        /\ helpers' = [helpers EXCEPT !.fetching = fetching,
                !.media = CASE helpers.media = "absent" -> "absent"
                            [] late -> "late" [] OTHER -> "dead"]
        /\ local' = [k EXCEPT !.media = IF late \/ fetching THEN "unverified" ELSE "verified"]
    BY <1>2 DEF CloseMedia
  <2>2. PICK verdict \in {"verified", "unverified"} :
            verdict = IF late \/ fetching THEN "unverified" ELSE "verified"
    OBVIOUS
  <2>3. PICK m \in HelperStates :
        /\ m = CASE helpers.media = "absent" -> "absent" [] late -> "late" [] OTHER -> "dead"
        /\ helpers.media = "absent" => m = "absent"
        /\ m = "late" => late
    <3>1. helpers.media = "absent" => ~late
      BY <2>1
    <3> QED BY <3>1 DEF HelperStates
  <2>4. PICK h \in HelperRecords : h = [helpers EXCEPT !.fetching = fetching, !.media = m]
    BY <1>0 DEF HelperRecords
  <2>5. /\ h = helpers' /\ h.images = helpers.images /\ h.strays = helpers.strays
        /\ h.media = m /\ (h.fetching <=> fetching)
    BY <1>0, <2>1, <2>3, <2>4 DEF HelperRecords
  <2>6. PICK l \in Locals : l = [k EXCEPT !.media = verdict]
    BY DEF Locals
  <2>7. l.media = verdict /\ AlikeButMedia(l, k) /\ l = local'
    <3>1. l = local'
      BY <2>1, <2>2, <2>6
    <3>2. l.media = verdict /\ AlikeButMedia(l, k)
      BY <2>6 DEF Locals, AlikeButMedia
    <3> QED BY <3>1, <3>2
  <2>8. HelpersStand(runner, l, h)
    BY <2>1, <2>2, <2>3, <2>5, <2>7 DEF HelpersStand, AlikeButMedia
  <2> QED BY <2>2, <2>5, <2>7, <2>8
<1> QED BY <1>1, <1>2

\* After both closings the locals say of the helpers what is so.
LEMMA CloseHelpersIs ==
  ASSUME InvocationInv, CloseHelpers
  PROVE  /\ helpers' \in HelperRecords
         /\ \E l \in Locals :
                /\ l = local' /\ HelpersStand(runner, l, helpers')
                /\ (l.attempted <=> local.attempted) /\ (l.known <=> local.known)
                /\ (l.terminal <=> local.terminal)
                /\ l.interruption = local.interruption /\ (l.session <=> local.session)
                /\ l.trace = local.trace /\ (l.imported <=> local.imported)
                /\ l.error = "none" =>
                    local.error = "none" /\ l.images /\ l.media = "verified"
<1>0. helpers \in HelperRecords /\ local \in Locals
  BY DEF InvocationInv, Types
<1>1. PICK late \in IF helpers.images = "absent" THEN {FALSE} ELSE BOOLEAN,
           slow \in IF local.media # "unset" \/ helpers.media = "absent"
                    THEN {FALSE} ELSE BOOLEAN,
           fetching \in IF local.media # "unset" \/ helpers.media = "absent"
                        THEN {FALSE} ELSE BOOLEAN :
        LET media == CASE local.media # "unset" -> local.media
                       [] slow \/ fetching -> "unverified"
                       [] OTHER -> "verified"
        IN
        /\ local' = [local EXCEPT !.images = ~late, !.media = media,
                !.error = IF @ = "none" /\ (late \/ media = "unverified") THEN "failed" ELSE @]
        /\ helpers' = [helpers EXCEPT !.fetching = @ \/ fetching,
                !.images = IF @ = "absent" THEN @ ELSE IF late THEN "late" ELSE "dead",
                !.media = CASE local.media # "unset" \/ @ = "absent" -> @
                            [] slow -> "late" [] OTHER -> "dead"]
  BY DEF CloseHelpers
<1>2. /\ late \in BOOLEAN /\ slow \in BOOLEAN /\ fetching \in BOOLEAN
      /\ helpers.images = "absent" => ~late
      /\ local.media # "unset" \/ helpers.media = "absent" => ~slow /\ ~fetching
  OBVIOUS
<1>3. PICK media \in {"verified", "unverified"} :
        /\ media = CASE local.media # "unset" -> local.media
                     [] slow \/ fetching -> "unverified"
                     [] OTHER -> "verified"
        /\ local.media = "unset" /\ (slow \/ fetching) => media = "unverified"
        /\ local.media # "unset" => media = local.media
  BY <1>0, <1>2 DEF Locals
<1>4. PICK e \in {"none", "failed", "cancelled", "timeout"} :
        /\ e = IF local.error = "none" /\ (late \/ media = "unverified") THEN "failed"
               ELSE local.error
        /\ e = "none" => local.error = "none" /\ ~late /\ media = "verified"
  BY <1>0 DEF Locals
<1>5. PICK images \in BOOLEAN : images = ~late
  BY <1>2
<1>6. PICK l \in Locals : l = [local EXCEPT !.images = images, !.media = media, !.error = e]
  BY <1>0 DEF Locals
<1>7. /\ (l.attempted <=> local.attempted) /\ (l.known <=> local.known)
      /\ (l.control <=> local.control)
      /\ (l.terminal <=> local.terminal)
      /\ l.interruption = local.interruption /\ (l.session <=> local.session)
      /\ l.trace = local.trace /\ (l.imported <=> local.imported)
      /\ l.error = e /\ l.media = media /\ (l.images <=> images)
  BY <1>0, <1>6 DEF Locals
<1>8. l = local'
  BY <1>0, <1>1, <1>3, <1>4, <1>5, <1>6 DEF Locals
<1>9. PICK f \in BOOLEAN : f = (helpers.fetching \/ fetching)
  OBVIOUS
<1>10. PICK i \in HelperStates, m \in HelperStates :
        /\ i = IF helpers.images = "absent" THEN helpers.images
               ELSE IF late THEN "late" ELSE "dead"
        /\ m = CASE local.media # "unset" \/ helpers.media = "absent" -> helpers.media
                 [] slow -> "late" [] OTHER -> "dead"
        /\ i = "late" => late
        /\ helpers.images = "absent" => i = "absent"
        /\ m = "late" => slow \/ m = helpers.media
        /\ helpers.media = "absent" => m = "absent"
  BY <1>0, <1>2 DEF HelperStates, HelperRecords
<1>11. PICK h \in HelperRecords : h = [helpers EXCEPT !.fetching = f, !.images = i, !.media = m]
  BY <1>0 DEF HelperRecords
<1>12. /\ h.strays = helpers.strays /\ h.media = m /\ h.images = i /\ (h.fetching <=> f)
  BY <1>0, <1>11 DEF HelperRecords
<1>13. h = helpers'
  BY <1>0, <1>1, <1>9, <1>10, <1>11 DEF HelperRecords
<1>14. HelpersStand(runner, l, h)
  <2>1. HelpersStand(runner, local, helpers)
    BY DEF InvocationInv
  <2>2. (l.control => h.strays = 0) /\ (runner \notin Hosts => l.control)
    BY <1>7, <1>12, <2>1 DEF HelpersStand
  <2>3. h.images = "late" => ~l.images
    BY <1>2, <1>5, <1>7, <1>10, <1>12
  <2>4. l.media # "unverified" => h.media # "late" /\ ~h.fetching
    BY <1>0, <1>2, <1>3, <1>7, <1>9, <1>10, <1>12, <2>1 DEF HelpersStand, Locals
  <2>5. runner \in {"synthetic", "sample", "isolated"} =>
            h.media = "absent" /\ h.images = "absent" /\ ~h.fetching
    BY <1>2, <1>9, <1>10, <1>12, <2>1 DEF HelpersStand
  <2> QED BY <2>2, <2>3, <2>4, <2>5 DEF HelpersStand
<1> QED BY <1>4, <1>5, <1>7, <1>8, <1>11, <1>13, <1>14

\* The import is noted, and a bad one is an error.
LEMMA ImportedIs ==
  ASSUME InvocationInv, NEW good \in BOOLEAN
  PROVE  \E l \in Locals : /\ l = Imported(good) /\ (l.imported <=> good)
                           /\ l.error = IF good THEN local.error ELSE "failed"
                           /\ (l.attempted <=> local.attempted) /\ (l.known <=> local.known)
                           /\ (l.control <=> local.control) /\ (l.terminal <=> local.terminal)
                           /\ l.interruption = local.interruption
                           /\ (l.session <=> local.session) /\ l.trace = local.trace
                           /\ (l.images <=> local.images) /\ l.media = local.media
<1>1. local \in Locals
  BY DEF InvocationInv, Types
<1>2. PICK e \in {"none", "failed", "cancelled", "timeout"} :
        e = IF good THEN local.error ELSE "failed"
  BY <1>1 DEF Locals
<1>3. PICK l \in Locals : l = [local EXCEPT !.imported = good, !.error = e]
  BY <1>1 DEF Locals
<1>4. /\ (l.imported <=> good) /\ l.error = e
      /\ (l.attempted <=> local.attempted) /\ (l.known <=> local.known)
      /\ (l.control <=> local.control) /\ (l.terminal <=> local.terminal)
      /\ l.interruption = local.interruption
      /\ (l.session <=> local.session) /\ l.trace = local.trace
      /\ (l.images <=> local.images) /\ l.media = local.media
  BY <1>1, <1>3 DEF Locals
<1>5. l = Imported(good)
  BY <1>1, <1>2, <1>3 DEF Imported, Locals
<1> QED BY <1>2, <1>4, <1>5

AlikeButError(l, k) ==
    /\ (l.attempted <=> k.attempted) /\ (l.known <=> k.known)
    /\ (l.control <=> k.control) /\ (l.terminal <=> k.terminal)
    /\ l.interruption = k.interruption
    /\ (l.session <=> k.session) /\ l.trace = k.trace /\ (l.imported <=> k.imported)
    /\ l.media = k.media /\ (l.images <=> k.images)

\* Only the error of the phase and its equipment differ.
LEMMA EquipIs ==
  ASSUME InvocationInv, NEW next, Equip(next)
  PROVE  /\ pc = "setup" /\ UNCHANGED <<runner, result, outside, service, turn, collector, child>>
         /\ helpers' \in HelperRecords
         /\ \E l \in Locals :
                /\ l = local' /\ HelpersStand(runner, l, helpers) /\ AlikeButError(l, local)
                /\ \/ pc' = next /\ l = local
                   \/ pc' = "brokers" /\ l.error = "failed"
                /\ runner \notin {"synthetic", "sample", "isolated"} \/ helpers' = helpers
                    => HelpersStand(runner, l, helpers')
<1>1. /\ local \in Locals /\ helpers \in HelperRecords /\ HelpersStand(runner, local, helpers)
  BY DEF InvocationInv, Types
<1>2. PICK l \in Locals : /\ l = local'
                          /\ \/ pc' = next /\ l = local
                             \/ pc' = "brokers" /\ l = [local EXCEPT !.error = "failed"]
  BY <1>1 DEF Equip, Locals
<1>3. /\ AlikeButError(l, local)
      /\ \/ pc' = next /\ l = local
         \/ pc' = "brokers" /\ l.error = "failed"
  BY <1>1, <1>2 DEF AlikeButError, Locals
<1>4. HelpersStand(runner, l, helpers)
  BY <1>1, <1>3 DEF HelpersStand, AlikeButError
<1>5. PICK media \in HelperStates, images \in HelperStates :
        /\ media # "late" /\ images # "late"
        /\ helpers' = [helpers EXCEPT !.media = media, !.images = images]
  BY DEF Equip, HelperStates
<1>6. PICK h \in HelperRecords : h = [helpers EXCEPT !.media = media, !.images = images]
  BY <1>1 DEF HelperRecords
<1>7. /\ h = helpers' /\ h.media = media /\ h.images = images
      /\ h.strays = helpers.strays /\ (h.fetching <=> helpers.fetching)
  BY <1>1, <1>5, <1>6 DEF HelperRecords
<1>8. ASSUME runner \notin {"synthetic", "sample", "isolated"}
      PROVE  HelpersStand(runner, l, h)
  BY <1>4, <1>5, <1>7, <1>8 DEF HelpersStand
<1>9. pc = "setup" /\ UNCHANGED <<runner, result, outside, service, turn, collector, child>>
  BY DEF Equip
<1> QED BY <1>2, <1>3, <1>4, <1>7, <1>8, <1>9

---------------------------------------------------------------------------
(* The rest of a phase that is given to a session.                         *)

\* A runner cancelled or late before it began goes straight to its closings.
LEMMA GuardedKeeps == ASSUME InvocationInv, Guarded PROVE InvocationInv'
<1>0. /\ pc = "setup" /\ runner \in Hosts /\ pc' = "brokers" /\ HostedKept
      /\ service' = service /\ helpers' = helpers
  BY DEF Guarded, hosted, Hosts, HostedKept
<1>1. /\ local \in Locals /\ service \in Services /\ helpers \in HelperRecords
      /\ HelpersStand(runner, local, helpers)
  BY DEF InvocationInv, Types
<1>2. PICK e \in {"cancelled", "timeout"} : local' = [local EXCEPT !.error = e]
  BY DEF Guarded
<1>3. PICK l \in Locals : l = [local EXCEPT !.error = e]
  BY <1>1 DEF Locals
<1>4. l = local' /\ AlikeButError(l, local) /\ l.error # "none"
  BY <1>1, <1>2, <1>3 DEF Locals, AlikeButError
<1>5. HelpersStand(runner, l, helpers)
  BY <1>1, <1>4 DEF HelpersStand, AlikeButError
<1>6. SessionStands(service, l) /\ SessionAt(runner, pc', service, l)
  BY <1>0, <1>4 DEF InvocationInv, SessionStands, SessionAt, Before, AlikeButError, Talking
<1> QED BY <1>0, <1>1, <1>3, <1>4, <1>5, <1>6, HostedStep

\* A runner with a service starts its helpers and knows no session.
LEMMA SetupHostedKeeps ==
  ASSUME InvocationInv, runner \in Hosts, Equip("probe"),
         runner = "synthetic" => helpers' = helpers
  PROVE  InvocationInv'
<1>1. PICK l \in Locals :
        /\ l = local' /\ AlikeButError(l, local) /\ HelpersStand(runner, l, helpers')
        /\ \/ pc' = "probe"
           \/ pc' = "brokers" /\ l.error = "failed"
  BY EquipIs DEF Hosts
<1>2. /\ pc = "setup" /\ helpers' \in HelperRecords /\ HostedKept /\ service' = service
  BY EquipIs DEF HostedKept
<1>3. service \in Services
  BY DEF InvocationInv, Types
<1>4. SessionStands(service, l) /\ SessionAt(runner, pc', service, l)
  BY <1>1, <1>2 DEF InvocationInv, SessionStands, SessionAt, Before, AlikeButError
<1>5. pc' \notin {"done", "spawn", "process", "judge", "sampled"}
  BY <1>1
<1> QED BY <1>1, <1>2, <1>3, <1>4, <1>5, HostedStep

\* OpenCode sets up.
LEMMA SetupSessionKeeps == ASSUME InvocationInv, SetupSession PROVE InvocationInv'
BY SetupHostedKeeps DEF SetupSession, Hosts

\* The synthetic runner sets up.
LEMMA SetupSyntheticKeeps == ASSUME InvocationInv, SetupSynthetic PROVE InvocationInv'
BY SetupHostedKeeps DEF SetupSynthetic, Hosts

\* OpenCode imports before its helpers are closed.
LEMMA ImportSessionKeeps == ASSUME InvocationInv, ImportSession PROVE InvocationInv'
<1>0. /\ pc = "import" /\ runner \in Hosts /\ pc' = "brokers" /\ HostedKept /\ service' = service
  BY DEF ImportSession, Hosts, HostedKept
<1>1. /\ service \in Services /\ helpers \in HelperRecords /\ HelpersStand(runner, local, helpers)
      /\ local.trace = "good"
  BY <1>0 DEF InvocationInv, Types, SessionAt
<1>2. PICK good \in BOOLEAN : \/ good /\ CloseMedia(Imported(TRUE))
                              \/ ~good /\ local' = Imported(FALSE) /\ UNCHANGED helpers
  BY DEF ImportSession
<1>3. PICK k \in Locals : /\ k = Imported(good) /\ (k.imported <=> good)
                          /\ k.error = IF good THEN local.error ELSE "failed"
                          /\ (k.attempted <=> local.attempted) /\ (k.known <=> local.known)
                          /\ (k.control <=> local.control) /\ (k.terminal <=> local.terminal)
                          /\ k.interruption = local.interruption
                          /\ (k.session <=> local.session) /\ k.trace = local.trace
                          /\ (k.images <=> local.images) /\ k.media = local.media
  BY ImportedIs
<1>4. HelpersStand(runner, k, helpers)
  BY <1>1, <1>3 DEF HelpersStand
<1>5. PICK l \in Locals : /\ l = local' /\ AlikeButMedia(l, k)
                          /\ helpers' \in HelperRecords /\ HelpersStand(runner, l, helpers')
  <2>1. CASE good
    BY <1>2, <1>3, <1>4, <2>1, CloseMediaIs
  <2>2. CASE ~good
    BY <1>1, <1>2, <1>3, <1>4, <2>2 DEF AlikeButMedia
  <2> QED BY <2>1, <2>2
<1>6. SessionStands(service, l)
  BY <1>3, <1>5 DEF InvocationInv, SessionStands, AlikeButMedia
<1>7. SessionAt(runner, pc', service, l)
  BY <1>0, <1>1, <1>3, <1>5 DEF InvocationInv, SessionAt, Before, AlikeButMedia, Talking
<1> QED BY <1>0, <1>1, <1>5, <1>6, <1>7, HostedStep

\* The final block closes the helpers whatever happened.
LEMMA FinallySessionKeeps == ASSUME InvocationInv, FinallySession PROVE InvocationInv'
<1>0. /\ pc = "brokers" /\ runner \in Hosts /\ HostedKept /\ service' = service
      /\ CloseHelpers
      /\ pc' = IF local.known /\ local.interruption = "none" /\ local'.error # "none"
               THEN "interrupt" ELSE "partial"
  BY DEF FinallySession, hosted, Hosts, HostedKept
<1>1. service \in Services
  BY DEF InvocationInv, Types
<1>2. PICK l \in Locals :
        /\ l = local' /\ HelpersStand(runner, l, helpers') /\ helpers' \in HelperRecords
        /\ (l.attempted <=> local.attempted) /\ (l.known <=> local.known)
        /\ (l.terminal <=> local.terminal)
        /\ l.interruption = local.interruption /\ (l.session <=> local.session)
        /\ l.trace = local.trace /\ (l.imported <=> local.imported)
        /\ l.error = "none" => local.error = "none" /\ l.images /\ l.media = "verified"
  BY <1>0, CloseHelpersIs
<1>3. SessionStands(service, l)
  BY <1>2 DEF InvocationInv, SessionStands
<1>4. SessionAt(runner, pc', service, l)
  BY <1>0, <1>2 DEF InvocationInv, SessionAt, Before
<1>5. pc' \notin {"done", "spawn", "process", "judge", "sampled"}
  BY <1>0
<1> QED BY <1>0, <1>1, <1>2, <1>3, <1>4, <1>5, HostedStep

\* A session that is called clean is over, or was never asked for.
LEMMA CleanSession ==
  ASSUME InvocationInv, runner \in Hosts, SessionClean
  PROVE  /\ service.session \in {"none", "succeeded", "failed"} /\ service.late = "none"
         /\ ~service.terminals
         /\ Visible = {} /\ child.holding = {}
         /\ helpers.strays = 0 /\ ~helpers.fetching
         /\ "late" \notin {helpers.media, helpers.images}
<1>1. /\ service \in Services /\ local \in Locals /\ helpers \in HelperRecords
      /\ SessionStands(service, local) /\ HelpersStand(runner, local, helpers)
      /\ child = NoChild
  BY DEF InvocationInv, Types, CommandAt
<1>2. /\ service.session \in {"none", "succeeded", "failed"} /\ service.late = "none"
      /\ ~service.terminals
  <2>1. CASE local.known
    <3>1. service.session \in Ended /\ ~service.terminals
      BY <1>1, <2>1 DEF SessionClean, SessionStands, Locals
    <3> QED BY <1>1, <2>1, <3>1 DEF SessionStands, Ended, Services
  <2>2. CASE ~local.known
    BY <1>1, <2>2 DEF SessionClean, SessionStands
  <2> QED BY <2>1, <2>2
<1>3. Visible = {} /\ child.holding = {}
  BY <1>1 DEF Visible, NoChild
<1>4. /\ helpers.strays = 0 /\ ~helpers.fetching
      /\ "late" \notin {helpers.media, helpers.images}
  BY <1>1 DEF SessionClean, HelpersStand
<1> QED BY <1>2, <1>3, <1>4

CleanNow ==
    /\ service.session \in {"none", "succeeded", "failed"} /\ service.late = "none"
    /\ ~service.terminals
    /\ Visible = {} /\ child.holding = {}
    /\ helpers.strays = 0 /\ ~helpers.fetching
    /\ "late" \notin {helpers.media, helpers.images}
    /\ runner \in {"antigravity", "sample"} /\ child.spawned => turn.over

EarnedNow ==
    /\ runner # "isolated" => local.imported
    /\ hosted => service.session = "succeeded"
    /\ runner \in {"codex", "antigravity", "sample"} => turn.over /\ turn.active = {}

\* A verdict that is earned and clean, when it says so, keeps the promise.
LEMMA VerdictKeeps ==
  ASSUME InvocationInv, NEW cleanup \in BOOLEAN, NEW success \in BOOLEAN,
         Return(cleanup, success), cleanup => CleanNow,
         success => EarnedNow /\ (runner # "synthetic" => cleanup)
  PROVE  InvocationInv'
<1>0. /\ pc = "verdict" /\ pc' = "done" /\ result' = [cleanup |-> cleanup, success |-> success]
      /\ UNCHANGED <<runner, local, outside, service, turn, collector, helpers, child>>
  BY DEF Return
<1>1. Types'
  BY <1>0 DEF InvocationInv, Types
<1>2. /\ SessionStands(service, local)' /\ HelpersStand(runner, local, helpers)'
      /\ CollectorStands(runner, collector, turn)' /\ TraceStands(runner, local, collector, turn)'
      /\ ChildStands(child)'
  BY <1>0 DEF InvocationInv
<1>3. SessionAt(runner, pc, service, local)'
  BY <1>0 DEF InvocationInv, SessionAt, Before, Talking
<1>4. CommandAt(runner, pc, local, child)'
  BY <1>0 DEF InvocationInv, CommandAt
<1>5. CleanupIsTrue'
  BY <1>0 DEF CleanupIsTrue, CleanNow, Visible
<1>6. SuccessIsEarned'
  BY <1>0 DEF SuccessIsEarned, EarnedNow, hosted
<1> QED BY <1>1, <1>2, <1>3, <1>4, <1>5, <1>6 DEF InvocationInv

\* OpenCode's verdict looks at the session, the helpers and the import.
LEMMA VerdictSessionKeeps == ASSUME InvocationInv, VerdictSession PROVE InvocationInv'
<1>0. runner = "opencode" /\ pc = "verdict" /\ runner \in Hosts
  BY DEF VerdictSession, Return, Hosts
<1>1. PICK cleanup \in BOOLEAN : cleanup = SessionClean
  BY DEF SessionClean
<1>2. PICK success \in BOOLEAN : success = (local.error = "none" /\ SessionClean)
  OBVIOUS
<1>3. Return(cleanup, success)
  BY <1>1, <1>2, Zenon DEF VerdictSession
<1>4. cleanup => CleanNow
  BY <1>0, <1>1, CleanSession DEF CleanNow
<1>5. success => EarnedNow /\ cleanup
  BY <1>0, <1>1, <1>2 DEF InvocationInv, SessionAt, EarnedNow
<1> QED BY <1>3, <1>4, <1>5, VerdictKeeps

\* The synthetic verdict looks at its calls and its helpers.
LEMMA VerdictSyntheticKeeps == ASSUME InvocationInv, VerdictSynthetic PROVE InvocationInv'
<1>0. runner = "synthetic" /\ pc = "verdict" /\ runner \in Hosts
  BY DEF VerdictSynthetic, Return, Hosts
<1>1. PICK cleanup \in BOOLEAN : cleanup = SessionClean
  BY DEF SessionClean
<1>2. PICK success \in BOOLEAN : success = (local.error = "none")
  OBVIOUS
<1>3. Return(cleanup, success)
  BY <1>1, <1>2, Zenon DEF VerdictSynthetic
<1>4. cleanup => CleanNow
  BY <1>0, <1>1, CleanSession DEF CleanNow
<1>5. success => EarnedNow
  BY <1>0, <1>2 DEF InvocationInv, SessionAt, EarnedNow
<1> QED BY <1>0, <1>3, <1>4, <1>5, VerdictKeeps

---------------------------------------------------------------------------
(* Cancellation, the clock and the service.                                *)

\* Steps outside the invocation change nothing it knows.
LEMMA OutsideKeeps ==
  ASSUME InvocationInv,
         UNCHANGED <<runner, pc, local, result, service, turn, collector, helpers, child>>
  PROVE  InvocationInv'
<1>1. Types'
  BY DEF InvocationInv, Types
<1>2. /\ SessionStands(service, local)' /\ HelpersStand(runner, local, helpers)'
      /\ CollectorStands(runner, collector, turn)' /\ TraceStands(runner, local, collector, turn)'
      /\ ChildStands(child)' /\ SessionAt(runner, pc, service, local)'
      /\ CommandAt(runner, pc, local, child)'
  BY DEF InvocationInv
<1>3. CleanupIsTrue' /\ SuccessIsEarned'
  BY DEF InvocationInv, CleanupIsTrue, SuccessIsEarned, Visible, hosted
<1> QED BY <1>1, <1>2, <1>3 DEF InvocationInv

\* A session that is over stays over, a request that arrives late arrives where
\* the client does not believe it knows the session.
LEMMA SessionActsKeeps == ASSUME InvocationInv, SessionActs PROVE InvocationInv'
<1>0. UNCHANGED <<runner, pc, local, result, outside, turn, collector, helpers, child>>
  BY DEF SessionActs
<1>1. service \in Services /\ SessionStands(service, local) /\ SessionAt(runner, pc, service, local)
  BY DEF InvocationInv, Types
<1>2. PICK s \in Services :
        /\ s = service'
        /\ \/ service.session = "working" /\ s.session \in Ended
                /\ s.late = service.late /\ (s.terminals <=> service.terminals)
           \/ service.session = "working" /\ s.session = "working" /\ s.late = service.late
           \/ service.terminals /\ s.session = service.session /\ s.late = service.late
                /\ ~s.terminals
           \/ service.late = "create" /\ s.late = "none" /\ (s.terminals <=> service.terminals)
                /\ s.session = IF service.session = "none" THEN "idle" ELSE service.session
           \/ service.late = "prompt" /\ s.late = "none" /\ (s.terminals <=> service.terminals)
                /\ s.session = IF service.session = "idle" THEN "working" ELSE service.session
  <2>1. CASE /\ service.session = "working"
             /\ \E outcome \in {"succeeded", "failed"} :
                    service' = [service EXCEPT !.session = outcome]
    <3>1. PICK outcome \in {"succeeded", "failed"} : service' = [service EXCEPT !.session = outcome]
      BY <2>1
    <3> QED BY <1>1, <2>1, <3>1 DEF Services, Ended
  <2>2. CASE service.session = "working" /\ service' = [service EXCEPT !.terminals = TRUE]
    <3>1. PICK s \in Services : s = [service EXCEPT !.terminals = TRUE]
      BY <1>1 DEF Services
    <3>2. s.session = service.session /\ s.late = service.late
      BY <1>1, <3>1 DEF Services
    <3> QED BY <2>2, <3>1, <3>2
  <2>3. CASE service.terminals /\ service' = [service EXCEPT !.terminals = FALSE]
    <3>1. PICK s \in Services : s = [service EXCEPT !.terminals = FALSE]
      BY <1>1 DEF Services
    <3>2. s.session = service.session /\ s.late = service.late /\ ~s.terminals
      BY <1>1, <3>1 DEF Services
    <3> QED BY <2>3, <3>1, <3>2
  <2>4. CASE service.late # "none" /\ service' = [Effect(service, service.late) EXCEPT !.late = "none"]
    <3>1. PICK e \in Services : /\ e = Effect(service, service.late)
                                /\ e.terminals <=> service.terminals
                                /\ e.session =
                                    CASE service.late = "create" /\ service.session = "none" -> "idle"
                                      [] service.late = "prompt" /\ service.session = "idle" -> "working"
                                      [] OTHER -> service.session
      BY <1>1, EffectIs
    <3>2. PICK s \in Services : s = [e EXCEPT !.late = "none"]
      BY DEF Services
    <3>3. s = service' /\ s.late = "none" /\ s.session = e.session /\ (s.terminals <=> e.terminals)
      BY <2>4, <3>1, <3>2 DEF Services
    <3>4. service.late \in {"create", "prompt"}
      BY <1>1, <2>4 DEF Services
    <3> QED BY <3>1, <3>3, <3>4
  <2> QED BY <2>1, <2>2, <2>3, <2>4 DEF SessionActs
<1>3. SessionStands(s, local)
  BY <1>1, <1>2 DEF SessionStands, Ended
<1>4. SessionAt(runner, pc, s, local)
  BY <1>1, <1>2 DEF SessionStands, SessionAt, Ended
<1>5. Types'
  BY <1>0, <1>2 DEF InvocationInv, Types
<1>6. /\ HelpersStand(runner, local, helpers)'
      /\ CollectorStands(runner, collector, turn)' /\ TraceStands(runner, local, collector, turn)'
      /\ ChildStands(child)' /\ CommandAt(runner, pc, local, child)'
  BY <1>0 DEF InvocationInv
<1>7. CleanupIsTrue'
  BY <1>0, <1>2 DEF InvocationInv, CleanupIsTrue, Visible, Ended
<1>8. SuccessIsEarned'
  BY <1>0, <1>2 DEF InvocationInv, SuccessIsEarned, hosted
<1> QED BY <1>0, <1>2, <1>3, <1>4, <1>5, <1>6, <1>7, <1>8 DEF InvocationInv

---------------------------------------------------------------------------
(* A command and its processes.                                            *)

\* What a step of a runner that runs a command has to keep.
LEMMA CommandStep ==
  ASSUME InvocationInv, runner \notin Hosts, UNCHANGED <<runner, result, service>>,
         pc' # "done", pc' \notin Talking, NEW l \in Locals, l = local',
         (l.attempted <=> local.attempted) /\ (l.known <=> local.known),
         (l.session <=> local.session) /\ l.interruption = local.interruption,
         helpers' \in HelperRecords, turn' \in Turns, collector' \in Collectors,
         child' \in Children,
         HelpersStand(runner, l, helpers'), CollectorStands(runner, collector', turn'),
         TraceStands(runner, l, collector', turn'), ChildStands(child'),
         CommandAt(runner, pc', l, child')
  PROVE  InvocationInv'
<1>1. Types'
  BY DEF InvocationInv, Types
<1>2. SessionStands(service, l)
  BY DEF InvocationInv, SessionStands
<1>3. SessionAt(runner, pc', service, l)
  BY DEF InvocationInv, SessionAt, Talking
<1>4. CleanupIsTrue' /\ SuccessIsEarned'
  BY DEF CleanupIsTrue, SuccessIsEarned
<1> QED BY <1>1, <1>2, <1>3, <1>4 DEF InvocationInv

\* A runner of a command starts with its helpers and no child.
LEMMA SetupHere ==
  ASSUME InvocationInv, runner \notin Hosts, Equip("spawn"),
         runner \in {"sample", "isolated"} => helpers' = helpers
  PROVE  InvocationInv'
<1>1. PICK l \in Locals :
        /\ l = local' /\ AlikeButError(l, local) /\ HelpersStand(runner, l, helpers')
        /\ \/ pc' = "spawn"
           \/ pc' = "brokers" /\ l.error = "failed"
  BY EquipIs DEF Hosts
<1>2. /\ pc = "setup" /\ helpers' \in HelperRecords
      /\ UNCHANGED <<runner, result, service, turn, collector, child>>
  BY EquipIs
<1>3. child = NoChild /\ turn \in Turns /\ collector \in Collectors /\ child \in Children
  BY <1>2 DEF InvocationInv, Types, CommandAt
<1>4. /\ CollectorStands(runner, collector', turn') /\ TraceStands(runner, l, collector', turn')
      /\ ChildStands(child')
  BY <1>1, <1>2 DEF InvocationInv, TraceStands, AlikeButError
<1>5. CommandAt(runner, pc', l, child')
  BY <1>1, <1>2, <1>3 DEF CommandAt
<1>6. pc' # "done" /\ pc' \notin Talking
  BY <1>1 DEF Talking
<1> QED BY <1>1, <1>2, <1>3, <1>4, <1>5, <1>6, CommandStep DEF AlikeButError

\* A command runner sets up.
LEMMA SetupCommandKeeps == ASSUME InvocationInv, SetupCommand PROVE InvocationInv'
BY SetupHere DEF SetupCommand, Hosts

\* The sample runner sets up.
LEMMA SetupSampleKeeps == ASSUME InvocationInv, SetupSample PROVE InvocationInv'
BY SetupHere DEF SetupSample, Hosts

\* The isolated runner sets up.
LEMMA SetupIsolatedKeeps == ASSUME InvocationInv, SetupIsolated PROVE InvocationInv'
BY SetupHere DEF SetupIsolated, Hosts

\* Processes that end leave the child as it is without them.
LEMMA WithoutIs ==
  ASSUME NEW c \in Children, NEW dead
  PROVE  \E w \in Children :
            /\ w = Without(c, dead) /\ w.at = c.at
            /\ w.alive = c.alive \ dead /\ w.holding = c.holding \ dead /\ w.away = c.away \ dead
            /\ (w.boxed <=> c.boxed) /\ (w.signalled <=> c.signalled)
            /\ (w.reaped <=> c.reaped) /\ (w.eof <=> c.eof)
<1>1. PICK v \in Children : v = [c EXCEPT !.alive = @ \ dead, !.holding = @ \ dead]
  BY DEF Children
<1>2. PICK w \in Children : w = [v EXCEPT !.away = @ \ dead, !.deaf = @ \ dead]
  BY DEF Children
<1>3. /\ v.at = c.at /\ v.alive = c.alive \ dead /\ v.holding = c.holding \ dead
      /\ v.away = c.away /\ v.deaf = c.deaf
      /\ (v.boxed <=> c.boxed) /\ (v.signalled <=> c.signalled)
      /\ (v.reaped <=> c.reaped) /\ (v.eof <=> c.eof)
  BY <1>1 DEF Children
<1>4. /\ w.at = v.at /\ w.alive = v.alive /\ w.holding = v.holding /\ w.away = v.away \ dead
      /\ (w.boxed <=> v.boxed) /\ (w.signalled <=> v.signalled)
      /\ (w.reaped <=> v.reaped) /\ (w.eof <=> v.eof)
  BY <1>2 DEF Children
<1>5. w = Without(c, dead)
  BY <1>1, <1>2, <1>3 DEF Without, Children
<1> QED BY <1>3, <1>4, <1>5

\* Later, processes may only have ended.
LEMMA LaterIs ==
  ASSUME NEW child0 \in Children, child0 = child, NEW c \in Later
  PROVE  /\ c \in Children /\ c.at = child.at
         /\ c.alive \subseteq child.alive /\ c.holding \subseteq child.holding
         /\ c.away = child.away \ (child.alive \ c.alive)
         /\ (c.boxed <=> child.boxed) /\ (c.signalled <=> child.signalled)
         /\ (c.reaped <=> child.reaped) /\ (c.eof <=> child.eof)
<1>1. PICK dead \in SUBSET child.alive : c = Without(child, dead)
  BY DEF Later
<1>2. PICK w \in Children :
            /\ w = Without(child, dead) /\ w.at = child.at
            /\ w.alive = child.alive \ dead /\ w.holding = child.holding \ dead
            /\ w.away = child.away \ dead
            /\ (w.boxed <=> child.boxed) /\ (w.signalled <=> child.signalled)
            /\ (w.reaped <=> child.reaped) /\ (w.eof <=> child.eof)
  BY WithoutIs
<1>3. child.alive \ c.alive = dead
  BY <1>1, <1>2
<1> QED BY <1>1, <1>2, <1>3

\* No child is a child without processes.
LEMMA NoChildIs == NoChild \in Children /\ ChildStands(NoChild) /\ NoChild.at = "none"
<1>1. NoChild \in Children
  BY DEF NoChild, Children
<1> QED BY <1>1 DEF NoChild, ChildStands

\* A step that changes only the processes.
LEMMA ChildStep ==
  ASSUME InvocationInv, runner \notin Hosts, pc' = "process",
         UNCHANGED <<runner, local, result, service, turn, collector, helpers>>,
         NEW c \in Children, c = child', ChildStands(c)
  PROVE  InvocationInv'
<1>1. /\ local \in Locals /\ helpers \in HelperRecords /\ turn \in Turns
      /\ collector \in Collectors /\ HelpersStand(runner, local, helpers)
      /\ CollectorStands(runner, collector, turn) /\ TraceStands(runner, local, collector, turn)
  BY DEF InvocationInv, Types
<1>2. CommandAt(runner, pc', local, c)
  BY DEF CommandAt
<1>3. pc' # "done" /\ pc' \notin Talking
  BY DEF Talking
<1> QED BY <1>1, <1>2, <1>3, CommandStep

\* A command starts in a group of its own.
LEMMA StartKeeps == ASSUME InvocationInv, Start PROVE InvocationInv'
<1>0. /\ runner \notin Hosts /\ pc = "spawn" /\ pc' = "process"
      /\ UNCHANGED <<runner, local, result, service, turn, collector, helpers>>
  BY DEF Start, Process, hosted, Hosts
<1>1. child = NoChild /\ child \in Children /\ NoChild \in Children
  BY <1>0, NoChildIs DEF InvocationInv, CommandAt
<1>2. CASE NotSpawned
  <2>1. PICK c \in Children : c = [child EXCEPT !.at = "over"]
    BY <1>1 DEF Children
  <2>2. c = child' /\ c.alive = {} /\ c.holding = {}
    BY <1>1, <1>2, <2>1 DEF NotSpawned, NoChild
  <2>3. ChildStands(c)
    BY <2>2 DEF ChildStands
  <2> QED BY <1>0, <2>2, <2>3, ChildStep
<1>3. CASE SpawnStopped \/ Spawn
  <2>1. PICK at \in {"stopped", "running"} :
            child' = [child EXCEPT !.at = at, !.spawned = TRUE,
                                   !.alive = {Leader}, !.holding = {Leader}]
    BY <1>3 DEF SpawnStopped, Spawn
  <2>2. PICK b \in Children : b = [child EXCEPT !.at = at, !.spawned = TRUE]
    BY <1>1 DEF Children
  <2>3. PICK c \in Children : c = [b EXCEPT !.alive = {Leader}, !.holding = {Leader}]
    BY LeaderAssumption DEF Children
  <2>4. b.at = at /\ c.at = b.at
    BY <1>1, <2>2, <2>3 DEF Children
  <2>5. c = child'
    BY <1>1, <2>1, <2>2, <2>3
  <2>6. ChildStands(c)
    BY <2>4 DEF ChildStands
  <2> QED BY <1>0, <2>5, <2>6, ChildStep
<1> QED BY <1>2, <1>3 DEF Start, Process

\* Stopping a child, for a reason its runner has, signals its group.
LEMMA StopChildKeeps ==
  ASSUME InvocationInv, NEW reason, StopChild(reason) PROVE InvocationInv'
<1>0. /\ runner \notin Hosts /\ pc' = "process"
      /\ UNCHANGED <<runner, local, result, service, turn, collector, helpers>>
  BY DEF StopChild, Process, hosted, Hosts
<1>1. child \in Children
  BY DEF InvocationInv, Types
<1>2. PICK alive \in SUBSET Procs, away \in SUBSET Procs, deaf \in SUBSET Procs,
           holding \in SUBSET Procs :
        child' = [child EXCEPT !.at = "stopping", !.exited = reason = "exit", !.alive = alive,
                               !.away = away, !.deaf = deaf, !.holding = holding]
  <2>1. Stop(reason)
    BY DEF StopChild, Process
  <2>2. PICK alive \in SUBSET Procs : \E away, deaf, holding \in SUBSET alive :
        /\ Leader \notin away
        /\ reason = "exit" => Leader \notin alive
        /\ child' = [child EXCEPT !.at = "stopping", !.exited = reason = "exit", !.alive = alive,
                                  !.away = away, !.deaf = deaf, !.holding = holding]
    BY <2>1, Zenon DEF Stop
  <2>3. PICK away \in SUBSET alive, deaf \in SUBSET alive, holding \in SUBSET alive :
        /\ Leader \notin away
        /\ reason = "exit" => Leader \notin alive
        /\ child' = [child EXCEPT !.at = "stopping", !.exited = reason = "exit", !.alive = alive,
                                  !.away = away, !.deaf = deaf, !.holding = holding]
    BY <2>2, Zenon
  <2>4. away \in SUBSET Procs /\ deaf \in SUBSET Procs /\ holding \in SUBSET Procs
    OBVIOUS
  <2> QED BY <2>3, <2>4, Zenon
<1>3. PICK exited \in BOOLEAN : exited = (reason = "exit")
  OBVIOUS
<1>5. PICK b \in Children : b = [child EXCEPT !.at = "stopping", !.exited = exited]
  BY <1>1 DEF Children
<1>6. PICK d \in Children : d = [b EXCEPT !.alive = alive, !.away = away]
  BY DEF Children
<1>7. PICK c \in Children : c = [d EXCEPT !.deaf = deaf, !.holding = holding]
  BY DEF Children
<1>8. c = child'
  BY <1>1, <1>2, <1>3, <1>5, <1>6, <1>7
<1>9. b.at = "stopping" /\ d.at = b.at /\ c.at = d.at
  BY <1>1, <1>5, <1>6, <1>7 DEF Children
<1>10. ChildStands(c)
  BY <1>9 DEF ChildStands
<1> QED BY <1>0, <1>8, <1>10, ChildStep

\* The evidence is collected in an order in which nothing can come back: what
\* holds a pipe or was seen by the look is alive until then.
LEMMA SuperviseIs ==
  ASSUME child \in Children, ChildStands(child), Supervise
  PROVE  \E c \in Children : c = child' /\ ChildStands(c)
<1>1. CASE Contain
  <2>1. PICK at \in {"running", "stopping"}, boxed \in BOOLEAN :
            child' = [child EXCEPT !.at = at, !.boxed = boxed]
    BY <1>1 DEF Contain
  <2>2. PICK c \in Children : c = [child EXCEPT !.at = at, !.boxed = boxed]
    BY DEF Children
  <2>3. c.at = at
    BY <2>2 DEF Children
  <2>4. ChildStands(c)
    BY <2>3 DEF ChildStands
  <2> QED BY <2>1, <2>2, <2>4
<1>2. CASE Kill
  <2>0. PICK c \in Later, signalled \in BOOLEAN : \E dead :
            child' = [Without(c, dead) EXCEPT !.at = "killed", !.signalled = signalled]
    BY <1>2, Zenon DEF Kill
  <2>1. PICK dead :
            child' = [Without(c, dead) EXCEPT !.at = "killed", !.signalled = signalled]
    BY <2>0
  <2>2. PICK w \in Children : w = Without(c, dead)
    <3>1. c \in Children
      BY LaterIs
    <3> QED BY <3>1, WithoutIs
  <2>3. PICK k \in Children : k = [w EXCEPT !.at = "killed", !.signalled = signalled]
    BY DEF Children
  <2>4. k.at = "killed"
    BY <2>3 DEF Children
  <2>5. ChildStands(k)
    BY <2>4 DEF ChildStands
  <2> QED BY <2>1, <2>2, <2>3, <2>5
<1>3. CASE Reap
  <2>1. PICK c \in Later : child' = [c EXCEPT !.at = "reaped", !.reaped = Leader \notin c.alive]
    BY <1>3 DEF Reap
  <2>2. c \in Children
    BY LaterIs
  <2>3. PICK reaped \in BOOLEAN : reaped = (Leader \notin c.alive)
    OBVIOUS
  <2>4. PICK k \in Children : k = [c EXCEPT !.at = "reaped", !.reaped = reaped]
    BY <2>2 DEF Children
  <2>5. k.at = "reaped"
    BY <2>2, <2>4 DEF Children
  <2>6. ChildStands(k)
    BY <2>5 DEF ChildStands
  <2> QED BY <2>1, <2>3, <2>4, <2>6
<1>4. CASE Drain
  <2>1. PICK c \in Later : child' = [c EXCEPT !.at = "drained", !.eof = c.holding = {}]
    BY <1>4 DEF Drain
  <2>2. c \in Children
    BY LaterIs
  <2>3. PICK eof \in BOOLEAN : eof = (c.holding = {})
    OBVIOUS
  <2>4. PICK k \in Children : k = [c EXCEPT !.at = "drained", !.eof = eof]
    BY <2>2 DEF Children
  <2>5. k.at = "drained" /\ (k.eof <=> eof) /\ k.holding = c.holding
    BY <2>2, <2>4 DEF Children
  <2>6. ChildStands(k)
    BY <2>3, <2>5 DEF ChildStands
  <2> QED BY <2>1, <2>3, <2>4, <2>6
<1>5. CASE Look
  <2>1. PICK c \in Later :
        child' = [c EXCEPT !.at = "over", !.deaf = {},
            !.signalled = FALSE, !.reaped = FALSE, !.eof = FALSE,
            !.clean = c.signalled /\ c.reaped /\ c.eof /\ Visible \subseteq child.alive \ c.alive]
    BY <1>5 DEF Look
  <2>2. /\ c \in Children /\ c.at = child.at
        /\ c.alive \subseteq child.alive /\ c.holding \subseteq child.holding
        /\ c.away = child.away \ (child.alive \ c.alive)
        /\ (c.boxed <=> child.boxed) /\ (c.eof <=> child.eof)
    BY LaterIs
  <2>3. child.at = "drained"
    BY <1>5 DEF Look
  <2>4. PICK clean \in BOOLEAN :
        clean = (c.signalled /\ c.reaped /\ c.eof /\ Visible \subseteq child.alive \ c.alive)
    OBVIOUS
  <2>5. PICK d \in Children : d = [c EXCEPT !.at = "over", !.deaf = {}, !.signalled = FALSE]
    BY <2>2 DEF Children
  <2>6. PICK k \in Children : k = [d EXCEPT !.reaped = FALSE, !.eof = FALSE, !.clean = clean]
    BY DEF Children
  <2>7. /\ d.holding = c.holding /\ d.alive = c.alive /\ d.away = c.away /\ (d.boxed <=> c.boxed)
        /\ d.at = "over"
    BY <2>2, <2>5 DEF Children
  <2>8. /\ k.holding = d.holding /\ k.alive = d.alive /\ k.away = d.away /\ (k.boxed <=> d.boxed)
        /\ k.at = d.at /\ (k.clean <=> clean)
    BY <2>6 DEF Children
  <2>9. child' = k
    BY <2>1, <2>2, <2>4, <2>5, <2>6
  <2>10. ASSUME clean PROVE k.holding = {} /\ k.alive \subseteq (IF k.boxed THEN {} ELSE k.away)
    <3>1. c.eof /\ Visible \subseteq child.alive \ c.alive
      BY <2>4, <2>10
    <3>2. c.holding = {}
      BY <2>2, <2>3, <3>1 DEF ChildStands
    <3>3. c.alive \subseteq (IF c.boxed THEN {} ELSE c.away)
      BY <2>2, <3>1 DEF Visible
    <3> QED BY <2>7, <2>8, <3>2, <3>3
  <2>11. ChildStands(k)
    BY <2>7, <2>8, <2>10 DEF ChildStands
  <2> QED BY <2>9, <2>11
<1> QED BY <1>1, <1>2, <1>3, <1>4, <1>5 DEF Supervise

\* A child is supervised to its end.
LEMMA EndChildKeeps == ASSUME InvocationInv, EndChild PROVE InvocationInv'
<1>1. /\ runner \notin Hosts /\ pc' = "process" /\ Supervise
      /\ UNCHANGED <<runner, local, result, service, turn, collector, helpers>>
  BY DEF EndChild, Process, hosted, Hosts
<1>2. PICK c \in Children : c = child' /\ ChildStands(c)
  BY <1>1, SuperviseIs DEF InvocationInv, Types
<1> QED BY <1>1, <1>2, ChildStep

---------------------------------------------------------------------------
(* What a collector learns from the events of a turn.                      *)

\* A collector that fails has an error and is not complete.
LEMMA FailIs ==
  ASSUME NEW c \in Collectors
  PROVE  \E d \in Collectors : /\ d = Fail(c) /\ d.error /\ ~d.complete
                               /\ (d.terminal <=> c.terminal)
<1>1. NewCollector \in Collectors /\ ~NewCollector.complete
  BY DEF NewCollector, Collectors
<1>2. PICK d \in Collectors : d = [NewCollector EXCEPT !.error = TRUE, !.terminal = c.terminal]
  BY <1>1 DEF Collectors
<1>3. d.error /\ ~d.complete /\ (d.terminal <=> c.terminal)
  BY <1>1, <1>2 DEF Collectors
<1> QED BY <1>2, <1>3 DEF Fail

\* One event, and what it makes of the turn itself.
ActiveAfter(t, ev) ==
    CASE ev.kind = "started" -> t.active \cup {ev.tool}
      [] ev.kind = "completed" -> t.active \ {ev.tool}
      [] OTHER -> t.active

\* The events, kind by kind.
LEMMA EventsAre ==
  ASSUME NEW ev \in Events
  PROVE  \/ ev.kind \in {"opening", "error", "answer", "garbled", "alien"}
         \/ ev.kind \in {"started", "completed"} /\ ev.tool \in Tools
         \/ ev.kind = "terminal" /\ ev.success \in BOOLEAN /\ ev.denied \in BOOLEAN
<1>1. CASE ev \in [kind : {"opening", "error", "answer", "garbled", "alien"}]
  BY <1>1
<1>2. CASE ev \in [kind : {"started", "completed"}, tool : Tools]
  BY <1>2
<1>3. CASE ev \in [kind : {"terminal"}, success : BOOLEAN, denied : BOOLEAN]
  BY <1>3
<1> QED BY <1>1, <1>2, <1>3 DEF Events

\* An event the collector accepts is learned as it was: started, completed or over.
LEMMA LearnIs ==
  ASSUME NEW r \in {"codex", "antigravity", "sample"}, NEW c \in Collectors, NEW ev \in Events,
         ~c.error, ~c.complete, ~c.terminal, ev.kind \notin {"garbled", "alien"},
         NEW t \in Turns, c.pending = t.active, r = "sample" => t.active = {},
         NEW u \in Turns, u.active = ActiveAfter(t, ev), u.over <=> ev.kind = "terminal",
         r = "codex" => CodexAccepts(c, ev), r = "antigravity" => AgyAccepts(c, ev),
         r = "sample" => SampleAccepts(c, ev)
  PROVE  \E d \in Collectors : d = Learn(c, ev) /\ CollectorStands(r, d, u)
<1>1. CASE ev.kind = "opening"
  <2>0. PICK n \in Nat : n = c.stage + 1
    BY DEF Collectors
  <2>1. PICK d \in Collectors : d = [c EXCEPT !.stage = n]
    BY DEF Collectors
  <2>2. /\ d.pending = c.pending /\ (d.terminal <=> c.terminal) /\ (d.error <=> c.error)
        /\ (d.complete <=> c.complete)
    BY <2>1 DEF Collectors
  <2>3. d = Learn(c, ev)
    BY <1>1, <2>0, <2>1 DEF Learn, Collectors
  <2> QED BY <1>1, <2>2, <2>3 DEF CollectorStands, ActiveAfter
<1>2. CASE ev.kind = "error"
  <2>1. PICK d \in Collectors : d = [c EXCEPT !.failed = TRUE]
    BY DEF Collectors
  <2>2. /\ d.pending = c.pending /\ (d.terminal <=> c.terminal) /\ (d.error <=> c.error)
        /\ (d.complete <=> c.complete)
    BY <2>1 DEF Collectors
  <2>3. d = Learn(c, ev)
    BY <1>2, <2>1 DEF Learn
  <2> QED BY <1>2, <2>2, <2>3 DEF CollectorStands, ActiveAfter
<1>3. CASE ev.kind = "answer"
  <2>1. PICK d \in Collectors : d = [c EXCEPT !.answer = TRUE]
    BY DEF Collectors
  <2>2. /\ d.pending = c.pending /\ (d.terminal <=> c.terminal) /\ (d.error <=> c.error)
        /\ (d.complete <=> c.complete)
    BY <2>1 DEF Collectors
  <2>3. d = Learn(c, ev)
    BY <1>3, <2>1 DEF Learn
  <2> QED BY <1>3, <2>2, <2>3 DEF CollectorStands, ActiveAfter
<1>4. CASE ev.kind = "started"
  <2>0. ev.tool \in Tools /\ r # "sample"
    BY <1>4, EventsAre DEF SampleAccepts
  <2>1. PICK d \in Collectors : d = [c EXCEPT !.pending = @ \cup {ev.tool}]
    BY <2>0 DEF Collectors
  <2>2. /\ d.pending = c.pending \cup {ev.tool} /\ (d.terminal <=> c.terminal)
        /\ (d.error <=> c.error) /\ (d.complete <=> c.complete)
    BY <2>1 DEF Collectors
  <2>3. d = Learn(c, ev)
    BY <1>4, <2>1 DEF Learn
  <2> QED BY <1>4, <2>0, <2>2, <2>3 DEF CollectorStands, ActiveAfter
<1>5. CASE ev.kind = "completed"
  <2>0. ev.tool \in Tools /\ r # "sample"
    BY <1>5, EventsAre DEF SampleAccepts
  <2>1. PICK d \in Collectors : d = [c EXCEPT !.pending = @ \ {ev.tool},
                                              !.seen = @ \cup {ev.tool}]
    BY <2>0 DEF Collectors
  <2>2. /\ d.pending = c.pending \ {ev.tool} /\ (d.terminal <=> c.terminal)
        /\ (d.error <=> c.error) /\ (d.complete <=> c.complete)
    BY <2>1 DEF Collectors
  <2>3. d = Learn(c, ev)
    BY <1>5, <2>1 DEF Learn
  <2> QED BY <1>5, <2>0, <2>2, <2>3 DEF CollectorStands, ActiveAfter
<1>6. CASE ev.kind = "terminal"
  <2>0. /\ ev.success \in BOOLEAN /\ ev.denied \in BOOLEAN
        /\ r # "sample" => c.pending = {}
    BY <1>6, EventsAre DEF CodexAccepts, AgyAccepts
  <2>1. PICK success \in BOOLEAN : success = (ev.success /\ ~c.failed /\ ~ev.denied)
    OBVIOUS
  <2>2. PICK d \in Collectors : d = [c EXCEPT !.terminal = TRUE, !.denied = ev.denied,
                                              !.success = success]
    BY <2>0 DEF Collectors
  <2>3. /\ d.pending = c.pending /\ d.terminal /\ (d.error <=> c.error)
        /\ (d.complete <=> c.complete)
    BY <2>2 DEF Collectors
  <2>4. d = Learn(c, ev)
    BY <1>6, <2>1, <2>2 DEF Learn
  <2> QED BY <1>6, <2>0, <2>3, <2>4 DEF CollectorStands, ActiveAfter
<1> QED BY <1>1, <1>2, <1>3, <1>4, <1>5, <1>6, EventsAre

\* The agent acts and the event joins its output.
LEMMA AgentActsKeeps ==
  ASSUME InvocationInv, NEW ev \in Events, AgentActs(ev) PROVE InvocationInv'
<1>0. /\ runner \in {"codex", "antigravity", "sample"} /\ ~turn.over /\ runner \notin Hosts
      /\ pc = "process" /\ pc' = "process"
      /\ UNCHANGED <<runner, local, result, service, helpers, child>>
  BY DEF AgentActs, Process, Hosts
<1>1. /\ local \in Locals /\ helpers \in HelperRecords /\ turn \in Turns
      /\ collector \in Collectors /\ child \in Children /\ HelpersStand(runner, local, helpers)
      /\ CollectorStands(runner, collector, turn) /\ TraceStands(runner, local, collector, turn)
      /\ ChildStands(child) /\ CommandAt(runner, pc, local, child)
  BY DEF InvocationInv, Types
<1>2. ~collector.terminal /\ ~collector.complete
  BY <1>0, <1>1 DEF CollectorStands
<1>3. /\ turn' = [active |-> ActiveAfter(turn, ev), over |-> ev.kind = "terminal"]
      /\ collector' = IF collector.error THEN collector ELSE Feed(runner, collector, ev)
  BY DEF AgentActs, ActiveAfter
<1>4. PICK u \in Turns : /\ u = turn' /\ u.active = ActiveAfter(turn, ev)
                         /\ u.over <=> ev.kind = "terminal"
  <2>1. ActiveAfter(turn, ev) \in SUBSET Tools
    BY <1>1, EventsAre DEF ActiveAfter, Turns
  <2>2. PICK over \in BOOLEAN : over = (ev.kind = "terminal")
    OBVIOUS
  <2>3. PICK active \in SUBSET Tools : active = ActiveAfter(turn, ev)
    BY <2>1
  <2>4. PICK u \in Turns : u = [active |-> active, over |-> over]
    BY DEF Turns
  <2>5. u = turn'
    BY <1>3, <2>2, <2>3, <2>4
  <2>6. u.active = active /\ u.over = over
    BY <2>4
  <2> QED BY <2>2, <2>3, <2>5, <2>6
<1>5. PICK d \in Collectors : d = collector' /\ CollectorStands(runner, d, u)
  <2>1. CASE collector.error
    BY <1>1, <1>2, <1>3, <2>1 DEF CollectorStands
  <2>2. CASE ~collector.error /\ Feed(runner, collector, ev) = Fail(collector)
    <3>1. PICK d \in Collectors : /\ d = Fail(collector) /\ d.error /\ ~d.complete
                                  /\ (d.terminal <=> collector.terminal)
      BY <1>1, FailIs
    <3> QED BY <1>2, <1>3, <2>2, <3>1 DEF CollectorStands
  <2>3. CASE ~collector.error /\ Feed(runner, collector, ev) # Fail(collector)
    <3>1. /\ Feed(runner, collector, ev) = Learn(collector, ev)
          /\ ev.kind \notin {"garbled", "alien"}
          /\ runner = "codex" => CodexAccepts(collector, ev)
          /\ runner = "antigravity" => AgyAccepts(collector, ev)
          /\ runner = "sample" => SampleAccepts(collector, ev)
      BY <2>3 DEF Feed
    <3>2. collector.pending = turn.active /\ (runner = "sample" => turn.active = {})
      BY <1>1, <2>3 DEF CollectorStands
    <3>3. PICK d \in Collectors : d = Learn(collector, ev) /\ CollectorStands(runner, d, u)
      BY <1>0, <1>1, <1>2, <1>4, <2>3, <3>1, <3>2, LearnIs
    <3> QED BY <1>3, <2>3, <3>1, <3>3
  <2> QED BY <2>1, <2>2, <2>3
<1>6. TraceStands(runner, local, d, u)
  BY <1>0, <1>1, <1>2 DEF TraceStands
<1>7. CommandAt(runner, pc', local, child')
  BY <1>0, <1>1
<1> QED BY <1>0, <1>1, <1>4, <1>5, <1>6, <1>7, CommandStep DEF Talking

---------------------------------------------------------------------------
(* After the process.                                                      *)

\* The end of the output completes a collector or fails it.
LEMMA FinishIs ==
  ASSUME NEW r, NEW c \in Collectors, NEW t \in Turns, CollectorStands(r, c, t)
  PROVE  \E d \in Collectors : d = FinishTrace(c) /\ CollectorStands(r, d, t)
                               /\ (Successful(d) => d.complete)
<1>1. CASE c.error \/ ~c.terminal
  <2>1. PICK d \in Collectors : /\ d = Fail(c) /\ d.error /\ ~d.complete
                                /\ (d.terminal <=> c.terminal)
    BY FailIs
  <2> QED BY <1>1, <2>1 DEF FinishTrace, CollectorStands, Successful
<1>2. CASE ~c.error /\ c.terminal
  <2>1. PICK d \in Collectors : d = [c EXCEPT !.complete = TRUE]
    BY DEF Collectors
  <2>2. /\ d.pending = c.pending /\ (d.terminal <=> c.terminal) /\ (d.error <=> c.error)
        /\ d.complete
    BY <2>1 DEF Collectors
  <2>3. d = FinishTrace(c)
    BY <1>2, <2>1 DEF FinishTrace
  <2> QED BY <1>2, <2>2, <2>3 DEF CollectorStands
<1> QED BY <1>1, <1>2

\* Collecting the next event keeps the tools at work known.
LEMMA CollectKeeps == ASSUME InvocationInv, Collect PROVE InvocationInv'
<1>0. /\ pc = "process" /\ child.at = "over" /\ runner \notin Hosts
      /\ pc' = CASE runner = "isolated" -> "verdict" [] runner = "sample" -> "sampled"
                 [] OTHER -> "judge"
      /\ UNCHANGED <<runner, result, outside, service, turn, child>>
  BY DEF Collect, InvocationInv, CommandAt
<1>1. /\ local \in Locals /\ turn \in Turns /\ collector \in Collectors /\ child \in Children
      /\ HelpersStand(runner, local, helpers) /\ CollectorStands(runner, collector, turn)
      /\ TraceStands(runner, local, collector, turn) /\ ChildStands(child)
      /\ runner \in {"codex", "antigravity", "sample", "isolated"}
  BY <1>0, InvocationAssumption DEF InvocationInv, Types, Hosts
<1>2. PICK d \in Collectors : d = FinishTrace(collector) /\ CollectorStands(runner, d, turn)
                              /\ (Successful(d) => d.complete)
  BY <1>1, FinishIs
<1>3. PICK trace \in {"good", "bad"} :
        trace = (IF Successful(d) THEN "good" ELSE "bad") /\ (trace = "good" => d.complete)
  BY <1>2
<1>4. PICK k \in Locals : k = [local EXCEPT !.trace = trace]
  BY <1>1 DEF Locals
<1>5. /\ k.trace = trace /\ (k.control <=> local.control) /\ (k.images <=> local.images)
      /\ k.media = local.media /\ (k.attempted <=> local.attempted)
      /\ (k.known <=> local.known) /\ (k.session <=> local.session)
      /\ k.interruption = local.interruption /\ (k.terminal <=> local.terminal)
  BY <1>1, <1>4 DEF Locals
<1>6. HelpersStand(runner, k, helpers)
  BY <1>1, <1>5 DEF HelpersStand
<1>7. collector' = d /\ CloseMedia(k)
  BY <1>2, <1>3, <1>4 DEF Collect
<1>8. PICK l \in Locals : /\ l = local' /\ AlikeButMedia(l, k)
                          /\ HelpersStand(runner, l, helpers')
  BY <1>6, <1>7, CloseMediaIs
<1>9. helpers' \in HelperRecords
  BY <1>6, <1>7, CloseMediaIs
<1>10. TraceStands(runner, l, d, turn)
  BY <1>1, <1>3, <1>5, <1>8 DEF TraceStands, AlikeButMedia
<1>11. CommandAt(runner, pc', l, child)
  BY <1>0, <1>1 DEF CommandAt, Hosts
<1>12. pc' # "done" /\ pc' \notin Talking
  BY <1>0 DEF Talking
<1> QED BY <1>0, <1>1, <1>2, <1>5, <1>7, <1>8, <1>9, <1>10, <1>11, <1>12, CommandStep
        DEF AlikeButMedia

\* A judgement changes the error, and for the development runner what it knows
\* of the turn.
LEMMA JudgedStep ==
  ASSUME InvocationInv, runner \in {"codex", "antigravity", "sample"},
         UNCHANGED <<runner, result, outside, service, turn, collector, helpers, child>>,
         pc \in {"judge", "sampled"},
         NEW e \in {"none", "failed", "cancelled", "timeout"}, NEW terminal \in BOOLEAN,
         local' = [local EXCEPT !.terminal = terminal, !.error = e],
         pc' = IF e = "none" THEN "import" ELSE "brokers",
         runner = "sample" => (terminal => local.trace = "good"),
         e = "none" => /\ child.clean /\ local.trace = "good"
                       /\ (runner # "sample" => local.media = "verified")
                       /\ (runner = "sample" => terminal)
  PROVE  InvocationInv'
<1>0. runner \notin Hosts /\ child \in Children
  BY DEF Hosts, InvocationInv, Types
<1>1. /\ local \in Locals /\ turn \in Turns /\ collector \in Collectors
      /\ helpers \in HelperRecords
      /\ HelpersStand(runner, local, helpers) /\ CollectorStands(runner, collector, turn)
      /\ TraceStands(runner, local, collector, turn) /\ ChildStands(child)
      /\ child = NoChild \/ child.at = "over"
  BY DEF InvocationInv, Types, CommandAt
<1>2. PICK l \in Locals : l = [local EXCEPT !.terminal = terminal, !.error = e]
  BY <1>1 DEF Locals
<1>3. /\ l.error = e /\ (l.terminal <=> terminal) /\ l.trace = local.trace
      /\ l.media = local.media /\ (l.control <=> local.control)
      /\ (l.images <=> local.images) /\ (l.attempted <=> local.attempted)
      /\ (l.known <=> local.known) /\ (l.session <=> local.session)
      /\ l.interruption = local.interruption
  BY <1>1, <1>2 DEF Locals
<1>4. HelpersStand(runner, l, helpers)
  BY <1>1, <1>3 DEF HelpersStand
<1>5. TraceStands(runner, l, collector, turn)
  BY <1>0, <1>1, <1>3 DEF TraceStands, CollectorStands
<1>6. CommandAt(runner, pc', l, child)
  BY <1>0, <1>1, <1>3 DEF CommandAt
<1>7. pc' # "done" /\ pc' \notin Talking
  BY DEF Talking
<1>8. l = local'
  BY <1>2
<1> QED BY <1>0, <1>1, <1>3, <1>4, <1>5, <1>6, <1>7, <1>8, CommandStep

\* The command's judgement reads the collector and the evidence of its processes.
LEMMA JudgeKeeps == ASSUME InvocationInv, Judge PROVE InvocationInv'
<1>0. /\ pc = "judge" /\ runner \in {"codex", "antigravity"} /\ local \in Locals
      /\ UNCHANGED <<runner, result, outside, service, turn, collector, helpers, child>>
  BY DEF Judge, InvocationInv, Types, CommandAt
<1>1. PICK fine \in BOOLEAN :
        local' = [local EXCEPT !.error =
            IF /\ fine /\ child.exited /\ child.clean
               /\ local.trace = "good" /\ local.media = "verified"
            THEN @ ELSE "failed"]
  BY DEF Judge
<1>2. PICK e \in {"none", "failed", "cancelled", "timeout"} :
        /\ e = IF /\ fine /\ child.exited /\ child.clean
                  /\ local.trace = "good" /\ local.media = "verified"
               THEN local.error ELSE "failed"
        /\ e = "none" => child.clean /\ local.trace = "good" /\ local.media = "verified"
  BY <1>0 DEF Locals
<1>3. PICK terminal \in BOOLEAN : terminal = local.terminal
  BY <1>0 DEF Locals
<1>4. local' = [local EXCEPT !.terminal = terminal, !.error = e] /\ local'.error = e
  BY <1>0, <1>1, <1>2, <1>3 DEF Locals
<1>5. pc' = IF e = "none" THEN "import" ELSE "brokers"
  BY <1>4 DEF Judge
<1> QED BY <1>0, <1>2, <1>4, <1>5, JudgedStep

\* The sample's judgement reads its answer and the evidence of its process.
LEMMA JudgeSampleKeeps == ASSUME InvocationInv, JudgeSample PROVE InvocationInv'
<1>0. /\ pc = "sampled" /\ runner = "sample" /\ local \in Locals
      /\ UNCHANGED <<runner, result, outside, service, turn, collector, helpers, child>>
  BY DEF JudgeSample, InvocationInv, Types, CommandAt
<1>1. PICK fine \in BOOLEAN :
        local' = [local EXCEPT
            !.terminal = child.exited /\ local.trace = "good",
            !.error = IF fine /\ child.exited /\ child.clean /\ local.trace = "good"
                      THEN @ ELSE "failed"]
  BY DEF JudgeSample
<1>2. PICK e \in {"none", "failed", "cancelled", "timeout"} :
        /\ e = IF fine /\ child.exited /\ child.clean /\ local.trace = "good"
               THEN local.error ELSE "failed"
        /\ e = "none" => child.exited /\ child.clean /\ local.trace = "good"
  BY <1>0 DEF Locals
<1>3. PICK terminal \in BOOLEAN :
        /\ terminal = (child.exited /\ local.trace = "good")
        /\ terminal <=> child.exited /\ local.trace = "good"
  OBVIOUS
<1>4. local' = [local EXCEPT !.terminal = terminal, !.error = e] /\ local'.error = e
  BY <1>0, <1>1, <1>2, <1>3 DEF Locals
<1>5. pc' = IF e = "none" THEN "import" ELSE "brokers"
  BY <1>4 DEF JudgeSample
<1> QED BY <1>0, <1>2, <1>3, <1>4, <1>5, JudgedStep

\* The command runners import what was judged, after acquisition was closed.
LEMMA ImportKeeps == ASSUME InvocationInv, Import PROVE InvocationInv'
<1>0. /\ pc = "import" /\ pc' = "brokers" /\ runner # "opencode"
      /\ UNCHANGED <<runner, result, outside, service, turn, collector, helpers, child>>
  BY DEF Import
<1>1. PICK good \in BOOLEAN : local' = Imported(good)
  <2>1. PICK sub \in Submission :
            local' = Imported(Resolved(sub.answer, sub.file) /\ sub.accepted)
    BY DEF Import
  <2>2. PICK good \in BOOLEAN : good = (Resolved(sub.answer, sub.file) /\ sub.accepted)
    OBVIOUS
  <2> QED BY <2>1, <2>2
<1>2. PICK l \in Locals : /\ l = Imported(good) /\ (l.imported <=> good)
                          /\ l.error = IF good THEN local.error ELSE "failed"
                          /\ (l.attempted <=> local.attempted) /\ (l.known <=> local.known)
                          /\ (l.control <=> local.control) /\ (l.terminal <=> local.terminal)
                          /\ l.interruption = local.interruption
                          /\ (l.session <=> local.session) /\ l.trace = local.trace
                          /\ (l.images <=> local.images) /\ l.media = local.media
  BY ImportedIs
<1>3. /\ local \in Locals /\ turn \in Turns /\ collector \in Collectors
      /\ helpers \in HelperRecords /\ service \in Services /\ child \in Children
      /\ SessionStands(service, local) /\ SessionAt(runner, pc, service, local)
      /\ HelpersStand(runner, local, helpers) /\ CollectorStands(runner, collector, turn)
      /\ TraceStands(runner, local, collector, turn) /\ ChildStands(child)
      /\ CommandAt(runner, pc, local, child)
  BY DEF InvocationInv, Types
<1>4. l = local' /\ HelpersStand(runner, l, helpers)
  BY <1>1, <1>2, <1>3 DEF HelpersStand
<1>5. CASE runner \in Hosts
  <2>1. SessionStands(service, l)
    BY <1>2, <1>3 DEF SessionStands
  <2>2. SessionAt(runner, pc', service, l)
    BY <1>0, <1>2, <1>3, <1>5 DEF SessionAt, Before, Talking
  <2>3. HostedKept
    BY <1>0 DEF HostedKept
  <2> QED BY <1>0, <1>3, <1>4, <1>5, <2>1, <2>2, <2>3, HostedStep
<1>6. CASE runner \notin Hosts
  <2>1. TraceStands(runner, l, collector, turn)
    BY <1>2, <1>3 DEF TraceStands
  <2>2. CommandAt(runner, pc', l, child)
    BY <1>0, <1>2, <1>3, <1>6 DEF CommandAt
  <2>3. pc' # "done" /\ pc' \notin Talking
    BY <1>0 DEF Talking
  <2> QED BY <1>0, <1>2, <1>3, <1>4, <1>6, <2>1, <2>2, <2>3, CommandStep
<1> QED BY <1>5, <1>6

\* The final block closes the helpers whatever happened.
LEMMA FinallyCommandKeeps == ASSUME InvocationInv, FinallyCommand PROVE InvocationInv'
<1>0. /\ pc = "brokers" /\ pc' = "verdict" /\ runner \notin Hosts
      /\ UNCHANGED <<runner, result, outside, service, turn, collector, child>>
      /\ helpers' \in HelperRecords
  BY CloseHelpersIs DEF FinallyCommand, hosted, Hosts
<1>1. PICK l \in Locals :
        /\ l = local' /\ HelpersStand(runner, l, helpers')
        /\ (l.attempted <=> local.attempted) /\ (l.known <=> local.known)
        /\ (l.terminal <=> local.terminal)
        /\ l.interruption = local.interruption /\ (l.session <=> local.session)
        /\ l.trace = local.trace /\ (l.imported <=> local.imported)
        /\ l.error = "none" => local.error = "none" /\ l.images /\ l.media = "verified"
  BY CloseHelpersIs DEF FinallyCommand
<1>2. /\ turn \in Turns /\ collector \in Collectors /\ child \in Children
      /\ CollectorStands(runner, collector, turn)
      /\ TraceStands(runner, local, collector, turn) /\ ChildStands(child)
      /\ CommandAt(runner, pc, local, child)
  BY DEF InvocationInv, Types
<1>3. TraceStands(runner, l, collector, turn)
  BY <1>1, <1>2 DEF TraceStands
<1>4. CommandAt(runner, pc', l, child)
  BY <1>0, <1>1, <1>2 DEF CommandAt
<1>5. pc' # "done" /\ pc' \notin Talking
  BY <1>0 DEF Talking
<1> QED BY <1>0, <1>1, <1>2, <1>3, <1>4, <1>5, CommandStep

\* What the verdict on a command may rest on, whichever runner gives it.
LEMMA CommandClean ==
  ASSUME InvocationInv, pc = "verdict", runner \notin Hosts, child.clean,
         runner \in {"codex", "antigravity"} => local.images /\ local.media = "verified",
         runner \in {"antigravity", "sample"} /\ child.spawned => turn.over
  PROVE  CleanNow
<1>1. /\ service \in Services /\ helpers \in HelperRecords /\ child \in Children
      /\ SessionStands(service, local) /\ SessionAt(runner, pc, service, local)
      /\ HelpersStand(runner, local, helpers) /\ ChildStands(child)
      /\ CommandAt(runner, pc, local, child)
      /\ runner \in {"codex", "antigravity", "sample", "isolated"}
  BY InvocationAssumption DEF InvocationInv, Types, Hosts
<1>2. service.session = "none" /\ ~service.terminals /\ service.late = "none"
  BY <1>1 DEF SessionAt, SessionStands
<1>3. Visible = {} /\ child.holding = {}
  <2>1. CASE child = NoChild
    BY <2>1 DEF NoChild, Visible
  <2>2. CASE child.at = "over"
    BY <1>1, <2>2 DEF ChildStands, Visible
  <2> QED BY <1>1, <2>1, <2>2 DEF CommandAt
<1>4. /\ helpers.strays = 0 /\ ~helpers.fetching
      /\ "late" \notin {helpers.media, helpers.images}
  BY <1>1 DEF HelpersStand
<1> QED BY <1>2, <1>3, <1>4 DEF CleanNow

\* A command's verdict: the judgement, the helpers and the import.
LEMMA VerdictCommandKeeps == ASSUME InvocationInv, VerdictCommand PROVE InvocationInv'
<1>0. runner \in {"codex", "antigravity"} /\ pc = "verdict" /\ runner \notin Hosts
  BY DEF VerdictCommand, Return, Hosts
<1>1. PICK cleanup \in BOOLEAN :
        /\ cleanup = (/\ child.clean /\ local.images /\ local.media = "verified"
                      /\ runner = "antigravity" /\ child.spawned => collector.terminal)
        /\ cleanup <=> (/\ child.clean /\ local.images /\ local.media = "verified"
                        /\ runner = "antigravity" /\ child.spawned => collector.terminal)
  OBVIOUS
<1>2. PICK success \in BOOLEAN :
        success = (local.error = "none") /\ (success <=> local.error = "none")
  OBVIOUS
<1>3. Return(cleanup, success)
  BY <1>1, <1>2, Zenon DEF VerdictCommand
<1>4. /\ CollectorStands(runner, collector, turn) /\ TraceStands(runner, local, collector, turn)
      /\ CommandAt(runner, pc, local, child)
  BY DEF InvocationInv
<1>5. cleanup => CleanNow
  <2>1. collector.terminal => turn.over
    BY <1>4 DEF CollectorStands
  <2> QED BY <1>0, <1>1, <2>1, CommandClean
<1>6. ASSUME success PROVE EarnedNow /\ cleanup
  <2>1. /\ local.imported /\ child.clean /\ local.trace = "good"
        /\ local.media = "verified" /\ local.images
    BY <1>0, <1>2, <1>4, <1>6 DEF CommandAt
  <2>2. collector.terminal /\ ~collector.error
    BY <1>0, <1>4, <2>1 DEF TraceStands, CollectorStands
  <2>3. turn.over /\ turn.active = {}
    BY <1>4, <2>2 DEF CollectorStands
  <2> QED BY <1>0, <1>1, <2>1, <2>2, <2>3 DEF EarnedNow, hosted, Hosts
<1> QED BY <1>3, <1>5, <1>6, VerdictKeeps

\* The sample's verdict has no helpers to ask.
LEMMA VerdictSampleKeeps == ASSUME InvocationInv, VerdictSample PROVE InvocationInv'
<1>0. runner = "sample" /\ pc = "verdict" /\ runner \notin Hosts
  BY DEF VerdictSample, Return, Hosts
<1>1. PICK cleanup \in BOOLEAN :
        /\ cleanup = (child.clean /\ (child.spawned => local.terminal))
        /\ cleanup <=> child.clean /\ (child.spawned => local.terminal)
  OBVIOUS
<1>2. PICK success \in BOOLEAN :
        success = (local.error = "none") /\ (success <=> local.error = "none")
  OBVIOUS
<1>3. Return(cleanup, success)
  BY <1>1, <1>2, Zenon DEF VerdictSample
<1>4. /\ CollectorStands(runner, collector, turn) /\ TraceStands(runner, local, collector, turn)
      /\ CommandAt(runner, pc, local, child)
  BY DEF InvocationInv
<1>5. cleanup => CleanNow
  <2>1. local.terminal => turn.over
    BY <1>0, <1>4 DEF TraceStands
  <2> QED BY <1>0, <1>1, <2>1, CommandClean
<1>6. ASSUME success PROVE EarnedNow /\ cleanup
  <2>1. local.imported /\ child.clean /\ local.trace = "good" /\ local.terminal
    BY <1>0, <1>2, <1>4, <1>6 DEF CommandAt
  <2>2. collector.terminal /\ ~collector.error
    BY <1>0, <1>4, <2>1 DEF TraceStands, CollectorStands
  <2>3. turn.over /\ turn.active = {}
    BY <1>4, <2>2 DEF CollectorStands
  <2> QED BY <1>0, <1>1, <2>1, <2>3 DEF EarnedNow, hosted, Hosts
<1> QED BY <1>3, <1>5, <1>6, VerdictKeeps

\* The isolated verdict rests on the process evidence alone.
LEMMA VerdictIsolatedKeeps == ASSUME InvocationInv, VerdictIsolated PROVE InvocationInv'
<1>0. runner = "isolated" /\ pc = "verdict" /\ runner \notin Hosts
  BY DEF VerdictIsolated, Return, Hosts
<1>1. PICK code \in {0, 1} : Return(child.clean, code = 0 /\ child.exited /\ child.clean)
  BY <1>0 DEF VerdictIsolated
<1>2. PICK cleanup \in BOOLEAN : cleanup = child.clean
  BY DEF InvocationInv, Types, Children
<1>3. PICK success \in BOOLEAN : success = (code = 0 /\ child.exited /\ child.clean)
  OBVIOUS
<1>4. Return(cleanup, success)
  BY <1>1, <1>2, <1>3, Zenon
<1>5. cleanup => CleanNow
  BY <1>0, <1>2, CommandClean
<1>6. success => EarnedNow /\ cleanup
  BY <1>0, <1>2, <1>3 DEF EarnedNow, hosted
<1> QED BY <1>4, <1>5, <1>6, VerdictKeeps

---------------------------------------------------------------------------
(* The theorems.                                                           *)

\* An invocation starts with nothing known.
LEMMA InvocationInvInit == InvInit => InvocationInv
<1> SUFFICES ASSUME InvInit PROVE InvocationInv
  OBVIOUS
<1>1. Types
  <2>1. local \in Locals
    BY InvocationAssumption DEF InvInit, NewLocal, Locals
  <2>2. service \in Services /\ helpers \in HelperRecords /\ turn \in Turns
    BY DEF InvInit, Services, HelperRecords, HelperStates, Turns
  <2>3. collector \in Collectors
    BY DEF InvInit, NewCollector, Collectors
  <2>4. result \in [success : BOOLEAN, cleanup : BOOLEAN]
    BY DEF InvInit
  <2> QED BY <2>1, <2>2, <2>3, <2>4, NoChildIs DEF Types, InvInit
<1>2. SessionStands(service, local) /\ SessionAt(runner, pc, service, local)
  BY DEF InvInit, NewLocal, SessionStands, SessionAt, Before, Talking
<1>3. HelpersStand(runner, local, helpers)
  BY DEF InvInit, NewLocal, HelpersStand
<1>4. CollectorStands(runner, collector, turn) /\ TraceStands(runner, local, collector, turn)
  BY DEF InvInit, NewLocal, NewCollector, CollectorStands, TraceStands
<1>5. ChildStands(child) /\ CommandAt(runner, pc, local, child)
  BY NoChildIs DEF InvInit, CommandAt
<1>6. CleanupIsTrue /\ SuccessIsEarned
  BY DEF InvInit, CleanupIsTrue, SuccessIsEarned
<1> QED BY <1>1, <1>2, <1>3, <1>4, <1>5, <1>6 DEF InvocationInv

\* Every step of the five runners keeps InvocationInv.
LEMMA InvocationInvStep == InvocationInv /\ [InvNext]_invVars => InvocationInv'
<1> SUFFICES ASSUME InvocationInv, [InvNext]_invVars PROVE InvocationInv'
  OBVIOUS
<1>1. CASE Steps
  <2>1. CASE \/ Guarded \/ SetupSession \/ SetupSynthetic \/ SetupCommand \/ SetupSample
             \/ SetupIsolated
    BY <2>1, GuardedKeeps, SetupSessionKeeps, SetupSyntheticKeeps, SetupCommandKeeps,
       SetupSampleKeeps, SetupIsolatedKeeps, Zenon
  <2>2. CASE Probe \/ Inventory \/ Catalog \/ Fallback \/ CreateSession \/ SetEnvironment
    BY <2>2, ProbeKeeps, InventoryKeeps, CatalogKeeps, FallbackKeeps, CreateSessionKeeps,
       SetEnvironmentKeeps, Zenon
  <2>3. CASE \/ Prompt \/ Wait \/ Messages \/ Resources \/ Interrupt \/ Observe \/ Listing
             \/ Partial
    BY <2>3, PromptKeeps, WaitKeeps, MessagesKeeps, ResourcesKeeps, InterruptKeeps,
       ObserveKeeps, ListingKeeps, PartialKeeps, Zenon
  <2>4. CASE Start \/ EndChild \/ Collect \/ Judge \/ JudgeSample
    BY <2>4, StartKeeps, EndChildKeeps, CollectKeeps, JudgeKeeps, JudgeSampleKeeps, Zenon
  <2>5. CASE ImportSession \/ Import \/ FinallySession \/ FinallyCommand
    BY <2>5, ImportSessionKeeps, ImportKeeps, FinallySessionKeeps, FinallyCommandKeeps, Zenon
  <2>6. CASE \/ VerdictSession \/ VerdictSynthetic \/ VerdictCommand \/ VerdictSample
             \/ VerdictIsolated
    BY <2>6, VerdictSessionKeeps, VerdictSyntheticKeeps, VerdictCommandKeeps,
       VerdictSampleKeeps, VerdictIsolatedKeeps, Zenon
  <2> QED BY <1>1, <2>1, <2>2, <2>3, <2>4, <2>5, <2>6, Zenon DEF Steps
<1>2. CASE \E reason \in {"exit", "output", "cancelled", "timeout", "consumer"} :
                StopChild(reason)
  BY <1>2, StopChildKeeps
<1>3. CASE \E ev \in Events : AgentActs(ev)
  BY <1>3, AgentActsKeeps
<1>4. CASE Cancel \/ Expire
  BY <1>4, OutsideKeeps DEF Cancel, Expire
<1>5. CASE SessionActs
  BY <1>5, SessionActsKeeps
<1>6. CASE Done \/ UNCHANGED invVars
  BY <1>6, OutsideKeeps DEF Done, invVars
<1> QED BY <1>1, <1>2, <1>3, <1>4, <1>5, <1>6, Zenon DEF InvNext

\* Where a phase stands: the client, the collector and the processes agree with
\* what really is, whatever the agent, its service, the clock and the one who
\* cancels do, in the control flow of every _execute.
THEOREM InvocationStands == InvSpec => []InvocationInv
<1>1. InvInit => InvocationInv
  BY InvocationInvInit
<1>2. InvocationInv /\ [InvNext]_invVars => InvocationInv'
  BY InvocationInvStep
<1> QED BY <1>1, <1>2, PTL DEF InvSpec

\* cleanup_verified, on which the orchestrator releases the workspace, is never
\* claimed of a session, a turn, a process or a helper that is still at work.
THEOREM CleanupsAreTrue == InvSpec => []CleanupIsTrue
<1>1. InvocationInv => CleanupIsTrue
  BY DEF InvocationInv
<1> QED BY <1>1, InvocationStands, PTL

\* A phase that succeeds was cleaned up after, has its outputs, and its agent
\* ended its turn with no tool at work.
THEOREM SuccessesAreEarned == InvSpec => []SuccessIsEarned
<1>1. InvocationInv => SuccessIsEarned
  BY DEF InvocationInv
<1> QED BY <1>1, InvocationStands, PTL
=============================================================================
