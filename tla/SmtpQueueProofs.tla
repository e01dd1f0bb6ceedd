--------------------------- MODULE SmtpQueueProofs ---------------------------
(***************************************************************************)
(* The safety theorems of SmtpQueue.  The invariant has a part for each    *)
(* question a step asks: what a process may assume of itself (Locals) and  *)
(* of the attempt it works on (Holds, Recovers, Inserts), how attempts of  *)
(* one message follow each other (Ordered), what a row says of the server  *)
(* (Exchange), and what runs and handoffs say of rows (RunsTell,           *)
(* AlertsTell, OnceAccepted).  Fates adds what must be known of recovery   *)
(* to refine MailDelivery.                                                 *)
(***************************************************************************)
EXTENDS SmtpQueue, Sequences, TLAPS

\* Labels of the dispatcher, of operators, and of whoever holds the attempt.
Dispatching == {"insert", "claim", "retire", "connect", "body", "reply", "finish",
                "finish_again", "probe", "recover"}
Operating == {"flag", "cancel", "supersede", "retry"}
Holding == {"connect", "body", "reply", "finish", "finish_again", "close"}
Recovering == {"probe", "recover"}

\* A step of the call reads what the steps before it left in its locals.
LocalsOf(p) ==
    /\ pc[p] # "idle" => job[p] \in Jobs
    /\ pc[p] \in Dispatching => p \in Dispatchers
    /\ pc[p] \in Operating => p \in Operators
    /\ pc[p] \notin {"finish", "finish_again"} \cup Recovering => outcome[p] = "failed"
    /\ pc[p] = "finish_again" => outcome[p] = "uncertain"
    /\ pc[p] \in Recovering => outcome[p] \in {"failed", "uncertain"}
    /\ pc[p] # "finish" => ~transient[p]
    /\ pc[p] \in Operating \/ (pc[p] = "close" /\ p \in Operators) => Report(job[p][1])
    /\ pc[p] \in {"supersede", "retry"} \/ (pc[p] = "close" /\ p \in Operators)
          => request[p].key \in Keys
    /\ pc[p] = "cancel" => cancelRequested[job[p][1]]
    /\ pc[p] = "insert" => Bound(job[p][1]) /\ job[p] = First(job[p][1])

Locals == \A p \in Processes : LocalsOf(p)

\* The attempts of a message are numbered without gaps, only the last one can be
\* pending, and only reports have more than one.
Ordered ==
    /\ \A m \in Messages : \E n \in 0..MaxAttempts :
          \A j \in Jobs : j[1] = m => (Status(j) # "none" <=> j[2] <= n)
    /\ \A i, j \in Jobs : i[1] = j[1] /\ j[2] < i[2] /\ Pending(j) => Status(i) = "none"
    /\ \A j \in Jobs : 1 < j[2] /\ Status(j) # "none" => Report(j[1])

\* The owner of an attempt has it to itself; its place in the exchange is on record.
HoldsOf(p) ==
    LET j == job[p] IN
    pc[p] \in Holding =>
        /\ Status(j) = "sending" /\ row[j].owner = p
        /\ pc[p] \in {"connect", "close"} => row[j].phase = "prepared"
        /\ pc[p] \in {"body", "reply", "finish_again"} => row[j].phase = "data_started"
        /\ pc[p] = "body" => server[j] = "none"
        /\ pc[p] = "reply" => server[j] # "none"
        /\ pc[p] = "finish" =>
              /\ outcome[p] = "failed" => row[j].phase = "prepared" \/ server[j] = "rejected"
              /\ outcome[p] = "smtp_accepted" =>
                    row[j].phase = "data_started" /\ server[j] = "accepted"
              /\ outcome[p] = "connection_ok" => row[j].phase = "prepared" /\ Kind[j[1]] = "probe"
              /\ outcome[p] = "uncertain" => row[j].phase = "data_started"

Holds == \A p \in Processes : HoldsOf(p)

\* Whoever recovers an attempt found it sent for; its owner is dead for good.
RecoversOf(p) ==
    LET j == job[p] IN
    pc[p] \in Recovering =>
        /\ Status(j) \in {"sending"} \cup Results
        /\ Status(j) = "sending" =>
              /\ outcome[p] = "uncertain" => row[j].phase = "data_started"
              /\ pc[p] = "recover" => row[j].owner = Nobody

Recovers == \A p \in Processes : RecoversOf(p)

\* What was checked before an insertion still holds, but for a cancellation.
InsertsOf(p) ==
    LET m == job[p][1] IN
    pc[p] = "insert" /\ Status(job[p]) = "none" =>
        \/ handoff[m] = "published" /\ (Report(m) => runStatus[m] = "awaiting_receipt")
        \/ Report(m) /\ cancelRequested[m] /\ runStatus[m] = "cancelled" /\ handoff[m] = "failed"

Inserts == \A p \in Processes : InsertsOf(p)

\* What a row says of the exchange with the server.
ExchangeOf(j) ==
    /\ row[j].phase = "finished" <=> Status(j) \in Results
    /\ row[j].owner # Nobody => Status(j) = "sending"
    /\ Status(j) \in {"none", "queued"} => row[j].phase = "prepared"
    /\ row[j].phase = "prepared" => server[j] = "none"
    /\ row[j].phase = "data_started" => Kind[j[1]] # "probe"
    /\ Status(j) = "none" => ~row[j].consent
    /\ Status(j) = "smtp_accepted" => server[j] = "accepted"
    /\ Status(j) = "connection_ok" => server[j] = "none" /\ Kind[j[1]] = "probe"

Exchange == \A j \in Jobs : ExchangeOf(j)

\* A message that was accepted is not tried again.
OnceAccepted ==
    \A i, j \in Jobs : i[1] = j[1] /\ Pending(j) => Status(i) # "smtp_accepted"

\* What runs say of their attempts, beyond WaitingHasCause and UncertaintyIsKept.
RunTells(m) ==
    /\ runStatus[m] \in {"none", "running"} => handoff[m] = "none"
    /\ handoff[m] = "none" => \A j \in Jobs : j[1] = m => Status(j) = "none"
    /\ \A j \in Jobs : j[1] = m /\ row[j].phase = "data_started"
          => runStatus[m] = "awaiting_receipt"
    /\ WaitingHasCause(m)
    /\ UncertaintyIsKept(m)

RunsTell ==
    \A m \in Messages : IF Report(m) THEN RunTells(m) ELSE runStatus[m] = "none"

\* What the handoff of an alert says of its only attempt.
AlertTells(m) ==
    LET s == Status(First(m)) IN
    /\ s = "none" => handoff[m] \in {"none", "published"}
    /\ s \in {"queued", "sending"} => handoff[m] = "published"
    /\ s \in Results => handoff[m] = s

AlertsTell == \A m \in Messages : Kind[m] = "alert" => AlertTells(m)

\* A request key is answered with its one effect.
KeysAnswered == \A k \in Keys : effects[k] = IF answered[k] = NoJob THEN 0 ELSE 1

Inductive ==
    /\ TypeOK /\ Locals
    /\ Ordered /\ Exchange /\ Holds /\ Recovers /\ Inserts
    /\ OnceAccepted /\ RunsTell /\ AlertsTell /\ KeysAnswered

\* No dispatcher can die while there is another one to recover what it sent.
NoDeadPeer == \A p \in Dispatchers, q \in Dispatchers \cap Mortal : p = q

\* What was read before the owner was probed, and what "failed" means then.
FateOf(p) ==
    LET j == job[p] IN
    Status(j) = "sending" /\ row[j].phase = "data_started" /\ outcome[p] = "failed" =>
        /\ pc[p] = "probe" => row[j].owner \in Dispatchers \ Mortal
        /\ pc[p] # "recover"

\* A second copy of a message is only under way if an operator accepted that.
CopiesConsented ==
    \A i, j \in Jobs : i[1] = j[1] /\ i # j /\ Pending(j) /\ Possible(i) => row[j].consent

Fates ==
    /\ \A p \in Processes : pc[p] \in Recovering => FateOf(p)
    /\ FailedWasNotSent
    /\ CopiesConsented
-----------------------------------------------------------------------------
(* Jobs are pairs of a message and a number. *)

\* A job is a message and the number of an attempt.
LEMMA JobParts ==
    /\ \A j \in Jobs : j[1] \in Messages /\ j[2] \in 1..MaxAttempts /\ j = <<j[1], j[2]>>
    /\ \A m \in Messages, n \in 1..MaxAttempts :
          <<m, n>> \in Jobs /\ <<m, n>>[1] = m /\ <<m, n>>[2] = n
    /\ NoJob \notin Jobs
<1>1. ASSUME NoJob \in Jobs PROVE FALSE
  <2>1. PICK m \in Messages, n \in 1..MaxAttempts : <<>> = <<m, n>>
    BY <1>1 DEF Jobs, NoJob
  <2>2. Len(<<>>) = 0 /\ Len(<<m, n>>) = 2
    OBVIOUS
  <2> QED BY <2>1, <2>2
<1> QED BY <1>1 DEF Jobs

\* A job is its message and its number.
LEMMA SameJob ==
    ASSUME NEW i \in Jobs, NEW j \in Jobs, i[1] = j[1], i[2] = j[2]
    PROVE  i = j
  BY JobParts

\* The first attempt of a message.
LEMMA FirstJob ==
    ASSUME NEW m \in Messages
    PROVE  First(m) \in Jobs /\ First(m)[1] = m /\ First(m)[2] = 1
<1>1. 1 \in 1..MaxAttempts
  BY LimitAssumption
<1> QED BY <1>1, JobParts DEF First

\* The attempt after one that is not the last.
LEMMA NextJob ==
    ASSUME NEW j \in Jobs, j[2] < MaxAttempts
    PROVE  Next1(j) \in Jobs /\ Next1(j)[1] = j[1] /\ Next1(j)[2] = j[2] + 1 /\ Next1(j) # j
<1>1. j[1] \in Messages /\ j[2] + 1 \in 1..MaxAttempts
  BY JobParts, LimitAssumption
<1>2. Next1(j) \in Jobs /\ Next1(j)[1] = j[1] /\ Next1(j)[2] = j[2] + 1
  BY <1>1, JobParts DEF Next1
<1> QED BY <1>1, <1>2

\* The attempts of a message have a last one.
LEMMA LatestJob ==
    ASSUME Ordered, NEW m \in Messages, Attempts(m) # {}
    PROVE  /\ Latest(m) \in Attempts(m) /\ Latest(m) \in Jobs /\ Latest(m)[1] = m
           /\ \A i \in Jobs : i[1] = m /\ Latest(m)[2] < i[2] => Status(i) = "none"
<1>1. PICK n \in 0..MaxAttempts :
          \A j \in Jobs : j[1] = m => (Status(j) # "none" <=> j[2] <= n)
  BY DEF Ordered
<1>2. PICK i \in Jobs : i[1] = m /\ Status(i) # "none"
  BY DEF Attempts
<1>3. n \in 1..MaxAttempts
  BY <1>1, <1>2, JobParts, LimitAssumption
<1>4. <<m, n>> \in Attempts(m) /\ \A k \in Attempts(m) : k[2] <= <<m, n>>[2]
  BY <1>1, <1>3, JobParts DEF Attempts
<1>5. Latest(m) \in Attempts(m) /\ \A k \in Attempts(m) : k[2] <= Latest(m)[2]
  BY <1>4 DEF Latest
<1>6. Latest(m) \in Jobs /\ Latest(m)[1] = m
  BY <1>5 DEF Attempts
<1>7. ASSUME NEW k \in Jobs, k[1] = m, Latest(m)[2] < k[2] PROVE Status(k) = "none"
  BY <1>5, <1>6, <1>7, JobParts, LimitAssumption DEF Attempts
<1> QED BY <1>5, <1>6, <1>7
-----------------------------------------------------------------------------
(* Types. *)

\* The fields of a row queued anew.
LEMMA QueuedRow ==
    ASSUME NEW later \in BOOLEAN, NEW expiry \in {"none", "open", "past"},
           NEW consent \in BOOLEAN, NEW key \in Keys \cup {NoKey}, NEW rev \in Nat
    PROVE  LET r == Queued(later, expiry, consent, key, rev) IN
           /\ r \in Row /\ r.status = "queued" /\ r.phase = "prepared" /\ r.owner = Nobody
           /\ r.consent = consent
<1> DEFINE r == Queued(later, expiry, consent, key, rev)
<1>1. r \in Row
  <2>1. "queued" \in Statuses /\ Nobody \in Processes \cup {Nobody}
    BY DEF Statuses
  <2> QED BY <2>1 DEF Queued, Row
<1>2. r.status = "queued" /\ r.phase = "prepared" /\ r.owner = Nobody
  BY DEF Queued
<1>3. r.consent = consent
  BY DEF Queued
<1> QED BY <1>1, <1>2, <1>3

\* The fields of the row of a first attempt.
LEMMA FirstRow ==
    ASSUME NEW rev \in Nat
    PROVE  LET r == Queued(FALSE, "none", FALSE, NoKey, rev) IN
           /\ r \in Row /\ r.status = "queued" /\ r.phase = "prepared" /\ r.owner = Nobody
           /\ r.consent = FALSE
<1> DEFINE r == Queued(FALSE, "none", FALSE, NoKey, rev)
<1>1. "queued" \in Statuses /\ Nobody \in Processes \cup {Nobody}
  BY DEF Statuses
<1>2. r \in Row
  BY <1>1 DEF Queued, Row
<1>3. r.status = "queued" /\ r.phase = "prepared" /\ r.owner = Nobody /\ r.consent = FALSE
  BY DEF Queued
<1> QED BY <1>2, <1>3

\* The fields of the absent row.
LEMMA NoRowRow ==
    NoRow \in Row /\ NoRow.status = "none" /\ NoRow.phase = "prepared" /\ NoRow.owner = Nobody
    /\ NoRow.consent = FALSE
  BY DEF NoRow, Queued, Row, Statuses

\* The fields of a settled row.
LEMMA ClosedRow ==
    ASSUME TypeOK, NEW j \in Jobs, NEW result \in Results
    PROVE  LET r == Closed(j, result) IN
           /\ r \in Row /\ r.status = result /\ r.phase = "finished" /\ r.owner = Nobody
           /\ r.consent = row[j].consent
<1>1. row[j] \in Row /\ result \in Statuses /\ Nobody \in Processes \cup {Nobody}
  BY DEF TypeOK, Statuses
<1> QED BY <1>1 DEF Closed, Row

\* A settled report ends its run.
LEMMA SettledTypes ==
    ASSUME TypeOK, NEW j \in Jobs, NEW result \in Results \ {"connection_ok"}
    PROVE  SettledRun(j, result) \in {"succeeded", "needs_attention", "cancelled", "failed"}
<1>1. CASE result = "smtp_accepted"
  BY <1>1 DEF SettledRun
<1>2. CASE result = "uncertain"
  BY <1>2 DEF SettledRun
<1>3. CASE result = "failed"
  <2>1. CASE PriorUncertain(j)
    BY <1>3, <2>1 DEF SettledRun
  <2>2. CASE ~PriorUncertain(j)
    BY <1>3, <2>2 DEF SettledRun
  <2> QED BY <2>1, <2>2
<1> QED BY <1>1, <1>2, <1>3 DEF Results

\* A settled handoff has a handoff status.
LEMMA SettledHandoffType ==
    ASSUME NEW j, NEW result \in Results
    PROVE  SettledHandoff(j, result) \in HandoffStatuses
  BY DEF SettledHandoff, Results, HandoffStatuses

\* What a process keeps of the call it is inside of, and what a return leaves.
LocalTypes ==
    /\ pc \in [Processes -> Labels]
    /\ job \in [Processes -> Jobs \cup {NoJob}]
    /\ outcome \in [Processes -> Results]
    /\ transient \in [Processes -> BOOLEAN]
    /\ request \in [Processes -> Request]

\* The requests that commands make are requests.
LEMMA RequestTypes ==
    /\ NoRequest \in Request
    /\ \A k \in Keys, c \in BOOLEAN, r \in Nat :
          [key |-> k, consent |-> c, revision |-> r] \in Request
  BY DEF NoRequest, Request

\* A process that returns to idle keeps the locals' types.
LEMMA ReturnTypes ==
    ASSUME LocalTypes, NEW p \in Processes, Return(p)
    PROVE  LocalTypes'
  BY RequestTypes DEF LocalTypes, Return, Goto, Labels, Results

\* A process that goes on keeps the locals' types.
LEMMA GotoTypes ==
    ASSUME LocalTypes, NEW p \in Processes, NEW l \in Labels, Goto(p, l),
           UNCHANGED <<job, outcome, transient, request>>
    PROVE  LocalTypes'
  BY DEF LocalTypes, Goto

\* A process that concludes keeps the locals' types.
LEMMA ConcludeTypes ==
    ASSUME LocalTypes, NEW p \in Processes, NEW r \in Results, NEW b \in BOOLEAN,
           Conclude(p, r, b)
    PROVE  LocalTypes'
  BY DEF LocalTypes, Conclude, Goto, Labels

\* The locals keep their types.
LEMMA LocalTypesStep ==
    ASSUME TypeOK, Ordered, Next
    PROVE  LocalTypes'
<1> USE DEF TypeOK, locals
<1>0. LocalTypes
  BY DEF LocalTypes
<1>1. ASSUME NEW p \in Processes, Proceed(p) PROVE LocalTypes'
  <2>1. CASE Enqueue(p)
    BY <1>0, <2>1, ReturnTypes DEF Enqueue
  <2>2. CASE Claim(p)
    BY <1>0, <2>2, GotoTypes DEF Claim, Labels
  <2>3. CASE ClaimRefused(p)
    BY <1>0, <2>3, ReturnTypes DEF ClaimRefused
  <2>4. CASE ConnectFails(p)
    BY <1>0, <2>4, ConcludeTypes DEF ConnectFails, Results
  <2>5. CASE ConnectionVerified(p)
    BY <1>0, <2>5, ConcludeTypes DEF ConnectionVerified, Results
  <2>6. CASE StartData(p)
    BY <1>0, <2>6, GotoTypes, ConcludeTypes DEF StartData, Results, Labels
  <2>7. CASE SendBody(p)
    BY <1>0, <2>7, GotoTypes DEF SendBody, Labels
  <2>8. CASE ReadReply(p)
    BY <1>0, <2>8, ConcludeTypes DEF ReadReply, Results
  <2>9. CASE ExchangeBreaks(p)
    BY <1>0, <2>9, ConcludeTypes DEF ExchangeBreaks, Results
  <2>10. CASE Finish(p)
    BY <1>0, <2>10, GotoTypes, ReturnTypes DEF Finish, Labels
  <2>11. CASE FinishLost(p)
    BY <1>0, <2>11, ReturnTypes DEF FinishLost
  <2>12. CASE FinishFails(p)
    BY <1>0, <2>12, ReturnTypes DEF FinishFails, Goto, LocalTypes, Labels, Results
  <2>13. CASE RecoverProbe(p)
    BY <1>0, <2>13, GotoTypes, ReturnTypes DEF RecoverProbe, Labels
  <2>14. CASE RequestCancel(p)
    BY <1>0, <2>14, GotoTypes DEF RequestCancel, Labels
  <2>15. CASE CancelPending(p)
    BY <1>0, <2>15, ReturnTypes DEF CancelPending
  <2>16. CASE Expedite(p)
    BY <1>0, <2>16, ReturnTypes DEF Expedite
  <2>17. CASE Retry(p)
    BY <1>0, <2>17, ReturnTypes DEF Retry
  <2>18. CASE RetryEnds(p)
    BY <1>0, <2>18, ReturnTypes DEF RetryEnds
  <2> QED
    BY <1>1, <2>1, <2>2, <2>3, <2>4, <2>5, <2>6, <2>7, <2>8, <2>9, <2>10, <2>11, <2>12, <2>13,
       <2>14, <2>15, <2>16, <2>17, <2>18 DEF Proceed
<1>2. ASSUME NEW p \in Processes, Poll(p) PROVE LocalTypes'
  <2>1. ASSUME NEW j \in Jobs, Prepare(p, j) PROVE LocalTypes'
    BY <2>1 DEF Prepare, Take, Goto, Labels, LocalTypes
  <2>2. ASSUME NEW j \in Jobs, RecoverRead(p, j) PROVE LocalTypes'
    BY <2>2 DEF RecoverRead, Take, Goto, Labels, LocalTypes, Results
  <2>3. ASSUME NEW m \in Messages, EnqueueCheck(p, m) PROVE LocalTypes'
    <3>1. request' \in [Processes -> Request]
      BY <2>3 DEF EnqueueCheck, Request
    <3> QED BY <2>3, <3>1, FirstJob DEF EnqueueCheck, Take, Goto, Labels, LocalTypes
  <2> QED BY <1>2, <2>1, <2>2, <2>3 DEF Poll
<1>3. ASSUME NEW p \in Processes, Command(p) PROVE LocalTypes'
  <2>1. ASSUME NEW m \in Messages, CancelRead(p, m) PROVE LocalTypes'
    BY <2>1, FirstJob DEF CancelRead, Take, Goto, Labels, LocalTypes
  <2>2. ASSUME NEW m \in Messages, NEW k \in Keys, NEW consent \in BOOLEAN,
               RetryRead(p, m, k, consent)
        PROVE  LocalTypes'
    <3>1. Latest(m) \in Jobs
      BY <2>2, LatestJob DEF RetryRead
    <3>2. request' \in [Processes -> Request]
      BY <2>2, RequestTypes DEF RetryRead
    <3> QED BY <2>2, <3>1, <3>2 DEF RetryRead, Take, Goto, Labels, LocalTypes
  <2> QED BY <1>3, <2>1, <2>2 DEF Command
<1>4. ASSUME NEW p \in Processes, Crash(p) PROVE LocalTypes'
  BY <1>0, <1>4, ReturnTypes DEF Crash
<1>5. ASSUME NEW m \in Messages, CreateRun(m) \/ EndRun(m) \/ PublishAlert(m) \/ EnqueueTest(m)
      PROVE  LocalTypes'
  BY <1>5 DEF CreateRun, EndRun, PublishAlert, EnqueueTest, LocalTypes
<1>6. ASSUME NEW j \in Jobs, ServerDecides(j) \/ DueArrives(j) \/ ExpiryPasses(j)
      PROVE  LocalTypes'
  BY <1>6 DEF ServerDecides, DueArrives, ExpiryPasses, LocalTypes
<1>7. CASE EditSettings
  BY <1>7 DEF EditSettings, LocalTypes
<1> QED BY <1>1, <1>2, <1>3, <1>4, <1>5, <1>6, <1>7 DEF Next

-----------------------------------------------------------------------------
(* Locals. *)

\* A step of p leaves the locals of the others alone, and takes no flag back.
Elsewhere(p) ==
    /\ \A q \in Processes \ {p} :
          /\ pc'[q] = pc[q] /\ job'[q] = job[q] /\ outcome'[q] = outcome[q]
          /\ transient'[q] = transient[q] /\ request'[q] = request[q]
    /\ \A m \in Messages : cancelRequested[m] => cancelRequested'[m]

\* It is enough to look at the process that takes the step.
LEMMA LocalsOfOthers ==
    ASSUME TypeOK, Locals, NEW p \in Processes, Elsewhere(p), LocalsOf(p)'
    PROVE  Locals'
<1> SUFFICES ASSUME NEW q \in Processes \ {p} PROVE LocalsOf(q)'
  BY DEF Locals
<1>1. LocalsOf(q)
  BY DEF Locals
<1>2. pc[q] # "idle" => job[q][1] \in Messages
  BY <1>1, JobParts DEF LocalsOf
<1> QED
  BY <1>1, <1>2 DEF Elsewhere, LocalsOf, Dispatching, Operating, Recovering

\* A process that returns knows nothing more.
LEMMA ReturnLocals ==
    ASSUME TypeOK, NEW p \in Processes, Return(p), UNCHANGED cancelRequested
    PROVE  Elsewhere(p) /\ LocalsOf(p)' /\ pc'[p] = "idle"
  BY DEF TypeOK, Return, Goto, Elsewhere, LocalsOf, Dispatching, Operating, Recovering

\* A process that concludes knows its outcome.
LEMMA ConcludeLocals ==
    ASSUME TypeOK, Locals, NEW p \in Processes, NEW r, NEW b, Conclude(p, r, b),
           pc[p] \in {"connect", "body", "reply"}, UNCHANGED cancelRequested
    PROVE  Elsewhere(p) /\ LocalsOf(p)' /\ pc'[p] = "finish" /\ job' = job
           /\ outcome'[p] = r /\ transient'[p] = b
<1>1. LocalsOf(p)
  BY DEF Locals
<1> QED
  BY <1>1 DEF TypeOK, Conclude, Goto, Elsewhere, LocalsOf, Dispatching, Operating, Recovering

\* A step of a process changes its own locals, and leaves them as Locals says.
LEMMA ProcessLocals ==
    ASSUME TypeOK, Ordered, Locals, NEW c \in Processes,
           Proceed(c) \/ Poll(c) \/ Command(c) \/ Crash(c)
    PROVE  Elsewhere(c) /\ LocalsOf(c)'
<1> USE DEF runs, locals
<1>0. ASSUME NEW p \in Processes PROVE LocalsOf(p)
  BY DEF Locals
<1>1. ASSUME NEW p \in Processes, Proceed(p) PROVE Elsewhere(p) /\ LocalsOf(p)'
  <2> USE <1>0 DEF TypeOK, LocalsOf, Elsewhere, Dispatching, Operating, Recovering, Goto, At
  <2>1. CASE Enqueue(p)
    BY <2>1, ReturnLocals DEF Enqueue
  <2>2. CASE Claim(p)
    BY <2>2, ProcessAssumption DEF Claim
  <2>3. CASE ClaimRefused(p)
    BY <2>3, ReturnLocals DEF ClaimRefused
  <2>4. CASE ConnectFails(p)
    BY <2>4, ConcludeLocals DEF ConnectFails
  <2>5. CASE ConnectionVerified(p)
    BY <2>5, ConcludeLocals DEF ConnectionVerified
  <2>6. CASE StartData(p)
    <3>1. CASE Goto(p, "body") /\ UNCHANGED locals
      BY <2>6, <3>1 DEF StartData
    <3>2. CASE Conclude(p, "failed", FALSE)
      BY <2>6, <3>2, ConcludeLocals DEF StartData
    <3> QED BY <2>6, <3>1, <3>2 DEF StartData
  <2>7. CASE SendBody(p)
    BY <2>7 DEF SendBody
  <2>8. CASE ReadReply(p)
    BY <2>8, ConcludeLocals DEF ReadReply
  <2>9. CASE ExchangeBreaks(p)
    BY <2>9, ConcludeLocals DEF ExchangeBreaks
  <2>10. CASE Finish(p)
    <3>1. CASE pc[p] = "close" /\ p \in Operators
      BY <2>10, <3>1 DEF Finish
    <3>2. CASE ~(pc[p] = "close" /\ p \in Operators)
      BY <2>10, <3>2, ReturnLocals DEF Finish
    <3> QED BY <3>1, <3>2
  <2>11. CASE FinishLost(p)
    BY <2>11, ReturnLocals DEF FinishLost
  <2>12. CASE FinishFails(p)
    <3>1. CASE pc[p] = "finish" /\ row[job[p]].phase = "data_started"
      BY <2>12, <3>1 DEF FinishFails
    <3>2. CASE ~(pc[p] = "finish" /\ row[job[p]].phase = "data_started")
      BY <2>12, <3>2, ReturnLocals DEF FinishFails
    <3> QED BY <3>1, <3>2
  <2>13. CASE RecoverProbe(p)
    BY <2>13, ReturnLocals DEF RecoverProbe
  <2>14. CASE RequestCancel(p)
    BY <2>14, JobParts DEF RequestCancel
  <2>15. CASE CancelPending(p)
    BY <2>15, ReturnLocals DEF CancelPending
  <2>16. CASE Expedite(p)
    BY <2>16, ReturnLocals DEF Expedite
  <2>17. CASE Retry(p)
    BY <2>17, ReturnLocals DEF Retry
  <2>18. CASE RetryEnds(p)
    BY <2>18, ReturnLocals DEF RetryEnds
  <2> QED
    BY <1>1, <2>1, <2>2, <2>3, <2>4, <2>5, <2>6, <2>7, <2>8, <2>9, <2>10, <2>11, <2>12, <2>13,
       <2>14, <2>15, <2>16, <2>17, <2>18 DEF Proceed
<1>2. ASSUME NEW p \in Processes, Poll(p) PROVE Elsewhere(p) /\ LocalsOf(p)'
  <2> USE <1>0 DEF TypeOK, LocalsOf, Elsewhere, Dispatching, Operating, Recovering, Take, Goto, At
  <2>1. ASSUME NEW j \in Jobs, Prepare(p, j) PROVE Elsewhere(p) /\ LocalsOf(p)'
    BY <2>1 DEF Prepare
  <2>2. ASSUME NEW j \in Jobs, RecoverRead(p, j) PROVE Elsewhere(p) /\ LocalsOf(p)'
    BY <2>2 DEF RecoverRead
  <2>3. ASSUME NEW m \in Messages, EnqueueCheck(p, m) PROVE Elsewhere(p) /\ LocalsOf(p)'
    BY <2>3, FirstJob DEF EnqueueCheck
  <2> QED BY <1>2, <2>1, <2>2, <2>3 DEF Poll
<1>3. ASSUME NEW p \in Processes, Command(p) PROVE Elsewhere(p) /\ LocalsOf(p)'
  <2> USE <1>0 DEF TypeOK, LocalsOf, Elsewhere, Dispatching, Operating, Recovering, Take, Goto, At
  <2>1. ASSUME NEW m \in Messages, CancelRead(p, m) PROVE Elsewhere(p) /\ LocalsOf(p)'
    BY <2>1, FirstJob, ProcessAssumption DEF CancelRead
  <2>2. ASSUME NEW m \in Messages, NEW k \in Keys, NEW consent \in BOOLEAN,
               RetryRead(p, m, k, consent)
        PROVE  Elsewhere(p) /\ LocalsOf(p)'
    <3>1. Latest(m) \in Jobs /\ Latest(m)[1] = m
      BY <2>2, LatestJob DEF RetryRead
    <3> QED BY <2>2, <3>1, ProcessAssumption DEF RetryRead
  <2> QED BY <1>3, <2>1, <2>2 DEF Command
<1>4. ASSUME NEW p \in Processes, Crash(p) PROVE Elsewhere(p) /\ LocalsOf(p)'
  BY <1>4, ReturnLocals DEF Crash
<1> QED BY <1>1, <1>2, <1>3, <1>4

\* Locals is kept.
LEMMA LocalsStep ==
    ASSUME TypeOK, Ordered, Locals, Next
    PROVE  Locals'
<1> USE DEF runs, locals
<1>5. CASE UNCHANGED <<pc, locals, cancelRequested>>
  BY <1>5 DEF Locals, LocalsOf
<1>6. ASSUME NEW m \in Messages, CreateRun(m) \/ EndRun(m) \/ PublishAlert(m) \/ EnqueueTest(m)
      PROVE  UNCHANGED <<pc, locals, cancelRequested>>
  BY <1>6 DEF CreateRun, EndRun, PublishAlert, EnqueueTest
<1>7. ASSUME NEW j \in Jobs, ServerDecides(j) \/ DueArrives(j) \/ ExpiryPasses(j)
      PROVE  UNCHANGED <<pc, locals, cancelRequested>>
  BY <1>7 DEF ServerDecides, DueArrives, ExpiryPasses
<1>8. EditSettings => UNCHANGED <<pc, locals, cancelRequested>>
  BY DEF EditSettings
<1> QED BY <1>5, <1>6, <1>7, <1>8, ProcessLocals, LocalsOfOthers DEF Next

-----------------------------------------------------------------------------
(* What each step does to the tables, row by row. *)

tables == <<runStatus, handoff, row, server>>

Others(j) == \A i \in Jobs \ {j} : row'[i] = row[i]
OtherMessages(m) ==
    \A n \in Messages \ {m} : runStatus'[n] = runStatus[n] /\ handoff'[n] = handoff[n]

\* Attempt j appears, with or without an operator's acknowledgement.
Appears(j, consent) ==
    /\ Status(j) = "none"
    /\ row'[j].status = "queued" /\ row'[j].phase = "prepared"
    /\ row'[j].owner = Nobody /\ row'[j].consent = consent

\* A result of attempt j is stored.
Closes(j, result) ==
    /\ row'[j].status = result /\ row'[j].phase = "finished"
    /\ row'[j].owner = Nobody /\ row'[j].consent = row[j].consent

\* A first attempt is queued.
Queues(j) ==
    /\ j \in Jobs /\ j[2] = 1
    /\ Others(j) /\ Appears(j, FALSE)
    /\ Bound(j[1]) =>
          \/ handoff[j[1]] = "published" /\ (Report(j[1]) => runStatus[j[1]] = "awaiting_receipt")
          \/ /\ Report(j[1]) /\ cancelRequested[j[1]]
             /\ runStatus[j[1]] = "cancelled" /\ handoff[j[1]] = "failed"
    /\ UNCHANGED <<runStatus, cancelRequested, handoff, server, answered, effects>>

\* Nothing but the progress of rows that are pending, or of the server.
Progresses ==
    /\ \A i \in Jobs :
          /\ row'[i].consent = row[i].consent
          /\ Status(i) \in {"none"} \cup Results => row'[i] = row[i]
          /\ Status(i) = "queued" => row'[i].status \in {"queued", "sending"}
          /\ Status(i) = "sending" => row'[i].status = "sending"
          /\ row'[i].phase = "data_started" => row[i].phase = "data_started" \/ Sendable(i)
    /\ UNCHANGED <<runStatus, cancelRequested, handoff>>

\* finish, without another attempt ...
Settles(j, result) ==
    /\ j \in Jobs /\ Status(j) = "sending" /\ result \in Results
    /\ result \in {"smtp_accepted", "uncertain"} => row[j].phase = "data_started"
    /\ result = "smtp_accepted" => server[j] = "accepted"
    /\ result = "connection_ok" => row[j].phase = "prepared" /\ Kind[j[1]] = "probe"
    /\ Others(j) /\ Closes(j, result)
    /\ OtherMessages(j[1])
    /\ handoff'[j[1]] = IF Bound(j[1]) THEN SettledHandoff(j, result) ELSE handoff[j[1]]
    /\ runStatus'[j[1]] = IF Report(j[1]) /\ runStatus[j[1]] \in {"awaiting_receipt", "running"}
                            THEN SettledRun(j, result) ELSE runStatus[j[1]]
    /\ UNCHANGED <<cancelRequested, server, answered, effects>>

\* ... and with one.
Resumes(j) ==
    /\ j \in Jobs /\ Status(j) = "sending" /\ j[2] < MaxAttempts
    /\ Report(j[1]) /\ ~cancelRequested[j[1]]
    /\ ~PriorUncertain(j) /\ ~Some(j[1], "smtp_accepted")
    /\ row[j].phase = "prepared" \/ server[j] = "rejected"
    /\ \A i \in Jobs \ {j, Next1(j)} : row'[i] = row[i]
    /\ Closes(j, "failed")
    /\ row'[Next1(j)].status = "queued" /\ row'[Next1(j)].phase = "prepared"
    /\ row'[Next1(j)].owner = Nobody /\ row'[Next1(j)].consent = FALSE
    /\ OtherMessages(j[1])
    /\ handoff'[j[1]] = "queued" /\ runStatus'[j[1]] = "awaiting_receipt"
    /\ UNCHANGED <<cancelRequested, server, answered, effects>>

\* cancel_pending_for_run closes what is queued.
Unsure(m) == Some(m, "uncertain") /\ ~Some(m, "smtp_accepted")

Cancels(m) ==
    /\ m \in Messages /\ Report(m) /\ cancelRequested[m]
    /\ runStatus[m] = "awaiting_receipt"
    /\ \A i \in Jobs : i[1] = m => Status(i) # "sending"
    /\ \A i \in Jobs : IF i[1] = m /\ Status(i) = "queued"
                       THEN Closes(i, "failed") ELSE row'[i] = row[i]
    /\ OtherMessages(m)
    /\ Unsure(m) => runStatus'[m] = "needs_attention" /\ handoff'[m] = "uncertain"
    /\ ~Unsure(m) =>
          /\ runStatus'[m] = "cancelled"
          /\ handoff'[m] = IF handoff[m] \in {"published", "queued"} THEN "failed" ELSE handoff[m]
    /\ UNCHANGED <<cancelRequested, server, answered, effects>>

\* retry inserts an attempt after the last one.
Reissues(j, consent) ==
    /\ j \in Jobs /\ j[2] < MaxAttempts
    /\ Report(j[1]) /\ Insertable(j)
    /\ Some(j[1], "uncertain") => consent
    /\ consent \in BOOLEAN
    /\ Others(Next1(j)) /\ Appears(Next1(j), consent)
    /\ OtherMessages(j[1])
    /\ handoff'[j[1]] = "queued" /\ runStatus'[j[1]] = "awaiting_receipt"
    /\ UNCHANGED <<cancelRequested, server>>

\* The run itself moves, or an alert is published.
RunMoves(m) ==
    /\ m \in Messages
    /\ OtherMessages(m)
    /\ \/ /\ Report(m) /\ runStatus[m] = "none" /\ runStatus'[m] = "running"
          /\ handoff'[m] = handoff[m]
       \/ /\ Report(m) /\ runStatus[m] = "running" /\ runStatus'[m] = "awaiting_receipt"
          /\ handoff'[m] = "published"
       \/ /\ Report(m) /\ runStatus[m] = "running" /\ handoff'[m] = handoff[m]
          /\ runStatus'[m] \in {"failed", "needs_attention", "cancelled"}
       \/ /\ Kind[m] = "alert" /\ handoff[m] = "none" /\ handoff'[m] = "published"
          /\ runStatus'[m] = runStatus[m]
    /\ UNCHANGED <<cancelRequested, row, server, answered, effects>>

\* enqueue inserts a first attempt or nothing.
LEMMA EnqueueDoes ==
    ASSUME TypeOK, Locals, Inserts, NEW p \in Processes, Enqueue(p)
    PROVE  (Queues(job[p]) \/ UNCHANGED <<tables, cancelRequested, answered, effects>>)
           /\ row' \in [Jobs -> Row]
<1>1. job[p] \in Jobs /\ job[p] = First(job[p][1]) /\ job[p][1] \in Messages
  BY JobParts DEF Enqueue, Locals, LocalsOf, At
<1>2. PICK rev \in Nat : request[p].revision = rev
  BY DEF TypeOK, Request
<1>3. CASE Status(job[p]) = "none"
  <2>1. row' = [row EXCEPT ![job[p]] = Queued(FALSE, "none", FALSE, NoKey, rev)]
    BY <1>2, <1>3 DEF Enqueue, Status
  <2>2. row' \in [Jobs -> Row] /\ Others(job[p])
        /\ row'[job[p]] = Queued(FALSE, "none", FALSE, NoKey, rev)
    BY <1>1, <1>2, <2>1, FirstRow DEF TypeOK, Others
  <2>3. Appears(job[p], FALSE)
    BY <1>3, <2>2, FirstRow DEF Appears
  <2>4. InsertsOf(p) /\ pc[p] = "insert"
    BY DEF Inserts, Enqueue, At
  <2> QED BY <1>1, <1>3, <2>2, <2>3, <2>4, FirstJob DEF Queues, InsertsOf, Enqueue, runs, ledger
<1>4. CASE Status(job[p]) # "none"
  <2>1. row' = row
    BY <1>1, <1>4 DEF Enqueue, Status, TypeOK
  <2> QED BY <2>1 DEF Enqueue, tables, runs, ledger, TypeOK
<1> QED BY <1>3, <1>4

\* A connection test is queued as the first attempt of its message.
LEMMA EnqueueTestDoes ==
    ASSUME TypeOK, NEW m \in Messages, EnqueueTest(m)
    PROVE  Queues(First(m)) /\ row' \in [Jobs -> Row]
<1>1. row' \in [Jobs -> Row] /\ Others(First(m))
      /\ row'[First(m)] = Queued(FALSE, "none", FALSE, NoKey, revision)
  BY FirstJob, FirstRow DEF EnqueueTest, TypeOK, Others
<1>2. Appears(First(m), FALSE)
  BY <1>1, FirstRow DEF EnqueueTest, TypeOK, Appears
<1> QED BY <1>1, <1>2, FirstJob DEF EnqueueTest, Queues, runs, ledger

\* Runs begin, end and publish alerts without touching a row.
LEMMA RunsMove ==
    ASSUME TypeOK, RunsTell, NEW m \in Messages, CreateRun(m) \/ EndRun(m) \/ PublishAlert(m)
    PROVE  RunMoves(m)
<1>1. CASE CreateRun(m)
  BY <1>1 DEF CreateRun, RunMoves, TypeOK, OtherMessages, ledger
<1>2. CASE EndRun(m)
  <2>0. Report(m)
    BY <1>2 DEF EndRun, RunsTell
  <2>1. UNCHANGED <<cancelRequested, row, server, answered, effects>>
    BY <1>2 DEF EndRun, ledger
  <2>2. CASE runStatus' = [runStatus EXCEPT ![m] = "awaiting_receipt"]
             /\ handoff' = [handoff EXCEPT ![m] = "published"]
    BY <1>2, <2>0, <2>1, <2>2 DEF EndRun, RunMoves, TypeOK, OtherMessages
  <2>3. ASSUME NEW s \in {"failed", "needs_attention"},
               runStatus' = [runStatus EXCEPT ![m] = IF cancelRequested[m] THEN "cancelled" ELSE s],
               UNCHANGED handoff
        PROVE  RunMoves(m)
    <3>1. runStatus'[m] \in {"failed", "needs_attention", "cancelled"}
      BY <2>3 DEF TypeOK
    <3> QED BY <1>2, <2>0, <2>1, <2>3, <3>1 DEF EndRun, RunMoves, TypeOK, OtherMessages
  <2> QED BY <1>2, <2>2, <2>3 DEF EndRun
<1>3. CASE PublishAlert(m)
  BY <1>3 DEF PublishAlert, RunMoves, TypeOK, OtherMessages, ledger, runs
<1> QED BY <1>1, <1>2, <1>3

\* Steps that let rows proceed keep the types of the table.
LEMMA RowOwner ==
    ASSUME NEW r \in Row, NEW o \in Processes \cup {Nobody}
    PROVE  LET n == [r EXCEPT !.owner = o] IN
           /\ n \in Row /\ n.owner = o
           /\ n.status = r.status /\ n.phase = r.phase /\ n.consent = r.consent
  BY DEF Row

\* A row whose due time has come keeps its other fields.
LEMMA RowLater ==
    ASSUME NEW r \in Row
    PROVE  LET n == [r EXCEPT !.later = FALSE] IN
           /\ n \in Row /\ n.owner = r.owner
           /\ n.status = r.status /\ n.phase = r.phase /\ n.consent = r.consent
  BY DEF Row

\* A row whose expiry has passed keeps its other fields.
LEMMA RowExpiry ==
    ASSUME NEW r \in Row
    PROVE  LET n == [r EXCEPT !.expiry = "past"] IN
           /\ n \in Row /\ n.owner = r.owner
           /\ n.status = r.status /\ n.phase = r.phase /\ n.consent = r.consent
  BY DEF Row

\* A row whose DATA has started keeps its other fields.
LEMMA RowData ==
    ASSUME NEW r \in Row
    PROVE  LET n == [r EXCEPT !.phase = "data_started"] IN
           /\ n \in Row /\ n.owner = r.owner
           /\ n.status = r.status /\ n.phase = "data_started" /\ n.consent = r.consent
  BY DEF Row

\* A claimed row has its owner and keeps its phase.
LEMMA RowClaimed ==
    ASSUME NEW r \in Row, NEW p \in Processes
    PROVE  LET n == [r EXCEPT !.status = "sending", !.owner = p, !.later = FALSE] IN
           /\ n \in Row /\ n.owner = p
           /\ n.status = "sending" /\ n.phase = r.phase /\ n.consent = r.consent
<1>1. "sending" \in Statuses
  BY DEF Statuses
<1> QED BY <1>1 DEF Row

\* A claim takes one queued row for the process.
LEMMA ClaimDoes ==
    ASSUME TypeOK, Locals, NEW p \in Processes, Claim(p)
    PROVE  LET j == job[p] IN
           /\ j \in Jobs /\ Status(j) = "queued" /\ Others(j)
           /\ row'[j].status = "sending" /\ row'[j].owner = p /\ row'[j].phase = row[j].phase
           /\ row'[j].consent = row[j].consent
           /\ Progresses /\ row' \in [Jobs -> Row]
           /\ UNCHANGED <<server, answered, effects>>
<1> DEFINE j == job[p]
<1>1. j \in Jobs /\ Status(j) = "queued"
  BY DEF Claim, Claimed, Locals, LocalsOf
<1>2. row' = [row EXCEPT ![j] = [row[j] EXCEPT !.status = "sending", !.owner = p, !.later = FALSE]]
  BY DEF Claim
<1>3. row' \in [Jobs -> Row] /\ Others(j)
      /\ row'[j] = [row[j] EXCEPT !.status = "sending", !.owner = p, !.later = FALSE]
  BY <1>1, <1>2, RowClaimed DEF TypeOK, Others
<1>4. row'[j].status = "sending" /\ row'[j].owner = p /\ row'[j].phase = row[j].phase
      /\ row'[j].consent = row[j].consent
  <2>1. PICK r \in Row : row[j] = r
    BY <1>1 DEF TypeOK
  <2> QED BY <1>3, <2>1 DEF Row
<1>5. ASSUME NEW i \in Jobs
      PROVE  /\ row'[i].consent = row[i].consent
             /\ Status(i) \in {"none"} \cup Results => row'[i] = row[i]
             /\ Status(i) = "queued" => row'[i].status \in {"queued", "sending"}
             /\ Status(i) = "sending" => row'[i].status = "sending"
             /\ row'[i].phase = row[i].phase
  <2>1. CASE i = j
    BY <1>1, <1>4, <2>1 DEF Results
  <2>2. CASE i # j
    BY <1>3, <2>2 DEF Others, Status
  <2> QED BY <2>1, <2>2
<1>6. Progresses
  BY <1>5 DEF Progresses, Claim, runs
<1> QED BY <1>1, <1>3, <1>4, <1>6 DEF Claim, ledger

\* DATA starts on the process's own row, or not at all.
LEMMA StartDataDoes ==
    ASSUME TypeOK, Locals, NEW p \in Processes, StartData(p)
    PROVE  LET j == job[p] IN
           /\ j \in Jobs /\ UNCHANGED <<server, answered, effects, runStatus, handoff, cancelRequested>>
           /\ row' \in [Jobs -> Row] /\ Others(j)
           /\ \/ row' = row
              \/ /\ row'[j].status = "sending" /\ row'[j].owner = row[j].owner
                 /\ row'[j].phase = "data_started" /\ row'[j].consent = row[j].consent
                 /\ Status(j) = "sending" /\ Sendable(j) /\ Progresses
<1> DEFINE j == job[p]
<1>1. j \in Jobs
  BY DEF StartData, Locals, LocalsOf, At
<1>2. UNCHANGED <<server, answered, effects, runStatus, handoff, cancelRequested>>
  BY DEF StartData, runs, ledger
<1>3. CASE row' = row
  BY <1>1, <1>2, <1>3 DEF Others, TypeOK
<1>4. CASE /\ row' = [row EXCEPT ![j].phase = "data_started"]
           /\ Status(j) = "sending" /\ Sendable(j)
  <2>1. row' \in [Jobs -> Row] /\ Others(j) /\ row'[j] = [row[j] EXCEPT !.phase = "data_started"]
    BY <1>1, <1>4, RowData DEF TypeOK, Others
  <2>2. row'[j].status = row[j].status /\ row'[j].owner = row[j].owner
        /\ row'[j].phase = "data_started" /\ row'[j].consent = row[j].consent
    BY <1>1, <2>1, RowData DEF TypeOK
  <2>3. Progresses
    BY <1>1, <1>2, <1>4, <2>1, <2>2 DEF Progresses, Others, Status, Results
  <2> QED BY <1>1, <1>2, <1>4, <2>1, <2>2, <2>3 DEF Status
<1> QED BY <1>3, <1>4 DEF StartData

\* The steps that change no more of a row than when it is due, when it expires or
\* who owns it.
Reminds(i) ==
    /\ row'[i].status = row[i].status /\ row'[i].phase = row[i].phase
    /\ row'[i].consent = row[i].consent
    /\ Status(i) \in {"none"} \cup Results => row'[i] = row[i]

\* Steps that change only due times and expiries are progress.
LEMMA RemindersProgress ==
    ASSUME UNCHANGED <<runStatus, cancelRequested, handoff>>, \A i \in Jobs : Reminds(i)
    PROVE  Progresses
  BY DEF Progresses, Reminds, Status

\* Expediting changes only when rows are due.
LEMMA ExpediteDoes ==
    ASSUME TypeOK, Locals, NEW p \in Processes, Expedite(p)
    PROVE  /\ row' \in [Jobs -> Row]
           /\ \A i \in Jobs : Reminds(i) /\ row'[i].owner = row[i].owner
           /\ UNCHANGED <<server, runStatus, cancelRequested, handoff>>
<1> DEFINE j == job[p]
<1>1. j \in Jobs /\ Status(j) = "queued"
  BY DEF Expedite, Locals, LocalsOf, At
<1>2. row' \in [Jobs -> Row] /\ Others(j) /\ row'[j] = [row[j] EXCEPT !.later = FALSE]
  BY <1>1, RowLater DEF Expedite, TypeOK, Others
<1>3. Reminds(j) /\ row'[j].owner = row[j].owner
  BY <1>1, <1>2, RowLater DEF Reminds, TypeOK, Results
<1> QED BY <1>2, <1>3 DEF Others, Reminds, Expedite, runs

\* Time changes only when rows are due or expire.
LEMMA TimePasses ==
    ASSUME TypeOK, NEW j \in Jobs, DueArrives(j) \/ ExpiryPasses(j)
    PROVE  /\ row' \in [Jobs -> Row]
           /\ \A i \in Jobs : Reminds(i) /\ row'[i].owner = row[i].owner
           /\ UNCHANGED <<server, runStatus, cancelRequested, handoff, answered, effects>>
<1>1. Status(j) \in {"queued", "sending"}
  BY DEF DueArrives, ExpiryPasses
<1>2. UNCHANGED <<server, runStatus, cancelRequested, handoff, answered, effects>>
  BY DEF DueArrives, ExpiryPasses, runs, ledger
<1>3. row' \in [Jobs -> Row] /\ Others(j)
      /\ row'[j] \in {[row[j] EXCEPT !.later = FALSE], [row[j] EXCEPT !.expiry = "past"]}
  BY RowLater, RowExpiry DEF DueArrives, ExpiryPasses, TypeOK, Others
<1>4. row[j] \in Row /\ Status(j) \notin {"none"} \cup Results
  BY <1>1 DEF TypeOK, Results
<1>5. row'[j].status = row[j].status /\ row'[j].phase = row[j].phase
      /\ row'[j].consent = row[j].consent /\ row'[j].owner = row[j].owner
  <2>1. CASE row'[j] = [row[j] EXCEPT !.later = FALSE]
    BY <1>4, <2>1, RowLater
  <2>2. CASE row'[j] = [row[j] EXCEPT !.expiry = "past"]
    BY <1>4, <2>2, RowExpiry
  <2> QED BY <1>3, <2>1, <2>2
<1>6. Reminds(j) /\ row'[j].owner = row[j].owner
  BY <1>4, <1>5 DEF Reminds
<1> QED BY <1>2, <1>3, <1>6 DEF Others, Reminds

\* A crash takes the process's name off its rows and changes nothing else.
LEMMA CrashDoes ==
    ASSUME TypeOK, Exchange, NEW p \in Processes, Crash(p)
    PROVE  /\ row' \in [Jobs -> Row]
           /\ \A i \in Jobs : /\ Reminds(i)
                              /\ row'[i].owner = IF row[i].owner = p THEN Nobody ELSE row[i].owner
           /\ UNCHANGED <<server, runStatus, cancelRequested, handoff, answered, effects>>
<1>1. ASSUME NEW i \in Jobs
      PROVE  /\ row'[i] \in Row /\ Reminds(i)
             /\ row'[i].owner = IF row[i].owner = p THEN Nobody ELSE row[i].owner
  <2>1. CASE row[i].owner = p
    <3>1. row'[i] = [row[i] EXCEPT !.owner = Nobody]
      BY <2>1 DEF Crash
    <3>2. Status(i) = "sending" /\ row[i] \in Row
      BY <2>1, ProcessAssumption DEF Exchange, ExchangeOf, TypeOK
    <3>3. row'[i] \in Row /\ row'[i].owner = Nobody /\ row'[i].status = row[i].status
          /\ row'[i].phase = row[i].phase /\ row'[i].consent = row[i].consent
      BY <3>1, <3>2, RowOwner
    <3> QED BY <2>1, <3>2, <3>3 DEF Reminds, Results
  <2>2. CASE row[i].owner # p
    BY <2>2 DEF Crash, Reminds, TypeOK
  <2> QED BY <2>1, <2>2
<1>2. row' \in [Jobs -> Row]
  BY <1>1 DEF Crash
<1> QED BY <1>1, <1>2 DEF Crash, runs, ledger

\* A finish settles the row, or settles it and queues the next attempt.
LEMMA FinishDoes ==
    ASSUME TypeOK, Locals, Holds, Recovers, NEW p \in Processes, Finish(p)
    PROVE  LET j == job[p] IN
           /\ Settles(j, outcome[p]) \/ (Resumes(j) /\ outcome[p] = "failed" /\ transient[p])
           /\ row' \in [Jobs -> Row]
<1> DEFINE j == job[p]
           m == j[1]
<1>1. j \in Jobs /\ m \in Messages /\ Status(j) = "sending" /\ outcome[p] \in Results
  BY JobParts DEF Finish, Held, Storing, Locals, LocalsOf, TypeOK
<1>2. Closed(j, outcome[p]) \in Row /\ Closed(j, outcome[p]).status = outcome[p]
      /\ Closed(j, outcome[p]).phase = "finished" /\ Closed(j, outcome[p]).owner = Nobody
      /\ Closed(j, outcome[p]).consent = row[j].consent
  BY <1>1, ClosedRow
<1>3. UNCHANGED <<cancelRequested, server, answered, effects>>
  BY DEF Finish, ledger
<1>. DEFINE result == outcome[p]
<1>6. /\ result \in {"smtp_accepted", "uncertain"} => row[j].phase = "data_started"
      /\ result = "smtp_accepted" => server[j] = "accepted"
      /\ result = "connection_ok" => row[j].phase = "prepared" /\ Kind[j[1]] = "probe"
      /\ result = "failed" /\ transient[p] => row[j].phase = "prepared" \/ server[j] = "rejected"
  <2>1. pc[p] \in {"finish", "finish_again", "close", "recover"}
    BY DEF Finish, Storing
  <2>2. LocalsOf(p) /\ HoldsOf(p) /\ RecoversOf(p)
    BY DEF Locals, Holds, Recovers
  <2> QED BY <1>1, <2>1, <2>2 DEF LocalsOf, HoldsOf, RecoversOf, Holding, Recovering
<1>4. CASE /\ row' = [row EXCEPT ![j] = Closed(j, outcome[p])]
           /\ handoff' = IF Bound(m) THEN [handoff EXCEPT ![m] = SettledHandoff(j, outcome[p])]
                                     ELSE handoff
           /\ runStatus' = IF Report(m) /\ runStatus[m] \in {"awaiting_receipt", "running"}
                              THEN [runStatus EXCEPT ![m] = SettledRun(j, outcome[p])]
                              ELSE runStatus
  <2>1. row' \in [Jobs -> Row] /\ Others(j) /\ Closes(j, outcome[p])
    BY <1>1, <1>2, <1>4 DEF TypeOK, Others, Closes
  <2>2. OtherMessages(m)
    BY <1>1, <1>4 DEF TypeOK, OtherMessages
  <2>3. handoff'[m] = IF Bound(m) THEN SettledHandoff(j, outcome[p]) ELSE handoff[m]
    BY <1>1, <1>4 DEF TypeOK
  <2>4. runStatus'[m] = IF Report(m) /\ runStatus[m] \in {"awaiting_receipt", "running"}
                          THEN SettledRun(j, outcome[p]) ELSE runStatus[m]
    BY <1>1, <1>4 DEF TypeOK
  <2> QED BY <1>1, <1>3, <1>6, <2>1, <2>2, <2>3, <2>4 DEF Settles
<1>5. CASE /\ AutoRetryable(j, outcome[p], transient[p])
           /\ row' = [row EXCEPT ![j] = Closed(j, outcome[p]),
                                 ![Next1(j)] = Queued(TRUE, "open", FALSE, NoKey, row[j].revision)]
           /\ handoff' = [handoff EXCEPT ![m] = "queued"]
           /\ runStatus' = [runStatus EXCEPT ![m] = "awaiting_receipt"]
  <2>1. outcome[p] = "failed" /\ transient[p] /\ Report(m) /\ ~cancelRequested[m]
        /\ ~PriorUncertain(j) /\ ~Some(m, "smtp_accepted") /\ j[2] < MaxAttempts
    BY <1>5 DEF AutoRetryable
  <2>2. PICK rev \in Nat : row[j].revision = rev
    BY <1>1 DEF TypeOK, Row
  <2> DEFINE q == Queued(TRUE, "open", FALSE, NoKey, rev)
  <2>3. q \in Row /\ q.status = "queued" /\ q.phase = "prepared" /\ q.owner = Nobody
        /\ q.consent = FALSE
    <3>1. "queued" \in Statuses /\ Nobody \in Processes \cup {Nobody}
      BY DEF Statuses
    <3> QED BY <3>1 DEF Queued, Row
  <2>4. Next1(j) \in Jobs /\ Next1(j) # j
    BY <1>1, <2>1, NextJob
  <2>5. row' \in [Jobs -> Row] /\ row'[j] = Closed(j, outcome[p]) /\ row'[Next1(j)] = q
        /\ \A i \in Jobs \ {j, Next1(j)} : row'[i] = row[i]
    <3> HIDE DEF q
    <3>1. row' = [row EXCEPT ![j] = Closed(j, outcome[p]), ![Next1(j)] = q]
      BY <1>5, <2>2 DEF q
    <3> QED BY <1>1, <1>2, <2>3, <2>4, <3>1 DEF TypeOK
  <2>6. OtherMessages(m) /\ handoff'[m] = "queued" /\ runStatus'[m] = "awaiting_receipt"
    BY <1>1, <1>5 DEF TypeOK, OtherMessages
  <2>7. Closes(j, "failed")
    BY <1>2, <2>1, <2>5 DEF Closes
  <2> QED BY <1>1, <1>3, <1>6, <2>1, <2>3, <2>5, <2>6, <2>7 DEF Resumes
<1> QED BY <1>4, <1>5 DEF Finish, Store

\* A cancellation settles the queued attempts of its message or does nothing.
LEMMA CancelPendingDoes ==
    ASSUME TypeOK, Locals, NEW p \in Processes, CancelPending(p)
    PROVE  (Cancels(job[p][1]) \/ UNCHANGED <<tables, cancelRequested, answered, effects>>)
           /\ row' \in [Jobs -> Row]
<1> DEFINE m == job[p][1]
           unsure == Unsure(m)
<1>1. m \in Messages /\ Report(m) /\ cancelRequested[m]
  BY JobParts DEF CancelPending, At, Locals, LocalsOf, Operating
<1>2. UNCHANGED <<cancelRequested, server, answered, effects>>
  BY DEF CancelPending, ledger
<1>3. CASE UNCHANGED <<runStatus, handoff, row>>
  BY <1>2, <1>3 DEF tables, TypeOK
<1>4. CASE /\ ~Some(m, "sending") /\ runStatus[m] = "awaiting_receipt"
           /\ runStatus' = [runStatus EXCEPT ![m] =
                                  IF unsure THEN "needs_attention" ELSE "cancelled"]
           /\ handoff' = [handoff EXCEPT ![m] =
                                IF unsure THEN "uncertain"
                                ELSE IF @ \in {"published", "queued"} THEN "failed" ELSE @]
           /\ row' = [j \in Jobs |-> IF j[1] = m /\ Status(j) = "queued"
                                           THEN Closed(j, "failed") ELSE row[j]]
  <2>1. \A i \in Jobs : i[1] = m => Status(i) # "sending"
    BY <1>4 DEF Some, Attempts
  <2>2. ASSUME NEW i \in Jobs
        PROVE  /\ row'[i] \in Row
               /\ IF i[1] = m /\ Status(i) = "queued"
                  THEN Closes(i, "failed") ELSE row'[i] = row[i]
    <3>1. Closed(i, "failed") \in Row /\ Closed(i, "failed").status = "failed"
          /\ Closed(i, "failed").phase = "finished" /\ Closed(i, "failed").owner = Nobody
          /\ Closed(i, "failed").consent = row[i].consent
      BY ClosedRow DEF Results
    <3>2. CASE i[1] = m /\ Status(i) = "queued"
      BY <1>4, <3>1, <3>2 DEF Closes
    <3>3. CASE ~(i[1] = m /\ Status(i) = "queued")
      BY <1>4, <3>3 DEF TypeOK
    <3> QED BY <3>2, <3>3
  <2>3. row' \in [Jobs -> Row]
    BY <1>4, <2>2
  <2>4. OtherMessages(m)
    BY <1>1, <1>4 DEF TypeOK, OtherMessages
  <2>5. /\ Unsure(m) => runStatus'[m] = "needs_attention" /\ handoff'[m] = "uncertain"
        /\ ~Unsure(m) =>
              /\ runStatus'[m] = "cancelled"
              /\ handoff'[m] = IF handoff[m] \in {"published", "queued"} THEN "failed"
                               ELSE handoff[m]
    BY <1>1, <1>4 DEF TypeOK
  <2> QED BY <1>1, <1>2, <1>4, <2>1, <2>2, <2>3, <2>4, <2>5 DEF Cancels
<1> QED BY <1>3, <1>4 DEF CancelPending, Unsure

\* A retry by hand queues the next attempt once for its key.
LEMMA RetryDoes ==
    ASSUME TypeOK, Locals, Ordered, NEW p \in Processes, Retry(p)
    PROVE  LET j == job[p]
               k == request[p].key IN
           /\ Reissues(j, request[p].consent)
           /\ row' \in [Jobs -> Row]
           /\ k \in Keys /\ answered[k] = NoJob
           /\ answered' = [answered EXCEPT ![k] = Next1(j)]
           /\ effects' = [effects EXCEPT ![k] = @ + 1]
<1> DEFINE j == job[p]
           k == request[p].key
<1>1. j \in Jobs /\ j[1] \in Messages /\ Report(j[1]) /\ k \in Keys
  BY JobParts DEF Retry, At, Locals, LocalsOf, Operating
<1>2. Insertable(j) /\ j[2] < MaxAttempts /\ RetryAllowed(j, request[p])
  BY DEF Retry
<1>3. Next1(j) \in Jobs /\ Next1(j)[1] = j[1] /\ Next1(j)[2] = j[2] + 1
  BY <1>1, <1>2, NextJob
<1>4. Status(Next1(j)) = "none"
  <2>1. j = Latest(j[1]) /\ Attempts(j[1]) # {}
    BY <1>1, <1>2 DEF RetryAllowed, Insertable, Attempts
  <2>2. j[2] < Next1(j)[2]
    BY <1>1, <1>3, JobParts
  <2> QED BY <1>1, <1>3, <2>1, <2>2, LatestJob
<1>5. PICK consent \in BOOLEAN, rev \in Nat :
          request[p].consent = consent /\ request[p].revision = rev
  BY DEF TypeOK, Request
<1> DEFINE q == Queued(FALSE, "none", consent, k, rev)
<1>6. q \in Row /\ q.status = "queued" /\ q.phase = "prepared" /\ q.owner = Nobody
      /\ q.consent = consent
  <2>1. "queued" \in Statuses /\ Nobody \in Processes \cup {Nobody} /\ k \in Keys \cup {NoKey}
    BY <1>1 DEF Statuses
  <2>2. q \in Row
    BY <2>1 DEF Queued, Row
  <2> QED BY <2>2 DEF Queued
<1>7. row' = [row EXCEPT ![Next1(j)] = q]
  BY <1>5 DEF Retry
<1>8. row' \in [Jobs -> Row] /\ row'[Next1(j)] = q /\ Others(Next1(j))
  <2> HIDE DEF q
  <2> QED BY <1>3, <1>6, <1>7 DEF TypeOK, Others
<1>9. Appears(Next1(j), request[p].consent)
  BY <1>4, <1>5, <1>6, <1>8 DEF Appears
<1>10. OtherMessages(j[1]) /\ handoff'[j[1]] = "queued" /\ runStatus'[j[1]] = "awaiting_receipt"
  BY <1>1 DEF Retry, TypeOK, OtherMessages
<1>11. Some(j[1], "uncertain") => request[p].consent
  BY <1>2 DEF RetryAllowed
<1>12. answered[k] = NoJob /\ answered' = [answered EXCEPT ![k] = Next1(j)]
       /\ effects' = [effects EXCEPT ![k] = @ + 1] /\ UNCHANGED <<cancelRequested, server>>
  BY <1>2 DEF Retry, RetryAllowed
<1>13. request[p].consent \in BOOLEAN
  BY <1>5
<1>14. Reissues(j, request[p].consent)
  BY <1>1, <1>2, <1>8, <1>9, <1>10, <1>11, <1>12, <1>13 DEF Reissues
<1> QED BY <1>1, <1>8, <1>12, <1>14

\* The steps that concern the tables, and what they do to them.
Turns ==
    \/ \E j \in Jobs : Queues(j) \/ Resumes(j)
    \/ \E j \in Jobs, result \in Results : Settles(j, result)
    \/ \E j \in Jobs, consent \in BOOLEAN : Reissues(j, consent)
    \/ \E m \in Messages : Cancels(m) \/ RunMoves(m)

TableStep == UNCHANGED tables \/ Progresses \/ Turns

\* Every step is one of the steps of the tables, or leaves them alone.
LEMMA TableSteps ==
    ASSUME Inductive, Next
    PROVE  TableStep /\ row' \in [Jobs -> Row]
<1> USE DEF Inductive
<1>0. ASSUME UNCHANGED tables PROVE TableStep /\ row' \in [Jobs -> Row]
  BY <1>0 DEF TableStep, Turns, tables, TypeOK
<1>1. ASSUME NEW p \in Processes, Proceed(p) PROVE TableStep /\ row' \in [Jobs -> Row]
  <2>1. CASE Enqueue(p)
    BY <1>0, <2>1, EnqueueDoes DEF TableStep, Turns, Queues
  <2>2. CASE Claim(p)
    BY <2>2, ClaimDoes DEF TableStep, Turns
  <2>3. CASE StartData(p)
    BY <1>0, <2>3, StartDataDoes DEF TableStep, Turns, tables
  <2>4. CASE SendBody(p)
    BY <2>4 DEF SendBody, TableStep, Progresses, TypeOK, Status, runs
  <2>5. CASE Finish(p)
    <3>1. outcome[p] \in Results
      BY DEF TypeOK
    <3> QED BY <2>5, <3>1, FinishDoes DEF TableStep, Turns, Settles, Resumes
  <2>6. CASE CancelPending(p)
    BY <1>0, <2>6, CancelPendingDoes DEF TableStep, Turns, Cancels
  <2>7. CASE Expedite(p)
    BY <2>7, ExpediteDoes, RemindersProgress DEF TableStep, Turns
  <2>8. CASE Retry(p)
    BY <2>8, RetryDoes DEF TableStep, Turns, Reissues
  <2>9. CASE ClaimRefused(p) \/ ConnectFails(p) \/ ConnectionVerified(p) \/ ReadReply(p)
    BY <1>0, <2>9 DEF ClaimRefused, ConnectFails, ConnectionVerified, ReadReply, tables, runs
  <2>10. CASE ExchangeBreaks(p) \/ FinishLost(p) \/ FinishFails(p) \/ RecoverProbe(p)
    BY <1>0, <2>10 DEF ExchangeBreaks, FinishLost, FinishFails, RecoverProbe, tables, runs
  <2>11. CASE RequestCancel(p) \/ RetryEnds(p)
    BY <1>0, <2>11 DEF RequestCancel, RetryEnds, tables, runs
  <2> QED
    BY <1>1, <2>1, <2>2, <2>3, <2>4, <2>5, <2>6, <2>7, <2>8, <2>9, <2>10, <2>11 DEF Proceed
<1>2. ASSUME NEW p \in Processes, Poll(p) \/ Command(p) PROVE UNCHANGED tables
  BY <1>2 DEF Poll, Command, Prepare, RecoverRead, EnqueueCheck, CancelRead, RetryRead, tables, runs
<1>3. ASSUME NEW p \in Processes, Crash(p) PROVE TableStep /\ row' \in [Jobs -> Row]
  BY <1>3, CrashDoes, RemindersProgress DEF TableStep, Turns
<1>4. ASSUME NEW m \in Messages, CreateRun(m) \/ EndRun(m) \/ PublishAlert(m)
      PROVE  TableStep /\ row' \in [Jobs -> Row]
  BY <1>4, RunsMove DEF TableStep, Turns, RunMoves, TypeOK
<1>5. ASSUME NEW m \in Messages, EnqueueTest(m) PROVE TableStep /\ row' \in [Jobs -> Row]
  BY <1>5, EnqueueTestDoes DEF TableStep, Turns, Queues
<1>6. ASSUME NEW j \in Jobs, ServerDecides(j) PROVE TableStep /\ row' \in [Jobs -> Row]
  BY <1>6 DEF ServerDecides, TableStep, Progresses, TypeOK, Status, runs
<1>7. ASSUME NEW j \in Jobs, DueArrives(j) \/ ExpiryPasses(j)
      PROVE  TableStep /\ row' \in [Jobs -> Row]
  BY <1>7, TimePasses, RemindersProgress DEF TableStep, Turns
<1>8. EditSettings => UNCHANGED tables
  BY DEF EditSettings, tables, runs
<1> QED BY <1>0, <1>1, <1>2, <1>3, <1>4, <1>5, <1>6, <1>7, <1>8 DEF Next

\* A request to cancel is not withdrawn.
LEMMA FlagsStay ==
    ASSUME TypeOK, Next
    PROVE  \A m \in Messages : cancelRequested[m] => cancelRequested'[m]
<1> USE DEF runs
<1>1. CASE \E p \in Processes : RequestCancel(p)
  BY <1>1 DEF RequestCancel, TypeOK
<1>2. ASSUME NEW p \in Processes, Proceed(p), ~RequestCancel(p) PROVE UNCHANGED cancelRequested
  BY <1>2 DEF Proceed, Enqueue, Claim, ClaimRefused, ConnectFails, ConnectionVerified, StartData,
     SendBody, ReadReply, ExchangeBreaks, Finish, FinishLost, FinishFails, RecoverProbe,
     CancelPending, Expedite, Retry, RetryEnds
<1>3. ASSUME NEW p \in Processes, Poll(p) \/ Command(p) \/ Crash(p) PROVE UNCHANGED cancelRequested
  BY <1>3 DEF Poll, Command, Crash, Prepare, RecoverRead, EnqueueCheck, CancelRead, RetryRead
<1>4. ASSUME NEW m \in Messages, CreateRun(m) \/ EndRun(m) \/ PublishAlert(m) \/ EnqueueTest(m)
      PROVE  UNCHANGED cancelRequested
  BY <1>4 DEF CreateRun, EndRun, PublishAlert, EnqueueTest
<1>5. ASSUME NEW j \in Jobs, ServerDecides(j) \/ DueArrives(j) \/ ExpiryPasses(j)
      PROVE  UNCHANGED cancelRequested
  BY <1>5 DEF ServerDecides, DueArrives, ExpiryPasses
<1>6. EditSettings => UNCHANGED cancelRequested
  BY DEF EditSettings
<1> QED BY <1>1, <1>2, <1>3, <1>4, <1>5, <1>6 DEF Next

-----------------------------------------------------------------------------
(* The order of attempts. *)

\* Attempts stay in order while none is added and none becomes pending.
LEMMA OrderedKept ==
    ASSUME Ordered,
           \A i \in Jobs : (Status(i)' = "none" <=> Status(i) = "none") /\ (Pending(i)' => Pending(i))
    PROVE  Ordered'
<1>1. ASSUME NEW m \in Messages
      PROVE  \E n \in 0..MaxAttempts : \A j \in Jobs : j[1] = m => (Status(j)' # "none" <=> j[2] <= n)
  BY DEF Ordered
<1> QED BY <1>1 DEF Ordered

\* The next attempt appears when no other one is pending any more.
LEMMA OrderedGrows ==
    ASSUME Ordered, NEW k \in Jobs, Status(k) = "none", Status(k)' # "none",
           \A i \in Jobs \ {k} : /\ Status(i)' = "none" <=> Status(i) = "none"
                                 /\ Pending(i)' => Pending(i)
                                 /\ i[1] = k[1] => ~Pending(i)',
           k[2] = 1 \/ (Report(k[1]) /\ \E j \in Jobs : k = Next1(j) /\ Status(j) # "none")
    PROVE  Ordered'
<1>1. k[1] \in Messages /\ k[2] \in 1..MaxAttempts /\ MaxAttempts \in Nat
  BY JobParts, LimitAssumption
<1>2. PICK n \in 0..MaxAttempts : \A j \in Jobs : j[1] = k[1] => (Status(j) # "none" <=> j[2] <= n)
  BY <1>1 DEF Ordered
<1>3. k[2] = n + 1
  <2>1. n < k[2]
    BY <1>1, <1>2
  <2>2. CASE k[2] = 1
    BY <1>1, <2>1, <2>2
  <2>3. ASSUME NEW j \in Jobs, k = Next1(j), Status(j) # "none" PROVE k[2] <= n + 1
    <3>1. j[1] = k[1] /\ k[2] = j[2] + 1
      BY <2>3 DEF Next1
    <3> QED BY <1>1, <1>2, <2>3, <3>1, JobParts
  <2> QED BY <1>1, <2>1, <2>2, <2>3
<1>4. ASSUME NEW m \in Messages
      PROVE  \E c \in 0..MaxAttempts : \A j \in Jobs : j[1] = m => (Status(j)' # "none" <=> j[2] <= c)
  <2>1. CASE m # k[1]
    <3>1. PICK c \in 0..MaxAttempts : \A j \in Jobs : j[1] = m => (Status(j) # "none" <=> j[2] <= c)
      BY DEF Ordered
    <3>2. \A j \in Jobs : j[1] = m => (Status(j)' # "none" <=> j[2] <= c)
      BY <2>1, <3>1
    <3> QED BY <3>2
  <2>2. CASE m = k[1]
    <3>1. k[2] \in 0..MaxAttempts
      BY <1>1
    <3>2. ASSUME NEW j \in Jobs, j[1] = m PROVE Status(j)' # "none" <=> j[2] <= k[2]
      <4>1. CASE j = k
        BY <1>1, <4>1
      <4>2. CASE j # k
        <5>1. j[2] \in 1..MaxAttempts /\ j[2] # k[2]
          BY <2>2, <3>2, <4>2, SameJob, JobParts
        <5>2. Status(j) # "none" <=> j[2] <= n
          BY <1>2, <2>2, <3>2
        <5> QED BY <1>1, <1>3, <4>2, <5>1, <5>2
      <4> QED BY <4>1, <4>2
    <3> QED BY <3>1, <3>2
  <2> QED BY <2>1, <2>2
<1>5. ASSUME NEW i \in Jobs, NEW j \in Jobs, i[1] = j[1], j[2] < i[2], Pending(j)'
      PROVE  Status(i)' = "none"
  <2>1. CASE j = k
    <3>1. i # k /\ n < i[2] /\ i[1] = k[1]
      BY <1>1, <1>3, <1>5, <2>1, JobParts
    <3> QED BY <1>1, <1>2, <3>1, JobParts
  <2>2. CASE j # k
    BY <1>5, <2>2 DEF Ordered
  <2> QED BY <2>1, <2>2
<1>6. ASSUME NEW j \in Jobs, 1 < j[2], Status(j)' # "none" PROVE Report(j[1])
  <2>1. CASE j = k
    <3>1. j[2] # 1
      BY <1>1, <1>6, <2>1
    <3> QED BY <2>1, <3>1
  <2>2. CASE j # k
    BY <1>6, <2>2 DEF Ordered
  <2> QED BY <2>1, <2>2
<1> QED BY <1>4, <1>5, <1>6 DEF Ordered

\* While an attempt is pending, no other one of its message is.
LEMMA OnePending ==
    ASSUME Ordered, NEW i \in Jobs, NEW j \in Jobs, i[1] = j[1], i # j, Pending(j)
    PROVE  ~Pending(i)
<1>1. i[2] < j[2] \/ j[2] < i[2]
  BY SameJob, JobParts, LimitAssumption
<1> QED BY <1>1 DEF Ordered, Pending

\* Before the first attempt there is none.
LEMMA FirstIsFirst ==
    ASSUME Ordered, NEW i \in Jobs, NEW j \in Jobs, i[1] = j[1], j[2] = 1, Status(j) = "none"
    PROVE  Status(i) = "none"
<1>1. PICK n \in 0..MaxAttempts : \A k \in Jobs : k[1] = j[1] => (Status(k) # "none" <=> k[2] <= n)
  BY JobParts DEF Ordered
<1> QED BY <1>1, JobParts, LimitAssumption

\* Nothing is numbered after a pending attempt.
LEMMA PriorExists ==
    ASSUME NEW j \in Jobs, j[2] < MaxAttempts, Ordered, Pending(j)
    PROVE  Status(Next1(j)) = "none"
<1>1. j[2] < Next1(j)[2]
  BY NextJob, JobParts, LimitAssumption
<1> QED BY <1>1, NextJob DEF Ordered

\* Ordered is kept.
LEMMA OrderedStep ==
    ASSUME TypeOK, Ordered, TableStep
    PROVE  Ordered'
<1> USE DEF Pending, Status
<1>1. CASE UNCHANGED tables
  BY <1>1, OrderedKept DEF tables
<1>2. CASE Progresses
  <2>1. \A i \in Jobs : row[i].status \in Statuses
    BY DEF TypeOK, Row
  <2>2. \A i \in Jobs : (Status(i)' = "none" <=> Status(i) = "none") /\ (Pending(i)' => Pending(i))
    BY <1>2, <2>1 DEF Progresses, Statuses
  <2> QED BY <2>2, OrderedKept
<1>3. ASSUME NEW j \in Jobs, Queues(j) PROVE Ordered'
  <2>1. Status(j) = "none" /\ Status(j)' # "none" /\ j[2] = 1
    BY <1>3 DEF Queues, Appears
  <2>2. \A i \in Jobs \ {j} : row'[i] = row[i]
    BY <1>3 DEF Queues, Others
  <2>3. \A i \in Jobs : i[1] = j[1] => Status(i) = "none"
    BY <2>1, FirstIsFirst
  <2> QED BY <2>1, <2>2, <2>3, OrderedGrows
<1>4. ASSUME NEW j \in Jobs, NEW result \in Results, Settles(j, result) PROVE Ordered'
  BY <1>4, OrderedKept DEF Settles, Others, Closes, Results
<1>5. ASSUME NEW j \in Jobs, Resumes(j) PROVE Ordered'
  <2> DEFINE k == Next1(j)
  <2>1. k \in Jobs /\ k[1] = j[1] /\ k # j /\ Status(j) = "sending" /\ Report(j[1])
    BY <1>5, NextJob DEF Resumes
  <2>2. Status(k) = "none" /\ Status(k)' # "none"
    BY <1>5, <2>1, PriorExists DEF Resumes
  <2>3. \A i \in Jobs : i[1] = j[1] /\ i # j => ~Pending(i)
    BY <2>1, OnePending
  <2>4. row'[j].status = "failed" /\ \A i \in Jobs \ {j, k} : row'[i] = row[i]
    BY <1>5 DEF Resumes, Closes
  <2>5. \A i \in Jobs \ {k} : /\ Status(i)' = "none" <=> Status(i) = "none"
                              /\ Pending(i)' => Pending(i)
                              /\ i[1] = k[1] => ~Pending(i)'
    <3> HIDE DEF k
    <3> QED BY <2>1, <2>3, <2>4
  <2> QED BY <2>1, <2>2, <2>5, OrderedGrows
<1>6. ASSUME NEW j \in Jobs, NEW consent \in BOOLEAN, Reissues(j, consent) PROVE Ordered'
  <2> DEFINE k == Next1(j)
  <2>1. k \in Jobs /\ k[1] = j[1] /\ k # j /\ Report(j[1])
    BY <1>6, NextJob DEF Reissues
  <2>2. Status(k) = "none" /\ Status(k)' # "none" /\ \A i \in Jobs \ {k} : row'[i] = row[i]
    BY <1>6 DEF Reissues, Appears, Others
  <2>3. Status(j) # "none" /\ \A i \in Jobs : i[1] = j[1] => ~Pending(i)
    BY <1>6 DEF Reissues, Insertable, Attempts
  <2>4. \A i \in Jobs \ {k} : /\ Status(i)' = "none" <=> Status(i) = "none"
                              /\ Pending(i)' => Pending(i)
                              /\ i[1] = k[1] => ~Pending(i)'
    <3> HIDE DEF k
    <3> QED BY <2>1, <2>2, <2>3
  <2> QED BY <2>1, <2>2, <2>3, <2>4, OrderedGrows
<1>7. ASSUME NEW m \in Messages, Cancels(m) PROVE Ordered'
  <2>1. \A i \in Jobs : (Status(i)' = "none" <=> Status(i) = "none") /\ (Pending(i)' => Pending(i))
    BY <1>7 DEF Cancels, Closes
  <2> QED BY <2>1, OrderedKept
<1>8. ASSUME NEW m \in Messages, RunMoves(m) PROVE Ordered'
  BY <1>8, OrderedKept DEF RunMoves
<1> QED BY <1>1, <1>2, <1>3, <1>4, <1>5, <1>6, <1>7, <1>8 DEF TableStep, Turns

-----------------------------------------------------------------------------
(* Rows and the server. *)

\* A row that proceeds, or stays, says the same of what was accepted.
LEMMA OnceAcceptedStep ==
    ASSUME TypeOK, Ordered, OnceAccepted, TableStep
    PROVE  OnceAccepted'
<1> USE DEF Pending, Status, OnceAccepted
<1>0. \A i \in Jobs : row[i].status \in Statuses
  BY DEF TypeOK, Row
<1>1. CASE UNCHANGED tables
  BY <1>1 DEF tables
<1>2. CASE Progresses
  <2>1. \A i \in Jobs : /\ Pending(i)' => Pending(i)
                        /\ Status(i)' = "smtp_accepted" => Status(i) = "smtp_accepted"
    BY <1>0, <1>2 DEF Progresses, Statuses, Results
  <2> QED BY <2>1
<1>3. ASSUME NEW j \in Jobs, Queues(j) PROVE OnceAccepted'
  <2>1. \A i \in Jobs : i[1] = j[1] => Status(i) = "none"
    BY <1>3, FirstIsFirst DEF Queues, Appears
  <2> QED BY <1>3, <2>1 DEF Queues, Others, Appears
<1>4. ASSUME NEW j \in Jobs, NEW result \in Results, Settles(j, result) PROVE OnceAccepted'
  <2>1. \A i \in Jobs : i[1] = j[1] /\ i # j => ~Pending(i)
    BY <1>4, OnePending DEF Settles
  <2> QED BY <1>4, <2>1 DEF Settles, Others, Closes, Results
<1>5. ASSUME NEW j \in Jobs, Resumes(j) PROVE OnceAccepted'
  <2> DEFINE k == Next1(j)
  <2>1. k \in Jobs /\ k[1] = j[1] /\ k # j
    BY <1>5, NextJob DEF Resumes
  <2>2. row'[j].status = "failed" /\ row'[k].status = "queued"
        /\ \A i \in Jobs \ {j, k} : row'[i] = row[i]
    BY <1>5 DEF Resumes, Closes
  <2>3. \A i \in Jobs : i[1] = j[1] => Status(i) # "smtp_accepted"
    BY <1>5 DEF Resumes, Some, Attempts
  <2> HIDE DEF k
  <2> QED BY <2>1, <2>2, <2>3
<1>6. ASSUME NEW j \in Jobs, NEW consent \in BOOLEAN, Reissues(j, consent) PROVE OnceAccepted'
  <2> DEFINE k == Next1(j)
  <2>1. k \in Jobs /\ k[1] = j[1]
    BY <1>6, NextJob DEF Reissues
  <2>2. row'[k].status = "queued" /\ \A i \in Jobs \ {k} : row'[i] = row[i]
    BY <1>6 DEF Reissues, Appears, Others
  <2>3. \A i \in Jobs : i[1] = j[1] => Status(i) # "smtp_accepted"
    BY <1>6 DEF Reissues, Insertable, Attempts
  <2> HIDE DEF k
  <2> QED BY <2>1, <2>2, <2>3
<1>7. ASSUME NEW m \in Messages, Cancels(m) PROVE OnceAccepted'
  <2>1. \A i \in Jobs : /\ Pending(i)' => Pending(i)
                        /\ Status(i)' = "smtp_accepted" => Status(i) = "smtp_accepted"
    BY <1>7 DEF Cancels, Closes
  <2> QED BY <2>1
<1>8. ASSUME NEW m \in Messages, RunMoves(m) PROVE OnceAccepted'
  BY <1>8 DEF RunMoves
<1> QED BY <1>1, <1>2, <1>3, <1>4, <1>5, <1>6, <1>7, <1>8 DEF TableStep, Turns

-----------------------------------------------------------------------------
(* Runs, handoffs and their attempts. *)

\* WaitingHasCause and UncertaintyIsKept, attempt by attempt.
WaitsFor(m) ==
    /\ runStatus[m] = "awaiting_receipt" =>
          \/ /\ handoff[m] = "published"
             /\ \A j \in Jobs : j[1] = m => Status(j) = "none" \/ Pending(j)
          \/ handoff[m] = "queued" /\ \E j \in Jobs : j[1] = m /\ Pending(j)
    /\ \A j \in Jobs : j[1] = m /\ Pending(j) =>
          \/ runStatus[m] = "awaiting_receipt"
          \/ cancelRequested[m] /\ runStatus[m] = "cancelled" /\ j[2] = 1

Keeps(m) ==
    /\ \E j \in Jobs : j[1] = m /\ Status(j) = "uncertain"
    /\ \A j \in Jobs : j[1] = m => Status(j) # "smtp_accepted" /\ ~Pending(j)
    => runStatus[m] = "needs_attention" /\ handoff[m] = "uncertain"

\* Before its handoff there is no attempt, and data is sent while the run waits.
Begins(m) ==
    /\ runStatus[m] \in {"none", "running"} => handoff[m] = "none"
    /\ handoff[m] = "none" => \A j \in Jobs : j[1] = m => Status(j) = "none"
    /\ \A j \in Jobs : j[1] = m /\ row[j].phase = "data_started"
          => runStatus[m] = "awaiting_receipt"

\* What a run tells: it begins, waits for and keeps what its mail is.
LEMMA RunTellsParts ==
    ASSUME NEW m \in Messages
    PROVE  RunTells(m) <=> Begins(m) /\ WaitsFor(m) /\ Keeps(m)
<1>1. \A j \in Jobs : Pending(j) => Status(j) # "none"
  BY DEF Pending
<1>2. \A j \in Jobs : j[1] = m => (j = First(m) <=> j[2] = 1)
  BY FirstJob, SameJob
<1>3. WaitingHasCause(m) <=> WaitsFor(m)
  BY <1>1, <1>2 DEF WaitingHasCause, WaitsFor, Attempts
<1>4. UncertaintyIsKept(m) <=> Keeps(m)
  BY <1>1 DEF UncertaintyIsKept, Keeps, Some, Attempts
<1> QED BY <1>3, <1>4 DEF RunTells, Begins

\* The same of the next state.
LEMMA RunTellsPartsNext ==
    ASSUME NEW m \in Messages
    PROVE  RunTells(m)' <=> Begins(m)' /\ WaitsFor(m)' /\ Keeps(m)'
<1>1. \A j \in Jobs : Pending(j)' => Status(j)' # "none"
  BY DEF Pending
<1>2. \A j \in Jobs : j[1] = m => (j = First(m) <=> j[2] = 1)
  BY FirstJob, SameJob
<1>3. WaitingHasCause(m)' <=> WaitsFor(m)'
  BY <1>1, <1>2 DEF WaitingHasCause, WaitsFor, Attempts
<1>4. UncertaintyIsKept(m)' <=> Keeps(m)'
  BY <1>1 DEF UncertaintyIsKept, Keeps, Some, Attempts
<1> QED BY <1>3, <1>4 DEF RunTells, Begins

\* A message whose rows, run and handoff stay as they are.
LEMMA RunTellsKept ==
    ASSUME NEW m \in Messages, RunTells(m),
           \A i \in Jobs : i[1] = m => row'[i] = row[i],
           runStatus'[m] = runStatus[m], handoff'[m] = handoff[m],
           cancelRequested[m] => cancelRequested'[m]
    PROVE  RunTells(m)'
<1>1. Begins(m) /\ WaitsFor(m) /\ Keeps(m)
  BY RunTellsParts
<1>2. \A i \in Jobs : i[1] = m => Status(i)' = Status(i) /\ (Pending(i)' <=> Pending(i))
  BY DEF Status, Pending
<1>3. Begins(m)'
  BY <1>1, <1>2 DEF Begins
<1>4. WaitsFor(m)'
  BY <1>1, <1>2 DEF WaitsFor
<1>5. Keeps(m)'
  BY <1>1, <1>2 DEF Keeps
<1> QED BY <1>3, <1>4, <1>5, RunTellsPartsNext

\* Progress of a row leaves what the run tells.
LEMMA ProgressTells ==
    ASSUME TypeOK, NEW m \in Messages, Report(m), RunTells(m), Progresses
    PROVE  RunTells(m)'
<1>1. Begins(m) /\ WaitsFor(m) /\ Keeps(m)
  BY RunTellsParts
<1>2. \A i \in Jobs : Status(i) \in Statuses
  BY DEF Status, TypeOK, Row
<1>3. \A i \in Jobs : /\ Pending(i)' <=> Pending(i)
                      /\ ~Pending(i) => Status(i)' = Status(i)
  BY <1>2 DEF Progresses, Pending, Status, Statuses, Results
<1>4. UNCHANGED <<runStatus, cancelRequested, handoff>>
  BY DEF Progresses
<1>5. Begins(m)'
  <2>1. ASSUME NEW j \in Jobs, j[1] = m, row'[j].phase = "data_started"
        PROVE  runStatus[m] = "awaiting_receipt"
    BY <1>1, <2>1 DEF Progresses, Begins, Sendable
  <2>2. \A j \in Jobs : Status(j) = "none" => Status(j)' = "none"
    BY <1>3 DEF Pending
  <2> QED BY <1>1, <1>4, <2>1, <2>2 DEF Begins
<1>6. WaitsFor(m)'
  BY <1>1, <1>3, <1>4 DEF WaitsFor, Pending
<1>7. Keeps(m)'
  BY <1>1, <1>3, <1>4 DEF Keeps, Pending
<1> QED BY <1>5, <1>6, <1>7, RunTellsPartsNext

\* A queued first attempt is what its run waits for.
LEMMA QueuesTells ==
    ASSUME TypeOK, Ordered, Exchange, NEW j \in Jobs, Queues(j),
           Report(j[1]), RunTells(j[1])
    PROVE  RunTells(j[1])'
<1> DEFINE m == j[1]
<1>0. m \in Messages
  BY JobParts
<1>1. Begins(m) /\ WaitsFor(m) /\ Keeps(m)
  BY <1>0, RunTellsParts
<1>2. UNCHANGED <<runStatus, cancelRequested, handoff>> /\ j[2] = 1
  BY DEF Queues
<1>3. /\ \A i \in Jobs : i[1] = m => Status(i) = "none" /\ row[i].phase = "prepared"
      /\ \A i \in Jobs \ {j} : i[1] = m => Status(i)' = "none" /\ row'[i].phase = "prepared"
      /\ Status(j)' = "queued" /\ row'[j].phase = "prepared"
  BY FirstIsFirst DEF Queues, Appears, Others, Exchange, ExchangeOf, Status
<1>4. \/ handoff[m] = "published" /\ runStatus[m] = "awaiting_receipt"
      \/ cancelRequested[m] /\ runStatus[m] = "cancelled" /\ handoff[m] = "failed"
  BY DEF Queues, Bound, Report
<1>5. Begins(m)'
  BY <1>2, <1>3, <1>4 DEF Begins
<1>6. WaitsFor(m)'
  BY <1>2, <1>3, <1>4 DEF WaitsFor, Pending
<1>7. Keeps(m)'
  BY <1>3 DEF Keeps, Pending
<1> QED BY <1>0, <1>5, <1>6, <1>7, RunTellsPartsNext

\* A settled attempt ends its run with the word it has.
LEMMA SettlesTells ==
    ASSUME TypeOK, Ordered, Exchange, NEW j \in Jobs, NEW result \in Results, Settles(j, result),
           Report(j[1]), RunTells(j[1])
    PROVE  RunTells(j[1])'
<1> DEFINE m == j[1]
<1>0. m \in Messages /\ Bound(m)
  BY JobParts DEF Bound, Report
<1>1. Begins(m) /\ WaitsFor(m) /\ Keeps(m)
  BY <1>0, RunTellsParts
<1>2. Status(j) = "sending" /\ Pending(j) /\ Status(j)' = result /\ row'[j].phase = "finished"
      /\ \A i \in Jobs \ {j} : row'[i] = row[i]
  BY DEF Settles, Closes, Others, Pending, Status
<1>3. /\ \A i \in Jobs : i[1] = m /\ i # j => ~Pending(i) /\ ~Pending(i)'
      /\ ~Pending(j)'
  BY <1>2, OnePending DEF Pending, Status, Results
<1>4. result # "connection_ok"
  BY DEF Settles, Report
<1>5. handoff'[m] = SettledHandoff(j, result) /\ handoff'[m] # "none"
  BY <1>0 DEF Settles, SettledHandoff, Results
<1>6. UNCHANGED cancelRequested
  BY DEF Settles
<1>7. CASE runStatus[m] = "awaiting_receipt"
  <2>1. runStatus'[m] = SettledRun(j, result)
    BY <1>7 DEF Settles
  <2>2. runStatus'[m] \in {"succeeded", "needs_attention", "cancelled", "failed"}
    BY <1>4, <2>1, SettledTypes
  <2>3. \A i \in Jobs : i[1] = m => row'[i].phase # "data_started"
    <3>1. ASSUME NEW i \in Jobs, i[1] = m, i # j PROVE row'[i].phase # "data_started"
      <4>1. row'[i] = row[i] /\ ~Pending(i)
        BY <1>2, <1>3, <3>1
      <4>2. row[i] \in Row /\ Status(i) \in Statuses
        BY DEF TypeOK, Row, Status
      <4> QED BY <4>1, <4>2 DEF Exchange, ExchangeOf, Pending, Statuses
    <3> QED BY <1>2, <3>1
  <2>4. Begins(m)'
    BY <1>5, <2>2, <2>3 DEF Begins
  <2>5. WaitsFor(m)'
    BY <1>3, <2>2 DEF WaitsFor
  <2>6. ASSUME Keeps(m)' # TRUE PROVE FALSE
    <3>1. PICK i \in Jobs : i[1] = m /\ Status(i)' = "uncertain"
      BY <2>6 DEF Keeps
    <3>2. result # "smtp_accepted"
      BY <1>2, <2>6 DEF Keeps
    <3>3. CASE result = "uncertain"
      <4>1. runStatus'[m] = "needs_attention" /\ handoff'[m] = "uncertain"
        BY <1>5, <2>1, <3>3 DEF SettledRun, SettledHandoff
      <4> QED BY <2>6, <4>1 DEF Keeps
    <3>4. CASE result = "failed"
      <4>1. i # j /\ Status(i) = "uncertain"
        BY <1>2, <3>1, <3>4 DEF Status
      <4>2. PriorUncertain(j)
        BY <3>1, <4>1 DEF PriorUncertain, Attempts
      <4>3. runStatus'[m] = "needs_attention" /\ handoff'[m] = "uncertain"
        BY <1>5, <2>1, <3>4, <4>2 DEF SettledRun, SettledHandoff
      <4> QED BY <2>6, <4>3 DEF Keeps
    <3> QED BY <1>4, <3>2, <3>3, <3>4 DEF Results
  <2> QED BY <1>0, <2>4, <2>5, <2>6, RunTellsPartsNext DEF Keeps
<1>8. CASE runStatus[m] # "awaiting_receipt"
  <2>1. runStatus[m] = "cancelled" /\ j[2] = 1
    BY <1>1, <1>2, <1>8 DEF WaitsFor
  <2>2. runStatus'[m] = "cancelled"
    BY <2>1 DEF Settles
  <2>3. row[j].phase # "data_started" /\ result = "failed"
    BY <1>1, <1>4, <1>8 DEF Begins, Settles, Results
  <2>4. ASSUME NEW i \in Jobs, i[1] = m, i # j PROVE Status(i) = "none" /\ row'[i].phase # "data_started"
    <3>1. j[2] < i[2]
      BY <2>1, <2>4, SameJob, JobParts
    <3>2. Status(i) = "none"
      BY <1>2, <2>4, <3>1 DEF Ordered
    <3> QED BY <1>2, <2>4, <3>2 DEF Exchange, ExchangeOf
  <2>5. Begins(m)'
    BY <1>2, <1>5, <2>2, <2>4 DEF Begins
  <2>6. WaitsFor(m)'
    BY <1>3, <2>2 DEF WaitsFor
  <2>7. Keeps(m)'
    BY <1>2, <2>3, <2>4 DEF Keeps, Status
  <2> QED BY <1>0, <2>5, <2>6, <2>7, RunTellsPartsNext
<1> QED BY <1>7, <1>8

\* An attempt queued after a failure leaves the run waiting.
LEMMA ResumesTells ==
    ASSUME TypeOK, Ordered, Exchange, NEW j \in Jobs, Resumes(j), RunTells(j[1])
    PROVE  RunTells(j[1])'
<1> DEFINE m == j[1]
           k == Next1(j)
<1>0. m \in Messages
  BY JobParts
<1>1. k \in Jobs /\ k[1] = m /\ k # j
  BY NextJob DEF Resumes
<1>2. Status(k)' = "queued" /\ row'[k].phase = "prepared" /\ row'[j].phase = "finished"
      /\ runStatus'[m] = "awaiting_receipt" /\ handoff'[m] = "queued"
  BY DEF Resumes, Closes, Status
<1> HIDE DEF k
<1>3. Begins(m)'
  BY <1>2 DEF Begins
<1>4. WaitsFor(m)'
  BY <1>1, <1>2 DEF WaitsFor, Pending
<1>5. Keeps(m)'
  BY <1>1, <1>2 DEF Keeps, Pending
<1> QED BY <1>0, <1>3, <1>4, <1>5, RunTellsPartsNext

\* A retry by hand opens the run again with its attempt.
LEMMA ReissuesTells ==
    ASSUME TypeOK, Ordered, Exchange, NEW j \in Jobs, NEW consent \in BOOLEAN,
           Reissues(j, consent), RunTells(j[1])
    PROVE  RunTells(j[1])'
<1> DEFINE m == j[1]
           k == Next1(j)
<1>0. m \in Messages
  BY JobParts
<1>1. k \in Jobs /\ k[1] = m
  BY NextJob DEF Reissues
<1>2. Status(k)' = "queued" /\ runStatus'[m] = "awaiting_receipt" /\ handoff'[m] = "queued"
  BY DEF Reissues, Appears, Status
<1> HIDE DEF k
<1>3. Begins(m)'
  BY <1>2 DEF Begins
<1>4. WaitsFor(m)'
  BY <1>1, <1>2 DEF WaitsFor, Pending
<1>5. Keeps(m)'
  BY <1>1, <1>2 DEF Keeps, Pending
<1> QED BY <1>0, <1>3, <1>4, <1>5, RunTellsPartsNext

\* A cancelled message ends its run, as uncertain when an earlier attempt is.
LEMMA CancelsTells ==
    ASSUME TypeOK, Exchange, OnceAccepted, NEW m \in Messages, Cancels(m), RunTells(m)
    PROVE  RunTells(m)'
<1>1. Begins(m) /\ WaitsFor(m) /\ Keeps(m)
  BY RunTellsParts
<1>2. /\ runStatus[m] = "awaiting_receipt"
      /\ Unsure(m) => runStatus'[m] = "needs_attention" /\ handoff'[m] = "uncertain"
      /\ ~Unsure(m) => /\ runStatus'[m] = "cancelled"
                       /\ handoff[m] # "none" => handoff'[m] # "none"
  BY DEF Cancels
<1>3. \A i \in Jobs : i[1] = m => /\ Status(i) # "sending"
                                  /\ IF Status(i) = "queued" THEN Closes(i, "failed")
                                                             ELSE row'[i] = row[i]
  BY DEF Cancels
<1>4. \A i \in Jobs : i[1] = m => /\ ~Pending(i)'
                                  /\ row'[i].phase # "data_started"
                                  /\ Status(i)' = "uncertain" <=> Status(i) = "uncertain"
                                  /\ Status(i)' = "smtp_accepted" <=> Status(i) = "smtp_accepted"
  <2>1. ASSUME NEW i \in Jobs, i[1] = m, Status(i) = "queued"
        PROVE  /\ ~Pending(i)' /\ row'[i].phase # "data_started"
               /\ Status(i)' = "failed"
    BY <1>3, <2>1 DEF Closes, Pending, Status
  <2>2. ASSUME NEW i \in Jobs, i[1] = m, Status(i) # "queued"
        PROVE  /\ ~Pending(i)' /\ row'[i].phase # "data_started" /\ Status(i)' = Status(i)
    <3>1. row'[i] = row[i] /\ Status(i) # "sending" /\ row[i] \in Row
      BY <1>3, <2>2 DEF TypeOK
    <3> QED BY <2>2, <3>1 DEF Pending, Status, Exchange, ExchangeOf, Row, Statuses
  <2> QED BY <2>1, <2>2
<1>5. Begins(m)'
  BY <1>1, <1>2, <1>4 DEF Begins, WaitsFor
<1>6. WaitsFor(m)'
  BY <1>2, <1>4 DEF WaitsFor
<1>7. Keeps(m)'
  <2>1. ASSUME NEW i \in Jobs, i[1] = m, Status(i)' = "uncertain",
               \A l \in Jobs : l[1] = m => Status(l)' # "smtp_accepted"
        PROVE  Unsure(m)
    BY <1>4, <2>1 DEF Unsure, Some, Attempts
  <2> QED BY <1>2, <2>1 DEF Keeps
<1> QED BY <1>5, <1>6, <1>7, RunTellsPartsNext

\* A run that starts, ends or publishes by itself changes no row, and tells what it
\* should.
LEMMA RunMovesTells ==
    ASSUME TypeOK, Exchange, NEW m \in Messages, RunMoves(m), Report(m), RunTells(m)
    PROVE  RunTells(m)'
<1>1. Begins(m) /\ WaitsFor(m) /\ Keeps(m)
  BY RunTellsParts
<1>2. UNCHANGED row /\ runStatus[m] \in {"none", "running"}
  BY DEF RunMoves, Report
<1>3. \A i \in Jobs : i[1] = m => Status(i) = "none" /\ Status(i)' = "none"
  BY <1>1, <1>2 DEF Begins, Status
<1>4. \A i \in Jobs : i[1] = m => row'[i].phase # "data_started" /\ ~Pending(i)'
  BY <1>2, <1>3 DEF Exchange, ExchangeOf, Pending
<1>5. Begins(m)'
  BY <1>1, <1>3, <1>4 DEF Begins, RunMoves, Report
<1>6. WaitsFor(m)'
  BY <1>3, <1>4 DEF WaitsFor, RunMoves, Report
<1>7. Keeps(m)'
  BY <1>3 DEF Keeps
<1> QED BY <1>5, <1>6, <1>7, RunTellsPartsNext

\* Only the message of a step is concerned.
LEMMA ElsewhereTells ==
    ASSUME NEW c \in Messages, NEW m \in Messages, m # c, OtherMessages(c),
           \A i \in Jobs : i[1] # c => row'[i] = row[i],
           cancelRequested[m] => cancelRequested'[m],
           IF Report(m) THEN RunTells(m) ELSE runStatus[m] = "none"
    PROVE  IF Report(m) THEN RunTells(m)' ELSE runStatus'[m] = "none"
<1>1. runStatus'[m] = runStatus[m] /\ handoff'[m] = handoff[m]
  BY DEF OtherMessages
<1> QED BY <1>1, RunTellsKept

\* RunsTell is kept.
LEMMA RunsTellStep ==
    ASSUME Inductive, TableStep, \A m \in Messages : cancelRequested[m] => cancelRequested'[m]
    PROVE  RunsTell'
<1> USE DEF Inductive
<1> SUFFICES ASSUME NEW m \in Messages
             PROVE  IF Report(m) THEN RunTells(m)' ELSE runStatus'[m] = "none"
  BY DEF RunsTell, Report
<1>0. IF Report(m) THEN RunTells(m) ELSE runStatus[m] = "none"
  BY DEF RunsTell
<1>1. CASE UNCHANGED tables
  BY <1>0, <1>1, RunTellsKept DEF tables
<1>2. CASE Progresses
  BY <1>0, <1>2, ProgressTells DEF Progresses
<1>3. ASSUME NEW j \in Jobs, Queues(j)
      PROVE  IF Report(m) THEN RunTells(m)' ELSE runStatus'[m] = "none"
  <2>1. CASE m = j[1]
    BY <1>0, <1>3, <2>1, QueuesTells DEF Queues
  <2>2. CASE m # j[1]
    BY <1>0, <1>3, <2>2, RunTellsKept DEF Queues, Others
  <2> QED BY <2>1, <2>2
<1>4. ASSUME NEW j \in Jobs, NEW result \in Results, Settles(j, result)
      PROVE  IF Report(m) THEN RunTells(m)' ELSE runStatus'[m] = "none"
  <2>1. CASE m = j[1]
    BY <1>0, <1>4, <2>1, SettlesTells DEF Settles
  <2>2. CASE m # j[1]
    BY <1>0, <1>4, <2>2, ElsewhereTells, JobParts DEF Settles, Others
  <2> QED BY <2>1, <2>2
<1>5. ASSUME NEW j \in Jobs, Resumes(j)
      PROVE  IF Report(m) THEN RunTells(m)' ELSE runStatus'[m] = "none"
  <2>1. CASE m = j[1]
    BY <1>0, <1>5, <2>1, ResumesTells DEF Resumes
  <2>2. CASE m # j[1]
    <3>1. Next1(j)[1] = j[1] /\ j[1] \in Messages
      BY <1>5, NextJob, JobParts DEF Resumes
    <3> QED BY <1>0, <1>5, <2>2, <3>1, ElsewhereTells DEF Resumes
  <2> QED BY <2>1, <2>2
<1>6. ASSUME NEW j \in Jobs, NEW consent \in BOOLEAN, Reissues(j, consent)
      PROVE  IF Report(m) THEN RunTells(m)' ELSE runStatus'[m] = "none"
  <2>1. CASE m = j[1]
    BY <1>0, <1>6, <2>1, ReissuesTells DEF Reissues
  <2>2. CASE m # j[1]
    <3>1. Next1(j)[1] = j[1] /\ j[1] \in Messages
      BY <1>6, NextJob, JobParts DEF Reissues
    <3> QED BY <1>0, <1>6, <2>2, <3>1, ElsewhereTells DEF Reissues, Others
  <2> QED BY <2>1, <2>2
<1>7. ASSUME NEW c \in Messages, Cancels(c)
      PROVE  IF Report(m) THEN RunTells(m)' ELSE runStatus'[m] = "none"
  <2>1. CASE m = c
    BY <1>0, <1>7, <2>1, CancelsTells DEF Cancels
  <2>2. CASE m # c
    BY <1>0, <1>7, <2>2, ElsewhereTells DEF Cancels
  <2> QED BY <2>1, <2>2
<1>8. ASSUME NEW c \in Messages, RunMoves(c)
      PROVE  IF Report(m) THEN RunTells(m)' ELSE runStatus'[m] = "none"
  <2>1. CASE m = c
    BY <1>0, <1>8, <2>1, RunMovesTells DEF RunMoves
  <2>2. CASE m # c
    BY <1>0, <1>8, <2>2, ElsewhereTells DEF RunMoves
  <2> QED BY <2>1, <2>2
<1> QED BY <1>1, <1>2, <1>3, <1>4, <1>5, <1>6, <1>7, <1>8 DEF TableStep, Turns

\* AlertsTell is kept.
LEMMA AlertsTellStep ==
    ASSUME Inductive, TableStep
    PROVE  AlertsTell'
<1> USE DEF Inductive
<1> SUFFICES ASSUME NEW m \in Messages, Kind[m] = "alert" PROVE AlertTells(m)'
  BY DEF AlertsTell
<1> DEFINE f == First(m)
<1>0. f \in Jobs /\ f[1] = m /\ f[2] = 1 /\ AlertTells(m) /\ Bound(m) /\ ~Report(m)
  BY FirstJob DEF AlertsTell, Bound, Report
<1> HIDE DEF f
<1>1. ASSUME row'[f].status = row[f].status, handoff'[m] = handoff[m] PROVE AlertTells(m)'
  BY <1>0, <1>1 DEF AlertTells, Status, f
<1>2. CASE UNCHANGED tables
  BY <1>1, <1>2 DEF tables
<1>3. CASE Progresses
  <2>1. Status(f) \in Statuses
    BY <1>0 DEF TypeOK, Row, Status
  <2>2. /\ Status(f) \in {"none"} \cup Results => Status(f)' = Status(f)
        /\ Status(f) \in {"queued", "sending"} => Status(f)' \in {"queued", "sending"}
    BY <1>0, <1>3 DEF Progresses, Status
  <2>3. handoff'[m] = handoff[m]
    BY <1>3 DEF Progresses
  <2> QED BY <1>0, <2>1, <2>2, <2>3 DEF AlertTells, f, Statuses, Results
<1>4. ASSUME NEW j \in Jobs, Queues(j) PROVE AlertTells(m)'
  <2>1. CASE j = f
    BY <1>0, <1>4, <2>1 DEF Queues, Appears, AlertTells, Status, f, Results
  <2>2. CASE j # f
    BY <1>0, <1>1, <1>4, <2>2 DEF Queues, Others
  <2> QED BY <2>1, <2>2
<1>5. ASSUME NEW j \in Jobs, NEW result \in Results, Settles(j, result) PROVE AlertTells(m)'
  <2>1. CASE j = f
    BY <1>0, <1>5, <2>1 DEF Settles, Closes, AlertTells, Status, f, Results, SettledHandoff
  <2>2. CASE j # f
    <3>1. j[1] # m
      <4>1. ASSUME j[1] = m PROVE FALSE
        <5>1. 1 < j[2] /\ Status(j) # "none"
          BY <1>0, <1>5, <2>2, <4>1, SameJob, JobParts DEF Settles
        <5> QED BY <1>0, <4>1, <5>1 DEF Ordered
      <4> QED BY <4>1
    <3> QED BY <1>0, <1>1, <1>5, <2>2, <3>1 DEF Settles, Others, OtherMessages
  <2> QED BY <2>1, <2>2
<1>6. ASSUME NEW j \in Jobs, Resumes(j) PROVE AlertTells(m)'
  <2>1. j[1] # m /\ Next1(j)[1] = j[1]
    BY <1>0, <1>6, NextJob DEF Resumes
  <2> QED BY <1>0, <1>1, <1>6, <2>1 DEF Resumes, OtherMessages
<1>7. ASSUME NEW j \in Jobs, NEW consent \in BOOLEAN, Reissues(j, consent) PROVE AlertTells(m)'
  <2>1. j[1] # m /\ Next1(j)[1] = j[1]
    BY <1>0, <1>7, NextJob DEF Reissues
  <2> QED BY <1>0, <1>1, <1>7, <2>1 DEF Reissues, Others, OtherMessages
<1>8. ASSUME NEW c \in Messages, Cancels(c) PROVE AlertTells(m)'
  BY <1>0, <1>1, <1>8 DEF Cancels, OtherMessages
<1>9. ASSUME NEW c \in Messages, RunMoves(c) PROVE AlertTells(m)'
  <2>1. CASE c = m
    BY <1>0, <1>9, <2>1 DEF RunMoves, AlertTells, f, Status, Results
  <2>2. CASE c # m
    BY <1>1, <1>9, <2>2 DEF RunMoves, OtherMessages
  <2> QED BY <2>1, <2>2
<1> QED BY <1>2, <1>3, <1>4, <1>5, <1>6, <1>7, <1>8, <1>9 DEF TableStep, Turns

-----------------------------------------------------------------------------
(* Rows and the exchange with the server. *)

\* A row and its exchange that stay as they are still agree.
LEMMA ExchangeOfKept ==
    ASSUME NEW i \in Jobs, ExchangeOf(i), row'[i] = row[i], server'[i] = server[i]
    PROVE  ExchangeOf(i)'
  BY DEF ExchangeOf, Status

\* A new row: the server has heard nothing of that attempt.
LEMMA ExchangeOfAppears ==
    ASSUME NEW i \in Jobs, ExchangeOf(i), Status(i) = "none", row'[i].status = "queued",
           row'[i].phase = "prepared", row'[i].owner = Nobody, server'[i] = server[i]
    PROVE  ExchangeOf(i)'
  BY DEF ExchangeOf, Status, Results

\* A row closed with a word the server bears out agrees with it.
LEMMA ExchangeOfCloses ==
    ASSUME NEW i \in Jobs, NEW result \in Results, ExchangeOf(i), Closes(i, result),
           server'[i] = server[i],
           result = "smtp_accepted" => server[i] = "accepted",
           result = "connection_ok" => row[i].phase = "prepared" /\ Kind[i[1]] = "probe"
    PROVE  ExchangeOf(i)'
  BY DEF ExchangeOf, Closes, Status, Results

\* The exchange agrees with rows that take their turns in the queue.
LEMMA ExchangeOfTables ==
    ASSUME Inductive, Turns
    PROVE  Exchange'
<1> USE DEF Inductive
<1> SUFFICES ASSUME NEW i \in Jobs PROVE ExchangeOf(i)'
  BY DEF Exchange
<1>0. ExchangeOf(i)
  BY DEF Exchange
<1>2. ASSUME NEW j \in Jobs, Queues(j) PROVE ExchangeOf(i)'
  <2>1. CASE i = j
    BY <1>0, <1>2, <2>1, ExchangeOfAppears DEF Queues, Appears
  <2>2. CASE i # j
    BY <1>0, <1>2, <2>2, ExchangeOfKept DEF Queues, Others
  <2> QED BY <2>1, <2>2
<1>3. ASSUME NEW j \in Jobs, NEW result \in Results, Settles(j, result) PROVE ExchangeOf(i)'
  <2>1. CASE i = j
    BY <1>0, <1>3, <2>1, ExchangeOfCloses DEF Settles
  <2>2. CASE i # j
    BY <1>0, <1>3, <2>2, ExchangeOfKept DEF Settles, Others
  <2> QED BY <2>1, <2>2
<1>4. ASSUME NEW j \in Jobs, Resumes(j) PROVE ExchangeOf(i)'
  <2>1. CASE i = j
    BY <1>0, <1>4, <2>1, ExchangeOfCloses DEF Resumes, Results
  <2>2. CASE i = Next1(j) /\ i # j
    BY <1>0, <1>4, <2>2, ExchangeOfAppears, PriorExists DEF Resumes, Pending
  <2>3. CASE i # j /\ i # Next1(j)
    BY <1>0, <1>4, <2>3, ExchangeOfKept DEF Resumes
  <2> QED BY <2>1, <2>2, <2>3
<1>5. ASSUME NEW j \in Jobs, NEW consent \in BOOLEAN, Reissues(j, consent) PROVE ExchangeOf(i)'
  <2>1. CASE i = Next1(j)
    BY <1>0, <1>5, <2>1, ExchangeOfAppears DEF Reissues, Appears
  <2>2. CASE i # Next1(j)
    BY <1>0, <1>5, <2>2, ExchangeOfKept DEF Reissues, Others
  <2> QED BY <2>1, <2>2
<1>6. ASSUME NEW m \in Messages, Cancels(m) PROVE ExchangeOf(i)'
  <2>1. CASE i[1] = m /\ Status(i) = "queued"
    BY <1>0, <1>6, <2>1, ExchangeOfCloses DEF Cancels, Results
  <2>2. CASE ~(i[1] = m /\ Status(i) = "queued")
    BY <1>0, <1>6, <2>2, ExchangeOfKept DEF Cancels
  <2> QED BY <2>1, <2>2
<1>7. ASSUME NEW m \in Messages, RunMoves(m) PROVE ExchangeOf(i)'
  BY <1>0, <1>7, ExchangeOfKept DEF RunMoves
<1> QED BY <1>2, <1>3, <1>4, <1>5, <1>6, <1>7 DEF Turns

\* A row whose due time changes, or whose owner is gone, agrees with its exchange.
LEMMA ExchangeReminds ==
    ASSUME NEW i \in Jobs, ExchangeOf(i), Reminds(i), server'[i] = server[i],
           row'[i].owner \in {row[i].owner, Nobody}
    PROVE  ExchangeOf(i)'
  BY DEF ExchangeOf, Reminds, Status

\* What a step leaves alone: the rows of other owners, and what is settled.
Kept(i) ==
    /\ row'[i].status = row[i].status /\ row'[i].phase = row[i].phase
    /\ row'[i].owner = row[i].owner /\ server'[i] = server[i]

Spares(p) == \A i \in Jobs : row[i].owner \in Processes \ {p} => Kept(i)

Ages(i) ==
    Status(i) \in {"sending"} \cup Results =>
        /\ row'[i].status \in {"sending"} \cup Results
        /\ row'[i].status = "sending" =>
              /\ Status(i) = "sending"
              /\ row[i].phase = "data_started" => row'[i].phase = "data_started"
              /\ row[i].owner = Nobody => row'[i].owner = Nobody

RowsKept(p) == Exchange' /\ Spares(p) /\ \A i \in Jobs : Ages(i)

\* A step that changes neither rows nor servers keeps every owner's.
LEMMA RowsUnchanged ==
    ASSUME Exchange, UNCHANGED <<row, server>>
    PROVE  \A p \in Processes \cup {Nobody} : RowsKept(p)
<1>1. \A i \in Jobs : ExchangeOf(i)'
  BY ExchangeOfKept DEF Exchange
<1>2. \A i \in Jobs : Kept(i) /\ Ages(i)
  BY DEF Kept, Ages, Status
<1> QED BY <1>1, <1>2 DEF RowsKept, Spares, Exchange

\* A step of the queue keeps the rows that others than its process own.
LEMMA RowsTurn ==
    ASSUME Inductive, Turns, NEW p \in Processes \cup {Nobody},
           \A j \in Jobs : row[j].owner \in Processes \ {p} => row'[j] = row[j]
    PROVE  RowsKept(p)
<1> USE DEF Inductive
<1>1. UNCHANGED server
  BY DEF Turns, Queues, Resumes, Settles, Reissues, Cancels, RunMoves
<1>2. Spares(p)
  BY <1>1 DEF Spares, Kept
<1>3. ASSUME NEW i \in Jobs PROVE Ages(i)
  <2>1. CASE row'[i] = row[i]
    BY <2>1 DEF Ages, Status
  <2>2. CASE \E r \in Results : Closes(i, r)
    BY <2>2 DEF Ages, Closes, Results
  <2>3. CASE Status(i) = "none" \/ Status(i) = "queued"
    BY <2>3 DEF Ages, Results
  <2>4. ASSUME NEW j \in Jobs, Queues(j) PROVE row'[i] = row[i] \/ Status(i) = "none"
    BY <2>4 DEF Queues, Others, Appears
  <2>5. ASSUME NEW j \in Jobs, NEW r \in Results, Settles(j, r)
        PROVE  row'[i] = row[i] \/ Closes(i, r)
    BY <2>5 DEF Settles, Others
  <2>6. ASSUME NEW j \in Jobs, Resumes(j)
        PROVE  row'[i] = row[i] \/ Closes(i, "failed") \/ Status(i) = "none"
    BY <2>6, PriorExists DEF Resumes, Pending
  <2>7. ASSUME NEW j \in Jobs, NEW c \in BOOLEAN, Reissues(j, c)
        PROVE  row'[i] = row[i] \/ Status(i) = "none"
    BY <2>7 DEF Reissues, Others, Appears
  <2>8. ASSUME NEW m \in Messages, Cancels(m) PROVE row'[i] = row[i] \/ Status(i) = "queued"
    BY <2>8 DEF Cancels
  <2>9. ASSUME NEW m \in Messages, RunMoves(m) PROVE row'[i] = row[i]
    BY <2>9 DEF RunMoves
  <2> QED BY <2>1, <2>2, <2>3, <2>4, <2>5, <2>6, <2>7, <2>8, <2>9 DEF Turns, Results
<1> QED BY <1>2, <1>3, ExchangeOfTables DEF RowsKept

\* Steps after which rows are due, expire or lose a dead owner.
LEMMA RowsRemind ==
    ASSUME Exchange, NEW p \in Processes, UNCHANGED server,
           \A i \in Jobs : /\ Reminds(i)
                           /\ row'[i].owner = IF row[i].owner = p THEN Nobody ELSE row[i].owner
    PROVE  RowsKept(p)
<1>1. ASSUME NEW i \in Jobs PROVE ExchangeOf(i)' /\ Ages(i)
  <2>1. ExchangeOf(i)'
    BY ExchangeReminds DEF Exchange
  <2> QED BY <2>1 DEF Ages, Reminds, Status
<1>2. Spares(p)
  BY DEF Spares, Kept, Reminds
<1> QED BY <1>1, <1>2 DEF RowsKept, Exchange

\* A step of time keeps every owner's rows.
LEMMA RowsDue ==
    ASSUME Exchange, UNCHANGED server, \A i \in Jobs : Reminds(i) /\ row'[i].owner = row[i].owner
    PROVE  \A p \in Processes \cup {Nobody} : RowsKept(p)
<1>1. ASSUME NEW i \in Jobs PROVE ExchangeOf(i)' /\ Ages(i) /\ Kept(i)
  <2>1. ExchangeOf(i)'
    BY ExchangeReminds DEF Exchange
  <2> QED BY <2>1 DEF Ages, Reminds, Status, Kept
<1> QED BY <1>1 DEF RowsKept, Exchange, Spares

\* A process changes rows of its own, rows that nobody owns, and no others.
LEMMA RowsStep ==
    ASSUME Inductive, NEW p \in Processes, Proceed(p) \/ Crash(p)
    PROVE  RowsKept(p)
<1> USE DEF Inductive
<1> DEFINE j == job[p]
<1>0. /\ \A i \in Jobs : ExchangeOf(i) /\ row[i] \in Row
      /\ \A i \in Jobs : Status(i) # "sending" => row[i].owner \notin Processes \ {p}
      /\ HoldsOf(p) /\ RecoversOf(p) /\ LocalsOf(p)
  BY ProcessAssumption DEF Exchange, ExchangeOf, TypeOK, Holds, Recovers, Locals
<1>1. CASE UNCHANGED <<row, server>>
  BY <1>1, RowsUnchanged
<1>2. CASE Enqueue(p)
  <2>1. CASE Queues(j)
    <3>1. \A i \in Jobs : row[i].owner \in Processes \ {p} => row'[i] = row[i]
      BY <1>0, <2>1 DEF Queues, Others, Appears
    <3> QED BY <2>1, <3>1, RowsTurn DEF Turns, Queues
  <2>2. CASE UNCHANGED tables
    BY <1>1, <2>2 DEF tables
  <2> QED BY <1>2, <2>1, <2>2, EnqueueDoes DEF tables
<1>3. CASE Claim(p)
  <2>1. PICK k \in Jobs : k = j
    BY <1>3, ClaimDoes
  <2>2. /\ Status(k) = "queued" /\ Others(k) /\ UNCHANGED server
        /\ row'[k].status = "sending" /\ row'[k].owner = p /\ row'[k].phase = row[k].phase
        /\ row'[k].consent = row[k].consent
    BY <1>3, <2>1, ClaimDoes
  <2>3. ExchangeOf(k)' /\ Ages(k)
    BY <1>0, <2>2 DEF ExchangeOf, Status, Ages, Results
  <2>4. row[k].owner \notin Processes \ {p}
    BY <1>0, <2>2
  <2>5. ASSUME NEW i \in Jobs, i # k PROVE ExchangeOf(i)' /\ Ages(i) /\ Kept(i)
    BY <1>0, <2>2, <2>5, ExchangeOfKept DEF Others, Ages, Kept, Status
  <2> QED BY <2>3, <2>4, <2>5 DEF RowsKept, Spares, Exchange
<1>4. CASE StartData(p)
  <2>1. CASE row' = row
    BY <1>1, <1>4, <2>1 DEF StartData
  <2>2. CASE row' # row
    <3>1. PICK k \in Jobs : k = j
      BY <1>4, StartDataDoes
    <3>2. /\ Status(k) = "sending" /\ Others(k) /\ UNCHANGED server
          /\ row'[k].status = "sending" /\ row'[k].owner = row[k].owner
          /\ row'[k].phase = "data_started"
      BY <1>4, <2>2, <3>1, StartDataDoes
    <3>3. Kind[k[1]] # "probe" /\ row[k].owner = p
      BY <1>0, <1>4, <3>1 DEF StartData, At, HoldsOf, Holding
    <3>4. ExchangeOf(k)' /\ Ages(k)
      BY <1>0, <3>2, <3>3 DEF ExchangeOf, Status, Ages, Results
    <3>5. ASSUME NEW i \in Jobs, i # k PROVE ExchangeOf(i)' /\ Ages(i) /\ Kept(i)
      BY <1>0, <3>2, <3>5, ExchangeOfKept DEF Others, Ages, Kept, Status
    <3> QED BY <3>3, <3>4, <3>5 DEF RowsKept, Spares, Exchange
  <2> QED BY <2>1, <2>2
<1>5. CASE SendBody(p)
  <2>1. PICK k \in Jobs : k = j
    BY <1>0, <1>5 DEF SendBody, At, LocalsOf
  <2>2. /\ row' = row /\ server' = [server EXCEPT ![k] = "receiving"]
        /\ Status(k) = "sending" /\ row[k].owner = p /\ row[k].phase = "data_started"
    BY <1>0, <1>5, <2>1 DEF SendBody, At, HoldsOf, Holding
  <2>3. ExchangeOf(k)' /\ Ages(k)
    BY <1>0, <2>2 DEF ExchangeOf, Status, Ages, Results
  <2>4. ASSUME NEW i \in Jobs, i # k PROVE ExchangeOf(i)' /\ Ages(i) /\ Kept(i)
    <3>1. server'[i] = server[i]
      BY <2>2, <2>4 DEF TypeOK
    <3> QED BY <1>0, <2>2, <3>1, ExchangeOfKept DEF Ages, Kept, Status
  <2> QED BY <2>2, <2>3, <2>4 DEF RowsKept, Spares, Exchange
<1>6. CASE Finish(p)
  <2>1. j \in Jobs /\ row[j].owner \notin Processes \ {p}
    <3>1. pc[p] \in Holding \cup {"recover"}
      BY <1>6 DEF Finish, Storing, Holding
    <3>2. Status(j) = "sending" /\ j \in Jobs
      BY <1>0, <1>6, <3>1 DEF Finish, Held, LocalsOf, Holding
    <3> QED BY <1>0, <3>1, <3>2, ProcessAssumption DEF HoldsOf, RecoversOf, Recovering
  <2>2. Settles(j, outcome[p]) \/ Resumes(j)
    BY <1>6, FinishDoes
  <2>3. Turns
    <3>1. outcome[p] \in Results
      BY DEF TypeOK
    <3> QED BY <2>1, <2>2, <3>1 DEF Turns
  <2>4. ASSUME NEW i \in Jobs, row[i].owner \in Processes \ {p} PROVE row'[i] = row[i]
    <3>1. i # j
      BY <2>1, <2>4
    <3>2. CASE Settles(j, outcome[p])
      BY <3>1, <3>2 DEF Settles, Others
    <3>3. CASE Resumes(j)
      <4>1. i # Next1(j)
        BY <1>0, <2>4, <3>3, PriorExists DEF Resumes, Pending
      <4> QED BY <3>1, <3>3, <4>1 DEF Resumes
    <3> QED BY <2>2, <3>2, <3>3
  <2> QED BY <2>3, <2>4, RowsTurn
<1>7. CASE CancelPending(p)
  <2>1. CASE Cancels(j[1])
    <3>1. \A i \in Jobs : row[i].owner \in Processes \ {p} => row'[i] = row[i]
      BY <1>0, <2>1 DEF Cancels
    <3> QED BY <2>1, <3>1, RowsTurn DEF Turns, Cancels
  <2>2. CASE UNCHANGED tables
    BY <1>1, <2>2 DEF tables
  <2> QED BY <1>7, <2>1, <2>2, CancelPendingDoes
<1>8. CASE Expedite(p)
  <2>1. UNCHANGED server /\ \A i \in Jobs : Reminds(i) /\ row'[i].owner = row[i].owner
    BY <1>8, ExpediteDoes
  <2> QED BY <2>1, RowsDue
<1>9. CASE Retry(p)
  <2>1. Reissues(j, request[p].consent) /\ request[p].consent \in BOOLEAN
    BY <1>9, RetryDoes DEF Reissues
  <2>2. \A i \in Jobs : row[i].owner \in Processes \ {p} => row'[i] = row[i]
    BY <1>0, <2>1 DEF Reissues, Others, Appears
  <2> QED BY <2>1, <2>2, RowsTurn DEF Turns, Reissues
<1>10. CASE Crash(p)
  BY <1>10, CrashDoes, RowsRemind
<1>11. CASE ClaimRefused(p) \/ ConnectFails(p) \/ ConnectionVerified(p) \/ ReadReply(p)
  BY <1>1, <1>11 DEF ClaimRefused, ConnectFails, ConnectionVerified, ReadReply
<1>12. CASE ExchangeBreaks(p) \/ FinishLost(p) \/ FinishFails(p) \/ RecoverProbe(p)
  BY <1>1, <1>12 DEF ExchangeBreaks, FinishLost, FinishFails, RecoverProbe
<1>13. CASE RequestCancel(p) \/ RetryEnds(p)
  BY <1>1, <1>13 DEF RequestCancel, RetryEnds
<1> QED
  BY <1>2, <1>3, <1>4, <1>5, <1>6, <1>7, <1>8, <1>9, <1>10, <1>11, <1>12, <1>13 DEF Proceed

\* The server decides on an attempt, time passes, runs move and tests are queued:
\* nobody's row is disturbed but by the server's decision.
LEMMA RowsAside ==
    ASSUME Inductive
    PROVE  /\ \A p \in Processes : Poll(p) \/ Command(p) => RowsKept(p)
           /\ \A m \in Messages :
                 CreateRun(m) \/ EndRun(m) \/ PublishAlert(m) \/ EnqueueTest(m)
                    => RowsKept(Nobody)
           /\ \A j \in Jobs : DueArrives(j) \/ ExpiryPasses(j) => RowsKept(Nobody)
           /\ EditSettings => RowsKept(Nobody)
           /\ \A j \in Jobs : ServerDecides(j) => Exchange' /\ row' = row
                                                  /\ \A i \in Jobs : Ages(i)
<1> USE DEF Inductive
<1>1. ASSUME NEW p \in Processes, Poll(p) \/ Command(p) PROVE RowsKept(p)
  <2>1. UNCHANGED <<row, server>>
    BY <1>1 DEF Poll, Command, Prepare, RecoverRead, EnqueueCheck, CancelRead, RetryRead
  <2> QED BY <2>1, RowsUnchanged
<1>2. ASSUME NEW m \in Messages, CreateRun(m) \/ EndRun(m) \/ PublishAlert(m)
      PROVE  RowsKept(Nobody)
  <2>1. UNCHANGED <<row, server>>
    BY <1>2 DEF CreateRun, EndRun, PublishAlert
  <2> QED BY <2>1, RowsUnchanged
<1>3. ASSUME NEW m \in Messages, EnqueueTest(m) PROVE RowsKept(Nobody)
  <2>1. Queues(First(m))
    BY <1>3, EnqueueTestDoes
  <2>2. \A i \in Jobs : row[i].owner \in Processes \ {Nobody} => row'[i] = row[i]
    BY <2>1, ProcessAssumption DEF Queues, Others, Appears, Exchange, ExchangeOf
  <2> QED BY <2>1, <2>2, RowsTurn DEF Turns, Queues
<1>4. ASSUME NEW j \in Jobs, DueArrives(j) \/ ExpiryPasses(j)
      PROVE  RowsKept(Nobody)
  BY <1>4, TimePasses, RowsDue
<1>5. ASSUME EditSettings PROVE RowsKept(Nobody)
  <2>1. UNCHANGED <<row, server>>
    BY <1>5 DEF EditSettings
  <2> QED BY <2>1, RowsUnchanged
<1>6. ASSUME NEW j \in Jobs, ServerDecides(j)
      PROVE  Exchange' /\ row' = row /\ \A i \in Jobs : Ages(i)
  <2>1. row' = row /\ server[j] = "receiving" /\ server'[j] \in {"accepted", "rejected"}
        /\ \A i \in Jobs \ {j} : server'[i] = server[i]
    BY <1>6 DEF ServerDecides, TypeOK
  <2>2. ExchangeOf(j)'
    BY <2>1 DEF Exchange, ExchangeOf, Status
  <2>3. \A i \in Jobs \ {j} : ExchangeOf(i)'
    BY <2>1, ExchangeOfKept DEF Exchange
  <2>4. \A i \in Jobs : Ages(i)
    BY <2>1 DEF Ages, Status
  <2> QED BY <2>1, <2>2, <2>3, <2>4 DEF Exchange
<1> QED BY <1>1, <1>2, <1>3, <1>4, <1>5, <1>6

\* Exchange is kept, and rows only age.
LEMMA ExchangeStep ==
    ASSUME Inductive, Next
    PROVE  Exchange' /\ \A i \in Jobs : Ages(i)
<1>1. ASSUME NEW p \in Processes, Proceed(p) \/ Poll(p) \/ Command(p) \/ Crash(p)
      PROVE  RowsKept(p)
  BY <1>1, RowsStep, RowsAside
<1>2. ASSUME NEW m \in Messages, CreateRun(m) \/ EndRun(m) \/ PublishAlert(m) \/ EnqueueTest(m)
      PROVE  RowsKept(Nobody)
  BY <1>2, RowsAside
<1>3. ASSUME NEW j \in Jobs, DueArrives(j) \/ ExpiryPasses(j) PROVE RowsKept(Nobody)
  BY <1>3, RowsAside
<1>4. EditSettings => RowsKept(Nobody)
  BY RowsAside
<1>5. ASSUME NEW j \in Jobs, ServerDecides(j) PROVE Exchange' /\ \A i \in Jobs : Ages(i)
  BY <1>5, RowsAside
<1> QED BY <1>1, <1>2, <1>3, <1>4, <1>5 DEF Next, RowsKept

-----------------------------------------------------------------------------
(* Owners, and those who recover what the dead left. *)

\* What a process holds is not disturbed by another.
LEMMA HoldsOthers ==
    ASSUME Holds, NEW q \in Processes, NEW p, q # p, Spares(p), Locals,
           pc'[q] = pc[q], job'[q] = job[q], outcome'[q] = outcome[q]
    PROVE  HoldsOf(q)'
<1> SUFFICES ASSUME pc[q] \in Holding PROVE HoldsOf(q)'
  BY DEF HoldsOf
<1>1. PICK j \in Jobs : j = job[q]
  BY DEF Locals, LocalsOf, Holding
<1>2. HoldsOf(q) /\ row[j].owner = q
  BY <1>1 DEF Holds, HoldsOf
<1>3. Kept(j)
  BY <1>2 DEF Spares
<1> QED BY <1>1, <1>2, <1>3 DEF HoldsOf, Kept, Status

\* Nor is what it recovers.
LEMMA RecoversOthers ==
    ASSUME Recovers, Locals, NEW q \in Processes, \A i \in Jobs : Ages(i),
           pc'[q] = pc[q], job'[q] = job[q], outcome'[q] = outcome[q]
    PROVE  RecoversOf(q)'
<1> SUFFICES ASSUME pc[q] \in Recovering PROVE RecoversOf(q)'
  BY DEF RecoversOf
<1>1. PICK j \in Jobs : j = job[q]
  BY DEF Locals, LocalsOf, Recovering
<1>2. RecoversOf(q)
  BY DEF Recovers
<1> QED BY <1>1, <1>2 DEF RecoversOf, Ages, Status

\* What a process may say of its attempt after a step of its own.
LEMMA OwnStep ==
    ASSUME Inductive, NEW p \in Processes, Proceed(p) \/ Poll(p) \/ Command(p) \/ Crash(p)
    PROVE  HoldsOf(p)' /\ RecoversOf(p)'
<1> USE DEF Inductive
<1>0. /\ LocalsOf(p) /\ HoldsOf(p) /\ RecoversOf(p) /\ \A i \in Jobs : ExchangeOf(i)
      /\ pc \in [Processes -> Labels] /\ job \in [Processes -> Jobs \cup {NoJob}]
      /\ outcome \in [Processes -> Results] /\ server \in [Jobs -> {"none", "receiving", "accepted", "rejected"}]
  BY DEF Locals, Holds, Recovers, Exchange, TypeOK
<1>1. ASSUME pc'[p] \notin Holding \cup Recovering PROVE HoldsOf(p)' /\ RecoversOf(p)'
  BY <1>1 DEF HoldsOf, RecoversOf
<1>2. CASE Return(p)
  BY <1>0, <1>1, <1>2 DEF Return, Goto, Holding, Recovering
<1>3. ASSUME NEW r, NEW b, Conclude(p, r, b)
      PROVE  pc'[p] = "finish" /\ job'[p] = job[p] /\ outcome'[p] = r
  BY <1>0, <1>3 DEF Conclude, Goto
<1>4. CASE Claim(p)
  <2>1. PICK k \in Jobs : k = job[p]
    BY <1>4, ClaimDoes
  <2>2. Status(k) = "queued" /\ row'[k].status = "sending" /\ row'[k].owner = p
        /\ row'[k].phase = row[k].phase
    BY <1>4, <2>1, ClaimDoes
  <2>3. pc'[p] \in {"connect", "close"} /\ job'[p] = k
    BY <1>0, <1>4, <2>1 DEF Claim, Goto, locals
  <2> QED BY <1>0, <2>2, <2>3 DEF HoldsOf, RecoversOf, Recovering, ExchangeOf, Status
<1>5. CASE ConnectFails(p) \/ ConnectionVerified(p)
  <2>1. row' = row /\ pc[p] = "connect" /\ pc'[p] = "finish" /\ job'[p] = job[p]
        /\ \/ outcome'[p] = "failed"
           \/ outcome'[p] = "connection_ok" /\ Kind[job[p][1]] = "probe"
    BY <1>3, <1>5 DEF ConnectFails, ConnectionVerified, At
  <2> QED BY <1>0, <2>1 DEF HoldsOf, RecoversOf, Holding, Recovering, Status
<1>6. CASE StartData(p)
  <2>1. PICK k \in Jobs : k = job[p]
    BY <1>6, StartDataDoes
  <2>2. pc[p] = "connect" /\ Status(k) = "sending" /\ row[k].owner = p /\ row[k].phase = "prepared"
        /\ server[k] = "none"
    BY <1>0, <1>6, <2>1 DEF StartData, At, HoldsOf, Holding, ExchangeOf
  <2>3. CASE row' = row /\ Conclude(p, "failed", FALSE)
    <3>1. pc'[p] = "finish" /\ job'[p] = k /\ outcome'[p] = "failed"
      BY <1>3, <2>1, <2>3
    <3> QED BY <2>2, <2>3, <3>1 DEF HoldsOf, RecoversOf, Holding, Recovering, Status
  <2>4. CASE row' = [row EXCEPT ![k].phase = "data_started"] /\ Goto(p, "body") /\ UNCHANGED locals
    <3>1. pc'[p] = "body" /\ job'[p] = k /\ UNCHANGED server
      BY <1>0, <1>6, <2>1, <2>4 DEF Goto, locals, StartData
    <3>2. row'[k].status = "sending" /\ row'[k].owner = p /\ row'[k].phase = "data_started"
      <4>1. row'[k].phase = "data_started"
        BY <2>1, <2>4, RowData DEF TypeOK
      <4>2. row' # row
        BY <2>2, <4>1
      <4> QED BY <1>6, <2>1, <2>2, <4>1, <4>2, StartDataDoes
    <3> QED BY <2>2, <3>1, <3>2 DEF HoldsOf, RecoversOf, Holding, Recovering, Status
  <2> QED BY <1>6, <2>1, <2>3, <2>4 DEF StartData
<1>7. CASE SendBody(p)
  <2>1. PICK k \in Jobs : k = job[p]
    BY <1>0, <1>7 DEF SendBody, At, LocalsOf
  <2>2. /\ row' = row /\ server'[k] = "receiving" /\ pc'[p] = "reply" /\ job'[p] = k
        /\ Status(k) = "sending" /\ row[k].owner = p /\ row[k].phase = "data_started"
    BY <1>0, <1>7, <2>1 DEF SendBody, At, HoldsOf, Holding, Goto, locals
  <2> QED BY <2>2 DEF HoldsOf, RecoversOf, Holding, Recovering, Status
<1>8. CASE ReadReply(p)
  <2>1. row' = row /\ server' = server /\ pc[p] = "reply" /\ pc'[p] = "finish" /\ job'[p] = job[p]
        /\ \/ outcome'[p] = "failed" /\ server[job[p]] = "rejected"
           \/ outcome'[p] = "smtp_accepted" /\ server[job[p]] = "accepted"
    BY <1>3, <1>8 DEF ReadReply, At
  <2> QED BY <1>0, <2>1 DEF HoldsOf, RecoversOf, Holding, Recovering, Status
<1>9. CASE ExchangeBreaks(p)
  <2>1. row' = row /\ server' = server /\ pc[p] \in {"body", "reply"} /\ pc'[p] = "finish"
        /\ job'[p] = job[p] /\ outcome'[p] = "uncertain"
    BY <1>3, <1>9 DEF ExchangeBreaks
  <2> QED BY <1>0, <2>1 DEF HoldsOf, RecoversOf, Holding, Recovering, Status
<1>10. CASE Finish(p)
  <2>1. CASE Goto(p, "retry")
    BY <1>0, <1>1, <2>1 DEF Goto, Holding, Recovering
  <2> QED BY <1>2, <1>10, <2>1 DEF Finish
<1>11. CASE FinishFails(p)
  <2>1. CASE pc[p] = "finish" /\ row[job[p]].phase = "data_started"
    <3>1. row' = row /\ server' = server /\ pc'[p] = "finish_again" /\ job'[p] = job[p]
      BY <1>0, <1>11, <2>1 DEF FinishFails, Goto, At
    <3> QED BY <1>0, <2>1, <3>1 DEF HoldsOf, RecoversOf, Holding, Recovering, Status
  <2> QED BY <1>2, <1>11, <2>1 DEF FinishFails, At
<1>12. CASE RecoverProbe(p)
  <2>1. CASE /\ Status(job[p]) = "sending" /\ row[job[p]].owner = Nobody
             /\ Goto(p, "recover") /\ UNCHANGED locals
    <3>1. row' = row /\ server' = server /\ pc[p] = "probe" /\ pc'[p] = "recover"
          /\ job'[p] = job[p] /\ outcome'[p] = outcome[p]
      BY <1>0, <1>12, <2>1 DEF RecoverProbe, Goto, locals, At
    <3> QED BY <1>0, <2>1, <3>1 DEF HoldsOf, RecoversOf, Holding, Recovering, Status
  <2> QED BY <1>2, <1>12, <2>1 DEF RecoverProbe
<1>13. CASE RequestCancel(p)
  BY <1>0, <1>1, <1>13 DEF RequestCancel, Goto, Holding, Recovering
<1>14. CASE Enqueue(p) \/ ClaimRefused(p) \/ FinishLost(p) \/ CancelPending(p)
            \/ Expedite(p) \/ Retry(p) \/ RetryEnds(p) \/ Crash(p)
  BY <1>2, <1>14 DEF Enqueue, ClaimRefused, FinishLost, CancelPending, Expedite, Retry, RetryEnds, Crash
<1>15. ASSUME NEW j \in Jobs, Prepare(p, j) PROVE HoldsOf(p)' /\ RecoversOf(p)'
  BY <1>0, <1>1, <1>15 DEF Prepare, Take, Goto, Holding, Recovering
<1>16. ASSUME NEW j \in Jobs, RecoverRead(p, j) PROVE HoldsOf(p)' /\ RecoversOf(p)'
  <2>1. row' = row /\ Status(j) = "sending" /\ pc'[p] = "probe" /\ job'[p] = j
        /\ outcome'[p] = IF row[j].phase = "data_started" THEN "uncertain" ELSE "failed"
    BY <1>0, <1>16 DEF RecoverRead, Take, Goto
  <2> QED BY <2>1 DEF HoldsOf, RecoversOf, Holding, Recovering, Status
<1>17. ASSUME NEW m \in Messages, EnqueueCheck(p, m) \/ CancelRead(p, m)
       PROVE  HoldsOf(p)' /\ RecoversOf(p)'
  BY <1>0, <1>1, <1>17 DEF EnqueueCheck, CancelRead, Take, Goto, Holding, Recovering
<1>18. ASSUME NEW m \in Messages, NEW k \in Keys, NEW c \in BOOLEAN, RetryRead(p, m, k, c)
       PROVE  HoldsOf(p)' /\ RecoversOf(p)'
  BY <1>0, <1>1, <1>18 DEF RetryRead, Take, Goto, Holding, Recovering
<1> QED
  BY <1>4, <1>5, <1>6, <1>7, <1>8, <1>9, <1>10, <1>11, <1>12, <1>13, <1>14, <1>15, <1>16, <1>17,
     <1>18 DEF Proceed, Poll, Command

\* Holds and Recovers are kept.
LEMMA HoldsStep ==
    ASSUME Inductive, Next
    PROVE  Holds' /\ Recovers'
<1> USE DEF Inductive
<1>0. \A i \in Jobs : Ages(i)
  BY ExchangeStep
<1>1. ASSUME NEW p \in Processes, Proceed(p) \/ Poll(p) \/ Command(p) \/ Crash(p)
      PROVE  Holds' /\ Recovers'
  <2>1. Elsewhere(p)
    BY <1>1, ProcessLocals
  <2>2. Spares(p)
    BY <1>1, RowsStep, RowsAside DEF RowsKept
  <2>3. HoldsOf(p)' /\ RecoversOf(p)'
    BY <1>1, OwnStep
  <2>4. ASSUME NEW q \in Processes, q # p PROVE HoldsOf(q)' /\ RecoversOf(q)'
    BY <1>0, <2>1, <2>2, <2>4, HoldsOthers, RecoversOthers DEF Elsewhere
  <2> QED BY <2>3, <2>4 DEF Holds, Recovers
<1>2. ASSUME Spares(Nobody), UNCHANGED <<pc, locals>> PROVE Holds' /\ Recovers'
  BY <1>0, <1>2, HoldsOthers, RecoversOthers, ProcessAssumption DEF Holds, Recovers, locals
<1>3. ASSUME NEW m \in Messages, CreateRun(m) \/ EndRun(m) \/ PublishAlert(m) \/ EnqueueTest(m)
      PROVE  Holds' /\ Recovers'
  <2>1. UNCHANGED <<pc, locals>>
    BY <1>3 DEF CreateRun, EndRun, PublishAlert, EnqueueTest
  <2> QED BY <1>2, <1>3, <2>1, RowsAside DEF RowsKept
<1>4. ASSUME NEW j \in Jobs, DueArrives(j) \/ ExpiryPasses(j) PROVE Holds' /\ Recovers'
  <2>1. UNCHANGED <<pc, locals>>
    BY <1>4 DEF DueArrives, ExpiryPasses
  <2> QED BY <1>2, <1>4, <2>1, RowsAside DEF RowsKept
<1>5. ASSUME EditSettings PROVE Holds' /\ Recovers'
  <2>1. UNCHANGED <<pc, locals>>
    BY <1>5 DEF EditSettings
  <2> QED BY <1>2, <1>5, <2>1, RowsAside DEF RowsKept
<1>6. ASSUME NEW j \in Jobs, ServerDecides(j) PROVE Holds' /\ Recovers'
  <2>1. UNCHANGED <<pc, locals, row>> /\ server[j] = "receiving"
        /\ server'[j] \in {"accepted", "rejected"}
        /\ \A i \in Jobs \ {j} : server'[i] = server[i]
    BY <1>6 DEF ServerDecides, TypeOK
  <2>2. ASSUME NEW q \in Processes PROVE HoldsOf(q)'
    <3>1. HoldsOf(q)
      BY DEF Holds
    <3>2. pc[q] \in Holding => job[q] \in Jobs
      BY DEF Locals, LocalsOf, Holding
    <3> QED BY <2>1, <3>1, <3>2 DEF HoldsOf, Status, locals
  <2>3. Recovers'
    BY <2>1 DEF Recovers, RecoversOf, Status, locals
  <2> QED BY <2>2, <2>3 DEF Holds
<1> QED BY <1>1, <1>3, <1>4, <1>5, <1>6 DEF Next

\* Attempts do not disappear, and a first attempt appears before any other.
LEMMA InsertsKept ==
    ASSUME Inductive, TableStep, NEW q \in Processes,
           pc[q] = "insert", pc'[q] = "insert", job'[q] = job[q],
           \A m \in Messages : cancelRequested[m] => cancelRequested'[m]
    PROVE  InsertsOf(q)'
<1> USE DEF Inductive
<1>1. PICK f \in Jobs : f = job[q] /\ f = First(f[1]) /\ f[1] \in Messages /\ Bound(f[1])
  BY JobParts DEF Locals, LocalsOf
<1> DEFINE m == f[1]
<1> SUFFICES ASSUME Status(f)' = "none"
             PROVE  \/ handoff'[m] = "published" /\ (Report(m) => runStatus'[m] = "awaiting_receipt")
                    \/ /\ Report(m) /\ cancelRequested'[m]
                       /\ runStatus'[m] = "cancelled" /\ handoff'[m] = "failed"
  BY <1>1 DEF InsertsOf
<1>2. f[2] = 1
  BY <1>1, FirstJob
<1>3. Status(f) = "none"
  <2>1. row[f].status \in Statuses
    BY DEF TypeOK, Row
  <2>2. CASE Progresses
    BY <2>1, <2>2 DEF Progresses, Status, Statuses
  <2>3. CASE Turns
    BY <2>3 DEF Turns, Queues, Settles, Resumes, Reissues, Cancels, RunMoves, Others, Appears, Closes, Status, Results
  <2> QED BY <2>2, <2>3 DEF TableStep, tables, Status
<1>4. \A i \in Jobs : i[1] = m => Status(i) = "none"
  BY <1>2, <1>3, FirstIsFirst
<1>5. \/ handoff[m] = "published" /\ (Report(m) => runStatus[m] = "awaiting_receipt")
      \/ Report(m) /\ cancelRequested[m] /\ runStatus[m] = "cancelled" /\ handoff[m] = "failed"
  BY <1>1, <1>3 DEF Inserts, InsertsOf
<1>6. cancelRequested[m] => cancelRequested'[m]
  BY <1>1
<1>7. ASSUME handoff'[m] = handoff[m], runStatus'[m] = runStatus[m]
      PROVE  \/ handoff'[m] = "published" /\ (Report(m) => runStatus'[m] = "awaiting_receipt")
             \/ /\ Report(m) /\ cancelRequested'[m]
                /\ runStatus'[m] = "cancelled" /\ handoff'[m] = "failed"
  BY <1>5, <1>6, <1>7
<1>8. CASE UNCHANGED tables
  BY <1>7, <1>8 DEF tables
<1>9. CASE Progresses
  BY <1>7, <1>9 DEF Progresses
<1>10. ASSUME NEW j \in Jobs, Queues(j)
       PROVE  handoff'[m] = handoff[m] /\ runStatus'[m] = runStatus[m]
  BY <1>10 DEF Queues
<1>11. ASSUME NEW j \in Jobs, NEW r \in Results, Settles(j, r)
       PROVE  handoff'[m] = handoff[m] /\ runStatus'[m] = runStatus[m]
  BY <1>1, <1>4, <1>11 DEF Settles, OtherMessages
<1>12. ASSUME NEW j \in Jobs, Resumes(j)
       PROVE  handoff'[m] = handoff[m] /\ runStatus'[m] = runStatus[m]
  BY <1>1, <1>4, <1>12 DEF Resumes, OtherMessages
<1>13. ASSUME NEW j \in Jobs, NEW c \in BOOLEAN, Reissues(j, c)
       PROVE  handoff'[m] = handoff[m] /\ runStatus'[m] = runStatus[m]
  BY <1>1, <1>4, <1>13 DEF Reissues, Insertable, OtherMessages
<1>14. ASSUME NEW c \in Messages, RunMoves(c)
       PROVE  handoff'[m] = handoff[m] /\ runStatus'[m] = runStatus[m]
  <2>1. CASE c = m
    BY <1>5, <1>14, <2>1 DEF RunMoves, Report
  <2>2. CASE c # m
    BY <1>1, <1>14, <2>2 DEF RunMoves, OtherMessages
  <2> QED BY <2>1, <2>2
<1>15. ASSUME NEW c \in Messages, Cancels(c)
       PROVE  \/ handoff'[m] = handoff[m] /\ runStatus'[m] = runStatus[m]
              \/ /\ Report(m) /\ cancelRequested'[m]
                 /\ runStatus'[m] = "cancelled" /\ handoff'[m] = "failed"
  <2>1. CASE c = m
    <3>1. ~Unsure(m)
      BY <1>4 DEF Unsure, Some, Attempts
    <3> QED BY <1>5, <1>15, <2>1, <3>1 DEF Cancels
  <2>2. CASE c # m
    BY <1>1, <1>15, <2>2 DEF Cancels, OtherMessages
  <2> QED BY <2>1, <2>2
<1> QED
  BY <1>7, <1>8, <1>9, <1>10, <1>11, <1>12, <1>13, <1>14, <1>15 DEF TableStep, Turns

\* Inserts is kept.
LEMMA InsertsStep ==
    ASSUME Inductive, Next
    PROVE  Inserts'
<1> USE DEF Inductive
<1>1. TableStep /\ \A m \in Messages : cancelRequested[m] => cancelRequested'[m]
  BY TableSteps, FlagsStay
<1>2. ASSUME NEW q \in Processes, pc'[q] = pc[q], job'[q] = job[q] PROVE InsertsOf(q)'
  <2>1. CASE pc[q] = "insert"
    BY <1>1, <1>2, <2>1, InsertsKept
  <2>2. CASE pc[q] # "insert"
    BY <1>2, <2>2 DEF InsertsOf
  <2> QED BY <2>1, <2>2
<1>3. ASSUME NEW p \in Processes, Proceed(p) \/ Poll(p) \/ Command(p) \/ Crash(p)
      PROVE  Inserts'
  <2>1. Elsewhere(p)
    BY <1>3, ProcessLocals
  <2>2. InsertsOf(p)'
    <3>0. pc \in [Processes -> Labels] /\ job \in [Processes -> Jobs \cup {NoJob}]
      BY DEF TypeOK
    <3>1. CASE pc'[p] # "insert"
      BY <3>1 DEF InsertsOf
    <3>2. ASSUME NEW m \in Messages, EnqueueCheck(p, m) PROVE InsertsOf(p)'
      <4>1. job'[p] = First(m) /\ First(m)[1] = m /\ UNCHANGED <<handoff, runStatus>>
            /\ handoff[m] = "published" /\ (Report(m) => runStatus[m] = "awaiting_receipt")
        BY <3>0, <3>2, FirstJob DEF EnqueueCheck, Take, Goto, runs
      <4> QED BY <4>1 DEF InsertsOf
    <3>3. ASSUME Return(p) \/ \E r \in Results, b \in BOOLEAN : Conclude(p, r, b)
          PROVE  pc'[p] # "insert"
      BY <3>0, <3>3 DEF Return, Conclude, Goto
    <3>4. ASSUME NEW l \in Labels \ {"insert"}, Goto(p, l) PROVE pc'[p] # "insert"
      BY <3>0, <3>4 DEF Goto
    <3>5. ASSUME Proceed(p) \/ Crash(p) PROVE pc'[p] # "insert"
      BY <3>3, <3>4, <3>5 DEF Proceed, Enqueue, Claim, ClaimRefused, ConnectFails, ConnectionVerified,
         StartData, SendBody, ReadReply, ExchangeBreaks, Finish, FinishLost, FinishFails,
         RecoverProbe, RequestCancel, CancelPending, Expedite, Retry, RetryEnds, Crash, Labels, Results
    <3>6. ASSUME NEW j \in Jobs, Prepare(p, j) \/ RecoverRead(p, j) PROVE pc'[p] # "insert"
      BY <3>4, <3>6 DEF Prepare, RecoverRead, Take, Labels
    <3>7. ASSUME Command(p) PROVE pc'[p] # "insert"
      BY <3>4, <3>7 DEF Command, CancelRead, RetryRead, Take, Labels
    <3> QED BY <1>3, <3>1, <3>2, <3>5, <3>6, <3>7 DEF Poll
  <2> QED BY <1>2, <2>1, <2>2 DEF Elsewhere, Inserts
<1>4. CASE UNCHANGED <<pc, locals>>
  BY <1>2, <1>4 DEF Inserts, locals
<1>5. ASSUME NEW m \in Messages, CreateRun(m) \/ EndRun(m) \/ PublishAlert(m) \/ EnqueueTest(m)
      PROVE  UNCHANGED <<pc, locals>>
  BY <1>5 DEF CreateRun, EndRun, PublishAlert, EnqueueTest
<1>6. ASSUME NEW j \in Jobs, ServerDecides(j) \/ DueArrives(j) \/ ExpiryPasses(j)
      PROVE  UNCHANGED <<pc, locals>>
  BY <1>6 DEF ServerDecides, DueArrives, ExpiryPasses
<1>7. EditSettings => UNCHANGED <<pc, locals>>
  BY DEF EditSettings
<1> QED BY <1>3, <1>4, <1>5, <1>6, <1>7 DEF Next

-----------------------------------------------------------------------------
(* Request keys. *)

\* A key is answered once, with the effect it had.
LEMMA LedgerStep ==
    ASSUME Inductive, Next
    PROVE  \/ UNCHANGED ledger
           \/ \E k \in Keys, j \in Jobs :
                 /\ answered[k] = NoJob
                 /\ answered' = [answered EXCEPT ![k] = j]
                 /\ effects' = [effects EXCEPT ![k] = @ + 1]
<1> USE DEF Inductive
<1>1. ASSUME NEW p \in Processes, Expedite(p)
      PROVE  \E k \in Keys, j \in Jobs :
                 /\ answered[k] = NoJob
                 /\ answered' = [answered EXCEPT ![k] = j]
                 /\ effects' = [effects EXCEPT ![k] = @ + 1]
  <2>1. job[p] \in Jobs /\ request[p].key \in Keys
    BY <1>1 DEF Expedite, At, Locals, LocalsOf
  <2> QED BY <1>1, <2>1 DEF Expedite, RetryAllowed
<1>2. ASSUME NEW p \in Processes, Retry(p)
      PROVE  \E k \in Keys, j \in Jobs :
                 /\ answered[k] = NoJob
                 /\ answered' = [answered EXCEPT ![k] = j]
                 /\ effects' = [effects EXCEPT ![k] = @ + 1]
  <2>1. Next1(job[p]) \in Jobs
    BY <1>2, RetryDoes, NextJob DEF Reissues
  <2> QED BY <1>2, <2>1, RetryDoes
<1>3. ASSUME NEW p \in Processes, Proceed(p), ~Expedite(p), ~Retry(p) PROVE UNCHANGED ledger
  BY <1>3 DEF Proceed, Enqueue, Claim, ClaimRefused, ConnectFails, ConnectionVerified,
     StartData, SendBody, ReadReply, ExchangeBreaks, Finish, FinishLost, FinishFails,
     RecoverProbe, RequestCancel, CancelPending, RetryEnds
<1>4. ASSUME NEW p \in Processes, Poll(p) \/ Command(p) \/ Crash(p) PROVE UNCHANGED ledger
  BY <1>4 DEF Poll, Command, Crash, Prepare, RecoverRead, EnqueueCheck, CancelRead, RetryRead
<1>5. ASSUME NEW m \in Messages, CreateRun(m) \/ EndRun(m) \/ PublishAlert(m) \/ EnqueueTest(m)
      PROVE  UNCHANGED ledger
  BY <1>5 DEF CreateRun, EndRun, PublishAlert, EnqueueTest
<1>6. ASSUME NEW j \in Jobs, ServerDecides(j) \/ DueArrives(j) \/ ExpiryPasses(j)
      PROVE  UNCHANGED ledger
  BY <1>6 DEF ServerDecides, DueArrives, ExpiryPasses
<1>7. EditSettings => UNCHANGED ledger
  BY DEF EditSettings
<1> QED BY <1>1, <1>2, <1>3, <1>4, <1>5, <1>6, <1>7 DEF Next

\* KeysAnswered is kept.
LEMMA KeysStep ==
    ASSUME Inductive, Next
    PROVE  KeysAnswered' /\ answered' \in [Keys -> Jobs \cup {NoJob}] /\ effects' \in [Keys -> Nat]
<1> USE DEF Inductive
<1>1. CASE UNCHANGED ledger
  BY <1>1 DEF ledger, KeysAnswered, TypeOK
<1>2. ASSUME NEW k \in Keys, NEW j \in Jobs, answered[k] = NoJob,
             answered' = [answered EXCEPT ![k] = j], effects' = [effects EXCEPT ![k] = @ + 1]
      PROVE  KeysAnswered' /\ answered' \in [Keys -> Jobs \cup {NoJob}] /\ effects' \in [Keys -> Nat]
  <2>1. answered'[k] = j /\ j # NoJob /\ effects'[k] = 1
    BY <1>2, JobParts DEF KeysAnswered, TypeOK
  <2>2. \A l \in Keys \ {k} : answered'[l] = answered[l] /\ effects'[l] = effects[l]
    BY <1>2 DEF TypeOK
  <2> QED BY <1>2, <2>1, <2>2 DEF KeysAnswered, TypeOK
<1> QED BY <1>1, <1>2, LedgerStep

-----------------------------------------------------------------------------
(* Types of the tables. *)

\* The counters keep their types.
LEMMA CountersStep ==
    ASSUME TypeOK, Next
    PROVE  /\ live' \in BOOLEAN /\ revision' \in Nat
           /\ crashes' \in Nat /\ faults' \in Nat /\ edits' \in Nat
<1> USE DEF TypeOK, settings
<1>1. ASSUME NEW p \in Processes, Proceed(p), ~FinishFails(p)
      PROVE  UNCHANGED <<settings, crashes, faults>>
  BY <1>1 DEF Proceed, Enqueue, Claim, ClaimRefused, ConnectFails, ConnectionVerified,
     StartData, SendBody, ReadReply, ExchangeBreaks, Finish, FinishLost,
     RecoverProbe, RequestCancel, CancelPending, Expedite, Retry, RetryEnds
<1>2. ASSUME NEW p \in Processes, FinishFails(p) PROVE UNCHANGED <<settings, crashes>> /\ faults' = faults + 1
  BY <1>2 DEF FinishFails
<1>3. ASSUME NEW p \in Processes, Poll(p) \/ Command(p) PROVE UNCHANGED <<settings, crashes, faults>>
  BY <1>3 DEF Poll, Command, Prepare, RecoverRead, EnqueueCheck, CancelRead, RetryRead
<1>4. ASSUME NEW p \in Processes, Crash(p) PROVE UNCHANGED <<settings, faults>> /\ crashes' = crashes + 1
  BY <1>4 DEF Crash
<1>5. ASSUME NEW m \in Messages, CreateRun(m) \/ EndRun(m) \/ PublishAlert(m) \/ EnqueueTest(m)
      PROVE  UNCHANGED <<settings, crashes, faults>>
  BY <1>5 DEF CreateRun, EndRun, PublishAlert, EnqueueTest
<1>6. ASSUME NEW j \in Jobs, ServerDecides(j) \/ DueArrives(j) \/ ExpiryPasses(j)
      PROVE  UNCHANGED <<settings, crashes, faults>>
  BY <1>6 DEF ServerDecides, DueArrives, ExpiryPasses
<1>7. ASSUME EditSettings
      PROVE  live' \in BOOLEAN /\ revision' \in Nat /\ edits' \in Nat /\ UNCHANGED <<crashes, faults>>
  <2>1. edits' \in Nat /\ UNCHANGED <<crashes, faults>>
    BY <1>7 DEF EditSettings
  <2>2. CASE revision' = revision + 1 /\ UNCHANGED live
    BY <2>1, <2>2
  <2>3. CASE live' = ~live /\ UNCHANGED revision
    <3>1. live' \in BOOLEAN
      BY <2>3, Zenon
    <3> QED BY <2>1, <2>3, <3>1
  <2> QED BY <1>7, <2>2, <2>3 DEF EditSettings
<1> QED BY <1>1, <1>2, <1>3, <1>4, <1>5, <1>6, <1>7 DEF Next

\* The runs and the handoffs keep their types.
LEMMA RunsAndHandoffs ==
    ASSUME Inductive, Next
    PROVE  runStatus' \in [Messages -> RunStatuses] /\ handoff' \in [Messages -> HandoffStatuses]
<1> USE DEF Inductive
<1>1. CASE UNCHANGED <<runStatus, handoff>>
  BY <1>1 DEF TypeOK
<1>2. ASSUME NEW p \in Processes, Finish(p)
      PROVE  runStatus' \in [Messages -> RunStatuses] /\ handoff' \in [Messages -> HandoffStatuses]
  <2>1. PICK j : j = job[p]
    OBVIOUS
  <2>2. PICK r : r = outcome[p]
    OBVIOUS
  <2>3. j \in Jobs /\ r \in Results
    <3>1. pc[p] # "idle"
      BY <1>2 DEF Finish, Storing
    <3> QED BY <2>1, <2>2, <3>1 DEF Locals, LocalsOf, TypeOK
  <2>4. r = "connection_ok" => ~Report(j[1])
    <3>1. Settles(j, r) \/ r = "failed"
      BY <1>2, <2>1, <2>2, FinishDoes
    <3> QED BY <3>1 DEF Settles, Report
  <2>5. SettledHandoff(j, r) \in HandoffStatuses
    BY <2>3, SettledHandoffType
  <2>6. Report(j[1]) => SettledRun(j, r) \in RunStatuses
    BY <2>3, <2>4, SettledTypes DEF RunStatuses
  <2>7. /\ \/ handoff' = [handoff EXCEPT ![j[1]] = SettledHandoff(j, r)]
           \/ handoff' = [handoff EXCEPT ![j[1]] = "queued"] \/ handoff' = handoff
        /\ \/ Report(j[1]) /\ runStatus' = [runStatus EXCEPT ![j[1]] = SettledRun(j, r)]
           \/ runStatus' = [runStatus EXCEPT ![j[1]] = "awaiting_receipt"]
           \/ runStatus' = runStatus
    BY <1>2, <2>1, <2>2 DEF Finish, Store
  <2>8. "queued" \in HandoffStatuses /\ "awaiting_receipt" \in RunStatuses
    BY DEF HandoffStatuses, RunStatuses
  <2>9. handoff' \in [Messages -> HandoffStatuses]
    BY <2>5, <2>7, <2>8 DEF TypeOK
  <2>10. runStatus' \in [Messages -> RunStatuses]
    BY <2>6, <2>7, <2>8 DEF TypeOK
  <2> QED BY <2>9, <2>10
<1>3. ASSUME NEW p \in Processes, CancelPending(p)
      PROVE  runStatus' \in [Messages -> RunStatuses] /\ handoff' \in [Messages -> HandoffStatuses]
  <2>1. PICK m : m = job[p][1]
    OBVIOUS
  <2>2. \/ UNCHANGED <<runStatus, handoff>>
        \/ \E s \in {"needs_attention", "cancelled"}, h \in {"uncertain", "failed", handoff[m]} :
              runStatus' = [runStatus EXCEPT ![m] = s] /\ handoff' = [handoff EXCEPT ![m] = h]
    BY <1>3, <2>1 DEF CancelPending
  <2>3. m \in Messages
    BY <1>3, <2>1, JobParts DEF CancelPending, At, Locals, LocalsOf
  <2>4. CASE UNCHANGED <<runStatus, handoff>>
    BY <2>4 DEF TypeOK
  <2>5. ASSUME NEW s \in {"needs_attention", "cancelled"}, NEW h \in {"uncertain", "failed", handoff[m]},
               runStatus' = [runStatus EXCEPT ![m] = s], handoff' = [handoff EXCEPT ![m] = h]
        PROVE  runStatus' \in [Messages -> RunStatuses] /\ handoff' \in [Messages -> HandoffStatuses]
    <3>1. s \in RunStatuses /\ h \in HandoffStatuses
      BY <2>3 DEF TypeOK, RunStatuses, HandoffStatuses, Results
    <3> QED BY <2>5, <3>1 DEF TypeOK
  <2> QED BY <2>2, <2>4, <2>5
<1>4. ASSUME NEW p \in Processes, Retry(p)
      PROVE  runStatus' \in [Messages -> RunStatuses] /\ handoff' \in [Messages -> HandoffStatuses]
  BY <1>4 DEF Retry, TypeOK, RunStatuses, HandoffStatuses
<1>5. ASSUME NEW p \in Processes, Proceed(p), ~Finish(p), ~CancelPending(p), ~Retry(p)
      PROVE  UNCHANGED <<runStatus, handoff>>
  BY <1>5 DEF Proceed, Enqueue, Claim, ClaimRefused, ConnectFails, ConnectionVerified,
     StartData, SendBody, ReadReply, ExchangeBreaks, FinishLost, FinishFails,
     RecoverProbe, RequestCancel, Expedite, RetryEnds, runs
<1>6. ASSUME NEW p \in Processes, Poll(p) \/ Command(p) \/ Crash(p) PROVE UNCHANGED <<runStatus, handoff>>
  BY <1>6 DEF Poll, Command, Crash, Prepare, RecoverRead, EnqueueCheck, CancelRead, RetryRead, runs
<1>7. ASSUME NEW m \in Messages, CreateRun(m) \/ PublishAlert(m) \/ EnqueueTest(m)
      PROVE  runStatus' \in [Messages -> RunStatuses] /\ handoff' \in [Messages -> HandoffStatuses]
  BY <1>7 DEF CreateRun, PublishAlert, EnqueueTest, runs, TypeOK, RunStatuses, HandoffStatuses
<1>8. ASSUME NEW m \in Messages, EndRun(m)
      PROVE  runStatus' \in [Messages -> RunStatuses] /\ handoff' \in [Messages -> HandoffStatuses]
  <2>1. \/ /\ runStatus' = [runStatus EXCEPT ![m] = "awaiting_receipt"]
           /\ handoff' = [handoff EXCEPT ![m] = "published"]
        \/ /\ \E s \in {"failed", "needs_attention", "cancelled"} :
                 runStatus' = [runStatus EXCEPT ![m] = s]
           /\ handoff' = handoff
    BY <1>8 DEF EndRun
  <2> QED BY <2>1 DEF TypeOK, RunStatuses, HandoffStatuses
<1>9. ASSUME NEW j \in Jobs, ServerDecides(j) \/ DueArrives(j) \/ ExpiryPasses(j)
      PROVE  UNCHANGED <<runStatus, handoff>>
  BY <1>9 DEF ServerDecides, DueArrives, ExpiryPasses, runs
<1>10. EditSettings => UNCHANGED <<runStatus, handoff>>
  BY DEF EditSettings, runs
<1> QED BY <1>1, <1>2, <1>3, <1>4, <1>5, <1>6, <1>7, <1>8, <1>9, <1>10 DEF Next

\* The flags and the server keep their types.
LEMMA FlagsAndServer ==
    ASSUME TypeOK, Next
    PROVE  /\ cancelRequested' \in [Messages -> BOOLEAN]
           /\ server' \in [Jobs -> {"none", "receiving", "accepted", "rejected"}]
<1> USE DEF TypeOK, runs
<1>1. ASSUME NEW p \in Processes, RequestCancel(p) \/ SendBody(p)
      PROVE  /\ cancelRequested' \in [Messages -> BOOLEAN]
             /\ server' \in [Jobs -> {"none", "receiving", "accepted", "rejected"}]
  BY <1>1 DEF RequestCancel, SendBody
<1>2. ASSUME NEW p \in Processes, Proceed(p), ~RequestCancel(p), ~SendBody(p)
      PROVE  UNCHANGED <<cancelRequested, server>>
  BY <1>2 DEF Proceed, Enqueue, Claim, ClaimRefused, ConnectFails, ConnectionVerified,
     StartData, ReadReply, ExchangeBreaks, Finish, FinishLost, FinishFails,
     RecoverProbe, CancelPending, Expedite, Retry, RetryEnds
<1>3. ASSUME NEW p \in Processes, Poll(p) \/ Command(p) \/ Crash(p)
      PROVE  UNCHANGED <<cancelRequested, server>>
  BY <1>3 DEF Poll, Command, Crash, Prepare, RecoverRead, EnqueueCheck, CancelRead, RetryRead
<1>4. ASSUME NEW m \in Messages, CreateRun(m) \/ EndRun(m) \/ PublishAlert(m) \/ EnqueueTest(m)
      PROVE  UNCHANGED <<cancelRequested, server>>
  BY <1>4 DEF CreateRun, EndRun, PublishAlert, EnqueueTest
<1>5. ASSUME NEW j \in Jobs, ServerDecides(j)
      PROVE  /\ cancelRequested' \in [Messages -> BOOLEAN]
             /\ server' \in [Jobs -> {"none", "receiving", "accepted", "rejected"}]
  BY <1>5 DEF ServerDecides
<1>6. ASSUME NEW j \in Jobs, DueArrives(j) \/ ExpiryPasses(j)
      PROVE  UNCHANGED <<cancelRequested, server>>
  BY <1>6 DEF DueArrives, ExpiryPasses
<1>7. EditSettings => UNCHANGED <<cancelRequested, server>>
  BY DEF EditSettings
<1> QED BY <1>1, <1>2, <1>3, <1>4, <1>5, <1>6, <1>7 DEF Next

\* TypeOK is kept.
LEMMA TypesStep ==
    ASSUME Inductive, Next
    PROVE  TypeOK'
<1>1. LocalTypes'
  BY LocalTypesStep DEF Inductive
<1>2. row' \in [Jobs -> Row]
  BY TableSteps
<1>3. answered' \in [Keys -> Jobs \cup {NoJob}] /\ effects' \in [Keys -> Nat]
  BY KeysStep
<1>4. runStatus' \in [Messages -> RunStatuses] /\ handoff' \in [Messages -> HandoffStatuses]
  BY RunsAndHandoffs
<1>5. /\ cancelRequested' \in [Messages -> BOOLEAN]
      /\ server' \in [Jobs -> {"none", "receiving", "accepted", "rejected"}]
      /\ live' \in BOOLEAN /\ revision' \in Nat
      /\ crashes' \in Nat /\ faults' \in Nat /\ edits' \in Nat
  BY CountersStep, FlagsAndServer DEF Inductive
<1> QED BY <1>1, <1>2, <1>3, <1>4, <1>5 DEF TypeOK, LocalTypes

-----------------------------------------------------------------------------
(* The invariant, and what follows from it. *)

\* The first state satisfies Inductive.
LEMMA InductiveInit == Init => Inductive
<1> SUFFICES ASSUME Init PROVE Inductive
  OBVIOUS
<1> USE DEF Init
<1>1. TypeOK
  <2>1. row \in [Jobs -> Row]
    BY NoRowRow
  <2>2. request \in [Processes -> Request]
    BY RequestTypes
  <2> QED
    BY <2>1, <2>2 DEF TypeOK, RunStatuses, HandoffStatuses, Labels, Results
<1>2. \A j \in Jobs : Status(j) = "none" /\ row[j].phase = "prepared" /\ row[j].owner = Nobody
                      /\ row[j].consent = FALSE /\ server[j] = "none"
  BY NoRowRow DEF Status
<1>3. Locals
  BY DEF Locals, LocalsOf, Dispatching, Operating, Recovering
<1>4. Ordered
  <2>1. 0 \in 0..MaxAttempts /\ \A j \in Jobs : Status(j) # "none" <=> j[2] <= 0
    BY <1>2, JobParts, LimitAssumption
  <2> QED BY <1>2, <2>1 DEF Ordered, Pending
<1>5. Exchange
  BY <1>2 DEF Exchange, ExchangeOf, Results
<1>6. Holds /\ Recovers /\ Inserts
  BY DEF Holds, HoldsOf, Holding, Recovers, RecoversOf, Recovering, Inserts, InsertsOf
<1>7. OnceAccepted
  BY <1>2 DEF OnceAccepted
<1>8. RunsTell
  <2> SUFFICES ASSUME NEW m \in Messages
               PROVE  IF Report(m) THEN RunTells(m) ELSE runStatus[m] = "none"
    BY DEF RunsTell
  <2>1. ~Report(m) => runStatus[m] = "none"
    BY StartedAssumption DEF Report
  <2>2. runStatus[m] \in {"none", "running"} /\ handoff[m] = "none"
    OBVIOUS
  <2>3. Begins(m)
    BY <1>2, <2>2 DEF Begins
  <2>4. WaitsFor(m)
    BY <1>2, <2>2 DEF WaitsFor, Pending
  <2>5. Keeps(m)
    BY <1>2 DEF Keeps
  <2> QED BY <2>1, <2>3, <2>4, <2>5, RunTellsParts
<1>9. AlertsTell
  BY <1>2, FirstJob DEF AlertsTell, AlertTells, Results
<1>10. KeysAnswered
  BY DEF KeysAnswered
<1> QED BY <1>1, <1>3, <1>4, <1>5, <1>6, <1>7, <1>8, <1>9, <1>10 DEF Inductive

\* A step that changes nothing keeps Inductive.
LEMMA InductiveStutter ==
    ASSUME Inductive, UNCHANGED vars
    PROVE  Inductive'
<1> USE DEF vars, runs, ledger, settings, locals
<1>1. TypeOK'
  BY DEF Inductive, TypeOK
<1>2. Locals' /\ Holds' /\ Recovers' /\ Inserts'
  BY DEF Inductive, Locals, LocalsOf, Holds, HoldsOf, Recovers, RecoversOf, Inserts, InsertsOf, Status
<1>3. Exchange' /\ Ordered' /\ OnceAccepted'
  <2>1. Exchange'
    BY DEF Inductive, Exchange, ExchangeOf, Status
  <2>2. Ordered'
    BY OrderedKept DEF Inductive, Status, Pending
  <2> QED BY <2>1, <2>2 DEF Inductive, OnceAccepted, Pending, Status
<1>4. RunsTell' /\ AlertsTell'
  <2>1. TableStep
    BY DEF TableStep, tables
  <2> QED BY <2>1, RunsTellStep, AlertsTellStep
<1>5. KeysAnswered'
  BY DEF Inductive, KeysAnswered
<1> QED BY <1>1, <1>2, <1>3, <1>4, <1>5 DEF Inductive

\* Every step keeps Inductive.
LEMMA InductiveStep ==
    ASSUME Inductive, Next
    PROVE  Inductive'
<1>1. TableStep /\ \A m \in Messages : cancelRequested[m] => cancelRequested'[m]
  BY TableSteps, FlagsStay DEF Inductive
<1>2. TypeOK' /\ Locals' /\ KeysAnswered'
  BY TypesStep, LocalsStep, KeysStep DEF Inductive
<1>3. Ordered' /\ OnceAccepted' /\ RunsTell' /\ AlertsTell'
  BY <1>1, OrderedStep, OnceAcceptedStep, RunsTellStep, AlertsTellStep DEF Inductive
<1>4. Exchange' /\ Holds' /\ Recovers' /\ Inserts'
  BY ExchangeStep, HoldsStep, InsertsStep
<1> QED BY <1>2, <1>3, <1>4 DEF Inductive

\* The invariant holds in every state of the queue, however many dispatchers and
\* operators act on it, die and fail to store results.
THEOREM InductiveQueue == Spec => []Inductive
<1>1. Inductive /\ [Next]_vars => Inductive'
  BY InductiveStep, InductiveStutter
<1> QED BY InductiveInit, <1>1, PTL DEF Spec

\* What a run and its handoff say of a message is what its attempts know, through
\* cancellation, retries, recovery and failed commits (finish, retry and
\* cancel_pending_for_run keep the three tables together).
THEOREM RunsTellOfMail == Spec => []RunTellsOfMail
<1>1. Inductive => RunTellsOfMail
  BY DEF Inductive, RunsTell, RunTells, RunTellsOfMail
<1> QED BY <1>1, InductiveQueue, PTL

\* A request key has one effect, however often its request is repeated
\* (SmtpQueue.retry and smtp_retry_requests).
THEOREM KeysActOnce == Spec => []RequestOnce
<1>1. Inductive => RequestOnce
  BY DEF Inductive, KeysAnswered, RequestOnce
<1> QED BY <1>1, InductiveQueue, PTL

\* A stored result stands: whoever finishes, recovers or cancels an attempt later
\* changes nothing (finish asks for status = 'sending' in its transaction).
THEOREM ResultsStand == Spec => ResultIsFinal
<1>1. ASSUME Inductive, TableStep PROVE ResultStep
  <2> SUFFICES ASSUME NEW i \in Jobs, Status(i) \in Results PROVE row'[i] = row[i]
    BY DEF ResultStep
  <2>0. Status(i) \notin {"none", "queued", "sending"}
    BY DEF Results
  <2>1. CASE UNCHANGED tables
    BY <2>1 DEF tables
  <2>2. CASE Progresses
    BY <2>2 DEF Progresses
  <2>3. ASSUME NEW j \in Jobs, Queues(j) PROVE row'[i] = row[i]
    BY <2>0, <2>3 DEF Queues, Others, Appears
  <2>4. ASSUME NEW j \in Jobs, NEW r \in Results, Settles(j, r) PROVE row'[i] = row[i]
    BY <2>0, <2>4 DEF Settles, Others
  <2>5. ASSUME NEW j \in Jobs, Resumes(j) PROVE row'[i] = row[i]
    <3>1. Status(Next1(j)) = "none" /\ Status(j) = "sending"
      BY <1>1, <2>5, PriorExists DEF Resumes, Pending, Inductive
    <3> QED BY <2>0, <2>5, <3>1 DEF Resumes
  <2>6. ASSUME NEW j \in Jobs, NEW c \in BOOLEAN, Reissues(j, c) PROVE row'[i] = row[i]
    BY <2>0, <2>6 DEF Reissues, Others, Appears
  <2>7. ASSUME NEW m \in Messages, Cancels(m) PROVE row'[i] = row[i]
    BY <2>0, <2>7 DEF Cancels
  <2>8. ASSUME NEW m \in Messages, RunMoves(m) PROVE row'[i] = row[i]
    BY <2>8 DEF RunMoves
  <2> QED BY <1>1, <2>1, <2>2, <2>3, <2>4, <2>5, <2>6, <2>7, <2>8 DEF TableStep, Turns
<1>2. ASSUME Inductive, [Next]_vars PROVE [ResultStep]_vars
  BY <1>1, <1>2, TableSteps
<1> QED BY <1>2, InductiveQueue, PTL DEF Spec, ResultIsFinal

-----------------------------------------------------------------------------
(* Recovery, when no dispatcher can die while another one is at work.        *)

\* While an attempt is being sent, it loses its owner only by death, and its data
\* phase begins under its owner.
Sent(i) ==
    /\ \/ row'[i].owner = row[i].owner
       \/ row[i].owner \in Mortal /\ row'[i].owner = Nobody
    /\ \/ row'[i].phase = row[i].phase
       \/ \E p \in Dispatchers : /\ pc[p] = "connect" /\ pc'[p] = "body"
                                 /\ row[i].owner = p /\ row'[i].owner = p

\* A row that stays in sending loses its owner only by a crash, and enters DATA
\* only by its owner.
LEMMA SentStep ==
    ASSUME Inductive, Next, NEW i \in Jobs, Status(i) = "sending", row'[i].status = "sending"
    PROVE  Sent(i)
<1> USE DEF Inductive
<1>1. CASE row'[i] = row[i]
  BY <1>1 DEF Sent
<1>2. ASSUME Turns PROVE row'[i] = row[i]
  <2>1. \A r \in Results : ~Closes(i, r)
    BY DEF Closes, Results
  <2> QED BY <1>2, <2>1, PriorExists DEF Turns, Queues, Settles, Resumes, Reissues, Cancels, RunMoves,
             Others, Appears, Pending, Results
<1>3. ASSUME NEW p \in Processes, Claim(p) PROVE row'[i] = row[i]
  BY <1>3, ClaimDoes DEF Others
<1>4. ASSUME NEW p \in Processes, StartData(p) PROVE Sent(i)
  <2>1. CASE row'[i] # row[i]
    <3>1. job[p] = i /\ row'[i].owner = row[i].owner /\ row' # row
      BY <1>4, <2>1, StartDataDoes DEF Others
    <3>2. pc[p] = "connect" /\ p \in Dispatchers /\ row[i].owner = p
      BY <1>4, <3>1 DEF StartData, At, Locals, LocalsOf, Dispatching, Holds, HoldsOf, Holding
    <3>3. pc'[p] = "body"
      BY <1>4, <3>1 DEF StartData, Goto, TypeOK
    <3> QED BY <3>1, <3>2, <3>3 DEF Sent
  <2> QED BY <1>1, <2>1
<1>5. ASSUME NEW p \in Processes, Crash(p) PROVE Sent(i)
  <2>1. Reminds(i) /\ row'[i].owner = (IF row[i].owner = p THEN Nobody ELSE row[i].owner)
        /\ p \in Mortal
    BY <1>5, CrashDoes DEF Crash
  <2> QED BY <2>1 DEF Sent, Reminds
<1>6. ASSUME Reminds(i), row'[i].owner = row[i].owner PROVE Sent(i)
  BY <1>6 DEF Sent, Reminds
<1>7. ASSUME NEW p \in Processes, Expedite(p) PROVE Sent(i)
  BY <1>6, <1>7, ExpediteDoes
<1>8. ASSUME NEW j \in Jobs, DueArrives(j) \/ ExpiryPasses(j) PROVE Sent(i)
  BY <1>6, <1>8, TimePasses
<1>9. ASSUME NEW p \in Processes, Enqueue(p) PROVE Sent(i)
  BY <1>1, <1>2, <1>9, EnqueueDoes DEF Turns, Queues, tables
<1>10. ASSUME NEW p \in Processes, Finish(p) PROVE Sent(i)
  <2>1. Turns
    BY <1>10, FinishDoes DEF Turns, Settles, Resumes
  <2> QED BY <1>1, <1>2, <2>1
<1>11. ASSUME NEW p \in Processes, CancelPending(p) PROVE Sent(i)
  BY <1>1, <1>2, <1>11, CancelPendingDoes DEF Turns, Cancels, tables
<1>12. ASSUME NEW p \in Processes, Retry(p) PROVE Sent(i)
  BY <1>1, <1>2, <1>12, RetryDoes DEF Turns, Reissues
<1>13. ASSUME NEW m \in Messages, EnqueueTest(m) PROVE Sent(i)
  BY <1>1, <1>2, <1>13, EnqueueTestDoes DEF Turns, Queues
<1>14. CASE UNCHANGED row
  BY <1>1, <1>14
<1>15. ASSUME NEW p \in Processes,
              ClaimRefused(p) \/ ConnectFails(p) \/ ConnectionVerified(p) \/ SendBody(p)
              \/ ReadReply(p) \/ ExchangeBreaks(p) \/ FinishLost(p) \/ FinishFails(p)
              \/ RecoverProbe(p) \/ RequestCancel(p) \/ RetryEnds(p) \/ Poll(p) \/ Command(p)
       PROVE  UNCHANGED row
  BY <1>15 DEF ClaimRefused, ConnectFails, ConnectionVerified, SendBody, ReadReply, ExchangeBreaks,
     FinishLost, FinishFails, RecoverProbe, RequestCancel, RetryEnds, Poll, Command, Prepare,
     RecoverRead, EnqueueCheck, CancelRead, RetryRead
<1>16. ASSUME NEW m \in Messages, CreateRun(m) \/ EndRun(m) \/ PublishAlert(m) PROVE UNCHANGED row
  BY <1>16 DEF CreateRun, EndRun, PublishAlert
<1>17. ASSUME (\E j \in Jobs : ServerDecides(j)) \/ EditSettings PROVE UNCHANGED row
  BY <1>17 DEF ServerDecides, EditSettings
<1> QED
  BY <1>1, <1>3, <1>4, <1>5, <1>7, <1>8, <1>9, <1>10, <1>11, <1>12, <1>13, <1>14, <1>15, <1>16,
     <1>17 DEF Next, Proceed

\* A prober that read the phase before DATA meets a live owner, or a closed row.
LEMMA FateOthers ==
    ASSUME Inductive, Next, NoDeadPeer, NEW q \in Processes, pc[q] \in Recovering, FateOf(q),
           pc'[q] = pc[q], job'[q] = job[q], outcome'[q] = outcome[q]
    PROVE  FateOf(q)'
<1> USE DEF Inductive
<1>1. PICK i \in Jobs : i = job[q]
  BY DEF Locals, LocalsOf, Recovering
<1>2. q \in Dispatchers
  BY DEF Locals, LocalsOf, Recovering, Dispatching
<1>3. SUFFICES ASSUME row'[i].status = "sending", row'[i].phase = "data_started", outcome[q] = "failed"
               PROVE  (pc[q] = "probe" => row'[i].owner \in Dispatchers \ Mortal) /\ pc[q] # "recover"
  BY <1>1 DEF FateOf, Status
<1>4. RecoversOf(q) /\ Ages(i)
  BY ExchangeStep DEF Recovers
<1>5. Status(i) = "sending"
  BY <1>1, <1>3, <1>4 DEF RecoversOf, Ages
<1>6. Sent(i)
  BY <1>3, <1>5, SentStep
<1>7. CASE row[i].phase = "data_started"
  <2>1. (pc[q] = "probe" => row[i].owner \in Dispatchers \ Mortal) /\ pc[q] # "recover"
    BY <1>1, <1>3, <1>5, <1>7 DEF FateOf
  <2> QED BY <1>6, <2>1 DEF Sent
<1>8. CASE row[i].phase # "data_started"
  <2>1. PICK p \in Dispatchers : pc[p] = "connect" /\ pc'[p] = "body"
                                 /\ row[i].owner = p /\ row'[i].owner = p
    BY <1>3, <1>6, <1>8 DEF Sent
  <2>2. p # q
    BY <2>1 DEF Recovering
  <2>3. p \notin Mortal
    BY <1>2, <2>1, <2>2 DEF NoDeadPeer
  <2>4. pc[q] # "recover"
    BY <1>1, <1>4, <1>5, <2>1, ProcessAssumption DEF RecoversOf, Recovering, Processes
  <2> QED BY <2>1, <2>3, <2>4
<1> QED BY <1>7, <1>8

\* A process that begins to recover a row found its phase and its owner as FateOf
\* says.
LEMMA FateOwn ==
    ASSUME Inductive, NEW p \in Processes, Proceed(p) \/ Poll(p) \/ Command(p) \/ Crash(p),
           pc[p] \in Recovering => FateOf(p)
    PROVE  pc'[p] \in Recovering => FateOf(p)'
<1> USE DEF Inductive
<1>0. pc \in [Processes -> Labels] /\ job \in [Processes -> Jobs \cup {NoJob}]
      /\ outcome \in [Processes -> Results]
  BY DEF TypeOK
<1>1. CASE RecoverProbe(p)
  <2>1. CASE Return(p)
    BY <1>0, <2>1 DEF Return, Goto, Recovering
  <2>2. CASE Status(job[p]) = "sending" /\ row[job[p]].owner = Nobody /\ UNCHANGED locals /\ Goto(p, "recover")
    <3>1. row' = row /\ job'[p] = job[p] /\ outcome'[p] = outcome[p] /\ pc[p] = "probe"
      BY <1>1, <2>2 DEF RecoverProbe, At, locals
    <3>2. ~(row[job[p]].phase = "data_started" /\ outcome[p] = "failed")
      BY <2>2, <3>1, ProcessAssumption DEF FateOf, Recovering, Processes
    <3> QED BY <3>1, <3>2 DEF FateOf, Status
  <2> QED BY <1>1, <2>1, <2>2 DEF RecoverProbe
<1>2. ASSUME NEW j \in Jobs, RecoverRead(p, j) PROVE FateOf(p)'
  <2>1. row' = row /\ job'[p] = j
        /\ outcome'[p] = IF row[j].phase = "data_started" THEN "uncertain" ELSE "failed"
    BY <1>0, <1>2 DEF RecoverRead, Take, Goto
  <2> QED BY <2>1 DEF FateOf
<1>3. ASSUME Return(p) \/ \E r \in Results, b \in BOOLEAN : Conclude(p, r, b)
      PROVE  pc'[p] \notin Recovering
  BY <1>0, <1>3 DEF Return, Conclude, Goto, Recovering
<1>4. ASSUME NEW l \in Labels \ Recovering, Goto(p, l) PROVE pc'[p] \notin Recovering
  BY <1>0, <1>4 DEF Goto
<1>5. ASSUME Proceed(p) \/ Crash(p), ~RecoverProbe(p) PROVE pc'[p] \notin Recovering
  BY <1>3, <1>4, <1>5 DEF Proceed, Enqueue, Claim, ClaimRefused, ConnectFails, ConnectionVerified,
     StartData, SendBody, ReadReply, ExchangeBreaks, Finish, FinishLost, FinishFails,
     RequestCancel, CancelPending, Expedite, Retry, RetryEnds, Crash, Labels, Results, Recovering
<1>6. ASSUME Command(p) \/ (\E j \in Jobs : Prepare(p, j)) \/ \E m \in Messages : EnqueueCheck(p, m)
      PROVE  pc'[p] \notin Recovering
  BY <1>4, <1>6 DEF Command, Prepare, EnqueueCheck, CancelRead, RetryRead, Take, Labels, Recovering
<1> QED BY <1>1, <1>2, <1>5, <1>6 DEF Poll

\* Without a dead peer, what a recovery has read of its row stays so.
LEMMA FateStep ==
    ASSUME Inductive, Next, NoDeadPeer, \A q \in Processes : pc[q] \in Recovering => FateOf(q)
    PROVE  \A q \in Processes : pc'[q] \in Recovering => FateOf(q)'
<1> USE DEF Inductive
<1>1. ASSUME NEW q \in Processes, pc'[q] = pc[q], job'[q] = job[q], outcome'[q] = outcome[q]
      PROVE  pc'[q] \in Recovering => FateOf(q)'
  BY <1>1, FateOthers
<1>2. ASSUME NEW p \in Processes, Proceed(p) \/ Poll(p) \/ Command(p) \/ Crash(p)
      PROVE  \A q \in Processes : pc'[q] \in Recovering => FateOf(q)'
  BY <1>1, <1>2, FateOwn, ProcessLocals DEF Elsewhere
<1>3. CASE UNCHANGED <<pc, locals>>
  BY <1>1, <1>3 DEF locals
<1>4. ASSUME NEW m \in Messages, CreateRun(m) \/ EndRun(m) \/ PublishAlert(m) \/ EnqueueTest(m)
      PROVE  UNCHANGED <<pc, locals>>
  BY <1>4 DEF CreateRun, EndRun, PublishAlert, EnqueueTest
<1>5. ASSUME NEW j \in Jobs, ServerDecides(j) \/ DueArrives(j) \/ ExpiryPasses(j)
      PROVE  UNCHANGED <<pc, locals>>
  BY <1>5 DEF ServerDecides, DueArrives, ExpiryPasses
<1>6. EditSettings => UNCHANGED <<pc, locals>>
  BY DEF EditSettings
<1> QED BY <1>2, <1>3, <1>4, <1>5, <1>6 DEF Next

\* finish does not store "failed" for an attempt whose body may be delivered, ...
LEMMA FinishedUnsent ==
    ASSUME Inductive, \A q \in Processes : pc[q] \in Recovering => FateOf(q),
           NEW p \in Processes, Finish(p), outcome[p] = "failed"
    PROVE  ~Possible(job[p])
<1> USE DEF Inductive
<1>1. job[p] \in Jobs /\ Status(job[p]) = "sending" /\ pc[p] \in {"finish", "finish_again", "close", "recover"}
  BY DEF Finish, Held, Storing, Locals, LocalsOf
<1>2. row[job[p]].phase = "prepared" \/ server[job[p]] = "rejected"
  <2>1. row[job[p]] \in Row /\ LocalsOf(p) /\ HoldsOf(p) /\ ExchangeOf(job[p])
    BY <1>1 DEF TypeOK, Locals, Holds, Exchange
  <2>2. row[job[p]].phase \in {"prepared", "data_started"}
    BY <1>1, <2>1 DEF Row, ExchangeOf, Results
  <2>3. pc[p] = "recover" => row[job[p]].phase # "data_started"
    BY <1>1 DEF FateOf, Recovering
  <2> QED BY <1>1, <2>1, <2>2, <2>3 DEF LocalsOf, HoldsOf, Holding
<1> QED BY <1>1, <1>2 DEF Exchange, ExchangeOf, Possible

\* ... nor does a cancellation: what it closes was queued.
LEMMA NewlyFailed ==
    ASSUME Inductive, Next, \A q \in Processes : pc[q] \in Recovering => FateOf(q),
           NEW i \in Jobs, Status(i) # "failed", row'[i].status = "failed"
    PROVE  ~Possible(i)
<1> USE DEF Inductive
<1>0. ASSUME Status(i) \in {"none", "queued"} PROVE ~Possible(i)
  BY <1>0 DEF Exchange, ExchangeOf, Possible
<1>1. ASSUME NEW p \in Processes, Finish(p) PROVE ~Possible(i)
  <2>1. CASE i = job[p]
    <3>1. outcome[p] = "failed"
      BY <1>1, <2>1, FinishDoes DEF Settles, Closes
    <3> QED BY <1>1, <2>1, <3>1, FinishedUnsent
  <2>2. CASE i # job[p]
    <3>1. CASE Settles(job[p], outcome[p])
      BY <2>2, <3>1 DEF Settles, Others, Status
    <3>2. CASE Resumes(job[p])
      <4>1. i # Next1(job[p])
        BY <3>2 DEF Resumes
      <4> QED BY <2>2, <3>2, <4>1 DEF Resumes, Status
    <3> QED BY <1>1, <3>1, <3>2, FinishDoes
  <2> QED BY <2>1, <2>2
<1>2. ASSUME NEW m \in Messages, Cancels(m) PROVE ~Possible(i)
  BY <1>0, <1>2 DEF Cancels, Status
<1>3. CASE Progresses
  <2>1. Status(i) \in Statuses
    BY DEF TypeOK, Row, Status
  <2> QED BY <1>3, <2>1 DEF Progresses, Statuses, Status
<1>4. ASSUME NEW j \in Jobs, Queues(j) PROVE FALSE
  BY <1>4 DEF Queues, Others, Appears, Status
<1>5. ASSUME NEW j \in Jobs, NEW c \in BOOLEAN, Reissues(j, c) PROVE FALSE
  BY <1>5 DEF Reissues, Others, Appears, Status
<1>6. ASSUME NEW p \in Processes, Proceed(p) PROVE ~Possible(i)
  <2>1. CASE Enqueue(p)
    BY <1>4, <2>1, EnqueueDoes DEF Queues, tables, Status
  <2>2. CASE Claim(p)
    BY <1>3, <2>2, ClaimDoes
  <2>3. CASE StartData(p)
    BY <1>3, <2>3, StartDataDoes DEF Status
  <2>4. CASE CancelPending(p)
    BY <1>2, <2>4, CancelPendingDoes DEF Cancels, tables, Status
  <2>5. CASE Expedite(p)
    BY <2>5, ExpediteDoes DEF Reminds, Status
  <2>6. CASE Retry(p)
    BY <1>5, <2>6, RetryDoes DEF Reissues
  <2>7. CASE UNCHANGED row
    BY <2>7 DEF Status
  <2>8. ASSUME ClaimRefused(p) \/ ConnectFails(p) \/ ConnectionVerified(p) \/ SendBody(p)
               \/ ReadReply(p) \/ ExchangeBreaks(p) \/ FinishLost(p) \/ FinishFails(p)
               \/ RecoverProbe(p) \/ RequestCancel(p) \/ RetryEnds(p)
        PROVE  UNCHANGED row
    BY <2>8 DEF ClaimRefused, ConnectFails, ConnectionVerified, SendBody, ReadReply, ExchangeBreaks,
       FinishLost, FinishFails, RecoverProbe, RequestCancel, RetryEnds
  <2> QED BY <1>1, <1>6, <2>1, <2>2, <2>3, <2>4, <2>5, <2>6, <2>7, <2>8 DEF Proceed
<1>7. ASSUME NEW p \in Processes, Crash(p) PROVE FALSE
  BY <1>7, CrashDoes DEF Reminds, Status
<1>8. ASSUME NEW m \in Messages, EnqueueTest(m) PROVE FALSE
  BY <1>4, <1>8, EnqueueTestDoes DEF Queues
<1>9. ASSUME NEW j \in Jobs, DueArrives(j) \/ ExpiryPasses(j) PROVE FALSE
  BY <1>9, TimePasses DEF Reminds, Status
<1>10. ASSUME NEW p \in Processes, Poll(p) \/ Command(p) PROVE UNCHANGED row
  BY <1>10 DEF Poll, Command, Prepare, RecoverRead, EnqueueCheck, CancelRead, RetryRead
<1>11. ASSUME NEW m \in Messages, CreateRun(m) \/ EndRun(m) \/ PublishAlert(m) PROVE UNCHANGED row
  BY <1>11 DEF CreateRun, EndRun, PublishAlert
<1>12. ASSUME (\E j \in Jobs : ServerDecides(j)) \/ EditSettings PROVE UNCHANGED row
  BY <1>12 DEF ServerDecides, EditSettings
<1>13. CASE UNCHANGED row
  BY <1>13 DEF Status
<1> QED BY <1>6, <1>7, <1>8, <1>9, <1>10, <1>11, <1>12, <1>13 DEF Next

\* The server hears of an attempt from its owner only, and forgets none.
LEMMA ServerStep ==
    ASSUME Inductive, Next
    PROVE  \/ UNCHANGED server
           \/ \E p \in Processes, j \in Jobs :
                 /\ SendBody(p) /\ j = job[p] /\ row' = row
                 /\ Status(j) = "sending" /\ row[j].phase = "data_started" /\ server[j] = "none"
                 /\ server' = [server EXCEPT ![j] = "receiving"]
           \/ \E j \in Jobs : ServerDecides(j)
<1> USE DEF Inductive
<1>1. ASSUME NEW p \in Processes, SendBody(p)
      PROVE  \E j \in Jobs :
                 /\ SendBody(p) /\ j = job[p] /\ row' = row
                 /\ Status(j) = "sending" /\ row[j].phase = "data_started" /\ server[j] = "none"
                 /\ server' = [server EXCEPT ![j] = "receiving"]
  BY <1>1 DEF SendBody, At, Locals, LocalsOf, Holds, HoldsOf, Holding
<1>2. ASSUME NEW p \in Processes, Proceed(p), ~SendBody(p) PROVE UNCHANGED server
  BY <1>2 DEF Proceed, Enqueue, Claim, ClaimRefused, ConnectFails, ConnectionVerified,
     StartData, ReadReply, ExchangeBreaks, Finish, FinishLost, FinishFails,
     RecoverProbe, RequestCancel, CancelPending, Expedite, Retry, RetryEnds
<1>3. ASSUME NEW p \in Processes, Poll(p) \/ Command(p) \/ Crash(p) PROVE UNCHANGED server
  BY <1>3 DEF Poll, Command, Crash, Prepare, RecoverRead, EnqueueCheck, CancelRead, RetryRead
<1>4. ASSUME NEW m \in Messages, CreateRun(m) \/ EndRun(m) \/ PublishAlert(m) \/ EnqueueTest(m)
      PROVE  UNCHANGED server
  BY <1>4 DEF CreateRun, EndRun, PublishAlert, EnqueueTest
<1>5. ASSUME NEW j \in Jobs, DueArrives(j) \/ ExpiryPasses(j) PROVE UNCHANGED server
  BY <1>5 DEF DueArrives, ExpiryPasses
<1>6. EditSettings => UNCHANGED server
  BY DEF EditSettings
<1> QED BY <1>1, <1>2, <1>3, <1>4, <1>5, <1>6 DEF Next

\* A message called not delivered is not with a server.
LEMMA FailedStep ==
    ASSUME Inductive, Next, Fates
    PROVE  FailedWasNotSent'
<1> USE DEF Inductive
<1> SUFFICES ASSUME NEW i \in Jobs, row'[i].status = "failed" PROVE ~Possible(i)'
  BY DEF FailedWasNotSent, Status
<1>1. ~Possible(i)
  BY NewlyFailed DEF Fates, FailedWasNotSent
<1>2. CASE UNCHANGED server
  BY <1>1, <1>2 DEF Possible
<1>3. ASSUME NEW p \in Processes, NEW j \in Jobs, row' = row, Status(j) = "sending",
             server' = [server EXCEPT ![j] = "receiving"]
      PROVE  ~Possible(i)'
  <2>1. i # j
    BY <1>3 DEF Status
  <2> QED BY <1>1, <1>3, <2>1 DEF Possible, TypeOK
<1>4. ASSUME NEW j \in Jobs, ServerDecides(j) PROVE ~Possible(i)'
  <2>1. i # j
    BY <1>1, <1>4 DEF ServerDecides, Possible
  <2> QED BY <1>1, <1>4, <2>1 DEF Possible, ServerDecides, TypeOK
<1> QED BY <1>2, <1>3, <1>4, ServerStep

\* What may be delivered is being sent, uncertain or accepted.
LEMMA PossibleStatus ==
    ASSUME Inductive, FailedWasNotSent, NEW i \in Jobs, Possible(i)
    PROVE  Status(i) \in {"sending", "uncertain", "smtp_accepted"}
<1>1. Status(i) \in Statuses /\ ExchangeOf(i)
  BY DEF Inductive, TypeOK, Row, Status, Exchange
<1> QED BY <1>1 DEF ExchangeOf, Possible, FailedWasNotSent, Statuses, Results

\* A second copy is with the server only by consent.
LEMMA CopiesStep ==
    ASSUME Inductive, Next, Fates
    PROVE  CopiesConsented'
<1> USE DEF Inductive
<1> SUFFICES ASSUME NEW i \in Jobs, NEW j \in Jobs, i[1] = j[1], i # j, Pending(j)', Possible(i)'
             PROVE  row'[j].consent
  BY DEF CopiesConsented
<1>0. TableStep /\ FailedWasNotSent /\ CopiesConsented
  BY TableSteps DEF Fates
<1>1. CASE Pending(j)
  <2>1. Possible(i)
    <3>1. CASE UNCHANGED server
      BY <3>1 DEF Possible
    <3>2. ASSUME NEW k \in Jobs, Status(k) = "sending", server' = [server EXCEPT ![k] = "receiving"]
          PROVE  Possible(i)
      <4>1. i # k
        BY <1>1, <3>2, OnePending DEF Pending
      <4> QED BY <3>2, <4>1 DEF Possible, TypeOK
    <3>3. ASSUME NEW k \in Jobs, ServerDecides(k) PROVE Possible(i)
      BY <3>3 DEF Possible, ServerDecides, TypeOK
    <3> QED BY <3>1, <3>2, <3>3, ServerStep
  <2>2. row[j].consent
    BY <1>0, <1>1, <2>1 DEF CopiesConsented
  <2>3. row'[j].consent = row[j].consent
    <3>1. CASE UNCHANGED tables
      BY <3>1 DEF tables
    <3>2. CASE Progresses
      BY <3>2 DEF Progresses
    <3>3. CASE Turns
      BY <1>1, <3>3, PriorExists DEF Turns, Queues, Settles, Resumes, Reissues, Cancels, RunMoves,
         Others, Appears, Closes, Pending
    <3> QED BY <1>0, <3>1, <3>2, <3>3 DEF TableStep
  <2> QED BY <2>2, <2>3
<1>2. CASE ~Pending(j)
  <2>1. row'[j] # row[j]
    BY <1>2 DEF Pending, Status
  <2>2. ~Progresses
    BY <1>2, <2>1 DEF Progresses, Pending, Status, TypeOK, Row, Statuses
  <2>3. Turns /\ UNCHANGED server
    BY <1>0, <2>1, <2>2 DEF TableStep, tables, Turns, Queues, Settles, Resumes, Reissues, Cancels, RunMoves
  <2>4. Possible(i) /\ Status(i) \in {"sending", "uncertain", "smtp_accepted"}
    BY <1>0, <2>3, PossibleStatus DEF Possible
  <2>5. ASSUME NEW k \in Jobs, Queues(k) PROVE FALSE
    <3>1. j = k
      BY <2>1, <2>5 DEF Queues, Others
    <3>2. Status(i) = "none"
      BY <2>5, <3>1, FirstIsFirst DEF Queues, Appears
    <3> QED BY <2>4, <3>2
  <2>6. ASSUME NEW k \in Jobs, Resumes(k) PROVE FALSE
    <3>1. j = Next1(k) /\ k[1] = i[1]
      BY <2>1, <2>6, NextJob DEF Resumes, Closes, Pending, Status
    <3>2. Status(i) # "smtp_accepted"
      BY <2>6, <3>1 DEF Resumes, Some, Attempts
    <3>3. CASE i = k
      BY <2>4, <2>6, <3>3 DEF Resumes, Exchange, ExchangeOf, Possible
    <3>4. CASE i # k
      <4>1. ~Pending(i)
        BY <2>6, <3>1, <3>4, OnePending DEF Resumes, Pending
      <4>2. Status(i) # "uncertain"
        BY <2>6, <3>1, <3>4 DEF Resumes, PriorUncertain, Attempts
      <4> QED BY <2>4, <3>2, <4>1, <4>2 DEF Pending
    <3> QED BY <3>3, <3>4
  <2>7. ASSUME NEW k \in Jobs, NEW c \in BOOLEAN, Reissues(k, c) PROVE row'[j].consent
    <3>1. j = Next1(k) /\ k[1] = i[1] /\ row'[j].consent = c
      BY <2>1, <2>7, NextJob DEF Reissues, Others, Appears
    <3>2. Status(i) \notin {"queued", "sending", "smtp_accepted"}
      BY <2>4, <2>7, <3>1 DEF Reissues, Insertable, Attempts
    <3>3. Some(k[1], "uncertain")
      BY <2>4, <3>1, <3>2 DEF Some, Attempts
    <3> QED BY <2>7, <3>1, <3>3 DEF Reissues
  <2>8. ASSUME NEW k \in Jobs, NEW r \in Results, Settles(k, r) PROVE FALSE
    BY <2>1, <2>8 DEF Settles, Others, Closes, Pending, Status, Results
  <2>9. ASSUME NEW m \in Messages, Cancels(m) \/ RunMoves(m) PROVE FALSE
    BY <2>1, <2>9 DEF Cancels, RunMoves, Closes, Pending, Status
  <2> QED BY <2>3, <2>5, <2>6, <2>7, <2>8, <2>9 DEF Turns
<1> QED BY <1>1, <1>2

\* Fates is kept, without a dead peer.
LEMMA FatesStep ==
    ASSUME Inductive, Fates, NoDeadPeer, [Next]_vars
    PROVE  Fates'
<1>1. CASE Next
  <2>1. \A q \in Processes : pc'[q] \in Recovering => FateOf(q)'
    BY <1>1, FateStep DEF Fates
  <2>2. FailedWasNotSent' /\ CopiesConsented'
    BY <1>1, FailedStep, CopiesStep
  <2> QED BY <2>1, <2>2 DEF Fates
<1>2. CASE UNCHANGED vars
  BY <1>2 DEF Fates, FateOf, FailedWasNotSent, CopiesConsented, Pending, Possible, Status, vars, locals
<1> QED BY <1>1, <1>2

\* The first state satisfies Fates.
LEMMA FatesInit == Init => Fates
<1> SUFFICES ASSUME Init PROVE Fates
  OBVIOUS
<1>1. \A j \in Jobs : Status(j) = "none" /\ server[j] = "none"
  BY NoRowRow DEF Init, Status
<1> QED BY <1>1 DEF Init, Fates, Recovering, FailedWasNotSent, CopiesConsented, Pending

\* An attempt recorded as failed was not, and will not be, delivered, provided no
\* dispatcher can die while there is another one (the run "probe" shows what happens
\* otherwise): recover_interrupted probes the owner of the row it read.
THEOREM RecoveryIsTruthful == ASSUME NoDeadPeer PROVE Spec => []PostDataIsUncertain
<1>1. Init => Inductive /\ Fates
  BY InductiveInit, FatesInit
<1>2. Inductive /\ Fates /\ [Next]_vars => (Inductive /\ Fates)'
  BY InductiveStep, InductiveStutter, FatesStep
<1>3. Inductive /\ Fates => PostDataIsUncertain
  BY DEF Fates, PostDataIsUncertain
<1> QED BY <1>1, <1>2, <1>3, PTL DEF Spec

-----------------------------------------------------------------------------
(* The queue implements MailDelivery.                                        *)

\* Steps of MailDelivery, message by message.
Same(m) ==
    /\ Copies(m)' = Copies(m) /\ Arrived(m)' = Arrived(m)
    /\ Consented(m)' = Consented(m) /\ Verdict(m)' = Verdict(m)

\* A step that leaves every message the same is no step of MailDelivery.
LEMMA MailStutters ==
    ASSUME \A m \in Messages : Same(m)
    PROVE  UNCHANGED Mail!mailVars
  BY DEF Same, Mail!mailVars

\* A copy that is handed over is a submission.
LEMMA MailSubmits ==
    ASSUME NEW m \in Messages, NEW n \in Numbers, \A c \in Messages \ {m} : Same(c),
           Verdict(m) = "pending", n \notin Copies(m), Copies(m) = {} \/ n \in Consented(m),
           Copies(m)' = Copies(m) \cup {n}, Arrived(m)' = Arrived(m),
           Consented(m)' = Consented(m), Verdict(m)' = Verdict(m)
    PROVE  Mail!MailNext
<1>1. Mail!Submit(m, n)
  BY DEF Mail!Submit, Same
<1> QED BY <1>1 DEF Mail!MailNext

\* A copy the server accepts arrives.
LEMMA MailArrives ==
    ASSUME NEW m \in Messages, NEW n \in Numbers, \A c \in Messages \ {m} : Same(c),
           n \in Copies(m), Arrived(m)' = Arrived(m) \cup {n}, Copies(m)' = Copies(m),
           Consented(m)' = Consented(m), Verdict(m)' = Verdict(m)
    PROVE  Mail!MailNext
<1>1. Mail!Arrive(m, n)
  BY DEF Mail!Arrive, Same
<1> QED BY <1>1 DEF Mail!MailNext

\* A copy the server did not accept is discarded.
LEMMA MailDiscards ==
    ASSUME NEW m \in Messages, NEW n \in Numbers, \A c \in Messages \ {m} : Same(c),
           n \in Copies(m) \ Arrived(m), Copies(m)' = Copies(m) \ {n}, Arrived(m)' = Arrived(m),
           Consented(m)' = Consented(m), Verdict(m)' = Verdict(m)
    PROVE  Mail!MailNext
<1>1. Mail!Discard(m, n)
  BY DEF Mail!Discard, Same
<1> QED BY <1>1 DEF Mail!MailNext

\* A verdict on a pending message is a report.
LEMMA MailReports ==
    ASSUME NEW m \in Messages, \A c \in Messages \ {m} : Same(c),
           Copies(m)' = Copies(m), Arrived(m)' = Arrived(m), Consented(m)' = Consented(m),
           NEW v \in {"delivered", "not_delivered", "unknown"},
           Verdict(m) = "pending", Verdict(m)' = v,
           v = "delivered" => Arrived(m) # {}, v = "not_delivered" => Copies(m) = {}
    PROVE  Mail!MailNext
<1>1. Mail!Report(m, v)
  BY DEF Mail!Report, Same
<1>2. v \in Mail!Verdicts \ {"pending"}
  BY DEF Mail!Verdicts
<1> QED BY <1>1, <1>2 DEF Mail!MailNext

\* A retry of a message with a verdict reopens it.
LEMMA MailReopens ==
    ASSUME NEW m \in Messages, NEW n \in Numbers, \A c \in Messages \ {m} : Same(c),
           Verdict(m) \in {"not_delivered", "unknown"}, Verdict(m)' = "pending",
           Copies(m)' = Copies(m), Arrived(m)' = Arrived(m),
           \/ Consented(m)' = Consented(m) \cup {n}
           \/ Copies(m) = {} /\ Consented(m)' = Consented(m)
    PROVE  Mail!MailNext
<1>1. Mail!Reopen(m, n)
  BY DEF Mail!Reopen, Same
<1> QED BY <1>1 DEF Mail!MailNext

\* The copies of a message, by its jobs.
LEMMA CopiesOf ==
    ASSUME NEW m \in Messages
    PROVE  /\ \A n : n \in Copies(m) <=> n \in Numbers /\ <<m, n>> \in Jobs /\ Possible(<<m, n>>)
           /\ \A n : n \in Arrived(m) <=> n \in Numbers /\ <<m, n>> \in Jobs /\ server[<<m, n>>] = "accepted"
           /\ \A n : n \in Consented(m) <=> n \in Numbers /\ <<m, n>> \in Jobs /\ row[<<m, n>>].consent
           /\ Copies(m) # {} => \E i \in Jobs : i[1] = m /\ Possible(i)
  BY JobParts DEF Copies, Arrived, Consented, Numbers

\* Copies are the servers' alone.
LEMMA SameCopies ==
    ASSUME UNCHANGED server, NEW m \in Messages
    PROVE  Copies(m)' = Copies(m) /\ Arrived(m)' = Arrived(m)
  BY DEF Copies, Arrived, Possible

\* Consent is the rows' alone.
LEMMA SameConsent ==
    ASSUME NEW m \in Messages, \A i \in Jobs : i[1] = m => row'[i].consent = row[i].consent
    PROVE  Consented(m)' = Consented(m)
  BY JobParts DEF Consented, Numbers

\* A verdict is read off the run, the handoff or the first row.
LEMMA SameVerdict ==
    ASSUME NEW m \in Messages, runStatus'[m] = runStatus[m], handoff'[m] = handoff[m],
           row'[First(m)].status = row[First(m)].status
    PROVE  Verdict(m)' = Verdict(m)
  BY DEF Verdict, Status, First

\* The verdicts of runs, case by case.
LEMMA RunVerdicts ==
    /\ \A s \in {"none", "running", "awaiting_receipt"} : RunVerdict[s] = "pending"
    /\ RunVerdict["succeeded"] = "delivered"
    /\ \A s \in {"failed", "cancelled"} : RunVerdict[s] = "not_delivered"
    /\ RunVerdict["needs_attention"] = "unknown"
  BY DEF RunVerdict

\* The verdicts of handoffs, case by case.
LEMMA HandoffVerdicts ==
    /\ \A s \in {"none", "published", "queued", "sending"} : HandoffVerdict[s] = "pending"
    /\ HandoffVerdict["smtp_accepted"] = "delivered"
    /\ \A s \in {"connection_ok", "failed"} : HandoffVerdict[s] = "not_delivered"
    /\ HandoffVerdict["uncertain"] = "unknown"
  BY DEF HandoffVerdict

\* Whose status is a message's verdict, by its kind.
LEMMA VerdictOf ==
    ASSUME NEW m \in Messages
    PROVE  /\ Report(m) => Verdict(m) = RunVerdict[runStatus[m]]
           /\ Kind[m] = "alert" => Verdict(m) = HandoffVerdict[handoff[m]]
           /\ ~Bound(m) => Verdict(m) = HandoffVerdict[Status(First(m))]
           /\ Report(m) \/ Kind[m] = "alert" \/ ~Bound(m)
  BY DEF Verdict, Report, Bound

\* The same of the next state.
LEMMA VerdictOfNext ==
    ASSUME NEW m \in Messages
    PROVE  /\ Report(m) => Verdict(m)' = RunVerdict[runStatus'[m]]
           /\ Kind[m] = "alert" => Verdict(m)' = HandoffVerdict[handoff'[m]]
           /\ ~Bound(m) => Verdict(m)' = HandoffVerdict[Status(First(m))']
           /\ Report(m) \/ Kind[m] = "alert" \/ ~Bound(m)
  BY DEF Verdict, Report, Bound

\* While an attempt is being sent, its message has no verdict yet.
LEMMA SendingIsPending ==
    ASSUME Inductive, NEW j \in Jobs, Pending(j), runStatus[j[1]] # "cancelled"
    PROVE  Verdict(j[1]) = "pending"
<1> DEFINE m == j[1]
<1>0. m \in Messages
  BY JobParts
<1>1. CASE Report(m)
  <2>1. RunTells(m) /\ WaitsFor(m)
    BY <1>0, <1>1, RunTellsParts DEF Inductive, RunsTell
  <2>2. runStatus[m] = "awaiting_receipt"
    BY <2>1 DEF WaitsFor
  <2> QED BY <1>0, <1>1, <2>2, VerdictOf, RunVerdicts
<1>2. CASE ~Report(m)
  <2>1. j[2] = 1
    BY <1>2, JobParts, LimitAssumption DEF Inductive, Ordered, Pending
  <2>2. j = First(m)
    BY <1>0, <2>1, FirstJob, SameJob
  <2>3. CASE Kind[m] = "alert"
    <3>1. handoff[m] = "published"
      BY <1>0, <2>2, <2>3 DEF Inductive, AlertsTell, AlertTells, Pending
    <3> QED BY <1>0, <2>3, <3>1, VerdictOf, HandoffVerdicts
  <2>4. CASE Kind[m] # "alert"
    <3>1. ~Bound(m) /\ Status(First(m)) \in {"queued", "sending"}
      BY <1>2, <2>2, <2>4 DEF Bound, Report, Pending
    <3> QED BY <1>0, <3>1, VerdictOf, HandoffVerdicts
  <2> QED BY <2>3, <2>4
<1> QED BY <1>1, <1>2

\* SendBody submits a copy.
LEMMA SubmitStep ==
    ASSUME Inductive, Fates, NEW j \in Jobs, Status(j) = "sending", row[j].phase = "data_started",
           server[j] = "none", server' = [server EXCEPT ![j] = "receiving"],
           row' = row, UNCHANGED <<runStatus, handoff>>
    PROVE  Mail!MailNext
<1> DEFINE m == j[1]
           n == j[2]
<1>0. m \in Messages /\ n \in Numbers /\ j = <<m, n>>
  BY JobParts DEF Numbers
<1>1. server'[j] = "receiving" /\ \A i \in Jobs \ {j} : server'[i] = server[i]
  BY DEF Inductive, TypeOK
<1>2. \A c \in Messages : Consented(c)' = Consented(c) /\ Verdict(c)' = Verdict(c)
  BY SameConsent, SameVerdict
<1>3. \A c \in Messages \ {m} : Same(c)
  <2> SUFFICES ASSUME NEW c \in Messages \ {m} PROVE Copies(c)' = Copies(c) /\ Arrived(c)' = Arrived(c)
    BY <1>2 DEF Same
  <2>1. \A k \in Numbers : <<c, k>> \in Jobs \ {j}
    BY JobParts DEF Numbers
  <2> QED BY <1>1, <2>1 DEF Copies, Arrived, Possible
<1>4. Verdict(m) = "pending"
  <2>1. runStatus[m] # "cancelled"
    <3>1. CASE Report(m)
      BY <1>0, <3>1 DEF Inductive, RunsTell, RunTells
    <3>2. CASE ~Report(m)
      BY <1>0, <3>2 DEF Inductive, RunsTell
    <3> QED BY <3>1, <3>2
  <2> QED BY <2>1, SendingIsPending DEF Pending
<1>5. n \notin Copies(m)
  BY <1>0 DEF Copies, Possible
<1>6. Copies(m) = {} \/ n \in Consented(m)
  <2>1. ASSUME NEW i \in Jobs, i[1] = m, Possible(i) PROVE row[j].consent
    <3>1. i # j
      BY <2>1 DEF Possible
    <3> QED BY <2>1, <3>1 DEF Fates, CopiesConsented, Pending
  <2>2. Copies(m) # {} => row[j].consent
    BY <1>0, <2>1, CopiesOf
  <2> QED BY <1>0, <2>2 DEF Consented
<1>7. Copies(m)' = Copies(m) \cup {n} /\ Arrived(m)' = Arrived(m)
  <2>1. \A k \in Numbers : <<m, k>> \in Jobs /\ (k # n => <<m, k>> # j)
    BY <1>0, JobParts DEF Numbers
  <2>2. \A k \in Numbers : k # n => (Possible(<<m, k>>)' <=> Possible(<<m, k>>))
                                    /\ server'[<<m, k>>] = server[<<m, k>>]
    BY <1>1, <2>1 DEF Possible
  <2>3. Possible(<<m, n>>)' /\ server'[<<m, n>>] # "accepted" /\ server[<<m, n>>] # "accepted"
    BY <1>0, <1>1 DEF Possible
  <2> QED BY <1>0, <2>2, <2>3 DEF Copies, Arrived
<1> QED BY <1>0, <1>2, <1>3, <1>4, <1>5, <1>6, <1>7, MailSubmits

\* The server accepts or drops what it received.
LEMMA DecideStep ==
    ASSUME Inductive, NEW j \in Jobs, server[j] = "receiving", NEW d \in {"accepted", "rejected"},
           server' = [server EXCEPT ![j] = d], row' = row, UNCHANGED <<runStatus, handoff>>
    PROVE  Mail!MailNext
<1> DEFINE m == j[1]
           n == j[2]
<1>0. m \in Messages /\ n \in Numbers /\ j = <<m, n>>
  BY JobParts DEF Numbers
<1>1. server'[j] = d /\ \A i \in Jobs \ {j} : server'[i] = server[i]
  BY DEF Inductive, TypeOK
<1>2. \A c \in Messages : Consented(c)' = Consented(c) /\ Verdict(c)' = Verdict(c)
  BY SameConsent, SameVerdict
<1>3. \A c \in Messages \ {m} : Same(c)
  <2> SUFFICES ASSUME NEW c \in Messages \ {m} PROVE Copies(c)' = Copies(c) /\ Arrived(c)' = Arrived(c)
    BY <1>2 DEF Same
  <2>1. \A k \in Numbers : <<c, k>> \in Jobs \ {j}
    BY JobParts DEF Numbers
  <2> QED BY <1>1, <2>1 DEF Copies, Arrived, Possible
<1>4. n \in Copies(m) \ Arrived(m)
  BY <1>0 DEF Copies, Arrived, Possible
<1>5. \A k \in Numbers : k # n => (Possible(<<m, k>>)' <=> Possible(<<m, k>>))
                                  /\ server'[<<m, k>>] = server[<<m, k>>]
  <2>1. \A k \in Numbers : <<m, k>> \in Jobs /\ (k # n => <<m, k>> # j)
    BY <1>0, JobParts DEF Numbers
  <2> QED BY <1>1, <2>1 DEF Possible
<1>6. CASE d = "accepted"
  <2>1. Possible(<<m, n>>)' /\ Possible(<<m, n>>) /\ server'[<<m, n>>] = "accepted"
    BY <1>0, <1>1, <1>6 DEF Possible
  <2>2. Copies(m)' = Copies(m) /\ Arrived(m)' = Arrived(m) \cup {n}
    BY <1>0, <1>5, <2>1 DEF Copies, Arrived
  <2> QED BY <1>0, <1>2, <1>3, <1>4, <2>2, MailArrives
<1>7. CASE d = "rejected"
  <2>1. ~Possible(<<m, n>>)' /\ server'[<<m, n>>] # "accepted" /\ server[<<m, n>>] # "accepted"
    BY <1>0, <1>1, <1>7 DEF Possible
  <2>2. Copies(m)' = Copies(m) \ {n} /\ Arrived(m)' = Arrived(m)
    BY <1>0, <1>5, <2>1 DEF Copies, Arrived
  <2> QED BY <1>0, <1>2, <1>3, <1>4, <2>2, MailDiscards
<1> QED BY <1>6, <1>7

\* Progress leaves every message the same.
LEMMA ProgressStep ==
    ASSUME Inductive, Progresses, UNCHANGED server
    PROVE  \A c \in Messages : Same(c)
<1> SUFFICES ASSUME NEW c \in Messages PROVE Same(c)
  OBVIOUS
<1>1. Copies(c)' = Copies(c) /\ Arrived(c)' = Arrived(c)
  BY SameCopies
<1>2. Consented(c)' = Consented(c)
  BY SameConsent DEF Progresses
<1>3. runStatus' = runStatus /\ handoff' = handoff
  BY DEF Progresses
<1>4. \/ Status(First(c))' = Status(First(c))
      \/ Status(First(c)) \in {"queued", "sending"} /\ Status(First(c))' \in {"queued", "sending"}
  <2>1. First(c) \in Jobs /\ Status(First(c)) \in Statuses
    BY FirstJob DEF Inductive, TypeOK, Row, Status
  <2> QED BY <2>1 DEF Progresses, Status, Statuses, First
<1>5. Verdict(c)' = Verdict(c)
  BY <1>3, <1>4, VerdictOf, VerdictOfNext, HandoffVerdicts
<1> QED BY <1>1, <1>2, <1>5 DEF Same

\* A queued first attempt leaves every message the same.
LEMMA QueuesStep ==
    ASSUME Inductive, NEW j \in Jobs, Queues(j)
    PROVE  \A c \in Messages : Same(c)
<1> SUFFICES ASSUME NEW c \in Messages PROVE Same(c)
  OBVIOUS
<1>1. UNCHANGED <<server, runStatus, handoff>>
  BY DEF Queues
<1>2. \A i \in Jobs : row'[i].consent = row[i].consent
  <2>1. row[j].consent = FALSE
    <3>1. row[j].consent \in BOOLEAN
      BY DEF Inductive, TypeOK, Row
    <3>2. ~row[j].consent
      BY DEF Queues, Appears, Inductive, Exchange, ExchangeOf
    <3> QED BY <3>1, <3>2
  <2>2. row'[j].consent = FALSE /\ \A i \in Jobs \ {j} : row'[i] = row[i]
    BY DEF Queues, Others, Appears
  <2> QED BY <2>1, <2>2
<1>3. \/ Status(First(c))' = Status(First(c))
      \/ Status(First(c)) = "none" /\ Status(First(c))' = "queued"
  <2>1. PICK f \in Jobs : f = First(c)
    BY FirstJob
  <2>2. Status(First(c)) = row[f].status /\ Status(First(c))' = row'[f].status
    BY <2>1 DEF First, Status
  <2>3. CASE f = j
    <3>1. Status(j) = "none" /\ row'[j].status = "queued"
      BY DEF Queues, Appears
    <3> QED BY <2>2, <2>3, <3>1 DEF Status
  <2>4. CASE f # j
    <3>1. row'[f] = row[f]
      BY <2>4 DEF Queues, Others
    <3> QED BY <2>2, <3>1
  <2> QED BY <2>3, <2>4
<1>4. Verdict(c)' = Verdict(c)
  BY <1>1, <1>3, VerdictOf, VerdictOfNext, HandoffVerdicts
<1> QED BY <1>1, <1>2, <1>4, SameCopies, SameConsent DEF Same

\* Messages that a step does not concern.
LEMMA SameElsewhere ==
    ASSUME UNCHANGED server, NEW m \in Messages, OtherMessages(m),
           \A i \in Jobs : i[1] # m => row'[i] = row[i]
    PROVE  \A c \in Messages \ {m} : Same(c)
<1> SUFFICES ASSUME NEW c \in Messages \ {m} PROVE Same(c)
  OBVIOUS
<1>1. \A i \in Jobs : i[1] = c => row'[i] = row[i]
  OBVIOUS
<1>2. First(c) \in Jobs /\ First(c)[1] = c
  BY FirstJob
<1>3. Consented(c)' = Consented(c)
  BY <1>1, SameConsent
<1>4. Verdict(c)' = Verdict(c)
  BY <1>1, <1>2, SameVerdict DEF OtherMessages
<1> QED BY <1>3, <1>4, SameCopies DEF Same

\* finish reports what its attempt and the earlier ones know.
LEMMA SettlesStep ==
    ASSUME Inductive, Fates, NEW j \in Jobs, NEW r \in Results, Settles(j, r),
           r = "failed" => ~Possible(j)
    PROVE  Mail!MailNext \/ \A c \in Messages : Same(c)
<1> DEFINE m == j[1]
<1>0. m \in Messages /\ j[2] \in Numbers /\ j = <<m, j[2]>> /\ Pending(j) /\ Status(j) = "sending"
  BY JobParts DEF Settles, Numbers, Pending
<1>1. UNCHANGED server /\ \A i \in Jobs : row'[i].consent = row[i].consent
  BY DEF Settles, Others, Closes
<1>2. Copies(m)' = Copies(m) /\ Arrived(m)' = Arrived(m) /\ Consented(m)' = Consented(m)
  BY <1>0, <1>1, SameCopies, SameConsent
<1>3. \A c \in Messages \ {m} : Same(c)
  <2>1. \A i \in Jobs : i[1] # m => row'[i] = row[i]
    BY DEF Settles, Others
  <2> QED BY <1>0, <1>1, <2>1, SameElsewhere DEF Settles
<1>4. r = "smtp_accepted" => Arrived(m) # {}
  <2>1. r = "smtp_accepted" => j[2] \in Arrived(m)
    BY <1>0 DEF Settles, Arrived
  <2> QED BY <2>1
<1>5. r \in {"failed", "connection_ok"} /\ ~PriorUncertain(j) => Copies(m) = {}
  <2> SUFFICES ASSUME r \in {"failed", "connection_ok"}, ~PriorUncertain(j),
                      NEW i \in Jobs, i[1] = m, Possible(i)
               PROVE  FALSE
    BY <1>0, CopiesOf
  <2>1. i # j
    BY DEF Settles, Inductive, Exchange, ExchangeOf, Possible
  <2>2. Status(i) \in {"sending", "uncertain", "smtp_accepted"}
    BY PossibleStatus DEF Fates
  <2>3. ~Pending(i)
    BY <1>0, <2>1, OnePending DEF Inductive
  <2>4. Status(i) # "smtp_accepted"
    BY <1>0 DEF Inductive, OnceAccepted
  <2>5. Status(i) # "uncertain"
    BY <1>0, <2>1 DEF PriorUncertain, Attempts
  <2> QED BY <2>2, <2>3, <2>4, <2>5 DEF Pending
<1>6. CASE runStatus[m] = "cancelled"
  <2>1. Report(m) /\ runStatus'[m] = runStatus[m]
    BY <1>0, <1>6 DEF Settles, Inductive, RunsTell
  <2>2. Verdict(m)' = Verdict(m)
    BY <1>0, <2>1, VerdictOf, VerdictOfNext
  <2> QED BY <1>2, <1>3, <2>2 DEF Same
<1>7. CASE runStatus[m] # "cancelled"
  <2>0. Verdict(m) = "pending"
    BY <1>0, <1>7, SendingIsPending
  <2>1. CASE Report(m)
    <3>1. runStatus[m] = "awaiting_receipt"
      <4>1. RunTells(m) /\ WaitsFor(m)
        BY <1>0, <2>1, RunTellsParts DEF Inductive, RunsTell
      <4> QED BY <1>0, <1>7, <4>1 DEF WaitsFor
    <3>2. runStatus'[m] = SettledRun(j, r) /\ r # "connection_ok"
      BY <2>1, <3>1 DEF Settles, Report
    <3>3. Verdict(m)' = RunVerdict[SettledRun(j, r)]
      BY <1>0, <2>1, <3>2, VerdictOfNext
    <3>4. CASE r = "smtp_accepted"
      <4>1. Verdict(m)' = "delivered"
        BY <3>3, <3>4, RunVerdicts DEF SettledRun
      <4> QED BY <1>0, <1>2, <1>3, <1>4, <2>0, <3>4, <4>1, MailReports
    <3>5. CASE r = "uncertain" \/ (r = "failed" /\ PriorUncertain(j))
      <4>1. SettledRun(j, r) = "needs_attention"
        BY <3>5 DEF SettledRun
      <4>2. Verdict(m)' = "unknown"
        BY <3>3, <4>1, RunVerdicts
      <4> QED BY <1>0, <1>2, <1>3, <2>0, <4>2, MailReports
    <3>6. CASE r = "failed" /\ ~PriorUncertain(j)
      <4>1. SettledRun(j, r) \in {"cancelled", "failed"}
        BY <3>6 DEF SettledRun
      <4>2. Verdict(m)' = "not_delivered"
        BY <3>3, <4>1, RunVerdicts
      <4> QED BY <1>0, <1>2, <1>3, <1>5, <2>0, <3>6, <4>2, MailReports
    <3> QED BY <3>2, <3>4, <3>5, <3>6 DEF Results
  <2>2. CASE ~Report(m)
    <3>1. j = First(m)
      <4>1. j[2] = 1
        BY <1>0, <2>2, JobParts, LimitAssumption DEF Inductive, Ordered
      <4> QED BY <1>0, <4>1, FirstJob, SameJob
    <3>2. ~PriorUncertain(j)
      <4>1. \A i \in Jobs : i[1] = m /\ i # j => i[2] > 1
        BY <1>0, <3>1, FirstJob, SameJob, JobParts, LimitAssumption
      <4>2. \A i \in Jobs : i[1] = m /\ i # j => Status(i) = "none"
        BY <1>0, <2>2, <4>1 DEF Inductive, Ordered
      <4> QED BY <1>0, <4>2 DEF PriorUncertain, Attempts
    <3>3. Verdict(m)' = HandoffVerdict[r]
      <4>1. Status(First(m))' = r
        BY <3>1 DEF Settles, Closes, Status, First
      <4>2. Kind[m] = "alert" => handoff'[m] = r
        BY <2>2 DEF Settles, Bound, SettledHandoff
      <4> QED BY <1>0, <2>2, <4>1, <4>2, VerdictOfNext
    <3>4. CASE r = "smtp_accepted"
      <4>1. Verdict(m)' = "delivered"
        BY <3>3, <3>4, HandoffVerdicts
      <4> QED BY <1>0, <1>2, <1>3, <1>4, <2>0, <3>4, <4>1, MailReports
    <3>5. CASE r = "uncertain"
      <4>1. Verdict(m)' = "unknown"
        BY <3>3, <3>5, HandoffVerdicts
      <4> QED BY <1>0, <1>2, <1>3, <2>0, <4>1, MailReports
    <3>6. CASE r \in {"failed", "connection_ok"}
      <4>1. Verdict(m)' = "not_delivered"
        BY <3>3, <3>6, HandoffVerdicts
      <4> QED BY <1>0, <1>2, <1>3, <1>5, <2>0, <3>2, <3>6, <4>1, MailReports
    <3> QED BY <3>4, <3>5, <3>6 DEF Results
  <2> QED BY <2>1, <2>2
<1> QED BY <1>6, <1>7

\* An automatic retry goes on with a message that is still undecided.
LEMMA ResumesStep ==
    ASSUME Inductive, NEW j \in Jobs, Resumes(j)
    PROVE  \A c \in Messages : Same(c)
<1> DEFINE m == j[1]
           k == Next1(j)
<1>0. m \in Messages /\ k \in Jobs /\ k[1] = m /\ k # j /\ Status(j) = "sending" /\ Report(m)
  BY JobParts, NextJob DEF Resumes
<1>1. UNCHANGED server
  BY DEF Resumes
<1>2. \A i \in Jobs : row'[i].consent = row[i].consent
  <2>1. Status(k) = "none"
    BY PriorExists DEF Resumes, Pending, Inductive
  <2>2. row[k].consent \in BOOLEAN /\ ~row[k].consent
    BY <1>0, <2>1 DEF Inductive, TypeOK, Row, Exchange, ExchangeOf
  <2>3. row'[k].consent = FALSE /\ row'[j].consent = row[j].consent
        /\ \A i \in Jobs \ {j, k} : row'[i] = row[i]
    BY DEF Resumes, Closes
  <2> HIDE DEF k
  <2> QED BY <2>2, <2>3
<1>3. \A c \in Messages \ {m} : Same(c)
  <2>1. \A i \in Jobs : i[1] # m => row'[i] = row[i]
    BY <1>0 DEF Resumes
  <2> QED BY <1>0, <1>1, <2>1, SameElsewhere DEF Resumes
<1>4. Verdict(m)' = Verdict(m)
  <2>1. runStatus[m] = "awaiting_receipt"
    <3>1. RunTells(m) /\ WaitsFor(m)
      BY <1>0, RunTellsParts DEF Inductive, RunsTell
    <3> QED BY <1>0, <3>1 DEF WaitsFor, Resumes, Pending
  <2>2. runStatus'[m] = "awaiting_receipt"
    BY DEF Resumes
  <2> QED BY <1>0, <2>1, <2>2, VerdictOf, VerdictOfNext
<1> QED BY <1>0, <1>1, <1>2, <1>3, <1>4, SameCopies, SameConsent DEF Same

\* retry reopens a message, with the acknowledgement if a copy may be out.
LEMMA ReissuesStep ==
    ASSUME Inductive, Fates, NEW j \in Jobs, NEW consent \in BOOLEAN, Reissues(j, consent)
    PROVE  Mail!MailNext
<1> DEFINE m == j[1]
           k == Next1(j)
           n == j[2] + 1
<1>0. m \in Messages /\ k \in Jobs /\ k[1] = m /\ k[2] = n /\ Report(m)
  BY JobParts, NextJob DEF Reissues
<1>1. n \in Numbers /\ k = <<m, n>>
  BY <1>0, JobParts DEF Numbers
<1>2. UNCHANGED server /\ Copies(m)' = Copies(m) /\ Arrived(m)' = Arrived(m)
  BY <1>0, SameCopies DEF Reissues
<1>3. \A c \in Messages \ {m} : Same(c)
  <2>1. \A i \in Jobs : i[1] # m => row'[i] = row[i]
    BY <1>0 DEF Reissues, Others
  <2> QED BY <1>0, <1>2, <2>1, SameElsewhere DEF Reissues
<1>4. Verdict(m) \in {"not_delivered", "unknown"} /\ Verdict(m)' = "pending"
  <2>1. runStatus[m] \in {"failed", "needs_attention"} /\ runStatus'[m] = "awaiting_receipt"
    BY DEF Reissues, Insertable
  <2> QED BY <1>0, <2>1, VerdictOf, VerdictOfNext, RunVerdicts
<1>5. Status(k) = "none" /\ row'[k].consent = consent /\ \A i \in Jobs \ {k} : row'[i] = row[i]
  BY DEF Reissues, Appears, Others
<1>6. row[k].consent \in BOOLEAN /\ ~row[k].consent
  BY <1>0, <1>5 DEF Inductive, TypeOK, Row, Exchange, ExchangeOf
<1>7. \A l \in Numbers : l # n => <<m, l>> \in Jobs \ {k}
  BY <1>0, <1>1, JobParts DEF Numbers
<1>8. \A l \in Numbers : l # n => row'[<<m, l>>] = row[<<m, l>>]
  BY <1>5, <1>7
<1>9. CASE consent
  <2>1. row'[<<m, n>>].consent
    BY <1>1, <1>5, <1>9
  <2>2. Consented(m)' = Consented(m) \cup {n}
    BY <1>1, <1>8, <2>1 DEF Consented
  <2> QED BY <1>0, <1>1, <1>2, <1>3, <1>4, <2>2, MailReopens
<1>10. CASE ~consent
  <2>1. ~row'[<<m, n>>].consent /\ ~row[<<m, n>>].consent
    BY <1>1, <1>5, <1>6, <1>10
  <2>2. Consented(m)' = Consented(m)
    BY <1>1, <1>8, <2>1 DEF Consented
  <2>3. Copies(m) = {}
    <3> SUFFICES ASSUME NEW i \in Jobs, i[1] = m, Possible(i) PROVE FALSE
      BY <1>0, CopiesOf
    <3>1. Status(i) \in {"sending", "uncertain", "smtp_accepted"}
      BY PossibleStatus DEF Fates
    <3>2. Status(i) \notin {"sending", "smtp_accepted"}
      BY <3>1 DEF Reissues, Insertable, Attempts
    <3>3. Some(m, "uncertain")
      BY <3>1, <3>2 DEF Some, Attempts
    <3> QED BY <1>10, <3>3 DEF Reissues
  <2> QED BY <1>0, <1>1, <1>2, <1>3, <1>4, <2>2, <2>3, MailReopens
<1> QED BY <1>9, <1>10

\* cancel_pending_for_run tells a copy that may be out from none.
LEMMA CancelsStep ==
    ASSUME Inductive, Fates, NEW m \in Messages, Cancels(m)
    PROVE  Mail!MailNext
<1>0. Report(m) /\ runStatus[m] = "awaiting_receipt" /\ UNCHANGED server
  BY DEF Cancels
<1>1. \A i \in Jobs : row'[i].consent = row[i].consent
  BY DEF Cancels, Closes
<1>2. Copies(m)' = Copies(m) /\ Arrived(m)' = Arrived(m) /\ Consented(m)' = Consented(m)
  BY <1>0, <1>1, SameCopies, SameConsent
<1>3. \A c \in Messages \ {m} : Same(c)
  <2>1. \A i \in Jobs : i[1] # m => row'[i] = row[i]
    BY DEF Cancels
  <2>2. OtherMessages(m)
    BY DEF Cancels
  <2> QED BY <1>0, <2>1, <2>2, SameElsewhere
<1>4. Verdict(m) = "pending"
  BY <1>0, VerdictOf, RunVerdicts
<1>5. CASE Unsure(m)
  <2>1. runStatus'[m] = "needs_attention"
    BY <1>5 DEF Cancels
  <2>2. Verdict(m)' = "unknown"
    BY <1>0, <2>1, VerdictOfNext, RunVerdicts
  <2> QED BY <1>2, <1>3, <1>4, <2>2, MailReports
<1>6. CASE ~Unsure(m)
  <2>1. runStatus'[m] = "cancelled"
    BY <1>6 DEF Cancels
  <2>2. Verdict(m)' = "not_delivered"
    BY <1>0, <2>1, VerdictOfNext, RunVerdicts
  <2>3. Copies(m) = {}
    <3> SUFFICES ASSUME NEW i \in Jobs, i[1] = m, Possible(i) PROVE FALSE
      BY CopiesOf
    <3>1. Status(i) \in {"uncertain", "smtp_accepted"}
      BY PossibleStatus DEF Fates, Cancels
    <3>2. WaitsFor(m)
      BY <1>0, RunTellsParts DEF Inductive, RunsTell
    <3>3. \E j \in Jobs : j[1] = m /\ Pending(j)
      BY <1>0, <3>1, <3>2 DEF WaitsFor, Pending
    <3>4. \A k \in Jobs : k[1] = m => Status(k) # "smtp_accepted"
      BY <3>3 DEF Inductive, OnceAccepted
    <3>5. Status(i) = "uncertain"
      BY <3>1, <3>4
    <3>6. Some(m, "uncertain") /\ ~Some(m, "smtp_accepted")
      BY <3>4, <3>5 DEF Some, Attempts
    <3> QED BY <1>6, <3>6 DEF Unsure
  <2> QED BY <1>2, <1>3, <1>4, <2>2, <2>3, MailReports
<1> QED BY <1>5, <1>6

\* The run itself moves: before its handoff there is no mail to speak of.
LEMMA RunMovesStep ==
    ASSUME Inductive, Fates, NEW m \in Messages, RunMoves(m)
    PROVE  Mail!MailNext \/ \A c \in Messages : Same(c)
<1>0. UNCHANGED <<row, server>> /\ OtherMessages(m)
  BY DEF RunMoves
<1>1. \A i \in Jobs : row'[i].consent = row[i].consent
  BY <1>0
<1>2. Copies(m)' = Copies(m) /\ Arrived(m)' = Arrived(m) /\ Consented(m)' = Consented(m)
  BY <1>0, <1>1, SameCopies, SameConsent
<1>3. \A c \in Messages \ {m} : Same(c)
  BY <1>0, SameElsewhere
<1>4. ASSUME Verdict(m)' = Verdict(m) PROVE \A c \in Messages : Same(c)
  BY <1>2, <1>3, <1>4 DEF Same
<1>5. CASE Report(m) /\ runStatus[m] \in {"none", "running"}
           /\ runStatus'[m] \in {"running", "awaiting_receipt"}
  <2>1. Verdict(m)' = Verdict(m)
    BY <1>5, VerdictOf, VerdictOfNext, RunVerdicts
  <2> QED BY <1>4, <2>1
<1>6. CASE Report(m) /\ runStatus[m] = "running"
           /\ runStatus'[m] \in {"failed", "needs_attention", "cancelled"}
  <2>1. Verdict(m) = "pending" /\ Verdict(m)' \in {"not_delivered", "unknown"}
    BY <1>6, VerdictOf, VerdictOfNext, RunVerdicts
  <2>2. Copies(m) = {}
    <3> SUFFICES ASSUME NEW i \in Jobs, i[1] = m, Possible(i) PROVE FALSE
      BY CopiesOf
    <3>1. Begins(m)
      BY <1>6, RunTellsParts DEF Inductive, RunsTell
    <3>2. Status(i) = "none"
      BY <1>6, <3>1 DEF Begins
    <3> QED BY <3>2, PossibleStatus DEF Fates
  <2>3. PICK v \in {"delivered", "not_delivered", "unknown"} : v = Verdict(m)' /\ v # "delivered"
    BY <2>1
  <2> QED BY <1>2, <1>3, <2>1, <2>2, <2>3, MailReports
<1>7. CASE Kind[m] = "alert" /\ handoff[m] = "none" /\ handoff'[m] = "published"
  <2>1. Verdict(m)' = Verdict(m)
    BY <1>7, VerdictOf, VerdictOfNext, HandoffVerdicts
  <2> QED BY <1>4, <2>1
<1> QED BY <1>5, <1>6, <1>7 DEF RunMoves

\* A step concerns one message, and is a step of MailDelivery for it.
LEMMA MailStep ==
    ASSUME Inductive, Fates, Next
    PROVE  Mail!MailNext \/ UNCHANGED Mail!mailVars
<1>0. TableStep
  BY TableSteps
<1>1. ASSUME \A c \in Messages : Same(c) PROVE UNCHANGED Mail!mailVars
  BY <1>1, MailStutters
<1>2. ASSUME NEW p \in Processes, SendBody(p), NEW j \in Jobs, row' = row, Status(j) = "sending",
             row[j].phase = "data_started", server[j] = "none",
             server' = [server EXCEPT ![j] = "receiving"]
      PROVE  Mail!MailNext
  <2>1. UNCHANGED <<runStatus, handoff>>
    BY <1>2 DEF SendBody, runs
  <2> QED BY <1>2, <2>1, SubmitStep
<1>3. ASSUME NEW j \in Jobs, ServerDecides(j) PROVE Mail!MailNext
  <2>1. PICK d \in {"accepted", "rejected"} : server' = [server EXCEPT ![j] = d]
    BY <1>3 DEF ServerDecides
  <2>2. server[j] = "receiving" /\ row' = row /\ UNCHANGED <<runStatus, handoff>>
    BY <1>3 DEF ServerDecides, runs
  <2> QED BY <2>1, <2>2, DecideStep
<1>4. ASSUME UNCHANGED server PROVE Mail!MailNext \/ UNCHANGED Mail!mailVars
  <2>1. CASE UNCHANGED tables
    <3>1. \A c \in Messages : Same(c)
      <4> SUFFICES ASSUME NEW c \in Messages PROVE Same(c)
        OBVIOUS
      <4>1. \A i \in Jobs : row'[i].consent = row[i].consent
        BY <2>1 DEF tables
      <4>2. runStatus'[c] = runStatus[c] /\ handoff'[c] = handoff[c]
            /\ row'[First(c)].status = row[First(c)].status
        BY <2>1 DEF tables
      <4> QED BY <1>4, <4>1, <4>2, SameCopies, SameConsent, SameVerdict DEF Same
    <3> QED BY <1>1, <3>1
  <2>2. CASE Progresses
    BY <1>1, <1>4, <2>2, ProgressStep
  <2>3. ASSUME NEW j \in Jobs, Queues(j) \/ Resumes(j) PROVE UNCHANGED Mail!mailVars
    BY <1>1, <2>3, QueuesStep, ResumesStep
  <2>4. ASSUME NEW j \in Jobs, NEW r \in Results, Settles(j, r)
        PROVE  Mail!MailNext \/ UNCHANGED Mail!mailVars
    <3>1. r = "failed" => Status(j) # "failed" /\ row'[j].status = "failed"
      BY <2>4 DEF Settles, Closes
    <3>2. r = "failed" => ~Possible(j)
      BY <3>1, NewlyFailed DEF Fates
    <3> QED BY <1>1, <2>4, <3>2, SettlesStep
  <2>5. ASSUME NEW j \in Jobs, NEW consent \in BOOLEAN, Reissues(j, consent) PROVE Mail!MailNext
    BY <2>5, ReissuesStep
  <2>6. ASSUME NEW m \in Messages, Cancels(m) \/ RunMoves(m)
        PROVE  Mail!MailNext \/ UNCHANGED Mail!mailVars
    BY <1>1, <2>6, CancelsStep, RunMovesStep
  <2> QED BY <1>0, <2>1, <2>2, <2>3, <2>4, <2>5, <2>6 DEF TableStep, Turns
<1> QED BY <1>2, <1>3, <1>4, ServerStep

\* A step that changes nothing is no step of MailDelivery.
LEMMA MailStuttering ==
    ASSUME UNCHANGED vars
    PROVE  UNCHANGED Mail!mailVars
<1> SUFFICES \A c \in Messages : Same(c)
  BY MailStutters
<1> QED
  BY DEF vars, runs, Same, Copies, Arrived, Consented, Verdict, Possible, Status, First

\* The first state is a first state of MailDelivery.
LEMMA MailBegins == Init => Mail!MailInit
<1> SUFFICES ASSUME Init PROVE Mail!MailInit
  OBVIOUS
<1> SUFFICES ASSUME NEW m \in Messages
             PROVE  Copies(m) = {} /\ Arrived(m) = {} /\ Consented(m) = {} /\ Verdict(m) = "pending"
  BY DEF Mail!MailInit
<1>1. \A j \in Jobs : row[j] = NoRow /\ server[j] = "none"
  BY DEF Init
<1>2. \A n \in Numbers : <<m, n>> \in Jobs
  BY JobParts DEF Numbers
<1>3. Copies(m) = {} /\ Arrived(m) = {} /\ Consented(m) = {}
  BY <1>1, <1>2, NoRowRow DEF Copies, Arrived, Consented, Possible
<1>4. Status(First(m)) = "none" /\ handoff[m] = "none" /\ runStatus[m] \in {"none", "running"}
  BY <1>1, FirstJob, NoRowRow DEF Init, Status
<1>5. Verdict(m) = "pending"
  BY <1>4, VerdictOf, RunVerdicts, HandoffVerdicts
<1> QED BY <1>3, <1>5

\* The queue keeps the promise of MailDelivery: a body leaves only while its run waits
\* for it, no second copy can exist without the operator's acknowledgement, and every
\* verdict is true (queue.py: claim, finish, recover_interrupted, retry and
\* cancel_pending_for_run together), provided no dispatcher can die while there is
\* another one.
THEOREM QueueDeliversOnce == ASSUME NoDeadPeer PROVE Spec => DeliversOnce
<1>1. Init => Inductive /\ Fates
  BY InductiveInit, FatesInit
<1>2. Inductive /\ Fates /\ [Next]_vars => (Inductive /\ Fates)'
  BY InductiveStep, InductiveStutter, FatesStep
<1>3. Inductive /\ Fates /\ [Next]_vars => [Mail!MailNext]_(Mail!mailVars)
  BY MailStep, MailStuttering
<1> QED BY <1>1, <1>2, <1>3, MailBegins, PTL DEF Spec, DeliversOnce, Mail!MailSpec
=============================================================================
