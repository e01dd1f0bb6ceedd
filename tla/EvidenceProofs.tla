--------------------------- MODULE EvidenceProofs ---------------------------
(***************************************************************************)
(* The safety theorems of the components that bring evidence into a run    *)
(* and draw conclusions from it.  For each: the invariant that its actions *)
(* preserve, one step per action, and the properties that follow from it.  *)
(***************************************************************************)
EXTENDS DeliveryHistory, ImageBroker, Acquisition, SequenceTheorems, FiniteSetTheorems,
        WellFoundedInduction, TLAPS

---------------------------------------------------------------------------
(* What earlier mail proves.                                               *)

Found == UNION UNION {Finds[m] : m \in Mails}
Settled == {"failed", "uncertain", "smtp_accepted"}
Words == {"failed_not_sent", "uncertain", "smtp_accepted"}
AttemptRecords == [status : {"queued", "sending"} \cup Settled, proof : BOOLEAN]
MailRecords ==
    [at : {"none", "ready", "refused"}, records : SUBSET Found, attempts : Seq(AttemptRecords),
     status : {"none", "published", "queued"} \cup Settled, receipt : Nat,
     intact : BOOLEAN, cancelled : BOOLEAN, reached : BOOLEAN]
NoteWords == {"none", "pending", "prepared", "unresolved"} \cup Words
Notes == [status : NoteWords, receipt : Nat]
EntryRecords == [status : NoteWords, receipt : Nat, chain : Seq({"queued", "sending"} \cup Words)]
BuildRecords ==
    [at : {"idle", "next", "pending", "receipt", "done"}, todo : SUBSET Mails,
     on : Mails \cup {0},
     seen : [status : {"none", "published", "queued"} \cup Settled, receipt : Nat],
     entries : [Mails -> EntryRecords], doubt : [Mails -> BOOLEAN], complete : BOOLEAN,
     offers : [Mails -> EntryRecords]]

HistTypes ==
    /\ mail \in [Mails -> MailRecords]
    /\ build \in BuildRecords
    /\ ledger \in [Mails -> Notes]

\* Only the last attempt can be under way or accepted, and only a cancelled one fails
\* without a receipt; the handoff says of the attempts what they were.
MailStands(x) ==
    LET a == x.attempts
        n == Len(a) IN
    /\ x.at # "ready" => a = <<>>
    /\ n = 0 => x.status \in {"none", "published"}
    /\ \A k \in 1..n :
        /\ a[k].proof => a[k].status \in Settled
        /\ a[k].status \in {"uncertain", "smtp_accepted"} => a[k].proof
        /\ a[k].status = "failed" /\ ~a[k].proof => x.cancelled
        /\ k < n => a[k].status \in {"failed", "uncertain"} /\ a[k].proof
    /\ x.reached => \E k \in 1..n : a[k].status \in {"uncertain", "smtp_accepted"}
    /\ x.status = "smtp_accepted" => x.reached
    /\ x.status = "failed" => \A k \in 1..n : a[k].status = "failed"
    /\ x.receipt \in 0..n

\* A note with a word of the receipts repeats what a receipt proved for good.
NoteStands(a, status, receipt) ==
    IF status \in Words
    THEN /\ receipt \in 1..Len(a)
         /\ a[receipt].proof /\ Word(a[receipt].status) = status
         /\ status = "failed_not_sent" => \A k \in 1..receipt : a[k].status = "failed"
    ELSE receipt = 0

EntryStands(a, e) ==
    /\ NoteStands(a, e.status, e.receipt)
    /\ e.status \in Words => Len(e.chain) = e.receipt
    /\ e.status \in Words => \A k \in 1..e.receipt : e.chain[k] = Word(a[k].status)

\* The projection in progress.  What it read of a handoff was true then.
BuildStands(b) ==
    /\ \A m \in b.todo \cup {b.on} : m # 0 => b.entries[m].status = "none"
    /\ b.on \notin b.todo
    /\ b.at \in {"pending", "receipt"} =>
        /\ b.on \in Mails /\ b.seen.receipt \in 0..Len(mail[b.on].attempts)
        /\ b.seen.status = "failed" => ~b.doubt[b.on]
    /\ \A m \in Mails :
        /\ EntryStands(mail[m].attempts, b.entries[m])
        /\ b.entries[m].status = "failed_not_sent" => ~b.doubt[m]
        /\ b.at # "done" => b.offers[m] = NoEntry
        /\ b.offers[m] # NoEntry =>
            /\ mail[m].at = "ready" /\ b.offers[m].status # "none"
            /\ b.offers[m].status = b.entries[m].status
            /\ b.offers[m].receipt = b.entries[m].receipt

LedgerStands(m) ==
    /\ mail[m].at = "ready" => ledger[m].status # "none"
    /\ mail[m].at # "ready" => ledger[m] = Unsent
    /\ NoteStands(mail[m].attempts, ledger[m].status, ledger[m].receipt)

ReportedStands ==
    \A p \in reported : p[2] \in Mails /\ p[1] \in mail[p[2]].records /\ mail[p[2]].at = "ready"

HistInv ==
    /\ HistTypes
    /\ \A m \in Mails : MailStands(mail[m]) /\ LedgerStands(m)
    /\ BuildStands(build) /\ ReportedStands /\ LeftOutWasSent /\ AcceptanceIsLearned

---------------------------------------------------------------------------
(* A mail grows: what is settled stays.                                    *)

\* A set of naturals that is not empty has a least element.
LEMMA LeastNatural ==
    ASSUME NEW S, S \subseteq Nat, S # {}
    PROVE  \E x \in S : \A y \in S : x <= y
<1>1. PICK x \in S : \A y \in S : ~ (<<y, x>> \in OpToRel(<, Nat))
  BY NatLessThanWellFounded, WFMin
<1>2. \A y \in S : ~(y < x)
  BY <1>1 DEF OpToRel
<1> QED BY <1>2

\* Latest is the last of the attempts it is taken of.
LEMMA LatestIs ==
    ASSUME NEW n \in Nat, NEW S, S \subseteq 1..n, S # {}
    PROVE  Latest(S) \in S /\ \A y \in S : y <= Latest(S)
<1> DEFINE D == {n - y : y \in S}
<1>1. D \subseteq Nat /\ D # {}
  OBVIOUS
<1>2. PICK d \in D : \A e \in D : d <= e
  BY <1>1, LeastNatural
<1>3. PICK x \in S : d = n - x
  BY <1>2
<1>4. \A y \in S : y <= x
  <2> SUFFICES ASSUME NEW y \in S PROVE y <= x
    OBVIOUS
  <2>1. n - y \in D
    OBVIOUS
  <2>2. d <= n - y
    <3> HIDE DEF D
    <3> QED BY <1>2, <2>1
  <2> QED BY <1>3, <2>2
<1>5. \E z \in S : \A y \in S : y <= z
  BY <1>4
<1> QED BY <1>5 DEF Latest

Grows(a, b) ==
    /\ Len(a) <= Len(b)
    /\ \A k \in 1..Len(a) : a[k].status \in Settled => b[k] = a[k]

\* What a note says of a mail's receipts stays proved when attempts are added.
LEMMA NoteKept ==
    ASSUME NEW a \in Seq(AttemptRecords), NEW b \in Seq(AttemptRecords), Grows(a, b),
           \A k \in 1..Len(a) : a[k].proof => a[k].status \in Settled,
           NEW status, NEW receipt, NoteStands(a, status, receipt)
    PROVE  NoteStands(b, status, receipt)
<1>1. Len(a) \in Nat /\ Len(b) \in Nat
  BY LenProperties
<1>2. CASE status \in Words
  <2>1. /\ receipt \in 1..Len(a) /\ receipt \in 1..Len(b) /\ b[receipt] = a[receipt]
    BY <1>1, <1>2 DEF NoteStands, Grows
  <2>2. \A k \in 1..receipt : k \in 1..Len(a)
    BY <1>1, <2>1
  <2>3. \A k \in 1..receipt : a[k].status = "failed" => b[k] = a[k]
    BY <2>2 DEF Grows, Settled
  <2> QED BY <1>2, <2>1, <2>3 DEF NoteStands
<1>3. CASE status \notin Words
  BY <1>3 DEF NoteStands
<1> QED BY <1>2, <1>3

\* An entry of the history stays backed by the attempts it read.
LEMMA EntryKept ==
    ASSUME NEW a \in Seq(AttemptRecords), NEW b \in Seq(AttemptRecords), Grows(a, b),
           \A k \in 1..Len(a) : a[k].proof => a[k].status \in Settled,
           \A k \in 1..Len(a) : k < Len(a) => a[k].status \in {"failed", "uncertain"},
           NEW e, EntryStands(a, e)
    PROVE  EntryStands(b, e)
<1>1. Len(a) \in Nat
  BY LenProperties
<1>2. NoteStands(a, e.status, e.receipt) /\ NoteStands(b, e.status, e.receipt)
  BY NoteKept DEF EntryStands
<1>3. ASSUME e.status \in Words, NEW k \in 1..e.receipt PROVE e.chain[k] = Word(b[k].status)
  <2>1. e.receipt \in 1..Len(a) /\ a[e.receipt].proof
    BY <1>2, <1>3 DEF NoteStands
  <2>2. k \in 1..Len(a) /\ a[k].status \in Settled
    BY <1>1, <2>1 DEF Settled
  <2> QED BY <1>3, <2>2 DEF EntryStands, Grows
<1> QED BY <1>2, <1>3 DEF EntryStands

\* What HistInv says of one mail.
LEMMA MailParts ==
    ASSUME HistInv, NEW m \in Mails
    PROVE  /\ mail[m] \in MailRecords /\ mail[m].attempts \in Seq(AttemptRecords)
           /\ MailStands(mail[m]) /\ LedgerStands(m) /\ ledger[m] \in Notes
           /\ EntryStands(mail[m].attempts, build.entries[m])
           /\ Len(mail[m].attempts) \in Nat
           /\ DOMAIN mail[m].attempts = 1..Len(mail[m].attempts)
           /\ \A k \in 1..Len(mail[m].attempts) : mail[m].attempts[k] \in AttemptRecords
<1>1. mail[m] \in MailRecords /\ mail[m].attempts \in Seq(AttemptRecords) /\ ledger[m] \in Notes
  BY DEF HistInv, HistTypes, MailRecords
<1>2. /\ MailStands(mail[m]) /\ LedgerStands(m)
      /\ EntryStands(mail[m].attempts, build.entries[m])
  BY DEF HistInv, BuildStands
<1> QED BY <1>1, <1>2, LenProperties, ElementOfSeq

\* What the queue does to one mail keeps everything concluded from the mail before.
LEMMA MailStep ==
    ASSUME HistInv, NEW m \in Mails, NEW x \in MailRecords,
           mail' = [mail EXCEPT ![m] = x], UNCHANGED <<left, build, ledger>>,
           MailStands(x), Grows(mail[m].attempts, x.attempts),
           x.at = mail[m].at, x.records = mail[m].records, mail[m].reached => x.reached,
           \A p \in reported' : p \in reported \/
                (mail[m].at = "ready" /\ \E r \in mail[m].records : p = <<r, m>>)
    PROVE  HistInv'
<1>0. mail \in [Mails -> MailRecords] /\ x.attempts \in Seq(AttemptRecords)
  BY DEF HistInv, HistTypes, MailRecords
<1>1. HistTypes'
  BY <1>0 DEF HistInv, HistTypes
<1>2. \A k \in Mails : mail'[k] = IF k = m THEN x ELSE mail[k]
  BY <1>0
<1>3. \A k \in Mails : /\ mail'[k].at = mail[k].at /\ mail'[k].records = mail[k].records
                        /\ mail[k].reached => mail'[k].reached
                        /\ MailStands(mail'[k])
  BY <1>2 DEF HistInv
<1>4. \A k \in Mails : /\ mail'[k].attempts \in Seq(AttemptRecords)
                        /\ Len(mail'[k].attempts) \in Nat
                        /\ Len(mail[k].attempts) \in Nat
                        /\ k # m => mail'[k].attempts = mail[k].attempts
  BY <1>0, <1>2, MailParts, LenProperties DEF Grows
<1>9a. /\ mail[m].attempts \in Seq(AttemptRecords)
      /\ \A k \in 1..Len(mail[m].attempts) :
            /\ mail[m].attempts[k].proof => mail[m].attempts[k].status \in Settled
            /\ k < Len(mail[m].attempts) =>
                    mail[m].attempts[k].status \in {"failed", "uncertain"}
  BY MailParts DEF MailStands
<1>5. \A k \in Mails : LedgerStands(k)'
  <2> SUFFICES ASSUME NEW k \in Mails PROVE LedgerStands(k)'
    OBVIOUS
  <2>1. CASE k # m
    BY <1>2, <2>1, MailParts DEF LedgerStands
  <2>2. CASE k = m
    <3>1. NoteStands(x.attempts, ledger[m].status, ledger[m].receipt)
      BY <1>0, <1>9a, MailParts, NoteKept DEF LedgerStands
    <3> QED BY <1>2, <1>3, <2>2, <3>1, MailParts DEF LedgerStands
  <2> QED BY <2>1, <2>2
<1>6. BuildStands(build)'
  <2>1. ASSUME NEW k \in Mails PROVE EntryStands(mail'[k].attempts, build.entries[k])
    <3>1. CASE k # m
      BY <1>4, <3>1, MailParts
    <3>2. CASE k = m
      <4>1. EntryStands(x.attempts, build.entries[m])
        BY <1>0, <1>9a, MailParts, EntryKept
      <4> QED BY <1>2, <3>2, <4>1
    <3> QED BY <3>1, <3>2
  <2>2. BuildStands(build) /\ build' = build
    BY DEF HistInv
  <2>3. ASSUME build.at \in {"pending", "receipt"}
        PROVE  build.seen.receipt \in 0..Len(mail'[build.on].attempts)
    <3>1. build.on \in Mails /\ build.seen.receipt \in 0..Len(mail[build.on].attempts)
      BY <2>2, <2>3 DEF BuildStands
    <3>2. PICK k \in Mails : k = build.on
      BY <3>1
    <3>2a. Len(mail[k].attempts) \in Nat
      BY <1>4
    <3>2b. Len(mail'[k].attempts) \in Nat
      BY <1>4
    <3>2c. Len(mail[k].attempts) <= Len(mail'[k].attempts)
      <4>1. CASE k = m
        BY <1>2, <4>1 DEF Grows
      <4>2. CASE k # m
        BY <1>2, <3>2a, <4>2
      <4> QED BY <4>1, <4>2
    <3>3. PICK p \in Nat, q \in Nat : /\ p = Len(mail[k].attempts) /\ q = Len(mail'[k].attempts)
                                       /\ p <= q
      BY <3>2a, <3>2b, <3>2c
    <3>4. build.seen.receipt \in 0..p
      BY <3>1, <3>2, <3>3
    <3>5. build.seen.receipt \in 0..q
      BY <3>3, <3>4
    <3> QED BY <3>2, <3>3, <3>5
  <2> QED BY <1>3, <2>1, <2>2, <2>3 DEF BuildStands
<1>7. ReportedStands'
  BY <1>3 DEF HistInv, ReportedStands
<1>8. LeftOutWasSent'
  BY <1>3 DEF HistInv, LeftOutWasSent
<1>9. AcceptanceIsLearned'
  BY DEF HistInv, AcceptanceIsLearned
<1> QED BY <1>1, <1>3, <1>5, <1>6, <1>7, <1>8, <1>9 DEF HistInv

---------------------------------------------------------------------------
(* The queue.                                                              *)

\* One attempt of a mail changes: the last, which was under way.
LEMMA LastChanges ==
    ASSUME NEW a \in Seq(AttemptRecords), Len(a) # 0, a[Len(a)].status \in {"queued", "sending"},
           NEW y \in AttemptRecords
    PROVE  /\ [a EXCEPT ![Len(a)] = y] \in Seq(AttemptRecords)
           /\ Len([a EXCEPT ![Len(a)] = y]) = Len(a)
           /\ \A k \in 1..Len(a) : [a EXCEPT ![Len(a)] = y][k] = IF k = Len(a) THEN y ELSE a[k]
           /\ Grows(a, [a EXCEPT ![Len(a)] = y])
<1>1. Len(a) \in Nat /\ Len(a) \in 1..Len(a)
  BY LenProperties
<1>2. /\ [a EXCEPT ![Len(a)] = y] \in Seq(AttemptRecords)
      /\ Len([a EXCEPT ![Len(a)] = y]) = Len(a)
      /\ \A k \in 1..Len(a) : [a EXCEPT ![Len(a)] = y][k] = IF k = Len(a) THEN y ELSE a[k]
  BY <1>1, ExceptSeq
<1>3. \A b : /\ Len(b) = Len(a)
             /\ \A k \in 1..Len(a) : b[k] = IF k = Len(a) THEN y ELSE a[k]
             => Grows(a, b)
  BY <1>1 DEF Grows, Settled
<1> QED BY <1>2, <1>3

\* Of a mail that changes: nothing else was enqueued, accepted or lost with it.
LEMMA EnqueueMailKeeps ==
    ASSUME HistInv, NEW m \in Mails, EnqueueMail(m) PROVE HistInv'
<1>0. /\ mail[m].at = "ready" /\ mail[m].attempts = <<>>
      /\ mail' = [mail EXCEPT ![m].attempts = <<Attempt("queued", FALSE)>>]
      /\ UNCHANGED <<reported, left, build, ledger>>
  BY DEF EnqueueMail
<1>1. mail[m] \in MailRecords /\ MailStands(mail[m])
  BY MailParts
<1>2. PICK b \in Seq(AttemptRecords) : b = <<Attempt("queued", FALSE)>> /\ Len(b) = 1
                                       /\ b[1] = Attempt("queued", FALSE)
  <2>1. Attempt("queued", FALSE) \in AttemptRecords
    BY DEF Attempt, AttemptRecords
  <2>2. PICK y \in AttemptRecords : y = Attempt("queued", FALSE)
    BY <2>1
  <2>3. <<y>> \in Seq(AttemptRecords) /\ Len(<<y>>) = 1 /\ <<y>>[1] = y
    OBVIOUS
  <2> QED BY <2>2, <2>3, Zenon
<1>3. b[1].status = "queued" /\ ~b[1].proof
  BY <1>2 DEF Attempt
<1>4. PICK x \in MailRecords : x = [mail[m] EXCEPT !.attempts = b]
  BY <1>1 DEF MailRecords
<1>5. /\ x.attempts = b /\ x.at = mail[m].at /\ x.records = mail[m].records
      /\ x.status = mail[m].status /\ x.receipt = mail[m].receipt
      /\ (x.reached <=> mail[m].reached) /\ (x.cancelled <=> mail[m].cancelled)
  BY <1>1, <1>4 DEF MailRecords
<1>6. mail' = [mail EXCEPT ![m] = x]
  BY <1>0, <1>2, <1>4
<1>7. Len(mail[m].attempts) = 0
  BY <1>0
<1>8. MailStands(x)
  <2>1. /\ mail[m].status \in {"none", "published"} /\ ~mail[m].reached
        /\ mail[m].receipt = 0
    BY <1>1, <1>7 DEF MailStands
  <2>2. Len(b) = 1 /\ \A k \in 1..1 : k = 1
    BY <1>2
  <2>3. \A k \in 1..Len(b) : b[k].status = "queued" /\ ~b[k].proof /\ ~(k < Len(b))
    BY <1>3, <2>2
  <2>4. x.status \in {"none", "published"} /\ ~x.reached /\ x.receipt = 0 /\ x.at = "ready"
    BY <1>0, <1>5, <2>1
  <2> QED BY <1>5, <2>2, <2>3, <2>4 DEF MailStands, Settled
<1>9. Grows(mail[m].attempts, x.attempts)
  BY <1>2, <1>5, <1>7 DEF Grows
<1> QED BY <1>0, <1>5, <1>6, <1>8, <1>9, MailStep

\* The last attempt of a mail, which was under way, becomes y and the mail x.
UnderWay(m) ==
    /\ mail[m].attempts # <<>>
    /\ mail[m].attempts[Len(mail[m].attempts)].status \in {"queued", "sending"}
Becomes(m, y, x) ==
    /\ y.proof => y.status \in Settled
    /\ y.status \in {"uncertain", "smtp_accepted"} => y.proof
    /\ y.status = "failed" /\ ~y.proof => x.cancelled
    /\ x.attempts = [mail[m].attempts EXCEPT ![Len(mail[m].attempts)] = y]
    /\ x.at = mail[m].at /\ x.records = mail[m].records
    /\ mail[m].cancelled => x.cancelled
    /\ mail[m].reached => x.reached
    /\ x.reached => mail[m].reached \/ y.status \in {"uncertain", "smtp_accepted"}
    /\ x.status = "smtp_accepted" => x.reached
    /\ x.status = "failed" =>
        /\ y.status = "failed"
        /\ \A k \in 1..Len(mail[m].attempts) :
            k # Len(mail[m].attempts) => mail[m].attempts[k].status = "failed"
    /\ x.receipt \in 0..Len(mail[m].attempts)

\* A step that moves the last attempt, which is not settled, leaves every earlier
\* word proved.
LEMMA LastAttemptStep ==
    ASSUME HistInv, NEW m \in Mails, UnderWay(m), NEW y \in AttemptRecords, NEW x \in MailRecords,
           Becomes(m, y, x), mail' = [mail EXCEPT ![m] = x], UNCHANGED <<left, build, ledger>>,
           \A p \in reported' : p \in reported \/
                (mail[m].at = "ready" /\ \E r \in mail[m].records : p = <<r, m>>)
    PROVE  HistInv'
<1>0. PICK a \in Seq(AttemptRecords), n \in Nat \ {0} :
            a = mail[m].attempts /\ n = Len(a)
  BY MailParts, EmptySeq DEF UnderWay
<1>0a. /\ a[n].status \in {"queued", "sending"}
       /\ y.proof => y.status \in Settled
       /\ y.status \in {"uncertain", "smtp_accepted"} => y.proof
       /\ y.status = "failed" /\ ~y.proof => x.cancelled
       /\ x.attempts = [a EXCEPT ![n] = y] /\ x.at = mail[m].at /\ x.records = mail[m].records
       /\ mail[m].cancelled => x.cancelled
       /\ mail[m].reached => x.reached
       /\ x.reached => mail[m].reached \/ y.status \in {"uncertain", "smtp_accepted"}
       /\ x.status = "smtp_accepted" => x.reached
       /\ x.status = "failed" =>
            y.status = "failed" /\ \A k \in 1..n : k # n => a[k].status = "failed"
       /\ x.receipt \in 0..n
  BY <1>0 DEF UnderWay, Becomes
<1>1. a \in Seq(AttemptRecords) /\ MailStands(mail[m]) /\ n \in Nat
  BY <1>0, MailParts
<1>2. PICK b \in Seq(AttemptRecords) : /\ b = x.attempts /\ Len(b) = n
                                       /\ \A k \in 1..n : b[k] = IF k = n THEN y ELSE a[k]
                                       /\ Grows(a, b)
  <2>1. Len(a) # 0 /\ a[Len(a)].status \in {"queued", "sending"}
    BY <1>0, <1>0a
  <2>2. PICK b \in Seq(AttemptRecords) :
            /\ b = [a EXCEPT ![Len(a)] = y] /\ Len(b) = Len(a)
            /\ \A k \in 1..Len(a) : b[k] = IF k = Len(a) THEN y ELSE a[k]
            /\ Grows(a, b)
    BY <1>1, <2>1, LastChanges
  <2>3. b = x.attempts
    BY <1>0, <1>0a, <2>2
  <2> QED BY <1>0, <2>2, <2>3
<1>3. /\ \A k \in 1..n : /\ a[k].proof => a[k].status \in Settled
                         /\ a[k].status \in {"uncertain", "smtp_accepted"} => a[k].proof
                         /\ a[k].status = "failed" /\ ~a[k].proof => mail[m].cancelled
                         /\ k < n => a[k].status \in {"failed", "uncertain"} /\ a[k].proof
      /\ mail[m].reached => \E k \in 1..n : a[k].status \in {"uncertain", "smtp_accepted"}
  BY <1>0, <1>1 DEF MailStands
<1>4. mail[m].at = "ready"
  BY <1>0, <1>0a, <1>1, EmptySeq DEF MailStands
<1>5. \A k \in 1..n : /\ b[k].proof => b[k].status \in Settled
                      /\ b[k].status \in {"uncertain", "smtp_accepted"} => b[k].proof
                      /\ b[k].status = "failed" /\ ~b[k].proof => x.cancelled
                      /\ k < n => b[k].status \in {"failed", "uncertain"} /\ b[k].proof
  BY <1>0a, <1>1, <1>2, <1>3
<1>6. x.reached => \E k \in 1..n : b[k].status \in {"uncertain", "smtp_accepted"}
  <2>1. CASE mail[m].reached
    <3>1. PICK k \in 1..n : a[k].status \in {"uncertain", "smtp_accepted"}
      BY <1>3, <2>1
    <3>2. b[k] = a[k]
      BY <1>0a, <1>2, <3>1
    <3> QED BY <3>1, <3>2
  <2>2. CASE y.status \in {"uncertain", "smtp_accepted"}
    <3>1. n \in 1..n /\ b[n] = y
      BY <1>1, <1>2
    <3> QED BY <2>2, <3>1
  <2> QED BY <1>0a, <2>1, <2>2
<1>7. x.status = "failed" => \A k \in 1..n : b[k].status = "failed"
  BY <1>0a, <1>2
<1>8. MailStands(x)
  BY <1>0a, <1>1, <1>2, <1>4, <1>5, <1>6, <1>7 DEF MailStands
<1>9. Grows(mail[m].attempts, x.attempts)
  BY <1>0, <1>2
<1> QED BY <1>0a, <1>8, <1>9, MailStep

\* The dispatcher takes a queued attempt.
LEMMA ClaimMailKeeps ==
    ASSUME HistInv, NEW m \in Mails, ClaimMail(m) PROVE HistInv'
<1> DEFINE a == mail[m].attempts
           n == Len(a)
<1>1. /\ a # <<>> /\ a[n].status = "queued" /\ UNCHANGED <<left, build, ledger, reported>>
      /\ mail' = [mail EXCEPT ![m].attempts[n].status = "sending"]
  BY DEF ClaimMail, last
<1>2. /\ a \in Seq(AttemptRecords) /\ MailStands(mail[m]) /\ n \in Nat /\ n # 0
      /\ mail[m] \in MailRecords
  BY <1>1, MailParts, EmptySeq
<1>3. n \in 1..n /\ a[n] \in AttemptRecords /\ ~a[n].proof
  <2>1. n \in 1..n
    BY <1>2
  <2>2. a[n].proof => a[n].status \in Settled
    BY <1>2, <2>1 DEF MailStands
  <2> QED BY <1>1, <1>2, <2>1, <2>2, ElementOfSeq DEF Settled
<1>4. PICK y \in AttemptRecords : y = [a[n] EXCEPT !.status = "sending"]
  BY <1>3 DEF AttemptRecords
<1>5. y.status = "sending" /\ ~y.proof
  BY <1>3, <1>4 DEF AttemptRecords
<1>6. PICK b \in Seq(AttemptRecords) : b = [a EXCEPT ![n] = y]
  BY <1>1, <1>2, LastChanges
<1>7. PICK x \in MailRecords : x = [mail[m] EXCEPT !.attempts = b]
  BY <1>2 DEF MailRecords
<1>8. /\ x.attempts = b /\ x.at = mail[m].at /\ x.records = mail[m].records
      /\ x.status = mail[m].status /\ x.receipt = mail[m].receipt
      /\ (x.reached <=> mail[m].reached) /\ (x.cancelled <=> mail[m].cancelled)
  BY <1>2, <1>7 DEF MailRecords
<1>9. mail' = [mail EXCEPT ![m] = x]
  BY <1>1, <1>4, <1>6, <1>7
<1>10. /\ x.status = "smtp_accepted" => x.reached
       /\ x.status # "failed" /\ x.receipt \in 0..n
  BY <1>1, <1>2, <1>3, <1>8 DEF MailStands
<1>11. Becomes(m, y, x)
  BY <1>1, <1>2, <1>5, <1>6, <1>8, <1>10 DEF Becomes, Settled
<1> QED BY <1>1, <1>9, <1>11, LastAttemptStep DEF UnderWay

\* A queued attempt is cancelled before anything was sent.
LEMMA CancelQueuedKeeps ==
    ASSUME HistInv, NEW m \in Mails, CancelQueued(m) PROVE HistInv'
<1> DEFINE a == mail[m].attempts
           n == Len(a)
           U == UncertainAttempts(m)
           status == IF U = {} THEN "failed" ELSE "uncertain"
           receipt == IF U = {} THEN 0 ELSE Latest(U)
<1>1. /\ a # <<>> /\ a[n].status = "queued" /\ UNCHANGED <<left, build, ledger, reported>>
      /\ mail' = [mail EXCEPT ![m].attempts[n].status = "failed", ![m].cancelled = TRUE,
                    ![m].status = status, ![m].receipt = receipt]
  BY DEF CancelQueued, last
<1>2. /\ a \in Seq(AttemptRecords) /\ MailStands(mail[m]) /\ n \in Nat /\ n # 0
      /\ mail[m] \in MailRecords /\ DOMAIN a = 1..n
  BY <1>1, MailParts, EmptySeq
<1>3. n \in 1..n /\ a[n] \in AttemptRecords /\ ~a[n].proof
  <2>1. n \in 1..n
    BY <1>2
  <2>2. a[n].proof => a[n].status \in Settled
    BY <1>2, <2>1 DEF MailStands
  <2> QED BY <1>1, <1>2, <2>1, <2>2, ElementOfSeq DEF Settled
<1>4. PICK y \in AttemptRecords : y = [a[n] EXCEPT !.status = "failed"]
  BY <1>3 DEF AttemptRecords, Settled
<1>5. y.status = "failed" /\ ~y.proof
  BY <1>3, <1>4 DEF AttemptRecords
<1>6. PICK b \in Seq(AttemptRecords) : b = [a EXCEPT ![n] = y]
  BY <1>1, <1>2, LastChanges
<1>6a. receipt \in 0..n /\ status \in {"failed", "uncertain"}
  <2>1. U \subseteq 1..n
    BY <1>2 DEF UncertainAttempts
  <2>2. U # {} => Latest(U) \in 1..n
    BY <1>2, <2>1, LatestIs
  <2> QED BY <1>2, <2>2
<1>7a. PICK s \in {"failed", "uncertain"}, c \in 0..n : s = status /\ c = receipt
  BY <1>6a
<1>7b. PICK z \in MailRecords : z = [mail[m] EXCEPT !.attempts = b, !.cancelled = TRUE]
  BY <1>2 DEF MailRecords
<1>7c. s \in {"none", "published", "queued"} \cup Settled /\ c \in Nat
  BY <1>2 DEF Settled
<1>7. PICK x \in MailRecords : x = [z EXCEPT !.status = s, !.receipt = c]
  BY <1>7c DEF MailRecords
<1>8. /\ x.attempts = b /\ x.at = mail[m].at /\ x.records = mail[m].records
      /\ x.status = s /\ x.receipt = c
      /\ (x.reached <=> mail[m].reached) /\ x.cancelled
  <2>1. /\ z.attempts = b /\ z.at = mail[m].at /\ z.records = mail[m].records
        /\ (z.reached <=> mail[m].reached) /\ z.cancelled
    BY <1>2, <1>7a, <1>7b DEF MailRecords
  <2>2. /\ x.attempts = z.attempts /\ x.at = z.at /\ x.records = z.records
        /\ x.status = s /\ x.receipt = c
        /\ (x.reached <=> z.reached) /\ (x.cancelled <=> z.cancelled)
    BY <1>7 DEF MailRecords
  <2> QED BY <2>1, <2>2
<1>9. mail' = [mail EXCEPT ![m] = x]
  <2>1. x = [mail[m] EXCEPT !.attempts = [@ EXCEPT ![n].status = "failed"], !.cancelled = TRUE,
                !.status = status, !.receipt = receipt]
    <3> HIDE DEF status, receipt
    <3> QED BY <1>2, <1>4, <1>6, <1>7, <1>7a, <1>7b DEF MailRecords
  <2> HIDE DEF status, receipt
  <2> QED BY <1>1, <2>1
<1>10. x.status = "failed" => \A k \in 1..n : k # n => a[k].status = "failed"
  <2>1. \A k \in 1..n : k < n => a[k].status \in {"failed", "uncertain"}
    BY <1>2 DEF MailStands
  <2>2. s = "failed" => U = {}
    BY <1>7a
  <2>3. U = {} => \A k \in 1..n : a[k].status # "uncertain"
    BY <1>2 DEF UncertainAttempts
  <2> QED BY <1>2, <1>8, <2>1, <2>2, <2>3
<1>11. Becomes(m, y, x)
  BY <1>1, <1>2, <1>5, <1>6, <1>8, <1>10, <1>7a DEF Becomes, Settled
<1> QED BY <1>1, <1>9, <1>11, LastAttemptStep DEF UnderWay

\* The dispatcher settles an attempt, with or without its receipt on disk.
LEMMA FinishMailKeeps ==
    ASSUME HistInv, NEW m \in Mails, FinishMail(m) PROVE HistInv'
<1> DEFINE a == mail[m].attempts
           n == Len(a)
           U == UncertainAttempts(m)
<1>0. PICK word \in Settled, got \in BOOLEAN :
        LET kept == word = "failed" /\ U # {} IN
        /\ word = "smtp_accepted" => got
        /\ got => word # "failed"
        /\ mail' = [mail EXCEPT ![m].attempts[n] = Attempt(word, TRUE),
                        ![m].status = IF kept THEN "uncertain" ELSE word,
                        ![m].receipt = IF kept THEN Latest(U) ELSE n,
                        ![m].reached = @ \/ got]
        /\ reported' = IF Commits(word)
                       THEN reported \cup {<<r, m>> : r \in {r \in mail[m].records : r.entity # NoKey}}
                       ELSE reported
  BY DEF FinishMail, Settled
<1> DEFINE status == IF word = "failed" /\ U # {} THEN "uncertain" ELSE word
           receipt == IF word = "failed" /\ U # {} THEN Latest(U) ELSE n
<1>1. /\ a # <<>> /\ a[n].status = "sending" /\ UNCHANGED <<left, build, ledger>>
      /\ mail' = [mail EXCEPT ![m].attempts[n] = Attempt(word, TRUE),
                        ![m].status = status, ![m].receipt = receipt, ![m].reached = @ \/ got]
  BY <1>0 DEF FinishMail, last
<1>2. /\ a \in Seq(AttemptRecords) /\ MailStands(mail[m]) /\ n \in Nat /\ n # 0
      /\ mail[m] \in MailRecords /\ DOMAIN a = 1..n
  BY <1>1, MailParts, EmptySeq
<1>4. PICK y \in AttemptRecords : y = Attempt(word, TRUE)
  BY DEF AttemptRecords, Attempt
<1>5. y.status = word /\ y.proof
  BY <1>4 DEF Attempt
<1>6. PICK b \in Seq(AttemptRecords) : b = [a EXCEPT ![n] = y]
  BY <1>1, <1>2, LastChanges
<1>6a. receipt \in 0..n /\ status \in Settled
  <2>1. U \subseteq 1..n
    BY <1>2 DEF UncertainAttempts
  <2>2. U # {} => Latest(U) \in 1..n
    BY <1>2, <2>1, LatestIs
  <2> QED BY <1>2, <2>2 DEF Settled
<1>7a. PICK s \in Settled, c \in 0..n, g \in BOOLEAN :
            s = status /\ c = receipt /\ g = (mail[m].reached \/ got)
  BY <1>6a
<1>7b. PICK z \in MailRecords : z = [mail[m] EXCEPT !.attempts = b, !.reached = g]
  BY <1>2 DEF MailRecords
<1>7c. s \in {"none", "published", "queued"} \cup Settled /\ c \in Nat
  BY <1>2 DEF Settled
<1>7. PICK x \in MailRecords : x = [z EXCEPT !.status = s, !.receipt = c]
  BY <1>7c DEF MailRecords
<1>8. /\ x.attempts = b /\ x.at = mail[m].at /\ x.records = mail[m].records
      /\ x.status = s /\ x.receipt = c
      /\ (x.reached <=> mail[m].reached \/ got) /\ (x.cancelled <=> mail[m].cancelled)
  <2>1. /\ z.attempts = b /\ z.at = mail[m].at /\ z.records = mail[m].records
        /\ (z.reached <=> mail[m].reached \/ got) /\ (z.cancelled <=> mail[m].cancelled)
    BY <1>2, <1>7a, <1>7b DEF MailRecords
  <2>2. /\ x.attempts = z.attempts /\ x.at = z.at /\ x.records = z.records
        /\ x.status = s /\ x.receipt = c
        /\ (x.reached <=> z.reached) /\ (x.cancelled <=> z.cancelled)
    BY <1>7 DEF MailRecords
  <2> QED BY <2>1, <2>2
<1>9. mail' = [mail EXCEPT ![m] = x]
  <2>1. x = [mail[m] EXCEPT !.attempts = [@ EXCEPT ![n] = Attempt(word, TRUE)],
                !.status = status, !.receipt = receipt, !.reached = @ \/ got]
    <3> HIDE DEF status, receipt
    <3> QED BY <1>2, <1>4, <1>6, <1>7, <1>7a, <1>7b DEF MailRecords
  <2> HIDE DEF status, receipt
  <2> QED BY <1>1, <2>1
<1>10. x.status = "failed" => word = "failed" /\ \A k \in 1..n : k # n => a[k].status = "failed"
  <2>1. \A k \in 1..n : k < n => a[k].status \in {"failed", "uncertain"}
    BY <1>2 DEF MailStands
  <2>2. s = "failed" => word = "failed" /\ U = {}
    BY <1>7a
  <2>3. U = {} => \A k \in 1..n : a[k].status # "uncertain"
    BY <1>2 DEF UncertainAttempts
  <2> QED BY <1>2, <1>8, <2>1, <2>2, <2>3
<1>11. x.status = "smtp_accepted" => x.reached
  BY <1>0, <1>7a, <1>8
<1>12. x.reached => mail[m].reached \/ word \in {"uncertain", "smtp_accepted"}
  BY <1>0, <1>8 DEF Settled
<1>13. Becomes(m, y, x)
  BY <1>1, <1>2, <1>5, <1>6, <1>8, <1>10, <1>11, <1>12, <1>7a DEF Becomes, Settled
<1>14. mail[m].at = "ready"
  BY <1>1, <1>2 DEF MailStands
<1>15. \A p \in reported' : p \in reported \/ \E r \in mail[m].records : p = <<r, m>>
  BY <1>0
<1> QED BY <1>1, <1>9, <1>13, <1>14, <1>15, LastAttemptStep DEF UnderWay

\* A retry adds an attempt after one that is settled.
LEMMA RetryMailKeeps ==
    ASSUME HistInv, NEW m \in Mails, RetryMail(m) PROVE HistInv'
<1>0. PICK a \in Seq(AttemptRecords), n \in Nat : a = mail[m].attempts /\ n = Len(a)
  BY MailParts
<1>1. /\ a # <<>> /\ a[n].status \in {"failed", "uncertain"} /\ ~mail[m].cancelled
      /\ UNCHANGED <<left, build, ledger, reported>>
      /\ mail' = [mail EXCEPT ![m].attempts = Append(@, Attempt("queued", FALSE)),
                            ![m].status = "queued", ![m].receipt = 0]
  BY <1>0 DEF RetryMail, last
<1>2. MailStands(mail[m]) /\ mail[m] \in MailRecords /\ n \in 1..n
  BY <1>0, <1>1, MailParts, EmptySeq
<1>3. PICK y \in AttemptRecords : y = Attempt("queued", FALSE)
  BY DEF AttemptRecords, Attempt
<1>4. y.status = "queued" /\ ~y.proof
  BY <1>3 DEF Attempt
<1>5. PICK b \in Seq(AttemptRecords) : /\ b = Append(a, y) /\ Len(b) = n + 1 /\ b[n + 1] = y
                                       /\ \A k \in 1..n : b[k] = a[k]
  <2>1. /\ Append(a, y) \in Seq(AttemptRecords) /\ Len(Append(a, y)) = Len(a) + 1
        /\ \A k \in 1..Len(a) : Append(a, y)[k] = a[k]
        /\ Append(a, y)[Len(a) + 1] = y
    BY AppendProperties
  <2> QED BY <1>0, <2>1, Zenon
<1>6. PICK z \in MailRecords : z = [mail[m] EXCEPT !.attempts = b]
  BY <1>2 DEF MailRecords
<1>7. PICK x \in MailRecords : x = [z EXCEPT !.status = "queued", !.receipt = 0]
  BY DEF MailRecords
<1>8. /\ x.attempts = b /\ x.at = mail[m].at /\ x.records = mail[m].records
      /\ x.status = "queued" /\ x.receipt = 0
      /\ (x.reached <=> mail[m].reached) /\ (x.cancelled <=> mail[m].cancelled)
  <2>1. /\ z.attempts = b /\ z.at = mail[m].at /\ z.records = mail[m].records
        /\ (z.reached <=> mail[m].reached) /\ (z.cancelled <=> mail[m].cancelled)
    BY <1>2, <1>6 DEF MailRecords
  <2>2. /\ x.attempts = z.attempts /\ x.at = z.at /\ x.records = z.records
        /\ x.status = "queued" /\ x.receipt = 0
        /\ (x.reached <=> z.reached) /\ (x.cancelled <=> z.cancelled)
    BY <1>7 DEF MailRecords
  <2> QED BY <2>1, <2>2
<1>9. mail' = [mail EXCEPT ![m] = x]
  <2>1. x = [mail[m] EXCEPT !.attempts = Append(@, Attempt("queued", FALSE)),
                            !.status = "queued", !.receipt = 0]
    BY <1>0, <1>2, <1>3, <1>5, <1>6, <1>7 DEF MailRecords
  <2> QED BY <1>1, <2>1
<1>10. /\ \A k \in 1..n : /\ a[k].proof => a[k].status \in Settled
                          /\ a[k].status \in {"uncertain", "smtp_accepted"} => a[k].proof
                          /\ a[k].status = "failed" /\ ~a[k].proof => mail[m].cancelled
                          /\ k < n => a[k].status \in {"failed", "uncertain"} /\ a[k].proof
       /\ mail[m].reached => \E k \in 1..n : a[k].status \in {"uncertain", "smtp_accepted"}
       /\ mail[m].at = "ready"
  BY <1>0, <1>1, <1>2 DEF MailStands
<1>11. \A k \in 1..n : a[k].status \in {"failed", "uncertain"} /\ a[k].proof
  <2>1. a[n].proof
    BY <1>1, <1>2, <1>10
  <2> QED BY <1>1, <1>2, <1>10, <2>1
<1>12. \A k \in 1..(n + 1) : k # n + 1 => k \in 1..n
  OBVIOUS
<1>13. \A k \in 1..(n + 1) : /\ b[k].proof => b[k].status \in Settled
                             /\ b[k].status \in {"uncertain", "smtp_accepted"} => b[k].proof
                             /\ b[k].status = "failed" /\ ~b[k].proof => x.cancelled
                             /\ k < n + 1 => b[k].status \in {"failed", "uncertain"} /\ b[k].proof
  BY <1>4, <1>5, <1>10, <1>11, <1>12
<1>14. x.reached => \E k \in 1..(n + 1) : b[k].status \in {"uncertain", "smtp_accepted"}
  <2> SUFFICES ASSUME x.reached PROVE \E k \in 1..(n + 1) : b[k].status \in {"uncertain", "smtp_accepted"}
    OBVIOUS
  <2>1. PICK k \in 1..n : a[k].status \in {"uncertain", "smtp_accepted"}
    BY <1>8, <1>10
  <2>2. k \in 1..(n + 1) /\ b[k] = a[k]
    BY <1>5
  <2> QED BY <2>1, <2>2
<1>15. MailStands(x)
  BY <1>5, <1>8, <1>10, <1>13, <1>14 DEF MailStands
<1>16. Grows(mail[m].attempts, x.attempts)
  BY <1>0, <1>5, <1>8 DEF Grows
<1> QED BY <1>1, <1>8, <1>9, <1>15, <1>16, MailStep

\* A damaged receipt or handoff proves less, never more.
LEMMA SpoilKeeps ==
    ASSUME HistInv, NEW m \in Mails, Spoil(m) PROVE HistInv'
<1>1. /\ mail' = [mail EXCEPT ![m].intact = FALSE]
      /\ UNCHANGED <<left, build, ledger, reported>>
  BY DEF Spoil
<1>2. /\ MailStands(mail[m]) /\ mail[m] \in MailRecords /\ Len(mail[m].attempts) \in Nat
  BY MailParts
<1>3. PICK x \in MailRecords : x = [mail[m] EXCEPT !.intact = FALSE]
  BY <1>2 DEF MailRecords
<1>4. /\ x.attempts = mail[m].attempts /\ x.at = mail[m].at /\ x.records = mail[m].records
      /\ x.status = mail[m].status /\ x.receipt = mail[m].receipt
      /\ (x.reached <=> mail[m].reached) /\ (x.cancelled <=> mail[m].cancelled)
  BY <1>2, <1>3 DEF MailRecords
<1>5. mail' = [mail EXCEPT ![m] = x]
  BY <1>1, <1>3
<1>6. MailStands(x)
  BY <1>2, <1>4 DEF MailStands
<1>7. Grows(mail[m].attempts, x.attempts)
  BY <1>2, <1>4 DEF Grows
<1> QED BY <1>1, <1>4, <1>5, <1>6, <1>7, MailStep

---------------------------------------------------------------------------
(* Composition.                                                            *)

\* A mail without attempts becomes x, and its message in the ledger l.
LEMMA ComposedStep ==
    ASSUME HistInv, NEW m \in Mails, NEW x \in MailRecords, NEW l \in Notes,
           mail[m].at = "none", x.attempts = mail[m].attempts, ~x.reached, x.receipt = 0,
           x.status \in {"none", "published"}, x.at # "ready" => l = Unsent,
           x.at = "ready" => l = [Unsent EXCEPT !.status = "prepared"],
           mail' = [mail EXCEPT ![m] = x], ledger' = [ledger EXCEPT ![m] = l],
           UNCHANGED <<reported, build>>, build.at \in {"idle", "done"},
           \A p \in left' : p \in left \/
                (p[2] = m /\ \E k \in Mails : /\ k # m /\ mail[k].reached
                                              /\ Equivalents(p[1]) \cap mail[k].records # {})
    PROVE  HistInv'
<1>1. /\ mail \in [Mails -> MailRecords] /\ ledger \in [Mails -> Notes]
      /\ \A k \in Mails : mail'[k] = IF k = m THEN x ELSE mail[k]
      /\ \A k \in Mails : ledger'[k] = IF k = m THEN l ELSE ledger[k]
      /\ \A k \in Mails : mail'[k].attempts = mail[k].attempts
  BY DEF HistInv, HistTypes
<1>2. HistTypes'
  BY <1>1 DEF HistInv, HistTypes
<1>3. /\ mail[m].attempts = <<>> /\ ledger[m] = Unsent /\ ~mail[m].reached
      /\ Len(mail[m].attempts) = 0
  <2>1. mail[m].attempts = <<>> /\ ledger[m] = Unsent /\ Len(mail[m].attempts) = 0
    BY MailParts, EmptySeq DEF MailStands, LedgerStands
  <2> QED BY <2>1, MailParts DEF MailStands
<1>4. \A k \in Mails : MailStands(mail'[k])
  <2>1. MailStands(x)
    BY <1>3 DEF MailStands
  <2> QED BY <1>1, <2>1, MailParts
<1>5. \A k \in Mails : LedgerStands(k)'
  <2>1. l.receipt = 0 /\ l.status \in {"none", "prepared"} /\ (x.at = "ready" => l.status # "none")
    BY DEF Unsent
  <2>2. NoteStands(x.attempts, l.status, l.receipt)
    BY <2>1 DEF NoteStands, Words
  <2> QED BY <1>1, <2>1, <2>2, MailParts DEF LedgerStands
<1>6. BuildStands(build)'
  <2>1. BuildStands(build) /\ build' = build
    BY DEF HistInv
  <2>2. \A k \in Mails : mail[k].at = "ready" => mail'[k].at = "ready"
    BY <1>1
  <2> QED BY <1>1, <2>1, <2>2 DEF BuildStands
<1>7. ReportedStands'
  BY <1>1 DEF HistInv, ReportedStands
<1>8. LeftOutWasSent'
  <2> SUFFICES ASSUME NEW p \in left'
               PROVE  \E k \in Mails : /\ k # p[2] /\ mail'[k].reached
                                       /\ Equivalents(p[1]) \cap mail'[k].records # {}
    BY DEF LeftOutWasSent, Equivalents
  <2>1. PICK k \in Mails : /\ k # p[2] /\ mail[k].reached
                           /\ Equivalents(p[1]) \cap mail[k].records # {}
    BY DEF HistInv, LeftOutWasSent
  <2>2. mail'[k] = mail[k]
    BY <1>1, <1>3, <2>1
  <2> QED BY <2>1, <2>2
<1>9. AcceptanceIsLearned'
  <2> SUFFICES ASSUME NEW k \in Mails, build.at = "done", build.complete,
                      build.entries[k].status = "smtp_accepted"
               PROVE  "smtp_accepted" \in {ledger'[k].status, build.offers[k].status}
    BY DEF AcceptanceIsLearned
  <2>1. "smtp_accepted" \in {ledger[k].status, build.offers[k].status}
    BY DEF HistInv, AcceptanceIsLearned
  <2>2. k = m => ledger[k].status = "none"
    BY <1>3 DEF Unsent
  <2> QED BY <1>1, <2>1, <2>2
<1> QED BY <1>2, <1>4, <1>5, <1>6, <1>7, <1>8, <1>9 DEF HistInv

\* A mail is composed without the records already reported, which are set down as
\* left out.
LEMMA ComposeMailKeeps ==
    ASSUME HistInv, NEW m \in Mails, ComposeMail(m) PROVE HistInv'
<1>1. PICK c \in Candidates(m) :
        LET kept == {r \in c.records : ~AlreadyReported(r)} IN
        IF c.sound
        THEN /\ mail' = [mail EXCEPT ![m].at = "ready", ![m].records = kept,
                                     ![m].status = "published"]
             /\ left' = left \cup {<<r, m>> : r \in c.records \ kept}
             /\ ledger' = [ledger EXCEPT ![m].status = "prepared"]
        ELSE /\ mail' = [mail EXCEPT ![m].at = "refused"]
             /\ left' = left /\ ledger' = ledger
  BY DEF ComposeMail
<1>2. /\ mail[m].at = "none" /\ build.at \in {"idle", "done"}
      /\ UNCHANGED <<reported, build>>
  BY DEF ComposeMail
<1>3. /\ mail[m] \in MailRecords /\ MailStands(mail[m]) /\ ledger[m] = Unsent
      /\ mail[m].attempts = <<>> /\ Len(mail[m].attempts) = 0
  BY <1>2, MailParts, EmptySeq DEF MailStands, LedgerStands
<1>4. ~mail[m].reached /\ mail[m].receipt = 0 /\ mail[m].status \in {"none", "published"}
  BY <1>3 DEF MailStands
<1>5. ledger \in [Mails -> Notes]
  BY DEF HistInv, HistTypes
<1>6. CASE c.sound
  <2> DEFINE kept == {r \in c.records : ~AlreadyReported(r)}
  <2>1. kept \in SUBSET Found
    BY DEF Candidates, Found
  <2>2. /\ mail' = [mail EXCEPT ![m].at = "ready", ![m].records = kept,
                                ![m].status = "published"]
        /\ left' = left \cup {<<r, m>> : r \in c.records \ kept}
        /\ ledger' = [ledger EXCEPT ![m].status = "prepared"]
    BY <1>1, <1>6
  <2>3. PICK x \in MailRecords :
            x = [mail[m] EXCEPT !.at = "ready", !.records = kept, !.status = "published"]
    <3> HIDE DEF kept
    <3> QED BY <1>3, <2>1 DEF MailRecords
  <2>4. /\ x.at = "ready" /\ x.status = "published" /\ x.attempts = mail[m].attempts
        /\ (x.reached <=> mail[m].reached) /\ x.receipt = mail[m].receipt
    <3> HIDE DEF kept
    <3> QED BY <1>3, <2>3 DEF MailRecords
  <2>5. PICK l \in Notes : l = [Unsent EXCEPT !.status = "prepared"]
    BY DEF Notes, Unsent, NoteWords
  <2>6. ledger' = [ledger EXCEPT ![m] = l]
    BY <1>3, <2>2, <2>5
  <2>7. mail' = [mail EXCEPT ![m] = x]
    <3> HIDE DEF kept
    <3> QED BY <2>2, <2>3
  <2>8. ASSUME NEW p \in left', p \notin left
        PROVE  p[2] = m /\ \E k \in Mails : /\ k # m /\ mail[k].reached
                                            /\ Equivalents(p[1]) \cap mail[k].records # {}
    <3>1. PICK r \in c.records : p = <<r, m>> /\ AlreadyReported(r)
      BY <2>2, <2>8
    <3>2. PICK q \in Equivalents(r), k \in Mails :
                <<q, k>> \in reported /\ mail[k].status = "smtp_accepted"
      BY <3>1 DEF AlreadyReported, ReportedUnchanged
    <3>3. q \in mail[k].records /\ mail[k].at = "ready"
      BY <3>2 DEF HistInv, ReportedStands
    <3>4. mail[k].reached
      BY <3>2, MailParts DEF MailStands
    <3> QED BY <1>2, <3>1, <3>2, <3>3, <3>4
  <2>9. \A p \in left' : p \in left \/
                (p[2] = m /\ \E k \in Mails : /\ k # m /\ mail[k].reached
                                              /\ Equivalents(p[1]) \cap mail[k].records # {})
    BY <2>8, Zenon
  <2>10. /\ x.at # "ready" => l = Unsent
         /\ x.at = "ready" => l = [Unsent EXCEPT !.status = "prepared"]
         /\ ~x.reached /\ x.receipt = 0 /\ x.status \in {"none", "published"}
    BY <1>4, <2>4, <2>5
  <2> QED BY <1>2, <2>4, <2>6, <2>7, <2>9, <2>10, ComposedStep
<1>7. CASE ~c.sound
  <2>1. mail' = [mail EXCEPT ![m].at = "refused"] /\ left' = left /\ ledger' = ledger
    BY <1>1, <1>7
  <2>2. PICK x \in MailRecords : x = [mail[m] EXCEPT !.at = "refused"]
    BY <1>3 DEF MailRecords
  <2>3. /\ x.at = "refused" /\ x.status = mail[m].status /\ x.attempts = mail[m].attempts
        /\ (x.reached <=> mail[m].reached) /\ x.receipt = mail[m].receipt
    BY <1>3, <2>2 DEF MailRecords
  <2>4. PICK l \in Notes : l = Unsent
    BY DEF Notes, Unsent, NoteWords
  <2>5. ledger' = [ledger EXCEPT ![m] = l]
    BY <1>3, <1>5, <2>1, <2>4
  <2>6. mail' = [mail EXCEPT ![m] = x]
    BY <2>1, <2>2
  <2>7. /\ x.at # "ready" => l = Unsent
        /\ x.at = "ready" => l = [Unsent EXCEPT !.status = "prepared"]
        /\ ~x.reached /\ x.receipt = 0 /\ x.status \in {"none", "published"}
    BY <1>4, <2>3, <2>4
  <2>8. \A p \in left' : p \in left
    BY <2>1
  <2> QED BY <1>2, <2>3, <2>5, <2>6, <2>7, <2>8, ComposedStep
<1> QED BY <1>6, <1>7

---------------------------------------------------------------------------
(* The projection and the ledger.                                          *)

\* A step of the projection leaves the mail alone.
LEMMA ProjectionStep ==
    ASSUME HistInv, UNCHANGED <<mail, reported, left, ledger>>, build' \in BuildRecords,
           BuildStands(build'),
           build'.at = "done" /\ build'.complete => AcceptanceIsLearned'
    PROVE  HistInv'
<1>1. HistTypes'
  BY DEF HistInv, HistTypes
<1>2. \A m \in Mails : MailStands(mail[m])' /\ LedgerStands(m)'
  BY DEF HistInv, LedgerStands
<1>3. BuildStands(build)'
  BY DEF BuildStands
<1>4. ReportedStands' /\ LeftOutWasSent'
  BY DEF HistInv, ReportedStands, LeftOutWasSent, Equivalents
<1>5. AcceptanceIsLearned'
  BY DEF AcceptanceIsLearned
<1> QED BY <1>1, <1>2, <1>3, <1>4, <1>5 DEF HistInv

\* The absent entry claims nothing.
LEMMA NoEntryStands ==
    /\ NoEntry \in EntryRecords
    /\ \A a : EntryStands(a, NoEntry)
<1>1. <<>> \in Seq({"queued", "sending"} \cup Words)
  BY EmptySeq
<1>2. PICK c \in Seq({"queued", "sending"} \cup Words) : c = <<>>
  BY <1>1
<1>3. [status |-> "none", receipt |-> 0, chain |-> c] \in EntryRecords
  BY DEF EntryRecords, NoteWords
<1> QED BY <1>2, <1>3 DEF NoEntry, EntryStands, NoteStands, Words

\* A projection starts from nothing.
LEMMA BuildBeginsKeeps == ASSUME HistInv, BuildBegins PROVE HistInv'
<1>1. PICK newest \in SUBSET Mails, complete \in BOOLEAN :
        build' = [NoBuild EXCEPT !.at = "next", !.todo = newest, !.complete = complete]
  <2> DEFINE all == {m \in Mails : mail[m].at = "ready"}
             few == {m \in all : Cardinality({k \in all : k > m}) < HistoryLimit}
  <2>1. build' = [NoBuild EXCEPT !.at = "next", !.todo = few, !.complete = (few = all)]
    BY DEF BuildBegins
  <2>2. few \in SUBSET Mails /\ (few = all) \in BOOLEAN
    OBVIOUS
  <2> QED BY <2>1, <2>2
<1>2. build' = [at |-> "next", todo |-> newest, on |-> 0, seen |-> Unsent,
                entries |-> [m \in Mails |-> NoEntry], doubt |-> [m \in Mails |-> FALSE],
                complete |-> complete, offers |-> [m \in Mails |-> NoEntry]]
  BY <1>1 DEF NoBuild
<1>3. /\ [m \in Mails |-> NoEntry] \in [Mails -> EntryRecords]
      /\ [m \in Mails |-> FALSE] \in [Mails -> BOOLEAN]
      /\ Unsent \in [status : {"none", "published", "queued"} \cup Settled, receipt : Nat]
  BY NoEntryStands DEF Unsent
<1>4. build' \in BuildRecords
  BY <1>2, <1>3 DEF BuildRecords
<1>5. /\ build'.at = "next" /\ build'.todo = newest /\ build'.on = 0
      /\ build'.entries = [m \in Mails |-> NoEntry]
      /\ build'.offers = [m \in Mails |-> NoEntry]
  BY <1>2
<1>6. 0 \notin Mails
  BY DEF Mails
<1>7. BuildStands(build')
  <2>1. NoEntry.status = "none"
    BY DEF NoEntry
  <2> QED BY <1>5, <1>6, <2>1, NoEntryStands DEF BuildStands
<1> QED BY <1>4, <1>5, <1>7, ProjectionStep DEF BuildBegins

Seens == [status : {"none", "published", "queued"} \cup Settled, receipt : Nat]

\* MayBeSent tells what is under way or done from what has failed.
LEMMA FailedIsNotSent ==
    ASSUME HistInv, NEW m \in Mails, mail[m].status = "failed" PROVE ~MayBeSent(m)
<1>1. /\ \A k \in 1..Len(mail[m].attempts) : mail[m].attempts[k].status = "failed"
      /\ mail[m].reached => \E k \in 1..Len(mail[m].attempts) :
            mail[m].attempts[k].status \in {"uncertain", "smtp_accepted"}
  BY MailParts DEF MailStands
<1>2. ~mail[m].reached
  BY <1>1
<1> QED BY <1>1, <1>2, MailParts DEF MayBeSent

\* What is read of a handoff is so when it is read.
LEMMA ReadHandoffKeeps == ASSUME HistInv, ReadHandoff PROVE HistInv'
<1>0. /\ build \in BuildRecords /\ BuildStands(build)
      /\ build.at = "next" /\ build.todo \in SUBSET Mails /\ build.todo # {}
  BY DEF HistInv, HistTypes, ReadHandoff, BuildRecords
<1>1. PICK m \in Mails : m = Latest(build.todo) /\ m \in build.todo
  <2>1. build.todo \subseteq 1..MailCount /\ MailCount \in Nat
    BY <1>0, HistoryAssumption DEF Mails
  <2> QED BY <1>0, <2>1, LatestIs
<1>2. PICK T \in SUBSET Mails : T = build.todo \ {m}
  BY <1>0
<1>3. /\ build.entries[m].status = "none" /\ m # 0 /\ build.on \notin build.todo
      /\ \A k \in T \cup {build.on} : k # 0 => build.entries[k].status = "none"
      /\ \A k \in T : k # 0 => build.entries[k].status = "none"
  <2>1. m # 0
    BY DEF Mails
  <2> QED BY <1>0, <1>1, <1>2, <2>1 DEF BuildStands
<1>4. UNCHANGED <<mail, reported, left, ledger>>
  BY DEF ReadHandoff
<1>5. CASE mail[m].intact
  <2>1. build' = [build EXCEPT !.todo = @ \ {m}, !.at = "pending", !.on = m,
                               !.seen = [status |-> mail[m].status, receipt |-> mail[m].receipt],
                               !.doubt[m] = MayBeSent(m)]
    BY <1>1, <1>5 DEF ReadHandoff
  <2>2. PICK S \in Seens : S = [status |-> mail[m].status, receipt |-> mail[m].receipt]
    BY MailParts DEF MailRecords, Seens
  <2>3. PICK g \in BOOLEAN : g <=> MayBeSent(m)
    OBVIOUS
  <2>3a. MayBeSent(m) \in BOOLEAN
    <3>1. mail[m].reached \in BOOLEAN
      BY MailParts DEF MailRecords
    <3> QED BY <3>1 DEF MayBeSent
  <2>4. PICK D \in [Mails -> BOOLEAN] : D = [build.doubt EXCEPT ![m] = MayBeSent(m)]
    BY <1>0, <2>3a DEF BuildRecords
  <2>5. (D[m] <=> MayBeSent(m)) /\ \A k \in Mails : k # m => (D[k] <=> build.doubt[k])
    BY <1>0, <2>4 DEF BuildRecords
  <2>6. PICK z \in BuildRecords : z = [build EXCEPT !.todo = T, !.at = "pending", !.on = m]
    BY <1>0 DEF BuildRecords
  <2>7. PICK d \in BuildRecords : d = [z EXCEPT !.seen = S, !.doubt = D]
    BY DEF BuildRecords, Seens
  <2>8. /\ z.at = "pending" /\ z.todo = T /\ z.on = m
        /\ z.entries = build.entries /\ z.offers = build.offers
    BY <1>0, <2>6 DEF BuildRecords
  <2>9. /\ d.at = "pending" /\ d.todo = T /\ d.on = m /\ d.seen = S /\ d.doubt = D
        /\ d.entries = build.entries /\ d.offers = build.offers
    BY <2>7, <2>8 DEF BuildRecords
  <2>10. build' = d
    BY <1>0, <1>2, <2>1, <2>2, <2>4, <2>6, <2>7 DEF BuildRecords
  <2>11. S.receipt \in 0..Len(mail[m].attempts) /\ S.status = mail[m].status
    BY <2>2, MailParts DEF MailStands
  <2>12. S.status = "failed" => ~D[m]
    BY <2>5, <2>11, FailedIsNotSent
  <2>13. BuildStands(d)
    <3>1. \A k \in T \cup {m} : k # 0 => build.entries[k].status = "none"
      BY <1>3
    <3>2. m \notin T
      BY <1>2
    <3>3. \A k \in Mails : build.entries[k].status = "failed_not_sent" => ~D[k]
      BY <1>0, <1>3, <2>5 DEF BuildStands
    <3>4. \A k \in Mails : build.offers[k] = NoEntry
      BY <1>0 DEF BuildStands
    <3> QED BY <2>9, <2>11, <2>12, <3>1, <3>2, <3>3, <3>4, MailParts DEF BuildStands
  <2> QED BY <1>4, <2>9, <2>10, <2>13, ProjectionStep
<1>6. CASE ~mail[m].intact
  <2>1. build' = [build EXCEPT !.todo = @ \ {m}, !.complete = FALSE,
                               !.entries[m].status = "none"]
    BY <1>1, <1>6 DEF ReadHandoff
  <2>2. /\ build.entries \in [Mails -> EntryRecords] /\ build.entries[m] \in EntryRecords
    BY <1>0 DEF BuildRecords
  <2>3. [build.entries[m] EXCEPT !.status = "none"] = build.entries[m]
    BY <1>3, <2>2 DEF EntryRecords
  <2>4. [build.entries EXCEPT ![m].status = "none"] = build.entries
    BY <2>2, <2>3
  <2>5. PICK d \in BuildRecords : d = [build EXCEPT !.todo = T, !.complete = FALSE]
    BY <1>0 DEF BuildRecords
  <2>6. build' = d
    <3>1. build' = [build EXCEPT !.todo = @ \ {m}, !.complete = FALSE,
                                 !.entries = [@ EXCEPT ![m].status = "none"]]
      BY <2>1
    <3>2. build' = [build EXCEPT !.todo = T, !.complete = FALSE, !.entries = build.entries]
      BY <1>0, <1>2, <2>4, <3>1
    <3> QED BY <1>0, <2>5, <3>2 DEF BuildRecords
  <2>7. /\ d.at = "next" /\ d.todo = T /\ d.on = build.on /\ d.doubt = build.doubt
        /\ d.entries = build.entries /\ d.offers = build.offers
    BY <1>0, <2>5 DEF BuildRecords
  <2>8. BuildStands(d)
    BY <1>0, <1>2, <1>3, <2>7 DEF BuildStands
  <2> QED BY <1>4, <2>6, <2>7, <2>8, ProjectionStep
<1> QED BY <1>5, <1>6

\* What was read of one handoff becomes its entry.
LEMMA EnterStep ==
    ASSUME HistInv, build.at \in {"pending", "receipt"}, NEW e \in EntryRecords,
           EntryStands(mail[build.on].attempts, e),
           e.status = "failed_not_sent" => ~build.doubt[build.on],
           UNCHANGED <<mail, reported, left, ledger>>, build' = EnterInto(e)
    PROVE  HistInv'
<1>0. build \in BuildRecords /\ BuildStands(build)
  BY DEF HistInv, HistTypes
<1>1. PICK m \in Mails : m = build.on /\ m \notin build.todo /\ m # 0
  BY <1>0 DEF BuildStands, Mails
<1>2. PICK E \in [Mails -> EntryRecords] : E = [build.entries EXCEPT ![m] = e]
  BY <1>0 DEF BuildRecords
<1>3. E[m] = e /\ \A k \in Mails : k # m => E[k] = build.entries[k]
  BY <1>0, <1>2 DEF BuildRecords
<1>4. PICK z \in BuildRecords : z = [build EXCEPT !.at = "next", !.on = 0, !.seen = Unsent]
  BY <1>0 DEF BuildRecords, Unsent
<1>5. PICK d \in BuildRecords : d = [z EXCEPT !.entries = E]
  BY DEF BuildRecords
<1>6. /\ z.at = "next" /\ z.todo = build.todo /\ z.on = 0
      /\ z.doubt = build.doubt /\ z.offers = build.offers
  BY <1>0, <1>4 DEF BuildRecords
<1>7. /\ d.at = "next" /\ d.todo = build.todo /\ d.on = 0
      /\ d.doubt = build.doubt /\ d.offers = build.offers /\ d.entries = E
  BY <1>5, <1>6 DEF BuildRecords
<1>8. build' = d
  BY <1>0, <1>1, <1>2, <1>4, <1>5 DEF EnterInto, BuildRecords
<1>9. BuildStands(d)
  <2>1. build.todo \subseteq Mails /\ 0 \notin Mails
    BY <1>0 DEF BuildRecords, Mails
  <2>2. \A k \in build.todo \cup {0} : k # 0 => E[k].status = "none"
    BY <1>0, <1>1, <1>3, <2>1 DEF BuildStands
  <2>3. \A k \in Mails : /\ EntryStands(mail[k].attempts, E[k])
                         /\ E[k].status = "failed_not_sent" => ~build.doubt[k]
                         /\ build.offers[k] = NoEntry
    BY <1>0, <1>1, <1>3 DEF BuildStands
  <2> QED BY <1>7, <2>1, <2>2, <2>3 DEF BuildStands
<1> QED BY <1>7, <1>8, <1>9, ProjectionStep

\* Evidence that cannot be resolved is left out, and the projection is not
\* complete.
LEMMA UnresolvedStep ==
    ASSUME HistInv, build.at \in {"pending", "receipt"},
           UNCHANGED <<mail, reported, left, ledger>>, build' = Unresolved
    PROVE  HistInv'
<1>0. build \in BuildRecords /\ BuildStands(build)
  BY DEF HistInv, HistTypes
<1>1. PICK z \in BuildRecords : z = [build EXCEPT !.at = "next", !.on = 0, !.seen = Unsent]
  BY <1>0 DEF BuildRecords, Unsent
<1>2. PICK d \in BuildRecords : d = [z EXCEPT !.complete = FALSE]
  BY DEF BuildRecords
<1>3. /\ z.at = "next" /\ z.todo = build.todo /\ z.on = 0 /\ z.entries = build.entries
      /\ z.doubt = build.doubt /\ z.offers = build.offers
  BY <1>0, <1>1 DEF BuildRecords
<1>4. /\ d.at = "next" /\ d.todo = build.todo /\ d.on = 0 /\ d.entries = build.entries
      /\ d.doubt = build.doubt /\ d.offers = build.offers
  BY <1>2, <1>3 DEF BuildRecords
<1>5. build' = d
  BY <1>0, <1>1, <1>2 DEF Unresolved, BuildRecords
<1>6. BuildStands(d)
  <2>1. build.todo \subseteq Mails /\ 0 \notin Mails
    BY <1>0 DEF BuildRecords, Mails
  <2> QED BY <1>0, <1>4, <2>1 DEF BuildStands
<1> QED BY <1>4, <1>5, <1>6, ProjectionStep

\* The chain up to attempt n has the words of its attempts.
LEMMA ChainStands ==
    ASSUME HistInv, NEW m \in Mails, NEW n \in 0..Len(mail[m].attempts)
    PROVE  /\ Chain(m, n) \in Seq({"queued", "sending"} \cup Words) /\ Len(Chain(m, n)) = n
           /\ \A k \in 1..n : Chain(m, n)[k] = Word(mail[m].attempts[k].status)
<1> DEFINE S == {"queued", "sending"} \cup Words
           F(k) == Word(mail[m].attempts[k].status)
<1>1. n \in Nat /\ \A k \in 1..n : k \in 1..Len(mail[m].attempts)
  BY MailParts
<1>2. \A k \in 1..n : F(k) \in S
  BY <1>1, MailParts DEF AttemptRecords, Settled, Word, Words
<1>3. [k \in 1..n |-> F(k)] \in [1..n -> S]
  BY <1>2
<1>4. Chain(m, n) \in Seq(S)
  <2> HIDE DEF S
  <2> QED BY <1>1, <1>2 DEF Chain
<1>5. Len(Chain(m, n)) = n /\ \A k \in 1..n : Chain(m, n)[k] = F(k)
  <2>1. DOMAIN Chain(m, n) = 1..n
    BY DEF Chain
  <2>2. PICK N \in Nat : N = Len(Chain(m, n)) /\ 1..N = 1..n
    BY <1>4, <2>1, LenProperties
  <2>3. N = n
    BY <1>1, <2>2
  <2> QED BY <2>2, <2>3 DEF Chain
<1> QED BY <1>4, <1>5

\* A retry under way is entered as pending, on the words proved before it.
LEMMA LookPendingKeeps == ASSUME HistInv, LookPending PROVE HistInv'
<1>0. /\ build \in BuildRecords /\ BuildStands(build) /\ build.at = "pending"
      /\ UNCHANGED <<mail, reported, left, ledger>>
  BY DEF HistInv, HistTypes, LookPending
<1>1. PICK m \in Mails : m = build.on
  BY <1>0 DEF BuildStands
<1>2. PICK n \in Nat : n = Len(mail[m].attempts)
  BY MailParts
<1> DEFINE e == [status |-> "pending", receipt |-> 0, chain |-> Chain(m, n - 1)]
<1>3. \/ build' = [build EXCEPT !.at = "receipt"]
      \/ build' = Unresolved
      \/ n > 1 /\ build' = EnterInto(e)
  BY <1>1, <1>2, Zenon DEF LookPending
<1>4. CASE build' = [build EXCEPT !.at = "receipt"]
  <2>1. PICK d \in BuildRecords : d = [build EXCEPT !.at = "receipt"]
    BY <1>0 DEF BuildRecords
  <2>2. /\ d.at = "receipt" /\ d.todo = build.todo /\ d.on = build.on /\ d.doubt = build.doubt
        /\ d.entries = build.entries /\ d.offers = build.offers /\ d.seen = build.seen
    BY <1>0, <2>1 DEF BuildRecords
  <2>3. BuildStands(d)
    BY <1>0, <2>2 DEF BuildStands
  <2> QED BY <1>0, <1>4, <2>1, <2>2, <2>3, ProjectionStep
<1>5. CASE build' = Unresolved
  BY <1>0, <1>5, UnresolvedStep
<1>6. CASE n > 1 /\ build' = EnterInto(e)
  <2>1. n - 1 \in 0..Len(mail[m].attempts)
    BY <1>2, <1>6
  <2>2. e \in EntryRecords
    BY <2>1, ChainStands DEF EntryRecords, NoteWords
  <2>3. /\ e.status = "pending" /\ e.receipt = 0
    OBVIOUS
  <2>4. EntryStands(mail[m].attempts, e)
    BY <2>3 DEF EntryStands, NoteStands, Words
  <2>5. build' = EnterInto(e)
    BY <1>6
  <2> HIDE DEF e
  <2> QED BY <1>0, <1>1, <2>2, <2>3, <2>4, <2>5, EnterStep
<1> QED BY <1>3, <1>4, <1>5, <1>6

\* A word rests on the receipts of the attempts up to the one it names.
LEMMA LookReceiptKeeps == ASSUME HistInv, LookReceipt PROVE HistInv'
<1>0. /\ build \in BuildRecords /\ BuildStands(build) /\ build.at = "receipt"
      /\ UNCHANGED <<mail, reported, left, ledger>>
  BY DEF HistInv, HistTypes, LookReceipt
<1>1. PICK m \in Mails : m = build.on
  BY <1>0 DEF BuildStands
<1>2. PICK n \in Nat : n = build.seen.receipt /\ n \in 0..Len(mail[m].attempts)
  BY <1>0, <1>1, MailParts DEF BuildStands
<1> DEFINE e == ReceiptEntry(m, build.seen)
<1>3. build' = IF e = NoEntry THEN Unresolved ELSE EnterInto(e)
  BY <1>1 DEF LookReceipt
<1>4. CASE e = NoEntry
  BY <1>0, <1>3, <1>4, UnresolvedStep
<1>5. CASE e # NoEntry /\ n = 0
  <2>1. e = [NoEntry EXCEPT !.status = "unresolved"]
    BY <1>2, <1>5 DEF ReceiptEntry
  <2>2. e \in EntryRecords /\ e.status = "unresolved" /\ e.receipt = 0
    BY <2>1, NoEntryStands DEF EntryRecords, NoteWords, NoEntry
  <2>3. EntryStands(mail[m].attempts, e)
    BY <2>2 DEF EntryStands, NoteStands, Words
  <2>4. build' = EnterInto(e)
    BY <1>3, <1>5
  <2> HIDE DEF e
  <2> QED BY <1>0, <1>1, <2>2, <2>3, <2>4, EnterStep
<1>6. CASE e # NoEntry /\ n # 0
  <2> DEFINE s == build.seen.status
  <2>1. /\ e = [status |-> Word(s), receipt |-> n, chain |-> Chain(m, n)]
        /\ mail[m].attempts[n].status = s /\ Conclusive(m, n)
    BY <1>2, <1>6 DEF ReceiptEntry
  <2>2. /\ n \in 1..n /\ n \in 1..Len(mail[m].attempts)
        /\ \A k \in 1..n : k \in 1..Len(mail[m].attempts)
    BY <1>2, <1>6, MailParts
  <2>3. /\ \A k \in 1..n : mail[m].attempts[k].status \in Settled
        /\ mail[m].attempts[n].proof
        /\ \A k \in 1..n : k # n => mail[m].attempts[k].status \in {"failed", "uncertain"}
    <3>1. \A k \in 1..n : mail[m].attempts[k].proof
      BY <2>1 DEF Conclusive, Proved
    <3>2. \A k \in 1..Len(mail[m].attempts) :
            mail[m].attempts[k].proof => mail[m].attempts[k].status \in Settled
      BY MailParts DEF MailStands
    <3>3. \A k \in 1..n : k # n => k \in 1..(n - 1)
      BY <1>2
    <3> QED BY <2>1, <2>2, <3>1, <3>2, <3>3 DEF Conclusive, Proved, Settled
  <2>4. s \in Settled /\ Word(s) \in Words
    BY <2>1, <2>2, <2>3 DEF Settled, Word, Words
  <2>5. e \in EntryRecords
    BY <1>2, <2>1, <2>4, ChainStands DEF EntryRecords, NoteWords
  <2>6. /\ e.status = Word(s) /\ e.receipt = n /\ Len(e.chain) = n
        /\ \A k \in 1..n : e.chain[k] = Word(mail[m].attempts[k].status)
    BY <1>2, <2>1, ChainStands
  <2>7. Word(s) = "failed_not_sent" => s = "failed"
    BY <2>4 DEF Word, Settled
  <2>8. s = "failed" => \A k \in 1..n : mail[m].attempts[k].status = "failed"
    BY <2>1, <2>2, <2>3 DEF Conclusive, Settled
  <2>9. EntryStands(mail[m].attempts, e)
    <3>1. NoteStands(mail[m].attempts, e.status, e.receipt)
      <4> HIDE DEF s, e
      <4> QED BY <2>1, <2>2, <2>3, <2>4, <2>6, <2>7, <2>8 DEF NoteStands
    <3> HIDE DEF e
    <3> QED BY <2>6, <3>1 DEF EntryStands
  <2>10. e.status = "failed_not_sent" => ~build.doubt[build.on]
    BY <1>0, <2>6, <2>7 DEF BuildStands
  <2>11. build' = EnterInto(e)
    BY <1>3, <1>6
  <2> HIDE DEF e, s
  <2> QED BY <1>0, <1>1, <2>5, <2>9, <2>10, <2>11, EnterStep
<1> QED BY <1>4, <1>5, <1>6

\* An acceptance can be offered to a ledger that does not have it yet.
LEMMA AcceptanceIsOffered ==
    ASSUME HistInv, NEW m \in Mails, build.entries[m].status = "smtp_accepted",
           ledger[m].status # "smtp_accepted"
    PROVE  /\ ledger[m].status # "none"
           /\ Offer(build.entries[m], ledger[m]).status = "smtp_accepted"
<1> DEFINE e == build.entries[m]
           msg == ledger[m]
           a == mail[m].attempts
<1>1. /\ e \in EntryRecords /\ msg \in Notes
      /\ EntryStands(a, e) /\ MailStands(mail[m]) /\ LedgerStands(m) /\ Len(a) \in Nat
  BY MailParts DEF HistInv, HistTypes, BuildRecords
<1>2. /\ e.receipt \in 1..Len(a) /\ Word(a[e.receipt].status) = "smtp_accepted"
      /\ Len(e.chain) = e.receipt
      /\ \A k \in 1..e.receipt : e.chain[k] = Word(a[k].status)
  BY <1>1 DEF EntryStands, NoteStands, Words
<1>3. a[e.receipt].status = "smtp_accepted" /\ e.receipt = Len(a)
  <2>1. a[e.receipt].status = "smtp_accepted"
    BY <1>2 DEF Word
  <2>2. \A k \in 1..Len(a) : k < Len(a) => a[k].status # "smtp_accepted"
    BY <1>1 DEF MailStands
  <2> HIDE DEF a, e
  <2> QED BY <1>1, <1>2, <2>1, <2>2
<1>4. mail[m].at = "ready" /\ msg.status # "none"
  <2>1. a # <<>>
    BY <1>1, <1>2, EmptySeq
  <2> QED BY <1>1, <2>1 DEF MailStands, LedgerStands
<1>5. [e EXCEPT !.chain = <<>>].status = "smtp_accepted"
  BY <1>1 DEF EntryRecords
<1>6. CASE msg.status \in Fresh
  <2>1. msg.receipt = 0
    BY <1>1, <1>6 DEF LedgerStands, NoteStands, Fresh, Words
  <2>2. e.receipt # 0
    BY <1>1, <1>2
  <2> QED BY <1>4, <1>5, <1>6, <2>1, <2>2 DEF Offer
<1>7. CASE msg.status \in {"failed_not_sent", "uncertain"}
  <2>1. /\ msg.receipt \in 1..Len(a) /\ Word(a[msg.receipt].status) = msg.status
    BY <1>1, <1>7 DEF LedgerStands, NoteStands, Words
  <2>2. msg.receipt # e.receipt
    BY <1>2, <1>7, <2>1
  <2>3. PICK k \in 1..e.receipt : k = msg.receipt /\ k < e.receipt
    <3> HIDE DEF a, e, msg
    <3> QED BY <1>1, <1>2, <1>3, <2>1, <2>2
  <2>4. e.chain[k] = msg.status
    BY <1>2, <2>1, <2>3
  <2>5. Replaces(e, msg, k)
    <3>1. e.status = "smtp_accepted"
      OBVIOUS
    <3> HIDE DEF a, e, msg
    <3> QED BY <1>2, <1>7, <2>3, <2>4, <3>1 DEF Replaces, Earlier
  <2>6. k \in DOMAIN e.chain
    <3>1. DOMAIN e.chain = 1..Len(e.chain)
      BY <1>1, LenProperties DEF EntryRecords
    <3> QED BY <1>2, <2>3, <3>1
  <2>7. Offer(e, msg) = [e EXCEPT !.chain = <<>>]
    <3>1. e.status # "pending" /\ msg.receipt # e.receipt
      BY <2>2
    <3>2. \E j \in DOMAIN e.chain : Replaces(e, msg, j)
      BY <2>5, <2>6
    <3> HIDE DEF a, e, msg
    <3> QED BY <3>1, <3>2 DEF Offer
  <2> QED BY <1>4, <1>5, <2>7
<1> QED
  <2>1. msg.status \in Fresh \cup {"failed_not_sent", "uncertain"}
    BY <1>1, <1>4 DEF Notes, NoteWords, Fresh, Words
  <2> QED BY <1>6, <1>7, <2>1

\* An offer differs from its entry in its chain only.
LEMMA OfferStands ==
    ASSUME NEW e \in EntryRecords, NEW msg, Offer(e, msg) # NoEntry
    PROVE  /\ Offer(e, msg) \in EntryRecords
           /\ Offer(e, msg).status = e.status /\ Offer(e, msg).receipt = e.receipt
<1>1. PICK c \in Seq({"queued", "sending"} \cup Words) : c = <<>>
  BY EmptySeq
<1>2. PICK o \in EntryRecords : o = [e EXCEPT !.chain = c]
  BY DEF EntryRecords
<1>3. o.status = e.status /\ o.receipt = e.receipt
  BY <1>2 DEF EntryRecords
<1>4. Offer(e, msg) = o
  BY <1>1, <1>2 DEF Offer
<1> QED BY <1>3, <1>4

\* A projection ends with offers, or keeps what fits its limit.
LEMMA BuildEndsKeeps == ASSUME HistInv, BuildEnds PROVE HistInv'
<1> DEFINE Sure(m) == /\ ledger[m].status # "none"
                      /\ build.entries[m].status \notin {"none", "unresolved"}
           Given(m) == IF Sure(m) THEN Offer(build.entries[m], ledger[m]) ELSE NoEntry
           Left(kept, m) == IF m > kept THEN build.entries[m] ELSE NoEntry
<1>0. /\ build \in BuildRecords /\ BuildStands(build) /\ build.at = "next" /\ build.todo = {}
      /\ UNCHANGED <<mail, reported, left, ledger>>
      /\ build.entries \in [Mails -> EntryRecords]
      /\ \A m \in Mails : build.entries[m] \in EntryRecords
  BY DEF HistInv, HistTypes, BuildEnds, BuildRecords
<1>1. \/ build' = [build EXCEPT !.at = "done", !.offers = [m \in Mails |-> Given(m)]]
      \/ \E kept \in Mails \cup {0} :
            build' = [build EXCEPT !.at = "done", !.complete = FALSE,
                                   !.entries = [m \in Mails |-> Left(kept, m)]]
  BY DEF BuildEnds
<1>2. CASE build' = [build EXCEPT !.at = "done", !.offers = [m \in Mails |-> Given(m)]]
  <2>1. ASSUME NEW m \in Mails
        PROVE  /\ Given(m) \in EntryRecords
               /\ Given(m) # NoEntry => /\ Given(m).status = build.entries[m].status
                                      /\ Given(m).receipt = build.entries[m].receipt
                                      /\ Given(m).status # "none" /\ mail[m].at = "ready"
    <3>1. CASE Given(m) = NoEntry
      BY <3>1, NoEntryStands
    <3>2. CASE Given(m) # NoEntry
      <4>1. Sure(m) /\ Given(m) = Offer(build.entries[m], ledger[m])
        BY <3>2
      <4>2. Given(m) \in EntryRecords /\ Given(m).status = build.entries[m].status
            /\ Given(m).receipt = build.entries[m].receipt
        BY <1>0, <3>2, <4>1, OfferStands
      <4>3. mail[m].at = "ready"
        BY <4>1, MailParts DEF LedgerStands, Unsent
      <4> QED BY <4>1, <4>2, <4>3
    <3> QED BY <3>1, <3>2
  <2>2. PICK O \in [Mails -> EntryRecords] : O = [m \in Mails |-> Given(m)]
    <3> HIDE DEF Given
    <3> QED BY <2>1
  <2>3. \A m \in Mails : O[m] = Given(m)
    <3> HIDE DEF Given
    <3> QED BY <2>2
  <2>4. PICK d \in BuildRecords : d = [build EXCEPT !.at = "done", !.offers = O]
    BY <1>0 DEF BuildRecords
  <2>5. /\ d.at = "done" /\ d.todo = {} /\ d.on = build.on /\ d.entries = build.entries
        /\ d.doubt = build.doubt /\ d.offers = O
    BY <1>0, <2>4 DEF BuildRecords
  <2>6. build' = d
    <3> HIDE DEF Given
    <3> QED BY <1>2, <2>2, <2>4
  <2>7. \A m \in Mails : O[m] # NoEntry =>
            /\ mail[m].at = "ready" /\ O[m].status # "none"
            /\ O[m].status = build.entries[m].status /\ O[m].receipt = build.entries[m].receipt
    <3> HIDE DEF Given
    <3> QED BY <2>1, <2>3
  <2>8. BuildStands(d)
    BY <1>0, <2>5, <2>7 DEF BuildStands
  <2>9. AcceptanceIsLearned'
    <3> SUFFICES ASSUME NEW m \in Mails, build.entries[m].status = "smtp_accepted",
                        ledger[m].status # "smtp_accepted"
                 PROVE  O[m].status = "smtp_accepted"
      BY <1>0, <2>5, <2>6 DEF AcceptanceIsLearned
    <3>1. Sure(m) /\ Offer(build.entries[m], ledger[m]).status = "smtp_accepted"
      BY AcceptanceIsOffered
    <3> QED BY <2>3, <3>1
  <2> QED BY <1>0, <2>6, <2>8, <2>9, ProjectionStep
<1>3. ASSUME NEW kept \in Mails \cup {0},
             build' = [build EXCEPT !.at = "done", !.complete = FALSE,
                                    !.entries = [m \in Mails |-> Left(kept, m)]]
      PROVE  HistInv'
  <2>1. \A m \in Mails : Left(kept, m) = build.entries[m] \/ Left(kept, m) = NoEntry
    OBVIOUS
  <2>2. PICK E \in [Mails -> EntryRecords] : E = [m \in Mails |-> Left(kept, m)]
    <3> HIDE DEF Left
    <3> QED BY <1>0, <2>1, NoEntryStands
  <2>3. \A m \in Mails : E[m] = build.entries[m] \/ E[m] = NoEntry
    <3> HIDE DEF Left
    <3> QED BY <2>1, <2>2
  <2>4. PICK d \in BuildRecords : d = [build EXCEPT !.at = "done", !.complete = FALSE, !.entries = E]
    BY <1>0 DEF BuildRecords
  <2>5. /\ d.at = "done" /\ d.todo = {} /\ d.on = build.on /\ d.entries = E
        /\ d.doubt = build.doubt /\ d.offers = build.offers /\ ~d.complete
    BY <1>0, <2>4 DEF BuildRecords
  <2>6. build' = d
    <3> HIDE DEF Left
    <3> QED BY <1>3, <2>2, <2>4
  <2>7. /\ \A m \in {build.on} : m # 0 => E[m].status = "none"
        /\ \A m \in Mails : /\ EntryStands(mail[m].attempts, E[m])
                            /\ E[m].status = "failed_not_sent" => ~build.doubt[m]
                            /\ build.offers[m] = NoEntry
    <3>1. NoEntry.status = "none"
      BY DEF NoEntry
    <3>2. build.on \in Mails \cup {0}
      BY <1>0 DEF BuildRecords
    <3> QED BY <1>0, <2>3, <3>1, <3>2, NoEntryStands DEF BuildStands
  <2>8. BuildStands(d)
    BY <1>0, <2>5, <2>7 DEF BuildStands
  <2> QED BY <1>0, <2>5, <2>6, <2>8, ProjectionStep
<1> QED BY <1>1, <1>2, <1>3

\* The worker takes over what it was offered: the word of the entry.
LEMMA AdoptKeeps ==
    ASSUME HistInv, NEW m \in Mails, Adopt(m) PROVE HistInv'
<1>0. /\ build \in BuildRecords /\ BuildStands(build) /\ ledger \in [Mails -> Notes]
      /\ build.at = "done" /\ build.offers[m] # NoEntry
      /\ UNCHANGED <<mail, reported, left>>
      /\ build.offers \in [Mails -> EntryRecords] /\ build.offers[m] \in EntryRecords
  BY DEF HistInv, HistTypes, Adopt, BuildRecords
<1>1. PICK l \in Notes : l = [status |-> build.offers[m].status,
                              receipt |-> build.offers[m].receipt]
  BY <1>0 DEF Notes, EntryRecords
<1>2. /\ l.status = build.entries[m].status /\ l.receipt = build.entries[m].receipt
      /\ l.status # "none" /\ mail[m].at = "ready"
  BY <1>0, <1>1 DEF BuildStands
<1>3. /\ ledger' = [ledger EXCEPT ![m] = l] /\ ledger' \in [Mails -> Notes]
      /\ ledger'[m] = l /\ \A k \in Mails : k # m => ledger'[k] = ledger[k]
  BY <1>0, <1>1 DEF Adopt
<1>4. PICK O \in [Mails -> EntryRecords] : O = [build.offers EXCEPT ![m] = NoEntry]
  BY <1>0, NoEntryStands
<1>5. O[m] = NoEntry /\ \A k \in Mails : k # m => O[k] = build.offers[k]
  BY <1>0, <1>4
<1>6. PICK d \in BuildRecords : d = [build EXCEPT !.offers = O]
  BY <1>0 DEF BuildRecords
<1>7. /\ d.at = "done" /\ d.todo = build.todo /\ d.on = build.on /\ d.entries = build.entries
      /\ d.doubt = build.doubt /\ d.offers = O /\ (d.complete <=> build.complete)
  BY <1>0, <1>6 DEF BuildRecords
<1>8. build' = d
  BY <1>0, <1>4, <1>6 DEF Adopt
<1>9. BuildStands(build)'
  <2>1. BuildStands(d)
    BY <1>0, <1>5, <1>7 DEF BuildStands
  <2> QED BY <1>0, <1>8, <2>1 DEF BuildStands
<1>10. \A k \in Mails : LedgerStands(k)'
  <2>1. NoteStands(mail[m].attempts, l.status, l.receipt)
    BY <1>2, MailParts DEF EntryStands
  <2> QED BY <1>0, <1>2, <1>3, <2>1, MailParts DEF LedgerStands
<1>11. AcceptanceIsLearned'
  <2> SUFFICES ASSUME NEW k \in Mails, build.complete, build.entries[k].status = "smtp_accepted"
               PROVE  "smtp_accepted" \in {ledger'[k].status, O[k].status}
    BY <1>7, <1>8 DEF AcceptanceIsLearned
  <2>1. "smtp_accepted" \in {ledger[k].status, build.offers[k].status}
    BY <1>0 DEF HistInv, AcceptanceIsLearned
  <2> QED BY <1>2, <1>3, <1>5, <2>1
<1>12. HistTypes'
  BY <1>0, <1>3, <1>8 DEF HistInv, HistTypes
<1>13. \A k \in Mails : MailStands(mail[k])'
  BY <1>0 DEF HistInv
<1>14. ReportedStands' /\ LeftOutWasSent'
  BY <1>0 DEF HistInv, ReportedStands, LeftOutWasSent, Equivalents
<1> QED BY <1>9, <1>10, <1>11, <1>12, <1>13, <1>14 DEF HistInv

\* Nothing has been sent, built or noted.
LEMMA HistInvInit == HistInit => HistInv
<1> SUFFICES ASSUME HistInit PROVE HistInv
  OBVIOUS
<1>1. PICK a \in Seq(AttemptRecords) : a = <<>> /\ Len(a) = 0
  BY EmptySeq
<1>2. NoMail \in MailRecords
  <2>1. [at |-> "none", records |-> {}, attempts |-> a, status |-> "none", receipt |-> 0,
         intact |-> TRUE, cancelled |-> FALSE, reached |-> FALSE] \in MailRecords
    BY DEF MailRecords
  <2> QED BY <1>1, <2>1 DEF NoMail
<1>3. /\ NoMail.at = "none" /\ NoMail.attempts = a /\ NoMail.status = "none"
      /\ NoMail.receipt = 0 /\ ~NoMail.reached
  BY <1>1 DEF NoMail
<1>4. Unsent \in Notes /\ Unsent.status = "none" /\ Unsent.receipt = 0
  BY DEF Unsent, Notes, NoteWords
<1>5. /\ \A m \in Mails : mail[m] = NoMail
      /\ \A m \in Mails : ledger[m] = Unsent
      /\ build = NoBuild
  BY DEF HistInit
<1>6. NoBuild \in BuildRecords
  <2>1. /\ [m \in Mails |-> NoEntry] \in [Mails -> EntryRecords]
        /\ [m \in Mails |-> FALSE] \in [Mails -> BOOLEAN]
    BY NoEntryStands
  <2>2. Unsent \in [status : {"none", "published", "queued"} \cup Settled, receipt : Nat]
    BY DEF Unsent
  <2> QED BY <2>1, <2>2 DEF NoBuild, BuildRecords
<1>7. HistTypes
  BY <1>2, <1>4, <1>6 DEF HistInit, HistTypes
<1>8. \A m \in Mails : MailStands(mail[m])
  <2>1. MailStands(NoMail)
    BY <1>1, <1>3 DEF MailStands
  <2> QED BY <1>5, <2>1
<1>9. \A m \in Mails : LedgerStands(m)
  BY <1>3, <1>4, <1>5 DEF LedgerStands, NoteStands, Words
<1>10. BuildStands(build)
  <2>1. /\ NoBuild.at = "idle" /\ NoBuild.todo = {} /\ NoBuild.on = 0
        /\ NoBuild.entries = [m \in Mails |-> NoEntry]
        /\ NoBuild.offers = [m \in Mails |-> NoEntry]
    BY DEF NoBuild
  <2>2. NoEntry.status = "none"
    BY DEF NoEntry
  <2> QED BY <1>5, <2>1, <2>2, NoEntryStands DEF BuildStands
<1>11. AcceptanceIsLearned
  <2>1. NoBuild.at = "idle"
    BY DEF NoBuild
  <2> QED BY <1>5, <2>1 DEF AcceptanceIsLearned
<1>12. ReportedStands /\ LeftOutWasSent
  BY DEF HistInit, ReportedStands, LeftOutWasSent
<1> QED BY <1>7, <1>8, <1>9, <1>10, <1>11, <1>12 DEF HistInv

\* Every step of the mails, the projection and the worker keeps HistInv.
LEMMA HistInvStep == ASSUME HistInv, [HistNext]_histVars PROVE HistInv'
<1>1. ASSUME NEW m \in Mails,
             \/ ComposeMail(m) \/ EnqueueMail(m) \/ ClaimMail(m) \/ FinishMail(m)
             \/ RetryMail(m) \/ CancelQueued(m) \/ Spoil(m) \/ Adopt(m)
      PROVE  HistInv'
  BY <1>1, ComposeMailKeeps, EnqueueMailKeeps, ClaimMailKeeps, FinishMailKeeps, RetryMailKeeps,
     CancelQueuedKeeps, SpoilKeeps, AdoptKeeps
<1>2. CASE \/ BuildBegins \/ ReadHandoff \/ LookPending \/ LookReceipt \/ BuildEnds
  BY <1>2, BuildBeginsKeeps, ReadHandoffKeeps, LookPendingKeeps, LookReceiptKeeps, BuildEndsKeeps
<1>3. CASE UNCHANGED histVars
  <2>1. /\ mail' = mail /\ reported' = reported /\ left' = left /\ build' = build
        /\ ledger' = ledger
    BY <1>3 DEF histVars
  <2>2. BuildStands(build)'
    BY <2>1 DEF HistInv, BuildStands
  <2>3. \A k \in Mails : MailStands(mail[k])' /\ LedgerStands(k)'
    BY <2>1 DEF HistInv, LedgerStands
  <2> QED BY <2>1, <2>2, <2>3 DEF HistInv, HistTypes, ReportedStands, LeftOutWasSent,
              AcceptanceIsLearned, Equivalents
<1> QED BY <1>1, <1>2, <1>3 DEF HistNext

\* What the projection and the ledger rest on, for any number of mails, retries and
\* readings: receipts are final, a settled attempt does not change and the words of the
\* worker's notes are those of the receipts they name (_verified_retry_receipts,
\* matching_delivery_entry).
THEOREM HistoryStands == HistSpec => []HistInv
<1> QED BY HistInvInit, HistInvStep, PTL DEF HistSpec

\* No mail is called not sent that, when build_delivery_history read its handoff, had
\* reached a recipient or was uncertain; what a ledger calls not sent rests on attempts
\* that failed, and what is called accepted has an accepted attempt.
THEOREM NoFalseFailures == HistSpec => []NoFalseFailure
<1>1. HistInv => NoFalseFailure
  <2> SUFFICES ASSUME HistInv, NEW m \in Mails
               PROVE  /\ build.entries[m].status = "failed_not_sent" => ~build.doubt[m]
                      /\ ledger[m].status = "failed_not_sent" =>
                            \A k \in 1..ledger[m].receipt : mail[m].attempts[k].status = "failed"
                      /\ "smtp_accepted" \in {build.entries[m].status, ledger[m].status} =>
                            \E k \in DOMAIN mail[m].attempts :
                                mail[m].attempts[k].status = "smtp_accepted"
    BY DEF NoFalseFailure
  <2>1. build.entries[m].status = "failed_not_sent" => ~build.doubt[m]
    BY DEF HistInv, BuildStands
  <2>2. ASSUME NEW status, NEW receipt, NoteStands(mail[m].attempts, status, receipt)
        PROVE  /\ status = "failed_not_sent" =>
                    \A k \in 1..receipt : mail[m].attempts[k].status = "failed"
               /\ status = "smtp_accepted" =>
                    \E k \in DOMAIN mail[m].attempts :
                        mail[m].attempts[k].status = "smtp_accepted"
    BY <2>2, MailParts DEF NoteStands, Word, Words
  <2>3. /\ NoteStands(mail[m].attempts, ledger[m].status, ledger[m].receipt)
        /\ NoteStands(mail[m].attempts, build.entries[m].status, build.entries[m].receipt)
    BY MailParts DEF LedgerStands, EntryStands
  <2> QED BY <2>1, <2>2, <2>3
<1> QED BY <1>1, HistoryStands, PTL

\* An acceptance that a complete history shows for a mail is in the ledger of the worker,
\* or offered to it, whichever earlier suggestions it took over
\* (attach_ledger_reconciliation).
THEOREM AcceptancesAreLearned == HistSpec => []AcceptanceIsLearned
<1>1. HistInv => AcceptanceIsLearned
  BY DEF HistInv
<1> QED BY <1>1, HistoryStands, PTL

\* A record that process_records left out reached the recipients of an earlier mail.
THEOREM LeftOutsWereSent == HistSpec => []LeftOutWasSent
<1>1. HistInv => LeftOutWasSent
  BY DEF HistInv
<1> QED BY <1>1, HistoryStands, PTL

---------------------------------------------------------------------------
(* The receipts of the image broker.                                       *)

Engines == {"codex", "bailian", "opencode", "openrouter"}
Images == [place : Places, hash : ImageRequests \cup {Nothing, Worker}]
BrokerRecords ==
    [engine : Engines,
     at : {"idle", "scan", "engine", "written", "settle", "record", "decide", "respond", "dead"},
     stop : BOOLEAN, cancelled : BOOLEAN, session : {"accepting", "closed"},
     closing : {"open", "joining", "closed"}, clean : BOOLEAN,
     list : SUBSET ImageRequests, processed : SUBSET ImageRequests,
     req : ImageRequests \cup {0}, todo : Seq(ImageNames), images : Seq(Images),
     status : {"none", "failed", "available"},
     jobs : SUBSET [req : ImageRequests \cup {0}, images : Seq(Images)],
     excused : SUBSET (ImageRequests \cup {0})]

ImgTypes ==
    /\ broker \in BrokerRecords
    /\ answers \in [ImageRequests -> {"none", "failed", "available"}]
    /\ shelf \in [Places -> ImageRequests \cup {Nothing, Worker}]

\* An answer under way, and every answer given, has its receipt or its excuse.
Backed(q) == q \in broker.excused \/ \E j \in broker.jobs : j.req = q
ImgInv ==
    /\ ImgTypes
    /\ broker.at \in {"engine", "written", "settle", "record", "decide", "respond"} => broker.req \in ImageRequests
    /\ broker.at = "written" => broker.todo # <<>>
    /\ broker.at = "respond" /\ broker.status = "available" => Backed(broker.req)
    /\ \A q \in ImageRequests : answers[q] = "available" => Backed(q)

\* What ImgInv says of types.
LEMMA ImgFields ==
    ASSUME ImgInv
    PROVE  /\ broker \in BrokerRecords
           /\ shelf \in [Places -> ImageRequests \cup {Nothing, Worker}]
           /\ answers \in [ImageRequests -> {"none", "failed", "available"}]
           /\ broker.list \in SUBSET ImageRequests /\ broker.processed \in SUBSET ImageRequests
           /\ broker.todo \in Seq(ImageNames) /\ broker.images \in Seq(Images)
           /\ broker.req \in ImageRequests \cup {0}
  BY DEF ImgInv, ImgTypes, BrokerRecords

\* A step that neither answers nor notes a receipt.
LEMMA ImgQuietStep ==
    ASSUME ImgInv, NEW b \in BrokerRecords, broker' = b, b.jobs = broker.jobs,
           b.excused = broker.excused, b.at = "respond" => broker.at = "respond" /\ b.status = broker.status,
           b.at \in {"engine", "written", "settle", "record", "decide", "respond"} => b.req \in ImageRequests,
           b.at = "respond" => b.req = broker.req, b.at = "written" => b.todo # <<>>,
           answers' = answers, shelf' \in [Places -> ImageRequests \cup {Nothing, Worker}]
    PROVE  ImgInv'
<1>1. ImgTypes'
  BY DEF ImgInv, ImgTypes
<1>2. \A q : Backed(q) => Backed(q)'
  BY DEF Backed
<1> QED BY <1>1, <1>2 DEF ImgInv

\* Setting the result of the present request leaves the rest of the broker alone.
LEMMA WithResultStands ==
    ASSUME NEW b \in BrokerRecords, NEW status \in {"failed", "available"}, NEW images \in Seq(Images)
    PROVE  /\ WithResult(b, status, images) \in BrokerRecords
           /\ WithResult(b, status, images).at = "settle"
           /\ WithResult(b, status, images).req = b.req
           /\ WithResult(b, status, images).jobs = b.jobs
           /\ WithResult(b, status, images).excused = b.excused
<1>1. PICK todo \in Seq(ImageNames) : todo = <<>>
  BY EmptySeq
<1>2. PICK c \in BrokerRecords : c = [b EXCEPT !.at = "settle", !.status = status]
  BY DEF BrokerRecords
<1>3. PICK d \in BrokerRecords : d = [c EXCEPT !.todo = todo, !.images = images]
  BY DEF BrokerRecords
<1>4. c.at = "settle" /\ c.req = b.req /\ c.jobs = b.jobs /\ c.excused = b.excused
  BY <1>2 DEF BrokerRecords
<1>5. d.at = "settle" /\ d.req = b.req /\ d.jobs = b.jobs /\ d.excused = b.excused
  BY <1>3, <1>4 DEF BrokerRecords
<1>6. WithResult(b, status, images) = d
  BY <1>1, <1>2, <1>3 DEF WithResult, BrokerRecords
<1> QED BY <1>5, <1>6

\* An engine's call ends, well or not.
LEMMA ResultStep ==
    ASSUME ImgInv, NEW b \in BrokerRecords, b.req \in ImageRequests,
           b.jobs = broker.jobs, b.excused = broker.excused,
           NEW status \in {"failed", "available"}, NEW images \in Seq(Images),
           broker' = WithResult(b, status, images), answers' = answers,
           shelf' \in [Places -> ImageRequests \cup {Nothing, Worker}]
    PROVE  ImgInv'
  BY WithResultStands, ImgQuietStep

\* The worker may ask, read and meddle with files; answers are not its to give.
LEMMA WorkerKeepsImages ==
    ASSUME ImgInv,
           \/ \E q \in ImageRequests : AskImage(q) \/ AskReturns(q)
           \/ \E p \in Places : Meddle(p)
           \/ LoseTime
    PROVE  ImgInv'
<1>1. ASSUME NEW q \in ImageRequests, AskImage(q) \/ AskReturns(q) PROVE ImgInv'
  BY <1>1, ImgFields, ImgQuietStep DEF AskImage, AskReturns, ImgInv
<1>2. ASSUME NEW p \in Places, Meddle(p) PROVE ImgInv'
  <2>1. shelf' \in [Places -> ImageRequests \cup {Nothing, Worker}]
    BY <1>2, ImgFields DEF Meddle
  <2> QED BY <1>2, <2>1, ImgFields, ImgQuietStep DEF Meddle, ImgInv
<1>3. CASE LoseTime
  <2>1. PICK b \in BrokerRecords : b = [broker EXCEPT !.cancelled = TRUE]
    BY ImgFields DEF BrokerRecords
  <2>2. /\ b.at = broker.at /\ b.req = broker.req /\ b.jobs = broker.jobs
        /\ b.excused = broker.excused /\ b.status = broker.status /\ b.todo = broker.todo
    BY <2>1, ImgFields DEF BrokerRecords
  <2> QED BY <1>3, <2>1, <2>2, ImgFields, ImgQuietStep DEF LoseTime, ImgInv
<1> QED BY <1>1, <1>2, <1>3

\* Listing and taking requests answers none of them.
LEMMA ListingKeepsImages ==
    ASSUME ImgInv, Scan \/ ScanEnds \/ TakeImageRequest PROVE ImgInv'
<1>0. /\ answers' = answers /\ shelf' \in [Places -> ImageRequests \cup {Nothing, Worker}]
      /\ broker \in BrokerRecords /\ broker.list \in SUBSET ImageRequests
      /\ broker.processed \in SUBSET ImageRequests
  BY ImgFields DEF Scan, ScanEnds, TakeImageRequest
<1>1. ASSUME NEW at \in {"idle", "dead"}, broker' = [broker EXCEPT !.at = at] PROVE ImgInv'
  <2>1. PICK b \in BrokerRecords : b = [broker EXCEPT !.at = at]
    BY <1>0 DEF BrokerRecords
  <2>2. b.at = at /\ b.jobs = broker.jobs /\ b.excused = broker.excused
    BY <1>0, <2>1 DEF BrokerRecords
  <2> QED BY <1>0, <1>1, <2>1, <2>2, ImgQuietStep
<1>2. ASSUME NEW list \in SUBSET ImageRequests,
             broker' = [broker EXCEPT !.at = "scan", !.list = list] PROVE ImgInv'
  <2>1. PICK b \in BrokerRecords : b = [broker EXCEPT !.at = "scan", !.list = list]
    BY <1>0 DEF BrokerRecords
  <2>2. b.at = "scan" /\ b.jobs = broker.jobs /\ b.excused = broker.excused
    BY <1>0, <2>1 DEF BrokerRecords
  <2> QED BY <1>0, <1>2, <2>1, <2>2, ImgQuietStep
<1>3. CASE TakeImageRequest
  <2>1. broker.at = "scan" /\ broker.list # {}
    BY <1>3 DEF TakeImageRequest
  <2>2. PICK q \in ImageRequests : q = First
    <3>1. broker.list \subseteq Nat
      BY <1>0, ImageAssumption
    <3>2. \E k \in broker.list : \A j \in broker.list : k <= j
      BY <2>1, <3>1, LeastNatural
    <3> QED BY <1>0, <3>2 DEF First
  <2>3. PICK list \in SUBSET ImageRequests, processed \in SUBSET ImageRequests :
            list = broker.list \ {q} /\ processed = broker.processed \cup {q}
    BY <1>0
  <2>4. PICK c \in BrokerRecords : c = [broker EXCEPT !.list = list]
    BY <1>0 DEF BrokerRecords
  <2>5. c.at = "scan" /\ c.jobs = broker.jobs /\ c.excused = broker.excused
    BY <1>0, <2>1, <2>4 DEF BrokerRecords
  <2>6. PICK d \in BrokerRecords : d = [c EXCEPT !.processed = processed]
    BY DEF BrokerRecords
  <2>7. d.at = "scan" /\ d.jobs = broker.jobs /\ d.excused = broker.excused
    BY <2>5, <2>6 DEF BrokerRecords
  <2>8. PICK b \in BrokerRecords : b = [d EXCEPT !.req = q]
    BY DEF BrokerRecords
  <2>9. b.req = q /\ b.jobs = broker.jobs /\ b.excused = broker.excused
    BY <2>7, <2>8 DEF BrokerRecords
  <2>10. PICK empty \in Seq(Images) : empty = <<>>
    BY EmptySeq
  <2>11. \/ broker' = c \/ broker' = d \/ broker' = WithResult(b, "failed", empty)
         \/ broker' = [b EXCEPT !.at = "engine", !.todo = ImageBriefs[q], !.images = empty]
    <3>1. d = [broker EXCEPT !.list = @ \ {q}, !.processed = @ \cup {q}]
      BY <1>0, <2>3, <2>4, <2>6 DEF BrokerRecords
    <3>2. b = [broker EXCEPT !.list = @ \ {q}, !.req = q, !.processed = @ \cup {q}]
      BY <1>0, <2>3, <2>4, <2>6, <2>8 DEF BrokerRecords
    <3> QED BY <1>3, <2>2, <2>3, <2>4, <2>10, <3>1, <3>2, Zenon DEF TakeImageRequest
  <2>12. CASE broker' = c
    BY <1>0, <2>5, <2>12, ImgQuietStep
  <2>13. CASE broker' = d
    BY <1>0, <2>7, <2>13, ImgQuietStep
  <2>14. CASE broker' = WithResult(b, "failed", empty)
    BY <1>0, <2>9, <2>14, ResultStep
  <2>15. CASE broker' = [b EXCEPT !.at = "engine", !.todo = ImageBriefs[q], !.images = empty]
    <3>1. ImageBriefs[q] \in Seq(ImageNames)
      BY ImageAssumption
    <3>2. PICK x \in BrokerRecords : x = [b EXCEPT !.at = "engine", !.todo = ImageBriefs[q], !.images = empty]
      BY <3>1 DEF BrokerRecords
    <3>3. x.at = "engine" /\ x.req = q /\ x.jobs = broker.jobs /\ x.excused = broker.excused
      BY <2>9, <3>2 DEF BrokerRecords
    <3> QED BY <1>0, <2>15, <3>2, <3>3, ImgQuietStep
  <2> QED BY <2>11, <2>12, <2>13, <2>14, <2>15
<1>4. CASE ScanEnds
  BY <1>1, <1>4 DEF ScanEnds
<1>5. CASE Scan
  <2>1. {q \in ImageRequests : asked[q] # "no" /\ asked[q] # "unavailable"} \ broker.processed
            \in SUBSET ImageRequests
    OBVIOUS
  <2> QED BY <1>1, <1>2, <1>5, <2>1 DEF Scan
<1> QED BY <1>3, <1>4, <1>5

\* While an engine works nothing is answered.
LEMMA EngineKeepsImages ==
    ASSUME ImgInv,
           EngineFails \/ TakeBack \/ CodexReturns \/ WriteImage \/ ReadImage \/ EngineReturns
    PROVE  ImgInv'
<1>0. /\ answers' = answers /\ broker \in BrokerRecords /\ broker.req \in ImageRequests
      /\ shelf \in [Places -> ImageRequests \cup {Nothing, Worker}]
      /\ broker.todo \in Seq(ImageNames) /\ broker.images \in Seq(Images)
  BY ImgFields DEF EngineFails, TakeBack, CodexReturns, WriteImage, ReadImage, EngineReturns, ImgInv
<1>1. PICK empty \in Seq(Images) : empty = <<>>
  BY EmptySeq
<1>2. CASE EngineFails
  BY <1>0, <1>1, <1>2, ResultStep DEF EngineFails
<1>3. CASE TakeBack
  <2>1. shelf' \in [Places -> ImageRequests \cup {Nothing, Worker}]
    BY <1>0, <1>3 DEF TakeBack
  <2> QED BY <1>0, <1>1, <1>3, <2>1, ResultStep DEF TakeBack
<1>4. CASE CodexReturns
  <2> DEFINE q == broker.req
             n == Len(broker.todo)
             F(i) == [place |-> <<q, broker.todo[i]>>, hash |-> shelf'[<<q, broker.todo[i]>>]]
  <2>1. /\ n \in Nat /\ DOMAIN broker.todo = 1..n
        /\ \A i \in 1..n : broker.todo[i] \in ImageNames
    BY <1>0, LenProperties, ElementOfSeq
  <2>2. shelf' \in [Places -> ImageRequests \cup {Nothing, Worker}]
    <3>1. shelf' = [p \in Places |->
                IF /\ p[1] = q /\ \E i \in DOMAIN broker.todo : broker.todo[i] = p[2]
                   /\ shelf[p] = Nothing THEN q ELSE shelf[p]]
      BY <1>4 DEF CodexReturns
    <3> QED BY <1>0, <3>1
  <2>3. \A i \in 1..n : F(i) \in Images
    BY <1>0, <2>1, <2>2 DEF Images, Places
  <2>4. [i \in 1..n |-> F(i)] \in Seq(Images)
    <3> HIDE DEF F, n
    <3> QED BY <2>1, <2>3
  <2>5. broker' = WithResult(broker, "available", [i \in 1..n |-> F(i)])
    BY <1>4, <2>1 DEF CodexReturns
  <2> HIDE DEF F, n
  <2> QED BY <1>0, <2>2, <2>4, <2>5, ResultStep
<1>5. CASE WriteImage
  <2>1. shelf' \in [Places -> ImageRequests \cup {Nothing, Worker}]
    BY <1>0, <1>5 DEF WriteImage
  <2>2. PICK b \in BrokerRecords : b = [broker EXCEPT !.at = "written"]
    BY <1>0 DEF BrokerRecords
  <2>3. /\ b.at = "written" /\ b.req = broker.req /\ b.jobs = broker.jobs
        /\ b.excused = broker.excused /\ b.todo = broker.todo
    BY <1>0, <2>2 DEF BrokerRecords
  <2> QED BY <1>0, <1>5, <2>1, <2>2, <2>3, ImgQuietStep DEF WriteImage
<1>6. CASE ReadImage
  <2> DEFINE p == PlaceOf(broker.req, Head(broker.todo))
  <2>1. shelf[p] # Nothing /\ shelf' = shelf
        /\ broker' = [broker EXCEPT !.at = "engine", !.todo = Tail(@),
                            !.images = Append(@, [place |-> p, hash |-> shelf[p]])]
    BY <1>6 DEF ReadImage
  <2>2. CASE broker.todo = <<>>
    BY <1>0, <1>6, <2>2 DEF ImgInv, ReadImage
  <2>3. CASE broker.todo # <<>>
    <3>1. Head(broker.todo) \in ImageNames /\ Tail(broker.todo) \in Seq(ImageNames)
      BY <1>0, <2>3, HeadTailProperties
    <3>2. p \in Places
      BY <1>0, <3>1 DEF PlaceOf, Places
    <3>3. PICK i \in Images : i = [place |-> p, hash |-> shelf[p]]
      BY <1>0, <3>2 DEF Images
    <3>4. Append(broker.images, i) \in Seq(Images)
      BY <1>0, AppendProperties
    <3>5. PICK b \in BrokerRecords : b = [broker EXCEPT !.at = "engine", !.todo = Tail(broker.todo),
                            !.images = Append(broker.images, i)]
      BY <1>0, <3>1, <3>4 DEF BrokerRecords
    <3>6. /\ b.at = "engine" /\ b.req = broker.req /\ b.jobs = broker.jobs
          /\ b.excused = broker.excused
      BY <1>0, <3>5 DEF BrokerRecords
    <3>7. broker' = b
      BY <2>1, <3>3, <3>5
    <3> QED BY <1>0, <2>1, <3>6, <3>7, ImgQuietStep
  <2> QED BY <2>2, <2>3
<1>7. CASE EngineReturns
  BY <1>0, <1>7, ResultStep DEF EngineReturns
<1> QED BY <1>2, <1>3, <1>4, <1>5, <1>6, <1>7

\* The job is on record before the answer is given.
LEMMA SettlingKeepsImages ==
    ASSUME ImgInv, CleanUp \/ LookAtStop \/ RecordJob \/ Respond PROVE ImgInv'
<1>0. /\ broker \in BrokerRecords /\ broker.req \in ImageRequests
      /\ shelf \in [Places -> ImageRequests \cup {Nothing, Worker}]
      /\ answers \in [ImageRequests -> {"none", "failed", "available"}]
      /\ broker.images \in Seq(Images)
      /\ broker.jobs \in SUBSET [req : ImageRequests \cup {0}, images : Seq(Images)]
      /\ broker.excused \in SUBSET (ImageRequests \cup {0})
  BY ImgFields DEF CleanUp, LookAtStop, RecordJob, Respond, ImgInv, BrokerRecords
<1>1. CASE CleanUp
  <2>1. shelf' \in [Places -> ImageRequests \cup {Nothing, Worker}]
    BY <1>0, <1>1 DEF CleanUp
  <2>2. PICK b \in BrokerRecords : b = [broker EXCEPT !.at = "record"]
    BY <1>0 DEF BrokerRecords
  <2>3. /\ b.at = "record" /\ b.req = broker.req /\ b.jobs = broker.jobs
        /\ b.excused = broker.excused
    BY <1>0, <2>2 DEF BrokerRecords
  <2> QED BY <1>0, <1>1, <2>1, <2>2, <2>3, ImgQuietStep DEF CleanUp
<1>1a. CASE LookAtStop
  <2>1. PICK at \in {"scan", "decide"} : broker' = [broker EXCEPT !.at = at]
    BY <1>1a DEF LookAtStop
  <2>2. PICK b \in BrokerRecords : b = [broker EXCEPT !.at = at]
    BY <1>0 DEF BrokerRecords
  <2>3. /\ b.at = at /\ b.req = broker.req /\ b.jobs = broker.jobs
        /\ b.excused = broker.excused
    BY <1>0, <2>2 DEF BrokerRecords
  <2>4. shelf' \in [Places -> ImageRequests \cup {Nothing, Worker}] /\ answers' = answers
    BY <1>0, <1>1a DEF LookAtStop
  <2> QED BY <1>0, <2>1, <2>2, <2>3, <2>4, ImgQuietStep
<1>2. CASE RecordJob
  <2> DEFINE good == broker.status = "available" /\ ~Off
             J == IF good THEN broker.jobs \cup {[req |-> broker.req, images |-> broker.images]}
                  ELSE broker.jobs
             X == IF Off THEN broker.excused \cup {broker.req} ELSE broker.excused
  <2>1. PICK jobs \in SUBSET [req : ImageRequests \cup {0}, images : Seq(Images)] : jobs = J
    <3>1. [req |-> broker.req, images |-> broker.images]
                \in [req : ImageRequests \cup {0}, images : Seq(Images)]
      BY <1>0
    <3>2. J \in SUBSET [req : ImageRequests \cup {0}, images : Seq(Images)]
      <4> HIDE DEF good
      <4> QED BY <1>0, <3>1
    <3> QED BY <3>2
  <2>2. PICK excused \in SUBSET (ImageRequests \cup {0}) : excused = X
    BY <1>0
  <2>3. PICK r \in Receipts : broker' = [r EXCEPT !.excused = IF Off THEN @ \cup {broker.req} ELSE @]
    BY <1>2 DEF RecordJob
  <2>4. PICK at \in {"idle", "respond"}, list \in SUBSET ImageRequests :
            r = [broker EXCEPT !.at = at, !.list = list, !.jobs = jobs]
    <3>1. broker.list \in SUBSET ImageRequests
      BY <1>0 DEF BrokerRecords
    <3>3. CASE good
      <4>1. \/ r = [Receipted(broker) EXCEPT !.at = "respond"]
            \/ r = [Receipted(broker) EXCEPT !.at = "idle", !.list = {}]
        BY <2>3, <3>3 DEF Receipts
      <4>2. Receipted(broker) = [broker EXCEPT !.jobs = jobs]
        BY <2>1, <3>3 DEF Receipted
      <4>3. CASE r = [Receipted(broker) EXCEPT !.at = "respond"]
        <5>1. r = [broker EXCEPT !.at = "respond", !.list = broker.list, !.jobs = jobs]
          BY <1>0, <4>2, <4>3 DEF BrokerRecords
        <5> QED BY <3>1, <5>1
      <4>4. CASE r = [Receipted(broker) EXCEPT !.at = "idle", !.list = {}]
        <5>1. r = [broker EXCEPT !.at = "idle", !.list = {}, !.jobs = jobs]
          BY <1>0, <4>2, <4>4 DEF BrokerRecords
        <5>2. PICK z \in SUBSET ImageRequests : z = {}
          OBVIOUS
        <5> QED BY <5>1, <5>2
      <4> QED BY <4>1, <4>3, <4>4
    <3>4. CASE ~good
      <4>1. r = [broker EXCEPT !.at = "respond"]
        BY <2>3, <3>4 DEF Receipts
      <4>2. r = [broker EXCEPT !.at = "respond", !.list = broker.list, !.jobs = jobs]
        BY <1>0, <2>1, <3>4, <4>1 DEF BrokerRecords
      <4> QED BY <3>1, <4>2
    <3> QED BY <3>3, <3>4
  <2>5. PICK c \in BrokerRecords : c = r
    BY <1>0, <2>4 DEF BrokerRecords
  <2>6. /\ c.at = at /\ c.req = broker.req /\ c.status = broker.status
        /\ c.jobs = jobs /\ c.excused = broker.excused
    BY <1>0, <2>4, <2>5 DEF BrokerRecords
  <2>6a. PICK b \in BrokerRecords : b = [c EXCEPT !.excused = excused]
    BY DEF BrokerRecords
  <2>7. /\ b.at = at /\ b.req = broker.req /\ b.status = broker.status
        /\ b.jobs = jobs /\ b.excused = excused
    BY <2>6, <2>6a DEF BrokerRecords
  <2>8. broker' = b
    BY <2>2, <2>3, <2>5, <2>6, <2>6a
  <2>9. ImgTypes'
    BY <1>2, <2>8, ImgFields DEF ImgTypes, RecordJob
  <2>10. \A q : Backed(q) => Backed(q)'
    BY <2>1, <2>2, <2>7, <2>8 DEF Backed
  <2>11. at = "respond" /\ broker.status = "available" => Backed(broker.req)'
    <3>1. CASE Off
      BY <2>2, <2>7, <2>8, <3>1 DEF Backed
    <3>2. CASE ~Off
      <4> SUFFICES ASSUME at = "respond", broker.status = "available" PROVE Backed(broker.req)'
        OBVIOUS
      <4>1. [req |-> broker.req, images |-> broker.images] \in jobs
        BY <2>1, <2>4, <3>2
      <4>2. [req |-> broker.req, images |-> broker.images].req = b.req
        BY <2>7
      <4> QED BY <2>7, <2>8, <4>1, <4>2 DEF Backed
    <3> QED BY <3>1, <3>2
  <2>12. answers' = answers
    BY <1>2 DEF RecordJob
  <2> QED BY <1>0, <2>7, <2>8, <2>9, <2>10, <2>11, <2>12 DEF ImgInv
<1>3. CASE Respond
  <2>1. PICK empty \in Seq(Images) : empty = <<>>
    BY EmptySeq
  <2>2. PICK at \in {"scan", "idle"}, list \in SUBSET ImageRequests :
            broker' = [broker EXCEPT !.at = at, !.list = list, !.req = 0, !.images = empty, !.status = "none"]
    <3>1. broker.list \in SUBSET ImageRequests
      BY <1>0 DEF BrokerRecords
    <3>2. CASE broker' = [broker EXCEPT !.at = "scan", !.req = 0, !.images = <<>>, !.status = "none"]
      <4>1. broker' = [broker EXCEPT !.at = "scan", !.list = broker.list, !.req = 0, !.images = empty,
                                     !.status = "none"]
        BY <1>0, <2>1, <3>2 DEF BrokerRecords
      <4> QED BY <3>1, <4>1
    <3>3. CASE broker' = [broker EXCEPT !.at = "idle", !.list = {}, !.req = 0, !.images = <<>>, !.status = "none"]
      BY <2>1, <3>3
    <3> QED BY <1>3, <3>2, <3>3 DEF Respond
  <2>3. PICK c \in BrokerRecords : c = [broker EXCEPT !.at = at, !.list = list, !.req = 0]
    BY <1>0 DEF BrokerRecords
  <2>4. PICK b \in BrokerRecords : b = [c EXCEPT !.images = empty, !.status = "none"]
    BY DEF BrokerRecords
  <2>5. c.at = at /\ c.jobs = broker.jobs /\ c.excused = broker.excused
    BY <1>0, <2>3 DEF BrokerRecords
  <2>6. b.at = at /\ b.jobs = broker.jobs /\ b.excused = broker.excused
    BY <2>4, <2>5 DEF BrokerRecords
  <2>7. broker' = b
    BY <1>0, <2>2, <2>3, <2>4 DEF BrokerRecords
  <2>8. \A q : Backed(q) => Backed(q)'
    BY <2>6, <2>7 DEF Backed
  <2>9. /\ broker.at = "respond" /\ shelf' = shelf
        /\ (answers' = answers \/ answers' = [answers EXCEPT ![broker.req] = broker.status])
    BY <1>3 DEF Respond
  <2>10. \A q \in ImageRequests : answers'[q] = "available" =>
            answers[q] = "available" \/ (q = broker.req /\ broker.status = "available")
    BY <1>0, <2>9
  <2>11. broker.status \in {"none", "failed", "available"}
    BY <1>0 DEF BrokerRecords
  <2>12. answers' \in [ImageRequests -> {"none", "failed", "available"}]
    BY <1>0, <2>9, <2>11
  <2>13. \A q \in ImageRequests : answers'[q] = "available" => Backed(q)'
    BY <2>8, <2>9, <2>10 DEF ImgInv
  <2> QED BY <1>0, <2>6, <2>7, <2>9, <2>12, <2>13 DEF ImgInv, ImgTypes
<1> QED BY <1>1, <1>1a, <1>2, <1>3

\* Closing and the wait for the thread change no answer and no job.
LEMMA ClosingKeepsImages ==
    ASSUME ImgInv, ImgClose \/ ImgJoined PROVE ImgInv'
<1>0. broker \in BrokerRecords
  BY ImgFields
<1>1. CASE ImgClose
  <2>1. PICK said \in {"accepting", "closed"} :
            broker' = [broker EXCEPT !.stop = TRUE, !.closing = "joining", !.session = said]
    BY <1>1 DEF ImgClose
  <2>2. PICK b \in BrokerRecords :
            b = [broker EXCEPT !.stop = TRUE, !.closing = "joining", !.session = said]
    BY <1>0 DEF BrokerRecords
  <2>3. /\ b.at = broker.at /\ b.req = broker.req /\ b.jobs = broker.jobs
        /\ b.excused = broker.excused /\ b.status = broker.status /\ b.todo = broker.todo
    BY <1>0, <2>2 DEF BrokerRecords
  <2> QED BY <1>1, <2>1, <2>2, <2>3, ImgFields, ImgQuietStep DEF ImgClose, ImgInv
<1>2. CASE ImgJoined
  <2>1. PICK clean \in BOOLEAN : clean = (broker.at = "dead")
    OBVIOUS
  <2>2. PICK b \in BrokerRecords : b = [broker EXCEPT !.closing = "closed", !.clean = clean]
    BY <1>0 DEF BrokerRecords
  <2>3. /\ b.at = broker.at /\ b.req = broker.req /\ b.jobs = broker.jobs
        /\ b.excused = broker.excused /\ b.status = broker.status /\ b.todo = broker.todo
    BY <1>0, <2>2 DEF BrokerRecords
  <2>4. broker' = b
    BY <1>2, <2>1, <2>2 DEF ImgJoined
  <2> QED BY <1>2, <2>3, <2>4, ImgFields, ImgQuietStep DEF ImgJoined, ImgInv
<1> QED BY <1>1, <1>2

\* The broker starts with no request answered.
LEMMA ImgInvInit == ImgInit => ImgInv
<1> SUFFICES ASSUME ImgInit PROVE ImgInv
  OBVIOUS
<1>1. PICK empty \in Seq(ImageNames) : empty = <<>>
  BY EmptySeq
<1>2. PICK none \in Seq(Images) : none = <<>>
  BY EmptySeq
<1>3. PICK engine \in ImageEngines :
        broker = [engine |-> engine, at |-> "idle", stop |-> FALSE, cancelled |-> FALSE,
                  session |-> "accepting", closing |-> "open", clean |-> FALSE,
                  list |-> {}, processed |-> {}, req |-> 0, todo |-> empty, images |-> none,
                  status |-> "none", jobs |-> {}, excused |-> {}]
  BY <1>1, <1>2 DEF ImgInit
<1>4. broker \in BrokerRecords
  <2>1. engine \in Engines
    BY <1>3, ImageAssumption DEF Engines
  <2> QED BY <1>3, <2>1 DEF BrokerRecords
<1>5. broker.at = "idle"
  BY <1>3
<1>6. answers \in [ImageRequests -> {"none", "failed", "available"}]
  BY DEF ImgInit
<1>7. shelf \in [Places -> ImageRequests \cup {Nothing, Worker}]
  BY DEF ImgInit
<1>8. \A q \in ImageRequests : answers[q] = "none"
  BY DEF ImgInit
<1> QED BY <1>4, <1>5, <1>6, <1>7, <1>8 DEF ImgInv, ImgTypes

\* Every step of the worker and of the broker keeps ImgInv.
LEMMA ImgInvStep == ASSUME ImgInv, [ImgNext]_imgVars PROVE ImgInv'
<1>1. CASE ImgNext
  BY <1>1, WorkerKeepsImages, ListingKeepsImages, EngineKeepsImages, SettlingKeepsImages,
     ClosingKeepsImages DEF ImgNext
<1>2. CASE UNCHANGED imgVars
  BY <1>2 DEF imgVars, ImgInv, ImgTypes, Backed
<1> QED BY <1>1, <1>2

\* A worker that was told its images are available finds their receipts, unless the job
\* was told to stop while it settled, for any engine, requests and files: RecordJob notes
\* the receipt before _process writes the answer.
THEOREM AnswersHaveReceipts == ImgSpec => []AnswerHasReceipt
<1>1. ImgInv => AnswerHasReceipt
  BY DEF ImgInv, AnswerHasReceipt, Backed, Snapshot
<1> QED BY <1>1, ImgInvInit, ImgInvStep, PTL DEF ImgSpec

---------------------------------------------------------------------------
(* Protected acquisition.                                                  *)

SessionRecords ==
    [started : BOOLEAN, state : {"none", "accepting", "closed"}, stop : BOOLEAN,
     closing : {"no", "joining", "joined", "done"}, clean : BOOLEAN,
     failure : {"none", "authorization_lost", "unsafe", "stray", "cleanup", "changed"},
     count : Nat, late : BOOLEAN]
ServeRecords ==
    [at : {"none", "scan", "fetch", "judge", "store", "dead"}, source : Sources \cup {"none"},
     body : Nat]
ReceiptRecords ==
    [status : {"failed", "available"},
     reason : {"interrupted", "unavailable", "limit", "fetch", "rejected", "available", "write"},
     size : Nat, kept : BOOLEAN]
FetchRecords == [for : {"none", "session", "import"}, source : Sources \cup {"none"}, allowance : Nat]
ByteRecords == [consumed : Nat, moved : Nat, probes : Nat, stuck : Nat]
Named == UNION {{list[i].from : i \in DOMAIN list} : list \in Artifacts}
ImportEntries ==
    [status : {"failed", "excluded", "available"}, content : {"none", "good"}, from : Named]
ImportRecords ==
    [at : {"idle", "loop", "fetch", "done", "refused"}, artifacts : Artifacts \cup {<<>>},
     entries : Seq(ImportEntries), total : Nat, count : Nat, message : Nat, hold : BOOLEAN,
     locals : {"none", "good", "changed"}, retained : {"no", "kept", "refused"},
     evidence : SUBSET [source : Sources \cup {"ledger"}, content : {"good"}]]

AcqTypes ==
    /\ session \in SessionRecords /\ serve \in ServeRecords
    /\ receipts \in [Sources -> ReceiptRecords \cup {NoReceipt}]
    /\ fetch \in FetchRecords /\ bytes \in ByteRecords /\ import \in ImportRecords

\* Who is at work: the thread of the session until it ended, then the import.
SessionStands ==
    /\ serve.at = "fetch" => fetch.for = "session" /\ fetch.source \in Sources
    /\ serve.at \in {"fetch", "judge", "store"} => serve.source \in Sources
    /\ session.closing \in {"joined", "done"} /\ ~session.late => ThreadEnded
    /\ session.closing = "done" /\ session.clean => ThreadEnded
    /\ session.closing \in {"no", "joining"} => ~session.late
    /\ import.at # "idle" => session.closing = "done"
    /\ import.at \in {"loop", "fetch", "done"} \/ import.entries # <<>> => Trusted

\* What a child that was left behind may still move beyond the byte it is excused.
Stray == IF bytes.stuck > 0 THEN bytes.stuck - 1 ELSE 0
\* A stray child ends the session, or the import.
StrayEnds ==
    bytes.stuck > 0 =>
        \/ import.at = "refused"
        \/ session.closing # "done" /\ session.stop /\ session.failure = "stray" /\ serve.at # "fetch"
        \/ session.closing = "done" /\ ~session.clean
Accounts ==
    \/ /\ import.at \in {"idle", "refused"}
       /\ bytes.moved + Stray <= bytes.consumed + bytes.probes
       /\ bytes.moved + Stray <= MaxTotal + bytes.probes
    \/ /\ import.at # "idle" /\ import.total <= MaxTotal
       /\ bytes.moved + Stray <= import.total - LocalBytes(import.artifacts) + bytes.probes
Allowances ==
    /\ serve.at = "fetch" => fetch.allowance + bytes.consumed <= MaxTotal
    /\ import.at = "fetch" => fetch.allowance + import.total <= MaxTotal

\* The import is at one artifact; what it took is as OnlyAuthentic says.
ImportStands ==
    /\ import.at = "fetch" =>
        /\ here \in DOMAIN import.artifacts /\ fetch.source = artifact.from
        /\ fetch.source \in Sources /\ receipts[fetch.source] = NoReceipt
    /\ import.at = "idle" => import.entries = <<>>
    /\ \A i \in DOMAIN import.entries : import.entries[i].status = "available" =>
        /\ import.entries[i].content = "good"
        /\ import.entries[i].from \in Sources =>
            receipts[import.entries[i].from].status \in {"none", "available"}

AcqInv ==
    /\ AcqTypes /\ SessionStands /\ ImportStands
    /\ ~session.late => StrayEnds /\ Accounts /\ Allowances

\* The local files of a list can be counted.
LEMMA LocalsCount ==
    ASSUME NEW list \in Artifacts \cup {<<>>}
    PROVE  Cardinality(Locals(list)) \in Nat
<1>1. PICK n \in Nat : DOMAIN list = 1..n
  <2>1. CASE list \in Artifacts
    <3>1. list \in Seq({list[i] : i \in DOMAIN list})
      BY <2>1, AcquisitionAssumption
    <3>2. DOMAIN list = 1..Len(list) /\ Len(list) \in Nat
      BY <3>1, LenProperties
    <3> QED BY <3>2
  <2>2. CASE list = <<>>
    <3>1. DOMAIN list = 1..0
      BY <2>2
    <3> QED BY <3>1
  <2> QED BY <2>1, <2>2
<1>2. IsFiniteSet(1..n)
  BY FS_Interval
<1>3. Locals(list) \in SUBSET (1..n)
  BY <1>1 DEF Locals
<1>4. IsFiniteSet(Locals(list))
  BY <1>2, <1>3, FS_Subset
<1> QED BY <1>4, FS_CardinalityType

\* What AcqInv says of types.
LEMMA AcqFields ==
    ASSUME AcqInv
    PROVE  /\ session \in SessionRecords /\ serve \in ServeRecords
           /\ receipts \in [Sources -> ReceiptRecords \cup {NoReceipt}]
           /\ fetch \in FetchRecords /\ bytes \in ByteRecords /\ import \in ImportRecords
           /\ bytes.consumed \in Nat /\ bytes.moved \in Nat /\ bytes.probes \in Nat
           /\ bytes.stuck \in Nat /\ fetch.allowance \in Nat
           /\ import.total \in Nat /\ import.count \in Nat /\ import.message \in Nat
           /\ import.entries \in Seq(ImportEntries)
           /\ MaxTotal \in Nat /\ Stray \in Nat
           /\ LocalBytes(import.artifacts) \in Nat
<1>1. /\ bytes.consumed \in Nat /\ bytes.moved \in Nat /\ bytes.probes \in Nat
      /\ bytes.stuck \in Nat
  BY DEF AcqInv, AcqTypes, ByteRecords
<1>2. /\ import.total \in Nat /\ import.count \in Nat /\ import.message \in Nat
      /\ import.entries \in Seq(ImportEntries)
  BY DEF AcqInv, AcqTypes, ImportRecords
<1>3. fetch.allowance \in Nat
  BY DEF AcqInv, AcqTypes, FetchRecords
<1>4. LocalBytes(import.artifacts) \in Nat
  <2>1. import.artifacts \in Artifacts \cup {<<>>}
    BY DEF AcqInv, AcqTypes, ImportRecords
  <2> QED BY <2>1, LocalsCount DEF LocalBytes
<1>5. MaxTotal \in Nat /\ Stray \in Nat
  BY <1>1, AcquisitionAssumption DEF Stray
<1> QED BY <1>1, <1>2, <1>3, <1>4, <1>5 DEF AcqInv, AcqTypes

\* Steps of files and of the channel alone change nothing AcqInv speaks of.
LEMMA AcqQuietStep ==
    ASSUME AcqInv, UNCHANGED <<session, serve, receipts, fetch, bytes, import>> PROVE AcqInv'
<1>1. /\ session' = session /\ serve' = serve /\ receipts' = receipts /\ fetch' = fetch
      /\ bytes' = bytes /\ import' = import
  OBVIOUS
<1>2. AcqTypes'
  BY <1>1 DEF AcqInv, AcqTypes
<1>3. SessionStands' /\ ImportStands'
  BY <1>1 DEF AcqInv, SessionStands, ImportStands, ThreadEnded, Trusted, here, artifact
<1>4. ~session.late => StrayEnds' /\ Accounts' /\ Allowances'
  BY <1>1 DEF AcqInv, StrayEnds, Accounts, Allowances, Stray, LocalBytes, Locals
<1> QED BY <1>1, <1>2, <1>3, <1>4 DEF AcqInv

\* While the session is at work the import has not begun, or has been refused.
LEMMA NoImportYet ==
    ASSUME AcqInv, ~ThreadEnded \/ session.closing # "done"
    PROVE  import.at \in {"idle", "refused"} /\ import.entries = <<>>
<1>1. ~Trusted
  BY DEF AcqInv, SessionStands, Trusted
<1>2. import.at \in {"idle", "loop", "fetch", "done", "refused"}
  BY AcqFields DEF ImportRecords
<1> QED BY <1>1, <1>2 DEF AcqInv, SessionStands

\* A step of the session that moves nothing.
LEMMA SessionStep ==
    ASSUME AcqInv, ~ThreadEnded \/ session.closing # "done", UNCHANGED <<bytes, import>>,
           session' \in SessionRecords, serve' \in ServeRecords,
           receipts' \in [Sources -> ReceiptRecords \cup {NoReceipt}], fetch' \in FetchRecords,
           SessionStands', session.late => session'.late,
           ~session'.late => /\ StrayEnds'
                             /\ serve'.at = "fetch" => fetch'.allowance + bytes.consumed <= MaxTotal
    PROVE  AcqInv'
<1>1. AcqTypes'
  BY DEF AcqInv, AcqTypes
<1>2. import.at \in {"idle", "refused"} /\ import.entries = <<>> /\ import' = import /\ bytes' = bytes
  BY NoImportYet
<1>3. ImportStands'
  BY <1>2, EmptySeq DEF ImportStands
<1>4. ~session.late => Accounts'
  BY <1>2 DEF AcqInv, Accounts, Stray, LocalBytes, Locals
<1>5. ~session'.late => Allowances'
  BY <1>2 DEF Allowances
<1> QED BY <1>1, <1>3, <1>4, <1>5 DEF AcqInv

\* What Heeds makes of a session.
LEMMA HeedsStands ==
    ASSUME NEW s \in SessionRecords
    PROVE  /\ Heeds(s) \in SessionRecords
           /\ Heeds(s).closing = s.closing /\ (Heeds(s).clean <=> s.clean)
           /\ (Heeds(s).late <=> s.late) /\ Heeds(s).count = s.count /\ (s.stop => Heeds(s) = s)
<1>1. PICK t \in SessionRecords : t = [s EXCEPT !.stop = TRUE, !.failure = "authorization_lost"]
  BY DEF SessionRecords
<1>2. /\ t.closing = s.closing /\ (t.clean <=> s.clean) /\ (t.late <=> s.late) /\ t.count = s.count
  BY <1>1 DEF SessionRecords
<1> QED BY <1>1, <1>2 DEF Heeds

\* The thread of the session acts, and moves nothing.
LEMMA ThreadStep ==
    ASSUME AcqInv, ~ThreadEnded, UNCHANGED <<bytes, import>>,
           NEW s \in SessionRecords, session' = s, s.closing = session.closing,
           s.clean <=> session.clean, s.late <=> session.late,
           session.stop => s.stop /\ s.failure = session.failure,
           NEW v \in ServeRecords, serve' = v, v.at \in {"fetch", "judge", "store"} => v.source \in Sources,
           receipts' \in [Sources -> ReceiptRecords \cup {NoReceipt}], fetch' \in FetchRecords,
           v.at = "fetch" => /\ fetch'.for = "session" /\ fetch'.source \in Sources
                             /\ ~session.stop /\ fetch'.allowance + bytes.consumed <= MaxTotal
    PROVE  AcqInv'
<1>1. import.at \in {"idle", "refused"} /\ import.entries = <<>>
  BY NoImportYet
<1>2. SessionStands'
  BY <1>1 DEF AcqInv, SessionStands, ThreadEnded
<1>3. ~session.late => StrayEnds'
  <2> SUFFICES ASSUME ~session.late PROVE StrayEnds'
    OBVIOUS
  <2>1. session.closing # "done" /\ StrayEnds
    BY DEF AcqInv, SessionStands
  <2> QED BY <2>1 DEF StrayEnds
<1> QED BY <1>2, <1>3, SessionStep

\* The scanning thread is a state of the thread.
LEMMA ScanningStands == Scanning \in ServeRecords /\ Scanning.at = "scan"
  BY DEF Scanning, ServeRecords

\* A session starts with nothing under way.
LEMMA StartKeeps == ASSUME AcqInv, Start PROVE AcqInv'
<1>0. /\ session \in SessionRecords /\ session.closing = "no" /\ import.at = "idle"
      /\ session' = [session EXCEPT !.started = TRUE, !.state = "accepting", !.clean = FALSE]
      /\ serve' = Scanning /\ UNCHANGED <<receipts, fetch, bytes, import>>
  BY AcqFields DEF Start
<1>1. PICK s \in SessionRecords :
            s = [session EXCEPT !.started = TRUE, !.state = "accepting", !.clean = FALSE]
  BY <1>0 DEF SessionRecords
<1>2. /\ s.closing = "no" /\ (s.late <=> session.late) /\ (s.stop <=> session.stop)
      /\ s.failure = session.failure
  BY <1>0, <1>1 DEF SessionRecords
<1>3. PICK v \in ServeRecords : v = Scanning /\ v.at = "scan"
  BY ScanningStands
<1>4. SessionStands'
  BY <1>0, <1>1, <1>2, <1>3, NoImportYet DEF AcqInv, SessionStands, ThreadEnded
<1>5. ~session.late => StrayEnds'
  BY <1>0, <1>1, <1>2, <1>3 DEF AcqInv, StrayEnds
<1> QED BY <1>0, <1>1, <1>2, <1>3, <1>4, <1>5, AcqFields, SessionStep

\* The end of _serve.
LEMMA ServeEndsStep ==
    ASSUME AcqInv, ~ThreadEnded, UNCHANGED <<receipts, fetch, bytes, import>>,
           NEW s \in SessionRecords, NEW failure \in {"none", "unsafe"}, ServeEnds(s, failure),
           s.closing = session.closing, s.clean <=> session.clean, s.late <=> session.late,
           session.stop => s.stop /\ s.failure = session.failure /\ failure = "none"
    PROVE  AcqInv'
<1>0. session \in SessionRecords /\ serve \in ServeRecords
  BY AcqFields
<1>1. PICK word \in {"none", "authorization_lost", "unsafe", "stray", "cleanup", "changed"}, stop \in BOOLEAN :
            /\ word = IF failure = "none" THEN s.failure ELSE failure
            /\ stop = (s.stop \/ failure # "none")
  BY DEF SessionRecords
<1>2. PICK t \in SessionRecords :
            t = [s EXCEPT !.state = "closed", !.failure = word, !.stop = stop]
  BY DEF SessionRecords
<1>3. /\ t.closing = s.closing /\ (t.late <=> s.late) /\ (t.clean <=> s.clean)
      /\ (t.stop <=> stop) /\ t.failure = word
  BY <1>2 DEF SessionRecords
<1>4. session' = t
  BY <1>1, <1>2 DEF ServeEnds
<1>5. PICK v \in ServeRecords : v = [serve EXCEPT !.at = "dead"]
  BY <1>0 DEF ServeRecords
<1>6. v.at = "dead" /\ serve' = v
  BY <1>0, <1>5 DEF ServeEnds, ServeRecords
<1>7. session.stop => t.stop /\ t.failure = session.failure
  BY <1>1, <1>3
<1> QED BY <1>3, <1>4, <1>6, <1>7, AcqFields, ThreadStep

\* The thread ends only while it fetches nothing.
LEMMA ServeEndsKeeps ==
    ASSUME AcqInv, ServeStops \/ ServeUnsafe \/ ServeContradiction PROVE AcqInv'
<1>0. session \in SessionRecords /\ UNCHANGED <<receipts, fetch, bytes, import>>
  BY AcqFields DEF ServeStops, ServeUnsafe, ServeContradiction
<1>1. serve.at = "scan" /\ ~ThreadEnded
  BY DEF ServeStops, ServeUnsafe, ServeContradiction, Take, ThreadEnded
<1>2. CASE ServeStops
  <2>1. PICK s \in SessionRecords : /\ s = Heeds(session) /\ s.closing = session.closing
                                    /\ (s.clean <=> session.clean) /\ (s.late <=> session.late)
                                    /\ (session.stop => s = session)
    BY <1>0, HeedsStands
  <2>2. ServeEnds(s, "none")
    BY <1>2, <2>1 DEF ServeStops
  <2> QED BY <1>0, <1>1, <2>1, <2>2, ServeEndsStep
<1>3. CASE ServeUnsafe \/ ServeContradiction
  <2>1. ~session.stop /\ ServeEnds(session, "unsafe")
    BY <1>3 DEF ServeUnsafe, ServeContradiction, Take, Stopping
  <2> QED BY <1>0, <1>1, <2>1, ServeEndsStep
<1> QED BY <1>2, <1>3

\* What is reserved for a fetch fits in what is left of the budget.
LEMMA AllowanceFits ==
    ASSUME NEW s \in Sources, NEW spent \in Nat, Affordable(s, spent)
    PROVE  Reserve(s, spent) \in Nat /\ Reserve(s, spent) + spent <= MaxTotal
<1>1. MaxTotal \in Nat /\ MaxImage \in Nat /\ Size[s] \in Nat
  BY AcquisitionAssumption
<1> QED BY <1>1 DEF Affordable, Reserve

\* A receipt is a receipt record.
LEMMA ReceiptStands ==
    ASSUME NEW status \in {"failed", "available"},
           NEW reason \in {"interrupted", "unavailable", "limit", "fetch", "rejected", "available", "write"},
           NEW size \in Nat, NEW kept \in BOOLEAN
    PROVE  Receipt(status, reason, size, kept) \in ReceiptRecords
  BY DEF Receipt, ReceiptRecords

\* A new request is served within its allowance.
LEMMA ServeNewKeeps == ASSUME AcqInv, ServeNew PROVE AcqInv'
<1>0. /\ session \in SessionRecords /\ serve \in ServeRecords /\ fetch \in FetchRecords
      /\ receipts \in [Sources -> ReceiptRecords \cup {NoReceipt}] /\ bytes.consumed \in Nat
      /\ UNCHANGED <<bytes, import>> /\ session' = [session EXCEPT !.count = @ + 1]
      /\ session.count \in Nat
  BY AcqFields DEF ServeNew, SessionRecords
<1>1. PICK n \in AskNames : /\ Take(n) /\ channel[n] \in Sources
        /\ LET s == channel[n]
               allowed == session.count < MaxFiles /\ Affordable(s, bytes.consumed) IN
            /\ receipts[s] = NoReceipt /\ ~Contradicts(s)
            /\ \/ /\ allowed
                  /\ fetch' = [for |-> "session", source |-> s,
                               allowance |-> Reserve(s, bytes.consumed)]
                  /\ serve' = [serve EXCEPT !.at = "fetch", !.source = s]
                  /\ receipts' = [receipts EXCEPT ![s] = Receipt("failed", "interrupted", 0, FALSE)]
               \/ /\ fetch' = fetch
                  /\ serve' = serve
                  /\ receipts' = [receipts EXCEPT ![s] =
                        Receipt("failed", IF allowed THEN "unavailable" ELSE "limit", 0, FALSE)]
  BY DEF ServeNew
<1>2. PICK x \in Sources : x = channel[n]
  BY <1>1
<1>3. serve.at = "scan" /\ ~ThreadEnded /\ ~session.stop
  BY <1>1 DEF Take, Stopping, ThreadEnded
<1>4. PICK t \in SessionRecords : t = [session EXCEPT !.count = session.count + 1]
  BY <1>0 DEF SessionRecords
<1>5. /\ t.closing = session.closing /\ (t.late <=> session.late) /\ (t.clean <=> session.clean)
      /\ session' = t
  BY <1>0, <1>4 DEF SessionRecords
<1>6. receipts' \in [Sources -> ReceiptRecords \cup {NoReceipt}]
  <2>1. /\ Receipt("failed", "interrupted", 0, FALSE) \in ReceiptRecords
        /\ Receipt("failed", "unavailable", 0, FALSE) \in ReceiptRecords
        /\ Receipt("failed", "limit", 0, FALSE) \in ReceiptRecords
    BY ReceiptStands
  <2> QED BY <1>0, <1>1, <2>1
<1>7. CASE /\ Affordable(x, bytes.consumed) /\ serve' = [serve EXCEPT !.at = "fetch", !.source = x]
           /\ fetch' = [for |-> "session", source |-> x, allowance |-> Reserve(x, bytes.consumed)]
  <2>1. PICK a \in Nat : a = Reserve(x, bytes.consumed) /\ a + bytes.consumed <= MaxTotal
    BY <1>0, <1>7, AllowanceFits
  <2>2. PICK v \in ServeRecords : v = [serve EXCEPT !.at = "fetch", !.source = x]
    BY <1>0 DEF ServeRecords
  <2>3. v.at = "fetch" /\ v.source = x
    BY <1>0, <2>2 DEF ServeRecords
  <2>4. PICK f \in FetchRecords : f = [for |-> "session", source |-> x, allowance |-> a]
    BY DEF FetchRecords
  <2>5. f.for = "session" /\ f.source \in Sources /\ f.allowance = a /\ fetch' = f
    BY <1>7, <2>1, <2>4
  <2> QED BY <1>0, <1>3, <1>5, <1>6, <1>7, <2>1, <2>2, <2>3, <2>5, ThreadStep
<1>8. CASE fetch' = fetch /\ serve' = serve
  BY <1>0, <1>3, <1>5, <1>6, <1>8, ThreadStep
<1> QED BY <1>1, <1>2, <1>7, <1>8

\* A rejected body was charged when it was fetched.
LEMMA RejectedKeeps == ASSUME AcqInv, Rejected PROVE AcqInv'
<1>0. /\ session \in SessionRecords /\ serve \in ServeRecords /\ fetch \in FetchRecords
      /\ receipts \in [Sources -> ReceiptRecords \cup {NoReceipt}]
      /\ UNCHANGED <<fetch, bytes, import>> /\ session' = Heeds(session) /\ serve' = Scanning
      /\ serve.at \in {"judge", "store"} /\ ~ThreadEnded
  BY AcqFields DEF Rejected, ThreadEnded
<1>1. receipts' \in [Sources -> ReceiptRecords \cup {NoReceipt}]
  <2>1. \A r \in ReceiptRecords \cup {NoReceipt} :
            [r EXCEPT !.reason = "rejected"] \in ReceiptRecords \cup {NoReceipt}
    BY DEF ReceiptRecords, NoReceipt
  <2>2. receipts' = receipts \/ receipts' = [receipts EXCEPT ![serve.source].reason = "rejected"]
    BY DEF Rejected
  <2> QED BY <1>0, <2>1, <2>2
<1>2. PICK s \in SessionRecords : /\ s = Heeds(session) /\ s.closing = session.closing
                                  /\ (s.clean <=> session.clean) /\ (s.late <=> session.late)
                                  /\ (session.stop => s = session)
  BY <1>0, HeedsStands
<1>3. PICK v \in ServeRecords : v = Scanning /\ v.at = "scan"
  BY ScanningStands
<1> QED BY <1>0, <1>1, <1>2, <1>3, ThreadStep

\* A body is stored under the receipt of its own fetch.
LEMMA StoreKeeps == ASSUME AcqInv, Store PROVE AcqInv'
<1>0. /\ session \in SessionRecords /\ serve \in ServeRecords /\ fetch \in FetchRecords
      /\ receipts \in [Sources -> ReceiptRecords \cup {NoReceipt}] /\ serve.body \in Nat
      /\ UNCHANGED <<session, fetch, bytes, import>> /\ serve' = Scanning
      /\ serve.at = "store" /\ ~ThreadEnded
  BY AcqFields DEF Store, ThreadEnded, ServeRecords
<1>1. receipts' \in [Sources -> ReceiptRecords \cup {NoReceipt}]
  <2>1. /\ Receipt("available", "available", serve.body, TRUE) \in ReceiptRecords
        /\ \A kept \in BOOLEAN : Receipt("failed", "write", serve.body, kept) \in ReceiptRecords
    BY <1>0, ReceiptStands
  <2> QED BY <1>0, <2>1 DEF Store
<1>2. PICK s \in SessionRecords : s = session
  BY <1>0
<1>3. PICK v \in ServeRecords : v = Scanning /\ v.at = "scan"
  BY ScanningStands
<1> QED BY <1>0, <1>1, <1>2, <1>3, ThreadStep

\* close() waits for the thread for a time and says whether it came.
LEMMA CloseKeeps == ASSUME AcqInv, CloseBegin \/ CloseJoined \/ CloseLooks PROVE AcqInv'
<1>0. /\ session \in SessionRecords /\ serve \in ServeRecords /\ fetch \in FetchRecords
      /\ receipts \in [Sources -> ReceiptRecords \cup {NoReceipt}]
      /\ serve' = serve /\ receipts' = receipts /\ fetch' = fetch
      /\ bytes' = bytes /\ import' = import /\ session.closing # "done"
      /\ SessionStands
  BY AcqFields DEF CloseBegin, CloseJoined, CloseLooks, AcqInv
<1>0a. /\ import.at = "idle" /\ import.entries = <<>>
       /\ (session.closing = "joined" /\ ~session.late => ThreadEnded)
       /\ (session.closing \in {"no", "joining"} => ~session.late)
  BY <1>0 DEF SessionStands, AcqInv, ImportStands
<1>1. CASE CloseBegin
  <2>1. PICK s \in SessionRecords : s = [session EXCEPT !.stop = TRUE, !.closing = "joining"]
    BY <1>0 DEF SessionRecords
  <2>2. /\ s.closing = "joining" /\ s.stop /\ (s.late <=> session.late)
        /\ s.failure = session.failure /\ session' = s /\ session.closing = "no"
    BY <1>0, <1>1, <2>1 DEF SessionRecords, CloseBegin
  <2>3. SessionStands'
    BY <1>0, <1>0a, <2>2 DEF SessionStands, ThreadEnded
  <2>4. ~session'.late => StrayEnds' /\ (serve.at = "fetch" => fetch.allowance + bytes.consumed <= MaxTotal)
    BY <1>0, <2>2 DEF AcqInv, StrayEnds, Allowances
  <2> QED BY <1>0, <2>2, <2>3, <2>4, SessionStep
<1>2. CASE CloseJoined
  <2>1. PICK late \in BOOLEAN : late = ~ThreadEnded
    OBVIOUS
  <2>2. PICK s \in SessionRecords : s = [session EXCEPT !.closing = "joined", !.late = late]
    BY <1>0 DEF SessionRecords
  <2>3. /\ s.closing = "joined" /\ (s.stop <=> session.stop) /\ (s.late <=> ~ThreadEnded)
        /\ s.failure = session.failure /\ session' = s /\ session.closing = "joining"
    <3>1. session' = s /\ session.closing = "joining"
      BY <1>2, <2>1, <2>2 DEF CloseJoined
    <3>2. /\ s.closing = "joined" /\ (s.stop <=> session.stop) /\ s.failure = session.failure
          /\ (s.late <=> late)
      BY <1>0, <2>2 DEF SessionRecords
    <3>3. late <=> ~ThreadEnded
      BY <2>1
    <3> QED BY <3>1, <3>2, <3>3
  <2>4. SessionStands'
    BY <1>0, <1>0a, <2>3 DEF SessionStands, ThreadEnded
  <2>5. ~session'.late => StrayEnds' /\ (serve.at = "fetch" => fetch.allowance + bytes.consumed <= MaxTotal)
    BY <1>0, <1>0a, <2>3 DEF AcqInv, StrayEnds, Allowances
  <2> QED BY <1>0, <1>0a, <2>3, <2>4, <2>5, SessionStep
<1>3. CASE CloseLooks
  <2> DEFINE spoiled == \E s \in Sources : receipts[s].status = "available" /\ ~Intact(s)
  <2>1. PICK clean \in BOOLEAN : clean = (ThreadEnded /\ session.failure # "stray")
    OBVIOUS
  <2>2. PICK state \in {"none", "accepting", "closed"},
             word \in {"none", "authorization_lost", "unsafe", "stray", "cleanup", "changed"} :
            /\ state = IF session.started THEN "closed" ELSE session.state
            /\ word = IF ~clean THEN "cleanup" ELSE IF spoiled THEN "changed" ELSE session.failure
    BY <1>0 DEF SessionRecords
  <2>3. PICK t \in SessionRecords : t = [session EXCEPT !.closing = "done", !.clean = clean]
    BY <1>0 DEF SessionRecords
  <2>4. PICK s \in SessionRecords : s = [t EXCEPT !.state = state, !.failure = word]
    BY DEF SessionRecords
  <2>5. t.closing = "done" /\ (t.late <=> session.late) /\ (t.clean <=> clean)
    BY <1>0, <2>3 DEF SessionRecords
  <2>6. s.closing = "done" /\ (s.late <=> session.late) /\ (s.clean <=> clean)
    BY <2>4, <2>5 DEF SessionRecords
  <2>7. clean <=> ThreadEnded /\ session.failure # "stray"
    BY <2>1
  <2>8. session' = s /\ session.closing = "joined"
    <3>1. session' = [session EXCEPT !.closing = "done", !.clean = clean, !.state = state, !.failure = word]
      BY <1>3, <2>1, <2>2 DEF CloseLooks
    <3> QED BY <1>0, <1>3, <2>3, <2>4, <3>1 DEF SessionRecords, CloseLooks
  <2>9. SessionStands'
    BY <1>0, <1>0a, <2>6, <2>7, <2>8 DEF SessionStands, ThreadEnded
  <2>10. ~session'.late => StrayEnds' /\ (serve.at = "fetch" => fetch.allowance + bytes.consumed <= MaxTotal)
    BY <1>0, <1>0a, <2>6, <2>7, <2>8 DEF AcqInv, StrayEnds, Allowances
  <2> QED BY <1>0, <2>6, <2>8, <2>9, <2>10, SessionStep
<1> QED BY <1>1, <1>2, <1>3

\* The world's steps, and the thread's that only read a request.
LEMMA QuietKeeps ==
    ASSUME AcqInv, \/ LoseAuthority \/ Overwrite \/ Ask \/ ServeMalformed \/ ServeKnown
                   \/ AcqFinished \/ UNCHANGED acqVars
    PROVE  AcqInv'
<1>1. UNCHANGED <<session, serve, receipts, fetch, bytes, import>>
  BY DEF LoseAuthority, Overwrite, Ask, ServeMalformed, ServeKnown, AcqFinished, acqVars
<1> QED BY <1>1, AcqQuietStep

\* What a fetch may have moved, and what it is charged.
Probe(o, allowance) == IF o.moved > allowance THEN 1 ELSE 0
\* The fields of an outcome.
LEMMA OutcomeFields ==
    ASSUME NEW code, NEW moved \in Nat, NEW told \in Int, NEW o, o = Outcome(code, moved, told)
    PROVE  o.code = code /\ o.moved = moved /\ o.told = told
  BY DEF Outcome

Unsure == {"timeout", "killed_timeout", "cancelled", "worker_failed", "cleanup_failed", "transport"}
\* The outcomes by what is known of them: all of the bytes, none of them (and
\* then the whole allowance is charged), or that there were no bytes.
LEMMA OutcomeCases ==
    ASSUME NEW kind, NEW max \in Nat, NEW cancelled \in BOOLEAN,
           NEW o \in FetchOutcomes(kind, max, cancelled)
    PROVE  /\ o.moved \in 0..(max + 1) /\ o.told \in Int
           /\ \/ o.code = "body" /\ o.moved <= max
              \/ o.code \notin Unsure \cup {"body"} /\ (o.told = o.moved \/ o.moved = 0)
              \/ o.code \in Unsure /\ o.told <= 0
<1>0. MetadataBytes \in Nat
  BY AcquisitionAssumption
<1>1. CASE o \in Killed(max, cancelled)
  <2>1. PICK n \in 0..(max + 1), code \in {"killed_timeout", "cleanup_failed", "cancelled"} :
                o = Outcome(code, n, -1)
    BY <1>1 DEF Killed
  <2>2. o.code = code /\ o.moved = n /\ o.told = -1
    BY <2>1, OutcomeFields
  <2> QED BY <2>2 DEF Unsure
<1>2. CASE o \in ReadBody(max)
  <2>1. \/ \E n \in 0..max, code \in {"body", "incomplete"} : o = Outcome(code, n, n)
        \/ o = Outcome("too_large", 0, 0) \/ o = Outcome("too_large", max + 1, max + 1)
    BY <1>2 DEF ReadBody
  <2>2. PICK n \in 0..(max + 1), code \in {"body", "incomplete", "too_large"} :
                o = Outcome(code, n, n) /\ (code = "body" => n <= max)
    BY <2>1
  <2>3. o.code = code /\ o.moved = n /\ o.told = n
    BY <2>2, OutcomeFields
  <2> QED BY <2>2, <2>3 DEF Unsure
<1>3. CASE \E n \in 0..(max + 1), code \in {"timeout", "transport"} : o = Outcome(code, n, 0)
  <2>1. PICK n \in 0..(max + 1), code \in {"timeout", "transport"} : o = Outcome(code, n, 0)
    BY <1>3
  <2>2. o.code = code /\ o.moved = n /\ o.told = 0
    BY <2>1, OutcomeFields
  <2> QED BY <2>2 DEF Unsure
<1>4. CASE \E n \in 0..(max + 1) : o = Outcome("worker_failed", n, -1)
  <2>1. PICK n \in 0..(max + 1) : o = Outcome("worker_failed", n, -1)
    BY <1>4
  <2>2. o.code = "worker_failed" /\ o.moved = n /\ o.told = -1
    BY <2>1, OutcomeFields
  <2> QED BY <2>2 DEF Unsure
<1>5. CASE \E n \in Nat \cup {-1}, code \in {"refused", "incomplete", "metadata"} : o = Outcome(code, 0, n)
  <2>1. PICK n \in Nat \cup {-1}, code \in {"refused", "incomplete", "metadata"} : o = Outcome(code, 0, n)
    BY <1>5
  <2>2. o.code = code /\ o.moved = 0 /\ o.told = n
    BY <2>1, OutcomeFields
  <2> QED BY <2>2 DEF Unsure
<1>6. \/ o \in Killed(max, cancelled) \/ o \in ReadBody(max) \/ o \in Refused
      \/ o \in {Outcome("timeout", n, 0) : n \in 0..(max + 1)}
      \/ o \in {Outcome("transport", n, 0) : n \in 0..(max + 1)}
      \/ o \in {Outcome("worker_failed", n, -1) : n \in 0..(max + 1)}
      \/ o \in {Outcome("incomplete", 0, n) : n \in 0..MetadataBytes}
      \/ o = Outcome("metadata", 0, -1)
  BY DEF FetchOutcomes, MediaOutcomes, ChildOutcomes
<1>7. o \in Refused \/ o = Outcome("metadata", 0, -1) \/ o \in {Outcome("incomplete", 0, n) : n \in 0..MetadataBytes}
        => \E n \in Nat \cup {-1}, code \in {"refused", "incomplete", "metadata"} : o = Outcome(code, 0, n)
  <2>1. o \in Refused => o = Outcome("refused", 0, 0)
    BY DEF Refused
  <2> QED BY <1>0, <2>1
<1> QED BY <1>1, <1>2, <1>3, <1>4, <1>5, <1>6, <1>7

\* Whatever a child reports, it is charged with what it moved, but for the probing
\* byte.
LEMMA OutcomeIsCharged ==
    ASSUME NEW kind, NEW max \in Nat, NEW cancelled \in BOOLEAN,
           NEW o \in FetchOutcomes(kind, max, cancelled)
    PROVE  /\ Charge(o, max) \in Nat /\ o.moved \in Nat /\ Probe(o, max) \in {0, 1}
           /\ o.moved <= max + Probe(o, max) /\ o.moved <= max + 1
           /\ o.code # "body" => o.moved <= Charge(o, max) + Probe(o, max)
           /\ o.code = "cleanup_failed" => max <= Charge(o, max)
           /\ o.code = "body" => o.moved <= max /\ Probe(o, max) = 0
<1>1. PICK told \in Int, moved \in 0..(max + 1) : told = o.told /\ moved = o.moved
  BY OutcomeCases
<1>2. \/ o.code = "body" /\ moved <= max
      \/ o.code \notin Unsure \cup {"body"} /\ (told = moved \/ moved = 0)
      \/ o.code \in Unsure /\ told <= 0
  BY <1>1, OutcomeCases
<1>3. o.code \in Unsure => UnsureMoves(o)
  BY DEF Unsure, UnsureMoves
<1>4. Charge(o, max) \in Nat /\ (told > 0 => told <= Charge(o, max)) /\ (UnsureMoves(o) => max <= Charge(o, max))
  <2>1. PICK unsure \in BOOLEAN : unsure = UnsureMoves(o)
    BY DEF UnsureMoves
  <2>2. Charge(o, max) = LET t == IF told < 0 THEN 0 ELSE told
                             kept == IF unsure THEN max ELSE 0
                         IN IF t > kept THEN t ELSE kept
    BY <1>1, <2>1 DEF Charge
  <2> QED BY <2>1, <2>2
<1>5. (o.code = "cleanup_failed" => o.code \in Unsure) /\ "body" \notin Unsure
  BY DEF Unsure
<1>6. PICK charge \in Nat : charge = Charge(o, max)
  BY <1>4
<1>7. Probe(o, max) = IF moved > max THEN 1 ELSE 0
  BY <1>1 DEF Probe
<1>8. o.code # "body" => moved <= charge + Probe(o, max)
  BY <1>2, <1>3, <1>4, <1>6, <1>7
<1> QED BY <1>1, <1>2, <1>3, <1>4, <1>5, <1>6, <1>7, <1>8

\* The transfer in the ledger of bytes: what moved and what may still move is
\* covered by the charge, and by the allowance, but for the probing byte.
LEMMA MovesStand ==
    ASSUME NEW kind, NEW max \in Nat, NEW cancelled \in BOOLEAN, bytes \in ByteRecords,
           NEW o \in FetchOutcomes(kind, max, cancelled)
    PROVE  /\ Moves(o, max) \in ByteRecords /\ Moves(o, max).consumed = bytes.consumed
           /\ bytes.stuck = 0 /\ o.code # "cleanup_failed" =>
                /\ Moves(o, max).stuck = 0
                /\ Moves(o, max).moved = bytes.moved + o.moved
                /\ Moves(o, max).probes = bytes.probes + Probe(o, max)
           /\ o.code = "cleanup_failed" =>
                /\ Moves(o, max).moved = bytes.moved + o.moved
                /\ Moves(o, max).probes = bytes.probes + Probe(o, max)
                /\ Moves(o, max).stuck + o.moved = max + 1
<1>0. bytes.moved \in Nat /\ bytes.probes \in Nat /\ bytes.stuck \in Nat /\ bytes.consumed \in Nat
  BY DEF ByteRecords
<1>1. PICK moved \in Nat, probe \in {0, 1} :
            moved = o.moved /\ probe = Probe(o, max) /\ moved <= max + 1
  BY OutcomeIsCharged
<1>2. PICK stuck \in Nat : /\ stuck = IF o.code = "cleanup_failed" THEN max + 1 - moved ELSE bytes.stuck
  BY <1>0, <1>1
<1>3. PICK m \in Nat, p \in Nat : m = bytes.moved + moved /\ p = bytes.probes + probe
  BY <1>0, <1>1
<1>3a. PICK b \in ByteRecords : b = [bytes EXCEPT !.moved = m, !.probes = p, !.stuck = stuck]
  BY DEF ByteRecords
<1>4. b.consumed = bytes.consumed /\ b.moved = m /\ b.probes = p /\ b.stuck = stuck
  BY <1>3a DEF ByteRecords
<1>5. Moves(o, max) = b
  BY <1>1, <1>2, <1>3, <1>3a DEF Moves, Probe
<1> QED BY <1>0, <1>1, <1>2, <1>3, <1>4, <1>5

\* While a fetch of the session, or of an import, is under way nothing is stuck.
LEMMA NothingStuck ==
    ASSUME AcqInv, ~session.late, serve.at = "fetch" \/ import.at = "fetch"
    PROVE  bytes.stuck = 0
<1>1. bytes.stuck \in Nat /\ StrayEnds /\ SessionStands
  BY AcqFields DEF AcqInv
<1>2. CASE serve.at = "fetch"
  <2>1. ~ThreadEnded /\ session.closing \notin {"joined", "done"}
    BY <1>1, <1>2 DEF SessionStands, ThreadEnded
  <2>2. import.at = "idle"
    BY <1>1, <2>1 DEF SessionStands
  <2> QED BY <1>1, <1>2, <2>1, <2>2 DEF StrayEnds
<1>3. CASE import.at = "fetch"
  <2>1. session.closing = "done" /\ session.clean
    BY <1>1, <1>3 DEF SessionStands, Trusted
  <2> QED BY <1>1, <1>3, <2>1 DEF StrayEnds
<1> QED BY <1>2, <1>3

\* The idle fetch is for nobody.
LEMMA IdleIs == Idle \in FetchRecords /\ Idle.for = "none"
  BY DEF Idle, FetchRecords

\* The thread comes back from its fetch.
LEMMA ThreadMoves ==
    ASSUME AcqInv, serve.at = "fetch", import' = import, fetch' = Idle,
           NEW s \in SessionRecords, session' = s, s.closing = session.closing,
           s.clean <=> session.clean, s.late <=> session.late,
           NEW v \in ServeRecords, serve' = v, v.at \in {"scan", "judge", "store"},
           v.at \in {"judge", "store"} => v.source \in Sources,
           receipts' \in [Sources -> ReceiptRecords \cup {NoReceipt}],
           NEW b \in ByteRecords, bytes' = b,
           ~session.late =>
                /\ b.stuck > 0 => s.stop /\ s.failure = "stray"
                /\ b.moved + Stray' <= b.consumed + b.probes
                /\ b.moved + Stray' <= MaxTotal + b.probes
    PROVE  AcqInv'
<1>1. import.at \in {"idle", "refused"} /\ import.entries = <<>> /\ ~ThreadEnded
  BY NoImportYet DEF ThreadEnded
<1>2. AcqTypes'
  BY IdleIs DEF AcqInv, AcqTypes
<1>3. SessionStands'
  BY <1>1 DEF AcqInv, SessionStands, ThreadEnded
<1>4. ImportStands'
  BY <1>1, EmptySeq DEF ImportStands
<1>5. ~session.late => StrayEnds' /\ Accounts' /\ Allowances'
  <2> SUFFICES ASSUME ~session.late PROVE StrayEnds' /\ Accounts' /\ Allowances'
    OBVIOUS
  <2>1. session.closing \notin {"joined", "done"}
    BY <1>1 DEF AcqInv, SessionStands
  <2>2. StrayEnds'
    BY <2>1 DEF StrayEnds
  <2>3. Accounts'
    BY <1>1 DEF Accounts
  <2>4. Allowances'
    BY <1>1 DEF Allowances
  <2> QED BY <2>2, <2>3, <2>4
<1> QED BY <1>2, <1>3, <1>4, <1>5 DEF AcqInv

\* What is known when the thread's fetch ends before close() gave it up.
LEMMA FetchAccounts ==
    ASSUME AcqInv, serve.at = "fetch", ~session.late
    PROVE  /\ bytes.stuck = 0 /\ ~closed /\ bytes.moved <= bytes.consumed + bytes.probes
           /\ fetch.allowance + bytes.consumed <= MaxTotal
<1>1. session.closing \notin {"joined", "done"} /\ ~closed
  BY DEF AcqInv, SessionStands, ThreadEnded, closed
<1>2. import.at = "idle"
  BY <1>1 DEF AcqInv, SessionStands
<1>3. Accounts /\ Allowances /\ bytes.stuck = 0
  BY NothingStuck DEF AcqInv
<1>4. bytes.moved + Stray <= bytes.consumed + bytes.probes
  BY <1>2, <1>3 DEF Accounts
<1>5. Stray = 0
  BY <1>3 DEF Stray
<1> QED BY <1>1, <1>3, <1>4, <1>5, AcqFields DEF Allowances

\* A fetch that fails is charged and frees its allowance.
LEMMA FetchFailsKeeps == ASSUME AcqInv, FetchFails PROVE AcqInv'
<1>0. /\ session \in SessionRecords /\ bytes \in ByteRecords /\ fetch.allowance \in Nat
      /\ receipts \in [Sources -> ReceiptRecords \cup {NoReceipt}] /\ bytes.consumed \in Nat
      /\ serve.at = "fetch" /\ import' = import /\ fetch' = Idle /\ serve' = Scanning
      /\ bytes.moved \in Nat /\ bytes.probes \in Nat
  BY AcqFields DEF FetchFails
<1>1. PICK max \in Nat, c \in BOOLEAN : max = fetch.allowance /\ c = Stopping
  BY <1>0 DEF Stopping
<1>2. PICK o \in FetchOutcomes(Kind[fetch.source], max, c) :
        /\ o.code # "body"
        /\ LET s == fetch.source
               s2 == IF o.code = "cancelled" THEN Heeds(session) ELSE session
               gone == o.code = "cleanup_failed" IN
           IF closed
           THEN /\ bytes' = Moves(o, max)
                /\ session' = s2 /\ receipts' = receipts
           ELSE /\ bytes' = [Moves(o, max) EXCEPT !.consumed = @ + Charge(o, max)]
                /\ receipts' = [receipts EXCEPT ![s].reason = "fetch"]
                /\ session' = IF gone THEN [s2 EXCEPT !.stop = TRUE, !.failure = "stray"] ELSE s2
  BY <1>1 DEF FetchFails
<1>3. PICK s2 \in SessionRecords :
        /\ s2 = IF o.code = "cancelled" THEN Heeds(session) ELSE session
        /\ s2.closing = session.closing /\ (s2.clean <=> session.clean) /\ (s2.late <=> session.late)
  BY <1>0, HeedsStands
<1>4. PICK charge \in Nat, moved \in Nat, probe \in {0, 1} :
        /\ charge = Charge(o, max) /\ moved = o.moved /\ probe = Probe(o, max)
        /\ moved <= max + probe /\ moved <= charge + probe
        /\ (o.code = "cleanup_failed" => max <= charge) /\ moved <= max + 1
  BY <1>2, OutcomeIsCharged
<1>5. PICK m \in ByteRecords :
        /\ m = Moves(o, max) /\ m.consumed = bytes.consumed
        /\ bytes.stuck = 0 /\ o.code # "cleanup_failed" =>
             m.stuck = 0 /\ m.moved = bytes.moved + moved /\ m.probes = bytes.probes + probe
        /\ o.code = "cleanup_failed" =>
             /\ m.moved = bytes.moved + moved /\ m.probes = bytes.probes + probe
             /\ m.stuck + moved = max + 1
  BY <1>0, <1>4, MovesStand
<1>6. receipts' \in [Sources -> ReceiptRecords \cup {NoReceipt}]
  <2>1. \A r \in ReceiptRecords \cup {NoReceipt} :
            [r EXCEPT !.reason = "fetch"] \in ReceiptRecords \cup {NoReceipt}
    BY DEF ReceiptRecords, NoReceipt
  <2>2. receipts' = receipts \/ receipts' = [receipts EXCEPT ![fetch.source].reason = "fetch"]
    BY <1>2
  <2> QED BY <1>0, <2>1, <2>2
<1>7. PICK v \in ServeRecords : v = Scanning /\ v.at = "scan"
  BY ScanningStands
<1>8. CASE closed
  <2>1. session.late
    BY <1>0, <1>8, FetchAccounts
  <2>2. bytes' = m /\ session' = s2
    BY <1>2, <1>3, <1>5, <1>8
  <2> QED BY <1>0, <1>3, <1>6, <1>7, <2>1, <2>2, ThreadMoves
<1>9. CASE ~closed
  <2>1. PICK total \in Nat : total = bytes.consumed + charge
    BY <1>0
  <2>2. PICK b \in ByteRecords : b = [m EXCEPT !.consumed = total]
    BY DEF ByteRecords
  <2>3. b.consumed = total /\ b.moved = m.moved /\ b.probes = m.probes /\ b.stuck = m.stuck
    BY <2>2 DEF ByteRecords
  <2>4. bytes' = b
    BY <1>2, <1>4, <1>5, <1>9, <2>1, <2>2
  <2>5. PICK s3 \in SessionRecords : s3 = [s2 EXCEPT !.stop = TRUE, !.failure = "stray"]
    BY DEF SessionRecords
  <2>6. /\ s3.closing = s2.closing /\ (s3.clean <=> s2.clean) /\ (s3.late <=> s2.late)
        /\ s3.stop /\ s3.failure = "stray"
    BY <2>5 DEF SessionRecords
  <2>7. PICK s4 \in SessionRecords : s4 = IF o.code = "cleanup_failed" THEN s3 ELSE s2
    OBVIOUS
  <2>8. session' = s4
    BY <1>2, <1>3, <1>9, <2>5, <2>7
  <2>9. /\ s4.closing = session.closing /\ (s4.clean <=> session.clean) /\ (s4.late <=> session.late)
        /\ o.code = "cleanup_failed" => s4.stop /\ s4.failure = "stray"
    BY <1>3, <2>6, <2>7
  <2>10. b.stuck \in Nat /\ Stray' = IF b.stuck > 0 THEN b.stuck - 1 ELSE 0
    BY <2>4 DEF Stray, ByteRecords
  <2>11. ~session.late => /\ b.stuck > 0 => s4.stop /\ s4.failure = "stray"
                          /\ b.moved + Stray' <= b.consumed + b.probes
                          /\ b.moved + Stray' <= MaxTotal + b.probes
    <3> SUFFICES ASSUME ~session.late
                 PROVE  /\ b.stuck > 0 => s4.stop /\ s4.failure = "stray"
                        /\ b.moved + Stray' <= b.consumed + b.probes
                        /\ b.moved + Stray' <= MaxTotal + b.probes
      OBVIOUS
    <3>1. /\ bytes.stuck = 0 /\ bytes.moved <= bytes.consumed + bytes.probes
          /\ max + bytes.consumed <= MaxTotal /\ MaxTotal \in Nat
      BY <1>0, <1>1, FetchAccounts, AcqFields
    <3>2. CASE o.code = "cleanup_failed"
      <4>1. b.moved = bytes.moved + moved /\ b.probes = bytes.probes + probe /\ b.stuck + moved = max + 1
        BY <1>5, <2>3, <3>2
      <4>2. moved + Stray' <= charge + probe /\ moved + Stray' <= max + probe /\ Stray' \in Nat
        BY <1>4, <2>10, <3>2, <4>1
      <4> QED BY <1>0, <1>4, <2>1, <2>3, <2>9, <3>1, <3>2, <4>1, <4>2
    <3>3. CASE o.code # "cleanup_failed"
      <4>1. /\ b.moved = bytes.moved + moved /\ b.probes = bytes.probes + probe
            /\ b.stuck = 0 /\ Stray' = 0
        BY <1>5, <2>3, <2>10, <3>1, <3>3
      <4> QED BY <1>0, <1>4, <2>1, <2>3, <3>1, <4>1
    <3> QED BY <3>2, <3>3
  <2> QED BY <1>0, <1>6, <1>7, <2>4, <2>8, <2>9, <2>11, ThreadMoves
<1> QED BY <1>8, <1>9

\* A fetch that returns is charged; a child that is left behind ends its session or
\* import.
LEMMA FetchReturnsKeeps == ASSUME AcqInv, FetchReturns PROVE AcqInv'
<1>0. /\ session \in SessionRecords /\ bytes \in ByteRecords /\ fetch.allowance \in Nat
      /\ receipts \in [Sources -> ReceiptRecords \cup {NoReceipt}] /\ bytes.consumed \in Nat
      /\ serve \in ServeRecords /\ serve.at = "fetch" /\ import' = import /\ fetch' = Idle
      /\ bytes.moved \in Nat /\ bytes.probes \in Nat /\ session' = session /\ receipts' = receipts
  BY AcqFields DEF FetchReturns
<1>1. PICK max \in Nat, c \in BOOLEAN : max = fetch.allowance /\ c = Stopping
  BY <1>0 DEF Stopping
<1>2. PICK o \in FetchOutcomes(Kind[fetch.source], max, c), good \in BOOLEAN :
        /\ o.code = "body"
        /\ IF closed
           THEN /\ bytes' = Moves(o, max)
                /\ serve' = Scanning
           ELSE /\ bytes' = [Moves(o, max) EXCEPT !.consumed = @ + o.moved]
                /\ serve' = [serve EXCEPT !.at = IF good THEN "store" ELSE "judge", !.body = o.moved]
  BY <1>1 DEF FetchReturns
<1>3. PICK s \in SessionRecords : s = session
  BY <1>0
<1>4. PICK moved \in Nat : moved = o.moved /\ moved <= max /\ Probe(o, max) = 0
  BY <1>2, OutcomeIsCharged
<1>5. PICK m \in ByteRecords :
        /\ m = Moves(o, max) /\ m.consumed = bytes.consumed
        /\ bytes.stuck = 0 => m.stuck = 0 /\ m.moved = bytes.moved + moved /\ m.probes = bytes.probes
  <2>1. o.code # "cleanup_failed"
    BY <1>2
  <2>2. bytes.probes + Probe(o, max) = bytes.probes
    BY <1>0, <1>4
  <2> QED BY <1>0, <1>4, <2>1, <2>2, MovesStand
<1>8. CASE closed
  <2>1. session.late
    BY <1>0, <1>8, FetchAccounts
  <2>2. bytes' = m /\ serve' = Scanning
    BY <1>2, <1>5, <1>8
  <2>3. PICK v \in ServeRecords : v = Scanning /\ v.at = "scan"
    BY ScanningStands
  <2> QED BY <1>0, <1>3, <2>1, <2>2, <2>3, ThreadMoves
<1>9. CASE ~closed
  <2>1. PICK total \in Nat : total = bytes.consumed + moved
    BY <1>0
  <2>2. PICK b \in ByteRecords : b = [m EXCEPT !.consumed = total]
    BY DEF ByteRecords
  <2>3. b.consumed = total /\ b.moved = m.moved /\ b.probes = m.probes /\ b.stuck = m.stuck
    BY <2>2 DEF ByteRecords
  <2>4. bytes' = b
    BY <1>2, <1>4, <1>5, <1>9, <2>1, <2>2
  <2>5. PICK at \in {"store", "judge"} : at = IF good THEN "store" ELSE "judge"
    OBVIOUS
  <2>6. PICK v \in ServeRecords : v = [serve EXCEPT !.at = at, !.body = moved]
    BY <1>0 DEF ServeRecords
  <2>7. v.at = at /\ v.source = serve.source /\ serve.source \in Sources
    BY <1>0, <2>6 DEF ServeRecords, AcqInv, SessionStands
  <2>8. serve' = v
    BY <1>2, <1>4, <1>9, <2>5, <2>6
  <2>9. ~session.late => /\ b.stuck = 0
                          /\ b.moved + Stray' <= b.consumed + b.probes
                          /\ b.moved + Stray' <= MaxTotal + b.probes
    <3> SUFFICES ASSUME ~session.late
                 PROVE  /\ b.stuck = 0
                        /\ b.moved + Stray' <= b.consumed + b.probes
                        /\ b.moved + Stray' <= MaxTotal + b.probes
      OBVIOUS
    <3>1. /\ bytes.stuck = 0 /\ bytes.moved <= bytes.consumed + bytes.probes
          /\ max + bytes.consumed <= MaxTotal /\ MaxTotal \in Nat
      BY <1>0, <1>1, FetchAccounts, AcqFields
    <3>2. b.stuck = 0 /\ b.moved = bytes.moved + moved /\ b.probes = bytes.probes
      BY <1>5, <2>3, <3>1
    <3>3. Stray' = 0
      BY <2>4, <3>2 DEF Stray
    <3> QED BY <1>0, <1>4, <2>1, <2>3, <3>1, <3>2, <3>3
  <2> QED BY <1>0, <1>3, <2>4, <2>5, <2>7, <2>8, <2>9, ThreadMoves
<1> QED BY <1>8, <1>9

\* A child that outlived its kill ends, and what it moved was covered.
LEMMA StrayTransferKeeps == ASSUME AcqInv, StrayTransfer PROVE AcqInv'
<1>0. /\ bytes \in ByteRecords /\ bytes.moved \in Nat /\ bytes.probes \in Nat /\ bytes.stuck \in Nat
      /\ bytes.stuck > 0 /\ UNCHANGED <<session, serve, receipts, fetch, import>>
      /\ bytes' = [bytes EXCEPT !.stuck = 0, !.moved = @ + bytes.stuck, !.probes = @ + 1]
  BY AcqFields DEF StrayTransfer
<1>1. PICK m \in Nat, p \in Nat : m = bytes.moved + bytes.stuck /\ p = bytes.probes + 1
  BY <1>0
<1>2. PICK b \in ByteRecords : b = [bytes EXCEPT !.stuck = 0, !.moved = m, !.probes = p]
  BY <1>0 DEF ByteRecords
<1>3. b.stuck = 0 /\ b.moved = m /\ b.probes = p /\ b.consumed = bytes.consumed /\ bytes' = b
  BY <1>0, <1>1, <1>2 DEF ByteRecords
<1>4. AcqTypes'
  BY <1>0, <1>3 DEF AcqInv, AcqTypes
<1>5. SessionStands' /\ ImportStands'
  BY <1>0 DEF AcqInv, SessionStands, ImportStands, ThreadEnded, Trusted, here, artifact
<1>6. ~session.late => StrayEnds' /\ Accounts' /\ Allowances'
  <2>1. StrayEnds'
    BY <1>3 DEF StrayEnds
  <2>2. ~session.late => Allowances'
    BY <1>0, <1>3 DEF AcqInv, Allowances
  <2>3. Stray' = 0 /\ Stray = bytes.stuck - 1
    BY <1>0, <1>3 DEF Stray
  <2>4. b.moved + Stray' = bytes.moved + Stray + 1 /\ b.probes = bytes.probes + 1
    BY <1>0, <1>1, <1>3, <2>3
  <2>5. ~session.late => Accounts'
    <3>1. import' = import /\ LocalBytes(import.artifacts)' = LocalBytes(import.artifacts)
      BY <1>0 DEF LocalBytes, Locals
    <3>2. PICK n \in Nat, p0 \in Nat : n = bytes.moved + Stray /\ p0 = bytes.probes
      BY AcqFields
    <3>3. PICK total \in Nat, lb \in Nat, consumed \in Nat :
            /\ total = import.total /\ lb = LocalBytes(import.artifacts) /\ consumed = bytes.consumed
      BY AcqFields
    <3>4. MaxTotal \in Nat
      BY AcqFields
    <3> SUFFICES ASSUME ~session.late PROVE Accounts'
      OBVIOUS
    <3>5. \/ import.at \in {"idle", "refused"} /\ n <= consumed + p0 /\ n <= MaxTotal + p0
          \/ import.at # "idle" /\ total <= MaxTotal /\ n <= total - lb + p0
      BY <3>2, <3>3 DEF AcqInv, Accounts
    <3>6. \/ import.at \in {"idle", "refused"} /\ n + 1 <= consumed + (p0 + 1) /\ n + 1 <= MaxTotal + (p0 + 1)
          \/ import.at # "idle" /\ total <= MaxTotal /\ n + 1 <= total - lb + (p0 + 1)
      BY <3>2, <3>3, <3>4, <3>5
    <3>7. b.moved + Stray' = n + 1 /\ b.probes = p0 + 1 /\ b.consumed = consumed
      BY <1>3, <2>4, <3>2, <3>3
    <3> QED BY <1>3, <3>1, <3>3, <3>6, <3>7 DEF Accounts
  <2> QED BY <2>1, <2>2, <2>5
<1> QED BY <1>0, <1>4, <1>5, <1>6 DEF AcqInv

\* The import.
LEMMA RewriteLocalKeeps == ASSUME AcqInv, RewriteLocal PROVE AcqInv'
<1>0. /\ import \in ImportRecords /\ import.at = "loop"
      /\ UNCHANGED <<session, serve, receipts, fetch, bytes>>
      /\ import' = [import EXCEPT !.locals = "changed"]
  BY AcqFields DEF RewriteLocal
<1>1. PICK i \in ImportRecords : i = [import EXCEPT !.locals = "changed"]
  BY <1>0 DEF ImportRecords
<1>2. /\ i.at = import.at /\ i.artifacts = import.artifacts /\ i.entries = import.entries
      /\ i.total = import.total /\ import' = i
  BY <1>0, <1>1 DEF ImportRecords
<1>3. AcqTypes'
  BY <1>0, <1>2 DEF AcqInv, AcqTypes
<1>4. SessionStands' /\ ImportStands'
  BY <1>0, <1>2 DEF AcqInv, SessionStands, ImportStands, ThreadEnded, Trusted, here, artifact
<1>5. ~session.late => StrayEnds' /\ Accounts' /\ Allowances'
  BY <1>0, <1>2 DEF AcqInv, StrayEnds, Accounts, Allowances, Stray, LocalBytes, Locals
<1> QED BY <1>0, <1>3, <1>4, <1>5 DEF AcqInv

Genuine(e) ==
    e.status = "available" =>
        /\ e.content = "good"
        /\ e.from \in Sources => receipts[e.from].status \in {"none", "available"}
AllGenuine(list) == \A i \in DOMAIN list : Genuine(list[i])

\* A list of genuine entries stays one when a genuine entry is added.
LEMMA AppendStands ==
    ASSUME NEW list \in Seq(ImportEntries), AllGenuine(list),
           NEW e \in ImportEntries, Genuine(e)
    PROVE  Append(list, e) \in Seq(ImportEntries) /\ AllGenuine(Append(list, e))
<1>1. PICK more \in Seq(ImportEntries) : more = Append(list, e)
  BY AppendProperties
<1>2. \A i \in DOMAIN more : more[i] = e \/ (i \in DOMAIN list /\ more[i] = list[i])
  <2>1. Len(list) \in Nat /\ DOMAIN list = 1..Len(list) /\ DOMAIN more = 1..(Len(list) + 1)
    BY <1>1
  <2> QED BY <1>1, <2>1
<1> QED BY <1>1, <1>2 DEF AllGenuine

\* The artifact at which the import is.
LEMMA AtArtifact ==
    ASSUME AcqInv, Working \/ import.at = "fetch"
    PROVE  /\ here \in DOMAIN import.artifacts /\ artifact.from \in Named
           /\ Trusted /\ session.closing = "done" /\ session.clean /\ ThreadEnded
           /\ AllGenuine(import.entries)
<1>0. /\ import.at \in {"loop", "fetch"} /\ import.entries \in Seq(ImportEntries)
      /\ import.artifacts \in Artifacts \cup {<<>>} /\ ImportStands /\ SessionStands
  BY AcqFields DEF Working, AcqInv, ImportRecords
<1>1. Trusted /\ session.closing = "done" /\ session.clean /\ ThreadEnded
  BY <1>0 DEF SessionStands, Trusted
<1>2. here \in Nat \ {0}
  BY <1>0 DEF here
<1>3. import.artifacts \in Artifacts
  BY <1>0, <1>2 DEF Working, ImportStands
<1>4. PICK list \in Artifacts : list = import.artifacts
  BY <1>3
<1>5. DOMAIN list = 1..Len(list) /\ Len(list) \in Nat
  <2>1. list \in Seq({list[i] : i \in DOMAIN list})
    BY AcquisitionAssumption
  <2> QED BY <2>1
<1>6. here \in DOMAIN list
  BY <1>0, <1>2, <1>4, <1>5 DEF Working, ImportStands
<1>7. artifact.from \in Named
  BY <1>4, <1>6 DEF artifact, Named
<1>8. AllGenuine(import.entries)
  BY <1>0 DEF ImportStands, AllGenuine, Genuine
<1> QED BY <1>1, <1>4, <1>6, <1>7, <1>8

\* A step of the import at an artifact.
LEMMA ArtifactStep ==
    ASSUME AcqInv, Working \/ import.at = "fetch", UNCHANGED <<session, serve, receipts>>,
           NEW i \in ImportRecords, import' = i, i.artifacts = import.artifacts,
           i.at \in {"loop", "fetch", "refused"}, AllGenuine(i.entries),
           NEW f \in FetchRecords, fetch' = f, NEW b \in ByteRecords, bytes' = b,
           i.at = "fetch" => /\ f.source = artifact.from /\ i.entries = import.entries
                             /\ artifact.from \in Sources /\ receipts[artifact.from] = NoReceipt
                             /\ f.allowance + i.total <= MaxTotal,
           ~session.late => /\ i.total <= MaxTotal /\ (b.stuck > 0 => i.at = "refused")
                            /\ b.moved + Stray' <= i.total - LocalBytes(import.artifacts) + b.probes
    PROVE  AcqInv'
<1>0. Trusted /\ session.closing = "done" /\ session.clean /\ ThreadEnded
  BY AtArtifact
<1>1. AcqTypes'
  BY DEF AcqInv, AcqTypes
<1>2. SessionStands'
  BY <1>0 DEF AcqInv, SessionStands, ThreadEnded, Trusted
<1>3. ImportStands'
  <2>1. i.at = "fetch" => here' = here /\ artifact' = artifact /\ here \in DOMAIN import.artifacts
    BY AtArtifact DEF here, artifact
  <2>2. \A k \in DOMAIN i.entries : i.entries[k].status = "available" =>
            /\ i.entries[k].content = "good"
            /\ i.entries[k].from \in Sources =>
                receipts[i.entries[k].from].status \in {"none", "available"}
    BY DEF AllGenuine, Genuine
  <2> QED BY <2>1, <2>2 DEF ImportStands
<1>4. ~session.late => StrayEnds' /\ Accounts' /\ Allowances'
  <2> SUFFICES ASSUME ~session.late PROVE StrayEnds' /\ Accounts' /\ Allowances'
    OBVIOUS
  <2>1. StrayEnds'
    BY DEF StrayEnds
  <2>2. LocalBytes(import.artifacts)' = LocalBytes(import.artifacts)
    BY DEF LocalBytes, Locals
  <2>3. Accounts'
    BY <2>2 DEF Accounts
  <2>4. Allowances'
    BY <1>0 DEF Allowances, ThreadEnded
  <2> QED BY <2>1, <2>3, <2>4
<1> QED BY <1>1, <1>2, <1>3, <1>4 DEF AcqInv

\* What the import moved so far is covered, and nothing is stuck, while it works.
LEMMA ImportAccounts ==
    ASSUME AcqInv, Working \/ import.at = "fetch", ~session.late
    PROVE  /\ bytes.stuck = 0 /\ import.total <= MaxTotal
           /\ bytes.moved <= import.total - LocalBytes(import.artifacts) + bytes.probes
<1>0. import.at \in {"loop", "fetch"} /\ Accounts /\ StrayEnds
  BY DEF Working, AcqInv
<1>1. session.closing = "done" /\ session.clean
  BY AtArtifact
<1>2. bytes.stuck = 0
  BY <1>0, <1>1, AcqFields DEF StrayEnds
<1>3. Stray = 0
  BY <1>2 DEF Stray
<1> QED BY <1>0, <1>2, <1>3, AcqFields DEF Accounts

\* A step that settles the artifact, or refuses it, without a transfer.
LEMMA ArtifactQuietStep ==
    ASSUME AcqInv, Working, UNCHANGED <<session, serve, receipts, fetch, bytes>>,
           NEW i \in ImportRecords, import' = i, i.artifacts = import.artifacts,
           i.at \in {"loop", "refused"}, AllGenuine(i.entries), i.total = import.total
    PROVE  AcqInv'
<1>1. PICK f \in FetchRecords, b \in ByteRecords : f = fetch /\ b = bytes
  BY AcqFields
<1>2. ~session.late => /\ i.total <= MaxTotal /\ b.stuck = 0
                       /\ b.moved <= i.total - LocalBytes(import.artifacts) + b.probes
  BY <1>1, ImportAccounts
<1>3. b.stuck = 0 => Stray' = 0
  BY <1>1 DEF Stray
<1>4. b.moved \in Nat
  BY DEF ByteRecords
<1>5. ~session.late => /\ i.total <= MaxTotal /\ (b.stuck > 0 => i.at = "refused")
                       /\ b.moved + Stray' <= i.total - LocalBytes(import.artifacts) + b.probes
  BY <1>2, <1>3, <1>4
<1> QED BY <1>1, <1>5, ArtifactStep

\* The entry made for the present artifact is from where the artifact says.
LEMMA EntryIs ==
    ASSUME AcqInv, Working \/ import.at = "fetch",
           NEW status \in {"failed", "excluded", "available"}, NEW content \in {"none", "good"}
    PROVE  /\ Entry(status, content) \in ImportEntries
           /\ Entry(status, content).status = status /\ Entry(status, content).content = content
           /\ Entry(status, content).from = artifact.from
<1>1. PICK from \in Named : from = artifact.from
  BY AtArtifact
<1>2. Entry(status, content) = [status |-> status, content |-> content, from |-> from]
  BY <1>1 DEF Entry
<1> QED BY <1>1, <1>2 DEF ImportEntries

\* The record of the import after an entry.
LEMMA EnteredIs ==
    ASSUME AcqInv, Working \/ import.at = "fetch",
           NEW i \in ImportRecords, AllGenuine(i.entries), NEW e \in ImportEntries, Genuine(e)
    PROVE  \E j \in ImportRecords :
                /\ j = [i EXCEPT !.entries = Append(@, e)] /\ AllGenuine(j.entries)
                /\ j.artifacts = i.artifacts /\ j.at = i.at /\ j.total = i.total
<1>0. i.entries \in Seq(ImportEntries)
  BY DEF ImportRecords
<1>1. PICK list \in Seq(ImportEntries) : list = Append(i.entries, e) /\ AllGenuine(list)
  BY <1>0, AppendStands
<1>2. PICK j \in ImportRecords : j = [i EXCEPT !.entries = list]
  BY DEF ImportRecords
<1>3. j.entries = list /\ j.artifacts = i.artifacts /\ j.at = i.at /\ j.total = i.total
  BY <1>2 DEF ImportRecords
<1> QED BY <1>1, <1>2, <1>3

\* Holding changes no entry.
LEMMA HeldIs ==
    ASSUME NEW i \in ImportRecords, NEW hold \in BOOLEAN
    PROVE  \E j \in ImportRecords :
                /\ j = [i EXCEPT !.hold = hold] /\ j.entries = i.entries
                /\ j.artifacts = i.artifacts /\ j.at = i.at /\ j.total = i.total
<1>1. PICK j \in ImportRecords : j = [i EXCEPT !.hold = hold]
  BY DEF ImportRecords
<1>2. j.entries = i.entries /\ j.artifacts = i.artifacts /\ j.at = i.at /\ j.total = i.total
  BY <1>1 DEF ImportRecords
<1> QED BY <1>1, <1>2

\* Moving the import on changes no entry.
LEMMA RefusedIs ==
    ASSUME NEW i \in ImportRecords, NEW at \in {"loop", "fetch", "refused"}
    PROVE  \E j \in ImportRecords :
                /\ j = [i EXCEPT !.at = at] /\ j.entries = i.entries
                /\ j.artifacts = i.artifacts /\ j.at = at /\ j.total = i.total
<1>1. PICK j \in ImportRecords : j = [i EXCEPT !.at = at]
  BY DEF ImportRecords
<1>2. j.entries = i.entries /\ j.artifacts = i.artifacts /\ j.at = at /\ j.total = i.total
  BY <1>1 DEF ImportRecords
<1> QED BY <1>1, <1>2

\* Counting a file changes no entry.
LEMMA CountedIs ==
    ASSUME NEW i \in ImportRecords, NEW n \in Nat
    PROVE  \E j \in ImportRecords :
                /\ j = [i EXCEPT !.count = n] /\ j.entries = i.entries
                /\ j.artifacts = i.artifacts /\ j.at = i.at /\ j.total = i.total
<1>1. PICK j \in ImportRecords : j = [i EXCEPT !.count = n]
  BY DEF ImportRecords
<1>2. j.entries = i.entries /\ j.artifacts = i.artifacts /\ j.at = i.at /\ j.total = i.total
  BY <1>1 DEF ImportRecords
<1> QED BY <1>1, <1>2

\* Charging bytes changes no entry.
LEMMA SpentIs ==
    ASSUME NEW i \in ImportRecords, NEW n \in Nat
    PROVE  \E j \in ImportRecords :
                /\ j = [i EXCEPT !.total = n] /\ j.entries = i.entries
                /\ j.artifacts = i.artifacts /\ j.at = i.at /\ j.total = n
<1>1. PICK j \in ImportRecords : j = [i EXCEPT !.total = n]
  BY DEF ImportRecords
<1>2. j.entries = i.entries /\ j.artifacts = i.artifacts /\ j.at = i.at /\ j.total = n
  BY <1>1 DEF ImportRecords
<1> QED BY <1>1, <1>2

\* An entry without content, and what it may hold back.
LEMMA LostIs ==
    ASSUME AcqInv, Working \/ import.at = "fetch", NEW status \in {"failed", "excluded"}
    PROVE  \E j \in ImportRecords :
                /\ j = Lost(status) /\ AllGenuine(j.entries)
                /\ j.artifacts = import.artifacts /\ j.at = import.at /\ j.total = import.total
<1>1. PICK e \in ImportEntries : e = Entry(status, "none") /\ Genuine(e)
  BY EntryIs DEF Genuine
<1>2. PICK i \in ImportRecords : i = import /\ AllGenuine(i.entries)
  BY AcqFields, AtArtifact
<1>3. PICK j \in ImportRecords :
            /\ j = [i EXCEPT !.entries = Append(@, e)] /\ AllGenuine(j.entries)
            /\ j.artifacts = i.artifacts /\ j.at = i.at /\ j.total = i.total
  BY <1>1, <1>2, EnteredIs
<1>4. PICK hold \in BOOLEAN : hold = (j.hold \/ (artifact.hold /\ artifact.wanted))
  OBVIOUS
<1>5. PICK k \in ImportRecords :
            /\ k = [j EXCEPT !.hold = hold] /\ k.entries = j.entries
            /\ k.artifacts = j.artifacts /\ k.at = j.at /\ k.total = j.total
  BY HeldIs
<1>6. j = Enter(status, "none")
  BY <1>1, <1>2, <1>3 DEF Enter
<1>7. k = Lost(status)
  BY <1>4, <1>5, <1>6 DEF Lost
<1> QED BY <1>2, <1>3, <1>5, <1>7

\* Entering an excluded artifact keeps the entries genuine.
LEMMA EnterIs ==
    ASSUME AcqInv, Working
    PROVE  \E j \in ImportRecords :
                /\ j = Enter("excluded", "none") /\ AllGenuine(j.entries)
                /\ j.artifacts = import.artifacts /\ j.at = import.at /\ j.total = import.total
<1>1. PICK e \in ImportEntries : e = Entry("excluded", "none") /\ Genuine(e)
  BY EntryIs DEF Genuine
<1>2. PICK i \in ImportRecords : i = import /\ AllGenuine(i.entries)
  BY AcqFields, AtArtifact
<1>3. PICK j \in ImportRecords :
            /\ j = [i EXCEPT !.entries = Append(@, e)] /\ AllGenuine(j.entries)
            /\ j.artifacts = i.artifacts /\ j.at = i.at /\ j.total = i.total
  BY <1>1, <1>2, EnteredIs
<1>4. j = Enter("excluded", "none")
  BY <1>1, <1>2, <1>3 DEF Enter
<1> QED BY <1>2, <1>3, <1>4

\* An artifact that is good goes into the message, or is excluded for its size.
LEMMA AttachIs ==
    ASSUME AcqInv, Working \/ import.at = "fetch", NEW i \in ImportRecords, AllGenuine(i.entries),
           NEW size \in Nat, artifact.from \in Sources => receipts[artifact.from].status \in {"none", "available"}
    PROVE  \E j \in ImportRecords :
                /\ j = Attach(i, size, "good") /\ AllGenuine(j.entries)
                /\ j.artifacts = i.artifacts /\ j.at = i.at /\ j.total = i.total
<1>1. CASE i.message + size + 1 > MaxMessage
  <2>1. PICK e \in ImportEntries : e = Entry("excluded", "none") /\ Genuine(e)
    BY EntryIs DEF Genuine
  <2>2. PICK j \in ImportRecords :
            /\ j = [i EXCEPT !.entries = Append(@, e)] /\ AllGenuine(j.entries)
            /\ j.artifacts = i.artifacts /\ j.at = i.at /\ j.total = i.total
    BY <2>1, EnteredIs
  <2>3. PICK hold \in BOOLEAN : hold = (i.hold \/ (artifact.hold /\ artifact.wanted))
    OBVIOUS
  <2>4. PICK k \in ImportRecords :
            /\ k = [j EXCEPT !.hold = hold] /\ k.entries = j.entries
            /\ k.artifacts = j.artifacts /\ k.at = j.at /\ k.total = j.total
    BY HeldIs
  <2>5. k = Attach(i, size, "good")
    BY <1>1, <2>1, <2>2, <2>3, <2>4 DEF Attach
  <2> QED BY <2>2, <2>4, <2>5
<1>2. CASE ~(i.message + size + 1 > MaxMessage)
  <2>1. PICK e \in ImportEntries : e = Entry("available", "good") /\ Genuine(e)
    BY EntryIs DEF Genuine
  <2>2. PICK j \in ImportRecords :
            /\ j = [i EXCEPT !.entries = Append(@, e)] /\ AllGenuine(j.entries)
            /\ j.artifacts = i.artifacts /\ j.at = i.at /\ j.total = i.total
    BY <2>1, EnteredIs
  <2>3. PICK n \in Nat : n = i.message + size + 1
    BY DEF ImportRecords
  <2>4. PICK k \in ImportRecords : k = [j EXCEPT !.message = n]
    BY DEF ImportRecords
  <2>5. k.entries = j.entries /\ k.artifacts = j.artifacts /\ k.at = j.at /\ k.total = j.total
    BY <2>4 DEF ImportRecords
  <2>6. k = Attach(i, size, "good")
    BY <1>2, <2>1, <2>2, <2>3, <2>4 DEF Attach
  <2> QED BY <2>2, <2>5, <2>6
<1> QED BY <1>1, <1>2

\* The import begins with what the session was charged, or is refused.
LEMMA ImportBeginsKeeps == ASSUME AcqInv, ImportBegins PROVE AcqInv'
<1>0. /\ import \in ImportRecords /\ import.at = "idle" /\ session.closing = "done"
      /\ session' = session /\ serve' = serve /\ receipts' = receipts /\ fetch' = fetch
      /\ bytes' = bytes /\ SessionStands /\ ImportStands
  BY AcqFields DEF ImportBegins, AcqInv
<1>1. PICK list \in Artifacts :
        import' = IF Admissible(list)
                  THEN [import EXCEPT !.at = "loop", !.artifacts = list, !.locals = "good",
                            !.total = bytes.consumed + LocalBytes(list),
                            !.count = session.count + Cardinality(Locals(list))]
                  ELSE [import EXCEPT !.at = "refused"]
  BY DEF ImportBegins
<1>2. import.entries = <<>>
  BY <1>0 DEF ImportStands
<1>3. CASE ~Admissible(list)
  <2>1. PICK i \in ImportRecords : i = [import EXCEPT !.at = "refused"]
    BY <1>0 DEF ImportRecords
  <2>2. i.at = "refused" /\ i.entries = <<>> /\ import' = i
    BY <1>0, <1>1, <1>2, <1>3, <2>1 DEF ImportRecords
  <2>3. AcqTypes'
    BY <1>0, <2>2 DEF AcqInv, AcqTypes
  <2>4. SessionStands' /\ ImportStands'
    BY <1>0, <2>2, EmptySeq DEF SessionStands, ImportStands, ThreadEnded
  <2>5. ~session.late => StrayEnds' /\ Accounts' /\ Allowances'
    BY <1>0, <2>2 DEF AcqInv, StrayEnds, Accounts, Allowances, Stray
  <2> QED BY <1>0, <2>3, <2>4, <2>5 DEF AcqInv
<1>4. CASE Admissible(list)
  <2>1. /\ session.clean /\ session.failure = "none"
        /\ bytes.consumed + LocalBytes(list) <= MaxTotal
    BY <1>4 DEF Admissible, Trusted
  <2>2. PICK lb \in Nat, consumed \in Nat, count \in Nat :
            /\ lb = LocalBytes(list) /\ consumed = bytes.consumed
            /\ count = session.count + Cardinality(Locals(list))
    <3>1. session.count \in Nat
      BY AcqFields DEF SessionRecords
    <3>2. Cardinality(Locals(list)) \in Nat
      BY LocalsCount
    <3> QED BY <3>1, <3>2, AcqFields DEF LocalBytes
  <2>3. PICK total \in Nat : total = consumed + lb
    OBVIOUS
  <2>4. PICK j \in ImportRecords : j = [import EXCEPT !.at = "loop", !.artifacts = list, !.locals = "good"]
    BY <1>0 DEF ImportRecords
  <2>5. j.at = "loop" /\ j.artifacts = list /\ j.entries = <<>>
    BY <1>0, <1>2, <2>4 DEF ImportRecords
  <2>6. PICK i \in ImportRecords : i = [j EXCEPT !.total = total, !.count = count]
    BY DEF ImportRecords
  <2>7. i.at = "loop" /\ i.artifacts = list /\ i.entries = <<>> /\ i.total = total
    BY <2>5, <2>6 DEF ImportRecords
  <2>8. import' = i
    BY <1>0, <1>1, <1>4, <2>2, <2>3, <2>4, <2>6 DEF ImportRecords
  <2>9. AcqTypes'
    BY <1>0, <2>8 DEF AcqInv, AcqTypes
  <2>10. ThreadEnded
    BY <1>0, <2>1 DEF SessionStands
  <2>11. SessionStands'
    BY <1>0, <2>1, <2>7, <2>8, <2>10 DEF SessionStands, ThreadEnded, Trusted
  <2>12. ImportStands'
    BY <2>7, <2>8, EmptySeq DEF ImportStands
  <2>13. ~session.late => StrayEnds' /\ Accounts' /\ Allowances'
    <3> SUFFICES ASSUME ~session.late PROVE StrayEnds' /\ Accounts' /\ Allowances'
      OBVIOUS
    <3>1. bytes.stuck = 0
      BY <1>0, <2>1, AcqFields DEF AcqInv, StrayEnds
    <3>2. Stray = 0 /\ Stray' = 0 /\ StrayEnds'
      BY <1>0, <3>1 DEF Stray, StrayEnds
    <3>3. bytes.moved <= bytes.consumed + bytes.probes
      BY <1>0, <3>2, AcqFields DEF AcqInv, Accounts
    <3>4. LocalBytes(import.artifacts)' = lb
      BY <2>2, <2>7, <2>8 DEF LocalBytes, Locals
    <3>5. Accounts'
      <4>1. PICK m \in Nat, p \in Nat : m = bytes.moved /\ p = bytes.probes
        BY AcqFields
      <4>2. m <= total - lb + p /\ total <= MaxTotal
        BY <2>1, <2>2, <2>3, <3>3, <4>1
      <4>3. bytes'.moved + Stray' = m /\ bytes'.probes = p
        BY <1>0, <3>2, <4>1
      <4> QED BY <2>7, <2>8, <3>4, <4>2, <4>3 DEF Accounts
    <3>6. Allowances'
      BY <1>0, <2>7, <2>8, <2>10 DEF Allowances, ThreadEnded
    <3> QED BY <3>2, <3>5, <3>6
  <2> QED BY <1>0, <2>9, <2>11, <2>12, <2>13 DEF AcqInv
<1> QED BY <1>3, <1>4

\* The steps that settle an artifact without a transfer.
LEMMA ImportQuietKeeps ==
    ASSUME AcqInv, ImportStops \/ ImportUnwanted \/ ImportReceipt \/ ImportLocal PROVE AcqInv'
<1>0. Working /\ import.at = "loop" /\ UNCHANGED <<session, serve, receipts, fetch, bytes>>
  BY DEF ImportStops, ImportUnwanted, ImportReceipt, ImportLocal, Working
<1>1. PICK lost \in ImportRecords :
            /\ lost = Lost("failed") /\ AllGenuine(lost.entries) /\ lost.artifacts = import.artifacts
            /\ lost.at = "loop" /\ lost.total = import.total
  BY <1>0, LostIs
<1>2. PICK refused \in ImportRecords :
            /\ refused = [lost EXCEPT !.at = "refused"] /\ refused.entries = lost.entries
            /\ refused.artifacts = lost.artifacts /\ refused.at = "refused" /\ refused.total = lost.total
  BY RefusedIs
<1>3. PICK i \in ImportRecords :
            /\ i = Enter("excluded", "none") /\ AllGenuine(i.entries) /\ i.artifacts = import.artifacts
            /\ i.at = "loop" /\ i.total = import.total
  BY <1>0, EnterIs
<1>4. PICK whole \in ImportRecords : whole = import /\ AllGenuine(whole.entries)
  BY <1>0, AcqFields, AtArtifact
<1>5. CASE import' \in {lost, refused, i}
  BY <1>0, <1>1, <1>2, <1>3, <1>5, ArtifactQuietStep
<1>6. CASE ImportStops \/ ImportUnwanted
  BY <1>1, <1>2, <1>3, <1>5, <1>6 DEF ImportStops, ImportUnwanted
<1>7. CASE ImportReceipt
  <2>1. /\ artifact.from \in Sources /\ receipts[artifact.from] # NoReceipt
        /\ \/ import' = IF receipts[artifact.from].status = "failed" THEN lost
                        ELSE IF ~ReadsOriginal(artifact.from) THEN refused
                        ELSE Attach(import, receipts[artifact.from].size, files.original[artifact.from])
           \/ import' = lost
    BY <1>1, <1>2, <1>7 DEF ImportReceipt
  <2>2. CASE receipts[artifact.from].status = "failed" \/ ~ReadsOriginal(artifact.from)
    BY <1>5, <2>1, <2>2
  <2>3. CASE receipts[artifact.from].status # "failed" /\ ReadsOriginal(artifact.from)
    <3>1. receipts[artifact.from] \in ReceiptRecords
      BY <2>1, AcqFields
    <3>2. PICK size \in Nat : size = receipts[artifact.from].size
      BY <3>1 DEF ReceiptRecords
    <3>3. receipts[artifact.from].status = "available"
      BY <2>3, <3>1 DEF ReceiptRecords
    <3>4. import' = Attach(whole, size, "good") \/ import' = lost
      BY <1>4, <2>1, <2>3, <3>2 DEF ReadsOriginal
    <3>5. PICK j \in ImportRecords :
                /\ j = Attach(whole, size, "good") /\ AllGenuine(j.entries)
                /\ j.artifacts = whole.artifacts /\ j.at = whole.at /\ j.total = whole.total
      BY <1>0, <1>4, <3>3, AttachIs
    <3>6. CASE import' = Attach(whole, size, "good")
      BY <1>0, <1>4, <3>5, <3>6, ArtifactQuietStep
    <3> QED BY <1>5, <3>4, <3>6
  <2> QED BY <2>2, <2>3
<1>8. CASE ImportLocal
  <2>1. /\ artifact.from = "local"
        /\ \/ import' = lost
           \/ import' = IF import.locals = "changed" THEN refused
                        ELSE IF ~artifact.wanted THEN i
                        ELSE Attach(whole, 1, "good")
    BY <1>1, <1>2, <1>3, <1>4, <1>8 DEF ImportLocal
  <2>2. artifact.from \notin Sources
    BY <2>1, AcquisitionAssumption
  <2>3. PICK j \in ImportRecords :
                /\ j = Attach(whole, 1, "good") /\ AllGenuine(j.entries)
                /\ j.artifacts = whole.artifacts /\ j.at = whole.at /\ j.total = whole.total
    BY <1>0, <1>4, <2>2, AttachIs
  <2>4. CASE import' = Attach(whole, 1, "good")
    BY <1>0, <1>4, <2>3, <2>4, ArtifactQuietStep
  <2> QED BY <1>5, <2>1, <2>4
<1> QED BY <1>6, <1>7, <1>8

\* Nothing was asked for during the phase: an allowance that fits, or a loss.
LEMMA ImportFetchesKeeps == ASSUME AcqInv, ImportFetches PROVE AcqInv'
<1>0. /\ Working /\ import.at = "loop" /\ UNCHANGED <<session, serve, receipts, bytes>>
      /\ artifact.from \in Sources /\ receipts[artifact.from] = NoReceipt
      /\ import.total \in Nat /\ import.count \in Nat
  BY AcqFields DEF ImportFetches, Working
<1>1. PICK lost \in ImportRecords :
            /\ lost = Lost("failed") /\ AllGenuine(lost.entries) /\ lost.artifacts = import.artifacts
            /\ lost.at = "loop" /\ lost.total = import.total
  BY <1>0, LostIs
<1>2. PICK n \in Nat : n = lost.count + 1
  BY DEF ImportRecords
<1>3. PICK more \in ImportRecords :
            /\ more = [lost EXCEPT !.count = n] /\ AllGenuine(more.entries)
            /\ more.artifacts = import.artifacts /\ more.at = "loop" /\ more.total = import.total
  BY <1>1, CountedIs
<1>3a. PICK long \in ImportRecords :
            /\ long = [Lost("excluded") EXCEPT !.count = @ + 1] /\ AllGenuine(long.entries)
            /\ long.artifacts = import.artifacts /\ long.at = "loop" /\ long.total = import.total
  <2>1. PICK out \in ImportRecords :
            /\ out = Lost("excluded") /\ AllGenuine(out.entries) /\ out.artifacts = import.artifacts
            /\ out.at = "loop" /\ out.total = import.total
    BY <1>0, LostIs
  <2>2. PICK k \in Nat : k = out.count + 1
    BY DEF ImportRecords
  <2>3. PICK j \in ImportRecords :
            /\ j = [out EXCEPT !.count = k] /\ j.entries = out.entries
            /\ j.artifacts = out.artifacts /\ j.at = out.at /\ j.total = out.total
    BY CountedIs
  <2> QED BY <2>1, <2>2, <2>3
<1>4. PICK whole \in ImportRecords : whole = import /\ AllGenuine(whole.entries)
  BY <1>0, AcqFields, AtArtifact
<1>5. PICK m \in Nat : m = whole.count + 1
  BY DEF ImportRecords
<1>6. PICK spend \in ImportRecords :
            /\ spend = [whole EXCEPT !.count = m] /\ spend.entries = whole.entries
            /\ spend.artifacts = whole.artifacts /\ spend.at = whole.at /\ spend.total = whole.total
  BY CountedIs
<1>7. PICK off \in ImportRecords :
            /\ off = [spend EXCEPT !.at = "fetch"] /\ off.entries = spend.entries
            /\ off.artifacts = spend.artifacts /\ off.at = "fetch" /\ off.total = spend.total
  BY RefusedIs
<1>7a. /\ off.entries = import.entries /\ off.artifacts = import.artifacts
       /\ off.total = import.total
  BY <1>4, <1>6, <1>7
<1>8. \/ (import' = lost \/ import' = more \/ import' = long) /\ fetch' = fetch
      \/ /\ import' = off /\ Affordable(artifact.from, import.total)
         /\ fetch' = [for |-> "import", source |-> artifact.from,
                      allowance |-> Reserve(artifact.from, import.total)]
  BY <1>1, <1>2, <1>3, <1>3a, <1>4, <1>5, <1>6, <1>7 DEF ImportFetches
<1>9. CASE import' \in {lost, more, long} /\ fetch' = fetch
  BY <1>0, <1>1, <1>3, <1>3a, <1>9, ArtifactQuietStep
<1>10. CASE /\ import' = off /\ Affordable(artifact.from, import.total)
            /\ fetch' = [for |-> "import", source |-> artifact.from,
                         allowance |-> Reserve(artifact.from, import.total)]
  <2>1. PICK s \in Sources, total \in Nat : s = artifact.from /\ total = import.total
    BY <1>0
  <2>2. PICK a \in Nat : a = Reserve(s, total) /\ a + total <= MaxTotal
    BY <1>10, <2>1, AllowanceFits
  <2>3. PICK f \in FetchRecords : f = [for |-> "import", source |-> s, allowance |-> a]
    BY DEF FetchRecords
  <2>4. f.source = s /\ f.allowance = a /\ fetch' = f
    BY <1>10, <2>1, <2>2, <2>3
  <2>5. PICK b \in ByteRecords : b = bytes
    BY AcqFields
  <2>6. ~session.late => /\ off.total <= MaxTotal /\ (b.stuck > 0 => off.at = "refused")
                         /\ b.moved + Stray' <= off.total - LocalBytes(import.artifacts) + b.probes
    <3>1. ~session.late => /\ off.total <= MaxTotal /\ b.stuck = 0
                           /\ b.moved <= off.total - LocalBytes(import.artifacts) + b.probes
      BY <1>0, <1>7a, <2>5, ImportAccounts
    <3>2. b.stuck = 0 => Stray' = 0
      BY <1>0, <2>5 DEF Stray
    <3>3. b.moved \in Nat
      BY DEF ByteRecords
    <3> QED BY <3>1, <3>2, <3>3
  <2>7. AllGenuine(off.entries)
    BY <1>4, <1>7a
  <2> QED BY <1>0, <1>7, <1>7a, <1>10, <2>1, <2>2, <2>4, <2>5, <2>6, <2>7, ArtifactStep
<1> QED BY <1>8, <1>9, <1>10

\* The import's fetch raised: charged within what is left of the budget.
LEMMA ImportFetchFailsKeeps == ASSUME AcqInv, ImportFetchFails PROVE AcqInv'
<1>0. /\ import.at = "fetch" /\ UNCHANGED <<session, serve, receipts>> /\ fetch' = Idle
      /\ bytes \in ByteRecords /\ fetch.allowance \in Nat /\ bytes.moved \in Nat /\ bytes.probes \in Nat
      /\ import.total \in Nat /\ MaxTotal \in Nat
  BY AcqFields DEF ImportFetchFails
<1>1. PICK max \in Nat, c \in BOOLEAN : max = fetch.allowance /\ c = (authority # "held")
  BY <1>0
<1>2. PICK o \in FetchOutcomes(Kind[fetch.source], max, c) :
        /\ o.code # "body"
        /\ import' = [Lost("failed")
                        EXCEPT !.at = IF o.code \in {"cancelled", "cleanup_failed"} THEN "refused" ELSE "loop",
                               !.total = @ + Smaller(Charge(o, max), MaxTotal - @)]
        /\ bytes' = Moves(o, max)
  BY <1>1 DEF ImportFetchFails
<1>3. PICK lost \in ImportRecords :
            /\ lost = Lost("failed") /\ AllGenuine(lost.entries) /\ lost.artifacts = import.artifacts
            /\ lost.at = import.at /\ lost.total = import.total
  BY <1>0, LostIs
<1>4. PICK charge \in Nat, moved \in Nat, probe \in {0, 1} :
        /\ charge = Charge(o, max) /\ moved = o.moved /\ probe = Probe(o, max)
        /\ moved <= max + probe /\ moved <= charge + probe
        /\ (o.code = "cleanup_failed" => max <= charge) /\ moved <= max + 1
  BY <1>2, OutcomeIsCharged
<1>5. PICK b \in ByteRecords :
        /\ b = Moves(o, max)
        /\ bytes.stuck = 0 /\ o.code # "cleanup_failed" =>
             b.stuck = 0 /\ b.moved = bytes.moved + moved /\ b.probes = bytes.probes + probe
        /\ o.code = "cleanup_failed" =>
             /\ b.moved = bytes.moved + moved /\ b.probes = bytes.probes + probe
             /\ b.stuck + moved = max + 1
  BY <1>0, <1>4, MovesStand
<1>6. PICK added \in Int : added = Smaller(charge, MaxTotal - lost.total)
  BY <1>0, <1>3 DEF Smaller
<1>7. PICK total \in Nat : total = lost.total + added
  BY <1>0, <1>3, <1>6 DEF Smaller
<1>8. PICK at \in {"loop", "refused"} :
            at = IF o.code \in {"cancelled", "cleanup_failed"} THEN "refused" ELSE "loop"
  OBVIOUS
<1>9. PICK j \in ImportRecords :
            /\ j = [lost EXCEPT !.at = at] /\ j.entries = lost.entries
            /\ j.artifacts = lost.artifacts /\ j.at = at /\ j.total = lost.total
  <2>1. at \in {"loop", "fetch", "refused"}
    OBVIOUS
  <2> QED BY <2>1, RefusedIs
<1>10. PICK i \in ImportRecords :
            /\ i = [j EXCEPT !.total = total] /\ i.entries = j.entries
            /\ i.artifacts = j.artifacts /\ i.at = j.at /\ i.total = total
  BY SpentIs
<1>11. import' = i
  BY <1>2, <1>3, <1>4, <1>6, <1>7, <1>8, <1>9, <1>10
<1>12. b.stuck \in Nat /\ Stray' = IF b.stuck > 0 THEN b.stuck - 1 ELSE 0
  BY <1>2, <1>5 DEF Stray, ByteRecords
<1>13. ~session.late => /\ i.total <= MaxTotal /\ (b.stuck > 0 => i.at = "refused")
                        /\ b.moved + Stray' <= i.total - LocalBytes(import.artifacts) + b.probes
  <2> SUFFICES ASSUME ~session.late
               PROVE  /\ i.total <= MaxTotal /\ (b.stuck > 0 => i.at = "refused")
                      /\ b.moved + Stray' <= i.total - LocalBytes(import.artifacts) + b.probes
    OBVIOUS
  <2>1. /\ bytes.stuck = 0 /\ import.total <= MaxTotal
        /\ bytes.moved <= import.total - LocalBytes(import.artifacts) + bytes.probes
    BY <1>0, ImportAccounts
  <2>2. max + import.total <= MaxTotal
    BY <1>0, <1>1 DEF AcqInv, Allowances
  <2>3. PICK m \in Nat, p \in Nat, t \in Nat, lb \in Nat :
            m = bytes.moved /\ p = bytes.probes /\ t = import.total /\ lb = LocalBytes(import.artifacts)
    BY AcqFields
  <2>4. /\ added = (IF charge < MaxTotal - t THEN charge ELSE MaxTotal - t) /\ total = t + added
        /\ i.total = total
    BY <1>3, <1>6, <1>7, <1>10, <2>3 DEF Smaller
  <2>5. CASE o.code = "cleanup_failed"
    <3>1. b.moved = m + moved /\ b.probes = p + probe /\ b.stuck + moved = max + 1
      BY <1>5, <2>3, <2>5
    <3>2. moved + Stray' <= charge + probe /\ moved + Stray' <= max + probe /\ Stray' \in Nat
      BY <1>4, <1>12, <2>5, <3>1
    <3>3. i.at = "refused"
      BY <1>8, <1>9, <1>10, <2>5
    <3>4. moved + Stray' <= added + probe
      BY <1>0, <1>4, <2>2, <2>3, <2>4, <3>2
    <3> QED BY <1>0, <1>4, <2>1, <2>3, <2>4, <3>1, <3>2, <3>3, <3>4
  <2>6. CASE o.code # "cleanup_failed"
    <3>1. b.moved = m + moved /\ b.probes = p + probe /\ b.stuck = 0 /\ Stray' = 0
      BY <1>5, <1>12, <2>1, <2>3, <2>6
    <3>2. moved <= added + probe
      BY <1>0, <1>4, <2>2, <2>3, <2>4
    <3> QED BY <1>0, <1>4, <2>1, <2>3, <2>4, <3>1, <3>2
  <2> QED BY <2>5, <2>6
<1>14. /\ i.artifacts = import.artifacts /\ i.at \in {"loop", "refused"} /\ AllGenuine(i.entries)
       /\ bytes' = b
  BY <1>2, <1>3, <1>5, <1>9, <1>10
<1>15. PICK f \in FetchRecords : fetch' = f
  BY <1>0, IdleIs
<1> QED BY <1>0, <1>11, <1>13, <1>14, <1>15, ArtifactStep

\* The import's fetch returned: charged with what moved, then judged.
LEMMA ImportFetchReturnsKeeps == ASSUME AcqInv, ImportFetchReturns PROVE AcqInv'
<1>0. /\ import.at = "fetch" /\ UNCHANGED <<session, serve, receipts>> /\ fetch' = Idle
      /\ bytes \in ByteRecords /\ fetch.allowance \in Nat /\ bytes.moved \in Nat /\ bytes.probes \in Nat
      /\ import.total \in Nat /\ MaxTotal \in Nat
  BY AcqFields DEF ImportFetchReturns
<1>1. PICK max \in Nat, c \in BOOLEAN : max = fetch.allowance /\ c = (authority # "held")
  BY <1>0
<1>2. PICK o \in FetchOutcomes(Kind[fetch.source], max, c), good \in BOOLEAN :
        /\ o.code = "body"
        /\ LET spent == [import EXCEPT !.at = "loop", !.total = @ + o.moved]
               right == good /\ o.moved > 0
                            /\ (Kind[fetch.source] = "pdf" => o.moved = Size[fetch.source])
               lost == [spent EXCEPT !.entries = Append(@, Entry("failed", "none")),
                                     !.hold = @ \/ artifact.hold] IN
            import' = IF right /\ authority # "held" THEN [lost EXCEPT !.at = "refused"]
                      ELSE IF right THEN Attach(spent, o.moved, "good") ELSE lost
        /\ bytes' = Moves(o, max)
  BY <1>1 DEF ImportFetchReturns
<1>3. PICK moved \in Nat : moved = o.moved /\ moved <= max /\ Probe(o, max) = 0
  BY <1>2, OutcomeIsCharged
<1>4. PICK b \in ByteRecords :
        /\ b = Moves(o, max)
        /\ bytes.stuck = 0 => b.stuck = 0 /\ b.moved = bytes.moved + moved /\ b.probes = bytes.probes
  <2>1. o.code # "cleanup_failed"
    BY <1>2
  <2>2. bytes.probes + Probe(o, max) = bytes.probes
    BY <1>0, <1>3
  <2> QED BY <1>0, <1>3, <2>1, <2>2, MovesStand
<1>5. PICK whole \in ImportRecords : whole = import /\ AllGenuine(whole.entries)
  BY <1>0, AcqFields, AtArtifact
<1>6. PICK total \in Nat : total = whole.total + moved
  BY <1>0, <1>5
<1>7. PICK j0 \in ImportRecords :
            /\ j0 = [whole EXCEPT !.at = "loop"] /\ j0.entries = whole.entries
            /\ j0.artifacts = whole.artifacts /\ j0.at = "loop" /\ j0.total = whole.total
  BY RefusedIs
<1>8. PICK spent \in ImportRecords :
            /\ spent = [j0 EXCEPT !.total = total] /\ spent.entries = j0.entries
            /\ spent.artifacts = j0.artifacts /\ spent.at = j0.at /\ spent.total = total
  BY SpentIs
<1>9. spent = [import EXCEPT !.at = "loop", !.total = @ + o.moved]
  BY <1>3, <1>5, <1>6, <1>7, <1>8
<1>10. /\ AllGenuine(spent.entries) /\ spent.artifacts = import.artifacts /\ spent.at = "loop"
       /\ spent.total = import.total + moved
  BY <1>5, <1>6, <1>7, <1>8
<1>11. PICK e \in ImportEntries : e = Entry("failed", "none") /\ Genuine(e)
  BY <1>0, EntryIs DEF Genuine
<1>12. PICK j1 \in ImportRecords :
            /\ j1 = [spent EXCEPT !.entries = Append(@, e)] /\ AllGenuine(j1.entries)
            /\ j1.artifacts = spent.artifacts /\ j1.at = spent.at /\ j1.total = spent.total
  BY <1>0, <1>10, <1>11, EnteredIs
<1>13. PICK hold \in BOOLEAN : hold = (j1.hold \/ artifact.hold)
  OBVIOUS
<1>14. PICK lost \in ImportRecords :
            /\ lost = [j1 EXCEPT !.hold = hold] /\ lost.entries = j1.entries
            /\ lost.artifacts = j1.artifacts /\ lost.at = j1.at /\ lost.total = j1.total
  BY HeldIs
<1>15. lost = [spent EXCEPT !.entries = Append(@, Entry("failed", "none")), !.hold = @ \/ artifact.hold]
  BY <1>11, <1>12, <1>13, <1>14
<1>16. PICK refused \in ImportRecords :
            /\ refused = [lost EXCEPT !.at = "refused"] /\ refused.entries = lost.entries
            /\ refused.artifacts = lost.artifacts /\ refused.at = "refused" /\ refused.total = lost.total
  BY RefusedIs
<1>17. PICK put \in ImportRecords :
            /\ put = Attach(spent, moved, "good") /\ AllGenuine(put.entries)
            /\ put.artifacts = spent.artifacts /\ put.at = spent.at /\ put.total = spent.total
  <2>1. receipts[artifact.from] = NoReceipt
    BY <1>0 DEF AcqInv, ImportStands
  <2>2. receipts[artifact.from].status = "none"
    BY <2>1 DEF NoReceipt
  <2> QED BY <1>0, <1>10, <2>2, AttachIs
<1>18. PICK i \in ImportRecords : i = import' /\ i \in {lost, refused, put}
  <2>1. \/ import' = [lost EXCEPT !.at = "refused"] \/ import' = lost
        \/ import' = Attach(spent, moved, "good")
    BY <1>2, <1>3, <1>9, <1>15
  <2>2. import' = refused \/ import' = lost \/ import' = put
    BY <1>16, <1>17, <2>1
  <2> QED BY <2>2
<1>19. /\ i.artifacts = import.artifacts /\ i.at \in {"loop", "refused"} /\ AllGenuine(i.entries)
       /\ i.total = import.total + moved
  <2>1. /\ lost.artifacts = import.artifacts /\ lost.at = "loop" /\ AllGenuine(lost.entries)
        /\ lost.total = import.total + moved
    BY <1>10, <1>12, <1>14
  <2>2. /\ refused.artifacts = import.artifacts /\ refused.at = "refused"
        /\ AllGenuine(refused.entries) /\ refused.total = import.total + moved
    BY <1>16, <2>1
  <2>3. /\ put.artifacts = import.artifacts /\ put.at = "loop" /\ AllGenuine(put.entries)
        /\ put.total = import.total + moved
    BY <1>10, <1>17
  <2> QED BY <1>18, <2>1, <2>2, <2>3
<1>20. ~session.late => /\ i.total <= MaxTotal /\ b.stuck = 0
                        /\ b.moved + Stray' <= i.total - LocalBytes(import.artifacts) + b.probes
  <2> SUFFICES ASSUME ~session.late
               PROVE  /\ i.total <= MaxTotal /\ b.stuck = 0
                      /\ b.moved + Stray' <= i.total - LocalBytes(import.artifacts) + b.probes
    OBVIOUS
  <2>1. /\ bytes.stuck = 0 /\ import.total <= MaxTotal
        /\ bytes.moved <= import.total - LocalBytes(import.artifacts) + bytes.probes
    BY <1>0, ImportAccounts
  <2>2. max + import.total <= MaxTotal
    BY <1>0, <1>1 DEF AcqInv, Allowances
  <2>3. PICK m \in Nat, p \in Nat, t \in Nat, lb \in Nat :
            m = bytes.moved /\ p = bytes.probes /\ t = import.total /\ lb = LocalBytes(import.artifacts)
    BY AcqFields
  <2>4. b.stuck = 0 /\ b.moved = m + moved /\ b.probes = p
    BY <1>4, <2>1, <2>3
  <2>5. Stray' = 0
    BY <1>2, <1>4, <2>4 DEF Stray
  <2> QED BY <1>0, <1>3, <1>19, <2>1, <2>2, <2>3, <2>4, <2>5
<1>21. PICK f \in FetchRecords : fetch' = f
  BY <1>0, IdleIs
<1>22. bytes' = b
  BY <1>2, <1>4
<1> QED BY <1>0, <1>18, <1>19, <1>20, <1>21, <1>22, ArtifactStep

\* A later run takes over the originals and the ledger as they were fetched, or nothing.
LEMMA RetainTakes ==
    ASSUME Retain
    PROVE  /\ import.at = "done" /\ receipts' = receipts
           /\ \/ import' = [import EXCEPT !.retained = "refused"]
              \/ /\ import' = [import EXCEPT !.retained = "kept", !.evidence = AsFetched]
                 /\ References \subseteq Available
<1>1. CASE import' = [import EXCEPT !.retained = "refused"]
  BY <1>1 DEF Retain
<1>2. CASE /\ files.ledger = "good" /\ \A s \in Available : ReadsOriginal(s)
           /\ References \subseteq Available
           /\ import' = [import EXCEPT !.retained = "kept", !.evidence = Evidence]
  <2>1. \A s \in Available \cup {"ledger"} :
            (IF s = "ledger" THEN files.ledger ELSE files.original[s]) = "good"
    BY <1>2 DEF ReadsOriginal
  <2>2. Evidence = AsFetched
    BY <2>1 DEF Evidence, AsFetched
  <2> QED BY <1>2, <2>2 DEF Retain
<1> QED BY <1>1, <1>2 DEF Retain

\* The import is done, and its evidence taken over.
LEMMA ImportEndsKeeps == ASSUME AcqInv, ImportEnds \/ Retain PROVE AcqInv'
<1>0. /\ import \in ImportRecords /\ import.at \in {"loop", "done"}
      /\ UNCHANGED <<session, serve, receipts, fetch, bytes>>
  BY AcqFields DEF ImportEnds, Retain
<1>1. PICK i \in ImportRecords :
        /\ i.at = "done" /\ i.artifacts = import.artifacts /\ i.entries = import.entries
        /\ i.total = import.total /\ import' = i
  <2>1. CASE ImportEnds
    <3>1. PICK i \in ImportRecords : i = [import EXCEPT !.at = "done"]
      BY <1>0 DEF ImportRecords
    <3>2. /\ i.at = "done" /\ i.artifacts = import.artifacts /\ i.entries = import.entries
          /\ i.total = import.total
      BY <1>0, <3>1 DEF ImportRecords
    <3> QED BY <2>1, <3>1, <3>2 DEF ImportEnds
  <2>2. CASE Retain
    <3>1. PICK word \in {"kept", "refused"}, e \in SUBSET [source : Sources \cup {"ledger"}, content : {"good"}] :
            import' = [import EXCEPT !.retained = word, !.evidence = e]
      <4>1. \/ import' = [import EXCEPT !.retained = "refused"]
            \/ import' = [import EXCEPT !.retained = "kept", !.evidence = AsFetched]
        BY <2>2, RetainTakes
      <4>2. AsFetched \in SUBSET [source : Sources \cup {"ledger"}, content : {"good"}]
        BY DEF AsFetched, Available
      <4>3. import.evidence \in SUBSET [source : Sources \cup {"ledger"}, content : {"good"}]
        BY <1>0 DEF ImportRecords
      <4>4. [import EXCEPT !.retained = "refused"]
                = [import EXCEPT !.retained = "refused", !.evidence = import.evidence]
        BY <1>0 DEF ImportRecords
      <4> QED BY <4>1, <4>2, <4>3, <4>4
    <3>2. PICK i \in ImportRecords : i = [import EXCEPT !.retained = word, !.evidence = e]
      BY <1>0 DEF ImportRecords
    <3>3. /\ i.at = "done" /\ i.artifacts = import.artifacts /\ i.entries = import.entries
          /\ i.total = import.total
      BY <1>0, <2>2, <3>2 DEF ImportRecords, Retain
    <3> QED BY <3>1, <3>2, <3>3
  <2> QED BY <2>1, <2>2 DEF ImportEnds, Retain
<1>4. AcqTypes'
  BY <1>0, <1>1 DEF AcqInv, AcqTypes
<1>5. SessionStands' /\ ImportStands'
  BY <1>0, <1>1 DEF AcqInv, SessionStands, ImportStands, ThreadEnded, Trusted
<1>6. ~session.late => StrayEnds' /\ Accounts' /\ Allowances'
  BY <1>0, <1>1 DEF AcqInv, StrayEnds, Accounts, Allowances, Stray, LocalBytes, Locals
<1> QED BY <1>0, <1>4, <1>5, <1>6 DEF AcqInv

\* Nothing is served, fetched or imported.
LEMMA AcqInvInit == AcqInit => AcqInv
<1> SUFFICES ASSUME AcqInit PROVE AcqInv
  OBVIOUS
<1>1. session \in SessionRecords /\ session.closing = "no" /\ session.late = FALSE
  BY DEF AcqInit, SessionRecords
<1>2. serve \in ServeRecords /\ serve.at = "none"
  BY DEF AcqInit, ServeRecords
<1>3. receipts \in [Sources -> ReceiptRecords \cup {NoReceipt}]
  BY DEF AcqInit
<1>4. fetch \in FetchRecords
  BY IdleIs DEF AcqInit
<1>5. bytes \in ByteRecords /\ bytes.moved = 0 /\ bytes.consumed = 0 /\ bytes.probes = 0 /\ bytes.stuck = 0
  BY DEF AcqInit, ByteRecords
<1>6. import \in ImportRecords /\ import.at = "idle" /\ import.entries = <<>>
  <2>1. <<>> \in Seq(ImportEntries)
    BY EmptySeq
  <2> QED BY <2>1 DEF AcqInit, NewImport, ImportRecords
<1>7. AcqTypes
  BY <1>1, <1>2, <1>3, <1>4, <1>5, <1>6 DEF AcqTypes
<1>8. SessionStands
  BY <1>1, <1>2, <1>6 DEF SessionStands, ThreadEnded
<1>9. ImportStands
  BY <1>6, EmptySeq DEF ImportStands
<1>10. StrayEnds /\ Allowances /\ Accounts
  <2>1. MaxTotal \in Nat
    BY AcquisitionAssumption
  <2> QED BY <1>2, <1>5, <1>6, <2>1 DEF StrayEnds, Allowances, Accounts, Stray
<1> QED BY <1>7, <1>8, <1>9, <1>10 DEF AcqInv

\* Every step of the session, the fetches and the import keeps AcqInv.
LEMMA AcqInvStep == ASSUME AcqInv, [AcqNext]_acqVars PROVE AcqInv'
<1>1. CASE \/ LoseAuthority \/ Overwrite \/ Ask \/ ServeMalformed \/ ServeKnown
           \/ AcqFinished \/ UNCHANGED acqVars
  BY <1>1, QuietKeeps
<1>2. CASE Start
  BY <1>2, StartKeeps
<1>3. CASE ServeStops \/ ServeUnsafe \/ ServeContradiction
  BY <1>3, ServeEndsKeeps
<1>4. CASE ServeNew
  BY <1>4, ServeNewKeeps
<1>5. CASE FetchFails
  BY <1>5, FetchFailsKeeps
<1>6. CASE FetchReturns
  BY <1>6, FetchReturnsKeeps
<1>7. CASE Rejected
  BY <1>7, RejectedKeeps
<1>8. CASE Store
  BY <1>8, StoreKeeps
<1>9. CASE CloseBegin \/ CloseJoined \/ CloseLooks
  BY <1>9, CloseKeeps
<1>10. CASE StrayTransfer
  BY <1>10, StrayTransferKeeps
<1>11. CASE RewriteLocal
  BY <1>11, RewriteLocalKeeps
<1>12. CASE ImportBegins
  BY <1>12, ImportBeginsKeeps
<1>13. CASE ImportStops \/ ImportUnwanted \/ ImportReceipt \/ ImportLocal
  BY <1>13, ImportQuietKeeps
<1>14. CASE ImportFetches
  BY <1>14, ImportFetchesKeeps
<1>15. CASE ImportFetchFails
  BY <1>15, ImportFetchFailsKeeps
<1>16. CASE ImportFetchReturns
  BY <1>16, ImportFetchReturnsKeeps
<1>17. CASE ImportEnds \/ Retain
  BY <1>17, ImportEndsKeeps
<1> QED BY <1>1, <1>2, <1>3, <1>4, <1>5, <1>6, <1>7, <1>8, <1>9, <1>10, <1>11, <1>12,
           <1>13, <1>14, <1>15, <1>16, <1>17 DEF AcqNext

\* What a later run took over, it took over of an import that is done.
RetainedStands ==
    import.retained = "kept" =>
        import.at = "done" /\ import.evidence = AsFetched /\ References \subseteq Available

\* A step of the import before its end takes no evidence over.
LEMMA ImportRetainsNothing ==
    ASSUME AcqInv, import.at # "done",
           \/ RewriteLocal \/ ImportBegins \/ ImportStops \/ ImportUnwanted \/ ImportReceipt
           \/ ImportLocal \/ ImportFetches \/ ImportFetchFails \/ ImportFetchReturns \/ ImportEnds
    PROVE  import'.retained = import.retained
<1>1. import \in ImportRecords
  BY AcqFields
<1>2. CASE RewriteLocal \/ ImportBegins \/ ImportEnds
  BY <1>1, <1>2 DEF RewriteLocal, ImportBegins, ImportEnds, ImportRecords
<1>3. \A status, content : Enter(status, content).retained = import.retained
  BY <1>1 DEF Enter, ImportRecords
<1>4. \A status : Lost(status).retained = import.retained
  BY <1>1, <1>3 DEF Lost, Enter, ImportRecords
<1>5. \A size, content : Attach(import, size, content).retained = import.retained
  BY <1>1 DEF Attach, ImportRecords
<1>6. CASE ImportStops \/ ImportUnwanted \/ ImportReceipt \/ ImportLocal
  <2>1. PICK stopped : stopped = [Lost("failed") EXCEPT !.at = "refused"]
    OBVIOUS
  <2>2. stopped.retained = import.retained
    BY <1>1, <2>1 DEF Lost, Enter, ImportRecords
  <2>3. CASE ImportStops \/ ImportUnwanted
    BY <1>3, <2>1, <2>2, <2>3 DEF ImportStops, ImportUnwanted
  <2>4. CASE ImportReceipt
    <3>1. \/ import' \in {Lost("failed"), stopped}
          \/ import' = Attach(import, receipts[artifact.from].size, files.original[artifact.from])
      BY <2>1, <2>4 DEF ImportReceipt
    <3> QED BY <1>4, <1>5, <2>2, <3>1
  <2>5. CASE ImportLocal
    <3>1. \/ import' \in {Lost("failed"), stopped, Enter("excluded", "none")}
          \/ import' = Attach(import, 1, "good")
      BY <2>1, <2>5 DEF ImportLocal
    <3> QED BY <1>3, <1>4, <1>5, <2>2, <3>1
  <2> QED BY <1>6, <2>3, <2>4, <2>5
<1>7. CASE ImportFetches
  BY <1>1, <1>4, <1>7 DEF ImportFetches, Lost, Enter, ImportRecords
<1>8. CASE ImportFetchFails
  BY <1>1, <1>4, <1>8 DEF ImportFetchFails, Lost, Enter, ImportRecords
<1>9. CASE ImportFetchReturns
  BY <1>1, <1>9 DEF ImportFetchReturns, Attach, ImportRecords
<1> QED BY <1>2, <1>6, <1>7, <1>8, <1>9

\* Evidence is taken over once, when nothing changes a receipt any more.
LEMMA RetainedStep ==
    ASSUME AcqInv, RetainedStands, [AcqNext]_acqVars PROVE RetainedStands'
<1>0. import \in ImportRecords
  BY AcqFields
<1>1. CASE UNCHANGED <<receipts, import>>
  BY <1>1 DEF RetainedStands, AsFetched, References, Available
<1>2. CASE import' = import /\ import.at # "done"
  BY <1>2 DEF RetainedStands
<1>3. CASE Retain
  <2>1. AsFetched' = AsFetched /\ Available' = Available
    BY <1>3, RetainTakes DEF AsFetched, Available
  <2>2. CASE import' = [import EXCEPT !.retained = "refused"]
    BY <1>0, <2>2 DEF RetainedStands, ImportRecords
  <2>3. CASE /\ import' = [import EXCEPT !.retained = "kept", !.evidence = AsFetched]
             /\ References \subseteq Available
    <3>1. /\ import'.at = "done" /\ import'.evidence = AsFetched
          /\ import'.artifacts = import.artifacts
      BY <1>0, <1>3, <2>3, RetainTakes DEF ImportRecords
    <3>2. References' = References
      BY <3>1 DEF References
    <3> QED BY <2>1, <2>3, <3>1, <3>2 DEF RetainedStands
  <2> QED BY <1>3, <2>2, <2>3, RetainTakes
<1>4. CASE \/ RewriteLocal \/ ImportBegins \/ ImportStops \/ ImportUnwanted \/ ImportReceipt
           \/ ImportLocal \/ ImportFetches \/ ImportFetchFails \/ ImportFetchReturns \/ ImportEnds
  <2>1. import.at # "done"
    BY <1>4 DEF RewriteLocal, ImportBegins, ImportStops, ImportUnwanted, ImportReceipt, ImportLocal,
                ImportFetches, ImportFetchFails, ImportFetchReturns, ImportEnds, Working
  <2>2. import'.retained = import.retained
    BY <1>4, <2>1, ImportRetainsNothing
  <2> QED BY <2>1, <2>2 DEF RetainedStands
<1>5. CASE \/ ServeNew \/ FetchFails \/ FetchReturns \/ Rejected \/ Store
  <2>1. import' = import /\ ~ThreadEnded
    BY <1>5 DEF ServeNew, Take, FetchFails, FetchReturns, Rejected, Store, ThreadEnded
  <2>2. import.at \in {"idle", "refused"}
    BY <2>1, NoImportYet
  <2> QED BY <1>2, <2>1, <2>2
<1>6. CASE \/ LoseAuthority \/ Overwrite \/ Ask \/ StrayTransfer \/ Start \/ ServeStops
           \/ ServeUnsafe \/ ServeMalformed \/ ServeContradiction \/ ServeKnown
           \/ CloseBegin \/ CloseJoined \/ CloseLooks \/ AcqFinished \/ UNCHANGED acqVars
  BY <1>1, <1>6 DEF LoseAuthority, Overwrite, Ask, StrayTransfer, Start, ServeStops, ServeUnsafe,
     ServeMalformed, ServeContradiction, ServeKnown, CloseBegin, CloseJoined, CloseLooks,
     AcqFinished, acqVars
<1> QED BY <1>3, <1>4, <1>5, <1>6 DEF AcqNext

\* The inductive invariant of protected acquisition: who is at work, what is
\* stuck, what every byte was charged to, and what the entries rest on.
THEOREM AcquisitionStands == AcqSpec => []AcqInv
  BY AcqInvInit, AcqInvStep, PTL DEF AcqSpec

\* ResearchAcquisitionSession and ArtifactAcquirer: every byte of a body that
\* crossed the network is charged, and the charges stay within max_total_bytes.
THEOREM TransfersAreCharged == AcqSpec => []TransferIsCharged
<1>1. AcqInv => TransferIsCharged
  <2> SUFFICES ASSUME AcqInv, ~session.late
               PROVE  /\ \/ bytes.moved <= bytes.consumed + bytes.probes
                         \/ bytes.moved <= import.total - LocalBytes(import.artifacts) + bytes.probes
                      /\ bytes.moved <= MaxTotal + bytes.probes
    BY DEF TransferIsCharged
  <2>1. Accounts
    BY DEF AcqInv
  <2>2. PICK m \in Nat, c \in Nat, p \in Nat, t \in Nat, lb \in Nat, x \in Nat, y \in Nat :
            /\ m = bytes.moved /\ c = bytes.consumed /\ p = bytes.probes /\ t = import.total
            /\ lb = LocalBytes(import.artifacts) /\ x = Stray /\ y = MaxTotal
    BY AcqFields
  <2>3. \/ m + x <= c + p /\ m + x <= y + p
        \/ t <= y /\ m + x <= t - lb + p
    BY <2>1, <2>2 DEF Accounts
  <2>4. (m <= c + p \/ m <= t - lb + p) /\ m <= y + p
    BY <2>3
  <2> QED BY <2>2, <2>4
<1> QED BY <1>1, AcquisitionStands, PTL

\* ArtifactAcquirer and retain_acquisition_evidence: the message takes nothing but
\* originals of a session that ended well, a stray child leaves the import without
\* entries, and a later run takes over every original and the ledger as they were
\* fetched, or nothing.
THEOREM ImportsAreAuthentic == AcqSpec => []OnlyAuthentic
<1>1. AcqInv /\ RetainedStands => OnlyAuthentic
  <2> SUFFICES ASSUME AcqInv, RetainedStands PROVE OnlyAuthentic
    OBVIOUS
  <2>1. ImportStands /\ SessionStands
    BY DEF AcqInv
  <2>2. import.entries \in Seq(ImportEntries)
    BY AcqFields
  <2>3. \A i \in DOMAIN import.entries : import.entries[i].status = "available" =>
            /\ import.entries[i].content = "good"
            /\ Trusted
            /\ import.entries[i].from \in Sources =>
                receipts[import.entries[i].from].status \in {"none", "available"}
    <3>1. ASSUME NEW i \in DOMAIN import.entries PROVE Trusted
      BY <2>1, <2>2, <3>1, EmptySeq DEF SessionStands
    <3> QED BY <2>1, <3>1 DEF ImportStands
  <2>4. bytes.stuck > 0 /\ ~session.late => import.at = "refused" \/ import.entries = <<>>
    <3> SUFFICES ASSUME bytes.stuck > 0, ~session.late, import.at # "refused"
                 PROVE  import.entries = <<>>
      OBVIOUS
    <3>1. \/ session.closing # "done" \/ ~session.clean
      BY DEF AcqInv, StrayEnds
    <3> QED BY <2>1, <3>1 DEF SessionStands, Trusted
  <2> QED BY <2>3, <2>4 DEF OnlyAuthentic, RetainedStands
<1>2. AcqInit => RetainedStands
  BY DEF AcqInit, NewImport, RetainedStands
<1> QED BY <1>1, <1>2, RetainedStep, AcquisitionStands, PTL DEF AcqSpec

\* ResearchAcquisitionSession.close: after a cleanup it called verified, no
\* step of anybody changes the session, its thread, a receipt or a charge.
THEOREM CleanClosesAreQuiet == AcqSpec => CleanCloseIsQuiet
<1>1. ASSUME AcqInv, [AcqNext]_acqVars, session.closing = "done", session.clean
      PROVE  UNCHANGED <<session, serve, receipts, bytes.consumed>>
  <2>1. ThreadEnded /\ bytes \in ByteRecords
    BY <1>1, AcqFields DEF AcqInv, SessionStands
  <2>2. serve.at \notin {"scan", "fetch", "judge", "store"}
    BY <2>1 DEF ThreadEnded
  <2>3. /\ ~Start /\ ~ServeStops /\ ~ServeUnsafe /\ ~ServeMalformed /\ ~ServeContradiction
        /\ ~ServeKnown /\ ~ServeNew /\ ~FetchFails /\ ~FetchReturns /\ ~Rejected /\ ~Store
        /\ ~CloseBegin /\ ~CloseJoined /\ ~CloseLooks
    BY <1>1, <2>2 DEF Start, ServeStops, ServeUnsafe, ServeMalformed, ServeContradiction,
       ServeKnown, ServeNew, Take, FetchFails, FetchReturns, Rejected, Store,
       CloseBegin, CloseJoined, CloseLooks
  <2>4. CASE \/ LoseAuthority \/ Overwrite \/ RewriteLocal \/ Ask \/ ImportBegins \/ ImportStops
             \/ ImportUnwanted \/ ImportReceipt \/ ImportLocal \/ ImportFetches \/ ImportEnds
             \/ Retain \/ AcqFinished \/ UNCHANGED acqVars
    BY <2>4 DEF LoseAuthority, Overwrite, RewriteLocal, Ask, ImportBegins, ImportStops,
       ImportUnwanted, ImportReceipt, ImportLocal, ImportFetches, ImportEnds, Retain,
       AcqFinished, acqVars
  <2>5. CASE StrayTransfer
    BY <2>1, <2>5 DEF StrayTransfer, ByteRecords
  <2>6. CASE ImportFetchFails \/ ImportFetchReturns
    <3>1. UNCHANGED <<session, serve, receipts>>
      BY <2>6 DEF ImportFetchFails, ImportFetchReturns
    <3>2. \E o, a : bytes' = Moves(o, a)
      BY <2>6 DEF ImportFetchFails, ImportFetchReturns
    <3>3. \A o, a : Moves(o, a).consumed = bytes.consumed
      BY <2>1 DEF Moves, ByteRecords
    <3> QED BY <3>1, <3>2, <3>3
  <2> QED BY <1>1, <2>3, <2>4, <2>5, <2>6 DEF AcqNext
<1> QED BY <1>1, AcquisitionStands, PTL DEF AcqSpec, CleanCloseIsQuiet

=============================================================================
