---------------------------- MODULE ControlProofs ----------------------------
(***************************************************************************)
(* The safety theorems of the components that requests and operators       *)
(* drive.  For each: the invariant that its actions preserve, one step per *)
(* action, and the properties that follow from it.                         *)
(***************************************************************************)
EXTENDS Accounts, Maintenance, DeliverySettings, FiniteSetTheorems, TLAPS

---------------------------------------------------------------------------
(* Backup and restore.                                                     *)

Contents == Nat \cup {NoLog}
FileSets == [base : Contents, over : Contents, gives : Contents]
Unmarked == {"guarded", "staged", "safe"}
Switching == {"marked", "retired", "switched"}

MntTypes ==
    /\ files \in FileSets /\ safety \in FileSets
    /\ backup \in [at : {"idle", "copying", "copied"}, content : Nat]
    /\ backups \subseteq Nat
    /\ restore \in [at : {"idle"} \cup Unmarked \cup Switching, content : Nat]
    /\ marker \in BOOLEAN
    /\ committed \in Nat /\ truth \in Nat /\ saved \in Nat

\* Where the restore stands says which of the two sets of files are whole.
RestoreStages ==
    /\ GuardedShared => restore.at = "idle" /\ ~marker
    /\ restore.at \in Unmarked => ~marker /\ saved = truth
    /\ restore.at = "safe" => safety = files
    /\ restore.at \in Switching => marker
    /\ restore.at = "retired" => files.gives = NoLog
    /\ restore.at = "switched" => View(files) = truth
    /\ ~marker => View(files) = truth
    /\ marker => View(safety) = saved

MntInv == MntTypes /\ RestoreStages

\* The two files of a database start whole and no maintenance is under way.
LEMMA MntInvInit == MntInit => MntInv
<1> SUFFICES ASSUME MntInit PROVE MntInv
  OBVIOUS
<1>1. MntTypes
  BY DEF MntInit, MntTypes, FileSets, Contents, Files, NoFiles
<1>2. View(files) = truth
  BY DEF MntInit, View, Files
<1>3. RestoreStages
  BY <1>2 DEF MntInit, RestoreStages, GuardedShared, Unmarked, Switching
<1> QED
  BY <1>1, <1>3 DEF MntInv

\* Each step of a service, a backup, a restore or the operator preserves it.
LEMMA MntInvStep == MntInv /\ [MntNext]_mntVars => MntInv'
<1> SUFFICES ASSUME MntInv, [MntNext]_mntVars PROVE MntInv'
  OBVIOUS
<1> USE DEF MntInv, MntTypes, RestoreStages, GuardedShared, Unmarked, Switching
<1>1. ASSUME NEW s \in Services, get_connection(s) PROVE MntInv'
  BY <1>1 DEF get_connection, MayShare, View
<1>2. ASSUME NEW s \in Services, Commit(s) PROVE MntInv'
  BY <1>2 DEF Commit, View, Files, FileSets, Contents, NoLog
<1>3. ASSUME NEW s \in Services, Close(s) PROVE MntInv'
  BY <1>3 DEF Close, View
<1>4. CASE Checkpoint
  BY <1>4 DEF Checkpoint, Checkpointed, View, Files, FileSets, Contents, NoLog
<1>5. CASE BackupCopies
  BY <1>5 DEF BackupCopies, MayShare, View
<1>6. CASE BackupReleases
  BY <1>6 DEF BackupReleases, View
<1>7. CASE BackupPublishes
  BY <1>7 DEF BackupPublishes, View
<1>8. CASE BackupDies
  BY <1>8 DEF BackupDies, View
<1>9. ASSUME NEW c \in backups, RestoreBegins(c) PROVE MntInv'
  BY <1>9 DEF RestoreBegins, MayExclude, View
<1>10. CASE StageBackup
  BY <1>10 DEF StageBackup, Advances, View, NoFiles, Files, FileSets, Contents, NoLog
<1>11. CASE CopyToSafety
  BY <1>11 DEF CopyToSafety, Advances, View
<1>12. CASE WriteMarker
  BY <1>12 DEF WriteMarker, Advances, View
<1>13. CASE RetireSidecars
  BY <1>13 DEF RetireSidecars, Advances, View, FileSets, Contents, NoLog
<1>14. CASE ReplaceBase
  BY <1>14 DEF ReplaceBase, Advances, View, FileSets, Contents, NoLog
<1>15. CASE RemoveMarker
  BY <1>15 DEF RemoveMarker, Advances, View
<1>16. CASE RestoreStops
  BY <1>16 DEF RestoreStops, View
<1>17. CASE Recover
  BY <1>17 DEF Recover, View
<1>18. CASE UNCHANGED mntVars
  BY <1>18 DEF mntVars, View
<1> QED
  BY <1>1, <1>2, <1>3, <1>4, <1>5, <1>6, <1>7, <1>8, <1>9, <1>10, <1>11, <1>12, <1>13, <1>14,
     <1>15, <1>16, <1>17, <1>18 DEF MntNext

\* restore_database keeps the marker up from the moment the old files are whole in
\* the safety directory until the new ones are, and services refuse to start
\* beside it: wherever a restore stops, whoever opens the database or copies it
\* finds all of one content, and the operator can go back to all of the other.
THEOREM RestoresAreWhole == MntSpec => []RestoreIsWhole
<1>1. MntInv => RestoreIsWhole
  BY DEF MntInv, RestoreStages, RestoreIsWhole
<1> QED
  BY <1>1, MntInvInit, MntInvStep, PTL DEF MntSpec

---------------------------------------------------------------------------
(* Accounts and sessions.                                                  *)

UserRecords == [role : Roles \cup {"none"}, active : BOOLEAN, must : BOOLEAN, rev : Nat]
SessionRecords == [user : People \cup {"nobody"}, rev : Nat, life : {"fresh", "idle", "gone"},
                   outdated : BOOLEAN]
CallRecords ==
    [op : Ops \cup {"none"},
     at : {"idle", "asked", "reserved", "deriving", "verified", "rederiving", "derived", "granted",
           "touching"},
     token : Nat, actor : People \cup {"nobody"}, target : People \cup {"nobody"}, seen : Nat,
     outdated : BOOLEAN]

AccTypes ==
    /\ users \in [People -> UserRecords]
    /\ sessions \in [Tokens -> SessionRecords]
    /\ bootstrap \in [id : Nat, valid : BOOLEAN]
    /\ founder \in People \cup {"nobody"}
    /\ calls \in [Threads -> CallRecords]

\* The revisions of an account start at one.
AccountRows == \A p \in People : users[p].rev = 0 <=> users[p] = NoUser

\* A row of auth_sessions is at the present revision of an active account: what moves
\* the revision or deactivates deletes the rows in the same transaction.
SessionRow(s) ==
    s.user # "nobody" => users[s.user].active /\ users[s.user].rev = s.rev /\ ~s.outdated

\* What a call read of its target's revision is not ahead of it, and behind it once
\* the account has changed.
Evidence(c) ==
    /\ c.op \in Ops \ {"logout"} => c.target \in People
    /\ c.op = "change" => c.actor = c.target
    /\ c.op \in {"login", "change"} =>
          /\ c.seen <= users[c.target].rev
          /\ c.outdated => 0 < c.seen /\ c.seen < users[c.target].rev
          /\ c.at \in {"asked", "reserved"} => c.seen = 0

AccInv ==
    /\ AccTypes /\ AccountRows /\ AdminRemains
    /\ \A k \in Tokens : SessionRow(sessions[k])
    /\ \A t \in Threads : Evidence(calls[t])

\* An installation starts without accounts, or installed with its first
\* administrator and signed-in people.
LEMMA AccInvInit == AccInit => AccInv
<1> SUFFICES ASSUME AccInit PROVE AccInv
  OBVIOUS
<1>0. "nobody" \notin People
  BY AccountsAssumption
<1>1. NoUser \in UserRecords /\ NoSession \in SessionRecords /\ NoCall \in CallRecords
  BY DEF UserRecords, SessionRecords, CallRecords, NoUser, NoSession, NoCall
<1>2. bootstrap \in [id : Nat, valid : BOOLEAN] /\ ~bootstrap.valid
      /\ calls \in [Threads -> CallRecords] /\ \A t \in Threads : Evidence(calls[t])
  <2>1. bootstrap = [id |-> 0, valid |-> FALSE] /\ calls = [t \in Threads |-> NoCall]
    BY DEF AccInit
  <2>2. Evidence(NoCall)
    BY DEF Evidence, NoCall, Ops
  <2> QED BY <1>1, <2>1, <2>2
<1>3. CASE users = [p \in People |-> NoUser] /\ founder = "nobody"
           /\ sessions = [k \in Tokens |-> NoSession]
  <2>1. AccTypes
    BY <1>1, <1>2, <1>3 DEF AccTypes
  <2>2. AccountRows
    BY <1>3 DEF AccountRows, NoUser
  <2>3. ~initialized
    BY <1>3 DEF initialized, Exists
  <2>4. \A k \in Tokens : SessionRow(sessions[k])
    BY <1>3 DEF SessionRow, NoSession
  <2> QED BY <1>2, <2>1, <2>2, <2>3, <2>4 DEF AccInv, AdminRemains
<1>4. ASSUME NEW p \in People, Installed(p) PROVE AccInv
  <2>1. PICK others \in SUBSET (People \ {p}), roles \in [People -> Roles] :
          /\ users = [q \in People |-> CASE q = p -> Account("admin")
                                        [] q \in others -> Account(roles[q])
                                        [] OTHER -> NoUser]
          /\ \E token \in [others \cup {p} -> Tokens] :
             /\ \A q, r \in others \cup {p} : q # r => token[q] # token[r]
             /\ sessions = [k \in Tokens |->
                   LET q == {r \in others \cup {p} : token[r] = k} IN
                   IF q = {} THEN NoSession ELSE Logged(CHOOSE r \in q : TRUE)]
    BY <1>4 DEF Installed
  <2>2. \A role \in Roles : Account(role) \in UserRecords /\ Account(role).active
                            /\ Account(role).rev = 1 /\ Account(role).role = role
    BY DEF Account, UserRecords
  <2>3. /\ users[p] = Account("admin") /\ \A q \in others : users[q] = Account(roles[q])
        /\ \A q \in People \ (others \cup {p}) : users[q] = NoUser
        /\ users \in [People -> UserRecords]
    BY <1>1, <2>1, <2>2 DEF Roles
  <2>4. \A q \in others \cup {p} : users[q].active /\ users[q].rev = 1
    BY <2>1, <2>2, <2>3 DEF Roles
  <2>5. \A k \in Tokens : sessions[k] = NoSession
                          \/ \E q \in others \cup {p} : sessions[k] = Logged(q)
    BY <2>1
  <2>6. \A q \in People : Logged(q) \in SessionRecords
    BY DEF Logged, SessionRecords
  <2>7. sessions \in [Tokens -> SessionRecords]
    <3>1. sessions = [k \in Tokens |-> sessions[k]]
      BY <2>1
    <3> QED BY <1>1, <2>1, <2>5, <2>6, <3>1
  <2>8. ASSUME NEW k \in Tokens PROVE SessionRow(sessions[k])
    <3>1. CASE sessions[k] = NoSession
      BY <3>1 DEF SessionRow, NoSession
    <3>2. ASSUME NEW q \in others \cup {p}, sessions[k] = Logged(q) PROVE SessionRow(sessions[k])
      <4>1. sessions[k].user = q /\ sessions[k].rev = 1 /\ ~sessions[k].outdated
        BY <3>2 DEF Logged
      <4> QED BY <2>4, <4>1 DEF SessionRow
    <3> QED BY <2>5, <3>1, <3>2
  <2>9. AccountRows
    <3>1. NoUser.rev = 0
      BY DEF NoUser
    <3> QED BY <2>3, <2>4, <3>1 DEF AccountRows
  <2>10. AdminRemains
    <3>1. p \in ActiveAdmins
      BY <2>2, <2>3 DEF ActiveAdmins, Roles
    <3>2. founder = p
      BY <1>4 DEF Installed
    <3> QED BY <1>0, <1>2, <3>1, <3>2 DEF AdminRemains
  <2> QED BY <1>2, <1>4, <2>3, <2>7, <2>8, <2>9, <2>10 DEF AccInv, AccTypes, Installed
<1> QED BY <1>3, <1>4 DEF AccInit

\* What _new_session leaves: rows that were there, no row, or the new one.
LEMMA NewSessionRows ==
    ASSUME NEW ss \in [Tokens -> SessionRecords], NEW p \in People \cup {"nobody"}, NEW rev \in Nat,
           NEW outdated \in BOOLEAN, NewSession(ss, p, rev, outdated)
    PROVE  /\ sessions' \in [Tokens -> SessionRecords]
           /\ \A k \in Tokens : \/ sessions'[k] \in {NoSession, ss[k]}
                                \/ /\ sessions'[k].user = p /\ sessions'[k].rev = rev
                                   /\ sessions'[k].outdated = outdated
<1>1. PICK r \in SessionRecords :
          r = [user |-> p, rev |-> rev, life |-> "fresh", outdated |-> outdated]
  BY DEF SessionRecords
<1>2. PICK kept : kept = Without(ss, Overdue(ss))
  OBVIOUS
<1>3. PICK j : sessions' = [kept EXCEPT ![j] = r]
  BY <1>1, <1>2 DEF NewSession
<1>4. NoSession \in SessionRecords
  BY DEF NoSession, SessionRecords
<1>5. kept \in [Tokens -> SessionRecords] /\ \A k \in Tokens : kept[k] \in {NoSession, ss[k]}
  BY <1>2, <1>4 DEF Without
<1>6. sessions' \in [Tokens -> SessionRecords]
      /\ \A k \in Tokens : sessions'[k] \in {kept[k], r}
  BY <1>3, <1>5
<1>7. r.user = p /\ r.rev = rev /\ r.outdated = outdated
  BY <1>1
<1> QED BY <1>5, <1>6, <1>7

\* Deleting rows of auth_sessions leaves the others alone.
LEMMA WithoutRows ==
    ASSUME NEW ss \in [Tokens -> SessionRecords], NEW K
    PROVE  /\ Without(ss, K) \in [Tokens -> SessionRecords]
           /\ \A k \in Tokens : Without(ss, K)[k] = IF k \in K THEN NoSession ELSE ss[k]
<1>1. NoSession \in SessionRecords
  BY DEF NoSession, SessionRecords
<1> QED BY <1>1 DEF Without

\* Steps that leave the accounts alone: the rows of sessions that are kept stand, and
\* so do the calls.
LEMMA RowsStand ==
    ASSUME AccInv, users' = users,
           NEW k \in Tokens, sessions'[k] \in {NoSession, sessions[k]}
    PROVE  SessionRow(sessions[k])'
<1>1. SessionRow(sessions[k])
  BY DEF AccInv
<1> QED BY <1>1 DEF SessionRow, NoSession

\* A change of account q moves its revision by one, or makes it.
Changes(q, u) ==
    /\ q \in People /\ u \in UserRecords
    /\ users' = [users EXCEPT ![q] = u]
    /\ u.rev = users[q].rev + 1

\* A change of an account changes that account only.
LEMMA ChangedUsers ==
    ASSUME AccTypes, NEW q, NEW u, Changes(q, u)
    PROVE  /\ users' \in [People -> UserRecords]
           /\ users'[q] = u /\ \A p \in People \ {q} : users'[p] = users[p]
  BY DEF AccTypes, Changes

\* A change of account q turns what the calls had read of q into something out of
\* date, and nothing else.
LEMMA OutdatedCalls ==
    ASSUME AccInv, NEW q, NEW u, Changes(q, u), NEW cs \in [Threads -> CallRecords],
           NEW t \in Threads, cs[t] \in {calls[t], NoCall}
    PROVE  /\ Outdating(cs, q)[t] \in CallRecords
           /\ Evidence(Outdating(cs, q)[t])'
<1>0. Outdating(cs, q)[t] = IF cs[t].target = q /\ cs[t].seen > 0
                            THEN [cs[t] EXCEPT !.outdated = TRUE] ELSE cs[t]
  BY DEF Outdating
<1>1. PICK c \in CallRecords : c = cs[t]
  OBVIOUS
<1>2. PICK d \in CallRecords : d = [c EXCEPT !.outdated = TRUE]
  BY DEF CallRecords
<1>3. d.op = c.op /\ d.target = c.target /\ d.actor = c.actor /\ d.seen = c.seen /\ d.at = c.at
      /\ d.outdated
  BY <1>2 DEF CallRecords
<1>4. Evidence(c)
  <2>1. Evidence(NoCall)
    BY DEF Evidence, NoCall, Ops
  <2> QED BY <1>1, <2>1 DEF AccInv
<1>5. /\ users \in [People -> UserRecords] /\ \A p \in People : users[p].rev \in Nat
      /\ users'[q].rev = users[q].rev + 1
      /\ \A p \in People \ {q} : users'[p] = users[p]
      /\ q \in People /\ c.seen \in Nat
  <2>1. users \in [People -> UserRecords]
    BY DEF AccInv, AccTypes
  <2>2. users'[q] = u /\ \A p \in People \ {q} : users'[p] = users[p]
    BY ChangedUsers DEF AccInv
  <2>3. \A p \in People : users[p].rev \in Nat
    BY <2>1 DEF UserRecords
  <2> QED BY <2>1, <2>2, <2>3 DEF Changes, CallRecords
<1>6. CASE c.target = q /\ c.seen > 0
  <2>1. Evidence(d)'
    BY <1>3, <1>4, <1>5, <1>6 DEF Evidence, Ops
  <2> QED BY <1>0, <1>1, <1>2, <1>6, <2>1 DEF Evidence
<1>7. CASE ~(c.target = q /\ c.seen > 0)
  <2>1. Evidence(c)'
    BY <1>4, <1>5, <1>7 DEF Evidence, Ops
  <2> QED BY <1>0, <1>1, <1>7, <2>1 DEF Evidence
<1> QED BY <1>6, <1>7

\* Steps that leave the accounts and the setup token alone.
LEMMA AccountsStay ==
    ASSUME AccInv, UNCHANGED <<users, founder>>,
           bootstrap' \in [id : Nat, valid : BOOLEAN], bootstrap'.valid => bootstrap.valid,
           sessions' \in [Tokens -> SessionRecords], \A k \in Tokens : SessionRow(sessions[k])',
           calls' \in [Threads -> CallRecords], \A t \in Threads : Evidence(calls[t])'
    PROVE  AccInv'
<1>1. AccTypes' /\ AccountRows'
  BY DEF AccInv, AccTypes, AccountRows
<1>2. (initialized' <=> initialized) /\ ActiveAdmins' = ActiveAdmins
  BY DEF initialized, Exists, ActiveAdmins
<1>3. AdminRemains'
  BY <1>2 DEF AccInv, AdminRemains
<1> QED BY <1>1, <1>3 DEF AccInv

\* A call that goes on with true evidence leaves every thread's evidence true.
LEMMA CallsGo ==
    ASSUME AccInv, users' = users, NEW t \in Threads, NEW c \in CallRecords, Evidence(c), Goes(t, c)
    PROVE  calls' \in [Threads -> CallRecords] /\ \A q \in Threads : Evidence(calls[q])'
<1>1. calls \in [Threads -> CallRecords] /\ \A q \in Threads : Evidence(calls[q])
  BY DEF AccInv, AccTypes
<1>2. calls' = [calls EXCEPT ![t] = c]
  BY DEF Goes
<1>3. \A q \in Threads : calls'[q] \in {calls[q], c}
  BY <1>1, <1>2
<1> QED BY <1>1, <1>2, <1>3 DEF Evidence

\* A call that ends leaves the other threads' evidence as it was.
LEMMA CallsEnd ==
    ASSUME AccInv, users' = users, NEW t \in Threads, Ends(t)
    PROVE  calls' \in [Threads -> CallRecords] /\ \A q \in Threads : Evidence(calls[q])'
<1>1. NoCall \in CallRecords /\ Evidence(NoCall)
  BY DEF CallRecords, NoCall, Evidence, Ops
<1>2. PICK c \in CallRecords : c = NoCall /\ Evidence(c)
  BY <1>1
<1> QED BY <1>2, CallsGo DEF Ends

\* Reads, derivations and refusals of a call.
LEMMA OnlyACallGoes ==
    ASSUME AccInv, UNCHANGED <<users, founder, bootstrap, sessions>>,
           NEW t \in Threads, Ends(t) \/ \E c \in CallRecords : Evidence(c) /\ Goes(t, c)
    PROVE  AccInv'
<1>1. calls' \in [Threads -> CallRecords] /\ \A q \in Threads : Evidence(calls[q])'
  BY CallsGo, CallsEnd
<1>2. sessions' \in [Tokens -> SessionRecords] /\ \A k \in Tokens : SessionRow(sessions[k])'
  BY RowsStand DEF AccInv, AccTypes
<1> QED BY <1>1, <1>2, AccountsStay DEF AccInv, AccTypes

\* A refused call changes nothing but its own thread.
LEMMA RefuseKeeps ==
    ASSUME AccInv, NEW t \in Threads, Refuse(t)
    PROVE  AccInv'
  BY OnlyACallGoes DEF Refuse

\* The reads of a request, before it commits: it learns only what is so.
LEMMA CallKeeps ==
    ASSUME AccInv, NEW t \in Threads,
           \/ \E k \in Tokens, op \in Ops, p \in People : Ask(t, k, op, p)
           \/ \E passed : ReserveAttempt(t, passed)
           \/ Look(t) \/ Derive(t) \/ Rehash(t) \/ Serve(t)
    PROVE  AccInv'
<1>0. PICK c \in CallRecords : c = calls[t]
  BY DEF AccInv, AccTypes
<1>1. Evidence(c)
  BY <1>0 DEF AccInv
<1>2. /\ users \in [People -> UserRecords] /\ \A p \in People : users[p].rev \in Nat
      /\ c.seen \in Nat /\ c.op \in Ops \cup {"none"}
  BY DEF AccInv, AccTypes, UserRecords, CallRecords
<1>3. ASSUME NEW k \in Tokens, NEW op \in Ops, NEW p \in People, Ask(t, k, op, p) PROVE AccInv'
  <2>1. sessions[k].user \in People \cup {"nobody"} /\ bootstrap.id \in Nat /\ k \in Nat
    BY DEF AccInv, AccTypes, SessionRecords, Tokens
  <2>2. PICK d \in CallRecords :
          d = [op |-> op, at |-> "asked", target |-> p, outdated |-> FALSE,
                token |-> IF op \in {"setup", "login", "logout", "page"} THEN k ELSE 0,
                actor |-> IF op \in {"setup", "login", "logout"} THEN "nobody"
                          ELSE sessions[k].user,
                seen |-> IF op = "setup" THEN bootstrap.id ELSE 0]
    BY <2>1 DEF CallRecords
  <2>3. /\ d.op = op /\ d.target = p /\ ~d.outdated
        /\ op \in {"login", "change"} => d.seen = 0
        /\ op = "change" => d.actor = sessions[k].user
    BY <2>2
  <2>5. Goes(t, d)
    BY <1>3, <2>2 DEF Ask
  <2>6. op = "change" => p = sessions[k].user
    BY <1>3 DEF Ask
  <2>7. Evidence(d)
    BY <1>2, <2>3, <2>6 DEF Evidence
  <2> QED BY <1>3, <2>5, <2>7, OnlyACallGoes DEF Ask
<1>4. ASSUME NEW passed, ReserveAttempt(t, passed) PROVE AccInv'
  <2>1. PICK d \in CallRecords : d = [c EXCEPT !.at = "reserved"]
    BY DEF CallRecords
  <2>2. d.op = c.op /\ d.target = c.target /\ d.actor = c.actor /\ d.seen = c.seen
        /\ d.outdated = c.outdated
    BY <2>1 DEF CallRecords
  <2>3. c.at = "asked"
    BY <1>0, <1>4 DEF ReserveAttempt
  <2>4. Evidence(d)
    BY <1>1, <2>2, <2>3 DEF Evidence
  <2>5. Goes(t, d) \/ Ends(t)
    BY <1>0, <1>4, <2>1 DEF ReserveAttempt
  <2> QED BY <1>4, <2>4, <2>5, OnlyACallGoes DEF ReserveAttempt
<1>5. CASE Look(t)
  <2>1. PICK seen \in Nat : seen = IF c.op \in {"login", "change"} /\ Exists(c.target)
                                   THEN users[c.target].rev ELSE c.seen
    <3>1. Exists(c.target) => users[c.target].rev \in Nat
      BY <1>2 DEF Exists
    <3> QED BY <1>2, <3>1
  <2>2. PICK d \in CallRecords : d = [c EXCEPT !.at = "deriving", !.seen = seen]
    BY DEF CallRecords
  <2>3. d.op = c.op /\ d.target = c.target /\ d.actor = c.actor /\ d.seen = seen
        /\ d.outdated = c.outdated /\ d.at = "deriving"
    BY <2>2 DEF CallRecords
  <2>4. c.at \in {"asked", "reserved"}
    BY <1>0, <1>5 DEF Look
  <2>5. Evidence(d)
    BY <1>1, <1>2, <2>1, <2>3, <2>4 DEF Evidence, Exists, Ops
  <2>6. Goes(t, d) \/ Ends(t)
    BY <1>0, <1>5, <2>1, <2>2 DEF Look
  <2> QED BY <1>5, <2>5, <2>6, OnlyACallGoes DEF Look
<1>6. ASSUME NEW at \in {"verified", "derived", "rederiving", "touching"},
             Goes(t, [c EXCEPT !.at = at]), UNCHANGED <<users, founder, bootstrap, sessions>>
      PROVE  AccInv'
  <2>1. PICK d \in CallRecords : d = [c EXCEPT !.at = at]
    BY DEF CallRecords
  <2>2. d.op = c.op /\ d.target = c.target /\ d.actor = c.actor /\ d.seen = c.seen
        /\ d.outdated = c.outdated /\ d.at = at
    BY <2>1 DEF CallRecords
  <2>3. Evidence(d)
    BY <1>1, <2>2 DEF Evidence
  <2> QED BY <1>6, <2>1, <2>3, OnlyACallGoes
<1>7. CASE Derive(t)
  <2>1. Ends(t) \/ Goes(t, [c EXCEPT !.at = "verified"]) \/ Goes(t, [c EXCEPT !.at = "derived"])
    BY <1>0, <1>7 DEF Derive
  <2> QED BY <1>6, <1>7, <2>1, OnlyACallGoes DEF Derive
<1>8. CASE Rehash(t)
  BY <1>0, <1>6, <1>8, OnlyACallGoes DEF Rehash
<1>9. CASE Serve(t)
  BY <1>0, <1>6, <1>9, OnlyACallGoes DEF Serve
<1> QED BY <1>3, <1>4, <1>5, <1>7, <1>8, <1>9

\* Rows that are dropped, aged or made without a user break no promise.
LEMMA SessionKeeps ==
    ASSUME AccInv, UNCHANGED <<users, founder>>,
           bootstrap' \in [id : Nat, valid : BOOLEAN], bootstrap'.valid => bootstrap.valid,
           calls' \in [Threads -> CallRecords], \A t \in Threads : Evidence(calls[t])',
           sessions' \in [Tokens -> SessionRecords],
           \A k \in Tokens : \/ sessions'[k] \in {NoSession, sessions[k]}
                             \/ sessions'[k].user = "nobody"
                             \/ /\ sessions'[k].user = sessions[k].user
                                /\ sessions'[k].rev = sessions[k].rev
                                /\ sessions'[k].outdated = sessions[k].outdated
    PROVE  AccInv'
<1>1. ASSUME NEW k \in Tokens PROVE SessionRow(sessions[k])'
  <2>1. SessionRow(sessions[k])
    BY DEF AccInv
  <2> QED BY <2>1, RowsStand DEF SessionRow
<1> QED BY <1>1, AccountsStay

\* Sign-out, expiry, touching and anonymous sessions.
LEMMA SessionsKeep ==
    ASSUME AccInv,
           \/ new_preauth_session \/ BootstrapExpires
           \/ \E k \in Tokens : SessionAges(k)
           \/ \E t \in Threads : logout(t) \/ Touch(t)
    PROVE  AccInv'
<1>0. /\ sessions \in [Tokens -> SessionRecords] /\ bootstrap \in [id : Nat, valid : BOOLEAN]
      /\ users \in [People -> UserRecords]
      /\ calls \in [Threads -> CallRecords] /\ \A t \in Threads : Evidence(calls[t])
  BY DEF AccInv, AccTypes
<1>1. ASSUME UNCHANGED <<users, calls>>
      PROVE  calls' \in [Threads -> CallRecords] /\ \A t \in Threads : Evidence(calls[t])'
  BY <1>0, <1>1 DEF Evidence
<1>2. ASSUME NEW k, NEW life \in {"fresh", "idle"}, sessions' = [sessions EXCEPT ![k].life = life]
      PROVE  /\ sessions' \in [Tokens -> SessionRecords]
             /\ \A j \in Tokens : /\ sessions'[j].user = sessions[j].user
                                  /\ sessions'[j].rev = sessions[j].rev
                                  /\ sessions'[j].outdated = sessions[j].outdated
  <2>1. CASE k \notin Tokens
    <3>1. sessions' = sessions
      BY <1>0, <1>2, <2>1
    <3> QED BY <1>0, <3>1
  <2>2. CASE k \in Tokens
    <3>1. sessions[k] \in SessionRecords
      BY <1>0, <2>2
    <3>2. PICK s \in SessionRecords : s = [sessions[k] EXCEPT !.life = life]
      BY <3>1 DEF SessionRecords
    <3>3. s.user = sessions[k].user /\ s.rev = sessions[k].rev /\ s.outdated = sessions[k].outdated
      BY <3>1, <3>2 DEF SessionRecords
    <3>4. sessions' = [sessions EXCEPT ![k] = s]
      BY <1>2, <3>2
    <3> QED BY <1>0, <2>2, <3>3, <3>4
  <2> QED BY <2>1, <2>2
<1>3. CASE new_preauth_session
  <2>1. UNCHANGED <<users, founder, bootstrap, calls>> /\ NewSession(sessions, "nobody", 0, FALSE)
    BY <1>3 DEF new_preauth_session
  <2>2. /\ sessions' \in [Tokens -> SessionRecords]
        /\ \A k \in Tokens : sessions'[k] \in {NoSession, sessions[k]} \/ sessions'[k].user = "nobody"
    BY <1>0, <2>1, NewSessionRows
  <2> QED BY <1>0, <1>1, <2>1, <2>2, SessionKeeps
<1>4. CASE BootstrapExpires
  <2>1. UNCHANGED <<users, founder, sessions, calls>> /\ bootstrap' = [bootstrap EXCEPT !.valid = FALSE]
    BY <1>4 DEF BootstrapExpires
  <2>2. bootstrap' \in [id : Nat, valid : BOOLEAN] /\ ~bootstrap'.valid
    BY <1>0, <2>1
  <2> QED BY <1>0, <1>1, <2>1, <2>2, SessionKeeps
<1>5. ASSUME NEW k \in Tokens, SessionAges(k) PROVE AccInv'
  <2>1. UNCHANGED <<users, founder, bootstrap, calls>>
    BY <1>5 DEF SessionAges
  <2>2. CASE sessions' = [sessions EXCEPT ![k].life = "idle"]
    BY <1>0, <1>1, <1>2, <2>1, <2>2, SessionKeeps
  <2>3. CASE sessions' = Without(sessions, {k})
    <3>1. /\ sessions' \in [Tokens -> SessionRecords]
          /\ \A j \in Tokens : sessions'[j] \in {NoSession, sessions[j]}
      BY <1>0, <2>3, WithoutRows
    <3> QED BY <1>0, <1>1, <2>1, <3>1, SessionKeeps
  <2> QED BY <1>5, <2>2, <2>3 DEF SessionAges
<1>6. ASSUME NEW t \in Threads, logout(t) PROVE AccInv'
  <2>1. UNCHANGED <<users, founder, bootstrap>> /\ Ends(t)
    BY <1>6 DEF logout
  <2>2. /\ sessions' \in [Tokens -> SessionRecords]
        /\ \A j \in Tokens : sessions'[j] \in {NoSession, sessions[j]}
    BY <1>0, <1>6, WithoutRows DEF logout
  <2>3. calls' \in [Threads -> CallRecords] /\ \A q \in Threads : Evidence(calls[q])'
    BY <2>1, CallsEnd
  <2> QED BY <1>0, <2>1, <2>2, <2>3, SessionKeeps
<1>7. ASSUME NEW t \in Threads, Touch(t) PROVE AccInv'
  <2>1. UNCHANGED <<users, founder, bootstrap>> /\ Ends(t)
    BY <1>7 DEF Touch
  <2>2. calls' \in [Threads -> CallRecords] /\ \A q \in Threads : Evidence(calls[q])'
    BY <2>1, CallsEnd
  <2>3. CASE sessions' = sessions
    BY <1>0, <2>1, <2>2, <2>3, SessionKeeps
  <2>4. CASE sessions' = [sessions EXCEPT ![calls[t].token].life = "fresh"]
    <3>1. PICK k : sessions' = [sessions EXCEPT ![k].life = "fresh"]
      BY <2>4
    <3> QED BY <1>0, <1>2, <2>1, <2>2, <3>1, SessionKeeps
  <2> QED BY <1>7, <2>3, <2>4 DEF Touch
<1> QED BY <1>3, <1>4, <1>5, <1>6, <1>7

\* The call that remembers the token of a setup or a login claims nothing about an
\* account.
LEMMA GrantedCall ==
    ASSUME NEW c \in CallRecords
    PROVE  Granted(c) \in CallRecords /\ Evidence(Granted(c))
<1>1. PICK d \in CallRecords : d = [NoCall EXCEPT !.op = "logout", !.at = "granted", !.token = c.token]
  BY DEF NoCall, CallRecords, Ops
<1>2. d.op = "logout"
  BY <1>1 DEF NoCall
<1>3. Evidence(d)
  BY <1>2 DEF Evidence
<1> QED BY <1>1, <1>3 DEF Granted

\* What login proved is still so when the session is made: the revision is the one it
\* read, and had the account changed since, it would be ahead.
LEMMA LoginKeeps ==
    ASSUME AccInv, NEW t \in Threads, login(t)
    PROVE  AccInv'
<1>0. PICK c \in CallRecords : c = calls[t]
  BY DEF AccInv, AccTypes
<1>1. /\ Evidence(c) /\ c.op = "login"
      /\ sessions \in [Tokens -> SessionRecords] /\ bootstrap \in [id : Nat, valid : BOOLEAN]
      /\ users \in [People -> UserRecords]
  BY <1>0 DEF AccInv, AccTypes, login
<1>2. CASE Refuse(t)
  BY <1>2, RefuseKeeps
<1>3. CASE StillProved(c) /\ NewSession(sessions, c.target, users[c.target].rev, c.outdated)
           /\ Goes(t, Granted(c)) /\ UNCHANGED <<users, bootstrap, founder>>
  <2>1. PICK p \in People, rev \in Nat, outdated \in BOOLEAN :
            p = c.target /\ rev = users[p].rev /\ outdated = c.outdated
    BY <1>1 DEF Evidence, Ops, UserRecords, CallRecords
  <2>2. users[p].active /\ rev = c.seen
    BY <1>3, <2>1 DEF StillProved
  <2>3. ~outdated
    BY <1>1, <2>1, <2>2 DEF Evidence
  <2>4. /\ sessions' \in [Tokens -> SessionRecords]
        /\ \A k \in Tokens : \/ sessions'[k] \in {NoSession, sessions[k]}
                             \/ /\ sessions'[k].user = p /\ sessions'[k].rev = rev
                                /\ sessions'[k].outdated = outdated
    BY <1>1, <1>3, <2>1, NewSessionRows
  <2>5. \A k \in Tokens : SessionRow(sessions[k])'
    <3>1. ASSUME NEW k \in Tokens, sessions'[k].user = p, sessions'[k].rev = rev,
                 sessions'[k].outdated = outdated
          PROVE  SessionRow(sessions[k])'
      <4>1. users'[p].active /\ users'[p].rev = rev
        BY <1>3, <2>1, <2>2
      <4> QED BY <2>3, <3>1, <4>1 DEF SessionRow
    <3> QED BY <1>3, <2>4, <3>1, RowsStand
  <2>6. PICK d \in CallRecords : d = Granted(c) /\ Evidence(d)
    BY GrantedCall
  <2>7. calls' \in [Threads -> CallRecords] /\ \A q \in Threads : Evidence(calls[q])'
    BY <1>3, <2>6, CallsGo
  <2> QED BY <1>1, <1>3, <2>4, <2>5, <2>7, AccountsStay
<1> QED BY <1>0, <1>2, <1>3 DEF login

\* What a call has learned stays true, or is known to be out of date, when an
\* account changes.
LEMMA EvidenceStays ==
    ASSUME AccInv, NEW q, NEW u, Changes(q, u), NEW c \in CallRecords, Evidence(c)
    PROVE  Evidence(c)'
<1>1. /\ q \in People /\ users'[q].rev = users[q].rev + 1
      /\ \A p \in People \ {q} : users'[p] = users[p]
  BY ChangedUsers DEF AccInv, Changes
<1>2. c.seen \in Nat /\ \A p \in People : users[p].rev \in Nat
  BY DEF AccInv, AccTypes, UserRecords, CallRecords
<1>3. ASSUME c.op \in {"login", "change"}
      PROVE  /\ c.seen <= users'[c.target].rev
             /\ c.outdated => 0 < c.seen /\ c.seen < users'[c.target].rev
             /\ c.at \in {"asked", "reserved"} => c.seen = 0
  <2>1. c.target \in People /\ c.seen <= users[c.target].rev
        /\ (c.outdated => 0 < c.seen /\ c.seen < users[c.target].rev)
        /\ (c.at \in {"asked", "reserved"} => c.seen = 0)
    BY <1>3 DEF Evidence, Ops
  <2> QED BY <1>1, <1>2, <2>1
<1> QED BY <1>3 DEF Evidence

\* After a change: who is an administrator, and what must be shown of rows and calls.
LEMMA AccountChanges ==
    ASSUME AccInv, NEW q, NEW u, Changes(q, u),
           \A k \in Tokens : \/ sessions'[k] = NoSession
                             \/ sessions'[k] = sessions[k] /\ sessions[k].user # q
                             \/ /\ sessions'[k].user = q /\ u.active
                                /\ sessions'[k].rev = u.rev /\ ~sessions'[k].outdated
           , sessions' \in [Tokens -> SessionRecords],
           calls' \in [Threads -> CallRecords], \A t \in Threads : Evidence(calls[t])',
           bootstrap' \in [id : Nat, valid : BOOLEAN], founder' \in People \cup {"nobody"},
           AdminRemains'
    PROVE  AccInv'
<1>1. /\ users' \in [People -> UserRecords] /\ q \in People
      /\ users'[q] = u /\ \A p \in People \ {q} : users'[p] = users[p]
  BY ChangedUsers DEF AccInv, Changes
<1>2. AccountRows'
  <2>1. u.rev # 0 /\ u # NoUser
    <3>1. users[q].rev \in Nat
      BY <1>1 DEF AccInv, AccTypes, UserRecords
    <3>2. u.rev # 0
      BY <3>1 DEF Changes
    <3> QED BY <3>2 DEF NoUser
  <2> QED BY <1>1, <2>1 DEF AccInv, AccountRows
<1>3. ASSUME NEW k \in Tokens PROVE SessionRow(sessions[k])'
  <2>1. CASE sessions'[k] = NoSession
    BY <2>1 DEF SessionRow, NoSession
  <2>2. CASE sessions'[k] = sessions[k] /\ sessions[k].user # q
    <3>1. sessions[k].user \in People \cup {"nobody"} /\ SessionRow(sessions[k])
      BY DEF AccInv, AccTypes, SessionRecords
    <3> QED BY <1>1, <2>2, <3>1 DEF SessionRow
  <2>3. CASE sessions'[k].user = q /\ u.active /\ sessions'[k].rev = u.rev /\ ~sessions'[k].outdated
    BY <1>1, <2>3 DEF SessionRow
  <2> QED BY <2>1, <2>2, <2>3
<1> QED BY <1>1, <1>2, <1>3 DEF AccInv, AccTypes

\* A change that leaves an active admin behind keeps the installation administered.
LEMMA AdminStays ==
    ASSUME AccInv, NEW q, NEW u, Changes(q, u), UNCHANGED <<bootstrap, founder>>, initialized,
           \/ q \in ActiveAdmins => u.active /\ u.role = "admin"
           \/ \E a \in ActiveAdmins : a # q
    PROVE  AdminRemains'
<1>1. /\ users' \in [People -> UserRecords] /\ q \in People
      /\ users'[q] = u /\ \A p \in People \ {q} : users'[p] = users[p]
  BY ChangedUsers DEF AccInv, Changes
<1>2. ActiveAdmins # {} /\ ~bootstrap.valid /\ founder # "nobody"
  BY DEF AccInv, AdminRemains
<1>3. ActiveAdmins' # {}
  BY <1>1, <1>2 DEF ActiveAdmins
<1> QED BY <1>2, <1>3 DEF AdminRemains

\* The rows of q are deleted, and the calls that read it outdated.
LEMMA Revoked ==
    ASSUME AccInv, NEW q, NEW u, Changes(q, u), UNCHANGED <<bootstrap, founder>>,
           AdminRemains', sessions' = Without(sessions, SessionsOf(q)),
           NEW cs \in [Threads -> CallRecords], \A t \in Threads : cs[t] \in {calls[t], NoCall},
           calls' = Outdating(cs, q)
    PROVE  AccInv'
<1>1. calls' \in [Threads -> CallRecords] /\ \A t \in Threads : Evidence(calls[t])'
  <2>1. \A t \in Threads : calls'[t] \in CallRecords
    BY OutdatedCalls
  <2>2. \A t \in Threads : Evidence(Outdating(cs, q)[t])'
    BY OutdatedCalls
  <2>3. ASSUME NEW t \in Threads PROVE Evidence(calls[t])'
    <3>1. PICK c : c = Outdating(cs, q)[t] /\ c = calls'[t]
      OBVIOUS
    <3>2. Evidence(Outdating(cs, q)[t])'
      BY <2>2
    <3> QED BY <3>1, <3>2 DEF Evidence
  <2>4. calls' = [s \in Threads |-> calls'[s]]
    BY DEF Outdating
  <2> QED BY <2>1, <2>3, <2>4
<1>2. /\ sessions' \in [Tokens -> SessionRecords]
      /\ \A k \in Tokens : \/ sessions'[k] = NoSession
                           \/ sessions'[k] = sessions[k] /\ sessions[k].user # q
  BY WithoutRows DEF AccInv, AccTypes, SessionsOf
<1> QED BY <1>1, <1>2, AccountChanges DEF AccInv, AccTypes

\* The first account, and the tokens that allow it.
LEMMA SetupKeeps ==
    ASSUME AccInv, issue_setup_token \/ \E t \in Threads : setup(t)
    PROVE  AccInv'
<1>0. /\ users \in [People -> UserRecords] /\ calls \in [Threads -> CallRecords]
      /\ sessions \in [Tokens -> SessionRecords] /\ bootstrap \in [id : Nat, valid : BOOLEAN]
      /\ founder \in People \cup {"nobody"} /\ "nobody" \notin People
      /\ \A t \in Threads : Evidence(calls[t])
  BY AccountsAssumption DEF AccInv, AccTypes
<1>1. CASE issue_setup_token
  <2>1. UNCHANGED <<users, founder, sessions, calls>> /\ ~initialized
    BY <1>1 DEF issue_setup_token
  <2>2. bootstrap' \in [id : Nat, valid : BOOLEAN]
    <3>1. bootstrap.id + 1 \in Nat
      BY <1>0
    <3> QED BY <1>1, <3>1 DEF issue_setup_token
  <2>3. AdminRemains'
    BY <2>1 DEF AdminRemains, initialized, Exists
  <2>4. AccTypes' /\ AccountRows'
    BY <1>0, <2>1, <2>2 DEF AccInv, AccTypes, AccountRows
  <2>5. (\A k \in Tokens : SessionRow(sessions[k])') /\ (\A t \in Threads : Evidence(calls[t])')
    BY <2>1 DEF AccInv, SessionRow, Evidence
  <2> QED BY <2>3, <2>4, <2>5 DEF AccInv
<1>2. ASSUME NEW t \in Threads, setup(t) PROVE AccInv'
  <2>0. PICK c \in CallRecords, p \in People : c = calls[t] /\ p = c.target /\ Evidence(c)
    <3>1. calls[t].op = "setup" /\ Evidence(calls[t])
      BY <1>0, <1>2 DEF setup
    <3> QED BY <1>0, <3>1 DEF Evidence, Ops
  <2>1. CASE Refuse(t)
    BY <2>1, RefuseKeeps
  <2>2. CASE Consumable(c) /\ Edit /\ NewSession(sessions, p, 1, FALSE) /\ Goes(t, Granted(c))
    <3>1. PICK u \in UserRecords : u = [role |-> "admin", active |-> TRUE, must |-> FALSE, rev |-> 1]
      BY DEF UserRecords, Roles
    <3>2. users[p].rev = 0 /\ users[p] = NoUser /\ ~initialized
      BY <2>2 DEF Consumable, initialized, Exists, AccInv, AccountRows
    <3>3. /\ users' = [users EXCEPT ![p] = u]
          /\ bootstrap' = [bootstrap EXCEPT !.valid = FALSE]
          /\ founder' = IF founder = "nobody" THEN p ELSE founder
      BY <1>2, <2>0, <2>2, <3>1 DEF setup
    <3>4. Changes(p, u)
      BY <3>1, <3>2, <3>3 DEF Changes
    <3>5. /\ sessions' \in [Tokens -> SessionRecords]
          /\ \A k \in Tokens : \/ sessions'[k] \in {NoSession, sessions[k]}
                               \/ /\ sessions'[k].user = p /\ sessions'[k].rev = 1
                                  /\ sessions'[k].outdated = FALSE
      BY <1>0, <2>2, NewSessionRows
    <3>6. \A k \in Tokens : sessions[k].user # p
      BY <3>2, <1>0 DEF AccInv, SessionRow, NoUser
    <3>7. AdminRemains'
      <4>1. p \in ActiveAdmins'
        BY <1>0, <3>1, <3>3 DEF ActiveAdmins
      <4>2. ~bootstrap'.valid /\ founder' # "nobody"
        BY <1>0, <3>3
      <4> QED BY <4>1, <4>2 DEF AdminRemains
    <3>8. bootstrap' \in [id : Nat, valid : BOOLEAN] /\ founder' \in People \cup {"nobody"}
      BY <1>0, <3>3
    <3>9. calls' \in [Threads -> CallRecords] /\ \A q \in Threads : Evidence(calls[q])'
      <4>1. PICK d \in CallRecords : d = Granted(c) /\ Evidence(d)
        BY GrantedCall
      <4>2. calls' = [calls EXCEPT ![t] = d]
        BY <2>2, <4>1 DEF Goes
      <4>3. ASSUME NEW q \in Threads PROVE Evidence(calls[q])'
        <5>1. PICK e \in CallRecords : e = calls'[q] /\ Evidence(e)
          BY <1>0, <4>1, <4>2
        <5>2. Evidence(e)'
          BY <3>4, <5>1, EvidenceStays
        <5> QED BY <5>1, <5>2 DEF Evidence
      <4> QED BY <1>0, <4>2, <4>3
    <3>10. u.active /\ u.rev = 1
      BY <3>1
    <3> QED BY <3>4, <3>5, <3>6, <3>7, <3>8, <3>9, <3>10, AccountChanges
  <2> QED BY <1>2, <2>0, <2>1, <2>2 DEF setup
<1> QED BY <1>1, <1>2

\* create_user commits only under the revision it had read.
LEMMA CreateKeeps ==
    ASSUME AccInv, NEW t \in Threads, NEW role \in Roles, NEW granted, create_user(t, role, granted)
    PROVE  AccInv'
<1>0. PICK c \in CallRecords, p \in People : c = calls[t] /\ p = c.target /\ Evidence(c)
  <2>1. calls[t] \in CallRecords /\ Evidence(calls[t]) /\ calls[t].op = "create"
    BY DEF AccInv, AccTypes, create_user
  <2> QED BY <2>1 DEF Evidence, Ops
<1>1. CASE Refuse(t)
  BY <1>1, RefuseKeeps
<1>2. CASE ~Refuse(t)
  <2>1. PICK u \in UserRecords : u = [role |-> role, active |-> TRUE, must |-> TRUE, rev |-> 1]
    BY DEF UserRecords
  <2>2. /\ Current(c.actor, TRUE, FALSE) /\ ~Exists(p) /\ users' = [users EXCEPT ![p] = u]
        /\ Ends(t) /\ UNCHANGED <<sessions, bootstrap, founder>>
    BY <1>0, <1>2, <2>1 DEF create_user
  <2>3. users[p] = NoUser /\ users[p].rev = 0 /\ initialized
    BY <2>2 DEF Exists, Current, initialized, AccInv, AccountRows
  <2>4. Changes(p, u)
    BY <2>1, <2>2, <2>3 DEF Changes
  <2>5. AdminRemains'
    <3>1. p \notin ActiveAdmins
      BY <2>3 DEF ActiveAdmins, NoUser
    <3> QED BY <2>2, <2>3, <2>4, <3>1, AdminStays
  <2>6. \A k \in Tokens : sessions'[k] = sessions[k] /\ sessions[k].user # p
    <3>1. p # "nobody"
      BY AccountsAssumption
    <3> QED BY <2>2, <2>3, <3>1 DEF AccInv, SessionRow, NoUser
  <2>7. calls' \in [Threads -> CallRecords] /\ \A q \in Threads : Evidence(calls[q])'
    <3>1. NoCall \in CallRecords /\ Evidence(NoCall)
      BY DEF CallRecords, NoCall, Evidence, Ops
    <3>2. calls' = [calls EXCEPT ![t] = NoCall] /\ calls \in [Threads -> CallRecords]
      BY <2>2 DEF Ends, Goes, AccInv, AccTypes
    <3>3. ASSUME NEW q \in Threads PROVE Evidence(calls[q])'
      <4>1. PICK e \in CallRecords : e = calls'[q] /\ Evidence(e)
        BY <3>1, <3>2 DEF AccInv
      <4>2. Evidence(e)'
        BY <2>4, <4>1, EvidenceStays
      <4> QED BY <4>1, <4>2 DEF Evidence
    <3> QED BY <3>1, <3>2, <3>3
  <2>8. /\ sessions' \in [Tokens -> SessionRecords] /\ bootstrap' \in [id : Nat, valid : BOOLEAN]
        /\ founder' \in People \cup {"nobody"}
    BY <2>2 DEF AccInv, AccTypes
  <2> QED BY <2>4, <2>5, <2>6, <2>7, <2>8, AccountChanges
<1> QED BY <1>1, <1>2

\* With its only administrator changed, LosesLastAdmin refuses.
LEMMA OnlyAdmin ==
    ASSUME NEW p, p \in ActiveAdmins, \A a \in ActiveAdmins : a = p
    PROVE  Cardinality(ActiveAdmins) <= 1
<1>1. ActiveAdmins = {p}
  OBVIOUS
<1>2. Cardinality({p}) = 1
  BY FS_Singleton
<1> QED BY <1>1, <1>2

\* update_user ends the sessions of whom it changes and spares the last admin.
LEMMA UpdateKeeps ==
    ASSUME AccInv, NEW t \in Threads, NEW role \in Roles, NEW active \in BOOLEAN, NEW granted,
           update_user(t, role, active, granted)
    PROVE  AccInv'
<1>0. PICK c \in CallRecords, p \in People : c = calls[t] /\ p = c.target /\ Evidence(c)
  <2>1. calls[t] \in CallRecords /\ Evidence(calls[t]) /\ calls[t].op = "update"
    BY DEF AccInv, AccTypes, update_user
  <2> QED BY <2>1 DEF Evidence, Ops
<1>1. CASE Refuse(t)
  BY <1>1, RefuseKeeps
<1>2. CASE ~Refuse(t)
  <2>0. users \in [People -> UserRecords] /\ calls \in [Threads -> CallRecords]
        /\ NoCall \in CallRecords
    BY DEF AccInv, AccTypes, NoCall, CallRecords
  <2>1. PICK o \in UserRecords : o = users[p]
    BY <2>0
  <2>2. CASE role = o.role /\ active = o.active
    <3>1. users' = [users EXCEPT ![p] = [o EXCEPT !.role = role, !.active = active, !.rev = @]]
      BY <1>0, <1>2, <2>1, <2>2 DEF update_user
    <3>2. [o EXCEPT !.role = role, !.active = active, !.rev = @] = o
      BY <2>2 DEF UserRecords
    <3>3. users' = users
      BY <2>0, <2>1, <3>1, <3>2
    <3>4. /\ UNCHANGED <<sessions, bootstrap, founder>> /\ calls' = [calls EXCEPT ![t] = NoCall]
      BY <1>0, <1>2, <2>1, <2>2 DEF update_user
    <3>5. Ends(t)
      BY <3>4 DEF Ends, Goes
    <3> QED BY <3>3, <3>4, <3>5, OnlyACallGoes
  <2>3. CASE ~(role = o.role /\ active = o.active)
    <3>0. PICK rev \in Nat : rev = o.rev + 1
      BY DEF UserRecords
    <3>1. PICK u \in UserRecords : u = [o EXCEPT !.role = role, !.active = active, !.rev = rev]
      BY DEF UserRecords
    <3>2. u.role = role /\ u.active = active /\ u.rev = o.rev + 1
      BY <3>0, <3>1 DEF UserRecords
    <3>3. /\ Exists(p) /\ ~LosesLastAdmin(p, role, active)
          /\ users' = [users EXCEPT ![p] = u]
          /\ sessions' = Without(sessions, SessionsOf(p))
          /\ calls' = Outdating([calls EXCEPT ![t] = NoCall], p)
          /\ UNCHANGED <<bootstrap, founder>>
      BY <1>0, <1>2, <2>1, <2>3, <3>0, <3>1 DEF update_user
    <3>4. Changes(p, u) /\ initialized
      BY <2>1, <3>2, <3>3 DEF Changes, initialized
    <3>5. AdminRemains'
      <4>1. \/ p \in ActiveAdmins => u.active /\ u.role = "admin"
            \/ \E a \in ActiveAdmins : a # p
        BY <3>2, <3>3, OnlyAdmin DEF LosesLastAdmin
      <4> QED BY <3>3, <3>4, <4>1, AdminStays
    <3>6. PICK cs \in [Threads -> CallRecords] : cs = [calls EXCEPT ![t] = NoCall]
      BY <2>0
    <3>7. \A s \in Threads : cs[s] \in {calls[s], NoCall}
      BY <2>0, <3>6
    <3> QED BY <3>3, <3>4, <3>5, <3>6, <3>7, Revoked
  <2> QED BY <2>2, <2>3
<1> QED BY <1>1, <1>2

\* The account after _replace_password.
LEMMA Replaced ==
    ASSUME AccInv, NEW p \in People, Exists(p), NEW must \in BOOLEAN, ReplacePassword(p, must)
    PROVE  \E u \in UserRecords :
              /\ Changes(p, u) /\ u.active = users[p].active /\ u.role = users[p].role
              /\ UNCHANGED <<bootstrap, founder>> => AdminRemains'
<1>0. users \in [People -> UserRecords]
  BY DEF AccInv, AccTypes
<1>1. PICK o \in UserRecords : o = users[p]
  BY <1>0
<1>2. PICK rev \in Nat, u \in UserRecords :
          rev = o.rev + 1 /\ u = [o EXCEPT !.rev = rev, !.must = must]
  <2>1. PICK rev \in Nat : rev = o.rev + 1
    BY DEF UserRecords
  <2> QED BY <2>1 DEF UserRecords
<1>3. u.active = o.active /\ u.role = o.role /\ u.rev = o.rev + 1
  BY <1>2 DEF UserRecords
<1>4. users' = [users EXCEPT ![p] = u]
  BY <1>0, <1>1, <1>2 DEF ReplacePassword
<1>5. Changes(p, u)
  BY <1>1, <1>3, <1>4 DEF Changes
<1>6. initialized
  BY DEF initialized
<1>7. UNCHANGED <<bootstrap, founder>> => AdminRemains'
  <2>1. p \in ActiveAdmins => u.active /\ u.role = "admin"
    BY <1>1, <1>3 DEF ActiveAdmins
  <2> QED BY <1>5, <1>6, <2>1, AdminStays
<1> QED BY <1>1, <1>3, <1>5, <1>7

\* A new password, from a page or the command line, ends the sessions of its
\* account.
LEMMA ResetKeeps ==
    ASSUME AccInv,
           \/ \E t \in Threads : reset_password(t)
           \/ \E p \in People : reset_password_from_cli(p)
    PROVE  AccInv'
<1>0. calls \in [Threads -> CallRecords] /\ NoCall \in CallRecords
  BY DEF AccInv, AccTypes, NoCall, CallRecords
<1>1. ASSUME NEW t \in Threads, reset_password(t) PROVE AccInv'
  <2>0. PICK c \in CallRecords, p \in People : c = calls[t] /\ p = c.target
    <3>1. calls[t] \in CallRecords /\ Evidence(calls[t]) /\ calls[t].op = "reset"
      BY <1>1 DEF AccInv, AccTypes, reset_password
    <3> QED BY <3>1 DEF Evidence, Ops
  <2>1. CASE Refuse(t)
    BY <2>1, RefuseKeeps
  <2>2. CASE ~Refuse(t)
    <3>1. /\ Exists(p) /\ ReplacePassword(p, TRUE)
          /\ sessions' = Without(sessions, SessionsOf(p))
          /\ calls' = Outdating([calls EXCEPT ![t] = NoCall], p)
          /\ UNCHANGED <<bootstrap, founder>>
      BY <1>1, <2>0, <2>2 DEF reset_password
    <3>2. PICK u \in UserRecords : Changes(p, u) /\ AdminRemains'
      BY <3>1, Replaced
    <3>3. PICK cs \in [Threads -> CallRecords] : cs = [calls EXCEPT ![t] = NoCall]
      BY <1>0
    <3>4. \A s \in Threads : cs[s] \in {calls[s], NoCall}
      BY <1>0, <3>3
    <3> QED BY <3>1, <3>2, <3>3, <3>4, Revoked
  <2> QED BY <2>1, <2>2
<1>2. ASSUME NEW p \in People, reset_password_from_cli(p) PROVE AccInv'
  <2>1. /\ Exists(p) /\ ReplacePassword(p, FALSE)
        /\ sessions' = Without(sessions, SessionsOf(p))
        /\ calls' = Outdating(calls, p) /\ UNCHANGED <<bootstrap, founder>>
    BY <1>2 DEF reset_password_from_cli
  <2>2. PICK u \in UserRecords : Changes(p, u) /\ AdminRemains'
    BY <2>1, Replaced
  <2>3. PICK cs \in [Threads -> CallRecords] : cs = calls
    BY <1>0
  <2> QED BY <2>1, <2>2, <2>3, Revoked
<1> QED BY <1>1, <1>2

\* The owner's change: the new session is at the new revision.
LEMMA ChangeKeeps ==
    ASSUME AccInv, NEW t \in Threads, change_password(t)
    PROVE  AccInv'
<1>0. calls \in [Threads -> CallRecords] /\ NoCall \in CallRecords
      /\ sessions \in [Tokens -> SessionRecords] /\ users \in [People -> UserRecords]
  BY DEF AccInv, AccTypes, NoCall, CallRecords
<1>1. PICK c \in CallRecords, p \in People : /\ c = calls[t] /\ p = c.actor /\ p = c.target
                                             /\ Evidence(c) /\ c.op = "change"
  <2>1. calls[t] \in CallRecords /\ Evidence(calls[t]) /\ calls[t].op = "change"
    BY DEF AccInv, AccTypes, change_password
  <2> QED BY <2>1 DEF Evidence, Ops
<1>2. CASE Refuse(t)
  BY <1>2, RefuseKeeps
<1>3. CASE ~Refuse(t)
  <2>1. PICK rev \in Nat, outdated \in BOOLEAN : rev = users[p].rev /\ outdated = c.outdated
    BY <1>0 DEF UserRecords, CallRecords
  <2>2. /\ Exists(p) /\ users[p].active /\ rev = c.seen /\ ReplacePassword(p, FALSE)
        /\ NewSession(Without(sessions, SessionsOf(p)), p, rev + 1, outdated)
        /\ calls' = Outdating([calls EXCEPT ![t] = NoCall], p)
        /\ UNCHANGED <<bootstrap, founder>>
    BY <1>1, <1>3, <2>1 DEF change_password, Current
  <2>3. ~outdated
    BY <1>1, <2>1, <2>2 DEF Evidence
  <2>4. PICK u \in UserRecords : Changes(p, u) /\ AdminRemains' /\ u.active
    BY <2>2, Replaced
  <2>5. u.rev = rev + 1
    BY <2>1, <2>4 DEF Changes
  <2>6. PICK ss \in [Tokens -> SessionRecords] :
            /\ ss = Without(sessions, SessionsOf(p))
            /\ \A k \in Tokens : ss[k] = NoSession \/ (ss[k] = sessions[k] /\ sessions[k].user # p)
    BY <1>0, WithoutRows DEF SessionsOf
  <2>7. /\ sessions' \in [Tokens -> SessionRecords]
        /\ \A k \in Tokens : \/ sessions'[k] \in {NoSession, ss[k]}
                             \/ /\ sessions'[k].user = p /\ sessions'[k].rev = rev + 1
                                /\ sessions'[k].outdated = outdated
    BY <2>2, <2>6, NewSessionRows
  <2>8. PICK cs \in [Threads -> CallRecords] : cs = [calls EXCEPT ![t] = NoCall]
    BY <1>0
  <2>9. calls' \in [Threads -> CallRecords] /\ \A s \in Threads : Evidence(calls[s])'
    <3>1. \A s \in Threads : cs[s] \in {calls[s], NoCall}
      BY <1>0, <2>8
    <3>2. calls' = Outdating(cs, p)
      BY <2>2, <2>8
    <3>3. calls' = [s \in Threads |-> calls'[s]] /\ \A s \in Threads : calls'[s] \in CallRecords
      BY <2>4, <3>1, <3>2, OutdatedCalls DEF Outdating
    <3>4. ASSUME NEW s \in Threads PROVE Evidence(calls[s])'
      <4>1. PICK d : d = Outdating(cs, p)[s] /\ d = calls'[s]
        BY <3>2
      <4>2. Evidence(Outdating(cs, p)[s])'
        BY <2>4, <3>1, OutdatedCalls
      <4> QED BY <4>1, <4>2 DEF Evidence
    <3> QED BY <3>3, <3>4
  <2>10. ASSUME NEW k \in Tokens
         PROVE  \/ sessions'[k] = NoSession
                \/ sessions'[k] = sessions[k] /\ sessions[k].user # p
                \/ /\ sessions'[k].user = p /\ u.active
                   /\ sessions'[k].rev = u.rev /\ ~sessions'[k].outdated
    <3>1. CASE sessions'[k] = NoSession \/ sessions'[k] = ss[k]
      BY <2>6, <3>1
    <3>2. ASSUME sessions'[k].user = p, sessions'[k].rev = rev + 1, sessions'[k].outdated = outdated
          PROVE  /\ sessions'[k].user = p /\ u.active
                 /\ sessions'[k].rev = u.rev /\ ~sessions'[k].outdated
      BY <2>3, <2>4, <2>5, <3>2
    <3> QED BY <2>7, <3>1, <3>2
  <2>11. bootstrap' \in [id : Nat, valid : BOOLEAN] /\ founder' \in People \cup {"nobody"}
    BY <2>2 DEF AccInv, AccTypes
  <2> QED BY <2>4, <2>7, <2>9, <2>10, <2>11, AccountChanges
<1> QED BY <1>2, <1>3

\* Every step of pages, commands and time keeps AccInv.
LEMMA AccInvStep == AccInv /\ [AccNext]_accVars => AccInv'
<1> SUFFICES ASSUME AccInv, [AccNext]_accVars PROVE AccInv'
  OBVIOUS
<1>1. CASE UNCHANGED accVars
  BY <1>1 DEF accVars, AccInv, AccTypes, AccountRows, AdminRemains, initialized, Exists,
     ActiveAdmins, SessionRow, Evidence
<1>2. CASE AccNext
  BY <1>2, SetupKeeps, SessionsKeep, ResetKeeps, CallKeeps, LoginKeeps, CreateKeeps, UpdateKeeps,
     ChangeKeeps DEF AccNext
<1> QED BY <1>1, <1>2

\* What resolve_session accepts was granted on the account as it is: login and
\* change_password compare the revision they read before the derivation in the
\* transaction that grants, and what changes the account moves it and deletes the rows.
THEOREM SessionsAreCurrent == AccSpec => []SessionIsCurrent
<1>1. AccInv => SessionIsCurrent
  BY DEF AccInv, SessionIsCurrent, SessionRow
<1> QED
  BY <1>1, AccInvInit, AccInvStep, PTL DEF AccSpec

\* update_user counts the active administrators in its transaction, setup consumes the
\* token in the one that makes the first, and issue_setup_token gives none out later:
\* an installation that was set up keeps an administrator and is never set up twice.
THEOREM AdminsRemain == AccSpec => []AdminRemains
<1>1. AccInv => AdminRemains
  BY DEF AccInv
<1> QED
  BY <1>1, AccInvInit, AccInvStep, PTL DEF AccSpec

---------------------------------------------------------------------------
(* Delivery settings.  Three arguments meet: the lock (who works on the    *)
(* file has read it as it is), the catalog (an item's owner and key are    *)
(* fixed once it has an entry), and the letter (what it refers to is in    *)
(* use, so it is not deleted under it).                                    *)

EntryRecords == [at : {"none", "live", "deleted"}, owner : Creators,
                 key : CreationKeys \cup {Nothing}]
Mappings == [Entities -> Lists \cup {Absent}]
ChangeRecords == [drop : Lists, add : Lists]
PageRecords == [at : {"idle", "lock", "allocate", "write"}, kind : {"edit", "create", "whole"},
                item : Entities \cup {Nothing}, by : Creators,
                key : CreationKeys \cup {Nothing}, value : Lists, change : ChangeRecords,
                seen : Mappings]
TargetRecords == [version : Nat, profile : Profiles, groups : SUBSET Groups, gone : BOOLEAN,
                  live : BOOLEAN]
Held == {"prepared", "refused", "published", "queued", "claimed", "data", "uncertain"}
Composing == {"running", "selected", "approved"}
LetterRecords == [at : {"none", "ended", "accepted", "failed"} \cup Composing \cup Held,
                  group : Groups \cup {Nothing}, profile : Profiles \cup {Nothing},
                  version : Nat, checked : BOOLEAN, byhand : BOOLEAN]

SetTypes ==
    /\ entry \in [Entities -> EntryRecords] /\ mapping \in Mappings
    /\ page \in [Pages -> PageRecords]
    /\ target \in TargetRecords /\ letter \in LetterRecords
    /\ replies \subseteq [by : Creators, key : CreationKeys, item : Entities]

\* An account's key names one item of its own.
EntriesStand ==
    /\ \A i \in Entities : entry[i].at = "none" => entry[i] = NoEntry
    /\ \A i, j \in Entities :
           /\ entry[i].key # Nothing
           /\ entry[i].owner = entry[j].owner /\ entry[i].key = entry[j].key
           => i = j

Made(item, by, key) ==
    /\ item \in Entities /\ key \in CreationKeys
    /\ entry[item].at # "none" /\ entry[item].owner = by /\ entry[item].key = key

\* The holder of the lock has read the file as it is.
Stands(p, r) ==
    /\ r.at \in {"allocate", "write"} =>
           lockedBy = p /\ (r.kind # "whole" => r.seen = mapping)
    /\ r.at # "idle" /\ r.kind = "create" => r.key \in CreationKeys
    /\ r.at = "write" => r.item \in Entities
    /\ r.at = "write" /\ r.kind = "create" => Made(r.item, r.by, r.key)
    /\ r.at # "idle" /\ r.kind # "create" => r.item \in Entities

\* A mail that is composed holds its task; one that is held back, queued or sent holds
\* its sender account, except after an e-mail retry; a claim found the group in order.
LetterStands ==
    /\ letter.at \in Composing => ~target.gone /\ letter.profile = target.profile
    /\ letter.at \notin {"none", "ended"} => letter.profile \in Profiles /\ Owned(letter.profile)
    /\ letter.at \in Composing => ~Deleted(letter.profile)
    /\ letter.at \in Held /\ Deleted(letter.profile) => letter.byhand
    /\ letter.at \notin {"none", "ended", "running"} => letter.group \in Groups
    /\ letter.at \in {"claimed", "data"} => Owned(letter.group) /\ ~Deleted(letter.group)

PagesStand == \A p \in Pages : Stands(p, page[p])
RepliesStand == \A r \in replies : Made(r.item, r.by, r.key)

SetInv == SetTypes /\ EntriesStand /\ PagesStand /\ RepliesStand /\ LetterStands

\* Entries are at first those imported with the mapping, and no page is under way.
LEMMA SetInvInit == SetInit => SetInv
<1> SUFFICES ASSUME SetInit PROVE SetInv
  OBVIOUS
<1>0. NoEntry \in EntryRecords /\ Imported \in EntryRecords /\ Imported.key = Nothing
      /\ Imported.at = "live"
  BY SettingsAssumption DEF NoEntry, Imported, EntryRecords
<1>1. PICK other \in Creators : entry = [i \in Entities |->
          IF i \in Theirs THEN [Imported EXCEPT !.owner = other]
          ELSE IF i \in Mapped THEN Imported ELSE NoEntry]
  BY DEF SetInit
<1>2. PICK theirs \in EntryRecords : /\ theirs = [Imported EXCEPT !.owner = other]
                                      /\ theirs.at = "live" /\ theirs.key = Nothing
  <2>1. PICK made \in EntryRecords : made = [at |-> "live", owner |-> other, key |-> Nothing]
    BY DEF EntryRecords
  <2>2. Imported = [at |-> "live", owner |-> Host, key |-> Nothing]
    BY DEF Imported, NoEntry
  <2>3. made = [Imported EXCEPT !.owner = other]
    BY <2>1, <2>2
  <2> QED BY <2>1, <2>3
<1>3. \A i \in Entities : /\ entry[i] = theirs \/ entry[i] = Imported \/ entry[i] = NoEntry
                          /\ entry[i].key = Nothing
  <2>1. NoEntry.key = Nothing
    BY DEF NoEntry
  <2> QED BY <1>0, <1>1, <1>2, <2>1
<1>4. entry \in [Entities -> EntryRecords]
  <2>1. entry = [i \in Entities |-> entry[i]]
    BY <1>1
  <2> QED BY <1>0, <1>2, <1>3, <2>1
<1>5. EntriesStand
  BY <1>0, <1>2, <1>3 DEF EntriesStand
<1>6. mapping \in Mappings /\ NoPage \in PageRecords
  BY SettingsAssumption DEF SetInit, Mappings, NoPage, PageRecords, ChangeRecords, Lists
<1>7. page \in [Pages -> PageRecords] /\ PagesStand
  <2>1. NoPage.at = "idle"
    BY DEF NoPage
  <2> QED BY <1>6, <2>1 DEF SetInit, PagesStand, Stands
<1>8. target \in TargetRecords
  BY DEF SetInit, TargetRecords
<1>9. letter \in LetterRecords /\ LetterStands
  BY DEF SetInit, NoLetter, LetterRecords, LetterStands, Composing, Held
<1> QED
  BY <1>4, <1>5, <1>6, <1>7, <1>8, <1>9 DEF SetInit, SetInv, SetTypes, RepliesStand

---------------------------------------------------------------------------
(* The catalog.                                                            *)

\* The entries there were are as they were.
Kept == \A i \in Entities : entry[i].at # "none" => entry'[i] = entry[i]
\* They may be deleted or restored, and keep their owner and key.
Evolved ==
    \A i \in Entities : entry[i].at # "none" =>
        entry'[i].at # "none" /\ entry'[i].owner = entry[i].owner /\ entry'[i].key = entry[i].key

\* What does not change has evolved.
LEMMA KeptEvolved == Kept => Evolved
BY DEF Kept, Evolved

\* Importing what the file has touches no entry and gives none a key.
LEMMA ImportKeeps ==
    ASSUME SetInv, NEW file, entry' = Bootstrapped(file)
    PROVE  entry' \in [Entities -> EntryRecords] /\ EntriesStand' /\ Kept
<1>0. entry \in [Entities -> EntryRecords] /\ EntriesStand
  BY DEF SetInv, SetTypes
<1>1. Imported \in EntryRecords /\ Imported.key = Nothing /\ Imported.at = "live"
  BY SettingsAssumption DEF NoEntry, Imported, EntryRecords
<1>2. \A i \in Entities : entry'[i] = entry[i] \/ (entry[i].at = "none" /\ entry'[i] = Imported)
  BY DEF Bootstrapped
<1>3. entry' \in [Entities -> EntryRecords]
  <2>1. entry' = [i \in Entities |-> entry'[i]]
    BY DEF Bootstrapped
  <2> QED BY <1>0, <1>1, <1>2, <2>1
<1>4. \A i \in Entities : entry'[i].key # Nothing => entry'[i] = entry[i]
  BY <1>1, <1>2
<1>5. ASSUME NEW i \in Entities, NEW j \in Entities, entry'[i].key # Nothing,
             entry'[i].owner = entry'[j].owner, entry'[i].key = entry'[j].key
      PROVE  i = j
  BY <1>0, <1>4, <1>5 DEF EntriesStand
<1>6. \A i \in Entities : entry'[i].at = "none" => entry'[i] = NoEntry
  BY <1>0, <1>1, <1>2 DEF EntriesStand
<1>7. Kept
  BY <1>2 DEF Kept
<1>8. NoEntry' = NoEntry
  BY DEF NoEntry
<1> QED BY <1>3, <1>5, <1>6, <1>7, <1>8 DEF EntriesStand

\* An entry once made for a request stays made for it.
LEMMA MadeStays ==
    ASSUME Evolved, NEW item, NEW by, NEW key, Made(item, by, key)
    PROVE  Made(item, by, key)'
BY DEF Evolved, Made

\* What one request does leaves the records of the others in order: while one of them
\* holds the lock, the file and the lock stay.
LEMMA PageMoves ==
    ASSUME SetInv, NEW p \in Pages, NEW r \in PageRecords, page' = [page EXCEPT ![p] = r],
           Stands(p, r)', Evolved,
           \/ UNCHANGED <<lockedBy, mapping>>
           \/ lockedBy \in {p, Nothing}
    PROVE  page' \in [Pages -> PageRecords] /\ PagesStand'
<1>0. page \in [Pages -> PageRecords] /\ \A q \in Pages : Stands(q, page[q])
  BY DEF SetInv, SetTypes, PagesStand
<1>1. ASSUME NEW q \in Pages PROVE Stands(q, page[q])'
  <2>1. CASE q = p
    <3>1. page'[q] = r
      BY <1>0, <2>1
    <3> QED BY <2>1, <3>1 DEF Stands, Made
  <2>2. CASE q # p
    <3>1. PICK s \in PageRecords : s = page[q] /\ s = page'[q] /\ Stands(q, s)
      BY <1>0, <2>2
    <3>2. s.at = "write" /\ s.kind = "create" => Made(s.item, s.by, s.key)'
      BY <3>1, MadeStays DEF Stands
    <3>3. s.at \in {"allocate", "write"} => UNCHANGED <<lockedBy, mapping>>
      BY <2>2, <3>1, SettingsAssumption DEF Stands
    <3> QED BY <3>1, <3>2, <3>3 DEF Stands, Made
  <2> QED BY <2>1, <2>2
<1> QED BY <1>0, <1>1 DEF PagesStand

\* The letter and the answers given stand while entries are only added.
LEMMA LetterStays ==
    ASSUME LetterStands, letter \in LetterRecords, Kept, UNCHANGED <<letter, target>>
    PROVE  LetterStands'
<1>1. \A i \in Entities : /\ Owned(i) => Owned(i)'
                          /\ Deleted(i) => Deleted(i)'
                          /\ Owned(i) /\ ~Deleted(i) => ~Deleted(i)'
                          /\ Owned(i) /\ Deleted(i)' => Deleted(i)
  BY DEF Kept, Owned, Deleted, TaskOwner
<1>2. PICK l \in LetterRecords : l = letter /\ l = letter'
  OBVIOUS
<1>3. /\ l.at \in Composing => ~target.gone /\ l.profile = target.profile
      /\ l.at \notin {"none", "ended"} => l.profile \in Profiles /\ Owned(l.profile)
      /\ l.at \in Composing => ~Deleted(l.profile)
      /\ l.at \in Held /\ Deleted(l.profile) => l.byhand
      /\ l.at \notin {"none", "ended", "running"} => l.group \in Groups
      /\ l.at \in {"claimed", "data"} => Owned(l.group) /\ ~Deleted(l.group)
  BY <1>2 DEF LetterStands
<1>4. /\ l.at \notin {"none", "ended"} => l.profile \in Entities
      /\ l.at \notin {"none", "ended", "running"} => l.group \in Entities
  BY <1>3 DEF Entities
<1>5. /\ l.at \notin {"none", "ended"} => l.profile \in Profiles /\ Owned(l.profile)'
      /\ l.at \in Composing => ~Deleted(l.profile)'
      /\ l.at \in Held /\ Deleted(l.profile)' => l.byhand
  BY <1>1, <1>3, <1>4 DEF Composing, Held
<1>6. l.at \in {"claimed", "data"} => Owned(l.group)' /\ ~Deleted(l.group)'
  BY <1>1, <1>3, <1>4
<1>7. l.at \in Composing => ~target'.gone /\ l.profile = target'.profile
  BY <1>3
<1> QED BY <1>2, <1>3, <1>5, <1>6, <1>7 DEF LetterStands, Owned, Deleted, TaskOwner

\* What a page was told stays true while entries evolve.
LEMMA RepliesStay ==
    ASSUME RepliesStand, Evolved, UNCHANGED replies
    PROVE  RepliesStand'
<1>1. \A r \in replies : Made(r.item, r.by, r.key)'
  BY MadeStays DEF RepliesStand
<1> QED BY <1>1 DEF RepliesStand, Made

\* A request's step, in the four parts that it can disturb.
LEMMA RequestStep ==
    ASSUME SetInv, NEW p \in Pages, NEW r \in PageRecords, page' = [page EXCEPT ![p] = r],
           Stands(p, r)', Kept, entry' \in [Entities -> EntryRecords], EntriesStand',
           \/ UNCHANGED <<lockedBy, mapping>>
           \/ lockedBy \in {p, Nothing},
           mapping' \in Mappings, UNCHANGED <<target, letter, replies>>
    PROVE  SetInv'
<1>1. Evolved
  BY KeptEvolved
<1>2. page' \in [Pages -> PageRecords] /\ PagesStand'
  BY <1>1, PageMoves
<1>3. LetterStands' /\ RepliesStand'
  BY <1>1, LetterStays, RepliesStay DEF SetInv, SetTypes
<1> QED BY <1>2, <1>3 DEF SetInv, SetTypes

\* A step that leaves the entries alone keeps all that is said of them.
LEMMA NothingToImport ==
    ASSUME SetInv, UNCHANGED entry
    PROVE  Kept /\ entry' \in [Entities -> EntryRecords] /\ EntriesStand'
BY DEF SetInv, SetTypes, EntriesStand, NoEntry, Kept

---------------------------------------------------------------------------
(* The requests.                                                           *)

\* Changing a list gives a list, and so does what a form or a page asks for.
LEMMA ChangesAreLists ==
    /\ Values \subseteq Lists
    /\ \A v \in Lists : Filled(v) \in ChangeRecords
    /\ \A a \in Addresses : Listed(a) \in ChangeRecords /\ Struck(a) \in ChangeRecords
    /\ \A c \in ChangeRecords, l \in Lists : Changed(c, l) \in Lists
    /\ \A file \in Mappings, i \in Entities : Old(file, i) \in Lists
BY DEF Values, Lists, Filled, ChangeRecords, Listed, Struck, Changed, Old, Mappings

\* A page begins with nothing locked; the older kinds read before they lock.
LEMMA BeginKeeps ==
    ASSUME SetInv, NEW p \in Pages,
           \/ \E by \in Creators, key \in CreationKeys, v \in Values : BeginCreate(p, by, key, v)
           \/ \E i \in Entities, v \in Values : BeginEdit(p, i, v)
           \/ \E i \in Entities, c \in ChangeRecords : BeginMember(p, i, c) \/ BeginWhole(p, i, c)
    PROVE  SetInv'
<1>0. page \in [Pages -> PageRecords] /\ mapping \in Mappings /\ Values \subseteq Lists
  BY ChangesAreLists DEF SetInv, SetTypes
<1>1. NoPage \in PageRecords /\ NoPage.kind = "edit"
  BY SettingsAssumption DEF NoPage, PageRecords, Mappings, ChangeRecords, Lists
<1>2. ASSUME NEW r \in PageRecords, Begin(p, r), r.at = "lock", Kept,
             r.kind = "create" => r.key \in CreationKeys,
             r.kind # "create" => r.item \in Entities,
             entry' \in [Entities -> EntryRecords], EntriesStand'
      PROVE  SetInv'
  <2>1. /\ page' = [page EXCEPT ![p] = r]
        /\ UNCHANGED <<mapping, lockedBy, target, letter, replies>>
    BY <1>2 DEF Begin
  <2>2. Stands(p, r)'
    BY <1>2 DEF Stands
  <2> QED BY <1>0, <1>2, <2>1, <2>2, RequestStep
<1>3. ASSUME NEW by \in Creators, NEW key \in CreationKeys, NEW v \in Values,
             BeginCreate(p, by, key, v)
      PROVE  SetInv'
  <2>0. PICK c \in ChangeRecords : c = Filled(v)
    BY <1>0, ChangesAreLists
  <2>1. PICK r \in PageRecords : r = [NoPage EXCEPT !.at = "lock", !.kind = "create", !.by = by,
                                        !.key = key, !.value = v, !.change = c]
    BY <1>0, <1>1 DEF PageRecords
  <2>2. r.at = "lock" /\ r.kind = "create" /\ r.key = key
    BY <1>1, <2>1 DEF PageRecords
  <2>3. Begin(p, r) /\ UNCHANGED entry
    BY <1>3, <2>0, <2>1 DEF BeginCreate
  <2> QED BY <1>2, <2>2, <2>3, NothingToImport
<1>4. ASSUME NEW i \in Entities, NEW v \in Values, BeginEdit(p, i, v)
      PROVE  SetInv'
  <2>0. PICK c \in ChangeRecords : c = Filled(v)
    BY <1>0, ChangesAreLists
  <2>1. PICK r \in PageRecords : r = [NoPage EXCEPT !.at = "lock", !.item = i, !.value = v,
                                                    !.change = c]
    BY <1>0, <1>1 DEF PageRecords
  <2>2. r.at = "lock" /\ r.kind = "edit" /\ r.item = i
    BY <1>1, <2>1 DEF PageRecords
  <2>3. Begin(p, r) /\ entry' = Bootstrapped(mapping)
    BY <1>4, <2>0, <2>1 DEF BeginEdit
  <2> QED BY <1>2, <2>2, <2>3, ImportKeeps
<1>5. ASSUME NEW i \in Entities, NEW c \in ChangeRecords, BeginMember(p, i, c)
      PROVE  SetInv'
  <2>0. PICK v \in Lists : v = Changed(c, mapping[i])
    <3>1. mapping[i] = Old(mapping, i)
      BY <1>5 DEF BeginMember, Old
    <3> QED BY <1>0, <3>1, ChangesAreLists
  <2>1. PICK r \in PageRecords : r = [NoPage EXCEPT !.at = "lock", !.item = i, !.value = v,
                                                    !.change = c]
    BY <1>1 DEF PageRecords
  <2>2. r.at = "lock" /\ r.kind = "edit" /\ r.item = i
    BY <1>1, <2>1 DEF PageRecords
  <2>3. Begin(p, r) /\ entry' = Bootstrapped(mapping)
    BY <1>5, <2>0, <2>1 DEF BeginMember
  <2> QED BY <1>2, <2>2, <2>3, ImportKeeps
<1>6. ASSUME NEW i \in Entities, NEW c \in ChangeRecords, BeginWhole(p, i, c)
      PROVE  SetInv'
  <2>0. PICK v \in Lists : v = Changed(c, Old(mapping, i))
    BY <1>0, ChangesAreLists
  <2>1. PICK r \in PageRecords : r = [NoPage EXCEPT !.at = "lock", !.kind = "whole", !.item = i,
                                        !.value = v, !.change = c, !.seen = mapping]
    BY <1>0, <1>1 DEF PageRecords
  <2>2. r.at = "lock" /\ r.kind = "whole" /\ r.item = i
    BY <1>1, <2>1 DEF PageRecords
  <2>3. Begin(p, r) /\ entry' = Bootstrapped(mapping)
    BY <1>6, <2>0, <2>1 DEF BeginWhole
  <2> QED BY <1>2, <2>2, <2>3, ImportKeeps
<1> QED BY <1>3, <1>4, <1>5, <1>6

\* Under the lock a page reads the file as it stands.
LEMMA LockKeeps ==
    ASSUME SetInv, NEW p \in Pages, Lock(p)
    PROVE  SetInv'
<1>1. PICK o \in PageRecords : o = page[p] /\ Stands(p, o)
  BY DEF SetInv, SetTypes, PagesStand
<1>2. PICK at \in {"allocate", "write"}, seen \in Mappings :
          /\ at = IF o.kind = "create" THEN "allocate" ELSE "write"
          /\ seen = IF o.kind = "whole" THEN o.seen ELSE mapping
  BY DEF SetInv, SetTypes, PageRecords
<1>3. PICK r \in PageRecords : r = [o EXCEPT !.at = at, !.seen = seen]
  BY DEF PageRecords
<1>4. /\ r.at = at /\ r.seen = seen /\ r.kind = o.kind /\ r.key = o.key /\ r.item = o.item
      /\ r.by = o.by
  BY <1>3 DEF PageRecords
<1>5. /\ o.at = "lock" /\ lockedBy = Nothing /\ lockedBy' = p
      /\ page' = [page EXCEPT ![p] = r]
      /\ UNCHANGED <<mapping, target, letter, replies>>
  BY <1>1, <1>2, <1>3 DEF Lock
<1>6. Kept /\ entry' \in [Entities -> EntryRecords] /\ EntriesStand'
  <2>1. CASE o.kind = "whole"
    BY <1>1, <2>1, NothingToImport DEF Lock
  <2>2. CASE o.kind # "whole"
    BY <1>1, <2>2, ImportKeeps DEF Lock
  <2> QED BY <2>1, <2>2
<1>7. Stands(p, r)'
  BY <1>1, <1>2, <1>4, <1>5 DEF Stands
<1> QED BY <1>5, <1>6, <1>7, RequestStep DEF SetInv, SetTypes

\* A request that is over, with what it left in the catalog.
LEMMA LeaveKeeps ==
    ASSUME SetInv, NEW p \in Pages, lockedBy \in {p, Nothing}, Leave(p), Kept,
           entry' \in [Entities -> EntryRecords], EntriesStand', mapping' \in Mappings,
           UNCHANGED <<target, letter, replies>>
    PROVE  SetInv'
<1>1. NoPage \in PageRecords /\ NoPage.at = "idle"
  BY SettingsAssumption DEF NoPage, PageRecords, Mappings, ChangeRecords, Lists
<1>2. Stands(p, NoPage)'
  BY <1>1 DEF Stands, NoPage
<1>3. page' = [page EXCEPT ![p] = NoPage]
  BY DEF Leave
<1>4. PICK r \in PageRecords : r = NoPage
  BY <1>1
<1>5. Stands(p, r)'
  BY <1>1, <1>4 DEF Stands
<1> QED BY <1>3, <1>4, <1>5, RequestStep

\* A refused edit leaves with the file as it is.
LEMMA RefuseEditKeeps ==
    ASSUME SetInv, NEW p \in Pages, RefuseEdit(p)
    PROVE  SetInv'
<1>1. lockedBy = Nothing /\ Leave(p) /\ UNCHANGED <<mapping, target, letter, replies>>
  BY DEF RefuseEdit
<1>2. Kept /\ entry' \in [Entities -> EntryRecords] /\ EntriesStand'
  BY ImportKeeps DEF RefuseEdit
<1> QED BY <1>1, <1>2, LeaveKeeps DEF SetInv, SetTypes

\* The idle page is a page.
LEMMA NoPageRecord == NoPage \in PageRecords /\ NoPage.at = "idle"
BY SettingsAssumption DEF NoPage, PageRecords, Mappings, ChangeRecords, Lists

\* A process that dies gives its lock back and changes no entry.
LEMMA DieKeeps ==
    ASSUME SetInv, NEW p \in Pages, Die(p)
    PROVE  SetInv'
<1>1. PICK r \in PageRecords : r = NoPage /\ r.at = "idle"
  BY NoPageRecord
<1>2. Stands(p, r)'
  BY <1>1 DEF Stands
<1>3. /\ page' = [page EXCEPT ![p] = r]
      /\ UNCHANGED <<entry, mapping, target, letter, replies>>
      /\ lockedBy' = IF lockedBy = p THEN Nothing ELSE lockedBy
  BY <1>1 DEF Die
<1>4. UNCHANGED lockedBy \/ lockedBy = p
  BY <1>3
<1> QED BY <1>2, <1>3, <1>4, NothingToImport, RequestStep DEF SetInv, SetTypes

\* An identity is reserved for its creator and key before the entry is written.
LEMMA AllocateKeeps ==
    ASSUME SetInv, NEW p \in Pages, Allocate(p)
    PROVE  SetInv'
<1>0. /\ entry \in [Entities -> EntryRecords] /\ EntriesStand
      /\ UNCHANGED <<mapping, target, letter, replies>>
  BY DEF SetInv, SetTypes, Allocate
<1>1. PICK o \in PageRecords : o = page[p] /\ Stands(p, o) /\ o.at = "allocate"
  BY DEF SetInv, SetTypes, PagesStand, Allocate
<1>2. lockedBy = p
  BY <1>1 DEF Stands
<1>3. PICK same : /\ same = IF o.key = Nothing THEN {} ELSE SameRequest(o.by, o.key)
                  /\ \/ \E i \in same :
                          /\ ~Deleted(i)
                          /\ page' = [page EXCEPT ![p].at = "write", ![p].item = i]
                          /\ UNCHANGED <<entry, lockedBy>>
                     \/ Leave(p) /\ UNCHANGED entry
                     \/ /\ same = {}
                        /\ \E i \in Entities :
                            /\ entry[i].at = "none"
                            /\ entry' = [entry EXCEPT
                                  ![i] = [at |-> "live", owner |-> o.by, key |-> o.key]]
                            /\ page' = [page EXCEPT ![p].at = "write", ![p].item = i]
                        /\ UNCHANGED lockedBy
  BY <1>1 DEF Allocate
<1>4. \A i \in Entities : i \in same <=>
          o.key # Nothing /\ entry[i].owner = o.by /\ entry[i].key = o.key
  BY <1>3 DEF SameRequest
<1>5. same \subseteq Entities
  BY <1>3 DEF SameRequest
<1>6. ASSUME NEW i \in Entities, o.kind = "create" => Made(i, o.by, o.key)', Kept,
             entry' \in [Entities -> EntryRecords], EntriesStand', UNCHANGED lockedBy,
             page' = [page EXCEPT ![p].at = "write", ![p].item = i]
      PROVE  SetInv'
  <2>1. PICK r \in PageRecords : r = [o EXCEPT !.at = "write", !.item = i]
    BY DEF PageRecords
  <2>2. /\ r.at = "write" /\ r.item = i /\ r.kind = o.kind /\ r.key = o.key /\ r.by = o.by
        /\ r.seen = o.seen
    BY <2>1 DEF PageRecords
  <2>3. page' = [page EXCEPT ![p] = r]
    BY <1>1, <1>6, <2>1
  <2>4. Stands(p, r)'
    BY <1>0, <1>1, <1>6, <2>2 DEF Stands, Made
  <2> QED BY <1>0, <1>6, <2>3, <2>4, RequestStep DEF SetInv, SetTypes
<1>7. ASSUME NEW i \in same, page' = [page EXCEPT ![p].at = "write", ![p].item = i],
             UNCHANGED <<entry, lockedBy>>
      PROVE  SetInv'
  <2>1. i \in Entities /\ entry[i].owner = o.by /\ entry[i].key = o.key /\ o.key # Nothing
    BY <1>4, <1>5
  <2>2. entry[i].at # "none"
    BY <1>0, <2>1 DEF EntriesStand, NoEntry
  <2>3. o.kind = "create" => Made(i, o.by, o.key)'
    BY <1>1, <1>7, <2>1, <2>2 DEF Stands, Made
  <2> QED BY <1>6, <1>7, <2>1, <2>3, NothingToImport
<1>8. CASE Leave(p) /\ UNCHANGED entry
  BY <1>0, <1>2, <1>8, NothingToImport, LeaveKeeps DEF SetInv, SetTypes
<1>9. ASSUME same = {}, NEW i \in Entities, entry[i].at = "none", UNCHANGED lockedBy,
             entry' = [entry EXCEPT ![i] = [at |-> "live", owner |-> o.by, key |-> o.key]],
             page' = [page EXCEPT ![p].at = "write", ![p].item = i]
      PROVE  SetInv'
  <2>1. PICK e \in EntryRecords : e = [at |-> "live", owner |-> o.by, key |-> o.key]
    BY DEF EntryRecords, PageRecords
  <2>2. e.at = "live" /\ e.owner = o.by /\ e.key = o.key
    BY <2>1
  <2>3. /\ entry' \in [Entities -> EntryRecords] /\ entry'[i] = e
        /\ \A j \in Entities \ {i} : entry'[j] = entry[j]
    BY <1>0, <1>9, <2>1
  <2>4. Kept
    BY <1>9, <2>3 DEF Kept
  <2>5. ASSUME NEW j \in Entities, NEW k \in Entities, entry'[j].key # Nothing,
               entry'[j].owner = entry'[k].owner, entry'[j].key = entry'[k].key
        PROVE  j = k
    <3>1. CASE j # i /\ k # i
      BY <1>0, <2>3, <2>5, <3>1 DEF EntriesStand
    <3>2. CASE j = i /\ k # i
      BY <1>4, <1>9, <2>2, <2>3, <2>5, <3>2
    <3>3. CASE k = i /\ j # i
      BY <1>4, <1>9, <2>2, <2>3, <2>5, <3>3
    <3> QED BY <3>1, <3>2, <3>3
  <2>6. \A j \in Entities : entry'[j].at = "none" => entry'[j] = NoEntry
    BY <1>0, <2>2, <2>3 DEF EntriesStand
  <2>7. EntriesStand'
    BY <2>5, <2>6 DEF EntriesStand, NoEntry
  <2>8. o.kind = "create" => Made(i, o.by, o.key)'
    BY <1>1, <2>2, <2>3 DEF Stands, Made
  <2> QED BY <1>6, <1>9, <2>3, <2>4, <2>7, <2>8
<1> QED BY <1>3, <1>7, <1>8, <1>9

\* The answer to a creation names the item that its key made.
LEMMA AnswerStands ==
    ASSUME SetInv, NEW p \in Pages, page[p].at = "write", page[p].kind = "create", Evolved,
           replies' \in {replies, replies \cup
               {[by |-> page[p].by, key |-> page[p].key, item |-> page[p].item]}}
    PROVE  replies' \subseteq [by : Creators, key : CreationKeys, item : Entities] /\ RepliesStand'
<1>1. PICK o \in PageRecords : o = page[p] /\ Made(o.item, o.by, o.key)
  BY DEF SetInv, SetTypes, PagesStand, Stands
<1>2. PICK a \in [by : Creators, key : CreationKeys, item : Entities] :
          a = [by |-> o.by, key |-> o.key, item |-> o.item]
  BY <1>1 DEF PageRecords, Made
<1>3. Made(a.item, a.by, a.key)
  BY <1>1, <1>2
<1>4. \A r \in replies \cup {a} : Made(r.item, r.by, r.key)'
  BY <1>3, MadeStays DEF SetInv, RepliesStand
<1>5. replies' \subseteq replies \cup {a}
  BY <1>1, <1>2
<1> QED BY <1>4, <1>5 DEF SetInv, SetTypes, RepliesStand, Made

\* What is written evolves from the file, but for the pages that read it before
\* they locked it.
LEMMA WriteKeeps ==
    ASSUME SetInv, NEW p \in Pages, Write(p) \/ WriteNothing(p)
    PROVE  SetInv'
<1>0. PICK o \in PageRecords : o = page[p] /\ Stands(p, o) /\ o.at = "write"
  BY DEF SetInv, SetTypes, PagesStand, Write, WriteNothing
<1>1. lockedBy = p /\ o.item \in Entities
  BY <1>0 DEF Stands
<1>2. Leave(p) /\ UNCHANGED <<target, letter>>
  BY DEF Write, WriteNothing
<1>3. /\ Kept /\ entry' \in [Entities -> EntryRecords] /\ EntriesStand'
      /\ mapping' \in Mappings
  <2>1. CASE Write(p)
    <3>1. PICK file \in Mappings : /\ file = [o.seen EXCEPT ![o.item] = o.value]
                                /\ mapping' = file /\ entry' = Bootstrapped(file)
      BY <1>0, <1>1, <2>1 DEF Write, PageRecords, Mappings
    <3> QED BY <3>1, ImportKeeps
  <2>2. CASE WriteNothing(p)
    BY <2>2, NothingToImport DEF WriteNothing, SetInv, SetTypes
  <2> QED BY <2>1, <2>2
<1>4. Evolved
  BY <1>3, KeptEvolved
<1>5. replies' \subseteq [by : Creators, key : CreationKeys, item : Entities] /\ RepliesStand'
  <2>1. CASE o.kind = "create"
    BY <1>0, <1>4, <2>1, AnswerStands DEF Write, WriteNothing
  <2>2. CASE o.kind # "create"
    <3>1. UNCHANGED replies
      BY <1>0, <2>2 DEF Write, WriteNothing
    <3> QED BY <1>4, <3>1, RepliesStay DEF SetInv, SetTypes
  <2> QED BY <2>1, <2>2
<1>6. page' \in [Pages -> PageRecords] /\ PagesStand'
  <2>1. PICK r \in PageRecords : r = NoPage /\ r.at = "idle"
    BY NoPageRecord
  <2>2. Stands(p, r)'
    BY <2>1 DEF Stands
  <2>3. page' = [page EXCEPT ![p] = r]
    BY <1>2, <2>1 DEF Leave
  <2> QED BY <1>1, <1>4, <2>2, <2>3, PageMoves
<1>7. LetterStands'
  BY <1>2, <1>3, LetterStays DEF SetInv, SetTypes
<1> QED BY <1>2, <1>3, <1>5, <1>6, <1>7 DEF SetInv, SetTypes

---------------------------------------------------------------------------
(* The catalog and the task.                                               *)

\* Deleting what nothing uses, and restoring.
LEMMA CatalogChanges ==
    ASSUME SetInv, NEW i \in Entities, Delete(i) \/ Restore(i)
    PROVE  SetInv'
<1>0. entry \in [Entities -> EntryRecords]
  BY DEF SetInv, SetTypes
<1>1. PICK at \in {"live", "deleted"} :
          /\ entry' = [entry EXCEPT ![i].at = at]
          /\ entry[i].at \in {"live", "deleted"}
          /\ at = "deleted" => Unused(i)
          /\ UNCHANGED <<mapping, lockedBy, page, target, letter, replies>>
  BY DEF Delete, Restore, Deleted
<1>2. PICK o \in EntryRecords : o = entry[i]
  BY <1>0
<1>3. PICK e \in EntryRecords : e = [o EXCEPT !.at = at]
  BY DEF EntryRecords
<1>4. e.at = at /\ e.owner = o.owner /\ e.key = o.key
  BY <1>3 DEF EntryRecords
<1>5. /\ entry' \in [Entities -> EntryRecords] /\ entry'[i] = e
      /\ \A j \in Entities \ {i} : entry'[j] = entry[j]
  BY <1>0, <1>1, <1>2, <1>3
<1>6. Evolved
  BY <1>1, <1>4, <1>5, <1>2 DEF Evolved
<1>7. EntriesStand'
  <2>1. \A j \in Entities : entry'[j].owner = entry[j].owner /\ entry'[j].key = entry[j].key
    BY <1>2, <1>4, <1>5
  <2>2. \A j \in Entities : entry'[j].at = "none" => entry'[j] = NoEntry
    BY <1>4, <1>5 DEF SetInv, EntriesStand
  <2>3. \A j, k \in Entities : /\ entry'[j].key # Nothing
                               /\ entry'[j].owner = entry'[k].owner /\ entry'[j].key = entry'[k].key
                               => j = k
    BY <2>1 DEF SetInv, EntriesStand
  <2> QED BY <2>2, <2>3 DEF EntriesStand, NoEntry
<1>8. PagesStand'
  <2>1. ASSUME NEW q \in Pages PROVE Stands(q, page[q])'
    <3>1. PICK s : s = page[q] /\ s = page'[q] /\ Stands(q, s)
      BY <1>1 DEF SetInv, PagesStand
    <3>2. s.at = "write" /\ s.kind = "create" => Made(s.item, s.by, s.key)'
      BY <1>6, <3>1, MadeStays DEF Stands
    <3> QED BY <1>1, <3>1, <3>2 DEF Stands, Made
  <2> QED BY <2>1 DEF PagesStand
<1>9. RepliesStand'
  BY <1>1, <1>6, RepliesStay DEF SetInv
<1>10. LetterStands'
  <2>1. PICK l \in LetterRecords : l = letter /\ l = letter'
    BY <1>1 DEF SetInv, SetTypes
  <2>2. \A j \in Entities : /\ Owned(j) => Owned(j)'
                            /\ Deleted(j)' => Deleted(j) \/ (j = i /\ at = "deleted")
    BY <1>4, <1>5, <1>6 DEF Owned, Deleted, TaskOwner, Evolved
  <2>3. /\ at = "deleted" /\ l.at \in Held => i \notin {l.group, l.profile}
        /\ at = "deleted" /\ ~target.gone => i # target.profile
    BY <1>1, <2>1 DEF Unused, TaskUses, LetterUses, PendingLetter, Held
  <2>4. /\ l.at \in Composing => ~target.gone /\ l.profile = target.profile
        /\ l.at \notin {"none", "ended"} => l.profile \in Profiles /\ Owned(l.profile)
        /\ l.at \in Composing => ~Deleted(l.profile)
        /\ l.at \in Held /\ Deleted(l.profile) => l.byhand
        /\ l.at \notin {"none", "ended", "running"} => l.group \in Groups
        /\ l.at \in {"claimed", "data"} => Owned(l.group) /\ ~Deleted(l.group)
    BY <2>1 DEF SetInv, LetterStands
  <2>5. /\ l.at \notin {"none", "ended"} => l.profile \in Entities
        /\ l.at \notin {"none", "ended", "running"} => l.group \in Entities
    BY <2>4 DEF Entities
  <2>6. /\ l.at \notin {"none", "ended"} => Owned(l.profile)'
        /\ l.at \in Composing => ~Deleted(l.profile)'
        /\ l.at \in Held /\ Deleted(l.profile)' => l.byhand
    BY <2>2, <2>3, <2>4, <2>5 DEF Composing, Held
  <2>7. l.at \in {"claimed", "data"} => Owned(l.group)' /\ ~Deleted(l.group)'
    BY <2>2, <2>3, <2>4, <2>5 DEF Held
  <2>8. l.at \in Composing => ~target'.gone /\ l.profile = target'.profile
    BY <1>1, <2>4
  <2> QED BY <2>1, <2>4, <2>6, <2>7, <2>8 DEF LetterStands, Owned, Deleted, TaskOwner
<1> QED BY <1>1, <1>5, <1>7, <1>8, <1>9, <1>10 DEF SetInv, SetTypes

\* The rest of the state, when only the task or the letter changes.
LEMMA OthersStay ==
    ASSUME SetInv, UNCHANGED <<entry, mapping, lockedBy, page, replies>>,
           target' \in TargetRecords, letter' \in LetterRecords, LetterStands'
    PROVE  SetInv'
<1>1. PagesStand' /\ RepliesStand' /\ EntriesStand'
  BY DEF SetInv, PagesStand, Stands, RepliesStand, Made, EntriesStand, NoEntry
<1> QED BY <1>1 DEF SetInv, SetTypes

\* A task is published, and its delivery turned on, with references in use; it may
\* be removed and returned.
LEMMA TaskKeeps ==
    ASSUME SetInv,
           \/ \E s \in Profiles, gs \in {{}} \cup {{g} : g \in Groups} : PublishTask(s, gs)
           \/ SetDelivery \/ RemoveTask \/ ReturnTask
    PROVE  SetInv'
<1>0. PICK o \in TargetRecords : o = target
  BY DEF SetInv, SetTypes
<1>1. UNCHANGED <<entry, mapping, lockedBy, page, letter, replies>>
  BY DEF PublishTask, SetDelivery, RemoveTask, ReturnTask
<1>2. PICK n \in TargetRecords : /\ n = target'
                                 /\ letter.at \in Composing =>
                                        n.gone = o.gone /\ n.profile = o.profile
  <2>1. ASSUME NEW s \in Profiles, NEW gs \in {{}} \cup {{g} : g \in Groups}, PublishTask(s, gs)
        PROVE  target' \in TargetRecords /\ letter.at \notin Composing
    <3>1. PICK version \in Nat : version = o.version + 1
      BY DEF TargetRecords
    <3>2. target' = [o EXCEPT !.version = version, !.profile = s, !.groups = gs]
      BY <1>0, <2>1, <3>1 DEF PublishTask
    <3>3. gs \subseteq Groups
      OBVIOUS
    <3> QED BY <2>1, <3>2, <3>3 DEF TargetRecords, PublishTask, IdleTask, Composing
  <2>2. CASE SetDelivery
    <3>1. PICK live \in BOOLEAN : live <=> ~o.live
      OBVIOUS
    <3>2. target' = [o EXCEPT !.live = live]
      BY <1>0, <2>2, <3>1 DEF SetDelivery, TargetRecords
    <3> QED BY <3>2 DEF TargetRecords
  <2>3. CASE RemoveTask
    <3>1. PICK n \in TargetRecords : n = [o EXCEPT !.gone = TRUE]
      BY DEF TargetRecords
    <3> QED BY <1>0, <2>3, <3>1 DEF RemoveTask, IdleTask, Composing
  <2>4. CASE ReturnTask
    <3>1. PICK n \in TargetRecords : n = [o EXCEPT !.gone = FALSE]
      BY DEF TargetRecords
    <3> QED BY <1>0, <2>4, <3>1 DEF ReturnTask, SetInv, LetterStands
  <2> QED BY <2>1, <2>2, <2>3, <2>4
<1>3. LetterStands'
  <2>1. LetterStands
    BY DEF SetInv
  <2>2. letter.at \in Composing => ~target'.gone /\ letter.profile = target'.profile
    BY <1>0, <1>2, <2>1 DEF LetterStands
  <2> QED BY <1>1, <2>1, <2>2 DEF LetterStands, Owned, Deleted, TaskOwner
<1> QED BY <1>1, <1>2, <1>3, OthersStay DEF SetInv, SetTypes

---------------------------------------------------------------------------
(* The letter.                                                             *)

\* LetterStands, of a record.
LetterIs(l) ==
    /\ l.at \in Composing => ~target.gone /\ l.profile = target.profile
    /\ l.at \notin {"none", "ended"} => l.profile \in Profiles /\ Owned(l.profile)
    /\ l.at \in Composing => ~Deleted(l.profile)
    /\ l.at \in Held /\ Deleted(l.profile) => l.byhand
    /\ l.at \notin {"none", "ended", "running"} => l.group \in Groups
    /\ l.at \in {"claimed", "data"} => Owned(l.group) /\ ~Deleted(l.group)

\* A step of the letter alone is right when its new place is.
LEMMA LetterMoves ==
    ASSUME SetInv, NEW l \in LetterRecords, letter' = l, LetterIs(l), UNCHANGED Otherwise
    PROVE  SetInv'
<1>1. LetterStands'
  BY DEF LetterIs, LetterStands, Otherwise, Owned, Deleted, TaskOwner
<1> QED BY <1>1, OthersStay DEF Otherwise, SetInv, SetTypes

\* A run starts with the references of its task, which stand.
LEMMA StartRunKeeps == ASSUME SetInv, StartRun PROVE SetInv'
<1>0. PICK o \in TargetRecords : o = target
  BY DEF SetInv, SetTypes
<1>1. PICK n \in LetterRecords, profile \in Profiles, version \in Nat :
          n = NoLetter /\ profile = o.profile /\ version = o.version
  BY DEF NoLetter, LetterRecords, TargetRecords
<1>2. PICK l \in LetterRecords :
          l = [n EXCEPT !.at = "running", !.profile = profile, !.version = version]
  BY DEF LetterRecords, Composing
<1>3. letter' = l
  BY <1>0, <1>1, <1>2 DEF StartRun
<1>4. l.at = "running" /\ l.profile = o.profile
  BY <1>1, <1>2 DEF LetterRecords
<1>5. ~target.gone /\ Owned(o.profile) /\ ~Deleted(o.profile)
  BY <1>0 DEF StartRun, ReferencesStand
<1>6. LetterIs(l)
  BY <1>0, <1>4, <1>5 DEF LetterIs, Composing, Held, TargetRecords
<1> QED BY <1>3, <1>6, LetterMoves DEF StartRun

\* Choosing a group takes one that is in use.
LEMMA SelectKeeps == ASSUME SetInv, NEW g \in Groups, Select(g) PROVE SetInv'
<1>0. PICK o \in LetterRecords : o = letter /\ LetterIs(o)
  BY DEF SetInv, SetTypes, LetterStands, LetterIs
<1>1. PICK l \in LetterRecords : l = [o EXCEPT !.at = "selected", !.group = g]
  BY DEF LetterRecords, Composing
<1>2. l.at = "selected" /\ l.group = g /\ l.profile = o.profile
  BY <1>1 DEF LetterRecords
<1>3. letter' = l /\ o.at = "running"
  BY <1>0, <1>1 DEF Select
<1>4. LetterIs(l)
  BY <1>0, <1>2, <1>3 DEF LetterIs, Composing, Held
<1> QED BY <1>3, <1>4, LetterMoves DEF Select

\* A letter that goes on to another stage.
LEMMA ProceedsKeeps ==
    ASSUME SetInv, NEW at, at \in {"ended", "accepted", "failed"} \cup {"approved"} \cup Held,
           Proceeds(at), UNCHANGED Otherwise,
           at \notin {"ended"} => letter.at \notin {"none", "ended", "running"},
           at = "approved" => letter.at = "selected",
           at \in Held => letter.at \in {"approved"} \cup Held,
           at \in {"claimed", "data"} =>
               (Owned(letter.group) /\ ~Deleted(letter.group)) \/ letter.at = "claimed"
    PROVE  SetInv'
<1>0. PICK o \in LetterRecords : o = letter /\ LetterIs(o)
  BY DEF SetInv, SetTypes, LetterStands, LetterIs
<1>1. PICK l \in LetterRecords : l = [o EXCEPT !.at = at]
  BY DEF LetterRecords, Composing
<1>2. l.at = at /\ l.group = o.group /\ l.profile = o.profile /\ l.byhand = o.byhand
  BY <1>1 DEF LetterRecords
<1>3. letter' = l
  BY <1>0, <1>1 DEF Proceeds
<1>4. LetterIs(l)
  BY <1>0, <1>2 DEF LetterIs, Composing, Held
<1> QED BY <1>3, <1>4, LetterMoves

\* An e-mail retry by hand: a check, and an insertion that relies on it.
LEMMA RetryKeeps == ASSUME SetInv, CheckRetry \/ InsertRetry PROVE SetInv'
<1>0. PICK o \in LetterRecords : o = letter /\ LetterIs(o)
  BY DEF SetInv, SetTypes, LetterStands, LetterIs
<1>1. CASE CheckRetry
  <2>1. PICK l \in LetterRecords : l = [o EXCEPT !.checked = TRUE]
    BY DEF LetterRecords
  <2>2. l.at = o.at /\ l.group = o.group /\ l.profile = o.profile /\ l.byhand = o.byhand
    BY <2>1 DEF LetterRecords
  <2>3. letter' = l
    BY <1>0, <1>1, <2>1 DEF CheckRetry
  <2> QED BY <1>0, <1>1, <2>2, <2>3, LetterMoves DEF CheckRetry, LetterIs
<1>2. CASE InsertRetry
  <2>1. PICK l \in LetterRecords : l = [o EXCEPT !.at = "queued", !.checked = FALSE,
                                                 !.byhand = TRUE]
    BY DEF LetterRecords, Held
  <2>2. l.at = "queued" /\ l.group = o.group /\ l.profile = o.profile /\ l.byhand
    BY <2>1 DEF LetterRecords
  <2>3. letter' = l /\ o.at \in {"failed", "uncertain"}
    BY <1>0, <1>2, <2>1 DEF InsertRetry
  <2>4. LetterIs(l)
    BY <1>0, <2>2, <2>3 DEF LetterIs, Composing
  <2> QED BY <1>2, <2>3, <2>4, LetterMoves DEF InsertRetry
<1> QED BY <1>1, <1>2

\* Every step of a letter keeps it on references that stand, but for an e-mail
\* retry by hand.
LEMMA MailKeeps == ASSUME SetInv, Mail PROVE SetInv'
<1>1. CASE Approve
  <2>1. PICK at \in {"approved", "ended"} : letter.at = "selected" /\ Proceeds(at)
    BY <1>1 DEF Approve
  <2> QED BY <1>1, <2>1, ProceedsKeeps DEF Approve, Held
<1>2. CASE Prepare
  BY <1>2, ProceedsKeeps DEF Prepare, Held
<1>3. CASE PublishLetter
  <2>1. PICK at \in {"published", "refused"} : letter.at = "prepared" /\ Proceeds(at)
    BY <1>3 DEF PublishLetter
  <2> QED BY <1>3, <2>1, ProceedsKeeps DEF PublishLetter, Held
<1>4. CASE EndRun
  BY <1>4, ProceedsKeeps DEF EndRun, Held
<1>5. CASE Enqueue
  BY <1>5, ProceedsKeeps DEF Enqueue, Held
<1>6. CASE Claim
  BY <1>6, ProceedsKeeps DEF Claim, Held, MayGo
<1>7. CASE StartData
  <2>1. PICK at \in {"data", "failed"} : letter.at = "claimed" /\ Proceeds(at)
    BY <1>7 DEF StartData
  <2> QED BY <1>7, <2>1, ProceedsKeeps DEF StartData, Held
<1>8. CASE Conclude
  <2>1. PICK at \in {"accepted", "failed", "uncertain"} :
            letter.at \in {"claimed", "data"} /\ Proceeds(at)
    BY <1>8 DEF Conclude
  <2> QED BY <1>8, <2>1, ProceedsKeeps DEF Conclude, Held
<1> QED BY <1>1, <1>2, <1>3, <1>4, <1>5, <1>6, <1>7, <1>8, StartRunKeeps, SelectKeeps, RetryKeeps
    DEF Mail

\* Every step of pages, tasks and the letter keeps SetInv.
LEMMA SetInvStep == SetInv /\ [SetNext]_setVars => SetInv'
<1> SUFFICES ASSUME SetInv, [SetNext]_setVars PROVE SetInv'
  OBVIOUS
<1>1. CASE UNCHANGED setVars
  <2>1. LetterStands'
    BY <1>1 DEF setVars, SetInv, LetterStands, Owned, Deleted, TaskOwner
  <2> QED BY <1>1, <2>1, OthersStay DEF setVars, SetInv, SetTypes
<1>2. ASSUME NEW p \in Pages, Page(p) PROVE SetInv'
  <2>1. Groups \subseteq Entities /\ Profiles \subseteq Entities /\ Fillable \subseteq Entities
    BY DEF Entities, Fillable
  <2>2. /\ \A a \in Addresses : Listed(a) \in ChangeRecords /\ Struck(a) \in ChangeRecords
        /\ \A v \in Values : Filled(v) \in ChangeRecords
    BY ChangesAreLists
  <2>3. \/ \E by \in Creators, key \in CreationKeys, v \in Values : BeginCreate(p, by, key, v)
        \/ \E i \in Entities, v \in Values : BeginEdit(p, i, v)
        \/ \E i \in Entities, c \in ChangeRecords : BeginMember(p, i, c) \/ BeginWhole(p, i, c)
        \/ Lock(p) \/ RefuseEdit(p) \/ Allocate(p) \/ Write(p) \/ WriteNothing(p) \/ Die(p)
    BY <1>2, <2>1, <2>2, Zenon DEF Page
  <2> QED BY <2>3, BeginKeeps, LockKeeps, RefuseEditKeeps, AllocateKeeps, WriteKeeps, DieKeeps
<1>3. CASE Administer
  BY <1>3, CatalogChanges, TaskKeeps DEF Administer
<1>4. CASE Mail
  BY <1>4, MailKeeps
<1> QED BY <1>1, <1>2, <1>3, <1>4 DEF SetNext

\* The catalog, the lock, the answers and the letter stand in every state.
THEOREM SettingsStand == SetSpec => []SetInv
BY SetInvInit, SetInvStep, PTL DEF SetSpec

\* An account's request key makes one item, which stays that account's: the key is looked
\* up and the item made in one transaction, and importing the file leaves entries alone.
THEOREM CreationsAreOwned == SetSpec => []CreationIsOwned
<1>1. SetInv => CreationIsOwned
  <2> SUFFICES ASSUME SetInv PROVE CreationIsOwned
    OBVIOUS
  <2>1. ASSUME NEW r \in replies, NEW q \in replies, r.by = q.by, r.key = q.key
        PROVE  r.item = q.item
    BY <2>1, SettingsAssumption DEF SetInv, RepliesStand, Made, EntriesStand
  <2>2. \A r \in replies : entry[r.item].owner = r.by
    BY DEF SetInv, RepliesStand, Made
  <2> QED BY <2>1, <2>2 DEF CreationIsOwned
<1> QED BY <1>1, SettingsStand, PTL

\* No body is sent to a group that is deleted or somebody else's, or from an account that
\* is somebody else's or, unless the mail is an e-mail retry, deleted: what a task or a
\* pending mail refers to is not deleted, and the claim asks about the group.
THEOREM RoutesStayCurrent == SetSpec => []RoutesAreCurrent
<1>1. SetInv => RoutesAreCurrent
  BY DEF SetInv, LetterStands, RoutesAreCurrent, Held
<1> QED BY <1>1, SettingsStand, PTL

\* What a request that reads the file again under the lock saves leaves every other item
\* as it was saved last: what it read is still what the file has.  (What it saves of its
\* own item may be made from an older list.)
THEOREM OthersStayKept == SetSpec => OthersAreKept
<1>1. SetInv /\ [SetNext]_setVars => SavesOneItem
  <2> SUFFICES ASSUME SetInv, [SetNext]_setVars, NEW p \in Pages, page[p].at = "write",
                      page[p].kind # "whole", page'[p].at = "idle",
                      NEW i \in Entities, i # page[p].item
               PROVE  mapping'[i] = mapping[i]
    BY DEF SavesOneItem
  <2>0. page \in [Pages -> PageRecords] /\ mapping \in Mappings
    BY DEF SetInv, SetTypes
  <2>1. lockedBy = p /\ page[p].seen = mapping /\ page[p].item \in Entities
    BY DEF SetInv, PagesStand, Stands
  <2>2. ASSUME NEW q \in Pages, Write(q) PROVE mapping'[i] = mapping[i]
    <3>1. lockedBy = q
      BY <2>2 DEF Write, SetInv, PagesStand, Stands
    <3> QED BY <2>0, <2>1, <2>2, <3>1 DEF Write, Mappings
  <2>3. ASSUME ~\E q \in Pages : Write(q) PROVE UNCHANGED mapping
    <3>1. ASSUME NEW q \in Pages, Page(q) PROVE UNCHANGED mapping
      <4>1. ~Write(q)
        BY <2>3
      <4>2. ASSUME NEW r, Begin(q, r) PROVE UNCHANGED mapping
        BY <4>2 DEF Begin
      <4> QED BY <3>1, <4>1, <4>2, Zenon DEF Page, BeginCreate, BeginEdit, BeginMember, BeginWhole,
            Lock, RefuseEdit, Allocate, WriteNothing, Die
    <3>2. CASE Administer
      BY <3>2 DEF Administer, Delete, Restore, PublishTask, SetDelivery, RemoveTask, ReturnTask
    <3>3. CASE Mail
      BY <3>3 DEF Mail, Otherwise, StartRun, Select, Approve, Prepare, PublishLetter, EndRun,
         Enqueue, Claim, StartData, Conclude, CheckRetry, InsertRetry
    <3> QED BY <3>1, <3>2, <3>3 DEF SetNext, setVars
  <2> QED BY <2>2, <2>3
<1> QED BY <1>1, SettingsStand, PTL DEF SetSpec, OthersAreKept

=============================================================================
