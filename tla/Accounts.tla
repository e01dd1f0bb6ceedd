------------------------------ MODULE Accounts ------------------------------
(***************************************************************************)
(* Accounts and browser sessions (services/auth_service.py), as the        *)
(* threaded web server drives them (web/router.py, web/auth_http.py): the  *)
(* first administrator's setup token, login, password changes and resets,  *)
(* roles and grants, sessions that idle, expire and are revoked.           *)
(*                                                                         *)
(* A call is one HTTP request on one thread.  It reads, derives a          *)
(* password hash outside any transaction and only then commits, so other   *)
(* calls run between its steps.  Whether a typed password is right is a    *)
(* choice.  A name stands for its account: names are never reused.         *)
(***************************************************************************)
EXTENDS Integers, FiniteSets

CONSTANTS
    People,         \* names that may be typed; an account exists once created
    Threads,        \* threads of the web server
    MaxSessions,    \* bound: session tokens in use at a time
    MaxEdits,       \* bound: committed changes of accounts and setup tokens
    MaxCalls,       \* bound: requests
    MaxLapses,      \* bound: how often a session runs out of time
    PreauthLimit,   \* sessions of visitors who have not logged in (1000)
    AccountLimit,   \* login attempts per name and window
    GlobalLimit,    \* login attempts per window
    Slots           \* password derivations at a time

ASSUME AccountsAssumption ==
    /\ {MaxSessions, MaxEdits, MaxCalls, MaxLapses} \subseteq Nat
    /\ {PreauthLimit, AccountLimit, GlobalLimit, Slots} \subseteq Nat \ {0}
    /\ People \cap {"bootstrap", "global", "nobody"} = {}

VARIABLES
    users,          \* auth_users
    grants,         \* auth_user_tasks: who holds a grant for the task
    sessions,       \* auth_sessions by token
    bootstrap,      \* auth_bootstrap: the setup token and whether it expired
    founder,        \* auth_installation, and owner of what nobody owned
    attempts,       \* auth_login_attempts
    calls,          \* requests in progress
    spent           \* how much of the bounds is used

accVars == <<users, grants, sessions, bootstrap, founder, attempts, calls, spent>>

Roles == {"admin", "user", "viewer"}
Keys == People \cup {"bootstrap", "global"}
Tokens == 1..MaxSessions

NoUser == [role |-> "none", active |-> FALSE, must |-> FALSE, rev |-> 0]
NoSession == [user |-> "nobody", rev |-> 0, life |-> "gone", outdated |-> FALSE]
NoCall == [op |-> "none", at |-> "idle", token |-> 0, actor |-> "nobody",
           target |-> "nobody", seen |-> 0, outdated |-> FALSE]

Ops == {"setup", "login", "logout", "change", "create", "update", "reset", "page"}

Exists(p) == p \in People /\ users[p] # NoUser
initialized == \E p \in People : Exists(p)
ActiveAdmins == {p \in People : users[p].active /\ users[p].role = "admin"}

\* The server starts on an empty database, or on one that was set up before, whose
\* users are logged in.
Account(role) == [role |-> role, active |-> TRUE, must |-> FALSE, rev |-> 1]
Logged(p) == [user |-> p, rev |-> 1, life |-> "fresh", outdated |-> FALSE]

Installed(p) ==
    /\ founder = p
    /\ \E others \in SUBSET (People \ {p}), roles \in [People -> Roles] :
       /\ users = [q \in People |-> CASE q = p -> Account("admin")
                                      [] q \in others -> Account(roles[q])
                                      [] OTHER -> NoUser]
       /\ \E token \in [others \cup {p} -> Tokens] :
          /\ \A q, r \in others \cup {p} : q # r => token[q] # token[r]
          /\ sessions = [k \in Tokens |->
                LET q == {r \in others \cup {p} : token[r] = k} IN
                IF q = {} THEN NoSession ELSE Logged(CHOOSE r \in q : TRUE)]

AccInit ==
    /\ \/ /\ users = [p \in People |-> NoUser] /\ founder = "nobody"
          /\ sessions = [k \in Tokens |-> NoSession]
       \/ \E p \in People : Installed(p)
    /\ grants = {}
    /\ bootstrap = [id |-> 0, valid |-> FALSE]
    /\ attempts = [k \in Keys |-> 0]
    /\ calls = [t \in Threads |-> NoCall]
    /\ spent = [calls |-> 0, edits |-> 0, lapses |-> 0]

---------------------------------------------------------------------------
(* Sessions.                                                               *)

\* resolve_session's answer at this moment: the row is there, in time, and the
\* account is active and still at the revision the session was granted at.
Resolves(k) ==
    /\ sessions[k].life = "fresh"
    /\ LET p == sessions[k].user IN
       p # "nobody" => users[p].active /\ users[p].rev = sessions[k].rev

Without(ss, K) == [k \in Tokens |-> IF k \in K THEN NoSession ELSE ss[k]]
Overdue(ss) == {k \in Tokens : ss[k].life = "idle"}
SessionsOf(p) == {k \in Tokens : sessions[k].user = p}

\* _new_session: overdue rows go, whoever they belong to, and a token is minted
\* that no row has and no request holds.
NewSession(ss, p, rev, outdated) ==
    LET kept == Without(ss, Overdue(ss))
        free == {k \in Tokens : kept[k] = NoSession /\ \A t \in Threads : calls[t].token # k} IN
    /\ free # {}
    /\ sessions' = [kept EXCEPT ![CHOOSE k \in free : \A j \in free : k <= j] =
          [user |-> p, rev |-> rev, life |-> "fresh", outdated |-> outdated]]

new_preauth_session ==
    /\ Cardinality({k \in Tokens : sessions[k].user = "nobody"
                                   /\ sessions[k].life = "fresh"}) < PreauthLimit
    /\ NewSession(sessions, "nobody", 0, FALSE)
    /\ UNCHANGED <<users, grants, bootstrap, founder, attempts, calls, spent>>

\* Time: a session idles, or reaches its absolute end.  A row past its end is as
\* good as deleted: every read refuses it, no renewal moves its end, and the next
\* session purges it.
SessionAges(k) ==
    /\ spent.lapses < MaxLapses /\ spent' = [spent EXCEPT !.lapses = @ + 1]
    /\ \/ sessions[k].life = "fresh" /\ sessions[k].user # "nobody"
          /\ sessions' = [sessions EXCEPT ![k].life = "idle"]
       \/ sessions[k].life \in {"fresh", "idle"}
          /\ sessions' = Without(sessions, {k})
    /\ UNCHANGED <<users, grants, bootstrap, founder, attempts, calls>>

---------------------------------------------------------------------------
(* Steps that every request shares.                                        *)

Goes(t, call) == calls' = [calls EXCEPT ![t] = call]
Ends(t) == Goes(t, NoCall)

\* Every call that read account p before it changed holds outdated evidence.
Outdating(cs, p) ==
    [t \in Threads |-> IF cs[t].target = p /\ cs[t].seen > 0 THEN [cs[t] EXCEPT !.outdated = TRUE] ELSE cs[t]]

\* Web requests need a session, and all but setup and login a user, who may do
\* nothing but change a temporary password.
MayAsk(op, p) ==
    \/ op \in {"setup", "login"}
    \/ p # "nobody" /\ (op \in {"logout", "change"} \/ ~users[p].must)

\* (A browser logs in as a visitor or again as its own user; a setup without a
\* token and an account under a taken name are left out, being refused.)
Ask(t, k, op, target) ==
    /\ calls[t] = NoCall
    /\ spent.calls < MaxCalls /\ spent' = [spent EXCEPT !.calls = @ + 1]
    /\ Resolves(k)
    /\ MayAsk(op, sessions[k].user)
    /\ op \in {"logout", "page", "change"} => target = sessions[k].user
    /\ op \in {"setup", "login"} => sessions[k].user \in {"nobody", target}
    /\ op = "setup" => bootstrap.id > 0
    /\ op = "create" => ~Exists(target)
    /\ Goes(t, [op |-> op, at |-> "asked", target |-> target, outdated |-> FALSE,
                token |-> IF op \in {"setup", "login", "logout", "page"} THEN k ELSE 0,
                actor |-> IF op \in {"setup", "login", "logout"} THEN "nobody"
                          ELSE sessions[k].user,
                seen |-> IF op = "setup" THEN bootstrap.id ELSE 0])
    /\ UNCHANGED <<users, grants, sessions, bootstrap, founder, attempts>>

\* _current_user, read again in each transaction.
Current(p, admin, temporary) ==
    /\ Exists(p) /\ users[p].active
    /\ temporary \/ ~users[p].must
    /\ admin => users[p].role = "admin"

\* _require_task: whose task it is.
Allowed(p) ==
    \/ users[p].role = "admin"
    \/ users[p].role = "user" /\ founder = p
    \/ users[p].role = "viewer" /\ p \in grants

\* authorize: the page of the task.
Sees(p) == Current(p, FALSE, FALSE) /\ Allowed(p)

\* What a call must find before it derives a hash.
Admitted(c) ==
    CASE c.op = "setup" -> bootstrap.valid /\ bootstrap.id = c.seen /\ c.seen > 0
      [] c.op = "login" -> TRUE
      [] c.op = "change" -> Current(c.actor, FALSE, TRUE)
      [] OTHER -> Current(c.actor, TRUE, FALSE)

\* The key of an attempt, and _reserve_attempt: counted before anything is read.
AttemptKey(c) == IF c.op = "setup" THEN "bootstrap" ELSE c.target

\* Rows whose window passed are dropped first, those of other names when asked for.
ReserveAttempt(t, passed) ==
    LET c == calls[t]
        key == AttemptKey(c)
        left == [k \in Keys |-> IF k \in passed THEN 0 ELSE attempts[k]]
        within == left["global"] < GlobalLimit /\ left[key] < AccountLimit IN
    /\ c.at = "asked" /\ c.op \in {"setup", "login"}
    /\ IF within
       THEN /\ attempts' = [left EXCEPT ![key] = @ + 1, !["global"] = @ + 1]
            /\ Goes(t, [c EXCEPT !.at = "reserved"])
       ELSE Ends(t) /\ UNCHANGED attempts
    /\ UNCHANGED <<users, grants, sessions, bootstrap, founder, spent>>

SlotFree ==
    Cardinality({t \in Threads : calls[t].at \in {"deriving", "rederiving"}}) < Slots

\* The row is read and the derivation started, or refused for want of a slot.
Look(t) ==
    LET c == calls[t] IN
    /\ \/ c.at = "reserved"
       \/ c.at = "asked" /\ c.op \in {"change", "create", "reset"}
    /\ \/ /\ Admitted(c) /\ SlotFree
          /\ Goes(t, [c EXCEPT !.at = "deriving",
                               !.seen = IF c.op \in {"login", "change"} /\ Exists(c.target)
                                        THEN users[c.target].rev ELSE @])
       \/ ~(Admitted(c) /\ SlotFree) /\ Ends(t)
    /\ UNCHANGED <<users, grants, sessions, bootstrap, founder, attempts, spent>>

\* verify_password or hash_password ends: the password was right, or the call is
\* over.  A wrong name costs the same derivation; a change derives twice.
Derive(t) ==
    LET c == calls[t] IN
    /\ \/ /\ c.at = "deriving" /\ (c.op = "login" => c.seen > 0)
          /\ Goes(t, [c EXCEPT !.at = IF c.op = "change" THEN "verified" ELSE "derived"])
       \/ c.at = "rederiving" /\ Goes(t, [c EXCEPT !.at = "derived"])
       \/ c.at = "deriving" /\ c.op \in {"login", "change"} /\ Ends(t)
    /\ UNCHANGED <<users, grants, sessions, bootstrap, founder, attempts, spent>>

Rehash(t) ==
    /\ calls[t].at = "verified"
    /\ \/ SlotFree /\ Goes(t, [calls[t] EXCEPT !.at = "rederiving"])
       \/ Ends(t)      \* no slot, or the new password is the old one
    /\ UNCHANGED <<users, grants, sessions, bootstrap, founder, attempts, spent>>

\* An error path of a commit: the transaction changes nothing.
Refuse(t) == Ends(t) /\ UNCHANGED <<users, grants, sessions, bootstrap, founder, attempts, spent>>

\* A new session was granted: the one the request came with is to go.
Granted(c) == [NoCall EXCEPT !.op = "logout", !.at = "granted", !.token = c.token]

Edit == spent.edits < MaxEdits /\ spent' = [spent EXCEPT !.edits = @ + 1]

---------------------------------------------------------------------------
(* Setup, login, logout and the page whose use renews a session.           *)

issue_setup_token ==
    /\ ~initialized /\ Edit
    /\ bootstrap' = [id |-> bootstrap.id + 1, valid |-> TRUE]
    /\ UNCHANGED <<users, grants, sessions, founder, attempts, calls>>

BootstrapExpires ==
    /\ bootstrap.valid
    /\ bootstrap' = [bootstrap EXCEPT !.valid = FALSE]
    /\ UNCHANGED <<users, grants, sessions, founder, attempts, calls, spent>>

\* The token is consumed and the first administrator made in one transaction.
Consumable(c) == ~initialized /\ Admitted(c)

setup(t) ==
    LET c == calls[t]  p == c.target IN
    /\ c.at = "derived" /\ c.op = "setup"
    /\ \/ /\ Consumable(c) /\ Edit
          /\ users' = [users EXCEPT ![p] =
                          [role |-> "admin", active |-> TRUE, must |-> FALSE, rev |-> 1]]
          /\ bootstrap' = [bootstrap EXCEPT !.valid = FALSE]
          /\ founder' = IF founder = "nobody" THEN p ELSE founder
          /\ NewSession(sessions, p, 1, FALSE)
          /\ Goes(t, Granted(c))
          /\ UNCHANGED <<grants, attempts>>
       \/ ~Consumable(c) /\ Refuse(t)

\* Mutant: the login trusts the row it read before deriving the hash.
StillProvedOnTrust(c) == users[c.target].active

\* What login reads again in the transaction that makes the session.
StillProved(c) == users[c.target].active /\ users[c.target].rev = c.seen

login(t) ==
    LET c == calls[t] IN
    /\ c.at = "derived" /\ c.op = "login"
    /\ \/ /\ StillProved(c)
          /\ attempts' = [attempts EXCEPT ![c.target] = 0]
          /\ NewSession(sessions, c.target, users[c.target].rev, c.outdated)
          /\ Goes(t, Granted(c))
          /\ UNCHANGED <<users, grants, bootstrap, founder, spent>>
       \/ ~StillProved(c) /\ Refuse(t)

\* logout, by request or of the session that came with a setup or a login.
logout(t) ==
    LET c == calls[t] IN
    /\ c.op = "logout"
    /\ sessions' = Without(sessions, {c.token})
    /\ Ends(t)
    /\ UNCHANGED <<users, grants, bootstrap, founder, attempts, spent>>

\* The page is served to whoever may see it, and then the session is touched:
\* read at one time, renewed as of that time by an update that looks again.
Serve(t) ==
    LET c == calls[t] IN
    /\ c.at = "asked" /\ c.op = "page"
    /\ IF Sees(c.actor) /\ Resolves(c.token)
       THEN Goes(t, [c EXCEPT !.at = "touching"]) ELSE Ends(t)
    /\ UNCHANGED <<users, grants, sessions, bootstrap, founder, attempts, spent>>

Touch(t) ==
    LET c == calls[t]  s == sessions[c.token] IN
    /\ c.at = "touching"
    /\ Ends(t)
    /\ sessions' = IF s.life = "idle" /\ users[s.user].active /\ users[s.user].rev = s.rev
                   THEN [sessions EXCEPT ![c.token].life = "fresh"] ELSE sessions
    /\ UNCHANGED <<users, grants, bootstrap, founder, attempts, spent>>

---------------------------------------------------------------------------
(* Changes of accounts.                                                    *)

create_user(t, role, granted) ==
    LET c == calls[t]  p == c.target  ok == Current(c.actor, TRUE, FALSE) /\ ~Exists(p) IN
    /\ c.at = "derived" /\ c.op = "create"
    /\ \/ /\ ok /\ Edit
          /\ users' = [users EXCEPT ![p] =
                          [role |-> role, active |-> TRUE, must |-> TRUE, rev |-> 1]]
          /\ grants' = IF role = "viewer" /\ granted THEN grants \cup {p} ELSE grants
          /\ Ends(t)
          /\ UNCHANGED <<sessions, bootstrap, founder, attempts>>
       \/ ~ok /\ Refuse(t)

\* Mutant: one administrator is counted besides the one being changed.
LosesLastAdminOffByOne(p, role, active) ==
    /\ p \in ActiveAdmins /\ (role # "admin" \/ ~active)
    /\ Cardinality(ActiveAdmins) < 1

\* The change would leave no active administrator.
LosesLastAdmin(p, role, active) ==
    /\ p \in ActiveAdmins /\ (role # "admin" \/ ~active)
    /\ Cardinality(ActiveAdmins) <= 1

\* A change of role or activation revokes: the revision moves and the sessions go.
\* `granted` is what the form says of grants.
update_user(t, role, active, granted) ==
    LET c == calls[t]  p == c.target  u == users[p]
        ok == Current(c.actor, TRUE, FALSE) /\ Exists(p) /\ ~LosesLastAdmin(p, role, active)
        revoke == role # u.role \/ active # u.active IN
    /\ c.at = "asked" /\ c.op = "update"
    /\ \/ /\ ok /\ Edit
          /\ users' = [users EXCEPT ![p] = [u EXCEPT !.role = role, !.active = active,
                                                     !.rev = IF revoke THEN @ + 1 ELSE @]]
          /\ sessions' = IF revoke THEN Without(sessions, SessionsOf(p)) ELSE sessions
          /\ grants' = IF role = "viewer" /\ granted THEN grants \cup {p} ELSE grants \ {p}
          /\ calls' = LET rest == [calls EXCEPT ![t] = NoCall] IN
                      IF revoke THEN Outdating(rest, p) ELSE rest
          /\ UNCHANGED <<bootstrap, founder, attempts>>
       \/ ~ok /\ Refuse(t)

\* _replace_password: a new revision, and no session survives.
ReplacePassword(p, must) ==
    users' = [users EXCEPT ![p].rev = @ + 1, ![p].must = must]

reset_password(t) ==
    LET c == calls[t]  p == c.target  ok == Current(c.actor, TRUE, FALSE) /\ Exists(p) IN
    /\ c.at = "derived" /\ c.op = "reset"
    /\ \/ /\ ok /\ Edit
          /\ ReplacePassword(p, TRUE)
          /\ sessions' = Without(sessions, SessionsOf(p))
          /\ calls' = Outdating([calls EXCEPT ![t] = NoCall], p)
          /\ UNCHANGED <<grants, bootstrap, founder, attempts>>
       \/ ~ok /\ Refuse(t)

reset_password_from_cli(p) ==
    /\ Exists(p) /\ Edit
    /\ ReplacePassword(p, FALSE)
    /\ sessions' = Without(sessions, SessionsOf(p))
    /\ calls' = Outdating(calls, p)
    /\ UNCHANGED <<grants, bootstrap, founder, attempts>>

\* The owner's own change, if nothing changed since the old password was proved.
change_password(t) ==
    LET c == calls[t]  p == c.actor
        ok == Current(p, FALSE, TRUE) /\ users[p].rev = c.seen IN
    /\ c.at = "derived" /\ c.op = "change"
    /\ \/ /\ ok /\ Edit
          /\ ReplacePassword(p, FALSE)
          /\ NewSession(Without(sessions, SessionsOf(p)), p, users[p].rev + 1, c.outdated)
          /\ calls' = Outdating([calls EXCEPT ![t] = NoCall], p)
          /\ UNCHANGED <<grants, bootstrap, founder, attempts>>
       \/ ~ok /\ Refuse(t)

---------------------------------------------------------------------------
AccNext ==
    \/ issue_setup_token \/ BootstrapExpires \/ new_preauth_session
    \/ \E k \in Tokens : SessionAges(k)
    \/ \E p \in People : reset_password_from_cli(p)
    \/ \E t \in Threads :
       \/ \E k \in Tokens, op \in Ops, p \in People : Ask(t, k, op, p)
       \/ \E passed \in SUBSET {AttemptKey(calls[t]), "global"} : ReserveAttempt(t, passed)
       \/ Look(t) \/ Derive(t) \/ Rehash(t)
       \/ setup(t) \/ login(t) \/ logout(t) \/ Serve(t) \/ Touch(t)
       \/ reset_password(t) \/ change_password(t)
       \/ \E role \in Roles, granted \in BOOLEAN :
          \/ create_user(t, role, granted)
          \/ \E active \in BOOLEAN : update_user(t, role, active, granted)

AccSpec == AccInit /\ [][AccNext]_accVars

---------------------------------------------------------------------------
(* A session the server would accept was granted on evidence that no later *)
(* change of that account has overtaken: whoever was disabled, demoted or  *)
(* had the password replaced, also between the read and the commit of a    *)
(* login or a password change, holds no usable session, and no renewal     *)
(* brings one back.                                                        *)
SessionIsCurrent ==
    \A k \in Tokens :
        sessions[k].user # "nobody" /\ Resolves(k) => ~sessions[k].outdated

\* Once set up, the installation always has an administrator who can log in,
\* however requests to demote or disable administrators interleave, and no
\* second installation can be set up beside it.
AdminRemains ==
    initialized => /\ ActiveAdmins # {}
                   /\ ~bootstrap.valid
                   /\ founder # "nobody"
=============================================================================
