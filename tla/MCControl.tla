----------------------------- MODULE MCControl ------------------------------
(***************************************************************************)
(* Four components that are driven by requests and operators and share no  *)
(* modelled state, each on small instances of its own: accounts and        *)
(* sessions, backup and restore, the family of runs of one task, and the   *)
(* delivery settings (the pages that change them, or the mail that uses    *)
(* what the catalog and the task refer to).  `part` says what moves.       *)
(***************************************************************************)
EXTENDS Accounts, Maintenance, RunFamily, DeliverySettings, TLC

CONSTANT s1

VARIABLE part

controlVars == <<part, accVars, mntVars, famVars, setVars>>

\* The second version changes the instruction only, the third the delivery too.
MCContract == <<"a", "a", "b">>

\* A set-up installation has an administrator in the first session and a token
\* left over, or two users.  The components that do not move have one initial
\* state.
Init ==
    /\ part \in {"accounts", "maintenance", "family", "pages", "routes"}
    /\ AccInit /\ MntInit /\ FamInit /\ SetInit
    /\ founder # "nobody" => sessions[1].user = founder /\ sessions[3] = NoSession
    /\ part # "accounts" => ~initialized
    /\ part # "family" => runs = <<>> /\ given = NoKey
    /\ part # "routes" => target.profile = s1 /\ target.groups = {}

\* Pages, the last of which creates an item, while an item may be deleted; the
\* routes of mail, while the file rests.
CreatesLast ==
    used'.pages = MaxPages /\ used.pages # MaxPages
        => \E p \in Pages : page'[p].kind = "create" /\ page[p] = NoPage
SettingsNext ==
    \/ /\ part = "pages"
       /\ \/ (\E p \in Pages : Page(p)) /\ CreatesLast
          \/ used.changes = 0 /\ \E i \in Entities : Delete(i)
    \/ part = "routes" /\ (Administer \/ Mail)

\* Two changes of accounts, or one and a session that runs out of time.
AccountsNext == AccNext /\ spent'.edits + spent'.lapses <= 2

Next ==
    /\ UNCHANGED part
    /\ \/ part = "accounts" /\ AccountsNext /\ UNCHANGED <<mntVars, famVars, setVars>>
       \/ part = "maintenance" /\ MntNext /\ UNCHANGED <<accVars, famVars, setVars>>
       \/ part = "family" /\ FamNext /\ UNCHANGED <<accVars, mntVars, setVars>>
       \/ SettingsNext /\ UNCHANGED <<accVars, mntVars, famVars>>

Spec == Init /\ [][Next]_controlVars

\* The pages of the Web UI, but for the one that creates a group under a key of its
\* own.
PagesNext == Next /\ \A p \in Pages : page'[p].kind # "whole"
PagesSpec == Init /\ part = "pages" /\ [][PagesNext]_controlVars

\* Threads serve requests of both kinds; neither they nor names have an order.
Symmetry == Permutations(People) \cup Permutations(Threads)
=============================================================================
