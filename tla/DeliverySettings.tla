-------------------------- MODULE DeliverySettings --------------------------
(***************************************************************************)
(* Recipient groups and sender accounts: the settings file with their      *)
(* addresses and credentials, the catalog (SQLite) with their owners and   *)
(* deletions, the requests that change both, the task that refers to them, *)
(* and the mail on its way to one of them.                                 *)
(*                                                                         *)
(* Sources: services/delivery_service.py, services/catalog_service.py,     *)
(* services/ownership.py, services/task_service.py, delivery/policy.py,    *)
(* delivery/recipient_routing.py, delivery/authorization.py,               *)
(* storage/repositories.py.                                                *)
(*                                                                         *)
(* Each SQLite transaction and each write of the settings file is one      *)
(* step.  The queue of attempts is SmtpQueue's and the run of the mail     *)
(* RunLifecycle's; here a letter has one attempt at a time.                *)
(***************************************************************************)
EXTENDS Integers, FiniteSets

CONSTANTS
    Pages,          \* web requests and CLI commands that change settings
    Groups, Profiles, \* recipient groups and sender accounts there may be
    Fixed,          \* those that are part of every installation
    Mapped,         \* those the settings file has at first
    Creators, Host, \* accounts; the one that owns what the host configured
    Theirs,         \* items that another account owns at first
    CreationKeys,   \* request keys of creation forms
    Addresses,      \* what a group lists; of a sender account, its settings
    MaxPages,       \* bound: requests begun
    MaxChanges,     \* bound: changes of the catalog and of the task
    MaxLetters      \* bound: mails and e-mail retries

Entities == Groups \cup Profiles
Nothing == "nothing"
\* What the file has of an item, or that it has nothing of it.
Lists == SUBSET Addresses
Absent == {Nothing}

ASSUME SettingsAssumption ==
    /\ Groups \cap Profiles = {} /\ Fixed \subseteq Mapped /\ Mapped \subseteq Entities
    /\ Theirs \subseteq Mapped /\ Creators # {Host}
    /\ Host \in Creators /\ Nothing \notin Entities \cup Pages \cup CreationKeys \cup Addresses
    /\ MaxPages \in Nat /\ MaxChanges \in Nat /\ MaxLetters \in Nat

VARIABLES
    entry,          \* entity_catalog
    mapping,        \* the settings file: what it has for each item, or Absent
    lockedBy,       \* who holds .delivery-config.lock
    page,           \* of each request: [at, kind, item, by, key, value, seen], and
                    \* what it asks for (change: history, no guard reads it)
    target,         \* the task: [version, profile, groups, gone, live]
    letter,         \* its latest mail: [at, group, profile, version, checked, byhand]
    replies,        \* history: [by, key, item] that creations returned
    used            \* how much of the bounds is used

setVars == <<entry, mapping, lockedBy, page, target, letter, replies, used>>

NoEntry == [at |-> "none", owner |-> Host, key |-> Nothing]
Imported == [NoEntry EXCEPT !.at = "live"]
NoPage == [at |-> "idle", kind |-> "edit", item |-> Nothing, by |-> Host, key |-> Nothing,
           value |-> {}, seen |-> [i \in Entities |-> Absent],
           change |-> [drop |-> {}, add |-> {}]]
NoLetter == [at |-> "none", group |-> Nothing, profile |-> Nothing, version |-> 0,
             checked |-> FALSE, byhand |-> FALSE]

\* What forms are filled with.
Values == {{a} : a \in Addresses}
TaskOwner == Host
Deleted(i) == entry[i].at = "deleted"
Owned(i) == entry[i].at # "none" /\ entry[i].owner = TaskOwner

\* A task that was published when the items of the settings file were imported;
\* no groups means that the mail's writer chooses among those of the owner.
SetInit ==
    /\ mapping = [i \in Entities |-> IF i \in Mapped THEN {} ELSE Absent]
    /\ \E other \in Creators \ {Host} :
           entry = [i \in Entities |->
                       IF i \in Theirs THEN [Imported EXCEPT !.owner = other]
                       ELSE IF i \in Mapped THEN Imported ELSE NoEntry]
    /\ lockedBy = Nothing
    /\ page = [p \in Pages |-> NoPage]
    /\ \E s \in (Profiles \cap Mapped) \ Theirs, gs \in {{}} \cup {{g} : g \in (Groups \cap Mapped) \ Theirs} :
           target = [version |-> 1, profile |-> s, groups |-> gs, gone |-> FALSE, live |-> TRUE]
    /\ letter = NoLetter
    /\ replies = {}
    /\ used = [pages |-> 0, changes |-> 0, letters |-> 0]

Spend(what) == used' = [used EXCEPT ![what] = @ + 1]

-----------------------------------------------------------------------------
(* Requests that change the settings file. *)

\* bootstrap_delivery: what the file has and the catalog has not becomes the
\* host's; entries, also deleted ones, are left alone.
Bootstrapped(file) ==
    [i \in Entities |-> IF entry[i].at = "none" /\ file[i] # Absent THEN Imported ELSE entry[i]]

Filled(value) == [drop |-> Addresses, add |-> value]
Listed(a) == [drop |-> {}, add |-> {a}]
Struck(a) == [drop |-> {a}, add |-> {}]
Old(file, i) == IF file[i] = Absent THEN {} ELSE file[i]
Changed(c, old) == (old \ c.drop) \cup c.add

Begin(p, request) ==
    /\ page[p].at = "idle" /\ used.pages < MaxPages
    /\ page' = [page EXCEPT ![p] = request]
    /\ Spend("pages")
    /\ UNCHANGED <<mapping, lockedBy, target, letter, replies>>

\* create_recipient_group, create_sender_account.
BeginCreate(p, by, key, value) ==
    /\ Begin(p, [NoPage EXCEPT !.at = "lock", !.kind = "create", !.by = by, !.key = key,
                               !.value = value, !.change = Filled(value)])
    /\ UNCHANGED entry

\* The page of a sender account, which is filled in as a whole.
BeginEdit(p, i, value) ==
    /\ mapping[i] # Absent /\ entry[i].at = "live"
    /\ Begin(p, [NoPage EXCEPT !.at = "lock", !.item = i, !.value = value,
                               !.change = Filled(value)])
    /\ entry' = Bootstrapped(mapping)

\* The pages that add an address to a group or strike one: the list that
\* save_recipient_group will save is made from what the file has before the lock.
BeginMember(p, i, c) ==
    /\ mapping[i] # Absent /\ entry[i].at = "live"
    /\ Begin(p, [NoPage EXCEPT !.at = "lock", !.item = i, !.value = Changed(c, mapping[i]),
                               !.change = c])
    /\ entry' = Bootstrapped(mapping)

\* `delivery config`, which fills in the first sender account or changes a group's
\* list, and the page that creates a group under a key of its own read the file
\* before they take the lock, and save all of it.
Fillable == (Profiles \cap Fixed) \cup {g \in Groups : mapping[g] = Absent}
BeginWhole(p, i, c) ==
    /\ Begin(p, [NoPage EXCEPT !.at = "lock", !.kind = "whole", !.item = i,
                               !.value = Changed(c, Old(mapping, i)), !.change = c,
                               !.seen = mapping])
    /\ entry' = Bootstrapped(mapping)

\* An edit asks whether its item is there, once it has read the file; the item may
\* be deleted after that.
Editable(r) == r.kind = "edit" => entry[r.item].at = "live" /\ mapping[r.item] # Absent

\* Mutant: the lock only excludes threads of one process.
LockPerProcess(p) ==
    /\ page[p].at = "lock" /\ Editable(page[p])
    /\ page' = [page EXCEPT ![p].at = IF page[p].kind = "create" THEN "allocate" ELSE "write",
                            ![p].seen = IF page[p].kind = "whole" THEN @ ELSE mapping]
    /\ lockedBy' = p
    /\ entry' = IF page[p].kind = "whole" THEN entry ELSE Bootstrapped(mapping)
    /\ UNCHANGED <<mapping, target, letter, replies, used>>

\* _config_edit_lock; then get_delivery_config, except for a whole file.
Lock(p) ==
    /\ page[p].at = "lock" /\ lockedBy = Nothing /\ Editable(page[p])
    /\ lockedBy' = p
    /\ page' = [page EXCEPT ![p].at = IF page[p].kind = "create" THEN "allocate" ELSE "write",
                            ![p].seen = IF page[p].kind = "whole" THEN @ ELSE mapping]
    /\ entry' = IF page[p].kind = "whole" THEN entry ELSE Bootstrapped(mapping)
    /\ UNCHANGED <<mapping, target, letter, replies, used>>

Leave(p) ==
    /\ page' = [page EXCEPT ![p] = NoPage]
    /\ lockedBy' = Nothing

RefuseEdit(p) ==
    /\ page[p].at = "lock" /\ lockedBy = Nothing /\ ~Editable(page[p])
    /\ Leave(p)
    /\ entry' = Bootstrapped(mapping)
    /\ UNCHANGED <<mapping, target, letter, replies, used>>

\* Mutant: the key finds the request of another account.
SameRequestUnscoped(by, key) == {i \in Entities : entry[i].key = key}

\* scoped_request_key: the item that this account's request made, if any.
SameRequest(by, key) == {i \in Entities : entry[i].owner = by /\ entry[i].key = key}

\* CatalogService.allocate, in one transaction: the item of an earlier request
\* with this key, or a new number.
Allocate(p) ==
    LET r == page[p]
        same == IF r.key = Nothing THEN {} ELSE SameRequest(r.by, r.key) IN
    /\ r.at = "allocate"
    /\ \/ \E i \in same :
              /\ ~Deleted(i)
              /\ page' = [page EXCEPT ![p].at = "write", ![p].item = i]
              /\ UNCHANGED <<entry, lockedBy>>
       \/ /\ same # {} /\ \A i \in same : Deleted(i)
          /\ Leave(p) /\ UNCHANGED entry
       \/ /\ same = {}
          /\ \E i \in Entities :
                 /\ entry[i].at = "none"
                 /\ entry' = [entry EXCEPT ![i] = [at |-> "live", owner |-> r.by, key |-> r.key]]
                 /\ page' = [page EXCEPT ![p].at = "write", ![p].item = i]
          /\ UNCHANGED lockedBy
    /\ UNCHANGED <<mapping, target, letter, replies, used>>

\* The file is replaced, what is new in it is imported, and the lock let go.
Write(p) ==
    LET r == page[p]
        file == [r.seen EXCEPT ![r.item] = r.value] IN
    /\ r.at = "write"
    /\ r.kind = "create" => r.seen[r.item] = Absent
    /\ mapping' = file
    /\ entry' = Bootstrapped(file)
    /\ replies' = IF r.kind = "create"
                    THEN replies \cup {[by |-> r.by, key |-> r.key, item |-> r.item]} ELSE replies
    /\ Leave(p)
    /\ UNCHANGED <<target, letter, used>>

\* A creation that was made before is answered if it asked for the same.
WriteNothing(p) ==
    LET r == page[p] IN
    /\ r.at = "write" /\ r.kind = "create" /\ r.seen[r.item] # Absent
    /\ replies' = IF r.seen[r.item] = r.value
                    THEN replies \cup {[by |-> r.by, key |-> r.key, item |-> r.item]} ELSE replies
    /\ Leave(p)
    /\ UNCHANGED <<entry, mapping, target, letter, used>>

\* The process dies: the kernel gives the lock back.
Die(p) ==
    /\ page[p].at # "idle"
    /\ page' = [page EXCEPT ![p] = NoPage]
    /\ lockedBy' = IF lockedBy = p THEN Nothing ELSE lockedBy
    /\ UNCHANGED <<entry, mapping, target, letter, replies, used>>

Page(p) ==
    \/ \E by \in Creators, key \in CreationKeys, v \in Values : BeginCreate(p, by, key, v)
    \/ \E i \in Profiles, v \in Values : BeginEdit(p, i, v)
    \/ \E i \in Groups, a \in Addresses :
           \/ BeginMember(p, i, Listed(a)) \/ BeginMember(p, i, Struck(a))
           \/ BeginWhole(p, i, Listed(a))
           \/ mapping[i] # Absent /\ BeginWhole(p, i, Struck(a))
    \/ \E i \in Fillable, v \in Values : BeginWhole(p, i, Filled(v))
    \/ Lock(p) \/ RefuseEdit(p) \/ Allocate(p) \/ Write(p) \/ WriteNothing(p) \/ Die(p)

-----------------------------------------------------------------------------
(* The catalog and the task. *)

Change == used.changes < MaxChanges /\ Spend("changes")

\* Handoffs that are pending or uncertain (`refused` stays prepared for good).
PendingLetter == letter.at \in {"prepared", "refused", "published", "queued", "claimed", "data",
                                "uncertain"}

TaskUses(i) == ~target.gone /\ i \in target.groups \cup {target.profile}
LetterUses(i) == PendingLetter /\ i \in {letter.group, letter.profile}

\* Mutant: only mail that has not been handed to a dispatcher counts.
UnusedByNew(i) ==
    ~TaskUses(i) /\ ~(i \in {letter.group, letter.profile} /\ letter.at \in {"prepared", "published"})

\* _assert_unused.
Unused(i) == ~TaskUses(i) /\ ~LetterUses(i)

\* CatalogService.delete and restore.
Delete(i) ==
    /\ Change
    /\ i \notin Fixed /\ entry[i].at = "live" /\ Unused(i)
    /\ entry' = [entry EXCEPT ![i].at = "deleted"]
    /\ UNCHANGED <<mapping, lockedBy, page, target, letter, replies>>

Restore(i) ==
    /\ Change
    /\ Deleted(i)
    /\ entry' = [entry EXCEPT ![i].at = "live"]
    /\ UNCHANGED <<mapping, lockedBy, page, target, letter, replies>>

\* _require_idle_for_edit.
IdleTask == letter.at \in {"none", "ended", "accepted", "failed", "uncertain"}

\* require_catalog_references: the items exist, belong to the task's owner and
\* are not deleted.
ReferencesStand(s, gs) == \A i \in gs \cup {s} : Owned(i) /\ ~Deleted(i)

\* publish_production_update and set_active_version of an edited task.  What the
\* editor checked before this transaction is not relied on.
PublishTask(s, gs) ==
    /\ Change
    /\ ~target.gone /\ IdleTask /\ ReferencesStand(s, gs)
    /\ <<s, gs>> # <<target.profile, target.groups>>
    /\ target' = [target EXCEPT !.version = @ + 1, !.profile = s, !.groups = gs]
    /\ UNCHANGED <<entry, mapping, lockedBy, page, letter, replies>>

\* approve_delivery: set_production_delivery_enabled.
SetDelivery ==
    /\ Change
    /\ ~target.gone
    /\ ~target.live => ReferencesStand(target.profile, target.groups)
    /\ target' = [target EXCEPT !.live = ~@]
    /\ UNCHANGED <<entry, mapping, lockedBy, page, letter, replies>>

\* delete_task and restore_task, which looks at nothing the task refers to.
RemoveTask ==
    /\ Change
    /\ ~target.gone /\ IdleTask /\ letter.at # "uncertain"
    /\ target' = [target EXCEPT !.gone = TRUE]
    /\ UNCHANGED <<entry, mapping, lockedBy, page, letter, replies>>

ReturnTask ==
    /\ Change
    /\ target.gone
    /\ target' = [target EXCEPT !.gone = FALSE]
    /\ UNCHANGED <<entry, mapping, lockedBy, page, letter, replies>>

Administer ==
    \/ \E i \in Entities : Delete(i) \/ Restore(i)
    \/ \E s \in Profiles, gs \in {{}} \cup {{g} : g \in Groups} : PublishTask(s, gs)
    \/ SetDelivery \/ RemoveTask \/ ReturnTask

-----------------------------------------------------------------------------
(* The mail of a run of the task. *)

Proceeds(at) == letter' = [letter EXCEPT !.at = at]
Otherwise == <<entry, mapping, lockedBy, page, target, replies>>

\* create_run and require_run_delivery_authorization.
StartRun ==
    /\ IdleTask /\ used.letters < MaxLetters
    /\ ~target.gone /\ target.live /\ mapping[target.profile] # Absent
    /\ ReferencesStand(target.profile, target.groups)
    /\ letter' = [NoLetter EXCEPT !.at = "running", !.profile = target.profile,
                                  !.version = target.version]
    /\ Spend("letters") /\ UNCHANGED Otherwise

\* catalog_recipient_snapshot, or the groups that the version allows.
Eligible ==
    IF target.groups # {} THEN target.groups
    ELSE {g \in Groups : Owned(g) /\ ~Deleted(g) /\ mapping[g] # Absent}

\* The mail is composed for one of them.
Select(g) ==
    /\ letter.at = "running" /\ g \in Eligible
    /\ letter' = [letter EXCEPT !.at = "selected", !.group = g]
    /\ UNCHANGED <<Otherwise, used>>

\* require_approval: it asks whether the group is deleted, and not whether the
\* sender account is.
MayGo ==
    /\ ~target.gone /\ target.live /\ target.version = letter.version
    /\ Owned(letter.group) /\ ~Deleted(letter.group)
    /\ mapping[letter.group] # Absent /\ mapping[letter.profile] # Absent

\* create_and_publish_handoff: approval, the prepared handoff, approval again and
\* the published one.  A mail that is refused in between stays prepared.
Approve ==
    /\ letter.at = "selected"
    /\ Proceeds(IF MayGo THEN "approved" ELSE "ended")
    /\ UNCHANGED <<Otherwise, used>>

Prepare ==
    /\ letter.at = "approved"
    /\ Proceeds("prepared")
    /\ UNCHANGED <<Otherwise, used>>

PublishLetter ==
    /\ letter.at = "prepared"
    /\ Proceeds(IF MayGo THEN "published" ELSE "refused")
    /\ UNCHANGED <<Otherwise, used>>

\* The run ends without a mail.
EndRun ==
    /\ letter.at \in {"running", "selected"}
    /\ Proceeds("ended")
    /\ UNCHANGED <<Otherwise, used>>

\* enqueue_handoff; _prepare_job and claim; what is refused waits.
Enqueue ==
    /\ letter.at = "published" /\ MayGo
    /\ Proceeds("queued")
    /\ UNCHANGED <<Otherwise, used>>

Claim ==
    /\ letter.at = "queued" /\ MayGo
    /\ Proceeds("claimed")
    /\ UNCHANGED <<Otherwise, used>>

\* start_data rechecks the task.
StartData ==
    /\ letter.at = "claimed"
    /\ Proceeds(IF ~target.gone /\ target.live /\ target.version = letter.version
                  THEN "data" ELSE "failed")
    /\ UNCHANGED <<Otherwise, used>>

Conclude ==
    /\ \/ letter.at = "claimed" /\ Proceeds("failed")
       \/ letter.at = "data" /\ \E r \in {"accepted", "failed", "uncertain"} : Proceeds(r)
    /\ UNCHANGED <<Otherwise, used>>

\* retry_email checks with require_approval, and inserts an attempt later.
CheckRetry ==
    /\ letter.at \in {"failed", "uncertain"} /\ ~letter.checked /\ MayGo
    /\ used.letters < MaxLetters
    /\ letter' = [letter EXCEPT !.checked = TRUE]
    /\ Spend("letters") /\ UNCHANGED Otherwise

InsertRetry ==
    /\ letter.checked /\ letter.at \in {"failed", "uncertain"}
    /\ letter' = [letter EXCEPT !.at = "queued", !.checked = FALSE, !.byhand = TRUE]
    /\ UNCHANGED <<Otherwise, used>>

Mail ==
    \/ StartRun \/ \E g \in Groups : Select(g)
    \/ Approve \/ Prepare \/ PublishLetter \/ EndRun
    \/ Enqueue \/ Claim \/ StartData \/ Conclude
    \/ CheckRetry \/ InsertRetry

SetNext == (\E p \in Pages : Page(p)) \/ Administer \/ Mail

SetSpec == SetInit /\ [][SetNext]_setVars

-----------------------------------------------------------------------------
(* Properties. *)

\* What a request that reads the file again under the lock saves leaves every
\* other item as it was saved last, whichever of the requests began first.  (What
\* it saves of its own item, and all that `delivery config` saves, may be made from
\* an older file: see EditsAreSerialized.)
SavesOneItem ==
    \A p \in Pages :
        page[p].at = "write" /\ page[p].kind # "whole" /\ page'[p].at = "idle"
            => \A i \in Entities \ {page[p].item} : mapping'[i] = mapping[i]
OthersAreKept == [][SavesOneItem]_setVars

\* An account's request key makes one item, which is that account's, although the
\* request may die between the catalog and the file, be repeated, and run beside
\* pages that import what the file has into the catalog of the host.
CreationIsOwned ==
    /\ \A r \in replies : entry[r.item].owner = r.by
    /\ \A r, q \in replies : r.by = q.by /\ r.key = q.key => r.item = q.item

\* No body is sent to a group, or from an account, that is deleted or belongs to
\* somebody else: not after the group was chosen, between the approvals, while
\* the mail waits, or when the task comes back without what it referred to.  The
\* sender account of an e-mail retry is not checked.
RoutesAreCurrent ==
    letter.at = "data" =>
        /\ Owned(letter.group) /\ ~Deleted(letter.group)
        /\ Owned(letter.profile) /\ (Deleted(letter.profile) => letter.byhand)

-----------------------------------------------------------------------------
(* What a docstring says of the lock. *)

\* _config_edit_lock: "Serialize whole read/modify/write operations across Web
\* processes."  Were they, the file would only ever change by what one request
\* asks for, applied to the file as it is.
Asked(p) ==
    [mapping EXCEPT ![page[p].item] = Changed(page[p].change, Old(mapping, page[p].item))]
OneEdit ==
    mapping' # mapping => \E p \in Pages : page[p].at = "write" /\ mapping' = Asked(p)
EditsAreSerialized == [][OneEdit]_setVars
=============================================================================
