--------------------------- MODULE RunFamilyProofs ---------------------------
(***************************************************************************)
(* The safety theorems of run families.  A run's parent was made before    *)
(* it, so the walk to the root ends; that is what makes a family of the    *)
(* runs that create_run and _insert_retry look at.                         *)
(***************************************************************************)
EXTENDS RunFamily, WellFoundedInduction, SequenceTheorems, TLAPS

---------------------------------------------------------------------------
(* The root of a run.                                                      *)

\* A set of naturals that is not empty has a least element.
LEMMA LeastNatural ==
    ASSUME NEW S, S \subseteq Nat, S # {}
    PROVE  \E x \in S : \A y \in S : x <= y
<1>1. PICK x \in S : \A y \in S : ~ (<<y, x>> \in OpToRel(<, Nat))
  BY NatLessThanWellFounded, WFMin
<1>2. \A y \in S : ~(y < x)
  BY <1>1 DEF OpToRel
<1> QED BY <1>2

\* g has the roots of the numbers up to n, where P has their parents, or 0.
RootsUpTo(P, g, n) == \A m \in 0 .. n : g[m] = IF P[m] # 0 THEN g[P[m]] ELSE m

\* Two walks to the root agree as far as both go.
LEMMA RootsAgree ==
    ASSUME NEW P, NEW g, NEW h, NEW n \in Nat,
           \A m \in Nat : P[m] # 0 => P[m] \in Nat /\ P[m] < m,
           RootsUpTo(P, g, n), RootsUpTo(P, h, n)
    PROVE  \A m \in 0 .. n : g[m] = h[m]
<1> DEFINE D == {m \in 0 .. n : g[m] # h[m]}
<1>1. ASSUME D # {} PROVE FALSE
  <2>0. D \subseteq Nat
    OBVIOUS
  <2>1. PICK d \in D : \A e \in D : d <= e
    <3> HIDE DEF D
    <3> QED BY <1>1, <2>0, LeastNatural
  <2>2. d \in 0 .. n /\ g[d] # h[d]
    OBVIOUS
  <2>3. CASE P[d] # 0
    <3>1. P[d] \in 0 .. n /\ P[d] < d
      BY <2>2, <2>3
    <3>2. g[P[d]] = h[P[d]]
      BY <2>1, <3>1
    <3> QED BY <2>2, <2>3, <3>2 DEF RootsUpTo
  <2>4. CASE P[d] = 0
    BY <2>2, <2>4 DEF RootsUpTo
  <2> QED BY <2>3, <2>4
<1> QED BY <1>1

\* There is a walk for any number of runs.
LEMMA RootsUpToExist ==
    ASSUME NEW P, \A m \in Nat : P[m] # 0 => P[m] \in Nat /\ P[m] < m, NEW n \in Nat
    PROVE  \E g \in [Nat -> Nat] : RootsUpTo(P, g, n)
<1> DEFINE B == {m \in Nat : ~\E g \in [Nat -> Nat] : RootsUpTo(P, g, m)}
<1>1. ASSUME B # {} PROVE FALSE
  <2>0. B \subseteq Nat
    OBVIOUS
  <2>1. PICK b \in B : \A e \in B : b <= e
    <3> HIDE DEF B
    <3> QED BY <1>1, <2>0, LeastNatural
  <2>2. b \in Nat /\ ~\E g \in [Nat -> Nat] : RootsUpTo(P, g, b)
    OBVIOUS
  <2>3. PICK g \in [Nat -> Nat] : \A m \in 0 .. b - 1 : g[m] = IF P[m] # 0 THEN g[P[m]] ELSE m
    <3>1. CASE b = 0
      <4>1. PICK z \in [Nat -> Nat] : z = [m \in Nat |-> m]
        OBVIOUS
      <4>2. 0 .. b - 1 = {}
        BY <3>1
      <4> QED BY <4>1, <4>2
    <3>2. CASE b # 0
      <4>1. PICK c \in Nat : c = b - 1 /\ c < b
        BY <2>2, <3>2
      <4>2. \E g \in [Nat -> Nat] : RootsUpTo(P, g, c)
        <5>1. c \notin B
          <6> HIDE DEF B
          <6> QED BY <2>1, <2>2, <4>1
        <5> QED BY <5>1
      <4>3. 0 .. c = 0 .. b - 1
        BY <4>1
      <4> QED BY <4>2, <4>3 DEF RootsUpTo
    <3> QED BY <3>1, <3>2
  <2>4. PICK v \in Nat : v = IF P[b] # 0 THEN g[P[b]] ELSE b
    BY <2>2
  <2>5. PICK h \in [Nat -> Nat] : h = [g EXCEPT ![b] = v]
    BY <2>2
  <2>6. h[b] = v /\ \A m \in Nat : m # b => h[m] = g[m]
    BY <2>2, <2>5
  <2>7. ASSUME NEW m \in 0 .. b PROVE h[m] = IF P[m] # 0 THEN h[P[m]] ELSE m
    <3>1. m \in Nat /\ (P[m] # 0 => P[m] \in Nat /\ P[m] < m)
      OBVIOUS
    <3>2. P[m] # 0 => h[P[m]] = g[P[m]]
      BY <2>2, <2>6, <3>1
    <3>3. CASE m = b
      BY <2>4, <2>6, <3>2, <3>3
    <3>4. CASE m # b
      <4>1. m \in 0 .. b - 1
        BY <2>2, <3>4
      <4> QED BY <2>3, <2>6, <3>1, <3>2, <3>4, <4>1
    <3> QED BY <3>3, <3>4
  <2> QED BY <2>2, <2>7 DEF RootsUpTo
<1> QED BY <1>1

\* There is a function that takes each run to its root.
LEMMA RootsExist ==
    ASSUME NEW P, \A m \in Nat : P[m] # 0 => P[m] \in Nat /\ P[m] < m
    PROVE  \E f : f = [m \in Nat |-> IF P[m] # 0 THEN f[P[m]] ELSE m]
<1> DEFINE G(n) == CHOOSE g \in [Nat -> Nat] : RootsUpTo(P, g, n)
           F == [n \in Nat |-> G(n)[n]]
<1>1. \A n \in Nat : G(n) \in [Nat -> Nat] /\ RootsUpTo(P, G(n), n)
  BY RootsUpToExist
<1> HIDE DEF G
<1>2. ASSUME NEW n \in Nat PROVE F[n] = IF P[n] # 0 THEN F[P[n]] ELSE n
  <2>1. G(n)[n] = IF P[n] # 0 THEN G(n)[P[n]] ELSE n
    BY <1>1 DEF RootsUpTo
  <2>2. CASE P[n] # 0
    <3>1. P[n] \in Nat /\ P[n] < n
      BY <2>2
    <3>2. PICK p \in Nat : p = P[n] /\ p < n
      BY <3>1
    <3>3. PICK g, h : g = G(n) /\ h = G(p)
      OBVIOUS
    <3>4. 0 .. p \subseteq 0 .. n /\ p \in 0 .. p
      BY <3>2
    <3>5. RootsUpTo(P, g, p) /\ RootsUpTo(P, h, p)
      BY <1>1, <3>2, <3>3, <3>4 DEF RootsUpTo
    <3>6. g[p] = h[p]
      BY <3>2, <3>4, <3>5, RootsAgree
    <3>7. G(n)[p] = G(p)[p]
      BY <3>3, <3>6
    <3> QED BY <2>1, <2>2, <3>2, <3>7
  <2>3. CASE P[n] = 0
    BY <2>1, <2>3
  <2> QED BY <2>2, <2>3
<1>3. F = [n \in Nat |-> F[n]]
  OBVIOUS
<1> HIDE DEF F
<1>4. F = [n \in Nat |-> IF P[n] # 0 THEN F[P[n]] ELSE n]
  BY <1>2, <1>3
<1> QED BY <1>4

\* The parents that the runs name have lower numbers.
Descends(rs) ==
    /\ Len(rs) \in Nat
    /\ \A r \in 1 .. Len(rs) : rs[r].order.parent \in Nat /\ rs[r].order.parent < r

\* The same of a sequence of runs in which parents come first.
LEMMA ChosenRoots ==
    ASSUME NEW rs, Descends(rs)
    PROVE  \E f : f = [r \in Nat |-> IF r \in 1 .. Len(rs) /\ rs[r].order.parent # 0
                                      THEN f[rs[r].order.parent] ELSE r]
<1> DEFINE P == [r \in Nat |-> IF r \in 1 .. Len(rs) THEN rs[r].order.parent ELSE 0]
<1>1. \A m \in Nat : P[m] # 0 => P[m] \in Nat /\ P[m] < m
  BY DEF Descends
<1>2. PICK f : f = [m \in Nat |-> IF P[m] # 0 THEN f[P[m]] ELSE m]
  <2> HIDE DEF P
  <2> QED BY <1>1, RootsExist
<1>3. \A m \in Nat : (IF P[m] # 0 THEN f[P[m]] ELSE m)
                       = IF m \in 1 .. Len(rs) /\ rs[m].order.parent # 0
                           THEN f[rs[m].order.parent] ELSE m
  OBVIOUS
<1>4. f = [r \in Nat |-> IF r \in 1 .. Len(rs) /\ rs[r].order.parent # 0
                           THEN f[rs[r].order.parent] ELSE r]
  <2> HIDE DEF P
  <2> QED BY <1>2, <1>3
<1> QED BY <1>4

\* A run's root is its parent's, or itself.
LEMMA RootRule ==
    ASSUME Descends(runs)
    PROVE  \A r \in Nat :
               Root[r] = IF r \in Runs /\ Parent(r) # 0 THEN Root[Parent(r)] ELSE r
<1>1. Root = [r \in Nat |-> IF r \in Runs /\ Parent(r) # 0 THEN Root[Parent(r)] ELSE r]
  BY ChosenRoots, Zenon DEF Root, Runs, Parent
<1> QED BY <1>1

\* The same after a step.
LEMMA RootRuleNext ==
    ASSUME Descends(runs')
    PROVE  \A r \in Nat :
               Root'[r] = IF r \in Runs' /\ Parent(r)' # 0 THEN Root'[Parent(r)'] ELSE r
<1>1. Root' = [r \in Nat |-> IF r \in Runs' /\ Parent(r)' # 0 THEN Root'[Parent(r)'] ELSE r]
  BY ChosenRoots, Zenon DEF Root, Runs, Parent
<1> QED BY <1>1

\* A root is not after its run.
LEMMA RootRange ==
    ASSUME Descends(runs)
    PROVE  \A r \in Runs : Root[r] \in Nat /\ Root[r] <= r
<1> DEFINE D == {r \in Runs : ~(Root[r] \in Nat /\ Root[r] <= r)}
<1>0. D \subseteq Nat
  BY DEF Runs, Descends
<1>1. ASSUME D # {} PROVE FALSE
  <2>1. PICK d \in D : \A e \in D : d <= e
    <3> HIDE DEF D
    <3> QED BY <1>0, <1>1, LeastNatural
  <2>2. d \in Runs /\ d \in Nat /\ ~(Root[d] \in Nat /\ Root[d] <= d)
    BY <1>0
  <2>3. CASE Parent(d) = 0
    BY <2>2, <2>3, RootRule
  <2>4. CASE Parent(d) # 0
    <3>1. PICK p \in Nat : p = Parent(d) /\ p \in Runs /\ p < d
      BY <2>2, <2>4 DEF Descends, Runs, Parent
    <3>2. p \notin D
      <4> HIDE DEF D
      <4> QED BY <2>1, <2>2, <3>1
    <3>3. Root[p] \in Nat /\ Root[p] <= p
      BY <3>1, <3>2
    <3>4. Root[d] = Root[p]
      BY <2>2, <2>4, <3>1, RootRule
    <3> QED BY <2>2, <3>1, <3>3, <3>4
  <2> QED BY <2>3, <2>4
<1> QED BY <1>1

\* Runs keep their parents and new ones come after them, so roots stay.
LEMMA RootsStay ==
    ASSUME Descends(runs), Descends(runs'), Len(runs) <= Len(runs'),
           \A r \in Runs : Parent(r)' = Parent(r)
    PROVE  \A r \in Runs : Root'[r] = Root[r]
<1> DEFINE D == {r \in Runs : Root'[r] # Root[r]}
<1>0. D \subseteq Nat /\ Runs \subseteq Runs'
  BY DEF Runs, Descends
<1>1. ASSUME D # {} PROVE FALSE
  <2>1. PICK d \in D : \A e \in D : d <= e
    <3> HIDE DEF D
    <3> QED BY <1>0, <1>1, LeastNatural
  <2>2. d \in Runs /\ d \in Runs' /\ d \in Nat /\ Root'[d] # Root[d]
    BY <1>0
  <2>3. CASE Parent(d) = 0
    BY <2>2, <2>3, RootRule, RootRuleNext
  <2>4. CASE Parent(d) # 0
    <3>1. PICK p \in Nat : p = Parent(d) /\ p \in Runs /\ p < d
      BY <2>2, <2>4 DEF Descends, Runs, Parent
    <3>2. p \notin D
      <4> HIDE DEF D
      <4> QED BY <2>1, <2>2, <3>1
    <3>3. Root'[p] = Root[p]
      BY <3>1, <3>2
    <3>4. Root[d] = Root[p] /\ Root'[d] = Root'[p]
      BY <2>2, <2>4, <3>1, RootRule, RootRuleNext
    <3> QED BY <2>2, <3>3, <3>4
  <2> QED BY <2>3, <2>4
<1> QED BY <1>1

---------------------------------------------------------------------------
(* The invariant.                                                          *)

Versions == DOMAIN Contract
Ops == {"enqueue", "retry", "compose_only", "send"}
Orders == [op : Ops, scope : {"full", "compose_only", "delivery_only"}, parent : Nat,
           version : Versions, source : Nat, rev : Nat, auth : {0} \cup Versions]
Keys == RequestKeys \cup {NoKey}
Handoffs == {"none", "prepared", "published", "queued", "failed", "uncertain", "smtp_accepted"}
RunRecords ==
    [order : Orders, key : Keys,
     status : {"queued", "running", "awaiting_receipt", "succeeded", "failed", "cancelled",
               "needs_attention"},
     cancel : BOOLEAN, clean : BOOLEAN,
     step : {"none", "begun", "stopped", "composed", "handed"},
     input : BOOLEAN, message : Nat, archive : {"none", "ready", "final"},
     handoff : Handoffs,
     job : {"none", "queued", "checked", "data", "failed", "uncertain", "smtp_accepted"},
     tries : Nat, doubt : BOOLEAN, byhand : BOOLEAN]
Commands == [op : Ops, key : Keys, order : Orders]
Emails == [op : {"email"}, run : Nat, tries : Nat, acknowledged : BOOLEAN]

\* An order for a run that comes after the first n - 1: what it sends is composed mail of
\* the same family.
OrderStands(o, n) ==
    /\ o.parent < n /\ o.source < n
    /\ o.op = "send" <=> o.scope = "delivery_only"
    /\ o.scope = "delivery_only" =>
          /\ o.parent # 0 /\ o.source \in 1 .. n - 1
          /\ Scope(o.source) # "delivery_only" /\ Root[o.source] = Root[o.parent]

CallStands(d) ==
    \/ d = Idle
    \/ d \in Commands /\ OrderStands(d.order, Len(runs) + 1)
    \/ d \in Emails /\ d.run \in Runs

\* Of a run's record: it is in the works, on the wire, past its composition.
BusyIs(x) == x.status \in {"queued", "running", "awaiting_receipt"}
WireIs(x) == x.job = "data" \/ x.handoff = "smtp_accepted" \/ x.doubt
ComposedIs(x) ==
    \/ x.step \in {"composed", "handed"} \/ x.handoff # "none"
    \/ x.job # "none" \/ x.doubt \/ x.status = "awaiting_receipt"
HeldIs(x) == x.job \in {"checked", "data"}

\* Where the message of a run was composed.
OriginIs(x, r) == IF x.order.scope = "delivery_only" THEN x.order.source ELSE r
MessageIs(x, r) ==
    x.message \in {0, OriginIs(x, r)} /\ (ComposedIs(x) => x.message # 0)

\* The dispatcher's run waits for its receipt, with its evidence archived.
SenderIs(x, r, holder) ==
    /\ holder = r <=> HeldIs(x)
    /\ holder = r => x.status = "awaiting_receipt" /\ x.archive = "ready"

FamTypes ==
    /\ runs \in Seq(RunRecords)
    /\ call = [c \in Callers |-> call[c]]
    /\ task \in [active : Versions, mode : BOOLEAN]
    /\ given \in Keys /\ sender \in {0} \cup Runs

RunsStand ==
    \A r \in Runs :
        OrderStands(runs[r].order, r) /\ MessageIs(runs[r], r) /\ SenderIs(runs[r], r, sender)
CallsStand == \A c \in Callers : CallStands(call[c])

\* While one run has a message on the wire, or may have, no other one with it is in the
\* works or on the wire, except where an operator repeated an attempt.
WireOnce ==
    \A r, s \in Runs :
        /\ r # s /\ OriginIs(runs[r], r) = OriginIs(runs[s], s)
        /\ WireIs(runs[r]) /\ ~runs[r].byhand /\ ~runs[s].byhand
        => ~BusyIs(runs[s]) /\ ~WireIs(runs[s])

Serial ==
    \A r, s \in Runs : r # s /\ BusyIs(runs[r]) /\ BusyIs(runs[s]) => Root[r] # Root[s]

FamInv ==
    FamTypes /\ RunsStand /\ CallsStand /\ Serial /\ WireOnce /\ KeyMakesOneRun /\ proper

\* What the type of runs says of one run.
LEMMA RunsAre ==
    ASSUME runs \in Seq(RunRecords)
    PROVE  /\ Len(runs) \in Nat /\ Runs = 1 .. Len(runs) /\ Runs \subseteq Nat \ {0}
           /\ \A r \in Runs : runs[r] \in RunRecords
BY LenProperties, ElementOfSeq DEF Runs

\* Parents come before their children.
LEMMA Descending ==
    ASSUME runs \in Seq(RunRecords), RunsStand
    PROVE  Descends(runs)
<1>1. \A r \in Runs : runs[r] \in RunRecords /\ OrderStands(runs[r].order, r)
  BY RunsAre DEF RunsStand
<1>2. \A r \in Runs : runs[r].order.parent \in Nat /\ runs[r].order.parent < r
  BY <1>1 DEF RunRecords, Orders, OrderStands
<1> QED BY <1>2, RunsAre DEF Descends

\* The composition that a run sends is one of its family.
LEMMA SourceInFamily ==
    ASSUME runs \in Seq(RunRecords), RunsStand, NEW r \in Runs
    PROVE  LET m == OriginIs(runs[r], r) IN
           /\ m \in Runs /\ m <= r /\ Root[m] = Root[r]
           /\ Scope(m) # "delivery_only"
<1>1. runs[r] \in RunRecords /\ OrderStands(runs[r].order, r) /\ r \in Nat
  BY RunsAre DEF RunsStand
<1>2. CASE runs[r].order.scope # "delivery_only"
  BY <1>1, <1>2 DEF OriginIs, Scope
<1>3. CASE runs[r].order.scope = "delivery_only"
  <2>1. PICK p \in Nat, m \in Nat :
            /\ p = runs[r].order.parent /\ m = runs[r].order.source
            /\ p # 0 /\ m \in 1 .. r - 1 /\ Scope(m) # "delivery_only" /\ Root[m] = Root[p]
    BY <1>1, <1>3 DEF OrderStands, RunRecords, Orders
  <2>2. Root[r] = Root[p]
    BY <1>1, <2>1, Descending, RootRule DEF Parent
  <2>3. m \in Runs /\ m <= r
    BY <1>1, <2>1, RunsAre
  <2> QED BY <1>3, <2>1, <2>2, <2>3 DEF OriginIs
<1> QED BY <1>2, <1>3

---------------------------------------------------------------------------
(* What later runs leave alone.                                            *)

\* The runs there were keep their orders; others may have come after them.
Grown ==
    /\ runs' \in Seq(RunRecords) /\ Len(runs) <= Len(runs')
    /\ \A r \in Runs : runs'[r].order = runs[r].order
    /\ Descends(runs')

\* An order stays right while runs are only added.
LEMMA OrderStays ==
    ASSUME runs \in Seq(RunRecords), RunsStand, Grown, NEW o \in Orders,
           NEW n \in Nat, n <= Len(runs) + 1, OrderStands(o, n), NEW m \in Nat, n <= m
    PROVE  OrderStands(o, m)'
<1>1. \A r \in Runs : Root'[r] = Root[r] /\ Scope(r)' = Scope(r)
  BY Descending, RootsStay DEF Grown, Parent, Scope
<1>2. PICK p \in Nat, s \in Nat : p = o.parent /\ s = o.source
  BY DEF Orders
<1>3. /\ p < m /\ s < m /\ (o.op = "send" <=> o.scope = "delivery_only")
      /\ o.scope = "delivery_only" =>
            /\ p # 0 /\ s \in 1 .. n - 1 /\ p \in Runs /\ s \in Runs
            /\ Scope(s) # "delivery_only" /\ Root[s] = Root[p]
  BY <1>2, RunsAre DEF OrderStands
<1>4. o.scope = "delivery_only" =>
            p # 0 /\ s \in 1 .. m - 1 /\ Scope(s)' # "delivery_only" /\ Root'[s] = Root'[p]
  BY <1>1, <1>3
<1> QED BY <1>2, <1>3, <1>4 DEF OrderStands

\* What a caller has read stays right while runs are only added.
LEMMA CallStays ==
    ASSUME runs \in Seq(RunRecords), RunsStand, Grown, NEW d, CallStands(d)
    PROVE  CallStands(d)'
<1>0. PICK n \in Nat, m \in Nat : n = Len(runs) + 1 /\ m = Len(runs') + 1 /\ n <= m
  BY RunsAre, LenProperties DEF Grown
<1>1. CASE d = Idle
  BY <1>1 DEF CallStands, Idle
<1>2. CASE d \in Commands /\ OrderStands(d.order, Len(runs) + 1)
  <2>1. PICK o \in Orders : o = d.order /\ OrderStands(o, n)
    BY <1>0, <1>2 DEF Commands
  <2>2. OrderStands(o, m)'
    BY <1>0, <2>1, OrderStays
  <2> QED BY <1>0, <1>2, <2>1, <2>2 DEF CallStands, OrderStands
<1>3. CASE d \in Emails /\ d.run \in Runs
  BY <1>3, RunsAre DEF Grown, CallStands, Runs
<1> QED BY <1>1, <1>2, <1>3 DEF CallStands

\* What one step may do to a run: it comes into the works again only where its family is
\* clear, by hand, and goes on the wire only from the works.
Moves(o, x, r) ==
    /\ x.order = o.order /\ x.key = o.key /\ (o.byhand => x.byhand)
    /\ BusyIs(x) => BusyIs(o) \/ (x.byhand /\ FamilyClear(r, {r}, FALSE))
    /\ WireIs(x) => WireIs(o) \/ BusyIs(o)
    /\ MessageIs(x, r)

\* A step that makes no run, and brings at most run n into the works.
LEMMA RunsMove ==
    ASSUME FamInv, runs' \in Seq(RunRecords), Len(runs') = Len(runs),
           \A r \in Runs : Moves(runs[r], runs'[r], r) /\ SenderIs(runs'[r], r, sender'),
           NEW n, \A r \in Runs : BusyIs(runs'[r]) /\ ~BusyIs(runs[r]) => r = n,
           sender' \in {0} \cup Runs,
           \A c \in Callers : CallStands(call'[c]),
           call' = [c \in Callers |-> call'[c]],
           task' \in [active : Versions, mode : BOOLEAN], given' \in Keys, proper'
    PROVE  FamInv'
<1>0. runs \in Seq(RunRecords) /\ RunsStand
  BY DEF FamInv, FamTypes
<1>1. Runs' = Runs /\ \A r \in Runs : runs[r] \in RunRecords /\ runs'[r] \in RunRecords
  BY <1>0, RunsAre, ElementOfSeq DEF Runs
<1>2. Descends(runs') /\ Grown
  <2>1. Descends(runs)
    BY <1>0, Descending
  <2>2. \A r \in Runs : runs'[r].order = runs[r].order
    BY DEF Moves
  <2>3. Descends(runs')
    BY <2>1, <2>2, <1>0, RunsAre DEF Descends
  <2> QED BY <1>0, <2>2, <2>3, RunsAre DEF Grown
<1>3. \A r \in Runs : Root'[r] = Root[r]
  BY <1>0, <1>2, Descending, RootsStay DEF Grown, Parent
<1>4. \A r \in Runs : OriginIs(runs'[r], r) = OriginIs(runs[r], r)
  BY DEF Moves, OriginIs
<1>5. RunsStand'
  <2>1. ASSUME NEW r \in Runs PROVE OrderStands(runs[r].order, r)'
    <3>1. PICK o \in Orders : o = runs[r].order /\ o = runs'[r].order /\ OrderStands(o, r)
      BY <1>0, <1>1 DEF RunsStand, RunRecords, Moves
    <3>2. r \in Nat /\ r <= Len(runs) + 1
      BY <1>0, RunsAre
    <3>3. OrderStands(o, r)'
      BY <1>0, <1>2, <3>1, <3>2, OrderStays
    <3> QED BY <3>1, <3>3 DEF OrderStands
  <2>2. \A r \in Runs : MessageIs(runs'[r], r)
    BY DEF Moves
  <2> QED BY <1>1, <2>1, <2>2 DEF RunsStand, SenderIs, MessageIs, OriginIs, ComposedIs
<1>6. CallsStand'
  <2>1. ASSUME NEW c \in Callers PROVE CallStands(call[c])'
    <3>1. PICK d : d = call'[c] /\ CallStands(d)
      OBVIOUS
    <3>2. CallStands(d)'
      BY <1>0, <1>2, <3>1, CallStays
    <3> QED BY <3>1, <3>2 DEF CallStands
  <2> QED BY <2>1 DEF CallsStand, CallStands
<1>7. ASSUME NEW r \in Runs, NEW s \in Runs, r # s, Root[r] = Root[s]
      PROVE  /\ ~(BusyIs(runs[r]) /\ BusyIs(runs[s]))
             /\ BusyIs(runs'[r]) /\ ~BusyIs(runs[r]) => ~BusyIs(runs[s])
  <2>1. ~(BusyIs(runs[r]) /\ BusyIs(runs[s]))
    BY <1>7 DEF FamInv, Serial
  <2>2. BusyIs(runs'[r]) /\ ~BusyIs(runs[r]) => ~BusyIs(runs[s])
    BY <1>7 DEF Moves, FamilyClear, Family, Pending, Busy, BusyIs
  <2> QED BY <2>1, <2>2
<1>8. Serial'
  <2>1. ASSUME NEW r \in Runs, NEW s \in Runs, r # s, BusyIs(runs'[r]), BusyIs(runs'[s])
        PROVE  Root[r] # Root[s]
    BY <1>7, <2>1
  <2> QED BY <1>1, <1>3, <2>1 DEF Serial
<1>9. WireOnce'
  <2>1. ASSUME NEW r \in Runs, NEW s \in Runs, r # s,
               OriginIs(runs[r], r) = OriginIs(runs[s], s),
               WireIs(runs'[r]), ~runs'[r].byhand, ~runs'[s].byhand
        PROVE  ~BusyIs(runs'[s]) /\ ~WireIs(runs'[s])
    <3>1. Root[r] = Root[s]
      BY <1>0, <2>1, SourceInFamily
    <3>2. ~runs[r].byhand /\ ~runs[s].byhand
      BY <2>1, <1>1 DEF Moves, RunRecords
    <3>3. /\ BusyIs(runs'[s]) => BusyIs(runs[s])
          /\ WireIs(runs'[s]) => WireIs(runs[s]) \/ BusyIs(runs[s])
          /\ WireIs(runs[r]) \/ BusyIs(runs[r])
      BY <2>1 DEF Moves
    <3>4. /\ WireIs(runs[r]) => ~BusyIs(runs[s]) /\ ~WireIs(runs[s])
          /\ WireIs(runs[s]) => ~BusyIs(runs[r]) /\ ~WireIs(runs[r])
      BY <2>1, <3>2 DEF FamInv, WireOnce
    <3>5. ~(BusyIs(runs[r]) /\ BusyIs(runs[s]))
      BY <1>7, <2>1, <3>1
    <3> QED BY <3>3, <3>4, <3>5
  <2> QED BY <1>1, <1>4, <2>1 DEF WireOnce
<1>10. KeyMakesOneRun'
  <2>1. \A r \in Runs : runs'[r].key = runs[r].key
    BY DEF Moves
  <2>2. \A r, s \in Runs : runs[r].key # NoKey /\ runs[r].key = runs[s].key => r = s
    BY DEF FamInv, KeyMakesOneRun
  <2>3. \A r, s \in Runs : runs'[r].key # NoKey /\ runs'[r].key = runs'[s].key => r = s
    BY <2>1, <2>2
  <2> QED BY <1>1, <2>3 DEF KeyMakesOneRun, NoKey
<1>11. FamTypes'
  BY <1>1 DEF FamTypes
<1> QED BY <1>5, <1>6, <1>8, <1>9, <1>10, <1>11 DEF FamInv

---------------------------------------------------------------------------
(* The steps of one run.                                                   *)

\* A run's record, and what the invariant says of it.
LEMMA RunIs ==
    ASSUME FamInv, NEW r \in Runs
    PROVE  /\ runs \in Seq(RunRecords) /\ RunsStand
           /\ runs[r] \in RunRecords /\ r \in Nat \ {0} /\ r \in 1 .. Len(runs)
           /\ OrderStands(runs[r].order, r) /\ MessageIs(runs[r], r)
           /\ SenderIs(runs[r], r, sender)
BY RunsAre DEF FamInv, FamTypes, RunsStand

\* Calls end, or stand on what they read.
CallsGo ==
    /\ call' = [c \in Callers |-> call'[c]]
    /\ \A c \in Callers : CallStands(call'[c])

\* A step that leaves the calls alone, or answers one, keeps them right.
LEMMA CallsThatGo ==
    ASSUME FamInv, UNCHANGED call \/ \E c \in Callers : Answered(c)
    PROVE  CallsGo
<1>0. call = [c \in Callers |-> call[c]] /\ \A c \in Callers : CallStands(call[c])
  BY DEF FamInv, FamTypes, CallsStand
<1>1. CASE UNCHANGED call
  BY <1>0, <1>1 DEF CallsGo
<1>2. ASSUME NEW c \in Callers, Answered(c) PROVE CallsGo
  <2>1. call' = [call EXCEPT ![c] = Idle]
    BY <1>2 DEF Answered
  <2>2. call' = [d \in Callers |-> call'[d]]
    BY <1>0, <2>1
  <2>3. \A d \in Callers : CallStands(call'[d])
    BY <1>0, <2>1 DEF CallStands
  <2> QED BY <2>2, <2>3 DEF CallsGo
<1> QED BY <1>1, <1>2

TaskStands == task \in [active : Versions, mode : BOOLEAN] /\ given \in Keys

\* A step of one run: what is to be shown of it.
LEMMA OneRunMoves ==
    ASSUME FamInv, NEW r \in Runs, NEW x \in RunRecords, runs' = [runs EXCEPT ![r] = x],
           Moves(runs[r], x, r), SenderIs(x, r, sender'), sender' \in {0, r, sender},
           \A s \in Runs : s # r => (sender' = s <=> sender = s),
           CallsGo, TaskStands', proper'
    PROVE  FamInv'
<1>0. runs \in Seq(RunRecords)
  BY DEF FamInv, FamTypes
<1>1. /\ runs' \in Seq(RunRecords) /\ Len(runs') = Len(runs)
      /\ runs'[r] = x /\ \A s \in Runs : s # r => runs'[s] = runs[s]
  BY <1>0, ExceptSeq DEF Runs
<1>2. ASSUME NEW s \in Runs
      PROVE  Moves(runs[s], runs'[s], s) /\ SenderIs(runs'[s], s, sender')
  <2>1. CASE s = r
    BY <1>1, <2>1
  <2>2. CASE s # r
    BY <1>1, <2>2, RunIs DEF Moves, SenderIs
  <2> QED BY <2>1, <2>2
<1>3. Runs' = Runs
  BY <1>1 DEF Runs
<1>4. sender' \in {0} \cup Runs'
  BY <1>3 DEF FamInv, FamTypes
<1> QED BY <1>1, <1>2, <1>3, <1>4, RunsMove DEF CallsGo, TaskStands

\* A step of no run: what is to be shown of it.
LEMMA NoRunMoves ==
    ASSUME FamInv, UNCHANGED <<runs, sender>>, CallsGo, TaskStands', proper'
    PROVE  FamInv'
<1>0. runs \in Seq(RunRecords) /\ Runs' = Runs /\ sender' \in {0} \cup Runs'
  BY DEF FamInv, FamTypes, Runs
<1>1. \A r \in Runs : Moves(runs[r], runs'[r], r) /\ SenderIs(runs'[r], r, sender')
  BY RunIs DEF Moves
<1> QED BY <1>0, <1>1, RunsMove DEF CallsGo, TaskStands

\* A worker's step, of a run that the dispatcher does not hold.
LEMMA WorkerMoves ==
    ASSUME FamInv, NEW r \in Runs, NEW x \in RunRecords, runs' = [runs EXCEPT ![r] = x],
           Moves(runs[r], x, r), runs[r].status # "awaiting_receipt", x.job = runs[r].job, Worker
    PROVE  FamInv'
<1>1. SenderIs(x, r, sender')
  BY RunIs DEF SenderIs, HeldIs, Worker
<1>2. CallsGo /\ TaskStands' /\ proper'
  BY CallsThatGo DEF Worker, TaskStands, FamInv, FamTypes
<1> QED BY <1>1, <1>2, OneRunMoves DEF Worker

\* A queued run is claimed; its family had nothing else in the works.
LEMMA ClaimKeeps == ASSUME FamInv, NEW r \in Runs, claim_run(r) PROVE FamInv'
<1>0. PICK o \in RunRecords : o = runs[r] /\ MessageIs(o, r) /\ o.status = "queued"
  BY RunIs DEF claim_run
<1>1. PICK x \in RunRecords : x = [o EXCEPT !.status = "running", !.step = "begun"]
  BY DEF RunRecords
<1>2. /\ x.status = "running" /\ x.step = "begun" /\ x.order = o.order /\ x.key = o.key
      /\ x.byhand = o.byhand /\ x.job = o.job /\ x.handoff = o.handoff /\ x.doubt = o.doubt
      /\ x.message = o.message
  BY <1>1 DEF RunRecords
<1>3. Moves(o, x, r)
  BY <1>0, <1>2 DEF Moves, BusyIs, WireIs, MessageIs, ComposedIs, OriginIs
<1>4. runs' = [runs EXCEPT ![r] = x] /\ Worker
  BY <1>0, <1>1 DEF claim_run
<1> QED BY <1>0, <1>2, <1>3, <1>4, WorkerMoves

\* A running run composes its message and says which it is.
LEMMA ComposeKeeps == ASSUME FamInv, NEW r \in Runs, Compose(r) PROVE FamInv'
<1>0. PICK o \in RunRecords : o = runs[r] /\ MessageIs(o, r) /\ o.status = "running"
  BY RunIs DEF Compose, At
<1>1. MessageOf(r) = OriginIs(o, r) /\ OriginIs(o, r) \in Nat \ {0}
  <2>1. PICK m \in Runs : m = OriginIs(o, r) /\ Scope(m) # "delivery_only"
    BY <1>0, RunIs, SourceInFamily
  <2>2. m \in Nat \ {0} /\ runs[m].message \in {0, m}
    BY <2>1, RunIs DEF MessageIs, OriginIs, Scope
  <2>3. CASE Scope(r) = "delivery_only"
    <3>1. m = o.order.source /\ Prepared(m)
      BY <1>0, <2>1, <2>3 DEF Compose, SourceStands, OriginIs, Scope
    <3> QED BY <1>0, <2>1, <2>2, <2>3, <3>1 DEF Prepared, MessageOf
  <2>4. CASE Scope(r) # "delivery_only"
    BY <1>0, <2>1, <2>2, <2>4 DEF MessageOf, OriginIs, Scope
  <2> QED BY <2>3, <2>4
<1>2. PICK message \in Nat, step \in {"stopped", "composed"} :
          /\ runs' = [runs EXCEPT ![r].step = step, ![r].input = TRUE, ![r].message = message]
          /\ \/ step = "stopped" /\ message = o.message
             \/ message = OriginIs(o, r) /\ message # 0
  <2>1. CASE runs' = [runs EXCEPT ![r].step = "stopped", ![r].input = TRUE]
    <3>1. o.message \in Nat
      BY DEF RunRecords
    <3>2. PICK y \in RunRecords : y = [o EXCEPT !.step = "stopped", !.input = TRUE]
      BY DEF RunRecords
    <3>3. y = [o EXCEPT !.step = "stopped", !.input = TRUE, !.message = o.message]
      BY <3>1, <3>2 DEF RunRecords
    <3>4. runs' = [runs EXCEPT ![r] = y]
      BY <1>0, <2>1, <3>2
    <3>5. runs' = [runs EXCEPT ![r].step = "stopped", ![r].input = TRUE,
                               ![r].message = o.message]
      BY <1>0, <3>3, <3>4
    <3> QED BY <3>1, <3>5
  <2>2. CASE runs' = [runs EXCEPT ![r].step = "composed", ![r].input = TRUE,
                                  ![r].message = MessageOf(r)]
    BY <1>1, <2>2
  <2> QED BY <2>1, <2>2 DEF Compose
<1>3. PICK x \in RunRecords : x = [o EXCEPT !.step = step, !.input = TRUE, !.message = message]
  BY DEF RunRecords
<1>4. /\ x.status = o.status /\ x.step = step /\ x.order = o.order /\ x.key = o.key
      /\ x.byhand = o.byhand /\ x.job = o.job /\ x.handoff = o.handoff /\ x.doubt = o.doubt
      /\ x.message = message
  BY <1>3 DEF RunRecords
<1>5. Moves(o, x, r)
  BY <1>0, <1>2, <1>4 DEF Moves, BusyIs, WireIs, MessageIs, ComposedIs, OriginIs
<1>6. runs' = [runs EXCEPT ![r] = x] /\ Worker
  BY <1>0, <1>2, <1>3 DEF Compose
<1> QED BY <1>0, <1>4, <1>5, <1>6, WorkerMoves

\* The handoff of a composed run that is approved is saved, published or not.
LEMMA HandoffKeeps == ASSUME FamInv, NEW r \in Runs, create_and_publish_handoff(r) PROVE FamInv'
<1>0. PICK o \in RunRecords : /\ o = runs[r] /\ MessageIs(o, r) /\ o.status = "running"
                              /\ o.step = "composed"
  BY RunIs DEF create_and_publish_handoff, At
<1>1. PICK step \in {"stopped", "handed"}, handoff \in {"prepared", "published"} :
          runs' = [runs EXCEPT ![r].step = step, ![r].handoff = handoff]
  BY DEF create_and_publish_handoff
<1>2. PICK x \in RunRecords : x = [o EXCEPT !.step = step, !.handoff = handoff]
  BY DEF RunRecords, Handoffs
<1>3. /\ x.status = o.status /\ x.order = o.order /\ x.key = o.key
      /\ x.byhand = o.byhand /\ x.job = o.job /\ x.handoff = handoff /\ x.doubt = o.doubt
      /\ x.message = o.message
  BY <1>2 DEF RunRecords
<1>4. Moves(o, x, r)
  BY <1>0, <1>3 DEF Moves, BusyIs, WireIs, MessageIs, ComposedIs, OriginIs
<1>5. runs' = [runs EXCEPT ![r] = x] /\ Worker
  BY <1>0, <1>1, <1>2 DEF create_and_publish_handoff
<1> QED BY <1>0, <1>3, <1>4, <1>5, WorkerMoves

\* finalize, and a lease that expires.
LEMMA EndKeeps ==
    ASSUME FamInv, NEW r \in Runs, FinalizeDone(r) \/ FinalizeFailed(r) \/ mark_stale_attention(r)
    PROVE  FamInv'
<1>0. PICK o \in RunRecords : o = runs[r] /\ MessageIs(o, r) /\ o.status = "running"
  BY RunIs DEF FinalizeDone, FinalizeFailed, mark_stale_attention, At
<1>9. o.handoff \in Handoffs /\ "published" \in Handoffs /\ "failed" \in Handoffs
  BY DEF RunRecords, Handoffs
<1>1. PICK status \in {"awaiting_receipt", "cancelled", "failed", "needs_attention"},
           handoff \in Handoffs, archive \in {"ready", "final", "none"} :
          /\ Ended(r, status, handoff, archive)
          /\ handoff \in {o.handoff, "published", "failed"}
          /\ handoff # o.handoff \/ status = "awaiting_receipt" => o.step = "handed"
  BY <1>0, <1>9 DEF FinalizeDone, FinalizeFailed, mark_stale_attention, At
<1>2. PICK x \in RunRecords : x = [o EXCEPT !.step = "none", !.status = status,
                                            !.handoff = handoff, !.archive = archive]
  BY DEF RunRecords
<1>3. /\ x.status = status /\ x.order = o.order /\ x.key = o.key /\ x.step = "none"
      /\ x.byhand = o.byhand /\ x.job = o.job /\ x.handoff = handoff /\ x.doubt = o.doubt
      /\ x.message = o.message
  BY <1>2 DEF RunRecords
<1>4. Moves(o, x, r)
  BY <1>0, <1>1, <1>3 DEF Moves, BusyIs, WireIs, MessageIs, ComposedIs, OriginIs
<1>5. runs' = [runs EXCEPT ![r] = x] /\ Worker
  BY <1>0, <1>1, <1>2 DEF Ended, FinalizeDone, FinalizeFailed, mark_stale_attention
<1> QED BY <1>0, <1>3, <1>4, <1>5, WorkerMoves

\* The worker lets go of a run that is no longer running.
LEMMA ReleaseKeeps == ASSUME FamInv, NEW r \in Runs, release_lease(r) PROVE FamInv'
<1>0. PICK o \in RunRecords : o = runs[r] /\ MessageIs(o, r) /\ SenderIs(o, r, sender)
  BY RunIs
<1>1. PICK x \in RunRecords : x = [o EXCEPT !.clean = TRUE]
  BY DEF RunRecords
<1>2. /\ x.status = o.status /\ x.step = o.step /\ x.order = o.order /\ x.key = o.key
      /\ x.byhand = o.byhand /\ x.job = o.job /\ x.handoff = o.handoff /\ x.doubt = o.doubt
      /\ x.message = o.message /\ x.archive = o.archive
  BY <1>1 DEF RunRecords
<1>3. Moves(o, x, r) /\ SenderIs(x, r, sender)
  BY <1>0, <1>2 DEF Moves, BusyIs, WireIs, MessageIs, ComposedIs, OriginIs, SenderIs, HeldIs
<1>4. runs' = [runs EXCEPT ![r] = x] /\ Worker
  BY <1>0, <1>1 DEF release_lease
<1>5. CallsGo /\ TaskStands' /\ proper'
  BY <1>4, CallsThatGo DEF Worker, TaskStands, FamInv, FamTypes
<1> QED BY <1>0, <1>3, <1>4, <1>5, OneRunMoves DEF Worker

\* The dispatcher's steps.
LEMMA EnqueueKeeps == ASSUME FamInv, NEW r \in Runs, enqueue_handoff(r) PROVE FamInv'
<1>0. PICK o \in RunRecords : /\ o = runs[r] /\ MessageIs(o, r) /\ SenderIs(o, r, sender)
                              /\ o.job = "none" /\ o.status = "awaiting_receipt"
  BY RunIs DEF enqueue_handoff, Checked
<1>1. PICK x \in RunRecords : x = [o EXCEPT !.job = "queued", !.handoff = "queued", !.tries = 1]
  BY DEF RunRecords, Handoffs
<1>2. /\ x.status = o.status /\ x.step = o.step /\ x.order = o.order /\ x.key = o.key
      /\ x.byhand = o.byhand /\ x.job = "queued" /\ x.handoff = "queued" /\ x.doubt = o.doubt
      /\ x.message = o.message /\ x.archive = o.archive
  BY <1>1 DEF RunRecords
<1>3. Moves(o, x, r) /\ SenderIs(x, r, sender)
  BY <1>0, <1>2 DEF Moves, BusyIs, WireIs, MessageIs, ComposedIs, OriginIs, SenderIs, HeldIs
<1>4. runs' = [runs EXCEPT ![r] = x] /\ UNCHANGED <<sender, proper>> /\ Dispatcher
  BY <1>0, <1>1 DEF enqueue_handoff
<1>5. CallsGo /\ TaskStands' /\ proper'
  BY <1>4, CallsThatGo DEF Dispatcher, TaskStands, FamInv, FamTypes
<1> QED BY <1>0, <1>3, <1>4, <1>5, OneRunMoves

\* The dispatcher prepares the job of a run that awaits its receipt.
LEMMA PrepareKeeps == ASSUME FamInv, NEW r \in Runs, PrepareJob(r) PROVE FamInv'
<1>0. PICK o \in RunRecords : /\ o = runs[r] /\ MessageIs(o, r)
                              /\ o.status = "awaiting_receipt" /\ o.archive = "ready"
                              /\ o.job = "queued" /\ sender = 0
  BY RunIs DEF PrepareJob, Checked
<1>1. PICK x \in RunRecords : x = [o EXCEPT !.job = "checked"]
  BY DEF RunRecords
<1>2. /\ x.status = o.status /\ x.step = o.step /\ x.order = o.order /\ x.key = o.key
      /\ x.byhand = o.byhand /\ x.job = "checked" /\ x.handoff = o.handoff /\ x.doubt = o.doubt
      /\ x.message = o.message /\ x.archive = o.archive
  BY <1>1 DEF RunRecords
<1>3. Moves(o, x, r) /\ SenderIs(x, r, r)
  BY <1>0, <1>2 DEF Moves, BusyIs, WireIs, MessageIs, ComposedIs, OriginIs, SenderIs, HeldIs
<1>4. runs' = [runs EXCEPT ![r] = x] /\ sender' = r /\ UNCHANGED proper /\ Dispatcher
  BY <1>0, <1>1 DEF PrepareJob
<1>5. CallsGo /\ TaskStands' /\ proper'
  BY <1>4, CallsThatGo DEF Dispatcher, TaskStands, FamInv, FamTypes
<1>6. \A s \in Runs : s # 0
  BY RunIs
<1> QED BY <1>0, <1>3, <1>4, <1>5, <1>6, OneRunMoves

\* The transaction of start_data has the task and the cancellation as they are, and the
\* archive that the claim checked stays while the run waits for its receipt.
LEMMA StartsOnCurrentTerms ==
    ASSUME FamInv, NEW r \in Runs, start_data(r)
    PROVE  OnCurrentTerms(r)
<1>1. runs[r].archive = "ready"
  BY RunIs DEF start_data, SenderIs, HeldIs
<1>2. SameContract(runs[r].order.version, task.active)
  BY DEF start_data, VersionHolds, Valid, SameContract
<1> QED BY <1>1, <1>2 DEF OnCurrentTerms, start_data

\* DATA starts for the job the dispatcher holds.
LEMMA StartKeeps == ASSUME FamInv, NEW r \in Runs, start_data(r) PROVE FamInv'
<1>0. PICK o \in RunRecords : /\ o = runs[r] /\ MessageIs(o, r) /\ SenderIs(o, r, sender)
                              /\ o.status = "awaiting_receipt" /\ o.job = "checked"
  BY RunIs DEF start_data
<1>1. PICK x \in RunRecords : x = [o EXCEPT !.job = "data"]
  BY DEF RunRecords
<1>2. /\ x.status = o.status /\ x.step = o.step /\ x.order = o.order /\ x.key = o.key
      /\ x.byhand = o.byhand /\ x.job = "data" /\ x.handoff = o.handoff /\ x.doubt = o.doubt
      /\ x.message = o.message /\ x.archive = o.archive
  BY <1>1 DEF RunRecords
<1>3. Moves(o, x, r) /\ SenderIs(x, r, sender)
  BY <1>0, <1>2 DEF Moves, BusyIs, WireIs, MessageIs, ComposedIs, OriginIs, SenderIs, HeldIs
<1>4. runs' = [runs EXCEPT ![r] = x] /\ UNCHANGED sender /\ Dispatcher
  BY <1>0, <1>1 DEF start_data
<1>5. CallsGo /\ TaskStands'
  BY <1>4, CallsThatGo DEF Dispatcher, TaskStands, FamInv, FamTypes
<1>6. proper'
  BY StartsOnCurrentTerms DEF start_data, FamInv
<1> QED BY <1>0, <1>3, <1>4, <1>5, <1>6, OneRunMoves

\* An attempt that is over or queued again.
LEMMA AttemptMoves ==
    ASSUME FamInv, NEW r \in Runs, NEW o \in RunRecords, o = runs[r], MessageIs(o, r),
           NEW x \in RunRecords, runs' = [runs EXCEPT ![r] = x],
           x.order = o.order, x.key = o.key, x.byhand = o.byhand, x.message = o.message,
           o.job # "none", ~HeldIs(x), sender' = 0, sender \in {0, r},
           BusyIs(o) \/ (~BusyIs(x) /\ x.handoff # "smtp_accepted" /\ x.doubt = o.doubt),
           UNCHANGED proper, Dispatcher
    PROVE  FamInv'
<1>0. \A s \in Runs : s # 0
  BY RunIs
<1>1. Moves(o, x, r)
  BY DEF Moves, BusyIs, WireIs, MessageIs, ComposedIs, OriginIs, HeldIs
<1>2. SenderIs(x, r, sender')
  BY <1>0 DEF SenderIs
<1>3. CallsGo /\ TaskStands' /\ proper'
  BY CallsThatGo DEF Dispatcher, TaskStands, FamInv, FamTypes
<1> QED BY <1>0, <1>1, <1>2, <1>3, OneRunMoves

\* A job that was not sent ends its run as failed, cancelled or in doubt.
LEMMA NotSentKeeps ==
    ASSUME FamInv, NEW r \in Runs, runs[r].job # "none", sender' = 0, sender \in {0, r},
           runs' = NotSent(r), UNCHANGED proper, Dispatcher
    PROVE  FamInv'
<1>0. PICK o \in RunRecords : o = runs[r] /\ MessageIs(o, r)
  BY RunIs
<1>1. PICK handoff \in Handoffs, status \in {"needs_attention", "cancelled", "failed"} :
          /\ handoff = IF o.doubt THEN "uncertain" ELSE "failed"
          /\ status = IF o.doubt THEN "needs_attention"
                      ELSE IF o.cancel /\ o.job # "data" THEN "cancelled" ELSE "failed"
  BY DEF Handoffs
<1>2. PICK x \in RunRecords : x = [o EXCEPT !.job = "failed", !.handoff = handoff,
                                            !.status = status]
  BY DEF RunRecords
<1>3. /\ x.status = status /\ x.order = o.order /\ x.key = o.key
      /\ x.byhand = o.byhand /\ x.job = "failed" /\ x.handoff = handoff /\ x.doubt = o.doubt
      /\ x.message = o.message
  BY <1>2 DEF RunRecords
<1>4. runs' = [runs EXCEPT ![r] = x]
  BY <1>0, <1>1, <1>2 DEF NotSent
<1> QED BY <1>0, <1>1, <1>3, <1>4, AttemptMoves DEF BusyIs, HeldIs

\* The dispatcher settles its job, or queues it again when it was not sent.
LEMMA FinishKeeps ==
    ASSUME FamInv, NEW r \in Runs, NEW outcome \in {"smtp_accepted", "uncertain", "failed"},
           finish(r, outcome)
    PROVE  FamInv'
<1>0. PICK o \in RunRecords : /\ o = runs[r] /\ MessageIs(o, r) /\ sender = r
                              /\ HeldIs(o) /\ BusyIs(o) /\ o.job # "none"
  BY RunIs DEF finish, SenderIs, HeldIs, BusyIs
<1>1. sender' = 0 /\ UNCHANGED proper /\ Dispatcher
  BY DEF finish
<1>7. {"smtp_accepted", "uncertain", "queued"} \subseteq Handoffs
  BY DEF Handoffs
<1>2. ASSUME NEW x \in RunRecords, runs' = [runs EXCEPT ![r] = x],
             x.order = o.order, x.key = o.key, x.byhand = o.byhand, x.message = o.message,
             ~HeldIs(x)
      PROVE  FamInv'
  BY <1>0, <1>1, <1>2, AttemptMoves
<1>3. ASSUME runs' = [runs EXCEPT ![r].job = "smtp_accepted", ![r].handoff = "smtp_accepted",
                                  ![r].status = "succeeded"]
      PROVE  FamInv'
  <2>1. PICK x \in RunRecords : x = [o EXCEPT !.job = "smtp_accepted",
                                     !.handoff = "smtp_accepted", !.status = "succeeded"]
    BY <1>7 DEF RunRecords
  <2>2. /\ x.order = o.order /\ x.key = o.key /\ x.byhand = o.byhand /\ x.message = o.message
        /\ x.job = "smtp_accepted"
    BY <2>1 DEF RunRecords
  <2>3. runs' = [runs EXCEPT ![r] = x]
    BY <1>0, <1>3, <2>1
  <2> QED BY <1>2, <2>2, <2>3 DEF HeldIs
<1>4. ASSUME runs' = [runs EXCEPT ![r].job = "uncertain", ![r].handoff = "uncertain",
                                  ![r].status = "needs_attention", ![r].doubt = TRUE]
      PROVE  FamInv'
  <2>1. PICK x \in RunRecords : x = [o EXCEPT !.job = "uncertain", !.handoff = "uncertain",
                                     !.status = "needs_attention", !.doubt = TRUE]
    BY <1>7 DEF RunRecords
  <2>2. /\ x.order = o.order /\ x.key = o.key /\ x.byhand = o.byhand /\ x.message = o.message
        /\ x.job = "uncertain"
    BY <2>1 DEF RunRecords
  <2>3. runs' = [runs EXCEPT ![r] = x]
    BY <1>0, <1>4, <2>1
  <2> QED BY <1>2, <2>2, <2>3 DEF HeldIs
<1>5. CASE runs' = NotSent(r)
  BY <1>0, <1>1, <1>5, NotSentKeeps
<1>6. ASSUME runs' = [runs EXCEPT ![r].job = "queued", ![r].handoff = "queued",
                      ![r].status = "awaiting_receipt", ![r].tries = @ + 1]
      PROVE  FamInv'
  <2>0. PICK tries \in Nat : tries = o.tries + 1
    BY DEF RunRecords
  <2>1. PICK x \in RunRecords : x = [o EXCEPT !.job = "queued", !.handoff = "queued",
                                     !.status = "awaiting_receipt", !.tries = tries]
    BY <1>7 DEF RunRecords
  <2>2. /\ x.order = o.order /\ x.key = o.key /\ x.byhand = o.byhand /\ x.message = o.message
        /\ x.job = "queued"
    BY <2>1 DEF RunRecords
  <2>3. runs' = [runs EXCEPT ![r] = x]
    BY <1>0, <1>6, <2>0, <2>1
  <2> QED BY <1>2, <2>2, <2>3 DEF HeldIs
<1> QED BY <1>3, <1>4, <1>5, <1>6 DEF finish, AutoRetry

\* A queued job that may no longer go ends as not sent.
LEMMA RejectKeeps == ASSUME FamInv, NEW r \in Runs, RejectJob(r) PROVE FamInv'
BY NotSentKeeps DEF RejectJob

---------------------------------------------------------------------------
(* Commands and operators.                                                 *)

\* A step of one caller: what is to be shown of it.
LEMMA CallMoves ==
    ASSUME FamInv, NEW c \in Callers, NEW d, CallStands(d), call' = [call EXCEPT ![c] = d],
           UNCHANGED <<task, runs, sender, proper, given>>
    PROVE  FamInv'
<1>1. call = [e \in Callers |-> call[e]] /\ \A e \in Callers : CallStands(call[e])
  BY DEF FamInv, FamTypes, CallsStand
<1>2. call' = [e \in Callers |-> call'[e]]
  BY <1>1
<1>3. \A e \in Callers : CallStands(call'[e])
  BY <1>1
<1> QED BY <1>2, <1>3, NoRunMoves DEF CallsGo, TaskStands, FamInv, FamTypes

\* An order that is right may be held for its insertion.
LEMMA OrderedKeeps ==
    ASSUME FamInv, NEW c \in Callers, NEW key \in Keys, NEW o \in Orders,
           OrderStands(o, Len(runs) + 1), Ordered(c, key, o)
    PROVE  FamInv'
<1>1. PICK d \in Commands : d = [op |-> o.op, key |-> key, order |-> o]
  BY DEF Commands, Orders
<1>2. CallStands(d)
  BY <1>1 DEF CallStands
<1>3. call' = [call EXCEPT ![c] = d]
  BY <1>1 DEF Ordered
<1> QED BY <1>2, <1>3, CallMoves DEF Ordered

\* The next revision is a number.
LEMMA Revisions ==
    ASSUME FamInv, NEW r \in Runs, NEW s \in {0} \cup Runs
    PROVE  NextRevision(r, s) \in Nat
<1>1. CASE s = 0
  BY <1>1 DEF NextRevision
<1>2. CASE s # 0
  <2>1. PICK a \in Nat, b \in Nat : a = runs[r].order.rev /\ b = runs[s].order.rev
    BY <1>2, RunIs DEF RunRecords, Orders
  <2>2. \E x \in {a, b} : \A y \in {a, b} : x >= y
    OBVIOUS
  <2>3. Max({a, b}) \in {a, b}
    BY <2>2 DEF Max
  <2> QED BY <1>2, <2>1, <2>3 DEF NextRevision
<1> QED BY <1>1, <1>2

\* A retry orders a run of the family of the run it repeats.
LEMMA RetryOrders ==
    ASSUME FamInv, NEW c \in Callers, NEW key \in Keys, NEW r \in Runs,
           NEW op \in {"retry", "compose_only"}, NEW scope \in {"full", "compose_only"},
           Retry(c, key, op, scope, r)
    PROVE  FamInv'
<1>1. PICK s \in {0} \cup Runs : s = IF scope = "compose_only" THEN CompositionSource(r) ELSE 0
  <2>1. runs[r].order.source \in Nat /\ runs[r].order.source < r /\ r \in Nat
        /\ Len(runs) \in Nat /\ r <= Len(runs)
    BY RunIs, RunsAre DEF OrderStands, RunRecords, Orders
  <2>2. CompositionSource(r) \in {0} \cup Runs
    BY <2>1 DEF CompositionSource, Runs
  <2> QED BY <2>2
<1>2. PICK v \in Versions, auth \in {0} \cup Versions, rev \in Nat :
          v = runs[r].order.version /\ auth = Authorization(v) /\ rev = NextRevision(r, s)
  BY RunIs, Revisions DEF RunRecords, Orders, Authorization, FamInv, FamTypes
<1>3. PICK o \in Orders : o = Order(op, scope, r, v, s, rev, auth)
  <2>1. r \in Nat /\ s \in Nat
    BY RunIs
  <2> QED BY <2>1 DEF Order, Orders, Ops
<1>4. Ordered(c, key, o)
  BY <1>1, <1>2, <1>3 DEF Retry
<1>5. OrderStands(o, Len(runs) + 1)
  <2>1. /\ o.op = op /\ o.scope = scope /\ o.parent = r /\ o.source = s
    BY <1>3 DEF Order
  <2>2. r < Len(runs) + 1 /\ s < Len(runs) + 1
    BY RunIs, RunsAre
  <2> QED BY <2>1, <2>2 DEF OrderStands
<1> QED BY <1>4, <1>5, OrderedKeeps

\* Sending a stored message orders a run for the message as it was composed.
LEMMA SendOrders ==
    ASSUME FamInv, NEW c \in Callers, NEW key \in Keys, NEW r \in Runs,
           send_prepared_email(c, key, r)
    PROVE  FamInv'
<1>1. PICK s \in Runs : /\ s = MessageSource(r) /\ Root[s] = Root[r] /\ Scope(s) # "delivery_only"
  <2>1. MessageSource(r) = OriginIs(runs[r], r)
    BY DEF MessageSource, OriginIs, Scope
  <2> QED BY <2>1, RunIs, SourceInFamily
<1>2. PICK v \in Versions, auth \in {0} \cup Versions, rev \in Nat :
          v = runs[r].order.version /\ auth = Authorization(v) /\ rev = NextRevision(r, s)
  BY RunIs, Revisions DEF RunRecords, Orders, Authorization, FamInv, FamTypes
<1>3. PICK o \in Orders : o = Order("send", "delivery_only", r, v, s, rev, auth)
  <2>1. r \in Nat /\ s \in Nat
    BY RunIs
  <2> QED BY <2>1 DEF Order, Orders, Ops
<1>4. Ordered(c, key, o)
  BY <1>1, <1>2, <1>3 DEF send_prepared_email
<1>5. OrderStands(o, Len(runs) + 1)
  <2>1. /\ o.op = "send" /\ o.scope = "delivery_only" /\ o.parent = r /\ o.source = s
    BY <1>3 DEF Order
  <2>2. r < Len(runs) + 1 /\ s < Len(runs) + 1 /\ r # 0 /\ s \in 1 .. (Len(runs) + 1) - 1
    BY RunIs, RunsAre
  <2> QED BY <1>1, <2>1, <2>2 DEF OrderStands
<1> QED BY <1>4, <1>5, OrderedKeeps

\* Each command reads the family and goes on with an order that is right, or
\* leaves.
LEMMA CommandsKeep ==
    ASSUME FamInv, NEW c \in Callers,
           \/ enqueue_run(c, given)
           \/ \E r \in Runs :
                 \/ retry_run(c, given, r) \/ compose_only(c, given, r)
                 \/ send_prepared_email(c, given, r) \/ retry_email(c, r)
    PROVE  FamInv'
<1>0. PICK key \in Keys : key = given
  BY DEF FamInv, FamTypes
<1>1. CASE enqueue_run(c, given)
  <2>1. PICK v \in Versions : v = task.active
    BY DEF FamInv, FamTypes
  <2>2. PICK o \in Orders : o = Order("enqueue", "full", 0, v, 0, 1, 0)
    BY DEF Order, Orders, Ops
  <2>3. Ordered(c, key, o)
    BY <1>0, <1>1, <2>1, <2>2 DEF enqueue_run
  <2>4. o.op = "enqueue" /\ o.scope = "full" /\ o.parent = 0 /\ o.source = 0
    BY <2>2 DEF Order
  <2>5. OrderStands(o, Len(runs) + 1)
    BY <2>4, RunsAre DEF OrderStands, FamInv, FamTypes
  <2> QED BY <2>3, <2>5, OrderedKeeps
<1>2. ASSUME NEW r \in Runs, retry_run(c, given, r) PROVE FamInv'
  <2>1. PICK scope \in {"full", "compose_only"} : scope = Scope(r)
    BY <1>2, RunIs DEF retry_run, Scope, RunRecords, Orders
  <2> QED BY <1>0, <1>2, <2>1, RetryOrders DEF retry_run
<1>3. ASSUME NEW r \in Runs, compose_only(c, given, r) PROVE FamInv'
  BY <1>0, <1>3, RetryOrders DEF compose_only
<1>4. ASSUME NEW r \in Runs, send_prepared_email(c, given, r) PROVE FamInv'
  BY <1>0, <1>4, SendOrders
<1>5. ASSUME NEW r \in Runs, retry_email(c, r) PROVE FamInv'
  <2>1. PICK d \in Emails : d = [op |-> "email", run |-> r, tries |-> runs[r].tries,
                                 acknowledged |-> runs[r].doubt]
    <3>1. r \in Nat /\ runs[r].tries \in Nat /\ runs[r].doubt \in BOOLEAN
      BY RunIs DEF RunRecords
    <3> QED BY <3>1 DEF Emails
  <2>2. CallStands(d)
    BY <2>1 DEF CallStands
  <2>3. call' = [call EXCEPT ![c] = d]
    BY <1>5, <2>1 DEF retry_email
  <2> QED BY <1>5, <2>2, <2>3, CallMoves DEF retry_email
<1> QED BY <1>1, <1>2, <1>3, <1>4, <1>5

\* The retry of an e-mail is inserted inside the transaction that looks at its
\* family.
LEMMA InsertRetryKeeps ==
    ASSUME FamInv, NEW c \in Callers, _insert_retry(c)
    PROVE  FamInv'
<1>1. CallsGo /\ TaskStands' /\ proper' /\ UNCHANGED sender
  BY CallsThatGo DEF _insert_retry, TaskStands, FamInv, FamTypes
<1>2. CASE UNCHANGED runs
  BY <1>1, <1>2, NoRunMoves
<1>3. CASE runs' # runs
  <2>1. PICK d \in Emails : d = call[c] /\ d.run \in Runs
    BY DEF FamInv, CallsStand, CallStands, _insert_retry, Idle, Commands, Ops
  <2>2. PICK r \in Runs : r = d.run
    BY <2>1
  <2>3. /\ runs[r].job \in {"failed", "uncertain"} /\ FamilyClear(r, {r}, FALSE)
        /\ runs' = [runs EXCEPT ![r].job = "queued", ![r].handoff = "queued",
                                ![r].status = "awaiting_receipt", ![r].tries = @ + 1,
                                ![r].byhand = TRUE]
    BY <1>3, <2>1, <2>2 DEF _insert_retry, RetryStands
  <2>4. PICK o \in RunRecords, tries \in Nat :
            o = runs[r] /\ MessageIs(o, r) /\ SenderIs(o, r, sender) /\ tries = o.tries + 1
    <3>1. runs[r] \in RunRecords /\ runs[r].tries + 1 \in Nat
      BY RunIs DEF RunRecords
    <3> QED BY <3>1, RunIs
  <2>5. PICK x \in RunRecords : x = [o EXCEPT !.job = "queued", !.handoff = "queued",
                                     !.status = "awaiting_receipt", !.tries = tries,
                                     !.byhand = TRUE]
    <3>1. "queued" \in Handoffs
      BY DEF Handoffs
    <3> QED BY <3>1 DEF RunRecords
  <2>6. /\ x.status = "awaiting_receipt" /\ x.step = o.step /\ x.order = o.order /\ x.key = o.key
        /\ x.byhand /\ x.job = "queued" /\ x.handoff = "queued" /\ x.doubt = o.doubt
        /\ x.message = o.message
    BY <2>5 DEF RunRecords
  <2>7. runs' = [runs EXCEPT ![r] = x]
    BY <2>3, <2>4, <2>5
  <2>8. Moves(o, x, r) /\ SenderIs(x, r, sender)
    BY <2>3, <2>4, <2>6 DEF Moves, BusyIs, WireIs, MessageIs, ComposedIs, OriginIs, SenderIs, HeldIs
  <2> QED BY <1>1, <2>4, <2>7, <2>8, OneRunMoves
<1> QED BY <1>2, <1>3

\* A new run is queued and has sent nothing.
LEMMA NewRunIs ==
    ASSUME NEW o \in Orders, NEW key \in Keys
    PROVE  \E x \in RunRecords :
              /\ x = NewRun(o, key)
              /\ x.order = o /\ x.key = key /\ x.step = "none" /\ x.handoff = "none"
              /\ x.job = "none" /\ ~x.doubt /\ x.message = 0 /\ x.status = "queued"
<1>1. "none" \in Handoffs
  BY DEF Handoffs
<1>2. PICK x \in RunRecords : x = NewRun(o, key)
  BY <1>1 DEF NewRun, RunRecords
<1>3. /\ x.order = o /\ x.key = key /\ x.step = "none" /\ x.handoff = "none"
      /\ x.job = "none" /\ x.doubt = FALSE /\ x.message = 0 /\ x.status = "queued"
  BY <1>2 DEF NewRun
<1> QED BY <1>2, <1>3

\* create_run decides in its transaction: no run has the key, and the family of the parent
\* is clear.
LEMMA CreateRunKeeps ==
    ASSUME FamInv, NEW c \in Callers, create_run(c)
    PROVE  FamInv'
<1>0. CallsGo /\ TaskStands' /\ proper' /\ UNCHANGED sender
  BY CallsThatGo DEF create_run, TaskStands, FamInv, FamTypes
<1>1. CASE UNCHANGED runs
  BY <1>0, <1>1, NoRunMoves
<1>2. CASE runs' # runs
  <2>1. PICK d \in Commands : d = call[c] /\ OrderStands(d.order, Len(runs) + 1)
    BY DEF FamInv, CallsStand, CallStands, create_run, Idle, Emails
  <2>2. PICK o \in Orders, key \in Keys : o = d.order /\ key = d.key
    BY DEF Commands
  <2>3. Holders(key) = {} /\ Acceptable(o) /\ runs' = Append(runs, NewRun(o, key))
    BY <1>2, <2>1, <2>2 DEF create_run
  <2>4. PICK x \in RunRecords :
            /\ x = NewRun(o, key)
            /\ x.order = o /\ x.key = key /\ x.step = "none" /\ x.handoff = "none"
            /\ x.job = "none" /\ ~x.doubt /\ x.message = 0 /\ x.status = "queued"
    BY NewRunIs
  <2>5. PICK n \in Nat \ {0} : n = Len(runs) + 1
    BY RunsAre DEF FamInv, FamTypes
  <2>6. /\ runs' \in Seq(RunRecords) /\ Len(runs') = n /\ runs'[n] = x
        /\ \A r \in Runs : runs'[r] = runs[r]
    BY <2>3, <2>4, <2>5, AppendProperties DEF FamInv, FamTypes, Runs
  <2>7. Runs' = Runs \cup {n} /\ n \notin Runs /\ \A r \in Runs : r \in Nat \ {0} /\ r < n
    BY <2>5, <2>6, RunsAre DEF Runs, FamInv, FamTypes
  <2>8. Descends(runs') /\ Grown
    <3>1. Descends(runs)
      BY Descending DEF FamInv, FamTypes
    <3>2. o.parent \in Nat /\ o.parent < n
      BY <2>1, <2>2, <2>5 DEF OrderStands, Orders
    <3>3. Descends(runs')
      BY <2>4, <2>5, <2>6, <2>7, <3>1, <3>2 DEF Descends, Runs
    <3> QED BY <2>5, <2>6, <3>1, <3>3 DEF Grown, Descends
  <2>9. \A r \in Runs : Root'[r] = Root[r]
    BY <2>6, <2>8, Descending, RootsStay DEF FamInv, FamTypes, Grown, Parent
  <2>10. Root'[n] = IF o.parent # 0 THEN Root'[o.parent] ELSE n
    BY <2>4, <2>6, <2>7, <2>8, RootRuleNext DEF Parent
  <2>11. o.parent # 0 => o.parent \in Runs /\ Root'[n] = Root[o.parent]
    <3>1. o.parent # 0 => o.parent \in Runs
      BY <2>1, <2>2, <2>5, RunsAre DEF OrderStands, Orders, FamInv, FamTypes
    <3> QED BY <2>9, <2>10, <3>1
  <2>12. o.parent # 0 => \A s \in Runs : Root[s] = Root'[n] =>
            /\ ~Pending(s)
            /\ o.op = "send" => ~MayHaveArrived(s)
    BY <2>3, <2>11 DEF Acceptable, FamilyClear, Family
  <2>13. o.parent = 0 => \A s \in Runs : Root'[n] # Root[s]
    BY <2>7, <2>10, Descending, RootRange DEF FamInv, FamTypes
  <2>14. \A s \in Runs : BusyIs(runs[s]) => Root[s] # Root'[n]
    BY <2>12, <2>13 DEF Pending, Busy, BusyIs
  <2>15. RunsStand'
    <3>1. ASSUME NEW r \in Runs PROVE OrderStands(runs[r].order, r)'
      <4>1. PICK b \in Orders : b = runs[r].order /\ OrderStands(b, r) /\ r <= Len(runs) + 1
        BY <2>5, <2>7, RunIs DEF RunRecords
      <4>2. OrderStands(b, r)'
        BY <2>7, <2>8, <4>1, OrderStays DEF FamInv, FamTypes
      <4> QED BY <2>6, <4>1, <4>2 DEF OrderStands
    <3>2. OrderStands(o, n)'
      BY <2>1, <2>2, <2>5, <2>8, OrderStays DEF FamInv, FamTypes
    <3>3. MessageIs(x, n) /\ SenderIs(x, n, sender)
      <4>1. sender # n
        BY <2>5, <2>7 DEF FamInv, FamTypes
      <4> QED BY <2>4, <4>1 DEF MessageIs, ComposedIs, SenderIs, HeldIs
    <3>4. OrderStands(runs[n].order, n)'
      BY <2>4, <2>6, <3>2 DEF OrderStands
    <3>5. \A r \in Runs : MessageIs(runs'[r], r) /\ SenderIs(runs'[r], r, sender')
      BY <1>0, <2>6, RunIs
    <3>6. MessageIs(runs'[n], n) /\ SenderIs(runs'[n], n, sender')
      BY <1>0, <2>6, <3>3
    <3>7. \A r \in Runs' : MessageIs(runs[r], r)' /\ SenderIs(runs[r], r, sender)'
      BY <2>7, <3>5, <3>6 DEF MessageIs, SenderIs, ComposedIs, OriginIs, HeldIs
    <3>8. \A r \in Runs' : OrderStands(runs[r].order, r)'
      BY <2>7, <3>1, <3>4
    <3> QED BY <3>7, <3>8 DEF RunsStand
  <2>16. CallsStand'
    <3>1. ASSUME NEW e \in Callers PROVE CallStands(call[e])'
      <4>1. PICK f : f = call'[e] /\ CallStands(f)
        BY <1>0 DEF CallsGo
      <4>2. CallStands(f)'
        BY <2>8, <4>1, CallStays DEF FamInv, FamTypes
      <4> QED BY <4>1, <4>2 DEF CallStands
    <3> QED BY <3>1 DEF CallsStand, CallStands
  <2>17. Serial'
    <3>1. ASSUME NEW r \in Runs', NEW s \in Runs', r # s, BusyIs(runs'[r]), BusyIs(runs'[s])
          PROVE  Root'[r] # Root'[s]
      <4>1. CASE r \in Runs /\ s \in Runs
        BY <2>6, <2>9, <3>1, <4>1 DEF FamInv, Serial
      <4>2. CASE r = n /\ s \in Runs
        BY <2>6, <2>9, <2>14, <3>1, <4>2
      <4>3. CASE s = n /\ r \in Runs
        BY <2>6, <2>9, <2>14, <3>1, <4>3
      <4> QED BY <2>7, <3>1, <4>1, <4>2, <4>3
    <3> QED BY <3>1 DEF Serial, BusyIs
  <2>18. WireOnce'
    <3>1. ~WireIs(x)
      BY <2>4 DEF WireIs
    <3>2. ASSUME NEW r \in Runs, OriginIs(runs[r], r) = OriginIs(x, n) PROVE ~WireIs(runs[r])
      <4>1. OriginIs(runs[r], r) \in Runs /\ Root[OriginIs(runs[r], r)] = Root[r]
        BY RunIs, SourceInFamily
      <4>2. /\ o.scope = "delivery_only" /\ o.op = "send" /\ o.parent # 0
            /\ Root[o.source] = Root[o.parent]
        BY <2>1, <2>2, <2>4, <2>7, <3>2, <4>1 DEF OriginIs, OrderStands
      <4>3. Root[r] = Root'[n]
        BY <2>4, <2>11, <3>2, <4>1, <4>2 DEF OriginIs
      <4>4. ~Pending(r) /\ ~MayHaveArrived(r)
        BY <2>12, <4>2, <4>3
      <4>5. runs[r].job # "data"
        BY <4>4, RunIs DEF SenderIs, HeldIs, Pending, Busy
      <4> QED BY <4>4, <4>5 DEF WireIs, MayHaveArrived
    <3>3. ASSUME NEW r \in Runs', NEW s \in Runs', r # s,
                 OriginIs(runs'[r], r) = OriginIs(runs'[s], s),
                 WireIs(runs'[r]), ~runs'[r].byhand, ~runs'[s].byhand
          PROVE  ~BusyIs(runs'[s]) /\ ~WireIs(runs'[s])
      <4>1. CASE r \in Runs /\ s \in Runs
        BY <2>6, <3>3, <4>1 DEF FamInv, WireOnce
      <4>2. CASE r = n
        BY <2>6, <3>1, <3>3, <4>2
      <4>3. CASE s = n /\ r \in Runs
        BY <2>6, <3>2, <3>3, <4>3
      <4> QED BY <2>7, <3>3, <4>1, <4>2, <4>3
    <3> QED BY <3>3 DEF WireOnce, OriginIs, WireIs, BusyIs
  <2>19. KeyMakesOneRun'
    <3>1. \A r \in Runs : key # NoKey => runs[r].key # key
      BY <2>3 DEF Holders
    <3>2. ASSUME NEW r \in Runs', NEW s \in Runs', runs'[r].key # NoKey,
                 runs'[r].key = runs'[s].key
          PROVE  r = s
      <4>1. CASE r \in Runs /\ s \in Runs
        BY <2>6, <3>2, <4>1 DEF FamInv, KeyMakesOneRun
      <4>2. CASE r = n \/ s = n
        BY <2>4, <2>6, <2>7, <3>1, <3>2, <4>2
      <4> QED BY <2>7, <4>1, <4>2
    <3> QED BY <3>2 DEF KeyMakesOneRun, NoKey
  <2>20. FamTypes'
    BY <1>0, <2>6, <2>7 DEF FamInv, FamTypes, CallsGo, TaskStands
  <2> QED BY <1>0, <2>15, <2>16, <2>17, <2>18, <2>19, <2>20 DEF FamInv
<1> QED BY <1>1, <1>2

\* A cancelled run leaves the works unless the worker or the dispatcher has it.
LEMMA CancelKeeps == ASSUME FamInv, NEW r \in Runs, cancel_run(r) PROVE FamInv'
<1>0. PICK o \in RunRecords : o = runs[r] /\ MessageIs(o, r) /\ SenderIs(o, r, sender)
  BY RunIs
<1>1. PICK status : status =
          IF o.status = "queued" THEN "cancelled"
          ELSE IF o.status = "awaiting_receipt" /\ sender # r
          THEN IF o.doubt THEN "needs_attention" ELSE "cancelled"
          ELSE o.status
  OBVIOUS
<1>2. PICK job : job = IF o.job = "queued" THEN "failed" ELSE o.job
  OBVIOUS
<1>3. PICK handoff : handoff =
          IF o.status = "awaiting_receipt" /\ sender # r
          THEN IF o.doubt THEN "uncertain" ELSE "failed"
          ELSE o.handoff
  OBVIOUS
<1>4. runs' = [runs EXCEPT ![r].cancel = TRUE, ![r].status = status, ![r].job = job,
                           ![r].handoff = handoff]
  BY <1>0, <1>1, <1>2, <1>3 DEF cancel_run
<1>5. PICK x \in RunRecords : x = [o EXCEPT !.cancel = TRUE, !.status = status, !.job = job,
                                            !.handoff = handoff]
  <2>1. handoff \in Handoffs
    BY <1>3 DEF RunRecords, Handoffs
  <2>2. o.status \in {"queued", "running", "awaiting_receipt", "succeeded", "failed",
                      "cancelled", "needs_attention"}
        /\ o.job \in {"none", "queued", "checked", "data", "failed", "uncertain", "smtp_accepted"}
    BY DEF RunRecords
  <2>3. status \in {"queued", "running", "awaiting_receipt", "succeeded", "failed",
                    "cancelled", "needs_attention"}
        /\ job \in {"none", "queued", "checked", "data", "failed", "uncertain", "smtp_accepted"}
    BY <1>1, <1>2, <2>2
  <2>4. PICK y \in RunRecords : y = [o EXCEPT !.cancel = TRUE, !.status = status]
    BY <2>3 DEF RunRecords
  <2>5. PICK z \in RunRecords : z = [y EXCEPT !.job = job]
    <3>1. CASE job = "failed"
      BY <3>1 DEF RunRecords
    <3>2. CASE job = o.job
      <4>1. y.job = o.job
        BY <2>4 DEF RunRecords
      <4>2. [y EXCEPT !.job = job] = y
        BY <3>2, <4>1 DEF RunRecords
      <4> QED BY <4>2
    <3> QED BY <1>2, <3>1, <3>2
  <2>6. PICK w \in RunRecords : w = [z EXCEPT !.handoff = handoff]
    BY <2>1 DEF RunRecords
  <2> QED BY <2>4, <2>5, <2>6
<1>6. /\ x.status = status /\ x.step = o.step /\ x.order = o.order /\ x.key = o.key
      /\ x.byhand = o.byhand /\ x.job = job /\ x.handoff = handoff /\ x.doubt = o.doubt
      /\ x.message = o.message /\ x.archive = o.archive
  BY <1>5 DEF RunRecords
<1>7. SenderIs(x, r, sender)
  BY <1>0, <1>1, <1>2, <1>6 DEF SenderIs, HeldIs
<1>8. Moves(o, x, r)
  <2>1. BusyIs(x) => BusyIs(o)
    BY <1>1, <1>6 DEF BusyIs
  <2>2. WireIs(x) => WireIs(o)
    BY <1>2, <1>3, <1>6 DEF WireIs
  <2>3. ComposedIs(x) => ComposedIs(o)
    BY <1>1, <1>2, <1>3, <1>6 DEF ComposedIs
  <2> QED BY <1>0, <1>6, <2>1, <2>2, <2>3 DEF Moves, MessageIs, OriginIs
<1>9. runs' = [runs EXCEPT ![r] = x]
  BY <1>0, <1>4, <1>5
<1>10. CallsGo /\ TaskStands' /\ proper' /\ UNCHANGED sender
  BY CallsThatGo DEF cancel_run, Intervene, TaskStands, FamInv, FamTypes
<1> QED BY <1>0, <1>7, <1>8, <1>9, <1>10, OneRunMoves

\* Archives go only of runs that may be retired, while nothing is in the works.
LEMMA CleanupKeeps == ASSUME FamInv, cleanup_archives PROVE FamInv'
<1>0. runs \in Seq(RunRecords) /\ Runs = 1 .. Len(runs) /\ Len(runs) \in Nat
  BY RunsAre DEF FamInv, FamTypes
<1>1. ASSUME NEW r \in Runs
      PROVE  /\ runs'[r] \in RunRecords
             /\ Moves(runs[r], runs'[r], r) /\ SenderIs(runs'[r], r, sender')
             /\ ~BusyIs(runs'[r])
  <2>1. PICK o \in RunRecords : /\ o = runs[r] /\ MessageIs(o, r) /\ SenderIs(o, r, sender)
                                /\ ~BusyIs(o) /\ sender' = sender
    BY RunIs DEF cleanup_archives, Intervene, Busy, BusyIs
  <2>2. PICK x \in RunRecords : x = [o EXCEPT !.archive = "none"]
    BY DEF RunRecords
  <2>3. /\ x.status = o.status /\ x.step = o.step /\ x.order = o.order /\ x.key = o.key
        /\ x.byhand = o.byhand /\ x.job = o.job /\ x.handoff = o.handoff /\ x.doubt = o.doubt
        /\ x.message = o.message
    BY <2>2 DEF RunRecords
  <2>4. runs'[r] \in {x, o}
    BY <2>1, <2>2 DEF cleanup_archives
  <2>5. Moves(o, x, r) /\ SenderIs(x, r, sender) /\ ~BusyIs(x)
    BY <2>1, <2>3 DEF Moves, BusyIs, WireIs, MessageIs, ComposedIs, OriginIs, SenderIs, HeldIs
  <2>6. Moves(o, o, r)
    BY <2>1 DEF Moves
  <2> QED BY <2>1, <2>4, <2>5, <2>6
<1>2. runs' \in Seq(RunRecords) /\ Len(runs') = Len(runs)
  <2>1. runs' = [r \in 1 .. Len(runs) |-> runs'[r]]
    BY <1>0 DEF cleanup_archives
  <2> QED BY <1>0, <1>1, <2>1
<1>3. CallsGo /\ TaskStands' /\ proper' /\ sender' \in {0} \cup Runs
  BY CallsThatGo DEF cleanup_archives, Intervene, TaskStands, FamInv, FamTypes
<1> QED BY <1>1, <1>2, <1>3, RunsMove DEF CallsGo, TaskStands

\* The operator cancels, cleans up, and changes versions and settings.
LEMMA OperatorKeeps == ASSUME FamInv, OperatorStep PROVE FamInv'
<1>1. CASE \/ \E v \in Versions : publish_production_update(v)
           \/ set_production_delivery_enabled \/ SaveDelivery
  <2>1. UNCHANGED <<runs, sender, call, proper, given>>
    BY <1>1 DEF publish_production_update, set_production_delivery_enabled, SaveDelivery, Intervene
  <2>2. task' \in [active : Versions, mode : BOOLEAN]
    <3>1. PICK o \in [active : Versions, mode : BOOLEAN] : o = task
      BY DEF FamInv, FamTypes
    <3>2. ASSUME NEW v \in Versions, publish_production_update(v)
          PROVE  task' \in [active : Versions, mode : BOOLEAN]
      BY <3>1, <3>2 DEF publish_production_update
    <3>3. CASE set_production_delivery_enabled
      <4>1. PICK mode \in BOOLEAN : mode <=> ~o.mode
        OBVIOUS
      <4>2. task' = [o EXCEPT !.mode = mode]
        BY <3>1, <3>3, <4>1 DEF set_production_delivery_enabled
      <4> QED BY <4>2
    <3>4. CASE SaveDelivery
      BY <3>1, <3>4 DEF SaveDelivery
    <3> QED BY <1>1, <3>2, <3>3, <3>4
  <2> QED BY <2>1, <2>2, CallsThatGo, NoRunMoves DEF TaskStands, FamInv, FamTypes
<1> QED BY <1>1, CancelKeeps, CleanupKeeps DEF OperatorStep, Versions

\* Every step of callers, worker and dispatcher keeps FamInv.
LEMMA FamInvStep == FamInv /\ [FamNext]_famVars => FamInv'
<1> SUFFICES ASSUME FamInv, [FamNext]_famVars PROVE FamInv'
  OBVIOUS
<1>1. CASE UNCHANGED famVars
  BY <1>1, CallsThatGo, NoRunMoves DEF famVars, TaskStands, FamInv, FamTypes
<1>2. ASSUME NEW c \in Callers, CommandStep(c) PROVE FamInv'
  BY <1>2, CommandsKeep, CreateRunKeeps, InsertRetryKeeps DEF CommandStep
<1>3. ASSUME NEW r \in Runs, WorkerStep(r) PROVE FamInv'
  BY <1>3, ClaimKeeps, ComposeKeeps, HandoffKeeps, EndKeeps, ReleaseKeeps DEF WorkerStep
<1>4. ASSUME NEW r \in Runs, DispatcherStep(r) PROVE FamInv'
  BY <1>4, EnqueueKeeps, PrepareKeeps, StartKeeps, RejectKeeps, FinishKeeps DEF DispatcherStep
<1>5. CASE OperatorStep
  BY <1>5, OperatorKeeps
<1> QED BY <1>1, <1>2, <1>3, <1>4, <1>5 DEF FamNext

---------------------------------------------------------------------------
(* The initial states.                                                     *)

\* The fields of the initial run that failed with its message stored.
LEMMA StrandedIs ==
    /\ Stranded \in RunRecords
    /\ Stranded.order = Order("enqueue", "full", 0, 1, 0, 1, 0) /\ Stranded.key = NoKey
    /\ Stranded.message = 1 /\ Stranded.job = "none" /\ Stranded.handoff = "none"
    /\ ~Stranded.doubt /\ Stranded.status = "failed"
<1>1. PICK o \in Orders : o = Order("enqueue", "full", 0, 1, 0, 1, 0)
  <2>1. 1 \in Versions
    BY RunFamilyAssumption, LenProperties, EmptySeq DEF Versions
  <2> QED BY <2>1 DEF Order, Orders, Ops
<1>2. PICK n \in RunRecords : /\ n = NewRun(o, NoKey) /\ n.order = o /\ n.key = NoKey
                              /\ n.job = "none" /\ n.handoff = "none" /\ ~n.doubt
  <2>1. NoKey \in Keys
    BY DEF Keys
  <2> QED BY <2>1, NewRunIs
<1>3. PICK x \in RunRecords : x = [n EXCEPT !.status = "failed", !.clean = TRUE, !.input = TRUE]
  BY DEF RunRecords
<1>4. PICK y \in RunRecords : y = [x EXCEPT !.message = 1, !.archive = "final"]
  BY DEF RunRecords
<1>5. /\ y.order = o /\ y.key = NoKey /\ y.message = 1 /\ y.job = "none" /\ y.handoff = "none"
      /\ y.doubt = n.doubt /\ y.status = "failed"
  BY <1>2, <1>3, <1>4 DEF RunRecords
<1>6. Stranded = y
  BY <1>1, <1>2, <1>3, <1>4 DEF Stranded
<1> QED BY <1>1, <1>2, <1>5, <1>6

\* A job in DATA is a job.
LEMMA InData ==
  ASSUME NEW o \in RunRecords
  PROVE  \E x \in RunRecords : x = [o EXCEPT !.job = "data"]
BY DEF RunRecords

\* A job that was tried is a job.
LEMMA OnceTried ==
  ASSUME NEW o \in RunRecords
  PROVE  \E x \in RunRecords : x = [o EXCEPT !.tries = 1]
BY DEF RunRecords

\* The fields of the initial run whose mail is under way.
LEMMA SendingIs ==
    /\ Sending \in RunRecords
    /\ Sending.order = Order("send", "delivery_only", 1, 1, 1, 2, 0) /\ Sending.key = NoKey
    /\ Sending.message = 1 /\ Sending.job = "data"
    /\ Sending.status = "awaiting_receipt" /\ Sending.archive = "ready"
<1>1. PICK o \in Orders : o = Order("send", "delivery_only", 1, 1, 1, 2, 0)
  <2>1. 1 \in Versions
    BY RunFamilyAssumption, LenProperties, EmptySeq DEF Versions
  <2> QED BY <2>1 DEF Order, Orders, Ops
<1>2. PICK n \in RunRecords : n = NewRun(o, NoKey) /\ n.order = o /\ n.key = NoKey
  <2>1. NoKey \in Keys
    BY DEF Keys
  <2> QED BY <2>1, NewRunIs
<1>3. PICK x \in RunRecords : x = [n EXCEPT !.status = "awaiting_receipt", !.clean = TRUE,
                                            !.input = TRUE]
  BY DEF RunRecords
<1>4. PICK y \in RunRecords : y = [x EXCEPT !.message = 1, !.archive = "ready"]
  BY DEF RunRecords
<1>5. PICK v \in RunRecords : v = [y EXCEPT !.handoff = "queued"]
  <2>1. "queued" \in Handoffs
    BY DEF Handoffs
  <2> QED BY <2>1 DEF RunRecords
<1>6. PICK w \in RunRecords : w = [v EXCEPT !.job = "data"]
  BY InData
<1>7. PICK z \in RunRecords : z = [w EXCEPT !.tries = 1]
  BY OnceTried
<1>8. /\ x.order = o /\ x.key = NoKey /\ x.status = "awaiting_receipt"
      /\ y.order = x.order /\ y.key = x.key /\ y.status = x.status
      /\ y.message = 1 /\ y.archive = "ready"
      /\ v.order = y.order /\ v.key = y.key /\ v.status = y.status
      /\ v.message = y.message /\ v.archive = y.archive
  BY <1>2, <1>3, <1>4, <1>5 DEF RunRecords
<1>9. /\ z.order = v.order /\ z.key = v.key /\ z.status = v.status
      /\ z.message = v.message /\ z.archive = v.archive /\ z.job = "data"
  BY <1>6, <1>7 DEF RunRecords
<1>10. Sending = z
  BY <1>1, <1>2, <1>3, <1>4, <1>5, <1>6, <1>7 DEF Sending
<1> QED BY <1>1, <1>8, <1>9, <1>10

\* Each of the initial families stands.
LEMMA FamInvInit == FamInit => FamInv
<1> SUFFICES ASSUME FamInit PROVE FamInv
  OBVIOUS
<1>0. /\ call = [c \in Callers |-> Idle] /\ proper
      /\ task \in [active : Versions, mode : BOOLEAN] /\ given \in Keys
  <2>1. 1 \in Versions
    BY RunFamilyAssumption, LenProperties, EmptySeq DEF Versions
  <2> QED BY <2>1 DEF FamInit, Keys
<1>1. CallsStand /\ call = [c \in Callers |-> call[c]]
  BY <1>0 DEF CallsStand, CallStands
<1>2. CASE runs = <<>> /\ sender = 0
  <2>1. Runs = {} /\ runs \in Seq(RunRecords)
    BY <1>2 DEF Runs
  <2> QED BY <1>0, <1>1, <1>2, <2>1
      DEF FamInv, FamTypes, RunsStand, Serial, WireOnce, KeyMakesOneRun
<1>3. CASE runs = <<Stranded>> /\ sender = 0
  <2>1. Runs = {1} /\ runs \in Seq(RunRecords) /\ runs[1] = Stranded
    BY <1>3, StrandedIs DEF Runs
  <2>2. RunsStand
    BY <1>3, <2>1, StrandedIs
       DEF RunsStand, OrderStands, Order, MessageIs, OriginIs, SenderIs, HeldIs
  <2> QED BY <1>0, <1>1, <1>3, <2>1, <2>2 DEF FamInv, FamTypes, Serial, WireOnce, KeyMakesOneRun
<1>4. CASE runs = <<Stranded, Sending>> /\ sender = 2
  <2>1. Runs = {1, 2} /\ runs \in Seq(RunRecords) /\ runs[1] = Stranded /\ runs[2] = Sending
    BY <1>4, StrandedIs, SendingIs DEF Runs
  <2>2. OrderStands(Stranded.order, 1) /\ MessageIs(Stranded, 1) /\ SenderIs(Stranded, 1, 2)
    BY StrandedIs DEF OrderStands, Order, MessageIs, OriginIs, SenderIs, HeldIs
  <2>3. OrderStands(Sending.order, 2)
    BY <2>1, SendingIs, StrandedIs DEF OrderStands, Order, Scope
  <2>4. MessageIs(Sending, 2) /\ SenderIs(Sending, 2, 2)
    BY SendingIs DEF Order, MessageIs, OriginIs, SenderIs, HeldIs
  <2>5. RunsStand
    BY <1>4, <2>1, <2>2, <2>3, <2>4 DEF RunsStand
  <2>6. ~BusyIs(Stranded) /\ ~WireIs(Stranded)
    BY StrandedIs DEF BusyIs, WireIs
  <2>7. Serial /\ WireOnce
    BY <2>1, <2>6 DEF Serial, WireOnce
  <2>8. KeyMakesOneRun
    BY <2>1, StrandedIs, SendingIs DEF KeyMakesOneRun
  <2> QED BY <1>0, <1>1, <1>4, <2>1, <2>5, <2>7, <2>8 DEF FamInv, FamTypes
<1> QED BY <1>2, <1>3, <1>4 DEF FamInit

---------------------------------------------------------------------------
(* The theorems.                                                           *)

\* Orders, messages, the dispatcher's run and the families stand in every state.
THEOREM FamiliesStand == FamSpec => []FamInv
BY FamInvInit, FamInvStep, PTL DEF FamSpec

\* A family has at most one run in the works: create_run and _insert_retry look at all of
\* it in their transaction, and an automatic attempt starts from the works.
THEOREM FamiliesAreSerial == FamSpec => []FamilySerial
<1>1. FamInv => FamilySerial
  BY DEF FamInv, Serial, FamilySerial, Busy, BusyIs
<1> QED BY <1>1, FamiliesStand, PTL

\* A message goes on the wire under one run, unless an operator repeats an attempt:
\* send_prepared_email needs a family of which no other handoff may have arrived, and what
\* left the works comes back only by hand.
THEOREM StoredMailIsSentOnce == FamSpec => []StoredMailOnce
<1>1. FamInv => StoredMailOnce
  <2> SUFFICES ASSUME FamInv, NEW r \in Runs, NEW s \in Runs, OnTheWire(r), OnTheWire(s),
                      runs[r].message = runs[s].message, r # s,
                      ~runs[r].byhand, ~runs[s].byhand
               PROVE  FALSE
    BY DEF StoredMailOnce
  <2>1. WireIs(runs[r]) /\ WireIs(runs[s])
    BY DEF OnTheWire, WireIs
  <2>2. ComposedIs(runs[r]) /\ ComposedIs(runs[s])
    BY <2>1 DEF WireIs, ComposedIs
  <2>3. OriginIs(runs[r], r) = OriginIs(runs[s], s)
    BY <2>2, RunIs DEF MessageIs
  <2> QED BY <2>1, <2>3 DEF FamInv, WireOnce
<1> QED BY <1>1, FamiliesStand, PTL

\* Every body is begun in live mode, under settings that are those of the active version,
\* for a run that nobody cancelled and whose evidence is archived.
THEOREM BodiesAreOnCurrentTerms == FamSpec => []SentOnCurrentTerms
<1>1. FamInv => SentOnCurrentTerms
  BY DEF FamInv, SentOnCurrentTerms
<1> QED BY <1>1, FamiliesStand, PTL

\* A request key makes one run: create_run looks the key up in the transaction that
\* makes it.
THEOREM KeysMakeOneRun == FamSpec => []KeyMakesOneRun
<1>1. FamInv => KeyMakesOneRun
  BY DEF FamInv
<1> QED BY <1>1, FamiliesStand, PTL
=============================================================================
