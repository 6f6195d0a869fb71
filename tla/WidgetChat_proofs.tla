------------------------- MODULE WidgetChat_proofs -------------------------
(***************************************************************************)
(* Theorems about the messenger, for any conversations at the start, pages *)
(* of any length and any number of events.                                 *)
(***************************************************************************)
EXTENDS WidgetChat, FiniteSetTheorems, SequenceTheorems, WellFoundedInduction, TLAPS

----------------------------------------------------------------------------
(* The state of the iframe, its requests, the loader, sockets, backend.    *)

Calls == Ops \cup {None}

Entries == [conv : Nat, unread : BOOLEAN]

Items == [kind : {"stored", "pending", "failed"}, id : Nat]

Screens == [name : {"loading", "home", "thread", "error"}, conv : Nat]

Apps == [screen  : Screens,
         list    : Seq(Entries),
         shown   : Seq(Items),
         seen    : SUBSET Nat,
         cursor  : Nat,
         loading : BOOLEAN,
         panel   : BOOLEAN,
         card    : Calls,
         ops     : SUBSET Ops,
         working : BOOLEAN,
         timer   : BOOLEAN]

Whats == {"boot", "convs", "opened", "list", "older", "create", "created",
          "send", "read", "pending", "result"}

OfConv == {"list", "older", "created", "send", "read", "pending", "result"}

Gots == [list : Seq(Entries), items : Seq(Nat), next : Nat, id : Nat, op : Calls]

Reqs == [n : Nat, what : Whats, conv : Nat, arg : Nat, op : Calls, got : Gots,
         stage : {"sent", "served", "failed"}]

Loaders == [badge : Nat, busy : [Ops -> Nat]]

Frames == [what : {"message", "op", "ended"}, conv : Nat, id : Nat,
           dir : {"in", "out"}, op : Calls]

Socks == [up : BOOLEAN, want : SUBSET Nat, joined : SUBSET Nat, wire : Seq(Frames)]

Worlds == [app : Apps, requests : SUBSET Reqs, loader : Loaders,
           sockets : Seq(Socks), ran : [Ops -> Nat]]

Servers == [log    : Seq([conv : Nat, dir : {"in", "out"}]),
            read   : [1..(Len(Start) + NumEvents) -> Nat],
            parked : SUBSET Ops,
            waits  : [conv : Nat, op : Calls]]

\* Conversations are numbered without a gap.
ServerOK(sv) == sv \in Servers /\ \E k \in Nat : Convs(sv) = 1..k

\* What the backend has stored is all that is referred to.
AppOK(a, sv) ==
    /\ a.screen.conv \in {0} \cup Convs(sv)
    /\ a.screen.conv # 0 => a.screen.name = "thread"
    /\ \A i \in DOMAIN a.list : a.list[i].conv \in Convs(sv)
    /\ a.seen \subseteq DOMAIN sv.log /\ a.cursor \in 0..Len(sv.log)

GotOK(g, sv) ==
    /\ \A i \in DOMAIN g.list : g.list[i].conv \in Convs(sv)
    /\ \A i \in DOMAIN g.items : g.items[i] \in DOMAIN sv.log
    /\ g.next \in 0..Len(sv.log)

RequestOK(r, sv) ==
    /\ r.what \in OfConv => r.conv \in Convs(sv)
    /\ r.what = "result" => r.stage = "sent"
    /\ GotOK(r.got, sv)
    /\ r.stage = "served" /\ r.what = "create" => r.got.id \in Convs(sv)
    /\ r.stage = "served" /\ r.what = "send" => r.got.id \in DOMAIN sv.log

FrameOK(f, sv) ==
    /\ f.what = "message" => f.id \in DOMAIN sv.log /\ sv.log[f.id].conv = f.conv
    /\ f.what = "op" => f.op \in Ops

\* Before the first boot there is no socket, nothing on the screen, and nothing
\* but a boot is answered.
Dark(w) == w.sockets = << >> =>
    /\ w.app.screen.name \in {"loading", "error"}
    /\ \A r \in w.requests : r.what = "boot" \/ r.stage = "failed"

Shape(w, sv) ==
    /\ w \in Worlds /\ IsFiniteSet(w.requests) /\ Dark(w)
    /\ AppOK(w.app, sv) /\ \A r \in w.requests : RequestOK(r, sv)
    /\ \A s \in DOMAIN w.sockets : \A i \in DOMAIN w.sockets[s].wire :
          FrameOK(w.sockets[s].wire[i], sv)

Counted(w) == w.loader.badge = UnreadCount(w.app.list)

\* What the loader works on is in pendingOps; what the card asks is not.
Once(w) ==
    /\ \A op \in Ops : /\ w.loader.busy[op] <= 1
                       /\ w.loader.busy[op] > 0 => op \in w.app.ops
    /\ w.app.card \notin w.app.ops

Covers(a, R) ==
    /\ a.loading => \E r \in R : r.what = "list"
    /\ \A i \in DOMAIN a.shown : a.shown[i].kind = "pending" =>
          \E r \in R : r.what \in {"create", "created", "send"} /\ r.arg = a.shown[i].id
    /\ a.working => a.timer

Sound(w, sv) == Shape(w, sv) /\ Counted(w) /\ Once(w)

Fine(w, sv) == Sound(w, sv) /\ Covers(w.app, w.requests)

ChatInv == ServerOK(server) /\ Fine(World, server) /\ events \in Nat

----------------------------------------------------------------------------
(* Numbers in their order.                                                 *)

\* Whatever the numbers are, as many of them are below the i-th.
LEMMA RanksAre ==
    ASSUME NEW S \in SUBSET Nat, IsFiniteSet(S)
    PROVE  /\ \A x \in S : Cardinality({y \in S : y < x}) \in 0..(Cardinality(S) - 1)
           /\ \A i \in 1..Cardinality(S) :
                 \E x \in S : Cardinality({y \in S : y < x}) = i - 1
<1> DEFINE Below(x) == {y \in S : y < x}
           n == Cardinality(S)
<1>1. n \in Nat /\ IsFiniteSet(0..(n - 1)) /\ Cardinality(0..(n - 1)) = n
  <2>1. n \in Nat
    BY FS_CardinalityType
  <2>2. PICK a \in Int, b \in Int : a = 0 /\ b = n - 1
    BY <2>1
  <2>3. IsFiniteSet(a..b) /\ Cardinality(a..b) = IF a > b THEN 0 ELSE b - a + 1
    BY FS_Interval
  <2> QED
    BY <2>1, <2>2, <2>3
<1>2. \A x \in S : /\ IsFiniteSet(Below(x)) /\ Cardinality(Below(x)) \in Nat
                   /\ Cardinality(Below(x)) \in 0..(n - 1)
  <2> SUFFICES ASSUME NEW x \in S
               PROVE  /\ IsFiniteSet(Below(x)) /\ Cardinality(Below(x)) \in Nat
                      /\ Cardinality(Below(x)) \in 0..(n - 1)
    OBVIOUS
  <2>1. Below(x) \in SUBSET S /\ x \notin Below(x)
    OBVIOUS
  <2> HIDE DEF Below
  <2>2. /\ IsFiniteSet(Below(x)) /\ Cardinality(Below(x)) <= n
        /\ n = Cardinality(Below(x)) => S = Below(x)
    BY <2>1, FS_Subset
  <2>3. Cardinality(Below(x)) \in Nat
    BY <2>2, FS_CardinalityType
  <2> QED
    BY <1>1, <2>1, <2>2, <2>3
<1>3. \A x, z \in S : x < z => Cardinality(Below(x)) < Cardinality(Below(z))
  <2> SUFFICES ASSUME NEW x \in S, NEW z \in S, x < z
               PROVE  Cardinality(Below(x)) < Cardinality(Below(z))
    OBVIOUS
  <2>1. Below(x) \in SUBSET Below(z) /\ x \in Below(z) /\ x \notin Below(x)
    <3>1. x \in Nat /\ z \in Nat /\ \A y \in S : y \in Nat
      OBVIOUS
    <3>2. ASSUME NEW y \in Below(x) PROVE y \in Below(z)
      <4>1. y \in S /\ y \in Nat /\ y < x
        BY <3>1
      <4>2. y < z
        BY <3>1, <4>1
      <4> QED
        BY <4>1, <4>2
    <3>3. x \in Below(z) /\ x \notin Below(x)
      BY <3>1
    <3> QED
      BY <3>2, <3>3
  <2> HIDE DEF Below
  <2>2. IsFiniteSet(Below(z)) /\ Cardinality(Below(z)) \in Nat /\ Cardinality(Below(x)) \in Nat
    BY <1>1, <1>2
  <2>3. Cardinality(Below(x)) <= Cardinality(Below(z)) /\ Cardinality(Below(x)) # Cardinality(Below(z))
    BY <2>1, <2>2, FS_Subset
  <2> QED
    BY <2>2, <2>3
<1> DEFINE f == [x \in S |-> Cardinality(Below(x))]
<1>4. f \in [S -> 0..(n - 1)] /\ \A x, z \in S : f[x] = f[z] => x = z
  <2>1. \A x, z \in S : x # z => x < z \/ z < x
    OBVIOUS
  <2>2. \A x \in S : f[x] = Cardinality(Below(x))
    OBVIOUS
  <2>3. \A x \in S : Cardinality(Below(x)) \in 0..(n - 1) /\ Cardinality(Below(x)) \in Nat
    BY <1>2
  <2>4. f \in [S -> 0..(n - 1)]
    BY <2>3
  <2> HIDE DEF Below, f
  <2>5. ASSUME NEW x \in S, NEW z \in S, f[x] = f[z] PROVE x = z
    BY <1>3, <2>1, <2>2, <2>3, <2>5
  <2> QED
    BY <2>4, <2>5
<1> HIDE DEF f
<1>5. f \in Injection(S, 0..(n - 1))
  BY <1>4 DEF Injection, IsInjective
<1>6. f \in Surjection(S, 0..(n - 1))
  BY <1>1, <1>5, FS_Injection
<1>7. \A i \in 1..n : \E x \in S : f[x] = i - 1
  BY <1>1, <1>6 DEF Surjection
<1> QED
  BY <1>2, <1>7 DEF f

LEMMA AscendingIs ==
    ASSUME NEW S \in SUBSET Nat, IsFiniteSet(S)
    PROVE  /\ Ascending(S) \in Seq(S) /\ DOMAIN Ascending(S) = 1..Cardinality(S)
           /\ \A i, j \in DOMAIN Ascending(S) : Ascending(S)[i] = Ascending(S)[j] => i = j
<1> DEFINE Below(x) == {y \in S : y < x}
           n == Cardinality(S)
<1>1. n \in Nat
  BY FS_CardinalityType
<1>2. \A i \in 1..n : Ascending(S)[i] \in S /\ Cardinality(Below(Ascending(S)[i])) = i - 1
  BY RanksAre DEF Ascending
<1>3. DOMAIN Ascending(S) = 1..n
  BY DEF Ascending
<1>4. Ascending(S) \in Seq(S)
  <2>1. Ascending(S) \in [1..n -> S]
    BY <1>2 DEF Ascending
  <2> QED
    BY <1>1, <2>1
<1> HIDE DEF Below
<1>5. \A i, j \in 1..n : Ascending(S)[i] = Ascending(S)[j] => i = j
  <2> SUFFICES ASSUME NEW i \in 1..n, NEW j \in 1..n, Ascending(S)[i] = Ascending(S)[j]
               PROVE  i = j
    OBVIOUS
  <2>1. i - 1 = j - 1
    BY <1>2
  <2> QED
    BY <1>1, <2>1
<1> QED
  BY <1>3, <1>4, <1>5

\* s has some of the elements of t, each once, at the places that at gives.
Thinned(s, t, at) ==
    /\ \A i \in DOMAIN s : at[i] \in DOMAIN t /\ s[i] = t[at[i]]
    /\ \A i, j \in DOMAIN s : at[i] = at[j] => i = j

\* What is kept of a sequence are some of its elements, each once.
LEMMA KeptIs ==
    ASSUME NEW A, NEW s \in Seq(A), NEW I \in SUBSET DOMAIN s
    PROVE  /\ Kept(s, I) \in Seq(A)
           /\ \E at : /\ Thinned(Kept(s, I), s, at)
                      /\ \A i \in DOMAIN Kept(s, I) : at[i] \in I
<1>1. DOMAIN s = 1..Len(s) /\ Len(s) \in Nat
  OBVIOUS
<1>2. IsFiniteSet(I) /\ I \in SUBSET Nat
  <2>1. I \in SUBSET Nat /\ \A i \in I : i <= Len(s)
    BY <1>1
  <2> QED
    BY <1>1, <2>1, FS_BoundedSetOfNaturals
<1>3. PICK at : at = Ascending(I)
  OBVIOUS
<1>4. at \in Seq(I) /\ \A i, j \in DOMAIN at : at[i] = at[j] => i = j
  BY <1>2, <1>3, AscendingIs
<1>5. Kept(s, I) = [i \in DOMAIN at |-> s[at[i]]]
  BY <1>3 DEF Kept
<1>6. DOMAIN at = 1..Len(at) /\ Len(at) \in Nat /\ \A i \in DOMAIN at : at[i] \in I
  BY <1>4
<1>7. \A i \in DOMAIN at : s[at[i]] \in A
  BY <1>1, <1>6
<1>8. Kept(s, I) \in [1..Len(at) -> A]
  BY <1>5, <1>6, <1>7
<1>9. Kept(s, I) \in Seq(A)
  BY <1>6, <1>8
<1>10. Thinned(Kept(s, I), s, at) /\ \A i \in DOMAIN Kept(s, I) : at[i] \in I
  BY <1>4, <1>5, <1>6 DEF Thinned
<1> QED
  BY <1>9, <1>10

LEMMA CountIs ==
    ASSUME NEW list \in Seq(Entries)
    PROVE  UnreadCount(list) \in 0..Len(list) /\ UnreadCount(list) \in Nat
<1> DEFINE U == {i \in DOMAIN list : list[i].unread}
<1>1. DOMAIN list = 1..Len(list) /\ Len(list) \in Nat
  OBVIOUS
<1>2. IsFiniteSet(1..Len(list)) /\ Cardinality(1..Len(list)) = Len(list)
  <2>1. Len(list) \in Int
    BY <1>1
  <2>2. PICK a \in Int, b \in Int : a = 1 /\ b = Len(list)
    BY <2>1
  <2>3. IsFiniteSet(a..b) /\ Cardinality(a..b) = IF a > b THEN 0 ELSE b - a + 1
    BY FS_Interval
  <2> QED
    BY <1>1, <2>2, <2>3
<1>3. U \in SUBSET (1..Len(list))
  BY <1>1
<1>4. UnreadCount(list) = Cardinality(U)
  BY DEF UnreadCount
<1> HIDE DEF U
<1>5. IsFiniteSet(U) /\ Cardinality(U) <= Len(list)
  BY <1>2, <1>3, FS_Subset
<1>6. Cardinality(U) \in Nat
  BY <1>5, FS_CardinalityType
<1> QED
  BY <1>1, <1>4, <1>5, <1>6

\* A conversation that is read adds nothing to the badge.
LEMMA CountOfCons ==
    ASSUME NEW list \in Seq(Entries), NEW e \in Entries, ~e.unread
    PROVE  UnreadCount(<<e>> \o list) = UnreadCount(list)
<1> DEFINE U == {i \in DOMAIN list : list[i].unread}
           M == <<e>> \o list
           V == {i \in DOMAIN M : M[i].unread}
           f == [i \in U |-> i + 1]
<1>1. DOMAIN list = 1..Len(list) /\ Len(list) \in Nat
  OBVIOUS
<1>2. /\ DOMAIN M = 1..(Len(list) + 1) /\ M[1] = e
      /\ \A i \in DOMAIN list : M[i + 1] = list[i]
  BY <1>1
<1> HIDE DEF M
<1>3. IsFiniteSet(U)
  <2>1. U \in SUBSET Nat /\ \A i \in U : i <= Len(list)
    BY <1>1
  <2> QED
    BY <1>1, <2>1, FS_BoundedSetOfNaturals
<1>4. \A i \in U : i \in Nat /\ f[i] = i + 1 /\ i + 1 \in V
  BY <1>1, <1>2
<1>5. \A k \in V : k - 1 \in U /\ k = (k - 1) + 1
  <2> SUFFICES ASSUME NEW k \in V PROVE k - 1 \in U /\ k = (k - 1) + 1
    OBVIOUS
  <2>1. k \in 1..(Len(list) + 1) /\ k # 1
    BY <1>2
  <2>2. PICK i \in Int : i = k - 1
    BY <1>1, <2>1
  <2>3. i \in DOMAIN list /\ k = i + 1
    BY <1>1, <2>1, <2>2
  <2>4. list[i].unread
    BY <1>2, <2>3
  <2> QED
    BY <2>2, <2>3, <2>4
<1>6. f \in [U -> V]
  BY <1>4
<1> HIDE DEF U, V
<1>7. f \in Bijection(U, V)
  <2>1. \A a, b \in U : f[a] = f[b] => a = b
    BY <1>4
  <2>2. \A k \in V : \E i \in U : f[i] = k
    BY <1>4, <1>5
  <2> HIDE DEF f
  <2> QED
    BY <1>6, <2>1, <2>2 DEF Bijection, Injection, Surjection, IsInjective
<1>8. Cardinality(V) = Cardinality(U)
  BY <1>3, <1>7, FS_Bijection DEF ExistsBijection
<1> QED
  BY <1>8 DEF UnreadCount, U, V, M

\* A sequence has finitely many places.
LEMMA FiniteDomain ==
    ASSUME NEW A, NEW s \in Seq(A)
    PROVE  IsFiniteSet(DOMAIN s)
<1>1. DOMAIN s = 1..Len(s) /\ Len(s) \in Nat
  OBVIOUS
<1>2. DOMAIN s \in SUBSET Nat /\ \A i \in DOMAIN s : i <= Len(s)
  BY <1>1
<1> QED
  BY <1>1, <1>2, FS_BoundedSetOfNaturals

----------------------------------------------------------------------------
(* The helpers of the controller.                                          *)

\* A request is one more, with a number that no other has.
LEMMA AskIs ==
    ASSUME NEW w \in Worlds, IsFiniteSet(w.requests), NEW what \in Whats, NEW c \in Nat,
           NEW arg \in Nat, NEW op \in Calls
    PROVE  \E r \in Reqs :
              /\ AskOf(w, what, c, arg, op) = [w EXCEPT !.requests = @ \cup {r}]
              /\ r.what = what /\ r.conv = c /\ r.arg = arg /\ r.op = op
              /\ r.got = Nothing /\ r.stage \in {"sent", "failed"}
              /\ w.sockets # << >> => r.stage = "sent"
              /\ w.sockets = << >> => r.what = "boot" \/ r.stage = "failed"
<1> DEFINE R == w.requests
           Free(i) == /\ \A r \in R : r.n # i
                      /\ \A j \in 1..(i - 1) : \E r \in R : r.n = j
           used == {r.n : r \in R}
           k == Cardinality(R)
<1>1. R \in SUBSET Reqs /\ IsFiniteSet(R) /\ k \in Nat
  BY FS_CardinalityType DEF Worlds
<1>2. IsFiniteSet(used) /\ Cardinality(used) <= k
  <2>1. PICK f : f = [r \in R |-> r.n]
    OBVIOUS
  <2>2. f \in Surjection(R, used)
    BY <2>1 DEF Surjection
  <2> QED
    BY <1>1, <2>2, FS_Surjection
<1>3. \E i \in 1..(k + 1) : i \notin used
  <2> SUFFICES ASSUME 1..(k + 1) \subseteq used PROVE FALSE
    OBVIOUS
  <2> HIDE DEF used, k
  <2>1. PICK a \in Int, b \in Int : a = 1 /\ b = k + 1
    BY <1>1
  <2>2. IsFiniteSet(a..b) /\ Cardinality(a..b) = IF a > b THEN 0 ELSE b - a + 1
    BY FS_Interval
  <2>3. Cardinality(a..b) <= Cardinality(used)
    BY <1>2, <2>1, FS_Subset
  <2>4. Cardinality(used) \in Nat
    BY <1>2, FS_CardinalityType
  <2> QED
    BY <1>1, <1>2, <2>1, <2>2, <2>3, <2>4
<1>4. \E i \in 1..(k + 1) : Free(i)
  <2> DEFINE T == (1..(k + 1)) \ used
  <2>1. T \in SUBSET Nat /\ T # {}
    BY <1>1, <1>3
  <2> HIDE DEF T
  <2>2. PICK i \in T : \A j \in T : ~(<<j, i>> \in OpToRel(<, Nat))
    BY <2>1, NatLessThanWellFounded, WFMin
  <2>3. \A j \in T : ~(j < i)
    BY <2>1, <2>2 DEF OpToRel
  <2> QED
    BY <1>1, <2>1, <2>3 DEF T
<1> DEFINE n == CHOOSE i \in 1..(k + 1) : Free(i)
           q == [n |-> n, what |-> what, conv |-> c, arg |-> arg, op |-> op, got |-> Nothing,
                 stage |-> IF what = "boot" \/ w.sockets # << >> THEN "sent" ELSE "failed"]
<1>5. AskOf(w, what, c, arg, op) = [w EXCEPT !.requests = @ \cup {q}]
  BY DEF AskOf
<1>6. n \in Nat
  BY <1>1, <1>4
<1> HIDE DEF n
<1>7. Nothing \in Gots
  BY DEF Nothing, Gots, Calls
<1>8. q \in Reqs
  BY <1>6, <1>7 DEF Reqs
<1> QED
  BY <1>5, <1>8

\* The conversations are those that a message is of, and numbered from 1.
LEMMA ConvsAre ==
    ASSUME NEW sv, ServerOK(sv)
    PROVE  /\ Len(sv.log) \in Nat /\ DOMAIN sv.log = 1..Len(sv.log)
           /\ \A i \in DOMAIN sv.log : sv.log[i].conv \in Convs(sv)
           /\ \A c \in Convs(sv) : c \in Nat /\ c # 0
<1>1. sv.log \in Seq([conv : Nat, dir : {"in", "out"}])
  BY DEF ServerOK, Servers
<1>2. \E k \in Nat : Convs(sv) = 1..k
  BY DEF ServerOK
<1>3. \A i \in DOMAIN sv.log : sv.log[i].conv \in Convs(sv)
  BY DEF Convs
<1> QED
  BY <1>1, <1>2, <1>3

LEMMA ShapeParts ==
    ASSUME NEW w, NEW sv, Shape(w, sv)
    PROVE  /\ w \in Worlds /\ IsFiniteSet(w.requests) /\ Dark(w) /\ AppOK(w.app, sv)
           /\ w.app \in Apps /\ w.app.screen \in Screens /\ w.requests \in SUBSET Reqs
           /\ w.loader \in Loaders /\ w.sockets \in Seq(Socks) /\ w.ran \in [Ops -> Nat]
BY DEF Shape, Worlds, Apps



\* What the caller of AskOf sees to, and what it does.
Askable(w, sv, what, c, arg, op) ==
    /\ what \in Whats /\ c \in Nat /\ arg \in Nat /\ op \in Calls /\ Len(sv.log) \in Nat
    /\ what \in OfConv => c \in Convs(sv)
    /\ what = "result" => w.sockets # << >>

Asked(v, w, what, c, arg) ==
    /\ v.app = w.app /\ v.loader = w.loader /\ v.sockets = w.sockets /\ v.ran = w.ran
    /\ \E r \in Reqs : /\ v.requests = w.requests \cup {r}
                       /\ r.what = what /\ r.conv = c /\ r.arg = arg
                       /\ r.stage \in {"sent", "failed"}

LEMMA AskShape ==
    ASSUME NEW w, NEW sv, NEW what, NEW c, NEW arg, NEW op,
           Shape(w, sv), Askable(w, sv, what, c, arg, op)
    PROVE  /\ Shape(AskOf(w, what, c, arg, op), sv)
           /\ Asked(AskOf(w, what, c, arg, op), w, what, c, arg)
<1> DEFINE v == AskOf(w, what, c, arg, op)
<1>1. /\ w \in Worlds /\ w.requests \in SUBSET Reqs /\ IsFiniteSet(w.requests)
      /\ what \in Whats /\ c \in Nat /\ arg \in Nat /\ op \in Calls
  BY ShapeParts DEF Askable
<1>2. PICK r \in Reqs :
              /\ v = [w EXCEPT !.requests = @ \cup {r}]
              /\ r.what = what /\ r.conv = c /\ r.arg = arg /\ r.op = op
              /\ r.got = Nothing /\ r.stage \in {"sent", "failed"}
              /\ w.sockets # << >> => r.stage = "sent"
              /\ w.sockets = << >> => r.what = "boot" \/ r.stage = "failed"
  BY <1>1, AskIs
<1> HIDE DEF v
<1>3. /\ v \in Worlds /\ v.requests = w.requests \cup {r}
      /\ v.app = w.app /\ v.loader = w.loader /\ v.sockets = w.sockets /\ v.ran = w.ran
  BY <1>1, <1>2 DEF Worlds
<1>4. IsFiniteSet(v.requests)
  BY <1>1, <1>3, FS_AddElement
<1>5. RequestOK(r, sv)
  BY <1>2 DEF RequestOK, GotOK, Nothing, Askable
<1>6. Shape(v, sv)
  BY <1>2, <1>3, <1>4, <1>5 DEF Shape, Dark
<1>7. Asked(v, w, what, c, arg)
  BY <1>2, <1>3 DEF Asked
<1> QED
  BY <1>6, <1>7 DEF v

LEMMA AskSound ==
    ASSUME NEW w, NEW sv, NEW what, NEW c, NEW arg, NEW op,
           Sound(w, sv), Askable(w, sv, what, c, arg, op)
    PROVE  /\ Sound(AskOf(w, what, c, arg, op), sv)
           /\ Asked(AskOf(w, what, c, arg, op), w, what, c, arg)
<1>1. PICK v : v = AskOf(w, what, c, arg, op)
  OBVIOUS
<1>2. Shape(v, sv) /\ Asked(v, w, what, c, arg)
  BY <1>1, AskShape DEF Sound
<1>3. Counted(v) /\ Once(v)
  BY <1>2 DEF Sound, Counted, Once, Asked
<1> QED
  BY <1>1, <1>2, <1>3 DEF Sound

\* A request more covers what is covered.
LEMMA AskFine ==
    ASSUME NEW w, NEW sv, NEW what, NEW c, NEW arg, NEW op,
           Fine(w, sv), Askable(w, sv, what, c, arg, op)
    PROVE  /\ Fine(AskOf(w, what, c, arg, op), sv)
           /\ Asked(AskOf(w, what, c, arg, op), w, what, c, arg)
<1>1. PICK v : v = AskOf(w, what, c, arg, op)
  OBVIOUS
<1>2. Sound(v, sv) /\ Asked(v, w, what, c, arg)
  BY <1>1, AskSound DEF Fine
<1>3. Covers(v.app, v.requests)
  BY <1>2 DEF Fine, Covers, Asked
<1> QED
  BY <1>1, <1>2, <1>3 DEF Fine

LEMMA PushIs ==
    ASSUME NEW w, NEW sv, Shape(w, sv)
    PROVE  LET v == PushUnread(w)
           IN  /\ Shape(v, sv) /\ Counted(v)
               /\ v.app = w.app /\ v.requests = w.requests /\ v.sockets = w.sockets /\ v.ran = w.ran
               /\ v.loader.busy = w.loader.busy
<1> DEFINE v == PushUnread(w)
<1>1. w.app.list \in Seq(Entries) /\ w \in Worlds /\ w.loader \in Loaders
  BY ShapeParts DEF Apps
<1>2. PICK n \in Nat : n = UnreadCount(w.app.list)
  BY <1>1, CountIs
<1>3. v = [w EXCEPT !.loader.badge = n]
  BY <1>2 DEF PushUnread
<1> HIDE DEF v
<1>4. /\ v.app = w.app /\ v.requests = w.requests /\ v.sockets = w.sockets /\ v.ran = w.ran
      /\ v.loader = [w.loader EXCEPT !.badge = n]
  BY <1>1, <1>3 DEF Worlds
<1>5. v.loader \in Loaders /\ v.loader.busy = w.loader.busy /\ v.loader.badge = n
  BY <1>1, <1>4 DEF Loaders
<1>6. v \in Worlds
  BY <1>1, <1>3, <1>5 DEF Worlds
<1>7. Counted(v)
  BY <1>2, <1>4, <1>5 DEF Counted
<1>8. Shape(v, sv)
  BY <1>4, <1>6 DEF Shape, Dark
<1> QED
  BY <1>4, <1>5, <1>7, <1>8 DEF v

LEMMA SubscribeIs ==
    ASSUME NEW w, NEW sv, Shape(w, sv), NEW c \in Nat
    PROVE  LET v == Subscribe(w, c)
           IN  /\ Shape(v, sv)
               /\ v.app = w.app /\ v.requests = w.requests /\ v.loader = w.loader /\ v.ran = w.ran
               /\ DOMAIN v.sockets = DOMAIN w.sockets /\ (v.sockets = << >> <=> w.sockets = << >>)
               /\ \A s \in DOMAIN w.sockets : v.sockets[s].wire = w.sockets[s].wire
<1> DEFINE v == Subscribe(w, c)
<1>1. CASE w.sockets = << >>
  BY <1>1 DEF Subscribe
<1>2. CASE w.sockets # << >>
  <2>1. w \in Worlds /\ w.sockets \in Seq(Socks)
    BY ShapeParts
  <2>2. PICK m \in DOMAIN w.sockets : m = Len(w.sockets)
    BY <1>2, <2>1
  <2>3. v = [w EXCEPT !.sockets[m].want = @ \cup {c}]
    BY <1>2, <2>2 DEF Subscribe
  <2> HIDE DEF v
  <2>4. /\ v.app = w.app /\ v.requests = w.requests /\ v.loader = w.loader /\ v.ran = w.ran
        /\ v.sockets = [w.sockets EXCEPT ![m].want = @ \cup {c}]
    BY <2>1, <2>3 DEF Worlds
  <2>5. /\ v.sockets \in Seq(Socks) /\ DOMAIN v.sockets = DOMAIN w.sockets
        /\ \A s \in DOMAIN w.sockets : v.sockets[s].wire = w.sockets[s].wire
    <3>1. w.sockets[m] \in Socks /\ DOMAIN w.sockets = 1..Len(w.sockets) /\ Len(w.sockets) \in Nat
      BY <2>1, <2>2
    <3> DEFINE q == [w.sockets[m] EXCEPT !.want = @ \cup {c}]
    <3>2. q \in Socks /\ q.wire = w.sockets[m].wire
      BY <3>1 DEF Socks
    <3>3. v.sockets = [w.sockets EXCEPT ![m] = q]
      BY <2>4
    <3> HIDE DEF q
    <3> QED
      BY <2>1, <2>2, <3>1, <3>2, <3>3
  <2>6. v \in Worlds
    BY <2>1, <2>3, <2>5 DEF Worlds
  <2>7. v.sockets # << >>
    BY <2>2, <2>5
  <2>8. Shape(v, sv)
    BY <1>2, <2>4, <2>5, <2>6, <2>7 DEF Shape, Dark
  <2> QED
    BY <1>2, <2>4, <2>5, <2>7, <2>8 DEF v
<1> QED
  BY <1>1, <1>2

\* What a handler does to the controller's state only.
LEMMA AppIs ==
    ASSUME NEW w, NEW sv, Shape(w, sv), NEW a \in Apps, AppOK(a, sv),
           w.sockets = << >> => a.screen.name \in {"loading", "error"}
    PROVE  LET v == [w EXCEPT !.app = a]
           IN  /\ Shape(v, sv)
               /\ v.app = a /\ v.requests = w.requests /\ v.loader = w.loader
               /\ v.sockets = w.sockets /\ v.ran = w.ran
<1> DEFINE v == [w EXCEPT !.app = a]
<1>1. w \in Worlds
  BY ShapeParts
<1>2. /\ v \in Worlds /\ v.app = a /\ v.requests = w.requests /\ v.loader = w.loader
      /\ v.sockets = w.sockets /\ v.ran = w.ran
  BY <1>1 DEF Worlds
<1> HIDE DEF v
<1>3. Shape(v, sv)
  BY <1>2 DEF Shape, Dark
<1> QED
  BY <1>2, <1>3 DEF v

LEMMA AppSound ==
    ASSUME NEW w, NEW sv, Sound(w, sv), NEW a \in Apps, AppOK(a, sv),
           w.sockets = << >> => a.screen.name \in {"loading", "error"},
           UnreadCount(a.list) = UnreadCount(w.app.list), a.ops = w.app.ops,
           a.card \in {None, w.app.card}
    PROVE  LET v == [w EXCEPT !.app = a]
           IN  /\ Sound(v, sv)
               /\ v.app = a /\ v.requests = w.requests /\ v.loader = w.loader
               /\ v.sockets = w.sockets /\ v.ran = w.ran
<1> DEFINE v == [w EXCEPT !.app = a]
<1>1. /\ Shape(v, sv)
      /\ v.app = a /\ v.requests = w.requests /\ v.loader = w.loader
      /\ v.sockets = w.sockets /\ v.ran = w.ran
  BY AppIs DEF Sound
<1> HIDE DEF v
<1>2. Counted(v)
  BY <1>1 DEF Sound, Counted
<1>3. w.app.ops \in SUBSET Ops /\ None \notin Ops
  BY ShapeParts, ChatAssumption DEF Sound, Apps, None
<1>4. Once(v)
  BY <1>1, <1>3 DEF Sound, Once
<1> QED
  BY <1>1, <1>2, <1>4 DEF Sound, v

LEMMA OpenConversationKeeps ==
    ASSUME NEW w, NEW sv, ServerOK(sv), Fine(w, sv), w.sockets # << >>, NEW c \in Convs(sv)
    PROVE  LET v == OpenConversation(w, c)
           IN  Fine(v, sv) /\ v.sockets = w.sockets
<1> DEFINE u == [w EXCEPT !.app.screen = Thread(c), !.app.shown = << >>, !.app.seen = {},
                          !.app.cursor = 0, !.app.loading = TRUE, !.app.card = None]
           v == AskOf(u, "list", c, 0, None)
<1>1. w \in Worlds /\ w.app \in Apps /\ AppOK(w.app, sv) /\ Len(sv.log) \in Nat /\ c \in Nat
  BY ShapeParts, ConvsAre DEF Fine, Sound
<1>2. PICK a \in Apps :
              /\ u = [w EXCEPT !.app = a] /\ AppOK(a, sv)
              /\ a.shown = << >> /\ a.card = None /\ a.list = w.app.list
              /\ a.ops = w.app.ops /\ a.working = w.app.working /\ a.timer = w.app.timer
  <2> DEFINE a == [w.app EXCEPT !.screen = Thread(c), !.shown = << >>, !.seen = {},
                                !.cursor = 0, !.loading = TRUE, !.card = None]
  <2>1. u = [w EXCEPT !.app = a]
    BY <1>1 DEF Worlds, Apps
  <2>2. Thread(c) \in Screens /\ Thread(c).conv = c /\ Thread(c).name = "thread"
    BY <1>1 DEF Thread, Screens
  <2>3. /\ a.screen = Thread(c) /\ a.seen = {} /\ a.cursor = 0
        /\ a.shown = << >> /\ a.card = None /\ a.list = w.app.list
        /\ a.ops = w.app.ops /\ a.working = w.app.working /\ a.timer = w.app.timer
    BY <1>1 DEF Apps
  <2>4. << >> \in Seq(Items) /\ {} \in SUBSET Nat /\ None \in Calls
    BY DEF Calls
  <2>5. a \in Apps
    BY <1>1, <2>2, <2>4 DEF Apps
  <2>6. AppOK(a, sv)
    BY <1>1, <2>2, <2>3 DEF AppOK
  <2> QED
    BY <2>1, <2>3, <2>6, <2>5
<1> HIDE DEF u
<1>3. /\ Sound(u, sv) /\ u.app = a /\ u.requests = w.requests /\ u.loader = w.loader
      /\ u.sockets = w.sockets /\ u.ran = w.ran
  BY <1>2, AppSound DEF Fine
<1>4. Askable(u, sv, "list", c, 0, None)
  BY <1>1 DEF Askable, Whats, Calls
<1>5. Sound(v, sv) /\ Asked(v, u, "list", c, 0)
  BY <1>3, <1>4, AskSound
<1> HIDE DEF v
<1>6. /\ v.app = a /\ v.loader = w.loader /\ v.sockets = w.sockets
      /\ \E r \in Reqs : v.requests = w.requests \cup {r} /\ r.what = "list"
  BY <1>3, <1>5 DEF Asked
<1>7. Covers(v.app, v.requests)
  BY <1>2, <1>6 DEF Fine, Covers
<1>8. OpenConversation(w, c) = v
  BY DEF OpenConversation, Ask, u, v
<1> QED
  BY <1>6, <1>7, <1>8, <1>5 DEF Fine

LEMMA OpenTheUnreadKeeps ==
    ASSUME NEW w, NEW sv, ServerOK(sv), Fine(w, sv)
    PROVE  LET v == OpenTheUnread(w)
           IN  Fine(v, sv) /\ v.sockets = w.sockets
<1> DEFINE U == {i \in DOMAIN w.app.list : w.app.list[i].unread}
<1>1. CASE w.app.screen.name = "home" /\ Cardinality(U) = 1
  <2>1. U # {}
    BY <1>1, FS_EmptySet
  <2>2. PICK i \in U : OpenTheUnread(w) = OpenConversation(w, w.app.list[i].conv)
    BY <1>1, <2>1 DEF OpenTheUnread
  <2>3. w.app.list[i].conv \in Convs(sv) /\ w.sockets # << >>
    BY <1>1 DEF Fine, Sound, Shape, AppOK, Dark
  <2> QED
    BY <2>2, <2>3, OpenConversationKeeps
<1>2. CASE ~(w.app.screen.name = "home" /\ Cardinality(U) = 1)
  BY <1>2 DEF OpenTheUnread
<1> QED
  BY <1>1, <1>2

LEMMA StartNewKeeps ==
    ASSUME NEW w, NEW sv, ServerOK(sv), Fine(w, sv), w.sockets # << >>
    PROVE  Fine(StartNew(w), sv)
<1> DEFINE v == StartNew(w)
           a == [w.app EXCEPT !.screen = Thread(0), !.shown = << >>, !.seen = {},
                              !.cursor = 0, !.card = None]
<1>1. w \in Worlds /\ w.app \in Apps /\ AppOK(w.app, sv) /\ Len(sv.log) \in Nat
  BY ShapeParts, ConvsAre DEF Fine, Sound
<1>2. v = [w EXCEPT !.app = a]
  BY <1>1 DEF Worlds, Apps, StartNew
<1>3. Thread(0) \in Screens /\ Thread(0).conv = 0 /\ Thread(0).name = "thread"
  BY DEF Thread, Screens
<1>4. /\ a.screen = Thread(0) /\ a.seen = {} /\ a.cursor = 0
      /\ a.shown = << >> /\ a.card = None /\ a.list = w.app.list /\ a.loading = w.app.loading
      /\ a.ops = w.app.ops /\ a.working = w.app.working /\ a.timer = w.app.timer
  BY <1>1 DEF Apps
<1>5. << >> \in Seq(Items) /\ {} \in SUBSET Nat /\ None \in Calls
  BY DEF Calls
<1>6. a \in Apps
  BY <1>1, <1>3, <1>5 DEF Apps
<1>7. AppOK(a, sv)
  BY <1>1, <1>3, <1>4 DEF AppOK
<1> HIDE DEF a, v
<1>8. Sound(v, sv) /\ v.app = a /\ v.requests = w.requests
  BY <1>2, <1>4, <1>6, <1>7, AppSound DEF Fine
<1>9. Covers(v.app, v.requests)
  BY <1>4, <1>8 DEF Fine, Covers
<1> QED
  BY <1>8, <1>9 DEF Fine, v

LEMMA SetWorkingKeeps ==
    ASSUME NEW w, NEW sv, Sound(w, sv), NEW on \in BOOLEAN
    PROVE  LET v == SetWorking(w, on)
           IN  /\ Sound(v, sv)
               /\ Covers(w.app, w.requests) => Covers(v.app, v.requests)
               /\ v.app.screen = w.app.screen /\ v.app.ops = w.app.ops /\ v.app.card = w.app.card
               /\ v.requests = w.requests /\ v.loader = w.loader
               /\ v.sockets = w.sockets /\ v.ran = w.ran
<1> DEFINE v == SetWorking(w, on)
           a == [w.app EXCEPT !.working = on, !.timer = on]
<1>1. w \in Worlds /\ w.app \in Apps /\ AppOK(w.app, sv) /\ Dark(w)
  BY ShapeParts DEF Sound
<1>2. v = [w EXCEPT !.app = a]
  BY <1>1 DEF Worlds, Apps, SetWorking
<1>3. /\ a.screen = w.app.screen /\ a.seen = w.app.seen /\ a.cursor = w.app.cursor
      /\ a.shown = w.app.shown /\ a.card = w.app.card /\ a.list = w.app.list
      /\ a.loading = w.app.loading /\ a.ops = w.app.ops /\ a.working = on /\ a.timer = on
  BY <1>1 DEF Apps
<1>4. a \in Apps
  BY <1>1 DEF Apps
<1>5. AppOK(a, sv)
  BY <1>1, <1>3 DEF AppOK
<1> HIDE DEF a, v
<1>6. /\ Sound(v, sv) /\ v.app = a /\ v.requests = w.requests /\ v.loader = w.loader
      /\ v.sockets = w.sockets /\ v.ran = w.ran
  BY <1>1, <1>2, <1>3, <1>4, <1>5, AppSound DEF Dark
<1>7. Covers(w.app, w.requests) => Covers(v.app, v.requests)
  BY <1>3, <1>6 DEF Covers
<1> QED
  BY <1>3, <1>6, <1>7 DEF v

\* An operation is begun that is in pendingOps from then on.
LEMMA StartedKeeps ==
    ASSUME NEW u, NEW sv, Fine(u, sv), NEW op \in Ops, op \notin u.app.ops,
           NEW card \in {None, u.app.card}, card # op
    PROVE  Fine(Post([u EXCEPT !.app.ops = @ \cup {op}, !.app.card = card], op), sv)
<1> DEFINE x == [u EXCEPT !.app.ops = @ \cup {op}, !.app.card = card]
           a == [u.app EXCEPT !.ops = @ \cup {op}, !.card = card]
           v == Post(x, op)
<1>1. Sound(u, sv) /\ Covers(u.app, u.requests)
  BY DEF Fine
<1>2. u \in Worlds /\ u.app \in Apps /\ AppOK(u.app, sv) /\ Dark(u) /\ u.loader \in Loaders
  BY <1>1, ShapeParts DEF Sound
<1>3. x = [u EXCEPT !.app = a]
  BY <1>2 DEF Worlds, Apps
<1>4. /\ a.screen = u.app.screen /\ a.seen = u.app.seen /\ a.cursor = u.app.cursor
      /\ a.shown = u.app.shown /\ a.card = card /\ a.list = u.app.list
      /\ a.loading = u.app.loading /\ a.ops = u.app.ops \cup {op}
      /\ a.working = u.app.working /\ a.timer = u.app.timer
  BY <1>2 DEF Apps
<1>5. card \in Calls
  BY <1>1, <1>2 DEF Apps, Calls
<1>6. a \in Apps
  BY <1>2, <1>5 DEF Apps
<1>7. AppOK(a, sv)
  BY <1>2, <1>4 DEF AppOK
<1> HIDE DEF a, x
<1>8. /\ Shape(x, sv) /\ x.app = a /\ x.requests = u.requests /\ x.loader = u.loader
      /\ x.sockets = u.sockets /\ x.ran = u.ran
  BY <1>1, <1>2, <1>3, <1>4, <1>6, <1>7, AppIs DEF Sound, Dark
<1>9. x \in Worlds /\ x.loader.busy \in [Ops -> Nat] /\ x.ran \in [Ops -> Nat] /\ x.loader \in Loaders
  BY <1>8, ShapeParts DEF Loaders
<1>10. PICK k \in Nat, m \in Nat : k = x.loader.busy[op] + 1 /\ m = x.ran[op] + 1
  BY <1>9
<1>11. v = [x EXCEPT !.loader.busy[op] = k, !.ran[op] = m]
  BY <1>10 DEF Post
<1> HIDE DEF v
<1>12. /\ v.app = a /\ v.requests = x.requests /\ v.sockets = x.sockets
       /\ v.loader = [x.loader EXCEPT !.busy[op] = k] /\ v.ran = [x.ran EXCEPT ![op] = m]
  BY <1>8, <1>9, <1>11 DEF Worlds
<1>13. /\ v.loader \in Loaders /\ v.ran \in [Ops -> Nat]
       /\ v.loader.badge = x.loader.badge /\ v.loader.busy = [x.loader.busy EXCEPT ![op] = k]
  BY <1>9, <1>12 DEF Loaders
<1>14. v \in Worlds
  BY <1>9, <1>11, <1>13 DEF Worlds
<1>15. Shape(v, sv)
  BY <1>8, <1>12, <1>14 DEF Shape, Dark
<1>16. Counted(v)
  BY <1>1, <1>4, <1>8, <1>12, <1>13 DEF Sound, Counted
<1>17. Once(v)
  <2>1. x.loader.busy[op] = 0
    BY <1>1, <1>8, <1>9 DEF Sound, Once
  <2>2. v.app.ops = u.app.ops \cup {op} /\ v.app.card = card /\ card \notin u.app.ops
    <3>1. u.app.ops \in SUBSET Ops /\ None \notin Ops
      BY ShapeParts, ChatAssumption DEF Fine, Sound, Apps, None
    <3>2. u.app.card \notin u.app.ops
      BY DEF Fine, Sound, Once
    <3> QED
      BY <1>1, <1>4, <1>12, <3>1, <3>2
  <2>3. ASSUME NEW o \in Ops
        PROVE  v.loader.busy[o] <= 1 /\ (v.loader.busy[o] > 0 => o \in v.app.ops)
    <3>1. u.loader.busy[o] <= 1 /\ (u.loader.busy[o] > 0 => o \in u.app.ops)
      BY DEF Fine, Sound, Once
    <3>2. u.loader.busy = x.loader.busy
      BY <1>1, <1>8
    <3>3. CASE o = op
      BY <1>9, <1>10, <1>13, <2>1, <2>2, <3>3
    <3>4. CASE o # op
      BY <1>9, <1>13, <2>2, <3>1, <3>2, <3>4
    <3> QED
      BY <3>3, <3>4
  <2> QED
    BY <2>2, <2>3 DEF Once
<1>18. Covers(v.app, v.requests)
  BY <1>1, <1>4, <1>8, <1>12 DEF Covers
<1> QED
  BY <1>15, <1>16, <1>17, <1>18 DEF Fine, Sound, v, x

LEMMA FinishOpKeeps ==
    ASSUME NEW w, NEW sv, ServerOK(sv), Fine(w, sv), NEW op \in Calls
    PROVE  LET v == FinishOp(w, op)
           IN  /\ Fine(v, sv)
               /\ v.app.ops = w.app.ops /\ v.loader = w.loader /\ v.sockets = w.sockets
<1> DEFINE u == SetWorking(w, FALSE)
           c == ConvOnScreen(w.app)
<1>1. /\ Fine(u, sv) /\ u.app.ops = w.app.ops /\ u.loader = w.loader
      /\ u.sockets = w.sockets
  BY SetWorkingKeeps DEF Fine
<1>2. CASE c = 0
  BY <1>1, <1>2 DEF FinishOp
<1>3. CASE c # 0
  <2>1. w.app.screen.name = "thread" /\ c = w.app.screen.conv
    BY <1>3 DEF ConvOnScreen
  <2>2. c \in Convs(sv) /\ w.sockets # << >>
    BY <1>3, <2>1, ShapeParts DEF Fine, Sound, AppOK, Dark
  <2>3. FinishOp(w, op) = AskOf(u, "result", c, 0, op)
    BY <1>3 DEF FinishOp
  <2>4. c \in Nat /\ Len(sv.log) \in Nat
    BY <2>2, ConvsAre
  <2> HIDE DEF u, c
  <2>5. Askable(u, sv, "result", c, 0, op)
    BY <1>1, <2>2, <2>4 DEF Askable, Whats
  <2>6. PICK v : v = AskOf(u, "result", c, 0, op)
    OBVIOUS
  <2>7. Fine(v, sv) /\ Asked(v, u, "result", c, 0)
    BY <1>1, <2>5, <2>6, AskFine
  <2> QED
    BY <1>1, <2>3, <2>6, <2>7 DEF Asked
<1> QED
  BY <1>2, <1>3

LEMMA OnOpKeeps ==
    ASSUME NEW w, NEW sv, ServerOK(sv), Fine(w, sv), NEW op \in Ops
    PROVE  Fine(OnOp(w, op), sv)
<1>1. w \in Worlds /\ w.app \in Apps /\ AppOK(w.app, sv) /\ Dark(w)
  BY ShapeParts DEF Fine, Sound
<1>2. op \in {"auto", "ask", "steps"} /\ op \in Calls
  BY ChatAssumption DEF Calls
<1>3. CASE op \in w.app.ops \/ w.app.card = op
  BY <1>3 DEF OnOp
<1>4. CASE op \notin w.app.ops /\ w.app.card # op /\ op = "ask"
  <2> DEFINE v == [w EXCEPT !.app.card = op]
             a == [w.app EXCEPT !.card = op]
  <2>1. OnOp(w, op) = v
    BY <1>4 DEF OnOp
  <2>2. v = [w EXCEPT !.app = a]
    BY <1>1 DEF Worlds, Apps
  <2>3. /\ a \in Apps /\ a.screen = w.app.screen /\ a.seen = w.app.seen
        /\ a.cursor = w.app.cursor /\ a.shown = w.app.shown /\ a.card = op
        /\ a.list = w.app.list /\ a.loading = w.app.loading /\ a.ops = w.app.ops
        /\ a.working = w.app.working /\ a.timer = w.app.timer
    BY <1>1, <1>2 DEF Apps
  <2>4. AppOK(a, sv)
    BY <1>1, <2>3 DEF AppOK
  <2> HIDE DEF a, v
  <2>5. /\ Shape(v, sv) /\ v.app = a /\ v.requests = w.requests /\ v.loader = w.loader
    BY <1>1, <2>2, <2>3, <2>4, AppIs DEF Fine, Sound, Dark
  <2>6. Counted(v)
    BY <2>3, <2>5 DEF Fine, Sound, Counted
  <2>7. Once(v)
    BY <1>4, <2>3, <2>5 DEF Fine, Sound, Once
  <2>8. Covers(v.app, v.requests)
    BY <2>3, <2>5 DEF Fine, Covers
  <2> QED
    BY <2>1, <2>5, <2>6, <2>7, <2>8 DEF Fine, Sound
<1>5. CASE op \notin w.app.ops /\ w.app.card # op /\ op = "auto"
  <2> DEFINE u == SetWorking(w, TRUE)
  <2>1. OnOp(w, op) = Post([u EXCEPT !.app.ops = @ \cup {op}], op)
    BY <1>5 DEF OnOp
  <2>2. Fine(u, sv) /\ u.app.card = w.app.card /\ u.app.ops = w.app.ops
    BY SetWorkingKeeps DEF Fine
  <2> HIDE DEF u
  <2>3. [u EXCEPT !.app.ops = @ \cup {op}]
            = [u EXCEPT !.app.ops = @ \cup {op}, !.app.card = w.app.card]
    <3>1. u \in Worlds /\ u.app \in Apps
      BY <2>2, ShapeParts DEF Fine, Sound
    <3> QED
      BY <2>2, <3>1 DEF Worlds, Apps
  <2>4. Fine(Post([u EXCEPT !.app.ops = @ \cup {op}, !.app.card = w.app.card], op), sv)
    <3>1. PICK card : card = w.app.card
      OBVIOUS
    <3>2. card \in {None, u.app.card} /\ card # op /\ op \notin u.app.ops
      BY <1>5, <2>2, <3>1
    <3>3. Fine(Post([u EXCEPT !.app.ops = @ \cup {op}, !.app.card = card], op), sv)
      BY <2>2, <3>2, StartedKeeps
    <3> QED
      BY <3>1, <3>3
  <2> QED
    BY <2>1, <2>3, <2>4
<1>6. CASE op \notin w.app.ops /\ w.app.card # op /\ op = "steps"
  <2> DEFINE u == SetWorking(w, TRUE)
             x == [u EXCEPT !.ran[op] = @ + 1]
  <2>1. OnOp(w, op) = FinishOp(x, op)
    BY <1>6 DEF OnOp
  <2>2. Fine(u, sv)
    BY SetWorkingKeeps DEF Fine
  <2> HIDE DEF u
  <2>3. u \in Worlds /\ u.ran \in [Ops -> Nat]
    BY <2>2, ShapeParts DEF Fine, Sound
  <2>4. /\ x \in Worlds /\ x.app = u.app /\ x.requests = u.requests
        /\ x.sockets = u.sockets /\ x.loader = u.loader
    <3>1. PICK m \in Nat : m = u.ran[op] + 1
      BY <2>3
    <3>2. x = [u EXCEPT !.ran[op] = m]
      BY <3>1
    <3> QED
      BY <2>3, <3>2 DEF Worlds
  <2> HIDE DEF x
  <2>5. Fine(x, sv)
    BY <2>2, <2>4 DEF Fine, Sound, Shape, Dark, Counted, Once
  <2> QED
    BY <1>2, <2>1, <2>5, FinishOpKeeps DEF x, u
<1> QED
  BY <1>2, <1>3, <1>4, <1>5, <1>6

LEMMA ConfirmKeeps ==
    ASSUME NEW w, NEW sv, Fine(w, sv), w.app.card # None
    PROVE  Fine(Confirm(w), sv)
<1>1. w \in Worlds /\ w.app \in Apps /\ w.app.card \notin w.app.ops
  BY ShapeParts DEF Fine, Sound, Once
<1>2. PICK op \in Ops : op = w.app.card
  BY <1>1 DEF Apps, Calls
<1>3. PICK u : u = SetWorking(w, TRUE)
  OBVIOUS
<1>4. Fine(u, sv) /\ u.app.card = w.app.card /\ u.app.ops = w.app.ops
  BY <1>3, SetWorkingKeeps DEF Fine
<1>5. PICK card : card = None
  OBVIOUS
<1>6. None \notin Ops
  BY ChatAssumption DEF None
<1>7. Fine(Post([u EXCEPT !.app.ops = @ \cup {op}, !.app.card = card], op), sv)
  BY <1>1, <1>2, <1>4, <1>5, <1>6, StartedKeeps
<1> QED
  BY <1>2, <1>3, <1>5, <1>7 DEF Confirm

LEMMA DeclineKeeps ==
    ASSUME NEW w, NEW sv, ServerOK(sv), Fine(w, sv)
    PROVE  Fine(Decline(w), sv)
<1> DEFINE u == [w EXCEPT !.app.card = None]
           a == [w.app EXCEPT !.card = None]
<1>1. w \in Worlds /\ w.app \in Apps /\ w.app.card \in Calls /\ AppOK(w.app, sv) /\ Dark(w)
  BY ShapeParts DEF Fine, Sound, Apps
<1>2. u = [w EXCEPT !.app = a]
  BY <1>1 DEF Worlds, Apps
<1>3. None \in Calls
  BY DEF Calls
<1>4. /\ a \in Apps /\ a.screen = w.app.screen /\ a.seen = w.app.seen
      /\ a.cursor = w.app.cursor /\ a.shown = w.app.shown /\ a.card = None
      /\ a.list = w.app.list /\ a.loading = w.app.loading /\ a.ops = w.app.ops
      /\ a.working = w.app.working /\ a.timer = w.app.timer
  BY <1>1, <1>3 DEF Apps
<1>5. AppOK(a, sv)
  BY <1>1, <1>4 DEF AppOK
<1> HIDE DEF a, u
<1>6. Sound(u, sv) /\ u.app = a /\ u.requests = w.requests
  BY <1>1, <1>2, <1>4, <1>5, AppSound DEF Fine, Dark
<1>7. Fine(u, sv)
  BY <1>4, <1>6 DEF Fine, Covers
<1> QED
  BY <1>1, <1>7, FinishOpKeeps DEF Decline, u

\* The loader's answer to what it worked on.
LEMMA OnResultKeeps ==
    ASSUME NEW w, NEW sv, ServerOK(sv), Fine(w, sv), NEW op \in Ops, w.loader.busy[op] > 0
    PROVE  Fine(OnResult([w EXCEPT !.loader.busy[op] = @ - 1], op), sv)
<1> DEFINE x == [w EXCEPT !.loader.busy[op] = @ - 1]
           u == [x EXCEPT !.app.ops = @ \ {op}]
           a == [w.app EXCEPT !.ops = @ \ {op}]
<1>1. /\ w \in Worlds /\ w.app \in Apps /\ AppOK(w.app, sv) /\ Dark(w)
      /\ w.loader \in Loaders /\ w.loader.busy \in [Ops -> Nat]
  BY ShapeParts DEF Fine, Sound, Loaders
<1>2. w.loader.busy[op] = 1 /\ op \in w.app.ops
  BY <1>1 DEF Fine, Sound, Once
<1>3. PICK k \in Nat : k = 0
  OBVIOUS
<1>4. x = [w EXCEPT !.loader.busy[op] = k]
  BY <1>2, <1>3
<1> HIDE DEF x
<1>5. /\ x.app = w.app /\ x.requests = w.requests /\ x.sockets = w.sockets /\ x.ran = w.ran
      /\ x.loader = [w.loader EXCEPT !.busy[op] = k]
  BY <1>1, <1>4 DEF Worlds
<1>6. /\ x.loader \in Loaders /\ x.loader.badge = w.loader.badge
      /\ x.loader.busy = [w.loader.busy EXCEPT ![op] = k]
  BY <1>1, <1>5 DEF Loaders
<1>7. x \in Worlds
  BY <1>1, <1>4, <1>6 DEF Worlds
<1>8. Shape(x, sv) /\ Counted(x)
  BY <1>5, <1>6, <1>7 DEF Fine, Sound, Shape, Dark, Counted
<1>9. \A o \in Ops : x.loader.busy[o] <= 1 /\ (x.loader.busy[o] > 0 => o \in w.app.ops /\ o # op)
  BY <1>1, <1>3, <1>6 DEF Fine, Sound, Once
<1>10. u = [x EXCEPT !.app = a]
  BY <1>1, <1>5, <1>7 DEF Worlds, Apps
<1>11. /\ a \in Apps /\ a.screen = w.app.screen /\ a.seen = w.app.seen
       /\ a.cursor = w.app.cursor /\ a.shown = w.app.shown /\ a.card = w.app.card
       /\ a.list = w.app.list /\ a.loading = w.app.loading /\ a.ops = w.app.ops \ {op}
       /\ a.working = w.app.working /\ a.timer = w.app.timer
  BY <1>1 DEF Apps
<1>12. AppOK(a, sv)
  BY <1>1, <1>11 DEF AppOK
<1> HIDE DEF a, u
<1>13. /\ Shape(u, sv) /\ u.app = a /\ u.requests = x.requests /\ u.loader = x.loader
       /\ u.sockets = x.sockets
  BY <1>1, <1>5, <1>8, <1>10, <1>11, <1>12, AppIs DEF Dark
<1>14. Counted(u)
  BY <1>5, <1>8, <1>11, <1>13 DEF Counted
<1>15. Once(u)
  BY <1>9, <1>11, <1>13 DEF Fine, Sound, Once
<1>16. Covers(u.app, u.requests)
  BY <1>5, <1>11, <1>13 DEF Fine, Covers
<1>17. Fine(u, sv)
  BY <1>13, <1>14, <1>15, <1>16 DEF Fine, Sound
<1>18. OnResult(x, op) = FinishOp(u, op)
  BY <1>2, <1>5 DEF OnResult, u
<1>19. op \in Calls
  BY DEF Calls
<1> QED
  BY <1>17, <1>18, <1>19, FinishOpKeeps DEF x

----------------------------------------------------------------------------
(* What a thread shows.                                                    *)

Redrawn(v, w, shown, seen, cursor) ==
    /\ v.requests = w.requests /\ v.loader = w.loader /\ v.sockets = w.sockets /\ v.ran = w.ran
    /\ v.app.shown = shown /\ v.app.seen = seen /\ v.app.cursor = cursor
    /\ v.app.screen = w.app.screen /\ v.app.list = w.app.list /\ v.app.loading = w.app.loading
    /\ v.app.card = w.app.card /\ v.app.ops = w.app.ops
    /\ v.app.working = w.app.working /\ v.app.timer = w.app.timer

Redraw(w, shown, seen, cursor) ==
    [w EXCEPT !.app = [w.app EXCEPT !.shown = shown, !.seen = seen, !.cursor = cursor]]

LEMMA RedrawIs ==
    ASSUME NEW w, NEW sv, ServerOK(sv), Sound(w, sv), NEW shown \in Seq(Items),
           NEW seen \in SUBSET DOMAIN sv.log, NEW cursor \in 0..Len(sv.log)
    PROVE  /\ Sound(Redraw(w, shown, seen, cursor), sv)
           /\ Redrawn(Redraw(w, shown, seen, cursor), w, shown, seen, cursor)
<1> DEFINE a == [w.app EXCEPT !.shown = shown, !.seen = seen, !.cursor = cursor]
           v == Redraw(w, shown, seen, cursor)
<1>1. w \in Worlds /\ w.app \in Apps /\ AppOK(w.app, sv) /\ Dark(w)
  BY ShapeParts DEF Sound
<1>2. v = [w EXCEPT !.app = a]
  BY DEF Redraw
<1>3. seen \in SUBSET Nat /\ cursor \in Nat
  BY ConvsAre
<1>4. /\ a \in Apps /\ a.screen = w.app.screen /\ a.seen = seen
      /\ a.cursor = cursor /\ a.shown = shown /\ a.card = w.app.card
      /\ a.list = w.app.list /\ a.loading = w.app.loading /\ a.ops = w.app.ops
      /\ a.working = w.app.working /\ a.timer = w.app.timer
  BY <1>1, <1>3 DEF Apps
<1>5. AppOK(a, sv)
  BY <1>1, <1>4 DEF AppOK
<1> HIDE DEF a, v
<1>6. /\ Sound(v, sv) /\ v.app = a /\ v.requests = w.requests /\ v.loader = w.loader
      /\ v.sockets = w.sockets /\ v.ran = w.ran
  BY <1>1, <1>2, <1>4, <1>5, AppSound DEF Dark
<1>7. Redrawn(v, w, shown, seen, cursor)
  BY <1>4, <1>6 DEF Redrawn
<1> QED
  BY <1>6, <1>7 DEF v

Pending(temp) == [kind |-> "pending", id |-> temp]

Failed(temp) == [kind |-> "failed", id |-> temp]

AStored(id) == [kind |-> "stored", id |-> id]

\* What is shown in place of the temporary message.
Instead(shown, temp, item) == [i \in DOMAIN shown |-> IF shown[i] = Pending(temp) THEN item ELSE shown[i]]

Without(shown, item) == Kept(shown, {i \in DOMAIN shown : shown[i] # item})



LEMMA ItemsAre ==
    ASSUME NEW n \in Nat
    PROVE  Pending(n) \in Items /\ Failed(n) \in Items /\ AStored(n) \in Items
BY DEF Items, Pending, Failed, AStored

LEMMA InsteadIs ==
    ASSUME NEW shown \in Seq(Items), NEW temp \in Nat, NEW item \in Items
    PROVE  Instead(shown, temp, item) \in Seq(Items) /\ DOMAIN Instead(shown, temp, item) = DOMAIN shown
<1>1. DOMAIN shown = 1..Len(shown) /\ Len(shown) \in Nat /\ \A i \in DOMAIN shown : shown[i] \in Items
  OBVIOUS
<1>2. Instead(shown, temp, item) \in [1..Len(shown) -> Items]
  BY <1>1 DEF Instead
<1> QED
  BY <1>1, <1>2 DEF Instead

LEMMA WithoutIs ==
    ASSUME NEW shown \in Seq(Items), NEW item
    PROVE  /\ Without(shown, item) \in Seq(Items)
           /\ \E at : Thinned(Without(shown, item), shown, at)
           /\ \A i \in DOMAIN Without(shown, item) : Without(shown, item)[i] # item
<1>1. PICK I \in SUBSET DOMAIN shown : I = {i \in DOMAIN shown : shown[i] # item}
  OBVIOUS
<1>2. PICK s : s = Kept(shown, I)
  OBVIOUS
<1>3. s = Without(shown, item)
  BY <1>1, <1>2 DEF Without
<1>4. /\ s \in Seq(Items)
      /\ \E at : Thinned(s, shown, at) /\ \A i \in DOMAIN s : at[i] \in I
  BY <1>2, KeptIs
<1>5. PICK at : Thinned(s, shown, at) /\ \A i \in DOMAIN s : at[i] \in I
  BY <1>4
<1>6. Thinned(s, shown, at) /\ \A i \in DOMAIN s : s[i] # item
  BY <1>1, <1>5 DEF Thinned
<1> QED
  BY <1>3, <1>4, <1>6

LEMMA MarkFailedIs ==
    ASSUME NEW w \in Worlds, NEW temp \in Nat
    PROVE  MarkFailed(w, temp)
               = Redraw(w, Instead(w.app.shown, temp, Failed(temp)), w.app.seen, w.app.cursor)
BY DEF Worlds, Apps, MarkFailed, Redraw, Instead, Failed, Pending

LEMMA ReplaceTempIs ==
    ASSUME NEW w \in Worlds, NEW temp \in Nat, NEW id \in Nat
    PROVE  ReplaceTemp(w, temp, id) =
              IF id \in w.app.seen
              THEN Redraw(w, Without(w.app.shown, Pending(temp)), w.app.seen, w.app.cursor)
              ELSE Redraw(w, Instead(w.app.shown, temp, AStored(id)), w.app.seen \cup {id}, w.app.cursor)
<1>1. CASE id \in w.app.seen
  BY <1>1 DEF Worlds, Apps, ReplaceTemp, Redraw, Without, Pending
<1>2. CASE id \notin w.app.seen
  BY <1>2 DEF Worlds, Apps, ReplaceTemp, Redraw, Instead, AStored, Pending
<1> QED
  BY <1>1, <1>2

LEMMA ShowPageIs ==
    ASSUME NEW w \in Worlds, NEW page
    PROVE  ShowPage(w, page) = Redraw(w, Stored(page.items), w.app.seen \cup Range(page.items), page.next)
BY DEF Worlds, Apps, ShowPage, Redraw

LEMMA ShowOlderIs ==
    ASSUME NEW w \in Worlds, NEW page
    PROVE  LET older == Kept(page.items, {i \in DOMAIN page.items : page.items[i] \notin w.app.seen})
           IN  ShowOlder(w, page)
                   = Redraw(w, Stored(older) \o w.app.shown, w.app.seen \cup Range(older), page.next)
BY DEF Worlds, Apps, ShowOlder, Redraw

LEMMA StoredIs ==
    ASSUME NEW ids \in Seq(Nat)
    PROVE  /\ Stored(ids) \in Seq(Items) /\ DOMAIN Stored(ids) = DOMAIN ids
           /\ \A i \in DOMAIN ids : /\ Stored(ids)[i] = AStored(ids[i])
                                    /\ Stored(ids)[i].kind = "stored" /\ Stored(ids)[i].id = ids[i]
<1>1. DOMAIN ids = 1..Len(ids) /\ Len(ids) \in Nat /\ \A i \in DOMAIN ids : ids[i] \in Nat
  OBVIOUS
<1>2. \A i \in DOMAIN ids : /\ Stored(ids)[i] = AStored(ids[i])
                            /\ Stored(ids)[i].kind = "stored" /\ Stored(ids)[i].id = ids[i]
  BY DEF Stored, AStored
<1>3. DOMAIN Stored(ids) = DOMAIN ids
  BY DEF Stored
<1>4. Stored(ids) = [i \in 1..Len(ids) |-> Stored(ids)[i]]
  BY <1>1 DEF Stored
<1>5. Stored(ids) \in [1..Len(ids) -> Items]
  BY <1>1, <1>2, <1>4, ItemsAre
<1> QED
  BY <1>1, <1>2, <1>3, <1>5

\* A thread keeps what it waits for, or has nothing to wait for.
LEMMA MarkFailedKeeps ==
    ASSUME NEW w, NEW sv, ServerOK(sv), Sound(w, sv), NEW temp \in Nat,
           Covers(w.app, w.requests) \/ \E r : /\ r.arg = temp /\ r.what # "list"
                                               /\ Covers(w.app, w.requests \cup {r})
    PROVE  Fine(MarkFailed(w, temp), sv)
<1>1. w \in Worlds /\ w.app \in Apps /\ AppOK(w.app, sv)
  BY ShapeParts DEF Sound
<1>2. PICK v : v = MarkFailed(w, temp)
  OBVIOUS
<1>3. PICK shown : shown = Instead(w.app.shown, temp, Failed(temp))
  OBVIOUS
<1>4. shown \in Seq(Items) /\ w.app.seen \in SUBSET DOMAIN sv.log /\ w.app.cursor \in 0..Len(sv.log)
  BY <1>1, <1>3, InsteadIs, ItemsAre DEF Apps, AppOK
<1>5. v = Redraw(w, shown, w.app.seen, w.app.cursor)
  BY <1>1, <1>2, <1>3, MarkFailedIs
<1>6. Sound(v, sv) /\ Redrawn(v, w, shown, w.app.seen, w.app.cursor)
  BY <1>4, <1>5, RedrawIs
<1>7. ASSUME NEW i \in DOMAIN shown, shown[i].kind = "pending"
      PROVE  i \in DOMAIN w.app.shown /\ shown[i] = w.app.shown[i] /\ shown[i].id # temp
  <2>1. i \in DOMAIN w.app.shown /\ w.app.shown[i] \in Items
    BY <1>1, <1>3, <1>7 DEF Instead, Apps
  <2>2. w.app.shown[i] # Pending(temp) /\ shown[i] = w.app.shown[i]
    BY <1>3, <1>7, <2>1 DEF Instead, Failed
  <2> QED
    BY <1>7, <2>1, <2>2 DEF Pending, Items
<1>8. Covers(v.app, v.requests)
  BY <1>6, <1>7 DEF Redrawn, Covers
<1> QED
  BY <1>2, <1>6, <1>8 DEF Fine

LEMMA ReplaceTempKeeps ==
    ASSUME NEW w, NEW sv, ServerOK(sv), Sound(w, sv), NEW temp \in Nat, NEW id \in DOMAIN sv.log,
           NEW r, r.arg = temp, r.what # "list", Covers(w.app, w.requests \cup {r})
    PROVE  Fine(ReplaceTemp(w, temp, id), sv)
<1>1. /\ w \in Worlds /\ w.app \in Apps /\ AppOK(w.app, sv) /\ id \in Nat
      /\ w.app.shown \in Seq(Items) /\ w.app.seen \in SUBSET DOMAIN sv.log
      /\ w.app.cursor \in 0..Len(sv.log)
  BY ShapeParts, ConvsAre DEF Sound, AppOK, Apps
<1>2. PICK v : v = ReplaceTemp(w, temp, id)
  OBVIOUS
<1>3. CASE id \in w.app.seen
  <2>1. PICK shown : shown = Without(w.app.shown, Pending(temp))
    OBVIOUS
  <2>2. v = Redraw(w, shown, w.app.seen, w.app.cursor)
    BY <1>1, <1>2, <1>3, <2>1, ReplaceTempIs
  <2>3. /\ shown \in Seq(Items)
        /\ \A i \in DOMAIN shown : /\ \E k \in DOMAIN w.app.shown : shown[i] = w.app.shown[k]
                                   /\ shown[i] # Pending(temp)
    <3>1. PICK item : item = Pending(temp)
      OBVIOUS
    <3>2. /\ shown \in Seq(Items) /\ \E at : Thinned(shown, w.app.shown, at)
          /\ \A i \in DOMAIN shown : shown[i] # item
      BY <1>1, <2>1, <3>1, WithoutIs
    <3> QED
      BY <3>1, <3>2 DEF Thinned
  <2>4. Sound(v, sv) /\ Redrawn(v, w, shown, w.app.seen, w.app.cursor)
    BY <1>1, <2>2, <2>3, RedrawIs
  <2>5. \A i \in DOMAIN shown : shown[i].kind = "pending" => shown[i].id # temp
    <3>1. \A i \in DOMAIN shown : shown[i] \in Items
      BY <2>3
    <3> QED
      BY <2>3, <3>1 DEF Pending, Items
  <2>6. Covers(v.app, v.requests)
    BY <2>3, <2>4, <2>5 DEF Redrawn, Covers
  <2> QED
    BY <1>2, <2>4, <2>6 DEF Fine
<1>4. CASE id \notin w.app.seen
  <2>1. PICK shown : shown = Instead(w.app.shown, temp, AStored(id))
    OBVIOUS
  <2>2. PICK seen : seen = w.app.seen \cup {id}
    OBVIOUS
  <2>3. v = Redraw(w, shown, seen, w.app.cursor)
    BY <1>1, <1>2, <1>4, <2>1, <2>2, ReplaceTempIs
  <2>4. shown \in Seq(Items) /\ seen \in SUBSET DOMAIN sv.log
    BY <1>1, <2>1, <2>2, InsteadIs, ItemsAre
  <2>5. Sound(v, sv) /\ Redrawn(v, w, shown, seen, w.app.cursor)
    BY <1>1, <2>3, <2>4, RedrawIs
  <2>6. ASSUME NEW i \in DOMAIN shown, shown[i].kind = "pending"
        PROVE  i \in DOMAIN w.app.shown /\ shown[i] = w.app.shown[i] /\ shown[i].id # temp
    <3>1. i \in DOMAIN w.app.shown /\ w.app.shown[i] \in Items
      BY <1>1, <2>1, <2>6 DEF Instead, Apps
    <3>2. w.app.shown[i] # Pending(temp) /\ shown[i] = w.app.shown[i]
      BY <2>1, <2>6, <3>1 DEF Instead, AStored
    <3> QED
      BY <2>6, <3>1, <3>2 DEF Pending, Items
  <2>7. Covers(v.app, v.requests)
    BY <2>5, <2>6 DEF Redrawn, Covers
  <2> QED
    BY <1>2, <2>5, <2>7 DEF Fine
<1> QED
  BY <1>3, <1>4

LEMMA SendKeeps ==
    ASSUME NEW w, NEW sv, ServerOK(sv), Fine(w, sv), NEW temp \in Nat
    PROVE  Fine(Send(w, temp), sv)
<1>1. /\ w \in Worlds /\ w.app \in Apps /\ AppOK(w.app, sv) /\ Len(sv.log) \in Nat
      /\ w.app.shown \in Seq(Items) /\ w.app.seen \in SUBSET DOMAIN sv.log
      /\ w.app.cursor \in 0..Len(sv.log) /\ w.app.screen.conv \in Nat
  BY ShapeParts, ConvsAre DEF Fine, Sound, AppOK, Apps, Screens
<1>2. PICK shown : shown = Append(w.app.shown, Pending(temp))
  OBVIOUS
<1>3. /\ shown \in Seq(Items)
      /\ \A i \in DOMAIN shown : \/ i \in DOMAIN w.app.shown /\ shown[i] = w.app.shown[i]
                                 \/ shown[i] = Pending(temp)
  BY <1>1, <1>2, ItemsAre
<1>4. PICK u : u = Redraw(w, shown, w.app.seen, w.app.cursor)
  OBVIOUS
<1>5. Sound(u, sv) /\ Redrawn(u, w, shown, w.app.seen, w.app.cursor)
  BY <1>1, <1>3, <1>4, RedrawIs DEF Fine
<1>6. u = [w EXCEPT !.app.shown = Append(@, [kind |-> "pending", id |-> temp])]
  BY <1>1, <1>2, <1>4 DEF Worlds, Apps, Redraw, Pending
<1>7. PICK what : what = IF w.app.screen.conv = 0 THEN "create" ELSE "send"
  OBVIOUS
<1>8. Askable(u, sv, what, w.app.screen.conv, temp, None)
  BY <1>1, <1>7 DEF Askable, AppOK, Whats, OfConv, Calls
<1>9. PICK v : v = AskOf(u, what, w.app.screen.conv, temp, None)
  OBVIOUS
<1>10. Sound(v, sv) /\ Asked(v, u, what, w.app.screen.conv, temp)
  BY <1>5, <1>8, <1>9, AskSound
<1>11. Covers(v.app, v.requests)
  <2>1. PICK r : /\ v.requests = w.requests \cup {r} /\ r.arg = temp
                 /\ r.what \in {"create", "created", "send"}
    BY <1>5, <1>7, <1>10 DEF Asked, Redrawn
  <2>2. Pending(temp).id = temp
    BY DEF Pending
  <2> QED
    BY <1>3, <1>5, <1>10, <2>1, <2>2 DEF Fine, Covers, Asked, Redrawn
<1>12. Send(w, temp) = v
  BY <1>6, <1>7, <1>9 DEF Send, Ask
<1> QED
  BY <1>10, <1>11, <1>12 DEF Fine

LEMMA RetryKeeps ==
    ASSUME NEW w, NEW sv, ServerOK(sv), Fine(w, sv), NEW old, NEW temp \in Nat
    PROVE  Fine(Retry(w, old, temp), sv)
<1>1. /\ w \in Worlds /\ w.app \in Apps /\ AppOK(w.app, sv)
      /\ w.app.shown \in Seq(Items) /\ w.app.seen \in SUBSET DOMAIN sv.log
      /\ w.app.cursor \in 0..Len(sv.log)
  BY ShapeParts DEF Fine, Sound, AppOK, Apps
<1>2. PICK shown : shown = Without(w.app.shown, old)
  OBVIOUS
<1>3. shown \in Seq(Items) /\ \E at : Thinned(shown, w.app.shown, at)
  BY <1>1, <1>2, WithoutIs
<1>4. PICK u : u = Redraw(w, shown, w.app.seen, w.app.cursor)
  OBVIOUS
<1>5. Sound(u, sv) /\ Redrawn(u, w, shown, w.app.seen, w.app.cursor)
  BY <1>1, <1>3, <1>4, RedrawIs DEF Fine
<1>6. Covers(u.app, u.requests)
  BY <1>3, <1>5 DEF Fine, Covers, Redrawn, Thinned
<1>7. Retry(w, old, temp) = Send(u, temp)
  BY <1>1, <1>2, <1>4 DEF Worlds, Apps, Retry, Redraw, Without
<1> QED
  BY <1>5, <1>6, <1>7, SendKeeps DEF Fine

----------------------------------------------------------------------------
(* Answers.                                                                *)

\* A page, and where the next one begins.
PageOK(page, sv) ==
    /\ page.items \in Seq(Nat) /\ page.next \in 0..Len(sv.log)
    /\ \A i \in DOMAIN page.items : page.items[i] \in DOMAIN sv.log

\* A thread that was loaded shows what is stored.
LEMMA ShowPageKeeps ==
    ASSUME NEW w, NEW sv, ServerOK(sv), Sound(w, sv), NEW page, PageOK(page, sv)
    PROVE  /\ Sound(ShowPage(w, page), sv)
           /\ Redrawn(ShowPage(w, page), w, Stored(page.items),
                      w.app.seen \cup Range(page.items), page.next)
           /\ \A i \in DOMAIN ShowPage(w, page).app.shown :
                 ShowPage(w, page).app.shown[i].kind = "stored"
<1>1. w \in Worlds /\ w.app.seen \in SUBSET DOMAIN sv.log
  BY ShapeParts DEF Sound, AppOK
<1>2. PICK seen : seen = w.app.seen \cup Range(page.items)
  OBVIOUS
<1>3. seen \in SUBSET DOMAIN sv.log
  BY <1>1, <1>2 DEF Range, PageOK
<1>4. PICK shown, cursor : shown = Stored(page.items) /\ cursor = page.next
  OBVIOUS
<1>5. shown \in Seq(Items) /\ cursor \in 0..Len(sv.log)
  BY <1>4, StoredIs DEF PageOK
<1>6. \A i \in DOMAIN shown : shown[i].kind = "stored"
  BY <1>4, StoredIs DEF PageOK
<1>7. PICK v : v = Redraw(w, shown, seen, cursor)
  OBVIOUS
<1>8. Sound(v, sv) /\ Redrawn(v, w, shown, seen, cursor)
  BY <1>3, <1>5, <1>7, RedrawIs
<1>9. ShowPage(w, page) = v
  BY <1>1, <1>2, <1>4, <1>7, ShowPageIs
<1> QED
  BY <1>2, <1>4, <1>6, <1>8, <1>9 DEF Redrawn

LEMMA ShowOlderKeeps ==
    ASSUME NEW w, NEW sv, ServerOK(sv), Fine(w, sv), NEW page, PageOK(page, sv)
    PROVE  Fine(ShowOlder(w, page), sv)
<1>1. /\ w \in Worlds /\ w.app.seen \in SUBSET DOMAIN sv.log /\ w.app.shown \in Seq(Items)
  BY ShapeParts DEF Fine, Sound, AppOK, Apps
<1>2. PICK I \in SUBSET DOMAIN page.items :
         I = {i \in DOMAIN page.items : page.items[i] \notin w.app.seen}
  OBVIOUS
<1>3. PICK older : older = Kept(page.items, I)
  OBVIOUS
<1>4. older \in Seq(Nat) /\ \A i \in DOMAIN older : older[i] \in DOMAIN sv.log
  <2>1. PICK items \in Seq(Nat) : items = page.items
    BY DEF PageOK
  <2>2. PICK A : A = Nat
    OBVIOUS
  <2>3. items \in Seq(A) /\ older = Kept(items, I) /\ I \in SUBSET DOMAIN items
    BY <1>2, <1>3, <2>1, <2>2
  <2>4. older \in Seq(A) /\ \E at : Thinned(older, items, at)
    BY <2>3, KeptIs
  <2> QED
    BY <2>1, <2>2, <2>4 DEF PageOK, Thinned
<1>5. PICK shown, seen, cursor : /\ shown = Stored(older) \o w.app.shown
                                 /\ seen = w.app.seen \cup Range(older) /\ cursor = page.next
  OBVIOUS
<1>6. seen \in SUBSET DOMAIN sv.log /\ cursor \in 0..Len(sv.log)
  BY <1>1, <1>4, <1>5 DEF Range, PageOK
<1>7. /\ shown \in Seq(Items)
      /\ \A i \in DOMAIN shown : \/ shown[i].kind = "stored"
                                 \/ \E k \in DOMAIN w.app.shown : shown[i] = w.app.shown[k]
  <2>1. PICK s \in Seq(Items) : s = Stored(older) /\ \A i \in DOMAIN s : s[i].kind = "stored"
    BY <1>4, StoredIs
  <2>2. PICK t \in Seq(Items) : t = w.app.shown
    BY <1>1
  <2>3. s \o t \in Seq(Items) /\ \A i \in DOMAIN (s \o t) : \/ i \in DOMAIN s /\ (s \o t)[i] = s[i]
                                                        \/ \E k \in DOMAIN t : (s \o t)[i] = t[k]
    <3>1. s \o t \in Seq(Items) /\ Len(s \o t) = Len(s) + Len(t) /\ Len(s) \in Nat /\ Len(t) \in Nat
      OBVIOUS
    <3>2. ASSUME NEW i \in DOMAIN (s \o t)
          PROVE  \/ i \in DOMAIN s /\ (s \o t)[i] = s[i]
                 \/ \E k \in DOMAIN t : (s \o t)[i] = t[k]
      <4>1. i \in 1..(Len(s) + Len(t))
        BY <3>1
      <4>2. CASE i <= Len(s)
        BY <3>1, <4>1, <4>2
      <4>3. CASE i > Len(s)
        <5>1. i - Len(s) \in DOMAIN t /\ (s \o t)[i] = t[i - Len(s)]
          BY <3>1, <4>1, <4>3
        <5> QED
          BY <5>1
      <4> QED
        BY <3>1, <4>1, <4>2, <4>3
    <3> QED
      BY <3>1, <3>2
  <2> QED
    BY <1>5, <2>1, <2>2, <2>3
<1>8. PICK v : v = Redraw(w, shown, seen, cursor)
  OBVIOUS
<1>9. Sound(v, sv) /\ Redrawn(v, w, shown, seen, cursor)
  BY <1>6, <1>7, <1>8, RedrawIs DEF Fine
<1>10. Covers(v.app, v.requests)
  BY <1>7, <1>9 DEF Fine, Covers, Redrawn
<1>11. ShowOlder(w, page) = v
  BY <1>1, <1>2, <1>3, <1>5, <1>8, ShowOlderIs
<1> QED
  BY <1>9, <1>10, <1>11 DEF Fine

LEMMA BootedKeeps ==
    ASSUME NEW w, NEW sv, ServerOK(sv), Fine(w, sv), NEW list \in Seq(Entries),
           \A i \in DOMAIN list : list[i].conv \in Convs(sv)
    PROVE  Fine(Booted(w, list), sv)
<1> DEFINE sock == [up |-> FALSE, want |-> {}, joined |-> {}, wire |-> << >>]
           a == [w.app EXCEPT !.screen = HomeScreen, !.list = list]
<1>1. /\ w \in Worlds /\ w.app \in Apps /\ AppOK(w.app, sv) /\ w.sockets \in Seq(Socks)
      /\ Len(sv.log) \in Nat
  BY ShapeParts, ConvsAre DEF Fine, Sound
<1>2. PICK u : u = [w EXCEPT !.app = a, !.sockets = Append(w.sockets, sock)]
  OBVIOUS
<1>3. u = [w EXCEPT !.app.screen = HomeScreen, !.app.list = list,
                    !.sockets = Append(@, [up |-> FALSE, want |-> {},
                                           joined |-> {}, wire |-> << >>])]
  BY <1>1, <1>2 DEF Worlds, Apps
<1>4. HomeScreen \in Screens /\ HomeScreen.conv = 0 /\ HomeScreen.name = "home"
  BY DEF HomeScreen, Screens
<1>5. /\ a \in Apps /\ a.screen = HomeScreen /\ a.list = list /\ a.seen = w.app.seen
      /\ a.cursor = w.app.cursor /\ a.shown = w.app.shown /\ a.card = w.app.card
      /\ a.loading = w.app.loading /\ a.ops = w.app.ops
      /\ a.working = w.app.working /\ a.timer = w.app.timer
  BY <1>1, <1>4 DEF Apps
<1>6. AppOK(a, sv)
  BY <1>1, <1>4, <1>5 DEF AppOK
<1>7. sock \in Socks /\ sock.wire = << >>
  <2>1. << >> \in Seq(Frames) /\ {} \in SUBSET Nat
    OBVIOUS
  <2> QED
    BY <2>1 DEF Socks
<1> HIDE DEF a, sock
<1>8. PICK socks : socks = Append(w.sockets, sock)
  OBVIOUS
<1>9. /\ socks \in Seq(Socks) /\ socks # << >>
      /\ \A s \in DOMAIN socks : \/ s \in DOMAIN w.sockets /\ socks[s] = w.sockets[s]
                                 \/ socks[s] = sock
  BY <1>1, <1>7, <1>8
<1>10. /\ u \in Worlds /\ u.app = a /\ u.sockets = socks /\ u.requests = w.requests
       /\ u.loader = w.loader
  BY <1>1, <1>2, <1>5, <1>8, <1>9 DEF Worlds
<1>11. Shape(u, sv)
  BY <1>6, <1>7, <1>9, <1>10 DEF Fine, Sound, Shape, Dark
<1>12. Once(u) /\ Covers(u.app, u.requests)
  BY <1>5, <1>10 DEF Fine, Sound, Once, Covers
<1>13. PICK v : v = PushUnread(u)
  OBVIOUS
<1>14. /\ Shape(v, sv) /\ Counted(v) /\ v.app = u.app /\ v.requests = u.requests
       /\ v.loader.busy = u.loader.busy
  BY <1>11, <1>13, PushIs
<1>15. Fine(v, sv)
  BY <1>12, <1>14 DEF Fine, Sound, Once
<1>16. Booted(w, list) = IF v.app.panel THEN OpenTheUnread(v) ELSE v
  BY <1>3, <1>13 DEF Booted
<1> QED
  BY <1>15, <1>16, OpenTheUnreadKeeps

\* The conversation list is another, and the badge counts it.
LEMMA ListKeeps ==
    ASSUME NEW w, NEW sv, Fine(w, sv), NEW list \in Seq(Entries),
           \A i \in DOMAIN list : list[i].conv \in Convs(sv)
    PROVE  Fine(PushUnread([w EXCEPT !.app.list = list]), sv)
<1> DEFINE a == [w.app EXCEPT !.list = list]
<1>1. /\ w \in Worlds /\ w.app \in Apps /\ AppOK(w.app, sv) /\ Dark(w)
  BY ShapeParts DEF Fine, Sound
<1>2. PICK u : u = [w EXCEPT !.app = a]
  OBVIOUS
<1>3. u = [w EXCEPT !.app.list = list]
  BY <1>1, <1>2 DEF Worlds, Apps
<1>4. /\ a \in Apps /\ a.screen = w.app.screen /\ a.list = list /\ a.seen = w.app.seen
      /\ a.cursor = w.app.cursor /\ a.shown = w.app.shown /\ a.card = w.app.card
      /\ a.loading = w.app.loading /\ a.ops = w.app.ops
      /\ a.working = w.app.working /\ a.timer = w.app.timer
  BY <1>1 DEF Apps
<1>5. AppOK(a, sv)
  BY <1>1, <1>4 DEF AppOK
<1> HIDE DEF a
<1>6. /\ Shape(u, sv) /\ u.app = a /\ u.requests = w.requests /\ u.loader = w.loader
  BY <1>1, <1>2, <1>4, <1>5, AppIs DEF Fine, Sound, Dark
<1>7. Once(u) /\ Covers(u.app, u.requests)
  BY <1>4, <1>6 DEF Fine, Sound, Once, Covers
<1>8. PICK v : v = PushUnread(u)
  OBVIOUS
<1>9. /\ Shape(v, sv) /\ Counted(v) /\ v.app = u.app /\ v.requests = u.requests
      /\ v.loader.busy = u.loader.busy
  BY <1>6, <1>8, PushIs
<1>10. Fine(v, sv)
  BY <1>7, <1>9 DEF Fine, Sound, Once
<1> QED
  BY <1>3, <1>8, <1>10

\* One entry of the list is flagged, or not flagged any more.
Flagged(list, c, flag) ==
    [i \in DOMAIN list |-> IF list[i].conv = c THEN [list[i] EXCEPT !.unread = flag] ELSE list[i]]

LEMMA FlagKeeps ==
    ASSUME NEW w, NEW sv, Fine(w, sv), NEW c, NEW flag \in BOOLEAN
    PROVE  Fine(PushUnread([w EXCEPT !.app.list = Flagged(w.app.list, c, flag)]), sv)
<1> DEFINE e(i) == IF w.app.list[i].conv = c THEN [w.app.list[i] EXCEPT !.unread = flag]
                   ELSE w.app.list[i]
<1>1. w.app.list \in Seq(Entries) /\ \A i \in DOMAIN w.app.list : w.app.list[i].conv \in Convs(sv)
  BY ShapeParts DEF Fine, Sound, Apps, AppOK
<1>2. DOMAIN w.app.list = 1..Len(w.app.list) /\ Len(w.app.list) \in Nat
  BY <1>1
<1>3. \A i \in DOMAIN w.app.list : e(i) \in Entries /\ e(i).conv = w.app.list[i].conv
  <2>1. \A i \in DOMAIN w.app.list : w.app.list[i] \in Entries
    BY <1>1
  <2> QED
    BY <2>1 DEF Entries
<1>4. PICK list : list = [i \in DOMAIN w.app.list |-> e(i)]
  OBVIOUS
<1> HIDE DEF e
<1>5. list \in [1..Len(w.app.list) -> Entries] /\ \A i \in DOMAIN list : list[i].conv \in Convs(sv)
  BY <1>1, <1>2, <1>3, <1>4
<1>6. list \in Seq(Entries)
  BY <1>2, <1>5
<1>7. Fine(PushUnread([w EXCEPT !.app.list = list]), sv)
  BY <1>5, <1>6, ListKeeps
<1> QED
  BY <1>4, <1>7 DEF e, Flagged

LEMMA MarkedReadKeeps ==
    ASSUME NEW w, NEW sv, Fine(w, sv), NEW c
    PROVE  Fine(MarkedRead(w, c), sv)
<1>1. PICK flag \in BOOLEAN : flag = FALSE
  OBVIOUS
<1>2. MarkedRead(w, c) = PushUnread([w EXCEPT !.app.list = Flagged(w.app.list, c, flag)])
  BY <1>1 DEF MarkedRead, Flagged
<1> QED
  BY <1>2, FlagKeeps

LEMMA ListedKeeps ==
    ASSUME NEW w, NEW sv, ServerOK(sv), Sound(w, sv), NEW r, PageOK(r.got, sv),
           r.conv \in Convs(sv), w.app.working => w.app.timer
    PROVE  Fine(Listed(w, r), sv)
<1>1. r.conv \in Nat /\ Len(sv.log) \in Nat
  BY ConvsAre
<1>2. PICK c, got : c \in Nat /\ c = r.conv /\ got = r.got
  BY <1>1
<1>3. PICK p : p = ShowPage(w, got)
  OBVIOUS
<1>4. /\ Sound(p, sv) /\ \A i \in DOMAIN p.app.shown : p.app.shown[i].kind = "stored"
      /\ p.app.working => p.app.timer
  BY <1>2, <1>3, ShowPageKeeps DEF Redrawn
<1>5. PICK q : q = Subscribe(p, c)
  OBVIOUS
<1>6. Shape(q, sv) /\ q.app = p.app /\ q.loader = p.loader
  BY <1>2, <1>4, <1>5, SubscribeIs DEF Sound
<1>7. Sound(q, sv)
  BY <1>4, <1>6 DEF Sound, Counted, Once
<1> DEFINE a == [q.app EXCEPT !.loading = FALSE]
<1>8. /\ q \in Worlds /\ q.app \in Apps /\ AppOK(q.app, sv) /\ Dark(q)
  BY <1>7, ShapeParts DEF Sound
<1>9. PICK u : u = [q EXCEPT !.app = a]
  OBVIOUS
<1>10. u = [q EXCEPT !.app.loading = FALSE]
  BY <1>8, <1>9 DEF Worlds, Apps
<1>11. /\ a \in Apps /\ a.screen = q.app.screen /\ a.list = q.app.list /\ a.seen = q.app.seen
       /\ a.cursor = q.app.cursor /\ a.shown = q.app.shown /\ a.card = q.app.card
       /\ a.loading = FALSE /\ a.ops = q.app.ops
       /\ a.working = q.app.working /\ a.timer = q.app.timer
  BY <1>8 DEF Apps
<1>12. AppOK(a, sv)
  BY <1>8, <1>11 DEF AppOK
<1> HIDE DEF a
<1>13. Sound(u, sv) /\ u.app = a
  BY <1>7, <1>8, <1>9, <1>11, <1>12, AppSound DEF Dark
<1>14. Fine(u, sv)
  BY <1>4, <1>6, <1>11, <1>13 DEF Fine, Covers
<1>15. PICK x : x = AskOf(u, "read", c, 0, None)
  OBVIOUS
<1>16. Askable(u, sv, "read", c, 0, None) /\ Askable(x, sv, "pending", c, 0, None)
  BY <1>1, <1>2 DEF Askable, Whats, Calls
<1>17. Fine(x, sv)
  BY <1>14, <1>15, <1>16, AskFine
<1>18. Fine(AskOf(x, "pending", c, 0, None), sv)
  BY <1>16, <1>17, AskFine
<1>19. Listed(w, r) = AskOf(x, "pending", c, 0, None)
  BY <1>2, <1>3, <1>5, <1>10, <1>15 DEF Listed, Ask
<1> QED
  BY <1>18, <1>19

LEMMA CreatedKeeps ==
    ASSUME NEW w, NEW sv, ServerOK(sv), Sound(w, sv), w.sockets # << >>, NEW r \in Reqs,
           r.what = "create", r.got.id \in Convs(sv), Covers(w.app, w.requests \cup {r})
    PROVE  Fine(Created(w, r), sv)
<1>1. r.got.id \in Nat /\ Len(sv.log) \in Nat /\ r.arg \in Nat
  BY ConvsAre DEF Reqs
<1>2. PICK c \in Nat, temp \in Nat : c = r.got.id /\ temp = r.arg
  BY <1>1
<1>3. PICK p : p = Subscribe(w, c)
  OBVIOUS
<1>4. /\ Shape(p, sv) /\ p.app = w.app /\ p.loader = w.loader /\ p.requests = w.requests
      /\ p.sockets # << >>
  BY <1>2, <1>3, SubscribeIs DEF Sound
<1>5. Sound(p, sv)
  BY <1>4 DEF Sound, Counted, Once
<1>6. /\ p \in Worlds /\ p.app \in Apps /\ AppOK(p.app, sv) /\ p.app.list \in Seq(Entries)
  BY <1>5, ShapeParts DEF Sound, Apps
<1> DEFINE e == [conv |-> c, unread |-> FALSE]
<1>7. e \in Entries /\ ~e.unread /\ e.conv \in Convs(sv)
  BY <1>2 DEF Entries
<1> HIDE DEF e
<1>8. PICK list : list = <<e>> \o p.app.list
  OBVIOUS
<1>9. list \in Seq(Entries) /\ \A i \in DOMAIN list : list[i].conv \in Convs(sv)
  <2>1. /\ list \in Seq(Entries) /\ Len(list) = 1 + Len(p.app.list) /\ Len(p.app.list) \in Nat
        /\ list[1] = e
    BY <1>6, <1>7, <1>8
  <2>2. ASSUME NEW i \in DOMAIN list, i # 1
        PROVE  i - 1 \in DOMAIN p.app.list /\ list[i] = p.app.list[i - 1]
    BY <1>6, <1>7, <1>8, <2>1, <2>2
  <2> QED
    BY <1>6, <1>7, <2>1, <2>2 DEF AppOK
<1>10. UnreadCount(list) = UnreadCount(p.app.list)
  BY <1>6, <1>7, <1>8, CountOfCons
<1> DEFINE a == [p.app EXCEPT !.screen = Thread(c), !.seen = {}, !.list = list]
<1>11. PICK u : u = [p EXCEPT !.app = a]
  OBVIOUS
<1>12. u = [p EXCEPT !.app.screen = Thread(c), !.app.seen = {},
                     !.app.list = << [conv |-> c, unread |-> FALSE] >> \o @]
  BY <1>6, <1>8, <1>11 DEF Worlds, Apps, e
<1>13. Thread(c) \in Screens /\ Thread(c).conv = c /\ Thread(c).name = "thread"
  BY DEF Thread, Screens
<1>14. /\ a \in Apps /\ a.screen = Thread(c) /\ a.list = list /\ a.seen = {}
       /\ a.cursor = p.app.cursor /\ a.shown = p.app.shown /\ a.card = p.app.card
       /\ a.loading = p.app.loading /\ a.ops = p.app.ops
       /\ a.working = p.app.working /\ a.timer = p.app.timer
  BY <1>6, <1>9, <1>13 DEF Apps
<1>15. AppOK(a, sv)
  BY <1>2, <1>6, <1>9, <1>13, <1>14 DEF AppOK
<1> HIDE DEF a
<1>16. Sound(u, sv) /\ u.app = a /\ u.requests = p.requests
  BY <1>4, <1>5, <1>10, <1>11, <1>14, <1>15, AppSound
<1>17. Askable(u, sv, "created", c, temp, None)
  BY <1>1, <1>2 DEF Askable, Whats, Calls
<1>18. PICK v : v = AskOf(u, "created", c, temp, None)
  OBVIOUS
<1>19. Sound(v, sv) /\ Asked(v, u, "created", c, temp)
  BY <1>16, <1>17, <1>18, AskSound
<1>20. Covers(v.app, v.requests)
  <2>1. PICK q : v.requests = w.requests \cup {q} /\ q.what = "created" /\ q.arg = r.arg
    BY <1>2, <1>4, <1>16, <1>19 DEF Asked
  <2>2. v.app = a
    BY <1>16, <1>19 DEF Asked
  <2> QED
    BY <1>4, <1>14, <2>1, <2>2 DEF Covers
<1>21. Created(w, r) = v
  BY <1>2, <1>3, <1>12, <1>18 DEF Created, Ask
<1> QED
  BY <1>19, <1>20, <1>21 DEF Fine

\* An answer: r is not under way any more, but has to be followed.
AnswerOK(w, r, sv) ==
    /\ ServerOK(sv) /\ Sound(w, sv) /\ r \in Reqs /\ RequestOK(r, sv)
    /\ Covers(w.app, w.requests \cup {r})
    /\ w.sockets = << >> => r.what = "boot" \/ r.stage = "failed"

\* What nothing waits for is not missed.
LEMMA NotMissed ==
    ASSUME NEW w, NEW r, NEW sv, AnswerOK(w, r, sv), r.what \notin {"list", "create", "created", "send"}
    PROVE  Fine(w, sv)
BY DEF AnswerOK, Fine, Covers

LEMMA AnsweredKeeps ==
    ASSUME NEW w, NEW r, NEW sv, AnswerOK(w, r, sv), r.stage = "served"
    PROVE  Fine(Answered(w, r), sv)
<1>1. /\ ServerOK(sv) /\ Sound(w, sv) /\ r \in Reqs /\ RequestOK(r, sv) /\ Len(sv.log) \in Nat
      /\ r.arg \in Nat /\ r.op \in Calls /\ r.got \in Gots /\ r.got.op \in Calls
  BY ConvsAre DEF AnswerOK, Reqs, Gots
<1>2. r.what \in Whats /\ r.what # "result" /\ (r.what # "boot" => w.sockets # << >>)
  BY <1>1 DEF AnswerOK, RequestOK, Reqs
<1>3. PageOK(r.got, sv)
  BY <1>1 DEF PageOK, RequestOK, GotOK, Gots
<1>4. r.got.list \in Seq(Entries) /\ \A i \in DOMAIN r.got.list : r.got.list[i].conv \in Convs(sv)
  BY <1>1 DEF RequestOK, GotOK, Gots
<1>5. PICK list, got : list = r.got.list /\ got = r.got
  OBVIOUS
<1>6. CASE r.what = "boot"
  BY <1>1, <1>4, <1>5, <1>6, NotMissed, BootedKeeps DEF Answered
<1>7. CASE r.what \in {"convs", "opened"}
  <2>1. Fine(Refreshed(w, list), sv)
    BY <1>4, <1>5, <1>7, NotMissed, ListKeeps DEF Refreshed
  <2>2. PICK v : v = Refreshed(w, list)
    OBVIOUS
  <2>3. Answered(w, r) = v \/ Answered(w, r) = OpenTheUnread(v)
    BY <1>5, <1>7, <2>2 DEF Answered
  <2> QED
    BY <1>1, <2>1, <2>2, <2>3, OpenTheUnreadKeeps
<1>8. CASE r.what = "list"
  <2>1. r.conv \in Convs(sv) /\ (w.app.working => w.app.timer)
    BY <1>1, <1>8 DEF AnswerOK, RequestOK, OfConv, Covers
  <2> QED
    BY <1>1, <1>3, <1>8, <2>1, ListedKeeps DEF Answered
<1>9. CASE r.what = "older"
  <2>1. Fine(ShowOlder(w, got), sv)
    BY <1>1, <1>3, <1>5, <1>9, NotMissed, ShowOlderKeeps
  <2> QED
    BY <1>5, <1>9, <2>1 DEF Answered
<1>10. CASE r.what = "create"
  <2>1. r.got.id \in Convs(sv) /\ w.sockets # << >> /\ Covers(w.app, w.requests \cup {r})
    BY <1>1, <1>2, <1>10 DEF RequestOK, AnswerOK
  <2> QED
    BY <1>1, <1>10, <2>1, CreatedKeeps DEF Answered
<1>11. CASE r.what = "created"
  <2>1. PICK v : v = ShowPage(w, got)
    OBVIOUS
  <2>2. /\ Sound(v, sv) /\ \A i \in DOMAIN v.app.shown : v.app.shown[i].kind = "stored"
        /\ v.requests = w.requests /\ v.app.loading = w.app.loading
        /\ v.app.working = w.app.working /\ v.app.timer = w.app.timer
    BY <1>1, <1>3, <1>5, <2>1, ShowPageKeeps DEF Redrawn
  <2>3. Covers(v.app, v.requests)
    BY <1>11, <2>2 DEF Covers, AnswerOK
  <2> QED
    BY <1>5, <1>11, <2>1, <2>2, <2>3 DEF Answered, Fine
<1>12. CASE r.what = "send"
  <2>1. PICK id \in DOMAIN sv.log, temp \in Nat : id = r.got.id /\ temp = r.arg
    BY <1>1, <1>12 DEF RequestOK
  <2>2. Fine(ReplaceTemp(w, temp, id), sv)
    BY <1>1, <1>12, <2>1, ReplaceTempKeeps DEF AnswerOK
  <2> QED
    BY <1>12, <2>1, <2>2 DEF Answered
<1>13. CASE r.what = "read"
  BY <1>13, NotMissed, MarkedReadKeeps DEF Answered
<1>14. CASE r.what = "pending"
  <2>1. Fine(w, sv)
    BY <1>14, NotMissed
  <2>2. CASE r.got.op = None
    BY <1>14, <2>1, <2>2 DEF Answered
  <2>3. CASE r.got.op # None
    <3>1. PICK op \in Ops : op = r.got.op
      BY <1>1, <2>3 DEF Calls
    <3> QED
      BY <1>1, <1>14, <2>1, <2>3, <3>1, OnOpKeeps DEF Answered
  <2> QED
    BY <2>2, <2>3
<1> QED
  BY <1>2, <1>6, <1>7, <1>8, <1>9, <1>10, <1>11, <1>12, <1>13, <1>14 DEF Whats

\* "error" in place of what was to be shown.
LEMMA FailureKeeps ==
    ASSUME NEW w, NEW sv, ServerOK(sv), Sound(w, sv)
    PROVE  /\ Covers(w.app, w.requests) => Fine([w EXCEPT !.app.screen = Failure], sv)
           /\ (\E r : r.what = "list" /\ Covers(w.app, w.requests \cup {r})) =>
                 Fine([w EXCEPT !.app.screen = Failure, !.app.loading = FALSE], sv)
<1>1. /\ w \in Worlds /\ w.app \in Apps /\ AppOK(w.app, sv)
  BY ShapeParts DEF Sound
<1>2. Failure \in Screens /\ Failure.conv = 0 /\ Failure.name = "error"
  BY DEF Failure, Screens
<1>3. ASSUME NEW loading \in BOOLEAN
      PROVE  LET v == [w EXCEPT !.app = [w.app EXCEPT !.screen = Failure, !.loading = loading]]
             IN  /\ Sound(v, sv) /\ v.requests = w.requests /\ v.app.loading = loading
                 /\ v.app.shown = w.app.shown /\ v.app.working = w.app.working
                 /\ v.app.timer = w.app.timer
  <2> DEFINE a == [w.app EXCEPT !.screen = Failure, !.loading = loading]
  <2>1. /\ a \in Apps /\ a.screen = Failure /\ a.list = w.app.list /\ a.seen = w.app.seen
        /\ a.cursor = w.app.cursor /\ a.shown = w.app.shown /\ a.card = w.app.card
        /\ a.loading = loading /\ a.ops = w.app.ops
        /\ a.working = w.app.working /\ a.timer = w.app.timer
    BY <1>1, <1>2 DEF Apps
  <2>2. AppOK(a, sv)
    BY <1>1, <1>2, <2>1 DEF AppOK
  <2> HIDE DEF a
  <2>3. PICK v : v = [w EXCEPT !.app = a]
    OBVIOUS
  <2>4. Sound(v, sv) /\ v.app = a /\ v.requests = w.requests
    BY <1>2, <2>1, <2>2, <2>3, AppSound
  <2> QED
    BY <2>1, <2>3, <2>4 DEF a
<1>4. PICK off \in BOOLEAN, same \in BOOLEAN : off = FALSE /\ same = w.app.loading
  BY <1>1 DEF Apps
<1>5. PICK v, u : /\ v = [w EXCEPT !.app = [w.app EXCEPT !.screen = Failure, !.loading = same]]
                  /\ u = [w EXCEPT !.app = [w.app EXCEPT !.screen = Failure, !.loading = off]]
  OBVIOUS
<1>6. /\ v = [w EXCEPT !.app.screen = Failure]
      /\ u = [w EXCEPT !.app.screen = Failure, !.app.loading = FALSE]
  BY <1>1, <1>4, <1>5 DEF Worlds, Apps
<1>7. Covers(w.app, w.requests) => Fine(v, sv)
  <2>1. /\ Sound(v, sv) /\ v.requests = w.requests /\ v.app.loading = same
        /\ v.app.shown = w.app.shown /\ v.app.working = w.app.working
        /\ v.app.timer = w.app.timer
    BY <1>3, <1>5
  <2> QED
    BY <1>4, <2>1 DEF Fine, Covers
<1>8. (\E r : r.what = "list" /\ Covers(w.app, w.requests \cup {r})) => Fine(u, sv)
  <2>1. /\ Sound(u, sv) /\ u.requests = w.requests /\ u.app.loading = off
        /\ u.app.shown = w.app.shown /\ u.app.working = w.app.working
        /\ u.app.timer = w.app.timer
    BY <1>3, <1>5
  <2> QED
    BY <1>4, <2>1 DEF Fine, Covers
<1> QED
  BY <1>6, <1>7, <1>8

LEMMA NotAnsweredKeeps ==
    ASSUME NEW w, NEW r, NEW sv, AnswerOK(w, r, sv), r.stage = "failed"
    PROVE  Fine(NotAnswered(w, r), sv)
<1>1. /\ ServerOK(sv) /\ Sound(w, sv) /\ r \in Reqs /\ r.arg \in Nat
      /\ r.what \in Whats /\ r.what # "result" /\ Covers(w.app, w.requests \cup {r})
  BY DEF AnswerOK, RequestOK, Reqs
<1>2. CASE r.what = "boot"
  <2>1. Covers(w.app, w.requests)
    BY <1>2, NotMissed DEF Fine
  <2> QED
    BY <1>1, <1>2, <2>1, FailureKeeps DEF NotAnswered
<1>3. CASE r.what = "list"
  BY <1>1, <1>3, FailureKeeps DEF NotAnswered
<1>4. CASE r.what \in {"create", "created", "send"}
  <2>1. PICK temp \in Nat : temp = r.arg
    BY <1>1
  <2>2. Fine(MarkFailed(w, temp), sv)
    BY <1>1, <1>4, <2>1, MarkFailedKeeps
  <2> QED
    BY <1>4, <2>1, <2>2 DEF NotAnswered
<1>5. CASE r.what = "opened"
  BY <1>1, <1>5, NotMissed, OpenTheUnreadKeeps DEF NotAnswered
<1>6. CASE r.what \in {"convs", "older", "read", "pending"}
  BY <1>6, NotMissed DEF NotAnswered
<1> QED
  BY <1>1, <1>2, <1>3, <1>4, <1>5, <1>6 DEF Whats

----------------------------------------------------------------------------
(* Frames of the socket.                                                   *)

LEMMA OnMessageKeeps ==
    ASSUME NEW w, NEW sv, ServerOK(sv), Fine(w, sv), NEW m \in Frames, m.what = "message",
           FrameOK(m, sv)
    PROVE  Fine(OnMessage(w, m), sv)
<1>1. /\ w \in Worlds /\ w.app \in Apps /\ AppOK(w.app, sv) /\ Dark(w) /\ Len(sv.log) \in Nat
      /\ w.app.card \in Calls /\ w.app.shown \in Seq(Items)
  BY ShapeParts, ConvsAre DEF Fine, Sound, Apps
<1>2. /\ m.id \in DOMAIN sv.log /\ m.conv \in Convs(sv) /\ m.id \in Nat /\ m.conv \in Nat
      /\ m.conv # 0
  BY ConvsAre DEF FrameOK, Frames
<1>3. CASE m.conv = ConvOnScreen(w.app) /\ m.id \notin w.app.seen
  <2> DEFINE card == IF m.dir = "out" THEN None ELSE w.app.card
             shown == Append(w.app.shown, AStored(m.id))
             a == [w.app EXCEPT !.seen = @ \cup {m.id}, !.shown = shown, !.card = card]
  <2>1. PICK v : v = [w EXCEPT !.app = a]
    OBVIOUS
  <2>2. v = [w EXCEPT !.app.seen = @ \cup {m.id},
                      !.app.shown = Append(@, [kind |-> "stored", id |-> m.id]),
                      !.app.card = IF m.dir = "out" THEN None ELSE @]
    BY <1>1, <2>1 DEF Worlds, Apps, AStored
  <2>3. /\ shown \in Seq(Items)
        /\ \A i \in DOMAIN shown : \/ i \in DOMAIN w.app.shown /\ shown[i] = w.app.shown[i]
                                   \/ shown[i].kind = "stored"
    <3>1. PICK item \in Items : item = AStored(m.id) /\ item.kind = "stored"
      BY <1>2, ItemsAre DEF AStored
    <3>2. /\ Append(w.app.shown, item) \in Seq(Items)
          /\ \A i \in DOMAIN Append(w.app.shown, item) :
                \/ i \in DOMAIN w.app.shown /\ Append(w.app.shown, item)[i] = w.app.shown[i]
                \/ Append(w.app.shown, item)[i] = item
      BY <1>1
    <3> QED
      BY <3>1, <3>2
  <2>4. card \in Calls /\ card \in {None, w.app.card}
    BY <1>1 DEF Calls
  <2> HIDE DEF card, shown
  <2>5. /\ a \in Apps /\ a.screen = w.app.screen /\ a.list = w.app.list
        /\ a.seen = w.app.seen \cup {m.id} /\ a.cursor = w.app.cursor /\ a.shown = shown
        /\ a.card = card /\ a.loading = w.app.loading /\ a.ops = w.app.ops
        /\ a.working = w.app.working /\ a.timer = w.app.timer
    BY <1>1, <1>2, <2>3, <2>4 DEF Apps
  <2>6. AppOK(a, sv)
    BY <1>1, <1>2, <2>5 DEF AppOK
  <2> HIDE DEF a
  <2>7. Sound(v, sv) /\ v.app = a /\ v.requests = w.requests
    BY <1>1, <2>1, <2>4, <2>5, <2>6, AppSound DEF Fine, Dark
  <2>8. Fine(v, sv)
    BY <2>3, <2>5, <2>7 DEF Fine, Covers
  <2>9. PICK c : c = m.conv
    OBVIOUS
  <2>10. Askable(v, sv, "read", c, 0, None)
    BY <1>1, <1>2, <2>9 DEF Askable, Whats, Calls
  <2>11. Fine(AskOf(v, "read", c, 0, None), sv)
    BY <2>8, <2>10, AskFine
  <2>12. OnMessage(w, m) = IF m.dir = "out" THEN AskOf(v, "read", c, 0, None) ELSE v
    BY <1>3, <2>2, <2>9 DEF OnMessage, Ask
  <2> QED
    BY <2>8, <2>11, <2>12
<1>4. CASE ~(m.conv = ConvOnScreen(w.app) /\ m.id \notin w.app.seen) /\ m.dir = "out"
  <2>1. PICK c, flag : c = m.conv /\ flag \in BOOLEAN /\ flag = TRUE
    OBVIOUS
  <2>2. OnMessage(w, m) = PushUnread([w EXCEPT !.app.list = Flagged(w.app.list, c, flag)])
    BY <1>4, <2>1 DEF OnMessage, Flagged
  <2> QED
    BY <2>1, <2>2, FlagKeeps
<1>5. CASE ~(m.conv = ConvOnScreen(w.app) /\ m.id \notin w.app.seen) /\ m.dir # "out"
  BY <1>5 DEF OnMessage
<1> QED
  BY <1>3, <1>4, <1>5

\* The sockets are others, as many.
LEMMA SocketsKeep ==
    ASSUME NEW w, NEW sv, Fine(w, sv), NEW socks \in Seq(Socks),
           socks = << >> => w.sockets = << >>,
           \A s \in DOMAIN socks : \A i \in DOMAIN socks[s].wire : FrameOK(socks[s].wire[i], sv)
    PROVE  Fine([w EXCEPT !.sockets = socks], sv)
<1>1. PICK v : v = [w EXCEPT !.sockets = socks]
  OBVIOUS
<1>2. w \in Worlds
  BY ShapeParts DEF Fine, Sound
<1>3. /\ v \in Worlds /\ v.app = w.app /\ v.requests = w.requests /\ v.loader = w.loader
      /\ v.sockets = socks
  BY <1>1, <1>2 DEF Worlds
<1> QED
  BY <1>1, <1>3 DEF Fine, Sound, Shape, Dark, Counted, Once

----------------------------------------------------------------------------
(* The steps of the iframe.                                                *)

LEMMA WorldIs ==
    ASSUME Fine(World, server)
    PROVE  /\ World \in Worlds /\ World.app = app /\ World.requests = requests
           /\ World.loader = loader /\ World.sockets = sockets /\ World.ran = ran
<1>1. World \in Worlds
  BY ShapeParts DEF Fine, Sound
<1> QED
  BY <1>1 DEF World

LEMMA BecomeIs ==
    ASSUME NEW v, Become(v), Fine(v, server), server' = server
    PROVE  Fine(World', server')
<1>1. v \in Worlds
  BY ShapeParts DEF Fine, Sound
<1>2. World' = [app |-> v.app, requests |-> v.requests, loader |-> v.loader,
                sockets |-> v.sockets, ran |-> v.ran]
  BY DEF Become, World
<1>3. World' = v
  BY <1>1, <1>2 DEF Worlds
<1> QED
  BY <1>3

\* What is left when a request is taken from those that are under way.
LEMMA AnswerIs ==
    ASSUME ChatInv, Answer
    PROVE  \E r \in requests : \E w :
              /\ AnswerOK(w, r, server) /\ w.app = app /\ w.requests = requests \ {r}
              /\ r.stage \in {"served", "failed"}
              /\ Become(IF r.stage = "served" THEN Answered(w, r) ELSE NotAnswered(w, r))
              /\ UNCHANGED <<server, events>>
<1>1. ServerOK(server) /\ Fine(World, server) /\ events \in Nat
  BY DEF ChatInv
<1>2. PICK r \in requests :
        /\ r.stage # "sent"
        /\ Become(IF r.stage = "served" THEN Answered([World EXCEPT !.requests = @ \ {r}], r)
                  ELSE NotAnswered([World EXCEPT !.requests = @ \ {r}], r))
        /\ UNCHANGED <<server, events>>
  BY DEF Answer
<1>3. PICK w : w = [World EXCEPT !.requests = @ \ {r}]
  OBVIOUS
<1>4. World \in Worlds /\ requests \in SUBSET Reqs /\ r \in Reqs /\ IsFiniteSet(requests)
  BY <1>1, WorldIs, ShapeParts DEF Fine, Sound
<1>5. /\ w \in Worlds /\ w.app = app /\ w.requests = requests \ {r} /\ w.loader = loader
      /\ w.sockets = sockets
  BY <1>1, <1>3, <1>4, WorldIs DEF Worlds
<1>6. IsFiniteSet(w.requests)
  BY <1>4, <1>5, FS_RemoveElement
<1>7. Sound(w, server)
  BY <1>1, <1>5, <1>6, WorldIs DEF Fine, Sound, Shape, Dark, Counted, Once
<1>8. w.requests \cup {r} = requests
  BY <1>5
<1>9. AnswerOK(w, r, server)
  BY <1>1, <1>2, <1>4, <1>5, <1>7, <1>8, WorldIs DEF AnswerOK, Fine, Sound, Shape, Dark
<1>10. r.stage \in {"served", "failed"}
  BY <1>2, <1>4 DEF Reqs
<1> QED
  BY <1>2, <1>3, <1>5, <1>9, <1>10

LEMMA AnswerStep ==
    ASSUME ChatInv, Answer
    PROVE  ChatInv'
<1>1. ServerOK(server) /\ events \in Nat
  BY DEF ChatInv
<1>2. PICK r \in requests : \E w :
        /\ AnswerOK(w, r, server) /\ r.stage \in {"served", "failed"}
        /\ Become(IF r.stage = "served" THEN Answered(w, r) ELSE NotAnswered(w, r))
        /\ UNCHANGED <<server, events>>
  BY AnswerIs
<1>3. PICK w :
        /\ AnswerOK(w, r, server) /\ r.stage \in {"served", "failed"}
        /\ Become(IF r.stage = "served" THEN Answered(w, r) ELSE NotAnswered(w, r))
        /\ UNCHANGED <<server, events>>
  BY <1>2
<1>4. PICK v : v = IF r.stage = "served" THEN Answered(w, r) ELSE NotAnswered(w, r)
  OBVIOUS
<1>5. Fine(v, server) /\ Become(v)
  BY <1>3, <1>4, AnsweredKeeps, NotAnsweredKeeps
<1>6. Fine(World', server')
  BY <1>3, <1>5, BecomeIs
<1> QED
  BY <1>1, <1>3, <1>6 DEF ChatInv

\* What is left when a frame is taken from the wire.
LEMMA DeliverIs ==
    ASSUME ChatInv, NEW s, Deliver(s)
    PROVE  \E m \in Frames : \E w :
              /\ FrameOK(m, server) /\ Fine(w, server) /\ w.app = app /\ w.requests = requests
              /\ Become(CASE m.what = "message" -> OnMessage(w, m)
                          [] m.what = "op"      -> OnOp(w, m.op)
                          [] m.what = "ended"   -> SetWorking(w, FALSE))
              /\ UNCHANGED <<server, events>>
<1>1. ServerOK(server) /\ Fine(World, server) /\ events \in Nat
  BY DEF ChatInv
<1>2. World \in Worlds /\ sockets \in Seq(Socks) /\ World.sockets = sockets
  BY <1>1, WorldIs, ShapeParts DEF Fine, Sound
<1>3. s \in DOMAIN sockets /\ sockets[s].wire # << >>
  BY DEF Deliver
<1>4. PICK m, w : /\ m = Head(sockets[s].wire)
                  /\ w = [World EXCEPT !.sockets[s].wire = Tail(@)]
  OBVIOUS
<1>5. /\ Become(CASE m.what = "message" -> OnMessage(w, m)
                 [] m.what = "op"      -> OnOp(w, m.op)
                 [] m.what = "ended"   -> SetWorking(w, FALSE))
      /\ UNCHANGED <<server, events>>
  BY <1>4 DEF Deliver
<1>6. sockets[s] \in Socks /\ sockets[s].wire \in Seq(Frames)
  <2>1. sockets[s] \in Socks
    BY <1>2, <1>3
  <2> QED
    BY <2>1 DEF Socks
<1>7. \A i \in DOMAIN sockets[s].wire : FrameOK(sockets[s].wire[i], server)
  BY <1>1, <1>2, <1>3 DEF Fine, Sound, Shape
<1>8. m \in Frames /\ FrameOK(m, server)
  BY <1>3, <1>4, <1>6, <1>7
<1>9. PICK wire : wire = Tail(sockets[s].wire)
  OBVIOUS
<1>10. wire \in Seq(Frames) /\ \A i \in DOMAIN wire : FrameOK(wire[i], server)
  <2>1. PICK t \in Seq(Frames) : t = sockets[s].wire /\ t # << >>
    BY <1>3, <1>6
  <2>2. /\ Tail(t) \in Seq(Frames)
        /\ \A i \in DOMAIN Tail(t) : i + 1 \in DOMAIN t /\ Tail(t)[i] = t[i + 1]
    BY <2>1
  <2> QED
    BY <1>7, <1>9, <2>1, <2>2
<1>11. PICK q : q = [sockets[s] EXCEPT !.wire = wire]
  OBVIOUS
<1>12. q \in Socks /\ q.wire = wire
  BY <1>6, <1>10, <1>11 DEF Socks
<1>13. PICK socks : socks = [sockets EXCEPT ![s] = q]
  OBVIOUS
<1>14. /\ socks \in Seq(Socks) /\ socks # << >> /\ DOMAIN socks = DOMAIN sockets
       /\ \A k \in DOMAIN socks : socks[k] = IF k = s THEN q ELSE sockets[k]
  BY <1>2, <1>3, <1>12, <1>13
<1>15. \A k \in DOMAIN socks : \A i \in DOMAIN socks[k].wire : FrameOK(socks[k].wire[i], server)
  BY <1>1, <1>2, <1>10, <1>12, <1>14 DEF Fine, Sound, Shape
<1>16. w = [World EXCEPT !.sockets = socks]
  BY <1>2, <1>4, <1>9, <1>11, <1>13 DEF Worlds
<1>17. Fine(w, server)
  BY <1>1, <1>14, <1>15, <1>16, SocketsKeep
<1>18. w.app = app /\ w.requests = requests
  BY <1>1, <1>2, <1>16, WorldIs DEF Worlds
<1> QED
  BY <1>5, <1>8, <1>17, <1>18

LEMMA DeliverStep ==
    ASSUME ChatInv, NEW s, Deliver(s)
    PROVE  ChatInv'
<1>1. ServerOK(server) /\ events \in Nat
  BY DEF ChatInv
<1>2. PICK m \in Frames : \E w :
        /\ FrameOK(m, server) /\ Fine(w, server)
        /\ Become(CASE m.what = "message" -> OnMessage(w, m)
                    [] m.what = "op"      -> OnOp(w, m.op)
                    [] m.what = "ended"   -> SetWorking(w, FALSE))
        /\ UNCHANGED <<server, events>>
  BY DeliverIs
<1>3. PICK w :
        /\ FrameOK(m, server) /\ Fine(w, server)
        /\ Become(CASE m.what = "message" -> OnMessage(w, m)
                    [] m.what = "op"      -> OnOp(w, m.op)
                    [] m.what = "ended"   -> SetWorking(w, FALSE))
        /\ UNCHANGED <<server, events>>
  BY <1>2
<1>4. PICK v : /\ Become(v)
               /\ v = CASE m.what = "message" -> OnMessage(w, m)
                        [] m.what = "op"      -> OnOp(w, m.op)
                        [] m.what = "ended"   -> SetWorking(w, FALSE)
  BY <1>3
<1>5. Fine(v, server)
  <2>1. CASE m.what = "message"
    BY <1>1, <1>3, <1>4, <2>1, OnMessageKeeps
  <2>2. CASE m.what = "op"
    <3>1. PICK op \in Ops : op = m.op
      BY <1>3, <2>2 DEF FrameOK
    <3> QED
      BY <1>1, <1>3, <1>4, <2>2, <3>1, OnOpKeeps
  <2>3. CASE m.what = "ended"
    <3>1. PICK off \in BOOLEAN : off = FALSE
      OBVIOUS
    <3>2. Fine(SetWorking(w, off), server)
      BY <1>3, SetWorkingKeeps DEF Fine
    <3> QED
      BY <1>4, <2>3, <3>1, <3>2
  <2> QED
    BY <2>1, <2>2, <2>3 DEF Frames
<1>6. Fine(World', server')
  BY <1>3, <1>4, <1>5, BecomeIs
<1> QED
  BY <1>1, <1>3, <1>6 DEF ChatInv

----------------------------------------------------------------------------
(* The steps of the visitor, of the loader and of the page.                *)

LEMMA ScreenKeeps ==
    ASSUME NEW w, NEW sv, Fine(w, sv), NEW screen \in Screens, NEW panel \in BOOLEAN,
           screen.conv \in {0} \cup Convs(sv), screen.conv # 0 => screen.name = "thread",
           w.sockets = << >> => screen.name \in {"loading", "error"}
    PROVE  Fine([w EXCEPT !.app = [w.app EXCEPT !.screen = screen, !.panel = panel]], sv)
<1> DEFINE a == [w.app EXCEPT !.screen = screen, !.panel = panel]
<1>1. w \in Worlds /\ w.app \in Apps /\ AppOK(w.app, sv)
  BY ShapeParts DEF Fine, Sound
<1>2. /\ a \in Apps /\ a.screen = screen /\ a.list = w.app.list /\ a.seen = w.app.seen
      /\ a.cursor = w.app.cursor /\ a.shown = w.app.shown /\ a.card = w.app.card
      /\ a.loading = w.app.loading /\ a.ops = w.app.ops
      /\ a.working = w.app.working /\ a.timer = w.app.timer
  BY <1>1 DEF Apps
<1>3. AppOK(a, sv)
  BY <1>1, <1>2 DEF AppOK
<1> HIDE DEF a
<1>4. PICK v : v = [w EXCEPT !.app = a]
  OBVIOUS
<1>5. Sound(v, sv) /\ v.app = a /\ v.requests = w.requests
  BY <1>2, <1>3, <1>4, AppSound DEF Fine
<1>6. Fine(v, sv)
  BY <1>2, <1>5 DEF Fine, Covers
<1> QED
  BY <1>4, <1>6 DEF a

LEMMA ActStep ==
    ASSUME ChatInv, NEW w, Act(w), Fine(w, server)
    PROVE  ChatInv'
<1>1. Become(w) /\ server' = server /\ events' = events + 1
  BY DEF Act, Event
<1>2. Fine(World', server')
  BY <1>1, BecomeIs
<1> QED
  BY <1>1, <1>2 DEF ChatInv

LEMMA VisitorSteps ==
    ASSUME ChatInv, PanelOpens \/ PanelCloses \/ TryAgain \/ GoHome \/ Opens \/ StartsNew
    PROVE  ChatInv'
<1>1. ServerOK(server) /\ Fine(World, server) /\ events \in Nat
  BY DEF ChatInv
<1>2. /\ World \in Worlds /\ World.app = app /\ World.sockets = sockets /\ app \in Apps
      /\ AppOK(app, server) /\ app.screen \in Screens /\ Dark(World)
      /\ app.list \in Seq(Entries) /\ Len(server.log) \in Nat
  BY <1>1, WorldIs, ShapeParts, ConvsAre DEF Fine, Sound, Apps
<1>3. ASSUME NEW u, Fine(u, server), NEW what \in {"boot", "convs", "opened"}
      PROVE  Fine(Ask(u, what, 0, 0), server)
  <2>1. Askable(u, server, what, 0, 0, None)
    BY <1>2 DEF Askable, Whats, OfConv, Calls
  <2> QED
    BY <1>3, <2>1, AskFine DEF Ask
<1>4. ASSUME NEW panel \in BOOLEAN
      PROVE  Fine([World EXCEPT !.app.panel = panel], server)
  <2>1. PICK screen \in Screens : screen = app.screen
    BY <1>2
  <2>2. PICK u : u = [World EXCEPT !.app = [World.app EXCEPT !.screen = screen, !.panel = panel]]
    OBVIOUS
  <2>3. Fine(u, server)
    BY <1>1, <1>2, <2>1, <2>2, ScreenKeeps DEF AppOK, Dark
  <2>4. [World EXCEPT !.app.panel = panel] = u
    BY <1>2, <2>1, <2>2 DEF Worlds, Apps
  <2> QED
    BY <2>3, <2>4
<1>5. CASE PanelOpens
  <2>1. PICK panel \in BOOLEAN, what \in {"boot", "convs", "opened"} :
           panel = TRUE /\ what = IF app.panel THEN "convs" ELSE "opened"
    OBVIOUS
  <2>2. PICK u : u = [World EXCEPT !.app.panel = panel]
    OBVIOUS
  <2>3. Act(Ask(u, what, 0, 0))
    BY <1>5, <2>1, <2>2 DEF PanelOpens
  <2>4. Fine(u, server)
    BY <1>4, <2>2
  <2>5. PICK v : v = Ask(u, what, 0, 0)
    OBVIOUS
  <2>6. Fine(v, server)
    BY <1>3, <2>4, <2>5
  <2> QED
    BY <2>3, <2>5, <2>6, ActStep
<1>6. CASE PanelCloses
  <2>1. PICK panel \in BOOLEAN : panel = FALSE
    OBVIOUS
  <2>2. PICK u : u = [World EXCEPT !.app.panel = panel]
    OBVIOUS
  <2>3. Fine(u, server) /\ Act(u)
    BY <1>4, <1>6, <2>1, <2>2 DEF PanelCloses
  <2> QED
    BY <2>3, ActStep
<1>7. CASE TryAgain
  <2>1. PICK v, what : what = "boot" /\ v = Ask(World, what, 0, 0)
    OBVIOUS
  <2>2. Act(v)
    BY <1>7, <2>1 DEF TryAgain
  <2>3. Fine(v, server)
    BY <1>1, <1>3, <2>1
  <2> QED
    BY <2>2, <2>3, ActStep
<1>8. CASE GoHome
  <2>1. PICK panel \in BOOLEAN, screen \in Screens : panel = app.panel /\ screen = HomeScreen
    BY <1>2 DEF Apps, HomeScreen, Screens
  <2>2. PICK u : u = [World EXCEPT !.app = [World.app EXCEPT !.screen = screen, !.panel = panel]]
    OBVIOUS
  <2>3. u = [World EXCEPT !.app.screen = HomeScreen]
    BY <1>2, <2>1, <2>2 DEF Worlds, Apps
  <2>4. World.sockets # << >>
    BY <1>2, <1>8 DEF GoHome, OnScreen, Dark
  <2>5. Fine(u, server)
    <3>1. screen.conv = 0
      BY <2>1 DEF HomeScreen
    <3> QED
      BY <1>1, <2>2, <2>4, <3>1, ScreenKeeps
  <2>6. PICK v, what : what = "convs" /\ v = Ask(u, what, 0, 0)
    OBVIOUS
  <2>7. Act(v)
    BY <1>8, <2>3, <2>6 DEF GoHome
  <2>8. Fine(v, server)
    BY <1>3, <2>5, <2>6
  <2> QED
    BY <2>7, <2>8, ActStep
<1>9. CASE Opens
  <2>1. PICK i \in DOMAIN app.list : Act(OpenConversation(World, app.list[i].conv))
    BY <1>9 DEF Opens
  <2>2. PICK c \in Convs(server) : c = app.list[i].conv
    BY <1>2 DEF AppOK
  <2>3. World.sockets # << >>
    BY <1>2, <1>9 DEF Opens, OnScreen, Dark
  <2>4. PICK v : v = OpenConversation(World, c)
    OBVIOUS
  <2>5. Fine(v, server)
    BY <1>1, <2>3, <2>4, OpenConversationKeeps
  <2> QED
    BY <2>1, <2>2, <2>4, <2>5, ActStep
<1>10. CASE StartsNew
  <2>1. World.sockets # << >> /\ Act(StartNew(World))
    BY <1>2, <1>10 DEF StartsNew, OnScreen, Dark
  <2> QED
    BY <1>1, <2>1, StartNewKeeps, ActStep
<1> QED
  BY <1>5, <1>6, <1>7, <1>8, <1>9, <1>10

LEMMA ThreadSteps ==
    ASSUME ChatInv, Sends \/ Retries \/ LoadsOlder \/ Decides \/ LoaderAnswers
    PROVE  ChatInv'
<1>1. ServerOK(server) /\ Fine(World, server) /\ events \in Nat
  BY DEF ChatInv
<1>2. /\ World \in Worlds /\ World.app = app /\ World.sockets = sockets /\ app \in Apps
      /\ AppOK(app, server) /\ app.screen \in Screens /\ World.loader = loader
      /\ loader \in Loaders /\ Len(server.log) \in Nat
  BY <1>1, WorldIs, ShapeParts, ConvsAre DEF Fine, Sound
<1>3. PICK temp \in Nat : temp = events + 1
  BY <1>1
<1>4. CASE Sends
  <2>1. Act(Send(World, temp))
    BY <1>3, <1>4 DEF Sends
  <2> QED
    BY <1>1, <2>1, SendKeeps, ActStep
<1>5. CASE Retries
  <2>1. PICK old : Act(Retry(World, old, temp))
    BY <1>3, <1>5 DEF Retries
  <2> QED
    BY <1>1, <2>1, RetryKeeps, ActStep
<1>6. CASE LoadsOlder
  <2>1. PICK c \in Nat, arg \in Nat : c = app.screen.conv /\ arg = app.cursor
    BY <1>2 DEF Screens, Apps
  <2>2. Askable(World, server, "older", c, arg, None)
    BY <1>2, <1>6, <2>1 DEF LoadsOlder, Askable, Whats, OfConv, Calls, AppOK
  <2>3. PICK v : v = AskOf(World, "older", c, arg, None)
    OBVIOUS
  <2>4. Fine(v, server)
    BY <1>1, <2>2, <2>3, AskFine
  <2>5. Act(v)
    BY <1>6, <2>1, <2>3 DEF LoadsOlder, Ask
  <2> QED
    BY <2>4, <2>5, ActStep
<1>7. CASE Decides
  <2>1. World.app.card # None /\ (Act(Confirm(World)) \/ Act(Decline(World)))
    BY <1>2, <1>7 DEF Decides
  <2>2. Fine(Confirm(World), server) /\ Fine(Decline(World), server)
    BY <1>1, <2>1, ConfirmKeeps, DeclineKeeps
  <2> QED
    BY <2>1, <2>2, ActStep
<1>8. CASE LoaderAnswers
  <2>1. PICK op \in Ops : /\ loader.busy[op] > 0
                          /\ Become(OnResult([World EXCEPT !.loader.busy[op] = @ - 1], op))
    BY <1>8 DEF LoaderAnswers
  <2>2. PICK v : v = OnResult([World EXCEPT !.loader.busy[op] = @ - 1], op)
    OBVIOUS
  <2>3. Fine(v, server)
    BY <1>1, <1>2, <2>1, <2>2, OnResultKeeps
  <2>4. server' = server /\ events' = events
    BY <1>8 DEF LoaderAnswers
  <2>5. Fine(World', server')
    BY <2>1, <2>2, <2>3, <2>4, BecomeIs
  <2> QED
    BY <1>1, <2>4, <2>5 DEF ChatInv
<1> QED
  BY <1>4, <1>5, <1>6, <1>7, <1>8

LEMMA FreshIs ==
    ASSUME NEW sv, ServerOK(sv), NEW times \in [Ops -> Nat]
    PROVE  Fine([app |-> FreshApp, requests |-> {FirstBoot}, loader |-> FreshLoader,
                 sockets |-> << >>, ran |-> times], sv)
<1>1. Len(sv.log) \in Nat
  BY ConvsAre
<1>2. PICK a, r, l, w : /\ a = FreshApp /\ r = FirstBoot /\ l = FreshLoader
                        /\ w = [app |-> a, requests |-> {r}, loader |-> l, sockets |-> << >>,
                                ran |-> times]
  OBVIOUS
<1>3. /\ << >> \in Seq(Entries) /\ << >> \in Seq(Items) /\ << >> \in Seq(Nat)
      /\ << >> \in Seq(Socks) /\ None \in Calls /\ {} \in SUBSET Nat
  BY DEF Calls
<1>4. Loading \in Screens /\ Loading.conv = 0 /\ Loading.name = "loading"
  BY DEF Loading, Screens
<1>5. a \in Apps
  BY <1>2, <1>3, <1>4 DEF FreshApp, Apps
<1>6. /\ a.screen = Loading /\ a.list = << >> /\ a.seen = {} /\ a.cursor = 0 /\ a.shown = << >>
      /\ a.card = None /\ a.loading = FALSE /\ a.ops = {} /\ a.working = FALSE
  BY <1>2 DEF FreshApp
<1>7. AppOK(a, sv)
  BY <1>1, <1>4, <1>6 DEF AppOK
<1>8. Nothing \in Gots
  BY <1>3 DEF Nothing, Gots
<1>9. r \in Reqs /\ RequestOK(r, sv) /\ r.what = "boot"
  <2>1. /\ r.what = "boot" /\ r.stage = "sent" /\ r.got = Nothing
    BY <1>2 DEF FirstBoot
  <2>2. r \in Reqs
    BY <1>2, <1>3, <1>8 DEF FirstBoot, Reqs, Whats
  <2> QED
    BY <1>1, <2>1, <2>2 DEF RequestOK, GotOK, Nothing, OfConv
<1>10. l \in Loaders /\ l.badge = 0 /\ \A op \in Ops : l.busy[op] = 0
  BY <1>2 DEF FreshLoader, Loaders

<1>11. /\ w \in Worlds /\ w.app = a /\ w.requests = {r} /\ w.loader = l /\ w.sockets = << >>
  BY <1>2, <1>3, <1>5, <1>9, <1>10 DEF Worlds
<1>12. IsFiniteSet(w.requests)
  BY <1>11, FS_Singleton
<1>13. Shape(w, sv)
  BY <1>4, <1>6, <1>7, <1>9, <1>11, <1>12 DEF Shape, Dark
<1>14. Counted(w)
  <2>1. {i \in DOMAIN << >> : << >>[i].unread} = {}
    OBVIOUS
  <2>2. UnreadCount(<< >>) = 0
    BY <2>1, FS_EmptySet DEF UnreadCount
  <2> QED
    BY <1>6, <1>10, <1>11, <2>2 DEF Counted
<1>15. Once(w) /\ Covers(w.app, w.requests)
  BY <1>6, <1>10, <1>11 DEF Once, Covers
<1> QED
  BY <1>2, <1>13, <1>14, <1>15 DEF Fine, Sound

LEMMA PageSteps ==
    ASSUME ChatInv, TimerFires \/ Reload
    PROVE  ChatInv'
<1>1. ServerOK(server) /\ Fine(World, server) /\ events \in Nat
  BY DEF ChatInv
<1>2. /\ World \in Worlds /\ World.app = app /\ World.requests = requests
      /\ World.sockets = sockets /\ World.loader = loader /\ World.ran = ran
      /\ app \in Apps /\ AppOK(app, server) /\ Dark(World) /\ ran \in [Ops -> Nat]
  BY <1>1, WorldIs, ShapeParts DEF Fine, Sound
<1>3. CASE TimerFires
  <2> DEFINE a == [app EXCEPT !.working = FALSE, !.timer = FALSE]
  <2>1. /\ a \in Apps /\ a.screen = app.screen /\ a.list = app.list /\ a.seen = app.seen
        /\ a.cursor = app.cursor /\ a.shown = app.shown /\ a.card = app.card
        /\ a.loading = app.loading /\ a.ops = app.ops /\ a.working = FALSE
    BY <1>2 DEF Apps
  <2>2. AppOK(a, server)
    BY <1>2, <2>1 DEF AppOK
  <2>3. app' = a /\ UNCHANGED <<requests, loader, sockets, server, ran, events>>
    BY <1>3 DEF TimerFires
  <2> HIDE DEF a
  <2>4. PICK v : v = [World EXCEPT !.app = a]
    OBVIOUS
  <2>5. /\ Sound(v, server) /\ v.app = a /\ v.requests = requests /\ v.loader = loader
        /\ v.sockets = sockets /\ v.ran = ran
    BY <1>1, <1>2, <2>1, <2>2, <2>4, AppSound DEF Fine, Dark
  <2>6. Fine(v, server)
    BY <1>1, <1>2, <2>1, <2>5 DEF Fine, Covers
  <2>7. Become(v)
    BY <2>3, <2>5 DEF Become
  <2>8. Fine(World', server')
    BY <2>3, <2>6, <2>7, BecomeIs
  <2> QED
    BY <1>1, <2>3, <2>8 DEF ChatInv
<1>4. CASE Reload
  <2>1. PICK v : v = [app |-> FreshApp, requests |-> {FirstBoot}, loader |-> FreshLoader,
                      sockets |-> << >>, ran |-> ran]
    OBVIOUS
  <2>2. Fine(v, server)
    BY <1>1, <1>2, <2>1, FreshIs
  <2>3. Become(v) /\ server' = server /\ events' = events + 1
    BY <1>4, <2>1 DEF Reload, Event, Become
  <2>4. Fine(World', server')
    BY <2>2, <2>3, BecomeIs
  <2> QED
    BY <1>1, <2>3, <2>4 DEF ChatInv
<1> QED
  BY <1>3, <1>4

\* Only the sockets change, and one of them at most.
LEMMA SocketStep ==
    ASSUME ChatInv, NEW s \in DOMAIN sockets, NEW q \in Socks,
           q.wire = sockets[s].wire \/ q.wire = << >>,
           sockets' = [sockets EXCEPT ![s] = q],
           UNCHANGED <<app, requests, loader, server, ran>>, events' \in Nat
    PROVE  ChatInv'
<1>1. ServerOK(server) /\ Fine(World, server)
  BY DEF ChatInv
<1>2. /\ World \in Worlds /\ World.app = app /\ World.requests = requests
      /\ World.sockets = sockets /\ World.loader = loader /\ World.ran = ran
      /\ sockets \in Seq(Socks)
  BY <1>1, WorldIs, ShapeParts DEF Fine, Sound
<1>3. PICK socks : socks = sockets'
  OBVIOUS
<1>4. /\ socks \in Seq(Socks) /\ socks # << >> /\ DOMAIN socks = DOMAIN sockets
      /\ \A k \in DOMAIN socks : socks[k] = IF k = s THEN q ELSE sockets[k]
  BY <1>2, <1>3
<1>5. \A k \in DOMAIN socks : \A i \in DOMAIN socks[k].wire : FrameOK(socks[k].wire[i], server)
  <2>1. \A k \in DOMAIN sockets : \A i \in DOMAIN sockets[k].wire :
           FrameOK(sockets[k].wire[i], server)
    BY <1>1, <1>2 DEF Fine, Sound, Shape
  <2> QED
    BY <1>4, <2>1
<1>6. PICK v : v = [World EXCEPT !.sockets = socks]
  OBVIOUS
<1>7. Fine(v, server)
  BY <1>1, <1>4, <1>5, <1>6, SocketsKeep
<1>8. /\ v.app = app /\ v.requests = requests /\ v.loader = loader
      /\ v.sockets = socks /\ v.ran = ran
  BY <1>2, <1>6 DEF Worlds
<1>9. Become(v)
  BY <1>3, <1>8 DEF Become
<1>10. Fine(World', server')
  BY <1>7, <1>9, BecomeIs
<1> QED
  BY <1>1, <1>10 DEF ChatInv

LEMMA LinkSteps ==
    ASSUME ChatInv, NEW s, Connect(s) \/ Join(s) \/ Drop(s)
    PROVE  ChatInv'
<1>1. /\ ServerOK(server) /\ events \in Nat /\ sockets \in Seq(Socks)
      /\ \A c \in Convs(server) : c \in Nat
  BY WorldIs, ShapeParts, ConvsAre DEF ChatInv, Fine, Sound
<1>2. s \in DOMAIN sockets
  BY DEF Connect, Join, Drop
<1>3. sockets[s] \in Socks
  BY <1>1, <1>2
<1>4. UNCHANGED <<app, requests, loader, server, ran>> /\ events' \in Nat
  BY <1>1 DEF Connect, Join, Drop, Event
<1>5. CASE Connect(s)
  <2>1. PICK q : q = [sockets[s] EXCEPT !.up = TRUE, !.joined = Convs(server)]
    OBVIOUS
  <2>2. q \in Socks /\ q.wire = sockets[s].wire
    <3>1. Convs(server) \in SUBSET Nat
      BY <1>1
    <3> QED
      BY <1>3, <2>1, <3>1 DEF Socks
  <2>3. sockets' = [sockets EXCEPT ![s] = q]
    BY <1>5, <2>1 DEF Connect
  <2> QED
    BY <1>2, <1>4, <2>2, <2>3, SocketStep
<1>6. CASE Join(s)
  <2>1. PICK c \in sockets[s].want : sockets' = [sockets EXCEPT ![s].joined = @ \cup {c}]
    BY <1>6 DEF Join
  <2>2. PICK q : q = [sockets[s] EXCEPT !.joined = @ \cup {c}]
    OBVIOUS
  <2>3. q \in Socks /\ q.wire = sockets[s].wire
    <3>1. c \in Nat
      BY <1>3, <2>1 DEF Socks
    <3> QED
      BY <1>3, <2>2, <3>1 DEF Socks
  <2>4. sockets' = [sockets EXCEPT ![s] = q]
    BY <2>1, <2>2
  <2> QED
    BY <1>2, <1>4, <2>3, <2>4, SocketStep
<1>7. CASE Drop(s)
  <2>1. PICK q : q = [sockets[s] EXCEPT !.up = FALSE, !.joined = {}, !.wire = << >>]
    OBVIOUS
  <2>2. q \in Socks /\ q.wire = << >>
    <3>1. << >> \in Seq(Frames) /\ {} \in SUBSET Nat
      OBVIOUS
    <3> QED
      BY <1>3, <2>1, <3>1 DEF Socks
  <2>3. sockets' = [sockets EXCEPT ![s] = q]
    BY <1>7, <2>1 DEF Drop
  <2> QED
    BY <1>2, <1>4, <2>2, <2>3, SocketStep
<1> QED
  BY <1>5, <1>6, <1>7

----------------------------------------------------------------------------
(* The steps of the backend.                                               *)

\* What was stored stays as it is.
Extends(sv2, sv) ==
    /\ Convs(sv) \subseteq Convs(sv2) /\ DOMAIN sv.log \subseteq DOMAIN sv2.log
    /\ Len(sv.log) <= Len(sv2.log) /\ \A i \in DOMAIN sv.log : sv2.log[i] = sv.log[i]

LEMMA FineExtends ==
    ASSUME NEW w, NEW sv, NEW sv2, ServerOK(sv), ServerOK(sv2), Fine(w, sv), Extends(sv2, sv)
    PROVE  Fine(w, sv2)
<1>1. Len(sv.log) \in Nat /\ Len(sv2.log) \in Nat
  BY ConvsAre
<1>2. \A k \in 0..Len(sv.log) : k \in 0..Len(sv2.log)
  BY <1>1 DEF Extends
<1>3. AppOK(w.app, sv2)
  BY <1>2 DEF Fine, Sound, Shape, AppOK, Extends
<1>4. ASSUME NEW r \in w.requests PROVE RequestOK(r, sv2)
  <2>1. RequestOK(r, sv)
    BY DEF Fine, Sound, Shape
  <2>2. GotOK(r.got, sv2)
    BY <1>2, <2>1 DEF RequestOK, GotOK, Extends
  <2> QED
    BY <2>1, <2>2 DEF RequestOK, Extends
<1>5. \A s \in DOMAIN w.sockets : \A i \in DOMAIN w.sockets[s].wire :
         FrameOK(w.sockets[s].wire[i], sv2)
  BY DEF Fine, Sound, Shape, FrameOK, Extends
<1> QED
  BY <1>3, <1>4, <1>5 DEF Fine, Sound, Shape

\* A frame that is told is told on open sockets only, and is the last on each.
LEMMA TellIs ==
    ASSUME NEW socks \in Seq(Socks), NEW c, NEW frame \in Frames, NEW sv, FrameOK(frame, sv),
           \A s \in DOMAIN socks : \A i \in DOMAIN socks[s].wire : FrameOK(socks[s].wire[i], sv)
    PROVE  /\ Tell(socks, c, frame) \in Seq(Socks)
           /\ DOMAIN Tell(socks, c, frame) = DOMAIN socks
           /\ \A s \in DOMAIN socks : \A i \in DOMAIN Tell(socks, c, frame)[s].wire :
                 FrameOK(Tell(socks, c, frame)[s].wire[i], sv)
<1>1. DOMAIN socks = 1..Len(socks) /\ Len(socks) \in Nat /\ \A s \in DOMAIN socks : socks[s] \in Socks
  OBVIOUS
<1>2. PICK t : t = Tell(socks, c, frame)
  OBVIOUS
<1>3. DOMAIN t = DOMAIN socks
  BY <1>2 DEF Tell
<1>4. ASSUME NEW s \in DOMAIN socks
      PROVE  t[s] \in Socks /\ \A i \in DOMAIN t[s].wire : FrameOK(t[s].wire[i], sv)
  <2>1. socks[s] \in Socks
    BY <1>1
  <2>2. PICK wire : wire = Append(socks[s].wire, frame)
    OBVIOUS
  <2>3. /\ wire \in Seq(Frames)
        /\ \A i \in DOMAIN wire : \/ i \in DOMAIN socks[s].wire /\ wire[i] = socks[s].wire[i]
                                  \/ wire[i] = frame
    <3>1. socks[s].wire \in Seq(Frames)
      BY <2>1 DEF Socks
    <3> QED
      BY <2>2, <3>1
  <2>4. PICK q : q = [socks[s] EXCEPT !.wire = wire]
    OBVIOUS
  <2>5. q \in Socks /\ q.wire = wire
    BY <2>1, <2>3, <2>4 DEF Socks
  <2>6. t[s] = q \/ t[s] = socks[s]
    BY <1>2, <2>2, <2>4 DEF Tell
  <2> QED
    BY <2>1, <2>3, <2>5, <2>6
<1>5. t = [s \in 1..Len(socks) |-> t[s]]
  BY <1>1, <1>2 DEF Tell
<1>6. t \in [1..Len(socks) -> Socks]
  BY <1>1, <1>4, <1>5
<1>7. t \in Seq(Socks)
  BY <1>1, <1>6
<1> QED
  BY <1>2, <1>3, <1>4, <1>7

LEMMA StoreIs ==
    ASSUME ServerOK(server), NEW c \in 1..(Cardinality(Convs(server)) + 1), NEW dir \in {"in", "out"},
           Store(c, dir)
    PROVE  /\ ServerOK(server') /\ Extends(server', server)
           /\ Len(server.log) + 1 \in DOMAIN server'.log
           /\ server'.log[Len(server.log) + 1].conv = c /\ c \in Convs(server')
<1> DEFINE entry == [conv |-> c, dir |-> dir]
<1>1. PICK k \in Nat : Convs(server) = 1..k
  BY DEF ServerOK
<1>2. Cardinality(Convs(server)) = k
  <2>1. PICK a \in Int, b \in Int : a = 1 /\ b = k
    BY <1>1
  <2>2. Cardinality(a..b) = IF a > b THEN 0 ELSE b - a + 1
    BY FS_Interval
  <2> QED
    BY <1>1, <2>1, <2>2
<1>3. c \in Nat /\ c \in 1..(k + 1)
  BY <1>1, <1>2
<1>4. PICK A : A = [conv : Nat, dir : {"in", "out"}]
  OBVIOUS
<1>5. server \in Servers /\ server.log \in Seq(A)
  BY <1>4 DEF ServerOK, Servers
<1>6. entry \in A /\ entry.conv = c
  BY <1>3, <1>4
<1> HIDE DEF entry
<1>7. PICK log : log = Append(server.log, entry)
  OBVIOUS
<1>8. /\ log \in Seq(A) /\ Len(log) = Len(server.log) + 1 /\ Len(server.log) \in Nat
      /\ DOMAIN log = 1..(Len(server.log) + 1) /\ DOMAIN server.log = 1..Len(server.log)
      /\ log[Len(server.log) + 1] = entry
      /\ \A i \in DOMAIN server.log : log[i] = server.log[i]
  BY <1>5, <1>6, <1>7
<1>9. PICK sv : sv = [server EXCEPT !.log = log]
  OBVIOUS
<1>10. server' = sv
  BY <1>7, <1>9 DEF Store, entry
<1>11. sv \in Servers /\ sv.log = log
  BY <1>4, <1>5, <1>8, <1>9 DEF Servers
<1>12. Convs(sv) = Convs(server) \cup {c}
  <2>1. ASSUME NEW i \in DOMAIN log
        PROVE  \/ i \in DOMAIN server.log /\ log[i] = server.log[i]
               \/ i = Len(server.log) + 1 /\ log[i].conv = c
    BY <1>6, <1>8
  <2>2. ASSUME NEW x \in Convs(sv) PROVE x \in Convs(server) \cup {c}
    BY <1>11, <2>1, <2>2 DEF Convs
  <2>3. ASSUME NEW x \in Convs(server) PROVE x \in Convs(sv)
    BY <1>8, <1>11, <2>3 DEF Convs
  <2>4. c \in Convs(sv)
    <3>1. Len(server.log) + 1 \in DOMAIN sv.log /\ sv.log[Len(server.log) + 1].conv = c
      BY <1>6, <1>8, <1>11
    <3> QED
      BY <3>1 DEF Convs
  <2> QED
    BY <2>2, <2>3, <2>4
<1>13. \E n \in Nat : Convs(sv) = 1..n
  <2>1. CASE c = k + 1
    <3>1. Convs(sv) = 1..(k + 1)
      BY <1>1, <1>12, <2>1
    <3> QED
      BY <3>1
  <2>2. CASE c # k + 1
    <3>1. Convs(sv) = 1..k
      BY <1>1, <1>3, <1>12, <2>2
    <3> QED
      BY <3>1
  <2> QED
    BY <2>1, <2>2
<1>14. Extends(sv, server)
  BY <1>8, <1>11, <1>12 DEF Extends
<1> QED
  BY <1>6, <1>8, <1>10, <1>11, <1>12, <1>13, <1>14 DEF ServerOK

\* The least of some numbers, and the greatest of finitely many.
LEMMA LeastIs ==
    ASSUME NEW T \in SUBSET Nat, T # {}
    PROVE  \E m \in T : \A i \in T : m <= i
<1>1. PICK m \in T : \A i \in T : ~(<<i, m>> \in OpToRel(<, Nat))
  BY NatLessThanWellFounded, WFMin
<1>2. \A i \in T : i \in Nat /\ ~(i < m)
  BY <1>1 DEF OpToRel
<1> QED
  BY <1>2

LEMMA GreatestIs ==
    ASSUME NEW T \in SUBSET Nat, T # {}, NEW n \in Nat, \A i \in T : i <= n
    PROVE  \E m \in T : \A i \in T : i <= m
<1>1. PICK U \in SUBSET Nat : U = {k \in Nat : \A i \in T : i <= k}
  OBVIOUS
<1>2. U # {}
  BY <1>1
<1>3. PICK m \in U : \A k \in U : m <= k
  BY <1>2, LeastIs
<1>4. m \in Nat /\ \A i \in T : i \in Nat /\ i <= m
  BY <1>1
<1>5. CASE m \in T
  BY <1>4, <1>5
<1>6. CASE m \notin T
  <2>1. \A i \in T : i < m
    BY <1>4, <1>6
  <2>2. m # 0
    <3>1. PICK i \in T : i \in Nat /\ i < m
      BY <1>4, <2>1
    <3> QED
      BY <1>4, <3>1
  <2>3. m - 1 \in Nat /\ \A i \in T : i <= m - 1
    BY <1>4, <2>1, <2>2
  <2>4. m - 1 \in U
    BY <1>1, <2>3
  <2> QED
    BY <1>3, <1>4, <2>4
<1> QED
  BY <1>5, <1>6

LEMMA MessagePageIs ==
    ASSUME NEW sv, ServerOK(sv), NEW c, NEW cursor
    PROVE  /\ PageOK(MessagePage(sv, c, cursor), sv)
           /\ \A i \in DOMAIN MessagePage(sv, c, cursor).items :
                 sv.log[MessagePage(sv, c, cursor).items[i]].conv = c
           /\ \A i, j \in DOMAIN MessagePage(sv, c, cursor).items :
                 MessagePage(sv, c, cursor).items[i] = MessagePage(sv, c, cursor).items[j] => i = j
<1>1. PICK all : all = {i \in Messages(sv, c) : cursor = 0 \/ i < cursor}
  OBVIOUS
<1>2. PICK page : page = Newest(all, PageSize)
  OBVIOUS
<1>3. /\ Len(sv.log) \in Nat /\ all \in SUBSET Nat /\ all \subseteq DOMAIN sv.log
      /\ \A i \in all : i <= Len(sv.log) /\ sv.log[i].conv = c
  BY <1>1, ConvsAre DEF Messages
<1>4. page \in SUBSET Nat /\ page \subseteq all
  BY <1>2, <1>3 DEF Newest
<1>5. IsFiniteSet(page)
  BY <1>3, <1>4, FS_BoundedSetOfNaturals
<1>6. PICK items : items = Ascending(page)
  OBVIOUS
<1>7. items \in Seq(page) /\ \A i, j \in DOMAIN items : items[i] = items[j] => i = j
  BY <1>4, <1>5, <1>6, AscendingIs
<1>8. /\ items \in Seq(Nat)
      /\ \A i \in DOMAIN items : items[i] \in DOMAIN sv.log /\ sv.log[items[i]].conv = c
  <2>1. \A i \in DOMAIN items : items[i] \in page
    BY <1>7
  <2>2. items \in Seq(Nat)
    <3>1. DOMAIN items = 1..Len(items) /\ Len(items) \in Nat /\ items = [i \in 1..Len(items) |-> items[i]]
      BY <1>7
    <3>2. \A i \in 1..Len(items) : items[i] \in Nat
      BY <1>4, <2>1, <3>1
    <3>3. items \in [1..Len(items) -> Nat]
      BY <3>1, <3>2
    <3> QED
      BY <3>1, <3>3
  <2> QED
    BY <1>3, <1>4, <2>1, <2>2
<1>9. PICK next : next = IF page = all THEN 0 ELSE CHOOSE i \in page : \A j \in page : i <= j
  OBVIOUS
<1>10. next \in 0..Len(sv.log)
  <2>1. CASE page = all
    BY <1>3, <1>9, <2>1
  <2>2. CASE page # all
    <3>1. page # {}
      <4>1. PICK m \in all : \A i \in all : i <= m
        BY <1>3, <1>4, <2>2, GreatestIs
      <4>2. {j \in all : j > m} = {}
        <5>1. \A j \in all : j \in Nat /\ m \in Nat /\ j <= m
          BY <1>3, <4>1
        <5>2. \A j \in all : ~(j > m)
          BY <5>1
        <5> QED
          BY <5>2
      <4>3. Cardinality({j \in all : j > m}) = 0
        BY <4>2, FS_EmptySet
      <4>4. 0 < PageSize
        BY ChatAssumption
      <4> QED
        BY <1>2, <4>1, <4>3, <4>4 DEF Newest
    <3>2. \E i \in page : \A j \in page : i <= j
      BY <1>4, <3>1, LeastIs
    <3>3. next \in page
      BY <1>9, <2>2, <3>2
    <3> QED
      BY <1>3, <1>4, <3>3
  <2> QED
    BY <2>1, <2>2
<1>11. MessagePage(sv, c, cursor) = [items |-> items, next |-> next]
  BY <1>1, <1>2, <1>6, <1>9 DEF MessagePage
<1> QED
  BY <1>7, <1>8, <1>10, <1>11 DEF PageOK

LEMMA SummariesAre ==
    ASSUME NEW sv, ServerOK(sv)
    PROVE  /\ Summaries(sv) \in Seq(Entries)
           /\ \A i \in DOMAIN Summaries(sv) : Summaries(sv)[i].conv \in Convs(sv)
<1>1. PICK k \in Nat : Convs(sv) = 1..k
  BY DEF ServerOK
<1>2. Cardinality(Convs(sv)) = k
  <2>1. PICK a \in Int, b \in Int : a = 1 /\ b = k
    BY <1>1
  <2>2. Cardinality(a..b) = IF a > b THEN 0 ELSE b - a + 1
    BY FS_Interval
  <2> QED
    BY <1>1, <2>1, <2>2
<1>3. PICK list : list = Summaries(sv)
  OBVIOUS
<1>4. DOMAIN list = 1..k /\ list = [i \in 1..k |-> list[i]]
  BY <1>2, <1>3 DEF Summaries
<1>5. ASSUME NEW i \in 1..k PROVE list[i] \in Entries /\ list[i].conv = i
  <2>1. PICK b \in BOOLEAN : b = Unread(sv, i)
    BY DEF Unread
  <2>2. list[i] = [conv |-> i, unread |-> b]
    BY <1>2, <1>3, <2>1 DEF Summaries
  <2> QED
    BY <1>1, <2>2 DEF Entries
<1>6. list \in [1..k -> Entries]
  BY <1>4, <1>5
<1> QED
  BY <1>1, <1>3, <1>4, <1>5, <1>6

\* Another request is under way in place of one, or none.
LEMMA RequestReplaced ==
    ASSUME NEW w, NEW sv, Fine(w, sv), NEW r \in w.requests, NEW q \in Reqs, RequestOK(q, sv),
           q.what = r.what, q.arg = r.arg, r.stage = "sent" \/ q.stage = "failed"
    PROVE  Fine([w EXCEPT !.requests = (@ \ {r}) \cup {q}], sv)
<1>1. w \in Worlds /\ w.requests \in SUBSET Reqs /\ IsFiniteSet(w.requests) /\ Dark(w)
  BY ShapeParts DEF Fine, Sound
<1>2. PICK v : v = [w EXCEPT !.requests = (@ \ {r}) \cup {q}]
  OBVIOUS
<1>3. /\ v \in Worlds /\ v.app = w.app /\ v.loader = w.loader /\ v.sockets = w.sockets
      /\ v.requests = (w.requests \ {r}) \cup {q}
  BY <1>1, <1>2 DEF Worlds
<1>4. IsFiniteSet(v.requests)
  <2>1. PICK R : R = w.requests \ {r}
    OBVIOUS
  <2>2. IsFiniteSet(R)
    BY <1>1, <2>1, FS_RemoveElement
  <2> QED
    BY <1>3, <2>1, <2>2, FS_AddElement
<1>5. Dark(v)
  BY <1>1, <1>3 DEF Dark
<1>6. Sound(v, sv)
  BY <1>3, <1>4, <1>5 DEF Fine, Sound, Shape, Counted, Once
<1>7. Covers(v.app, v.requests)
  BY <1>3 DEF Fine, Covers
<1> QED
  BY <1>2, <1>6, <1>7 DEF Fine

LEMMA RequestGone ==
    ASSUME NEW w, NEW sv, Fine(w, sv), NEW r \in w.requests,
           r.what \notin {"list", "create", "created", "send"}
    PROVE  Fine([w EXCEPT !.requests = (@ \ {r}) \cup {}], sv)
<1>1. w \in Worlds /\ w.requests \in SUBSET Reqs /\ IsFiniteSet(w.requests) /\ Dark(w)
  BY ShapeParts DEF Fine, Sound
<1>2. PICK v : v = [w EXCEPT !.requests = (@ \ {r}) \cup {}]
  OBVIOUS
<1>3. /\ v \in Worlds /\ v.app = w.app /\ v.loader = w.loader /\ v.sockets = w.sockets
      /\ v.requests = w.requests \ {r}
  BY <1>1, <1>2 DEF Worlds
<1>4. IsFiniteSet(v.requests)
  BY <1>1, <1>3, FS_RemoveElement
<1>5. Dark(v)
  BY <1>1, <1>3 DEF Dark
<1>6. Sound(v, sv)
  BY <1>3, <1>4, <1>5 DEF Fine, Sound, Shape, Counted, Once
<1>7. Covers(v.app, v.requests)
  BY <1>3 DEF Fine, Covers
<1> QED
  BY <1>2, <1>6, <1>7 DEF Fine

\* What a step of the backend leaves: it stores what there was, and tells no more
\* than it has stored.
ServerStep(sv, socks) ==
    /\ ServerOK(sv) /\ Extends(sv, server)
    /\ socks \in Seq(Socks) /\ DOMAIN socks = DOMAIN sockets
    /\ \A s \in DOMAIN socks : \A i \in DOMAIN socks[s].wire : FrameOK(socks[s].wire[i], sv)

LEMMA ServerFine ==
    ASSUME ChatInv, NEW sv, NEW socks, ServerStep(sv, socks)
    PROVE  Fine([World EXCEPT !.sockets = socks], sv)
<1>1. ServerOK(server) /\ Fine(World, server)
  BY DEF ChatInv
<1>2. Fine(World, sv)
  BY <1>1, FineExtends DEF ServerStep
<1>3. World.sockets = sockets /\ sockets \in Seq(Socks)
  BY <1>1, WorldIs, ShapeParts DEF Fine, Sound
<1>4. socks = << >> => World.sockets = << >>
  <2>1. DOMAIN << >> = {}
    OBVIOUS
  <2> QED
    BY <1>3, <2>1 DEF ServerStep
<1> QED
  BY <1>2, <1>4, SocketsKeep DEF ServerStep

\* Nothing is stored and nothing is told.
LEMMA SameStep ==
    ASSUME ChatInv, NEW sv, ServerOK(sv), sv.log = server.log
    PROVE  ServerStep(sv, sockets)
<1>1. ServerOK(server) /\ Fine(World, server)
  BY DEF ChatInv
<1>2. World.sockets = sockets /\ sockets \in Seq(Socks)
  BY <1>1, WorldIs, ShapeParts DEF Fine, Sound
<1>3. Extends(sv, server) /\ Convs(sv) = Convs(server)
  BY <1>1, ConvsAre DEF Extends, Convs
<1>4. \A s \in DOMAIN sockets : \A i \in DOMAIN sockets[s].wire : FrameOK(sockets[s].wire[i], server)
  BY <1>1, <1>2 DEF Fine, Sound, Shape
<1> QED
  BY <1>2, <1>3, <1>4 DEF ServerStep, FrameOK

LEMMA ToldStep ==
    ASSUME ChatInv, NEW sv, ServerOK(sv), Extends(sv, server), NEW c, NEW frame \in Frames,
           FrameOK(frame, sv)
    PROVE  ServerStep(sv, Tell(sockets, c, frame))
<1>1. ServerOK(server) /\ Fine(World, server)
  BY DEF ChatInv
<1>2. World.sockets = sockets /\ sockets \in Seq(Socks)
  BY <1>1, WorldIs, ShapeParts DEF Fine, Sound
<1>3. \A s \in DOMAIN sockets : \A i \in DOMAIN sockets[s].wire : FrameOK(sockets[s].wire[i], server)
  BY <1>1, <1>2 DEF Fine, Sound, Shape
<1>4. \A s \in DOMAIN sockets : \A i \in DOMAIN sockets[s].wire : FrameOK(sockets[s].wire[i], sv)
  BY <1>3 DEF FrameOK, Extends
<1>5. PICK socks : socks = Tell(sockets, c, frame)
  OBVIOUS
<1>6. /\ socks \in Seq(Socks) /\ DOMAIN socks = DOMAIN sockets
      /\ \A s \in DOMAIN sockets : \A i \in DOMAIN socks[s].wire : FrameOK(socks[s].wire[i], sv)
  BY <1>2, <1>4, <1>5, TellIs
<1> QED
  BY <1>5, <1>6 DEF ServerStep

LEMMA FramesAre ==
    /\ Frame \in Frames /\ Frame.what = "ended"
    /\ \A op \in Ops : LET f == [Frame EXCEPT !.what = "op", !.op = op]
                       IN  f \in Frames /\ f.what = "op" /\ f.op = op
BY DEF Frame, Frames, Calls

LEMMA StoreStep ==
    ASSUME ChatInv, NEW c \in 1..(Cardinality(Convs(server)) + 1), NEW dir \in {"in", "out"},
           Store(c, dir)
    PROVE  ServerStep(server', sockets')
<1>1. ServerOK(server) /\ Len(server.log) \in Nat
  BY ConvsAre DEF ChatInv
<1>2. /\ ServerOK(server') /\ Extends(server', server)
      /\ Len(server.log) + 1 \in DOMAIN server'.log
      /\ server'.log[Len(server.log) + 1].conv = c /\ c \in Convs(server')
  BY <1>1, StoreIs
<1>3. c \in Nat
  BY <1>2, ConvsAre
<1>4. PICK id \in Nat : id = Len(server.log) + 1
  BY <1>1
<1>5. PICK f : f = [Frame EXCEPT !.what = "message", !.conv = c, !.id = id, !.dir = dir]
  OBVIOUS
<1>6. f \in Frames /\ f.what = "message" /\ f.conv = c /\ f.id = id
  BY <1>3, <1>5 DEF Frame, Frames, Calls
<1>7. FrameOK(f, server')
  BY <1>2, <1>4, <1>6 DEF FrameOK
<1>8. sockets' = Tell(sockets, c, f)
  BY <1>4, <1>5 DEF Store
<1>9. PICK sv : sv = server'
  OBVIOUS
<1>10. ServerStep(sv, Tell(sockets, c, f))
  BY <1>2, <1>6, <1>7, <1>9, ToldStep
<1> QED
  BY <1>8, <1>9, <1>10

LEMMA ResumeStep ==
    ASSUME ChatInv, Resume
    PROVE  ServerStep(server', sockets')
<1>1. ServerOK(server)
  BY DEF ChatInv
<1>2. PICK sv : sv = [server EXCEPT !.waits.op = None]
  OBVIOUS
<1>3. server' = sv
  BY <1>2 DEF Resume
<1>4. sv \in Servers /\ sv.log = server.log
  BY <1>1, <1>2 DEF ServerOK, Servers, Calls
<1>5. ServerOK(sv) /\ Extends(sv, server)
  BY <1>1, <1>4, ConvsAre DEF ServerOK, Extends, Convs
<1>6. PICK c, f : c = server.waits.conv /\ f = Frame
  OBVIOUS
<1>7. f \in Frames /\ FrameOK(f, sv)
  BY <1>6, FramesAre DEF FrameOK
<1>8. ServerStep(sv, Tell(sockets, c, f))
  BY <1>5, <1>7, ToldStep
<1> QED
  BY <1>3, <1>6, <1>8 DEF Resume

\* A step of the backend that is none of a request.
LEMMA BackendStep ==
    ASSUME ChatInv, ServerStep(server', sockets'), UNCHANGED <<app, requests, loader, ran>>,
           events' \in Nat
    PROVE  ChatInv'
<1>1. Fine(World, server)
  BY DEF ChatInv
<1>2. PICK sv, socks : sv = server' /\ socks = sockets'
  OBVIOUS
<1>3. PICK w : w = [World EXCEPT !.sockets = socks]
  OBVIOUS
<1>4. Fine(w, sv)
  BY <1>2, <1>3, ServerFine
<1>5. World' = w
  BY <1>2, <1>3 DEF World
<1> QED
  BY <1>2, <1>4, <1>5 DEF ChatInv, ServerStep

LEMMA BackendIs ==
    ASSUME ChatInv, Reply \/ Park \/ Sweep
    PROVE  /\ ServerStep(server', sockets') /\ UNCHANGED <<app, requests, loader, ran>>
           /\ events' \in Nat /\ events <= events'
<1>1. ServerOK(server) /\ events \in Nat
  BY DEF ChatInv
<1>2. CASE Reply
  <2>1. PICK c, dir : c \in Convs(server) /\ dir = "out" /\ Store(c, dir)
    BY <1>2 DEF Reply
  <2>2. c \in 1..(Cardinality(Convs(server)) + 1)
    <3>1. PICK k \in Nat : Convs(server) = 1..k
      BY <1>1 DEF ServerOK
    <3>2. Cardinality(Convs(server)) = k
      <4>1. PICK a \in Int, b \in Int : a = 1 /\ b = k
        BY <3>1
      <4>2. Cardinality(a..b) = IF a > b THEN 0 ELSE b - a + 1
        BY FS_Interval
      <4> QED
        BY <3>1, <4>1, <4>2
    <3> QED
      BY <2>1, <3>1, <3>2
  <2>3. ServerStep(server', sockets')
    BY <2>1, <2>2, StoreStep
  <2> QED
    BY <1>1, <1>2, <2>3 DEF Reply, Event
<1>3. CASE Park
  <2>1. PICK c \in Convs(server), op \in Ops :
          /\ server' = [server EXCEPT !.parked = @ \cup {op}, !.waits = [conv |-> c, op |-> op]]
          /\ sockets' = Tell(sockets, c, [Frame EXCEPT !.what = "op", !.op = op])
    BY <1>3 DEF Park
  <2>2. c \in Nat
    BY <1>1, ConvsAre
  <2>3. PICK waits : waits = [conv |-> c, op |-> op]
    OBVIOUS
  <2>4. PICK sv : sv = [server EXCEPT !.parked = @ \cup {op}, !.waits = waits]
    OBVIOUS
  <2>5. sv \in Servers /\ sv.log = server.log
    BY <1>1, <2>2, <2>3, <2>4 DEF ServerOK, Servers, Calls
  <2>6. ServerOK(sv) /\ Extends(sv, server)
    BY <1>1, <2>5, ConvsAre DEF ServerOK, Extends, Convs
  <2>7. PICK f : f = [Frame EXCEPT !.what = "op", !.op = op]
    OBVIOUS
  <2>8. f \in Frames /\ FrameOK(f, sv)
    BY <2>7, FramesAre DEF FrameOK
  <2>9. ServerStep(sv, Tell(sockets, c, f))
    BY <2>6, <2>8, ToldStep
  <2>10. ServerStep(server', sockets')
    BY <2>1, <2>3, <2>4, <2>7, <2>9
  <2>11. Event /\ UNCHANGED <<app, requests, loader, ran>>
    BY <1>3 DEF Park
  <2>12. events' \in Nat /\ events <= events'
    BY <1>1, <2>11 DEF Event
  <2> QED
    BY <2>10, <2>11, <2>12
<1>4. CASE Sweep
  <2>1. ServerStep(server', sockets')
    BY <1>4, ResumeStep DEF Sweep
  <2> QED
    BY <1>1, <1>4, <2>1 DEF Sweep
<1> QED
  BY <1>2, <1>3, <1>4

LEMMA BackendSteps ==
    ASSUME ChatInv, Reply \/ Park \/ Sweep
    PROVE  ChatInv'
BY BackendIs, BackendStep

LEMMA DoesStep ==
    ASSUME ChatInv, NEW r \in requests, Does(r)
    PROVE  ServerStep(server', sockets')
<1>1. ServerOK(server) /\ Fine(World, server) /\ Len(server.log) \in Nat
  BY ConvsAre DEF ChatInv
<1>2. r \in Reqs /\ RequestOK(r, server)
  BY <1>1, WorldIs, ShapeParts DEF Fine, Sound, Shape
<1>3. PICK k \in Nat : Convs(server) = 1..k
  BY <1>1 DEF ServerOK
<1>4. Cardinality(Convs(server)) = k
  <2>1. PICK a \in Int, b \in Int : a = 1 /\ b = k
    BY <1>3
  <2>2. Cardinality(a..b) = IF a > b THEN 0 ELSE b - a + 1
    BY FS_Interval
  <2> QED
    BY <1>3, <2>1, <2>2
<1>5. PICK dir : dir = "in"
  OBVIOUS
<1>6. CASE r.what = "create"
  <2>1. PICK c : c = Cardinality(Convs(server)) + 1
    OBVIOUS
  <2>2. Store(c, dir) /\ c \in 1..(Cardinality(Convs(server)) + 1)
    BY <1>4, <1>5, <1>6, <2>1 DEF Does
  <2> QED
    BY <1>5, <2>2, StoreStep
<1>7. CASE r.what = "send"
  <2>1. PICK c : c = r.conv
    OBVIOUS
  <2>2. Store(c, dir) /\ c \in 1..(Cardinality(Convs(server)) + 1)
    BY <1>2, <1>3, <1>4, <1>5, <1>7, <2>1 DEF Does, RequestOK, OfConv
  <2> QED
    BY <1>5, <2>2, StoreStep
<1>8. CASE r.what = "read"
  <2>1. PICK sv : sv = [server EXCEPT !.read[r.conv] = Len(server.log)]
    OBVIOUS
  <2>2. sv \in Servers /\ sv.log = server.log
    <3>1. server \in Servers /\ server.read \in [1..(Len(Start) + NumEvents) -> Nat]
      BY <1>1 DEF ServerOK, Servers
    <3>2. PICK read : read = [server.read EXCEPT ![r.conv] = Len(server.log)]
      OBVIOUS
    <3>3. read \in [1..(Len(Start) + NumEvents) -> Nat]
      BY <1>1, <3>1, <3>2
    <3>4. sv = [server EXCEPT !.read = read]
      BY <2>1, <3>2
    <3> QED
      BY <3>1, <3>3, <3>4 DEF Servers
  <2>3. ServerOK(sv)
    BY <1>1, <2>2 DEF ServerOK, Convs
  <2>4. server' = sv /\ sockets' = sockets
    BY <1>8, <2>1 DEF Does
  <2> QED
    BY <2>2, <2>3, <2>4, SameStep
<1>9. CASE r.what = "result" /\ server.waits = [conv |-> r.conv, op |-> r.op]
  <2>1. Resume
    BY <1>9 DEF Does
  <2> QED
    BY <2>1, ResumeStep
<1>10. CASE \/ r.what \notin {"create", "send", "read", "result"}
            \/ r.what = "result" /\ server.waits # [conv |-> r.conv, op |-> r.op]
  <2>1. server' = server /\ sockets' = sockets
    BY <1>10 DEF Does
  <2> QED
    BY <1>1, <2>1, SameStep
<1> QED
  BY <1>6, <1>7, <1>8, <1>9, <1>10

LEMMA PayloadIs ==
    ASSUME ChatInv, NEW r \in requests, Does(r), r.what # "result"
    PROVE  /\ Payload(r) \in Gots /\ GotOK(Payload(r), server')
           /\ r.what = "create" => Payload(r).id \in Convs(server')
           /\ r.what = "send" => Payload(r).id \in DOMAIN server'.log
<1>1. ServerOK(server) /\ Fine(World, server) /\ Len(server.log) \in Nat
  BY ConvsAre DEF ChatInv
<1>2. r \in Reqs /\ RequestOK(r, server)
  BY <1>1, WorldIs, ShapeParts DEF Fine, Sound, Shape
<1>3. PICK k \in Nat : Convs(server) = 1..k
  BY <1>1 DEF ServerOK
<1>4. Cardinality(Convs(server)) = k
  <2>1. PICK a \in Int, b \in Int : a = 1 /\ b = k
    BY <1>3
  <2>2. Cardinality(a..b) = IF a > b THEN 0 ELSE b - a + 1
    BY FS_Interval
  <2> QED
    BY <1>3, <2>1, <2>2
<1>5. Extends(server', server) /\ ServerOK(server') /\ Len(server'.log) \in Nat
  BY DoesStep, ConvsAre DEF ServerStep
<1>6. /\ << >> \in Seq(Entries) /\ << >> \in Seq(Nat) /\ None \in Calls
      /\ Nothing = [list |-> << >>, items |-> << >>, next |-> 0, id |-> 0, op |-> None]
  BY DEF Calls, Nothing
<1>7. CASE r.what \in {"boot", "convs", "opened"}
  <2>1. PICK list : list = Summaries(server)
    OBVIOUS
  <2>2. list \in Seq(Entries) /\ \A i \in DOMAIN list : list[i].conv \in Convs(server')
    BY <1>1, <1>5, <2>1, SummariesAre DEF Extends
  <2>3. Payload(r) = [list |-> list, items |-> << >>, next |-> 0, id |-> 0, op |-> None]
    BY <1>6, <1>7, <2>1 DEF Payload
  <2> QED
    BY <1>5, <1>6, <1>7, <2>2, <2>3 DEF Gots, GotOK
<1>8. CASE r.what \in {"list", "created", "older"}
  <2>1. PICK page : page = MessagePage(server, r.conv, IF r.what = "older" THEN r.arg ELSE 0)
    OBVIOUS
  <2>2. PageOK(page, server)
    BY <1>1, <2>1, MessagePageIs
  <2>3. Payload(r) = [list |-> << >>, items |-> page.items, next |-> page.next, id |-> 0, op |-> None]
    BY <1>6, <1>8, <2>1 DEF Payload
  <2>4. page.next \in 0..Len(server'.log) /\ page.next \in Nat
    BY <1>1, <1>5, <2>2 DEF PageOK, Extends
  <2> QED
    BY <1>5, <1>6, <1>8, <2>2, <2>3, <2>4 DEF Gots, GotOK, PageOK, Extends
<1>9. CASE r.what \in {"create", "send", "pending", "read"}
  <2>1. PICK id, op : /\ Payload(r) = [list |-> << >>, items |-> << >>, next |-> 0, id |-> id, op |-> op]
                      /\ r.what = "create" => id = k + 1
                      /\ r.what = "send" => id = Len(server.log) + 1
                      /\ r.what \in {"pending", "read"} => id = 0
                      /\ op \in {None, server.waits.op}
    BY <1>4, <1>6, <1>9 DEF Payload
  <2>2. op \in Calls /\ id \in Nat
    BY <1>1, <1>6, <1>9, <2>1 DEF ServerOK, Servers
  <2>3. Payload(r) \in Gots /\ GotOK(Payload(r), server')
    BY <1>5, <1>6, <2>1, <2>2 DEF Gots, GotOK
  <2>4. CASE r.what = "create"
    <3>1. PICK c \in 1..(Cardinality(Convs(server)) + 1), dir \in {"in", "out"} :
             c = k + 1 /\ Store(c, dir)
      BY <1>4, <2>4 DEF Does
    <3>2. k + 1 \in Convs(server')
      BY <1>1, <3>1, StoreIs
    <3> QED
      BY <2>1, <2>3, <2>4, <3>2
  <2>5. CASE r.what = "send"
    <3>1. r.conv \in Convs(server)
      BY <1>2, <2>5 DEF RequestOK, OfConv
    <3>2. PICK c \in 1..(Cardinality(Convs(server)) + 1), dir \in {"in", "out"} : Store(c, dir)
      BY <1>3, <1>4, <2>5, <3>1 DEF Does
    <3>3. Len(server.log) + 1 \in DOMAIN server'.log
      BY <1>1, <3>2, StoreIs
    <3> QED
      BY <2>1, <2>3, <2>5, <3>3
  <2>6. CASE r.what \in {"pending", "read"}
    BY <2>3, <2>6
  <2> QED
    BY <1>9, <2>4, <2>5, <2>6
<1> QED
  BY <1>2, <1>7, <1>8, <1>9 DEF Reqs, Whats

LEMMA ServeStep ==
    ASSUME ChatInv, Serve
    PROVE  ChatInv'
<1>1. ServerOK(server) /\ Fine(World, server) /\ World \in Worlds /\ events \in Nat
  BY WorldIs DEF ChatInv
<1>2. PICK r \in requests :
        /\ r.stage = "sent" /\ Does(r)
        /\ requests' = (requests \ {r}) \cup
              IF r.what = "result" THEN {}
              ELSE {[r EXCEPT !.stage = "served", !.got = Payload(r)]}
        /\ UNCHANGED <<app, loader, ran, events>>
  BY DEF Serve
<1>3. /\ r \in Reqs /\ RequestOK(r, server)
  BY <1>1, WorldIs, ShapeParts DEF Fine, Sound, Shape
<1>4. PICK sv, socks : sv = server' /\ socks = sockets'
  OBVIOUS
<1>5. ServerStep(sv, socks)
  BY <1>2, <1>4, DoesStep
<1>6. PICK w : w = [World EXCEPT !.sockets = socks]
  OBVIOUS
<1>7. Fine(w, sv) /\ w \in Worlds
  BY <1>5, <1>6, ServerFine, ShapeParts DEF Fine, Sound
<1>8. /\ w.app = app /\ w.requests = requests /\ w.loader = loader /\ w.sockets = socks
      /\ w.ran = ran
  BY <1>1, <1>6, WorldIs DEF Worlds
<1>9. PICK v : v = [w EXCEPT !.requests = requests']
  OBVIOUS
<1>10. Fine(v, sv)
  <2>1. CASE r.what = "result"
    <3>1. v = [w EXCEPT !.requests = (@ \ {r}) \cup {}]
      BY <1>2, <1>8, <1>9, <2>1
    <3>2. r \in w.requests
      BY <1>8
    <3> QED
      BY <1>7, <2>1, <3>1, <3>2, RequestGone
  <2>2. CASE r.what # "result"
    <3>1. PICK got : got = Payload(r)
      OBVIOUS
    <3>2. /\ got \in Gots /\ GotOK(got, sv)
          /\ r.what = "create" => got.id \in Convs(sv)
          /\ r.what = "send" => got.id \in DOMAIN sv.log
      BY <1>2, <1>4, <2>2, <3>1, PayloadIs
    <3>3. PICK q : q = [r EXCEPT !.stage = "served", !.got = got]
      OBVIOUS
    <3>4. /\ q \in Reqs /\ q.what = r.what /\ q.arg = r.arg /\ q.conv = r.conv
          /\ q.stage = "served" /\ q.got = got
      BY <1>3, <3>2, <3>3 DEF Reqs
    <3>5. RequestOK(q, sv)
      BY <1>3, <1>5, <2>2, <3>2, <3>4 DEF RequestOK, ServerStep, Extends
    <3>6. v = [w EXCEPT !.requests = (@ \ {r}) \cup {q}] /\ r \in w.requests
      BY <1>2, <1>8, <1>9, <2>2, <3>1, <3>3
    <3> QED
      BY <1>2, <1>7, <3>4, <3>5, <3>6, RequestReplaced
  <2> QED
    BY <2>1, <2>2
<1>11. World' = v
  <2>1. v = [app |-> app, requests |-> requests', loader |-> loader, sockets |-> sockets',
             ran |-> ran]
    BY <1>4, <1>7, <1>8, <1>9 DEF Worlds
  <2> QED
    BY <1>2, <2>1 DEF World
<1> QED
  BY <1>1, <1>2, <1>4, <1>5, <1>10, <1>11 DEF ChatInv, ServerStep

LEMMA FailStep ==
    ASSUME ChatInv, Fail
    PROVE  ChatInv'
<1>1. ServerOK(server) /\ Fine(World, server) /\ World \in Worlds /\ events \in Nat
  BY WorldIs DEF ChatInv
<1>2. PICK r \in requests :
        /\ r.stage # "failed" /\ Event
        /\ requests' = (requests \ {r}) \cup
              IF r.what = "result" THEN {}
              ELSE {[r EXCEPT !.stage = "failed", !.got = Nothing]}
        /\ UNCHANGED <<app, loader, sockets, server, ran>>
  BY DEF Fail
<1>3. events' \in Nat
  BY <1>1, <1>2 DEF Event
<1>4. /\ r \in Reqs /\ RequestOK(r, server) /\ Len(server.log) \in Nat
  BY <1>1, WorldIs, ShapeParts, ConvsAre DEF Fine, Sound, Shape
<1>5. PICK w : w = World
  OBVIOUS
<1>6. /\ w \in Worlds /\ w.app = app /\ w.requests = requests /\ w.loader = loader
      /\ w.sockets = sockets /\ w.ran = ran /\ Fine(w, server)
  BY <1>1, <1>5, WorldIs
<1>7. PICK v : v = [w EXCEPT !.requests = requests']
  OBVIOUS
<1>8. Fine(v, server)
  <2>1. CASE r.what = "result"
    <3>1. v = [w EXCEPT !.requests = (@ \ {r}) \cup {}] /\ r \in w.requests
      BY <1>2, <1>6, <1>7, <2>1
    <3> QED
      BY <1>6, <2>1, <3>1, RequestGone
  <2>2. CASE r.what # "result"
    <3>1. PICK got : got = Nothing
      OBVIOUS
    <3>2. got \in Gots /\ GotOK(got, server)
      <4>1. << >> \in Seq(Entries) /\ << >> \in Seq(Nat) /\ None \in Calls
        BY DEF Calls
      <4> QED
        BY <1>4, <3>1, <4>1 DEF Nothing, Gots, GotOK
    <3>3. PICK q : q = [r EXCEPT !.stage = "failed", !.got = got]
      OBVIOUS
    <3>4. /\ q \in Reqs /\ q.what = r.what /\ q.arg = r.arg /\ q.conv = r.conv
          /\ q.stage = "failed" /\ q.got = got
      BY <1>4, <3>2, <3>3 DEF Reqs
    <3>5. RequestOK(q, server)
      BY <1>4, <2>2, <3>2, <3>4 DEF RequestOK
    <3>6. v = [w EXCEPT !.requests = (@ \ {r}) \cup {q}] /\ r \in w.requests
      BY <1>2, <1>6, <1>7, <2>2, <3>1, <3>3
    <3> QED
      BY <1>6, <3>4, <3>5, <3>6, RequestReplaced
  <2> QED
    BY <2>1, <2>2
<1>9. World' = v
  <2>1. v = [app |-> app, requests |-> requests', loader |-> loader, sockets |-> sockets,
             ran |-> ran]
    BY <1>6, <1>7 DEF Worlds
  <2> QED
    BY <1>2, <2>1 DEF World
<1> QED
  BY <1>1, <1>2, <1>8, <1>9, <1>3 DEF ChatInv

----------------------------------------------------------------------------
(* The theorems.                                                           *)

LEMMA InitIs == Init => ChatInv
<1> SUFFICES ASSUME Init PROVE ChatInv
  OBVIOUS
<1>1. Start \in Seq({"in", "out"}) /\ NumEvents \in Nat
  BY ChatAssumption
<1>2. /\ DOMAIN Start = 1..Len(Start) /\ Len(Start) \in Nat
      /\ \A i \in DOMAIN Start : Start[i] \in {"in", "out"}
  BY <1>1
<1>3. /\ server.log = [i \in DOMAIN Start |-> [conv |-> i, dir |-> Start[i]]]
      /\ server = [log |-> server.log, read |-> [c \in 1..(Len(Start) + NumEvents) |-> 0],
                   parked |-> {}, waits |-> [conv |-> 1, op |-> None]]
  BY DEF Init
<1>4. PICK A : A = [conv : Nat, dir : {"in", "out"}]
  OBVIOUS
<1>5. ASSUME NEW i \in DOMAIN Start PROVE server.log[i] \in A /\ server.log[i].conv = i
  BY <1>2, <1>3, <1>4
<1>6. DOMAIN server.log = 1..Len(Start) /\ server.log = [i \in 1..Len(Start) |-> server.log[i]]
  BY <1>2, <1>3
<1>7. server.log \in Seq(A)
  <2>1. server.log \in [1..Len(Start) -> A]
    BY <1>2, <1>5, <1>6
  <2> QED
    BY <1>2, <2>1
<1>8. server \in Servers
  <2>1. [c \in 1..(Len(Start) + NumEvents) |-> 0] \in [1..(Len(Start) + NumEvents) -> Nat]
    OBVIOUS
  <2>2. [conv |-> 1, op |-> None] \in [conv : Nat, op : Calls]
    BY DEF Calls
  <2> QED
    BY <1>3, <1>4, <1>7, <2>1, <2>2 DEF Servers
<1>9. Convs(server) = 1..Len(Start)
  BY <1>2, <1>5, <1>6 DEF Convs
<1>10. ServerOK(server)
  BY <1>2, <1>8, <1>9 DEF ServerOK
<1>11. PICK times \in [Ops -> Nat] : ran = times
  BY DEF Init
<1>12. World = [app |-> FreshApp, requests |-> {FirstBoot}, loader |-> FreshLoader,
                sockets |-> << >>, ran |-> times]
  BY <1>11 DEF Init, World
<1>13. Fine(World, server)
  BY <1>10, <1>12, FreshIs
<1>14. events \in Nat
  BY DEF Init
<1> QED
  BY <1>10, <1>13, <1>14 DEF ChatInv

LEMMA NextIs == ChatInv /\ [Next]_vars => ChatInv'
<1> SUFFICES ASSUME ChatInv, [Next]_vars PROVE ChatInv'
  OBVIOUS
<1>1. CASE PanelOpens \/ PanelCloses \/ TryAgain \/ GoHome \/ Opens \/ StartsNew
  BY <1>1, VisitorSteps
<1>2. CASE Sends \/ Retries \/ LoadsOlder \/ Decides \/ LoaderAnswers
  BY <1>2, ThreadSteps
<1>3. CASE Answer
  BY <1>3, AnswerStep
<1>4. CASE Serve
  BY <1>4, ServeStep
<1>5. CASE Fail
  BY <1>5, FailStep
<1>6. CASE \E s \in 1..(NumEvents + 1) : Deliver(s) \/ Connect(s) \/ Join(s) \/ Drop(s)
  BY <1>6, DeliverStep, LinkSteps
<1>7. CASE Reply \/ Park \/ Sweep
  BY <1>7, BackendSteps
<1>8. CASE TimerFires \/ Reload
  BY <1>8, PageSteps
<1>9. CASE UNCHANGED vars
  <2>1. World' = World
    BY <1>9 DEF vars, World
  <2> QED
    BY <1>9, <2>1 DEF vars, ChatInv
<1> QED
  BY <1>1, <1>2, <1>3, <1>4, <1>5, <1>6, <1>7, <1>8, <1>9 DEF Next

LEMMA AlwaysChatInv == Spec => []ChatInv
BY InitIs, NextIs, PTL DEF Spec

LEMMA ChatInvParts ==
    ASSUME ChatInv
    PROVE  /\ ServerOK(server) /\ app \in Apps /\ AppOK(app, server) /\ requests \in SUBSET Reqs
           /\ loader \in Loaders /\ loader.badge = UnreadCount(app.list)
           /\ \A op \in Ops : loader.busy[op] <= 1
           /\ Covers(app, requests)
<1>1. ServerOK(server) /\ Fine(World, server)
  BY DEF ChatInv
<1>2. /\ World.app = app /\ World.requests = requests /\ World.loader = loader
      /\ Shape(World, server)
  BY <1>1, WorldIs DEF Fine, Sound
<1> QED
  BY <1>1, <1>2, ShapeParts DEF Fine, Sound, Counted, Once

\* Whatever the socket, the pages and the loader bring, the controller refers to
\* conversations, messages and operations that there are (controller.ts).
THEOREM TypeCorrect == Spec => []TypeOK
<1>1. ChatInv => TypeOK
  <2> SUFFICES ASSUME ChatInv PROVE TypeOK
    OBVIOUS
  <2>1. /\ ServerOK(server) /\ app \in Apps /\ AppOK(app, server) /\ requests \in SUBSET Reqs
        /\ loader \in Loaders /\ loader.badge = UnreadCount(app.list)
    BY ChatInvParts
  <2>2. app.screen.name \in {"loading", "home", "thread", "error"}
    BY <2>1 DEF Apps, Screens
  <2>3. \A i \in DOMAIN app.shown : app.shown[i].kind \in {"stored", "pending", "failed"}
    <3>1. \A i \in DOMAIN app.shown : app.shown[i] \in Items
      BY <2>1 DEF Apps
    <3> QED
      BY <3>1 DEF Items
  <2>4. \A r \in requests : r.stage \in {"sent", "served", "failed"}
    BY <2>1 DEF Reqs
  <2>5. loader.badge \in 0..Len(app.list)
    <3>1. app.list \in Seq(Entries)
      BY <2>1 DEF Apps
    <3> QED
      BY <2>1, <3>1, CountIs
  <2>6. app.ops \subseteq Ops /\ app.card \in {None} \cup Ops
    BY <2>1 DEF Apps, Calls
  <2>7. server.waits.op \in {None} \cup Ops
    BY <2>1 DEF ServerOK, Servers, Calls
  <2> QED
    BY <2>1, <2>2, <2>3, <2>4, <2>5, <2>6, <2>7 DEF TypeOK, AppOK
<1> QED
  BY <1>1, AlwaysChatInv, PTL

\* The loader never works on one operation twice at once, however often it is
\* delivered: by another socket, or with the pending operation of a conversation
\* that is opened again (controller.ts, onCopilotOp).
THEOREM NotTwiceAtOnce == Spec => []OneAtATime
<1>1. ChatInv => OneAtATime
  BY ChatInvParts DEF OneAtATime
<1> QED
  BY <1>1, AlwaysChatInv, PTL

\* The launcher's badge is the number of conversations that the list flags
\* (controller.ts, pushUnread), whichever request or frame changed the list.
THEOREM BadgeIsRight == Spec => []BadgeCounts
<1>1. ChatInv => BadgeCounts
  BY ChatInvParts DEF BadgeCounts
<1> QED
  BY <1>1, AlwaysChatInv, PTL

\* Nothing that the visitor sees waiting waits for nothing: a request that is under
\* way, or a timer, ends it, also when the request fails.
THEOREM NothingWaitsForNothing == Spec => []WaitsAreCovered
<1>1. ChatInv => WaitsAreCovered
  BY ChatInvParts DEF WaitsAreCovered, Covers
<1> QED
  BY <1>1, AlwaysChatInv, PTL

----------------------------------------------------------------------------
(* What is shown of a thread.                                              *)

\* Two items are alike that are of one message, or of one text not sent yet.
Alike(x, y) == x.id = y.id /\ (x.kind = "stored" <=> y.kind = "stored")

\* A stored item is known to be shown, and of the thread on the screen; a text is
\* named by the event that it came with.
Placed(x, screen, seen, sv, e) ==
    IF x.kind = "stored"
    THEN x.id \in seen /\ (screen.name = "thread" => sv.log[x.id].conv = screen.conv)
    ELSE x.id <= e

\* The visitor's texts always are as they should be; the messages are when `ok`,
\* as long as nothing has mixed them up.
Counts(x, ok) == ok \/ x.kind # "stored"

View(shown, screen, seen, sv, e, ok) ==
    /\ \A i, j \in DOMAIN shown : Alike(shown[i], shown[j]) /\ Counts(shown[i], ok) => i = j
    /\ \A i \in DOMAIN shown : Counts(shown[i], ok) => Placed(shown[i], screen, seen, sv, e)

\* A page of the thread c has each of its messages once.
PageFits(items, c, sv) ==
    /\ \A i, j \in DOMAIN items : items[i] = items[j] => i = j
    /\ \A i \in DOMAIN items : sv.log[items[i]].conv = c

\* An answer is of the thread that was asked for.
AnswerFits(r, sv) ==
    r.stage = "served" =>
        /\ r.what \in {"list", "older", "created"} => PageFits(r.got.items, r.conv, sv)
        /\ r.what = "send" => sv.log[r.got.id].conv = r.conv

\* The answers that are under way are among those of R.
Threads(w, R, sv, e, ok) ==
    /\ View(w.app.shown, w.app.screen, w.app.seen, sv, e, ok)
    /\ \A r \in w.requests : r.stage = "served" => r \in R

ThreadInv ==
    /\ ChatInv
    /\ View(app.shown, app.screen, app.seen, server, events, FALSE)
    /\ \A r \in requests : AnswerFits(r, server)

\* The answer is not late, or what it shows does not count.
InTime(r, screen, ok) ==
    ok => /\ r.what \in {"list", "older", "created", "send"} => screen = Thread(r.conv)
          /\ r.what = "create" => screen = Thread(0)

LEMMA ViewOfNothing ==
    ASSUME NEW screen, NEW seen, NEW sv, NEW e, NEW ok
    PROVE  View(<< >>, screen, seen, sv, e, ok)
BY DEF View

\* Less is shown.
LEMMA ViewThinned ==
    ASSUME NEW s, NEW t, NEW at, NEW screen, NEW seen, NEW sv, NEW e, NEW ok,
           Thinned(s, t, at), View(t, screen, seen, sv, e, ok)
    PROVE  View(s, screen, seen, sv, e, ok)
BY DEF Thinned, View

LEMMA ViewWithout ==
    ASSUME NEW shown \in Seq(Items), NEW item, NEW screen, NEW seen, NEW sv, NEW e, NEW ok,
           View(shown, screen, seen, sv, e, ok)
    PROVE  View(Without(shown, item), screen, seen, sv, e, ok)
<1>1. PICK s : s = Without(shown, item)
  OBVIOUS
<1>2. PICK at : Thinned(s, shown, at)
  BY <1>1, WithoutIs
<1> QED
  BY <1>1, <1>2, ViewThinned

\* One item more.
LEMMA ViewAppended ==
    ASSUME NEW shown \in Seq(Items), NEW x \in Items, NEW screen, NEW seen, NEW more, NEW sv, NEW e,
           NEW f, NEW ok, View(shown, screen, seen, sv, e, ok),
           seen \subseteq more, e \in Nat, f \in Nat, e <= f,
           Counts(x, ok) => /\ Placed(x, screen, more, sv, f)
                            /\ \A i \in DOMAIN shown : ~Alike(shown[i], x)
    PROVE  View(Append(shown, x), screen, more, sv, f, ok)
<1>1. PICK s : s = Append(shown, x)
  OBVIOUS
<1>2. Len(shown) \in Nat /\ DOMAIN shown = 1..Len(shown) /\ \A i \in DOMAIN shown : shown[i] \in Items
  OBVIOUS
<1>3. /\ DOMAIN s = 1..(Len(shown) + 1) /\ s[Len(shown) + 1] = x
      /\ \A i \in DOMAIN shown : s[i] = shown[i]
  BY <1>1, <1>2
<1>4. \A i \in DOMAIN s : i \in DOMAIN shown \/ i = Len(shown) + 1
  BY <1>2, <1>3
<1>5. ASSUME NEW i \in DOMAIN s, NEW j \in DOMAIN s, Alike(s[i], s[j]), Counts(s[i], ok) PROVE i = j
  <2>1. CASE i \in DOMAIN shown /\ j \in DOMAIN shown
    BY <1>3, <1>5, <2>1 DEF View
  <2>2. CASE i \in DOMAIN shown /\ j = Len(shown) + 1
    BY <1>3, <1>5, <2>2 DEF Alike, Counts
  <2>3. CASE i = Len(shown) + 1 /\ j \in DOMAIN shown
    BY <1>3, <1>5, <2>3 DEF Alike, Counts
  <2> QED
    BY <1>4, <2>1, <2>2, <2>3
<1>6. \A i \in DOMAIN s : Counts(s[i], ok) => Placed(s[i], screen, more, sv, f)
  <2>1. ASSUME NEW i \in DOMAIN shown, Counts(shown[i], ok) PROVE Placed(shown[i], screen, more, sv, f)
    <3>1. Placed(shown[i], screen, seen, sv, e) /\ shown[i].id \in Nat
      BY <1>2, <2>1 DEF View, Items
    <3> QED
      BY <3>1 DEF Placed
  <2> QED
    BY <1>3, <1>4, <2>1
<1> QED
  BY <1>1, <1>5, <1>6 DEF View

\* A text that could not be sent is the text that was to be sent.
LEMMA ViewFailed ==
    ASSUME NEW shown \in Seq(Items), NEW n \in Nat, NEW screen, NEW seen, NEW sv, NEW e, NEW ok,
           View(shown, screen, seen, sv, e, ok)
    PROVE  View(Instead(shown, n, Failed(n)), screen, seen, sv, e, ok)
<1>1. PICK s : s = Instead(shown, n, Failed(n))
  OBVIOUS
<1>2. /\ DOMAIN s = DOMAIN shown
      /\ \A i \in DOMAIN s : s[i] = IF shown[i] = Pending(n) THEN Failed(n) ELSE shown[i]
  BY <1>1 DEF Instead
<1>3. \A i \in DOMAIN s : s[i].id = shown[i].id /\ (s[i].kind = "stored" <=> shown[i].kind = "stored")
  BY <1>2 DEF Pending, Failed
<1>4. View(s, screen, seen, sv, e, ok)
  BY <1>2, <1>3 DEF View, Alike, Placed, Counts
<1> QED
  BY <1>1, <1>4

\* A text that was stored is the message, unless that is shown already.
LEMMA ViewReplaced ==
    ASSUME NEW shown \in Seq(Items), NEW n \in Nat, NEW id \in Nat, NEW screen, NEW seen, NEW sv, NEW e,
           NEW ok, View(shown, screen, seen, sv, e, ok), id \notin seen,
           ok /\ screen.name = "thread" => sv.log[id].conv = screen.conv
    PROVE  View(Instead(shown, n, AStored(id)), screen, seen \cup {id}, sv, e, ok)
<1>1. PICK s : s = Instead(shown, n, AStored(id))
  OBVIOUS
<1>2. /\ DOMAIN s = DOMAIN shown
      /\ \A i \in DOMAIN s : s[i] = IF shown[i] = Pending(n) THEN AStored(id) ELSE shown[i]
  BY <1>1 DEF Instead
<1>3. /\ AStored(id).kind = "stored" /\ AStored(id).id = id
      /\ Pending(n).kind = "pending"
  BY DEF AStored, Pending
<1>4. \A i, j \in DOMAIN shown : shown[i] = Pending(n) /\ shown[j] = Pending(n) => i = j
  BY <1>3 DEF View, Alike, Counts
<1>5. ok => \A i \in DOMAIN shown : ~Alike(shown[i], AStored(id)) /\ ~Alike(AStored(id), shown[i])
  BY <1>3 DEF View, Alike, Placed, Counts
<1>6. ASSUME NEW i \in DOMAIN s, NEW j \in DOMAIN s, Alike(s[i], s[j]), Counts(s[i], ok) PROVE i = j
  <2>1. CASE ok
    BY <1>2, <1>4, <1>5, <1>6, <2>1 DEF View, Counts
  <2>2. CASE ~ok
    <3>1. s[i].kind # "stored" /\ s[j].kind # "stored"
      BY <1>6, <2>2 DEF Counts, Alike
    <3>2. s[i] = shown[i] /\ s[j] = shown[j]
      BY <1>2, <1>3, <3>1
    <3> QED
      BY <1>2, <1>6, <3>2 DEF View
  <2> QED
    BY <2>1, <2>2
<1>7. ASSUME NEW i \in DOMAIN s, Counts(s[i], ok) PROVE Placed(s[i], screen, seen \cup {id}, sv, e)
  <2>1. CASE shown[i] = Pending(n)
    BY <1>2, <1>3, <1>7, <2>1 DEF Placed, Counts
  <2>2. CASE shown[i] # Pending(n)
    BY <1>2, <1>7, <2>2 DEF View, Placed
  <2> QED
    BY <2>1, <2>2
<1> QED
  BY <1>1, <1>6, <1>7 DEF View

\* A page of the thread on the screen.
LEMMA ViewStored ==
    ASSUME NEW items \in Seq(Nat), NEW screen, NEW seen, NEW sv, NEW e, NEW ok,
           ok => PageFits(items, screen.conv, sv), \A i \in DOMAIN items : items[i] \in seen
    PROVE  View(Stored(items), screen, seen, sv, e, ok)
<1>1. PICK s : s = Stored(items)
  OBVIOUS
<1>2. DOMAIN s = DOMAIN items /\ \A i \in DOMAIN items : s[i].kind = "stored" /\ s[i].id = items[i]
  BY <1>1, StoredIs
<1>3. View(s, screen, seen, sv, e, ok)
  BY <1>2 DEF View, Alike, Placed, PageFits, Counts
<1> QED
  BY <1>1, <1>3

\* Messages that are not shown yet, in front of those that are.
LEMMA ViewOlder ==
    ASSUME NEW items \in Seq(Nat), NEW shown \in Seq(Items), NEW screen, NEW seen, NEW more, NEW sv, NEW e,
           NEW ok, ok => PageFits(items, screen.conv, sv), View(shown, screen, seen, sv, e, ok),
           \A i \in DOMAIN items : items[i] \notin seen /\ items[i] \in more, seen \subseteq more
    PROVE  View(Stored(items) \o shown, screen, more, sv, e, ok)
<1>1. PICK s \in Seq(Items) : s = Stored(items)
  BY StoredIs
<1>2. DOMAIN s = DOMAIN items /\ \A i \in DOMAIN s : s[i].kind = "stored" /\ s[i].id = items[i]
  BY <1>1, StoredIs
<1>3. PICK t : t = s \o shown
  OBVIOUS
<1>4. PICK n \in Nat, m \in Nat : n = Len(s) /\ m = Len(shown)
  OBVIOUS
<1>5. /\ DOMAIN s = 1..n /\ DOMAIN shown = 1..m /\ DOMAIN t = 1..(n + m)
      /\ \A i \in 1..n : t[i] = s[i]
      /\ \A i \in 1..(n + m) : i > n => i - n \in 1..m /\ t[i] = shown[i - n]
  BY <1>3, <1>4
<1>6. \A i \in DOMAIN t : \/ i \in DOMAIN s /\ t[i] = s[i]
                          \/ i \notin DOMAIN s /\ i - n \in DOMAIN shown /\ t[i] = shown[i - n]
  BY <1>5
<1>7. View(s, screen, more, sv, e, ok)
  BY <1>1, ViewStored
<1>8. \A i \in DOMAIN shown : Counts(shown[i], ok) =>
          Placed(shown[i], screen, seen, sv, e) /\ Placed(shown[i], screen, more, sv, e)
  BY DEF View, Placed
<1>9. \A i \in DOMAIN s, j \in DOMAIN shown : /\ Counts(s[i], ok) => ~Alike(s[i], shown[j])
                                              /\ Counts(shown[j], ok) => ~Alike(shown[j], s[i])
  BY <1>2, <1>8 DEF Alike, Placed, Counts
<1>10. ASSUME NEW i \in DOMAIN t, NEW j \in DOMAIN t, Alike(t[i], t[j]), Counts(t[i], ok) PROVE i = j
  <2>1. CASE i \in DOMAIN s /\ j \in DOMAIN s
    BY <1>6, <1>7, <1>10, <2>1 DEF View
  <2>2. CASE i \notin DOMAIN s /\ j \notin DOMAIN s
    <3>1. i - n = j - n
      BY <1>6, <1>10, <2>2 DEF View
    <3> QED
      BY <1>5, <3>1
  <2>3. CASE (i \in DOMAIN s) # (j \in DOMAIN s)
    BY <1>6, <1>9, <1>10, <2>3
  <2> QED
    BY <2>1, <2>2, <2>3
<1>11. \A i \in DOMAIN t : Counts(t[i], ok) => Placed(t[i], screen, more, sv, e)
  BY <1>6, <1>7, <1>8 DEF View
<1> QED
  BY <1>1, <1>3, <1>10, <1>11 DEF View

----------------------------------------------------------------------------
(* Handlers that leave the thread as it is.                                *)

Same(v, w) ==
    /\ v.app.screen = w.app.screen /\ v.app.shown = w.app.shown /\ v.app.seen = w.app.seen
    /\ \A r \in v.requests : r \in w.requests \/ r.stage # "served"

LEMMA SameTwice ==
    ASSUME NEW u, NEW v, NEW w, Same(u, v), Same(v, w)
    PROVE  Same(u, w)
BY DEF Same

\* Whatever is shown, and wherever; nothing more is answered.
LEMMA ThreadsReshown ==
    ASSUME NEW v, NEW w, NEW R, NEW sv, NEW e, NEW f, NEW ok, Threads(w, R, sv, e, ok),
           View(v.app.shown, v.app.screen, v.app.seen, sv, f, ok),
           \A r \in v.requests : r \in w.requests \/ r.stage # "served"
    PROVE  Threads(v, R, sv, f, ok)
BY DEF Threads

LEMMA ThreadsSame ==
    ASSUME NEW v, NEW w, NEW R, NEW sv, NEW e, NEW ok, Threads(w, R, sv, e, ok), Same(v, w)
    PROVE  Threads(v, R, sv, e, ok)
BY DEF Same, Threads

LEMMA AskAdds ==
    ASSUME NEW w \in Worlds, IsFiniteSet(w.requests), NEW what \in Whats, NEW c \in Nat,
           NEW arg \in Nat, NEW op \in Calls
    PROVE  Asked(AskOf(w, what, c, arg, op), w, what, c, arg)
<1>1. PICK r \in Reqs : /\ AskOf(w, what, c, arg, op) = [w EXCEPT !.requests = @ \cup {r}]
                        /\ r.what = what /\ r.conv = c /\ r.arg = arg
                        /\ r.stage \in {"sent", "failed"}
  BY AskIs
<1> QED
  BY <1>1 DEF Worlds, Asked

LEMMA AskStays ==
    ASSUME NEW w \in Worlds, IsFiniteSet(w.requests), NEW what \in Whats, NEW c \in Nat,
           NEW arg \in Nat, NEW op \in Calls
    PROVE  /\ AskOf(w, what, c, arg, op) \in Worlds
           /\ IsFiniteSet(AskOf(w, what, c, arg, op).requests)
<1>1. PICK v : v = AskOf(w, what, c, arg, op)
  OBVIOUS
<1>2. PICK r \in Reqs : v = [w EXCEPT !.requests = @ \cup {r}]
  BY <1>1, AskIs
<1>3. v \in Worlds /\ v.requests = w.requests \cup {r}
  BY <1>2 DEF Worlds
<1>4. IsFiniteSet(v.requests)
  BY <1>3, FS_AddElement
<1> QED
  BY <1>1, <1>3, <1>4

LEMMA AskSame ==
    ASSUME NEW v, NEW w, NEW what, NEW c, NEW arg, Asked(v, w, what, c, arg)
    PROVE  Same(v, w)
BY DEF Asked, Same

LEMMA SetWorkingSame ==
    ASSUME NEW w \in Worlds, NEW on \in BOOLEAN
    PROVE  LET v == SetWorking(w, on)
           IN  Same(v, w) /\ v \in Worlds /\ v.requests = w.requests /\ v.ran = w.ran
<1>1. PICK a : a = [w.app EXCEPT !.working = on, !.timer = on]
  OBVIOUS
<1>2. a \in Apps /\ a.screen = w.app.screen /\ a.shown = w.app.shown /\ a.seen = w.app.seen
  BY <1>1 DEF Worlds, Apps
<1>3. SetWorking(w, on) = [w EXCEPT !.app = a]
  BY <1>1 DEF Worlds, Apps, SetWorking
<1> QED
  BY <1>2, <1>3 DEF Worlds, Same

LEMMA ListSame ==
    ASSUME NEW w \in Worlds, NEW list
    PROVE  Same(PushUnread([w EXCEPT !.app.list = list]), w)
<1>1. PICK u : u = [w EXCEPT !.app.list = list]
  OBVIOUS
<1>2. /\ u.app.screen = w.app.screen /\ u.app.shown = w.app.shown /\ u.app.seen = w.app.seen
      /\ u.requests = w.requests /\ DOMAIN u = DOMAIN w
  BY <1>1 DEF Worlds, Apps
<1>3. PushUnread(u).app = u.app /\ PushUnread(u).requests = u.requests
  BY <1>2 DEF PushUnread, Worlds
<1> QED
  BY <1>1, <1>2, <1>3 DEF Same

LEMMA StartedSame ==
    ASSUME NEW u \in Worlds, NEW op \in Ops, NEW ops, NEW card
    PROVE  /\ Same(Post([u EXCEPT !.app.ops = ops, !.app.card = card], op), u)
           /\ Same(Post([u EXCEPT !.app.ops = ops], op), u)
BY DEF Worlds, Apps, Loaders, Post, Same

LEMMA FinishOpSame ==
    ASSUME NEW w \in Worlds, IsFiniteSet(w.requests), NEW op \in Calls
    PROVE  Same(FinishOp(w, op), w)
<1>1. PICK off, u, c : off = FALSE /\ off \in BOOLEAN /\ u = SetWorking(w, off) /\ c = ConvOnScreen(w.app)
  OBVIOUS
<1>2. Same(u, w) /\ u \in Worlds /\ u.requests = w.requests
  BY <1>1, SetWorkingSame
<1>3. c \in Nat
  BY <1>1 DEF ConvOnScreen, Worlds, Apps, Screens
<1>4. PICK v, what : what \in Whats /\ what = "result" /\ v = AskOf(u, what, c, 0, op)
  BY DEF Whats
<1>5. Asked(v, u, what, c, 0)
  BY <1>2, <1>3, <1>4, AskAdds
<1>6. Same(v, w)
  BY <1>2, <1>5, AskSame, SameTwice
<1>7. FinishOp(w, op) = IF c = 0 THEN u ELSE v
  BY <1>1, <1>4 DEF FinishOp
<1> QED
  BY <1>2, <1>6, <1>7

LEMMA OnOpSame ==
    ASSUME NEW w \in Worlds, IsFiniteSet(w.requests), NEW op \in Ops
    PROVE  Same(OnOp(w, op), w)
<1>1. op \in {"auto", "ask", "steps"} /\ op \in Calls
  BY ChatAssumption DEF Calls
<1>2. PICK on, u : on \in BOOLEAN /\ on = TRUE /\ u = SetWorking(w, on)
  OBVIOUS
<1>3. Same(u, w) /\ u \in Worlds /\ u.requests = w.requests /\ u.ran \in [Ops -> Nat]
  BY <1>2, SetWorkingSame DEF Worlds
<1>4. CASE op \in w.app.ops \/ w.app.card = op
  BY <1>4 DEF OnOp, Same
<1>5. CASE op \notin w.app.ops /\ w.app.card # op /\ op = "ask"
  BY <1>5 DEF OnOp, Same, Worlds, Apps
<1>6. CASE op \notin w.app.ops /\ w.app.card # op /\ op = "auto"
  <2>1. PICK ops : ops = u.app.ops \cup {op}
    OBVIOUS
  <2>2. OnOp(w, op) = Post([u EXCEPT !.app.ops = ops], op)
    BY <1>2, <1>6, <2>1 DEF OnOp
  <2> QED
    BY <1>3, <2>2, StartedSame, SameTwice
<1>7. CASE op \notin w.app.ops /\ w.app.card # op /\ op = "steps"
  <2>1. PICK m \in Nat : m = u.ran[op] + 1
    BY <1>3
  <2>2. PICK x : x = [u EXCEPT !.ran[op] = m]
    OBVIOUS
  <2>3. x \in Worlds /\ x.app = u.app /\ x.requests = u.requests
    BY <1>3, <2>2 DEF Worlds
  <2>4. OnOp(w, op) = FinishOp(x, op)
    BY <1>2, <1>7, <2>1, <2>2 DEF OnOp
  <2>5. Same(x, w)
    BY <1>3, <2>3 DEF Same
  <2> QED
    BY <1>1, <1>3, <2>3, <2>4, <2>5, FinishOpSame, SameTwice
<1> QED
  BY <1>1, <1>4, <1>5, <1>6, <1>7

LEMMA DecideSame ==
    ASSUME NEW w \in Worlds, IsFiniteSet(w.requests), w.app.card # None
    PROVE  Same(Confirm(w), w) /\ Same(Decline(w), w)
<1>1. PICK op \in Ops : op = w.app.card
  BY DEF Worlds, Apps, Calls
<1>2. PICK on, u : on \in BOOLEAN /\ on = TRUE /\ u = SetWorking(w, on)
  OBVIOUS
<1>3. Same(u, w) /\ u \in Worlds
  BY <1>2, SetWorkingSame
<1>4. PICK ops, card : ops = u.app.ops \cup {op} /\ card = None
  OBVIOUS
<1>5. Confirm(w) = Post([u EXCEPT !.app.ops = ops, !.app.card = card], op)
  BY <1>1, <1>2, <1>4 DEF Confirm
<1>6. card \in Calls /\ op \in Calls
  BY <1>4 DEF Calls
<1>7. PICK x : x = [w EXCEPT !.app.card = card]
  OBVIOUS
<1>8. x \in Worlds /\ x.requests = w.requests /\ Same(x, w)
  BY <1>6, <1>7 DEF Worlds, Apps, Same
<1>9. Decline(w) = FinishOp(x, op)
  BY <1>1, <1>4, <1>7 DEF Decline
<1> QED
  BY <1>3, <1>5, <1>6, <1>8, <1>9, StartedSame, FinishOpSame, SameTwice

LEMMA OnResultSame ==
    ASSUME NEW w \in Worlds, IsFiniteSet(w.requests), NEW op \in Ops, w.loader.busy[op] > 0
    PROVE  Same(OnResult([w EXCEPT !.loader.busy[op] = @ - 1], op), w)
<1>1. w.loader \in Loaders /\ w.loader.busy \in [Ops -> Nat] /\ op \in Calls
  BY DEF Worlds, Loaders, Calls
<1>2. PICK k \in Nat : k = w.loader.busy[op] - 1
  BY <1>1
<1>3. PICK l : l = [w.loader EXCEPT !.busy[op] = k]
  OBVIOUS
<1>4. l \in Loaders
  BY <1>1, <1>3 DEF Loaders
<1>5. PICK x : x = [w EXCEPT !.loader = l]
  OBVIOUS
<1>6. x \in Worlds /\ x.requests = w.requests /\ x.app = w.app /\ Same(x, w)
  BY <1>4, <1>5 DEF Worlds, Same
<1>7. x = [w EXCEPT !.loader.busy[op] = @ - 1]
  BY <1>2, <1>3, <1>5 DEF Worlds, Loaders
<1>8. PICK ops \in SUBSET Ops : ops = x.app.ops \ {op}
  BY <1>6 DEF Worlds, Apps
<1>9. PICK u : u = [x EXCEPT !.app.ops = ops]
  OBVIOUS
<1>10. u \in Worlds /\ u.requests = x.requests /\ Same(u, x)
  BY <1>6, <1>8, <1>9 DEF Worlds, Apps, Same
<1>11. OnResult(x, op) = x \/ OnResult(x, op) = FinishOp(u, op)
  BY <1>8, <1>9 DEF OnResult
<1>12. Same(FinishOp(u, op), w)
  BY <1>1, <1>6, <1>10, FinishOpSame, SameTwice
<1> QED
  BY <1>6, <1>7, <1>11, <1>12

----------------------------------------------------------------------------

(* Handlers that show another screen.                                      *)

\* What a thread showed is shown nowhere else.
LEMMA ViewElsewhere ==
    ASSUME NEW shown, NEW screen, NEW other, NEW seen, NEW sv, NEW e, NEW ok,
           View(shown, screen, seen, sv, e, ok), other.name # "thread"
    PROVE  View(shown, other, seen, sv, e, ok)
BY DEF View, Placed

LEMMA OpenConversationThreads ==
    ASSUME NEW w \in Worlds, IsFiniteSet(w.requests), NEW c \in Nat, NEW R, NEW sv, NEW e, NEW ok,
           Threads(w, R, sv, e, ok)
    PROVE  Threads(OpenConversation(w, c), R, sv, e, ok)
<1>1. PICK a : a = [w.app EXCEPT !.screen = Thread(c), !.shown = << >>, !.seen = {},
                                 !.cursor = 0, !.loading = TRUE, !.card = None]
  OBVIOUS
<1>2. /\ Thread(c) \in Screens /\ << >> \in Seq(Items) /\ {} \in SUBSET Nat /\ None \in Calls
      /\ "list" \in Whats
  BY DEF Thread, Screens, Calls, Whats
<1>3. a \in Apps /\ a.screen = Thread(c) /\ a.shown = << >> /\ a.seen = {}
  BY <1>1, <1>2 DEF Worlds, Apps
<1>4. PICK u : u = [w EXCEPT !.app = a]
  OBVIOUS
<1>5. u \in Worlds /\ u.app = a /\ u.requests = w.requests
  BY <1>3, <1>4 DEF Worlds
<1>6. PICK v, what, op : what = "list" /\ op = None /\ v = AskOf(u, what, c, 0, op)
  OBVIOUS
<1>7. Asked(v, u, what, c, 0)
  BY <1>2, <1>5, <1>6, AskAdds
<1>8. \A r \in v.requests : r \in w.requests \/ r.stage # "served"
  BY <1>5, <1>7 DEF Asked
<1>9. v.app.shown = << >>
  BY <1>3, <1>5, <1>7 DEF Asked
<1>10. View(v.app.shown, v.app.screen, v.app.seen, sv, e, ok)
  BY <1>9, ViewOfNothing
<1>11. Threads(v, R, sv, e, ok)
  BY <1>8, <1>10, ThreadsReshown
<1>12. u = [w EXCEPT !.app.screen = Thread(c), !.app.shown = << >>, !.app.seen = {},
                     !.app.cursor = 0, !.app.loading = TRUE, !.app.card = None]
  BY <1>1, <1>4 DEF Worlds, Apps
<1>13. OpenConversation(w, c) = v
  BY <1>6, <1>12 DEF OpenConversation, Ask
<1> QED
  BY <1>11, <1>13

LEMMA OneIsSome ==
    ASSUME NEW S, Cardinality(S) = 1
    PROVE  S # {}
BY FS_EmptySet

LEMMA OpenTheUnreadThreads ==
    ASSUME NEW w \in Worlds, IsFiniteSet(w.requests), NEW R, NEW sv, NEW e, NEW ok, Threads(w, R, sv, e, ok)
    PROVE  Threads(OpenTheUnread(w), R, sv, e, ok)
<1> DEFINE U == {i \in DOMAIN w.app.list : w.app.list[i].unread}
<1>1. CASE w.app.screen.name = "home" /\ Cardinality(U) = 1
  <2>1. U # {}
    <3>1. Cardinality(U) = 1
      BY <1>1
    <3> HIDE DEF U
    <3> QED
      BY <3>1, OneIsSome
  <2>2. PICK i \in U : OpenTheUnread(w) = OpenConversation(w, w.app.list[i].conv)
    BY <1>1, <2>1 DEF OpenTheUnread
  <2>3. w.app.list[i] \in Entries
    BY DEF Worlds, Apps
  <2>4. PICK c \in Nat : c = w.app.list[i].conv
    BY <2>3 DEF Entries
  <2> QED
    BY <2>2, <2>4, OpenConversationThreads
<1>2. CASE ~(w.app.screen.name = "home" /\ Cardinality(U) = 1)
  BY <1>2 DEF OpenTheUnread
<1> QED
  BY <1>1, <1>2

LEMMA StartNewThreads ==
    ASSUME NEW w \in Worlds, NEW R, NEW sv, NEW e, NEW ok, Threads(w, R, sv, e, ok)
    PROVE  Threads(StartNew(w), R, sv, e, ok)
<1>1. PICK v : v = StartNew(w)
  OBVIOUS
<1>2. v.app.shown = << >> /\ v.requests = w.requests
  BY <1>1 DEF StartNew, Worlds, Apps
<1>3. View(v.app.shown, v.app.screen, v.app.seen, sv, e, ok)
  BY <1>2, ViewOfNothing
<1> QED
  BY <1>1, <1>2, <1>3, ThreadsReshown

\* "error", or home.
LEMMA ElsewhereThreads ==
    ASSUME NEW v, NEW w, NEW R, NEW sv, NEW e, NEW ok, Threads(w, R, sv, e, ok), v.requests = w.requests,
           v.app.shown = w.app.shown, v.app.seen = w.app.seen, v.app.screen.name # "thread"
    PROVE  Threads(v, R, sv, e, ok)
<1>1. View(v.app.shown, v.app.screen, v.app.seen, sv, e, ok)
  BY ViewElsewhere DEF Threads
<1> QED
  BY <1>1, ThreadsReshown

LEMMA FailureThreads ==
    ASSUME NEW w \in Worlds, NEW R, NEW sv, NEW e, NEW ok, Threads(w, R, sv, e, ok)
    PROVE  /\ Threads([w EXCEPT !.app.screen = Failure], R, sv, e, ok)
           /\ Threads([w EXCEPT !.app.screen = Failure, !.app.loading = FALSE], R, sv, e, ok)
<1>1. PICK u, v : /\ u = [w EXCEPT !.app.screen = Failure]
                  /\ v = [w EXCEPT !.app.screen = Failure, !.app.loading = FALSE]
  OBVIOUS
<1>2. Failure.name # "thread"
  BY DEF Failure
<1>3. /\ u.requests = w.requests /\ u.app.shown = w.app.shown /\ u.app.seen = w.app.seen
      /\ u.app.screen = Failure
      /\ v.requests = w.requests /\ v.app.shown = w.app.shown /\ v.app.seen = w.app.seen
      /\ v.app.screen = Failure
  BY <1>1 DEF Worlds, Apps
<1> QED
  BY <1>1, <1>2, <1>3, ElsewhereThreads

LEMMA PushStays ==
    ASSUME NEW w \in Worlds
    PROVE  /\ PushUnread(w) \in Worlds /\ PushUnread(w).requests = w.requests
           /\ PushUnread(w).app = w.app
<1>1. w.app.list \in Seq(Entries) /\ w.loader \in Loaders
  BY DEF Worlds, Apps
<1>2. PICK k \in Nat : k = UnreadCount(w.app.list)
  BY <1>1, CountIs
<1>3. PICK l : l = [w.loader EXCEPT !.badge = k]
  OBVIOUS
<1>4. l \in Loaders
  BY <1>1, <1>3 DEF Loaders
<1>5. PushUnread(w) = [w EXCEPT !.loader = l]
  BY <1>2, <1>3 DEF PushUnread, Worlds
<1> QED
  BY <1>4, <1>5 DEF Worlds

LEMMA BootedThreads ==
    ASSUME NEW w \in Worlds, IsFiniteSet(w.requests), NEW list \in Seq(Entries), NEW R, NEW sv, NEW e, NEW ok,
           Threads(w, R, sv, e, ok)
    PROVE  Threads(Booted(w, list), R, sv, e, ok)
<1>1. PICK sock : sock = [up |-> FALSE, want |-> {}, joined |-> {}, wire |-> << >>]
  OBVIOUS
<1>2. PICK socks : socks = Append(w.sockets, sock)
  OBVIOUS
<1>3. socks \in Seq(Socks)
  <2>1. << >> \in Seq(Frames) /\ {} \in SUBSET Nat
    OBVIOUS
  <2>2. sock \in Socks
    BY <1>1, <2>1 DEF Socks
  <2>3. w.sockets \in Seq(Socks)
    BY DEF Worlds
  <2> QED
    BY <1>2, <2>2, <2>3
<1>4. PICK a : a = [w.app EXCEPT !.screen = HomeScreen, !.list = list]
  OBVIOUS
<1>5. HomeScreen \in Screens /\ HomeScreen.name # "thread"
  BY DEF HomeScreen, Screens
<1>6. a \in Apps /\ a.screen = HomeScreen /\ a.shown = w.app.shown /\ a.seen = w.app.seen
  BY <1>4, <1>5 DEF Worlds, Apps
<1>7. PICK u : u = [w EXCEPT !.app = a, !.sockets = socks]
  OBVIOUS
<1>8. u \in Worlds /\ u.app = a /\ u.requests = w.requests
  BY <1>3, <1>6, <1>7 DEF Worlds
<1>9. u = [w EXCEPT !.app.screen = HomeScreen, !.app.list = list,
                    !.sockets = Append(@, [up |-> FALSE, want |-> {},
                                           joined |-> {}, wire |-> << >>])]
  BY <1>1, <1>2, <1>4, <1>7 DEF Worlds, Apps
<1>10. PICK v : v = PushUnread(u)
  OBVIOUS
<1>11. v \in Worlds /\ v.app = a /\ v.requests = w.requests
  BY <1>8, <1>10, PushStays
<1>12. Threads(v, R, sv, e, ok)
  BY <1>5, <1>6, <1>11, ElsewhereThreads
<1>13. Threads(OpenTheUnread(v), R, sv, e, ok)
  BY <1>11, <1>12, OpenTheUnreadThreads
<1>14. Booted(w, list) = IF v.app.panel THEN OpenTheUnread(v) ELSE v
  BY <1>9, <1>10 DEF Booted
<1> QED
  BY <1>12, <1>13, <1>14

\* The conversation is there, and its thread is on the screen instead of a new one.
LEMMA CreatedThreads ==
    ASSUME NEW w, NEW sv, ServerOK(sv), Sound(w, sv), NEW r \in Reqs, r.what = "create",
           r.got.id \in Convs(sv), NEW R, NEW e, NEW ok,
           Threads(w, R, sv, e, ok), ok => w.app.screen = Thread(0)
    PROVE  Threads(Created(w, r), R, sv, e, ok)
<1>1. /\ w \in Worlds /\ AppOK(w.app, sv) /\ IsFiniteSet(w.requests)
      /\ \A q \in w.requests : RequestOK(q, sv)
      /\ \A c \in Convs(sv) : c \in Nat /\ c # 0
      /\ \A i \in DOMAIN sv.log : sv.log[i].conv \in Convs(sv)
  BY ShapeParts, ConvsAre DEF Sound, Shape
<1>2. PICK c, temp : c = r.got.id /\ temp = r.arg /\ c \in Nat /\ temp \in Nat
  BY <1>1 DEF Reqs
<1>3. PICK p : p = Subscribe(w, c)
  OBVIOUS
<1>4. /\ p \in Worlds /\ p.app = w.app /\ p.requests = w.requests
  BY <1>2, <1>3, SubscribeIs, ShapeParts DEF Sound
<1>5. PICK list \in Seq(Entries) : list = << [conv |-> c, unread |-> FALSE] >> \o p.app.list
  <2>1. PICK x \in Entries : x = [conv |-> c, unread |-> FALSE]
    BY <1>2 DEF Entries
  <2>2. <<x>> \o p.app.list \in Seq(Entries)
    BY <1>4 DEF Worlds, Apps
  <2> QED
    BY <2>1, <2>2
<1>6. PICK a : a = [p.app EXCEPT !.screen = Thread(c), !.seen = {}, !.list = list]
  OBVIOUS
<1>7. /\ Thread(c) \in Screens /\ Thread(c).conv = c /\ Thread(c).name = "thread"
      /\ Thread(0).conv = 0 /\ Thread(0).name = "thread" /\ {} \in SUBSET Nat
      /\ None \in Calls /\ "created" \in Whats
  BY <1>2 DEF Thread, Screens, Calls, Whats
<1>8. a \in Apps /\ a.screen = Thread(c) /\ a.shown = w.app.shown /\ a.seen = {}
  BY <1>4, <1>6, <1>7 DEF Worlds, Apps
<1>9. PICK u : u = [p EXCEPT !.app = a]
  OBVIOUS
<1>10. u \in Worlds /\ u.app = a /\ u.requests = w.requests
  BY <1>4, <1>8, <1>9 DEF Worlds
<1>11. u = [p EXCEPT !.app.screen = Thread(c), !.app.seen = {},
                     !.app.list = << [conv |-> c, unread |-> FALSE] >> \o @]
  BY <1>4, <1>5, <1>6, <1>9 DEF Worlds, Apps
<1>12. PICK v, what, op : what = "created" /\ op = None /\ v = AskOf(u, what, c, temp, op)
  OBVIOUS
<1>13. Asked(v, u, what, c, temp)
  BY <1>1, <1>2, <1>7, <1>10, <1>12, AskAdds
<1>14. v.app = a /\ \A q \in v.requests : q \in w.requests \/ q.stage # "served"
  BY <1>10, <1>13 DEF Asked
<1>15. ASSUME ok, NEW i \in DOMAIN w.app.shown, w.app.shown[i].kind = "stored" PROVE FALSE
  <2>1. /\ w.app.shown[i].id \in w.app.seen
        /\ sv.log[w.app.shown[i].id].conv = 0
    BY <1>7, <1>15 DEF Threads, View, Placed, Counts
  <2> QED
    BY <1>1, <2>1 DEF AppOK
<1>16. View(a.shown, a.screen, a.seen, sv, e, ok)
  BY <1>8, <1>15 DEF Threads, View, Placed, Counts
<1>17. Threads(v, R, sv, e, ok)
  BY <1>14, <1>16, ThreadsReshown
<1>18. Created(w, r) = v
  BY <1>2, <1>3, <1>11, <1>12 DEF Created, Ask
<1> QED
  BY <1>17, <1>18

----------------------------------------------------------------------------
(* Handlers that show something else in the thread.                        *)

LEMMA ThreadsRedrawn ==
    ASSUME NEW v, NEW w, NEW shown, NEW seen, NEW cursor, NEW sv, NEW R, NEW e,
           NEW ok, Threads(w, R, sv, e, ok),
           Redrawn(v, w, shown, seen, cursor), View(shown, w.app.screen, seen, sv, e, ok)
    PROVE  Threads(v, R, sv, e, ok)
BY ThreadsReshown DEF Redrawn

LEMMA MarkFailedThreads ==
    ASSUME NEW w, NEW sv, ServerOK(sv), Sound(w, sv), NEW temp \in Nat,
           NEW R, NEW e, NEW ok, Threads(w, R, sv, e, ok)
    PROVE  Threads(MarkFailed(w, temp), R, sv, e, ok)
<1>1. /\ w \in Worlds /\ w.app.shown \in Seq(Items) /\ w.app.seen \in SUBSET DOMAIN sv.log
      /\ w.app.cursor \in 0..Len(sv.log)
  BY ShapeParts DEF Sound, AppOK, Apps
<1>2. PICK shown : shown = Instead(w.app.shown, temp, Failed(temp))
  OBVIOUS
<1>3. View(shown, w.app.screen, w.app.seen, sv, e, ok)
  BY <1>1, <1>2, ViewFailed DEF Threads
<1>4. PICK v : v = Redraw(w, shown, w.app.seen, w.app.cursor)
  OBVIOUS
<1>5. shown \in Seq(Items)
  BY <1>1, <1>2, InsteadIs, ItemsAre
<1>6. Redrawn(v, w, shown, w.app.seen, w.app.cursor)
  BY <1>1, <1>4, <1>5, RedrawIs
<1>7. MarkFailed(w, temp) = v
  BY <1>1, <1>2, <1>4, MarkFailedIs
<1> QED
  BY <1>3, <1>6, <1>7, ThreadsRedrawn

\* The message of a text is of the thread on the screen.
LEMMA ReplaceTempThreads ==
    ASSUME NEW w, NEW sv, ServerOK(sv), Sound(w, sv), NEW temp \in Nat, NEW id \in DOMAIN sv.log,
           NEW R, NEW e, NEW ok, Threads(w, R, sv, e, ok),
           ok /\ w.app.screen.name = "thread" => sv.log[id].conv = w.app.screen.conv
    PROVE  Threads(ReplaceTemp(w, temp, id), R, sv, e, ok)
<1>1. /\ w \in Worlds /\ w.app.shown \in Seq(Items) /\ w.app.seen \in SUBSET DOMAIN sv.log
      /\ w.app.cursor \in 0..Len(sv.log) /\ id \in Nat
  BY ShapeParts, ConvsAre DEF Sound, AppOK, Apps
<1>2. CASE id \in w.app.seen
  <2>1. PICK item, shown : item = Pending(temp) /\ shown = Without(w.app.shown, item)
    OBVIOUS
  <2>2. shown \in Seq(Items)
    BY <1>1, <2>1, WithoutIs
  <2>3. View(w.app.shown, w.app.screen, w.app.seen, sv, e, ok)
    BY DEF Threads
  <2>4. View(shown, w.app.screen, w.app.seen, sv, e, ok)
    BY <1>1, <2>1, <2>3, ViewWithout
  <2>5. PICK v : v = Redraw(w, shown, w.app.seen, w.app.cursor)
    OBVIOUS
  <2>6. Redrawn(v, w, shown, w.app.seen, w.app.cursor)
    BY <1>1, <2>2, <2>5, RedrawIs
  <2>7. ReplaceTemp(w, temp, id) = v
    BY <1>1, <1>2, <2>1, <2>5, ReplaceTempIs
  <2> QED
    BY <2>4, <2>6, <2>7, ThreadsRedrawn
<1>3. CASE id \notin w.app.seen
  <2>1. PICK shown, seen : /\ shown = Instead(w.app.shown, temp, AStored(id))
                           /\ seen = w.app.seen \cup {id}
    OBVIOUS
  <2>2. shown \in Seq(Items) /\ seen \in SUBSET DOMAIN sv.log
    BY <1>1, <2>1, InsteadIs, ItemsAre
  <2>3. View(shown, w.app.screen, seen, sv, e, ok)
    BY <1>1, <1>3, <2>1, ViewReplaced DEF Threads
  <2>4. PICK v : v = Redraw(w, shown, seen, w.app.cursor)
    OBVIOUS
  <2>5. Redrawn(v, w, shown, seen, w.app.cursor)
    BY <1>1, <2>2, <2>4, RedrawIs
  <2>6. ReplaceTemp(w, temp, id) = v
    BY <1>1, <1>3, <2>1, <2>4, ReplaceTempIs
  <2> QED
    BY <2>3, <2>5, <2>6, ThreadsRedrawn
<1> QED
  BY <1>2, <1>3

LEMMA ShowPageThreads ==
    ASSUME NEW w, NEW sv, ServerOK(sv), Sound(w, sv), NEW page, PageOK(page, sv),
           NEW R, NEW e, NEW ok, Threads(w, R, sv, e, ok),
           ok => PageFits(page.items, w.app.screen.conv, sv)
    PROVE  Threads(ShowPage(w, page), R, sv, e, ok)
<1>1. PICK v, items, seen : /\ v = ShowPage(w, page) /\ items = page.items
                            /\ seen = w.app.seen \cup Range(items)
  OBVIOUS
<1>2. Redrawn(v, w, Stored(items), seen, page.next) /\ items \in Seq(Nat)
  BY <1>1, ShowPageKeeps DEF PageOK
<1>3. \A i \in DOMAIN items : items[i] \in seen
  BY <1>1 DEF Range
<1>4. View(Stored(items), w.app.screen, seen, sv, e, ok)
  BY <1>1, <1>2, <1>3, ViewStored
<1> QED
  BY <1>1, <1>2, <1>4, ThreadsRedrawn

LEMMA ShowOlderThreads ==
    ASSUME NEW w, NEW sv, ServerOK(sv), Sound(w, sv), NEW page, PageOK(page, sv),
           NEW R, NEW e, NEW ok, Threads(w, R, sv, e, ok),
           ok => PageFits(page.items, w.app.screen.conv, sv)
    PROVE  Threads(ShowOlder(w, page), R, sv, e, ok)
<1>1. /\ w \in Worlds /\ w.app.seen \in SUBSET DOMAIN sv.log /\ w.app.shown \in Seq(Items)
  BY ShapeParts DEF Sound, AppOK, Apps
<1>2. PICK I \in SUBSET DOMAIN page.items :
         I = {i \in DOMAIN page.items : page.items[i] \notin w.app.seen}
  OBVIOUS
<1>3. PICK older : older = Kept(page.items, I)
  OBVIOUS
<1>4. /\ older \in Seq(Nat) /\ \A i \in DOMAIN older : older[i] \in DOMAIN sv.log \ w.app.seen
      /\ ok => PageFits(older, w.app.screen.conv, sv)
  <2>1. PICK items \in Seq(Nat) : items = page.items
    BY DEF PageOK
  <2>2. PICK A : A = Nat
    OBVIOUS
  <2>3. items \in Seq(A) /\ older = Kept(items, I) /\ I \in SUBSET DOMAIN items
    BY <1>2, <1>3, <2>1, <2>2
  <2>4. /\ older \in Seq(A)
        /\ \E at : Thinned(older, items, at) /\ \A i \in DOMAIN older : at[i] \in I
    BY <2>3, KeptIs
  <2>5. PICK at : Thinned(older, items, at) /\ \A i \in DOMAIN older : at[i] \in I
    BY <2>4
  <2>6. \A i \in DOMAIN older : older[i] \in DOMAIN sv.log \ w.app.seen
    BY <1>2, <2>1, <2>5 DEF PageOK, Thinned
  <2>7. ok => PageFits(older, w.app.screen.conv, sv)
    BY <2>1, <2>5 DEF PageFits, Thinned
  <2> QED
    BY <2>2, <2>4, <2>6, <2>7
<1>5. PICK shown, seen, cursor : /\ shown = Stored(older) \o w.app.shown
                                 /\ seen = w.app.seen \cup Range(older) /\ cursor = page.next
  OBVIOUS
<1>6. seen \in SUBSET DOMAIN sv.log /\ cursor \in 0..Len(sv.log)
  BY <1>1, <1>4, <1>5 DEF Range, PageOK
<1>7. shown \in Seq(Items)
  BY <1>1, <1>4, <1>5, StoredIs
<1>8. View(shown, w.app.screen, seen, sv, e, ok)
  <2>1. \A i \in DOMAIN older : older[i] \notin w.app.seen /\ older[i] \in seen
    BY <1>4, <1>5 DEF Range
  <2> QED
    BY <1>1, <1>4, <1>5, <2>1, ViewOlder DEF Threads
<1>9. PICK v : v = Redraw(w, shown, seen, cursor)
  OBVIOUS
<1>10. Redrawn(v, w, shown, seen, cursor)
  BY <1>6, <1>7, <1>9, RedrawIs
<1>11. ShowOlder(w, page) = v
  BY <1>1, <1>2, <1>3, <1>5, <1>9, ShowOlderIs
<1> QED
  BY <1>8, <1>10, <1>11, ThreadsRedrawn

LEMMA ListedThreads ==
    ASSUME NEW w, NEW sv, ServerOK(sv), Sound(w, sv), NEW r, PageOK(r.got, sv), r.conv \in Nat,
           NEW R, NEW e, NEW ok, Threads(w, R, sv, e, ok),
           ok => PageFits(r.got.items, w.app.screen.conv, sv)
    PROVE  Threads(Listed(w, r), R, sv, e, ok)
<1>1. PICK c, got : c \in Nat /\ c = r.conv /\ got = r.got
  OBVIOUS
<1>2. PICK p : p = ShowPage(w, got)
  OBVIOUS
<1>3. Sound(p, sv) /\ Threads(p, R, sv, e, ok)
  BY <1>1, <1>2, ShowPageKeeps, ShowPageThreads
<1>4. PICK q : q = Subscribe(p, c)
  OBVIOUS
<1>5. Shape(q, sv) /\ q.app = p.app /\ q.requests = p.requests
  BY <1>1, <1>3, <1>4, SubscribeIs DEF Sound
<1>6. q \in Worlds /\ IsFiniteSet(q.requests)
  BY <1>5, ShapeParts
<1>7. PICK u : u = [q EXCEPT !.app.loading = FALSE]
  OBVIOUS
<1>8. u \in Worlds /\ u.requests = p.requests /\ Same(u, p)
  BY <1>5, <1>6, <1>7 DEF Worlds, Apps, Same
<1>9. PICK one, two, op : one = "read" /\ two = "pending" /\ op = None
  OBVIOUS
<1>10. one \in Whats /\ two \in Whats /\ op \in Calls
  BY <1>9 DEF Whats, Calls
<1>11. PICK x : x = AskOf(u, one, c, 0, op)
  OBVIOUS
<1>12. Asked(x, u, one, c, 0)
  BY <1>1, <1>5, <1>6, <1>8, <1>10, <1>11, AskAdds
<1>13. x \in Worlds /\ IsFiniteSet(x.requests)
  BY <1>1, <1>5, <1>6, <1>8, <1>10, <1>11, AskStays
<1>14. PICK y : y = AskOf(x, two, c, 0, op)
  OBVIOUS
<1>15. Asked(y, x, two, c, 0)
  BY <1>1, <1>10, <1>13, <1>14, AskAdds
<1>16. Same(y, p)
  BY <1>8, <1>10, <1>12, <1>15, AskSame, SameTwice
<1>17. Listed(w, r) = y
  BY <1>1, <1>2, <1>4, <1>7, <1>9, <1>11, <1>14 DEF Listed, Ask
<1> QED
  BY <1>3, <1>16, <1>17, ThreadsSame

\* A text is later than all others.

\* A text is later than all others.
LEMMA SendThreads ==
    ASSUME NEW w \in Worlds, IsFiniteSet(w.requests), NEW R, NEW sv, NEW e \in Nat, NEW ok,
           Threads(w, R, sv, e, ok)
    PROVE  Threads(Send(w, e + 1), R, sv, e + 1, ok)
<1>1. PICK f \in Nat : f = e + 1
  OBVIOUS
<1>2. /\ w.app \in Apps /\ w.app.shown \in Seq(Items) /\ w.app.screen.conv \in Nat
      /\ w.requests \in SUBSET Reqs
  BY DEF Worlds, Apps, Screens
<1>3. PICK item : item = Pending(f) /\ item \in Items
  BY ItemsAre
<1>4. item.kind = "pending" /\ item.id = f
  BY <1>3 DEF Pending
<1>5. PICK shown : shown = Append(w.app.shown, item)
  OBVIOUS
<1>6. \A i \in DOMAIN w.app.shown : ~Alike(w.app.shown[i], item)
  BY <1>1, <1>4 DEF Threads, View, Placed, Alike, Counts
<1>7. View(shown, w.app.screen, w.app.seen, sv, f, ok)
  <2>1. Placed(item, w.app.screen, w.app.seen, sv, f) /\ e <= f
    BY <1>1, <1>4 DEF Placed
  <2>2. View(w.app.shown, w.app.screen, w.app.seen, sv, e, ok)
    BY DEF Threads
  <2> QED
    BY <1>2, <1>3, <1>5, <1>6, <2>1, <2>2, ViewAppended
<1>8. PICK u : u = [w EXCEPT !.app = [w.app EXCEPT !.shown = shown]]
  OBVIOUS
<1>9. /\ u \in Worlds /\ u.requests = w.requests /\ u.app.shown = shown
      /\ u.app.screen = w.app.screen /\ u.app.seen = w.app.seen
  <2>1. shown \in Seq(Items)
    BY <1>2, <1>3, <1>5
  <2> QED
    BY <1>8, <2>1 DEF Worlds, Apps
<1>10. u = [w EXCEPT !.app.shown = Append(@, [kind |-> "pending", id |-> f])]
  BY <1>3, <1>5, <1>8 DEF Worlds, Apps, Pending
<1>11. PICK c, what, op : /\ c = w.app.screen.conv /\ op = None
                          /\ what = IF w.app.screen.conv = 0 THEN "create" ELSE "send"
  OBVIOUS
<1>12. c \in Nat /\ what \in Whats /\ op \in Calls
  BY <1>2, <1>11 DEF Whats, Calls
<1>13. PICK v : v = AskOf(u, what, c, f, op)
  OBVIOUS
<1>14. Asked(v, u, what, c, f)
  BY <1>9, <1>12, <1>13, AskAdds
<1>15. /\ v.app.shown = shown /\ v.app.screen = w.app.screen /\ v.app.seen = w.app.seen
       /\ \A r \in v.requests : r \in w.requests \/ r.stage # "served"
  BY <1>9, <1>14 DEF Asked
<1>16. Threads(v, R, sv, f, ok)
  BY <1>7, <1>15, ThreadsReshown
<1>17. Send(w, f) = v
  BY <1>10, <1>11, <1>13 DEF Send, Ask
<1> QED
  BY <1>1, <1>16, <1>17

LEMMA RetryThreads ==
    ASSUME NEW w \in Worlds, IsFiniteSet(w.requests), NEW old, NEW R, NEW sv, NEW e \in Nat, NEW ok,
           Threads(w, R, sv, e, ok)
    PROVE  Threads(Retry(w, old, e + 1), R, sv, e + 1, ok)
<1>1. w.app \in Apps /\ w.app.shown \in Seq(Items)
  BY DEF Worlds, Apps
<1>2. PICK shown : shown = Without(w.app.shown, old)
  OBVIOUS
<1>3. shown \in Seq(Items)
  BY <1>1, <1>2, WithoutIs
<1>4. View(w.app.shown, w.app.screen, w.app.seen, sv, e, ok)
  BY DEF Threads
<1>5. PICK u : u = [w EXCEPT !.app.shown = shown]
  OBVIOUS
<1>6. /\ u \in Worlds /\ u.requests = w.requests /\ u.app.screen = w.app.screen
      /\ u.app.seen = w.app.seen /\ u.app.shown = shown
  BY <1>3, <1>5 DEF Worlds, Apps
<1>7. View(shown, w.app.screen, w.app.seen, sv, e, ok)
  BY <1>1, <1>2, <1>4, ViewWithout
<1>8. Threads(u, R, sv, e, ok)
  BY <1>6, <1>7, ThreadsReshown
<1>9. PICK f : f = e + 1
  OBVIOUS
<1>10. Retry(w, old, f) = Send(u, f)
  BY <1>2, <1>5 DEF Worlds, Apps, Retry, Without
<1> QED
  BY <1>6, <1>8, <1>9, <1>10, SendThreads

\* A message that the socket brings is of the thread on the screen, or not shown.
LEMMA OnMessageThreads ==
    ASSUME NEW w \in Worlds, IsFiniteSet(w.requests), NEW m \in Frames, NEW sv, FrameOK(m, sv),
           m.what = "message", m.conv # 0, NEW R, NEW e \in Nat, NEW ok, Threads(w, R, sv, e, ok)
    PROVE  Threads(OnMessage(w, m), R, sv, e, ok)
<1>1. w.app \in Apps /\ w.app.shown \in Seq(Items) /\ m.id \in Nat /\ m.conv \in Nat
  BY DEF Worlds, Apps, Frames
<1>2. CASE m.conv = ConvOnScreen(w.app) /\ m.id \notin w.app.seen
  <2>1. w.app.screen.name = "thread" /\ m.conv = w.app.screen.conv
    BY <1>2 DEF ConvOnScreen
  <2>2. PICK item \in Items : item = AStored(m.id)
    BY <1>1, ItemsAre
  <2>3. PICK shown, seen : shown = Append(w.app.shown, item) /\ seen = w.app.seen \cup {m.id}
    OBVIOUS
  <2>4. Placed(item, w.app.screen, seen, sv, e) /\ item.kind = "stored" /\ item.id = m.id
    BY <2>1, <2>2, <2>3 DEF Placed, AStored, FrameOK
  <2>5. Counts(item, ok) => \A i \in DOMAIN w.app.shown : ~Alike(w.app.shown[i], item)
    BY <1>2, <2>4 DEF Threads, View, Placed, Alike, Counts
  <2>6. View(shown, w.app.screen, seen, sv, e, ok)
    <3>1. w.app.seen \subseteq seen /\ e <= e
      BY <2>3
    <3>2. View(w.app.shown, w.app.screen, w.app.seen, sv, e, ok)
      BY DEF Threads
    <3> QED
      BY <1>1, <2>3, <2>4, <2>5, <3>1, <3>2, ViewAppended
  <2>7. PICK card \in Calls : card = IF m.dir = "out" THEN None ELSE w.app.card
    BY <1>1 DEF Apps, Calls
  <2>8. PICK a : a = [w.app EXCEPT !.seen = seen, !.shown = shown, !.card = card]
    OBVIOUS
  <2>9. a \in Apps /\ a.seen = seen /\ a.shown = shown /\ a.screen = w.app.screen
    <3>1. shown \in Seq(Items) /\ seen \in SUBSET Nat
      BY <1>1, <2>2, <2>3 DEF Apps
    <3> QED
      BY <1>1, <2>7, <2>8, <3>1 DEF Apps
  <2>10. PICK v : v = [w EXCEPT !.app = a]
    OBVIOUS
  <2>11. v \in Worlds /\ v.app = a /\ v.requests = w.requests
    BY <2>9, <2>10 DEF Worlds
  <2>12. Threads(v, R, sv, e, ok)
    BY <2>6, <2>9, <2>11, ThreadsReshown
  <2>13. v = [w EXCEPT !.app.seen = @ \cup {m.id},
                       !.app.shown = Append(@, [kind |-> "stored", id |-> m.id]),
                       !.app.card = IF m.dir = "out" THEN None ELSE @]
    BY <2>2, <2>3, <2>7, <2>8, <2>10 DEF Worlds, Apps, AStored
  <2>14. PICK c, what, op : c = m.conv /\ what = "read" /\ op = None
    OBVIOUS
  <2>15. c \in Nat /\ what \in Whats /\ op \in Calls
    BY <1>1, <2>14 DEF Whats, Calls
  <2>16. PICK x : x = AskOf(v, what, c, 0, op)
    OBVIOUS
  <2>17. Asked(x, v, what, c, 0)
    BY <2>11, <2>15, <2>16, AskAdds
  <2>18. Threads(x, R, sv, e, ok)
    BY <2>12, <2>17, AskSame, ThreadsSame
  <2>19. OnMessage(w, m) = IF m.dir = "out" THEN x ELSE v
    BY <1>2, <2>13, <2>14, <2>16 DEF OnMessage, Ask
  <2> QED
    BY <2>12, <2>18, <2>19
<1>3. CASE ~(m.conv = ConvOnScreen(w.app) /\ m.id \notin w.app.seen)
  <2>1. PICK c, flag : c = m.conv /\ flag = TRUE
    OBVIOUS
  <2>2. PICK list : list = Flagged(w.app.list, c, flag)
    OBVIOUS
  <2>3. OnMessage(w, m) = w \/ OnMessage(w, m) = PushUnread([w EXCEPT !.app.list = list])
    BY <1>3, <2>1, <2>2 DEF OnMessage, Flagged
  <2> QED
    BY <2>3, ListSame, ThreadsSame
<1> QED
  BY <1>2, <1>3

----------------------------------------------------------------------------
(* Answers, and the thread.                                                *)

LEMMA AnsweredThreads ==
    ASSUME NEW w, NEW r, NEW sv, AnswerOK(w, r, sv), r.stage = "served", AnswerFits(r, sv),
           NEW R, NEW e \in Nat, NEW ok, Threads(w, R, sv, e, ok), InTime(r, w.app.screen, ok)
    PROVE  Threads(Answered(w, r), R, sv, e, ok)
<1>1. /\ ServerOK(sv) /\ Sound(w, sv) /\ r \in Reqs /\ RequestOK(r, sv)
      /\ w \in Worlds /\ IsFiniteSet(w.requests) /\ w.app \in Apps
      /\ r.arg \in Nat /\ r.conv \in Nat /\ r.got \in Gots /\ r.got.op \in Calls
  BY ShapeParts DEF AnswerOK, Sound, Reqs, Gots
<1>2. r.what \in Whats /\ r.what # "result"
  BY <1>1 DEF RequestOK, Reqs
<1>3. PageOK(r.got, sv)
  BY <1>1 DEF PageOK, RequestOK, GotOK, Gots
<1>4. r.got.list \in Seq(Entries)
  BY <1>1 DEF Gots
<1>5. PICK list, got : list = r.got.list /\ got = r.got
  OBVIOUS
<1>6. CASE r.what = "boot"
  BY <1>1, <1>4, <1>5, <1>6, BootedThreads DEF Answered
<1>7. CASE r.what \in {"convs", "opened"}
  <2>1. PICK v : v = Refreshed(w, list)
    OBVIOUS
  <2>2. v = PushUnread([w EXCEPT !.app.list = list])
    BY <2>1 DEF Refreshed
  <2>3. Threads(v, R, sv, e, ok)
    BY <1>1, <2>2, ListSame, ThreadsSame
  <2>4. v \in Worlds /\ v.requests = w.requests
    <3>1. PICK u : u = [w EXCEPT !.app.list = list]
      OBVIOUS
    <3>2. u \in Worlds /\ u.requests = w.requests
      BY <1>1, <1>4, <1>5, <3>1 DEF Worlds, Apps
    <3> QED
      BY <2>2, <3>1, <3>2, PushStays
  <2>5. CASE r.what = "convs"
    BY <1>5, <2>1, <2>3, <2>5 DEF Answered
  <2>6. CASE r.what = "opened"
    <3>1. Threads(OpenTheUnread(v), R, sv, e, ok)
      BY <1>1, <2>3, <2>4, OpenTheUnreadThreads
    <3> QED
      BY <1>5, <2>1, <2>6, <3>1 DEF Answered
  <2> QED
    BY <1>7, <2>5, <2>6
<1>8. CASE r.what \in {"list", "older", "created"}
  <2>1. (ok => w.app.screen = Thread(r.conv)) /\ PageFits(got.items, r.conv, sv)
    BY <1>5, <1>8 DEF InTime, AnswerFits
  <2>2. (ok => PageFits(got.items, w.app.screen.conv, sv)) /\ PageOK(got, sv)
    BY <1>3, <1>5, <2>1 DEF Thread
  <2>3. CASE r.what = "list"
    BY <1>1, <1>5, <2>2, <2>3, ListedThreads DEF Answered
  <2>4. CASE r.what = "older"
    <3>1. Threads(ShowOlder(w, got), R, sv, e, ok)
      BY <1>1, <2>2, ShowOlderThreads
    <3> QED
      BY <1>5, <2>4, <3>1 DEF Answered
  <2>5. CASE r.what = "created"
    <3>1. Threads(ShowPage(w, got), R, sv, e, ok)
      BY <1>1, <2>2, ShowPageThreads
    <3> QED
      BY <1>5, <2>5, <3>1 DEF Answered
  <2> QED
    BY <1>8, <2>3, <2>4, <2>5
<1>9. CASE r.what = "create"
  <2>1. r.got.id \in Convs(sv) /\ (ok => w.app.screen = Thread(0))
    BY <1>1, <1>9 DEF RequestOK, InTime
  <2> QED
    BY <1>1, <1>9, <2>1, CreatedThreads DEF Answered
<1>10. CASE r.what = "send"
  <2>1. PICK id \in DOMAIN sv.log, temp \in Nat : id = r.got.id /\ temp = r.arg
    BY <1>1, <1>10 DEF RequestOK
  <2>2. ok /\ w.app.screen.name = "thread" => sv.log[id].conv = w.app.screen.conv
    BY <1>10, <2>1 DEF InTime, AnswerFits, Thread
  <2>3. Threads(ReplaceTemp(w, temp, id), R, sv, e, ok)
    BY <1>1, <2>1, <2>2, ReplaceTempThreads
  <2> QED
    BY <1>10, <2>1, <2>3 DEF Answered
<1>11. CASE r.what = "read"
  <2>1. PICK flags : flags = [i \in DOMAIN w.app.list |->
             IF w.app.list[i].conv = r.conv THEN [w.app.list[i] EXCEPT !.unread = FALSE]
             ELSE w.app.list[i]]
    OBVIOUS
  <2>2. Answered(w, r) = PushUnread([w EXCEPT !.app.list = flags])
    BY <1>11, <2>1 DEF Answered, MarkedRead
  <2> QED
    BY <1>1, <2>2, ListSame, ThreadsSame
<1>12. CASE r.what = "pending"
  <2>1. CASE r.got.op = None
    BY <1>12, <2>1 DEF Answered
  <2>2. CASE r.got.op # None
    <3>1. PICK op \in Ops : op = r.got.op
      BY <1>1, <2>2 DEF Calls
    <3>2. Answered(w, r) = OnOp(w, op)
      BY <1>12, <2>2, <3>1 DEF Answered
    <3> QED
      BY <1>1, <3>2, OnOpSame, ThreadsSame
  <2> QED
    BY <2>1, <2>2
<1> QED
  BY <1>2, <1>6, <1>7, <1>8, <1>9, <1>10, <1>11, <1>12 DEF Whats

LEMMA NotAnsweredThreads ==
    ASSUME NEW w, NEW r, NEW sv, AnswerOK(w, r, sv), r.stage = "failed", NEW R, NEW e \in Nat, NEW ok,
           Threads(w, R, sv, e, ok)
    PROVE  Threads(NotAnswered(w, r), R, sv, e, ok)
<1>1. /\ ServerOK(sv) /\ Sound(w, sv) /\ r \in Reqs /\ r.arg \in Nat
      /\ w \in Worlds /\ IsFiniteSet(w.requests)
      /\ r.what \in Whats /\ r.what # "result"
  BY ShapeParts DEF AnswerOK, RequestOK, Sound, Reqs
<1>2. CASE r.what \in {"boot", "list"}
  <2>1. /\ Threads([w EXCEPT !.app.screen = Failure], R, sv, e, ok)
        /\ Threads([w EXCEPT !.app.screen = Failure, !.app.loading = FALSE], R, sv, e, ok)
    BY <1>1, FailureThreads
  <2> QED
    BY <1>2, <2>1 DEF NotAnswered
<1>3. CASE r.what \in {"create", "created", "send"}
  <2>1. PICK temp \in Nat : temp = r.arg
    BY <1>1
  <2>2. Threads(MarkFailed(w, temp), R, sv, e, ok)
    BY <1>1, <2>1, MarkFailedThreads
  <2> QED
    BY <1>3, <2>1, <2>2 DEF NotAnswered
<1>4. CASE r.what = "opened"
  BY <1>1, <1>4, OpenTheUnreadThreads DEF NotAnswered
<1>5. CASE r.what \in {"convs", "older", "read", "pending"}
  BY <1>5 DEF NotAnswered
<1> QED
  BY <1>1, <1>2, <1>3, <1>4, <1>5 DEF Whats

----------------------------------------------------------------------------
(* The steps, and the thread.                                              *)

LEMMA ThreadsOf ==
    ASSUME NEW v, NEW w, NEW R, NEW sv, NEW e, NEW ok, Threads(w, R, sv, e, ok),
           v.app = w.app, v.requests = w.requests
    PROVE  Threads(v, R, sv, e, ok)
BY DEF Threads

\* What was stored stays as it is.
LEMMA ThreadsLater ==
    ASSUME NEW w, NEW R, NEW sv, NEW sv2, Sound(w, sv), Extends(sv2, sv), NEW e \in Nat,
           NEW f \in Nat, e <= f, NEW ok, Threads(w, R, sv, e, ok)
    PROVE  Threads(w, R, sv2, f, ok)
<1>1. w.app \in Apps /\ w.app.shown \in Seq(Items) /\ w.app.seen \subseteq DOMAIN sv.log
  BY ShapeParts DEF Sound, Shape, AppOK, Apps
<1>2. \A i \in DOMAIN sv.log : sv2.log[i] = sv.log[i]
  BY DEF Extends
<1>3. View(w.app.shown, w.app.screen, w.app.seen, sv2, f, ok)
  <2>1. ASSUME NEW i \in DOMAIN w.app.shown, Counts(w.app.shown[i], ok)
        PROVE  Placed(w.app.shown[i], w.app.screen, w.app.seen, sv2, f)
    <3>1. w.app.shown[i] \in Items /\ Placed(w.app.shown[i], w.app.screen, w.app.seen, sv, e)
      BY <1>1, <2>1 DEF Threads, View
    <3>2. w.app.shown[i].id \in Nat
      BY <3>1 DEF Items
    <3>3. CASE w.app.shown[i].kind = "stored"
      BY <1>1, <1>2, <3>1, <3>3 DEF Placed
    <3>4. CASE w.app.shown[i].kind # "stored"
      BY <3>1, <3>2, <3>4 DEF Placed
    <3> QED
      BY <3>3, <3>4
  <2> QED
    BY <2>1 DEF Threads, View
<1> QED
  BY <1>3 DEF Threads

LEMMA AnswerFitsLater ==
    ASSUME NEW r, NEW sv, NEW sv2, RequestOK(r, sv), Extends(sv2, sv), AnswerFits(r, sv)
    PROVE  AnswerFits(r, sv2)
<1>1. \A i \in DOMAIN sv.log : sv2.log[i] = sv.log[i]
  BY DEF Extends
<1>2. r.stage = "served" /\ r.what \in {"list", "older", "created"} => PageFits(r.got.items, r.conv, sv2)
  BY <1>1 DEF AnswerFits, RequestOK, GotOK, PageFits
<1>3. r.stage = "served" /\ r.what = "send" => sv2.log[r.got.id].conv = r.conv
  BY <1>1 DEF AnswerFits, RequestOK
<1> QED
  BY <1>2, <1>3 DEF AnswerFits

LEMMA AskedThreads ==
    ASSUME NEW v, NEW w, NEW what, NEW c, NEW arg, Asked(v, w, what, c, arg),
           NEW R, NEW sv, NEW e, NEW ok, Threads(w, R, sv, e, ok)
    PROVE  Threads(v, R, sv, e, ok)
BY AskSame, ThreadsSame

LEMMA ThreadInvIs ==
    ASSUME ThreadInv
    PROVE  /\ ChatInv /\ ServerOK(server) /\ Sound(World, server) /\ events \in Nat
           /\ World \in Worlds /\ World.app = app /\ World.requests = requests
           /\ World.loader = loader /\ IsFiniteSet(requests) /\ app \in Apps
           /\ app.screen \in Screens /\ app.list \in Seq(Entries) /\ Extends(server, server)
           /\ \A r \in requests : AnswerFits(r, server)
<1>1. ChatInv /\ ServerOK(server) /\ Fine(World, server) /\ events \in Nat
  BY DEF ThreadInv, ChatInv
<1>2. /\ World \in Worlds /\ World.app = app /\ World.requests = requests
      /\ World.loader = loader
  BY <1>1, WorldIs
<1>3. IsFiniteSet(requests) /\ app \in Apps /\ app.screen \in Screens /\ app.list \in Seq(Entries)
  BY <1>1, <1>2, ShapeParts DEF Fine, Sound, Apps
<1>4. Len(server.log) \in Nat
  BY <1>1, ConvsAre
<1> QED
  BY <1>1, <1>2, <1>3, <1>4 DEF ThreadInv, Fine, Extends

\* What is shown, as far as it counts, and what the answers are taken from.
Shows(ok) == ThreadInv /\ Threads(World, requests, server, events, ok)

\* … and what is shown next.
Onward(ok) == Threads(World', requests, server', events', ok) /\ Extends(server', server)

LEMMA ShowsIs ==
    ASSUME ThreadInv, NEW ok, View(app.shown, app.screen, app.seen, server, events, ok)
    PROVE  Shows(ok)
<1>1. World.app = app /\ World.requests = requests
  BY ThreadInvIs
<1>2. PICK w : w = World /\ w.app = app /\ w.requests = requests
  BY <1>1
<1>3. Threads(w, requests, server, events, ok)
  BY <1>2 DEF Threads
<1> QED
  BY <1>2, <1>3 DEF Shows

LEMMA BecomeThreads ==
    ASSUME ThreadInv, NEW v, NEW R, NEW ok, Become(v), server' = server,
           Threads(v, R, server, events', ok)
    PROVE  Threads(World', R, server', events', ok) /\ Extends(server', server)
<1>1. PICK u, f : u = World' /\ f = events'
  OBVIOUS
<1>2. u.app = v.app /\ u.requests = v.requests
  BY <1>1 DEF World, Become
<1>3. Threads(u, R, server, f, ok)
  BY <1>1, <1>2, ThreadsOf
<1>4. Extends(server', server)
  BY ThreadInvIs
<1> QED
  BY <1>1, <1>3, <1>4

\* A step in which nothing of the thread changes.
LEMMA StillThreads ==
    ASSUME NEW ok, Shows(ok), app' = app, requests' = requests, Extends(server', server),
           events' \in Nat, events <= events'
    PROVE  Onward(ok)
<1>1. PICK u, sv, f : u = World' /\ sv = server' /\ f = events'
  OBVIOUS
<1>2. f \in Nat /\ events <= f /\ Extends(sv, server) /\ events \in Nat /\ Sound(World, server)
  BY <1>1, ThreadInvIs DEF Shows
<1>3. Threads(World, requests, sv, f, ok)
  BY <1>2, ThreadsLater DEF Shows
<1>4. u.app = World.app /\ u.requests = World.requests
  BY <1>1 DEF World
<1>5. Threads(u, requests, sv, f, ok)
  BY <1>3, <1>4, ThreadsOf
<1> QED
  BY <1>1, <1>5 DEF Onward

\* An answer that is not late, or what is shown does not count.
LEMMA AnswerShown ==
    ASSUME NEW ok, Shows(ok), NEW r \in requests, NEW w, AnswerOK(w, r, server), w.app = app,
           w.requests = requests \ {r}, r.stage \in {"served", "failed"},
           Become(IF r.stage = "served" THEN Answered(w, r) ELSE NotAnswered(w, r)),
           UNCHANGED <<server, events>>, r.stage = "served" => InTime(r, app.screen, ok)
    PROVE  Threads(World', requests \ {r}, server', events', ok) /\ Extends(server', server)
<1>1. /\ ThreadInv /\ events \in Nat /\ AnswerFits(r, server) /\ World.app = app
      /\ Threads(World, requests, server, events, ok)
  BY ThreadInvIs DEF Shows
<1>2. PICK R : R = requests \ {r}
  OBVIOUS
<1>3. Threads(w, R, server, events, ok)
  BY <1>1, <1>2 DEF Threads
<1>4. PICK v : v = IF r.stage = "served" THEN Answered(w, r) ELSE NotAnswered(w, r)
  OBVIOUS
<1>5. Threads(v, R, server, events, ok) /\ Become(v)
  BY <1>1, <1>3, <1>4, AnsweredThreads, NotAnsweredThreads
<1>6. events' = events /\ server' = server
  OBVIOUS
<1> QED
  BY <1>1, <1>2, <1>5, <1>6, BecomeThreads

LEMMA AnswerThreads ==
    ASSUME NEW ok, Shows(ok), Answer, ok => ~\E r \in requests \ requests' : Late(r)
    PROVE  Onward(ok)
<1>1. ThreadInv /\ ChatInv
  BY ThreadInvIs DEF Shows
<1>2. PICK r \in requests : \E w :
        /\ AnswerOK(w, r, server) /\ w.app = app /\ w.requests = requests \ {r}
        /\ r.stage \in {"served", "failed"}
        /\ Become(IF r.stage = "served" THEN Answered(w, r) ELSE NotAnswered(w, r))
        /\ UNCHANGED <<server, events>>
  BY <1>1, AnswerIs
<1>3. PICK w :
        /\ AnswerOK(w, r, server) /\ w.app = app /\ w.requests = requests \ {r}
        /\ r.stage \in {"served", "failed"}
        /\ Become(IF r.stage = "served" THEN Answered(w, r) ELSE NotAnswered(w, r))
        /\ UNCHANGED <<server, events>>
  BY <1>2
\* Whatever it shows, it is no longer under way.
<1>4. r.stage = "served" => r \notin requests'
  <2>1. PICK off \in BOOLEAN : off = FALSE
    OBVIOUS
  <2>2. Shows(off) /\ InTime(r, app.screen, off)
    BY <1>1, <2>1, ShowsIs DEF ThreadInv, InTime
  <2>3. Threads(World', requests \ {r}, server', events', off)
    BY <1>3, <2>2, AnswerShown
  <2>4. World'.requests = requests'
    BY DEF World
  <2> QED
    BY <2>3, <2>4 DEF Threads
<1>5. r.stage = "served" => InTime(r, app.screen, ok)
  BY <1>4 DEF InTime, Late
<1>6. Threads(World', requests \ {r}, server', events', ok) /\ Extends(server', server)
  BY <1>3, <1>5, AnswerShown
<1> QED
  BY <1>6 DEF Threads, Onward

LEMMA DeliverThreads ==
    ASSUME NEW ok, Shows(ok), NEW s, Deliver(s)
    PROVE  Onward(ok)
<1>1. /\ ChatInv /\ ServerOK(server) /\ events \in Nat /\ Threads(World, requests, server, events, ok)
      /\ World.app = app /\ World.requests = requests
  BY ThreadInvIs DEF Shows
<1>2. PICK m \in Frames : \E w :
        /\ FrameOK(m, server) /\ Fine(w, server) /\ w.app = app /\ w.requests = requests
        /\ Become(CASE m.what = "message" -> OnMessage(w, m)
                    [] m.what = "op"      -> OnOp(w, m.op)
                    [] m.what = "ended"   -> SetWorking(w, FALSE))
        /\ UNCHANGED <<server, events>>
  BY <1>1, DeliverIs
<1>3. PICK w :
        /\ FrameOK(m, server) /\ Fine(w, server) /\ w.app = app /\ w.requests = requests
        /\ Become(CASE m.what = "message" -> OnMessage(w, m)
                    [] m.what = "op"      -> OnOp(w, m.op)
                    [] m.what = "ended"   -> SetWorking(w, FALSE))
        /\ UNCHANGED <<server, events>>
  BY <1>2
<1>4. Threads(w, requests, server, events, ok) /\ w \in Worlds /\ IsFiniteSet(w.requests)
  BY <1>1, <1>3, ThreadsOf, ShapeParts DEF Fine, Sound
<1>5. PICK v : /\ Become(v)
               /\ v = CASE m.what = "message" -> OnMessage(w, m)
                        [] m.what = "op"      -> OnOp(w, m.op)
                        [] m.what = "ended"   -> SetWorking(w, FALSE)
  BY <1>3
<1>6. Threads(v, requests, server, events, ok)
  <2>1. CASE m.what = "message"
    <3>1. m.conv # 0
      BY <1>1, <1>3, <2>1, ConvsAre DEF FrameOK
    <3> QED
      BY <1>1, <1>3, <1>4, <1>5, <2>1, <3>1, OnMessageThreads
  <2>2. CASE m.what = "op"
    <3>1. PICK op \in Ops : op = m.op
      BY <1>3, <2>2 DEF FrameOK
    <3>2. v = OnOp(w, op)
      BY <1>5, <2>2, <3>1
    <3> QED
      BY <1>4, <3>2, OnOpSame, ThreadsSame
  <2>3. CASE m.what = "ended"
    <3>1. PICK off \in BOOLEAN : off = FALSE
      OBVIOUS
    <3>2. v = SetWorking(w, off)
      BY <1>5, <2>3, <3>1
    <3> QED
      BY <1>4, <3>2, SetWorkingSame, ThreadsSame
  <2> QED
    BY <2>1, <2>2, <2>3 DEF Frames
<1>7. events' = events /\ server' = server
  BY <1>3
<1> QED
  BY <1>5, <1>6, <1>7, BecomeThreads DEF Shows, Onward

LEMMA FreshThreads ==
    ASSUME NEW u, u.app = FreshApp, u.requests = {FirstBoot}, NEW R, NEW sv, NEW e, NEW ok
    PROVE  Threads(u, R, sv, e, ok)
<1>1. u.app.shown = << >> /\ FirstBoot.stage # "served"
  BY DEF FreshApp, FirstBoot
<1>2. View(u.app.shown, u.app.screen, u.app.seen, sv, e, ok)
  BY <1>1, ViewOfNothing
<1> QED
  BY <1>1, <1>2 DEF Threads

\* What the visitor does, whatever is awaited.
LEMMA ActThreads ==
    ASSUME NEW ok, Shows(ok), NEW v, Act(v), Threads(v, requests, server, events + 1, ok)
    PROVE  Onward(ok)
<1>1. Become(v) /\ server' = server /\ events' = events + 1
  BY DEF Act, Event
<1> QED
  BY <1>1, BecomeThreads DEF Shows, Onward

LEMMA VisitorThreads ==
    ASSUME NEW ok, Shows(ok), PanelOpens \/ PanelCloses \/ TryAgain \/ GoHome \/ Opens \/ StartsNew
    PROVE  Onward(ok)
<1>1. /\ ServerOK(server) /\ Sound(World, server) /\ events \in Nat
      /\ Threads(World, requests, server, events, ok) /\ World \in Worlds /\ World.app = app
      /\ World.requests = requests /\ IsFiniteSet(requests) /\ app \in Apps
      /\ app.list \in Seq(Entries) /\ Extends(server, server)
  BY ThreadInvIs DEF Shows
<1>2. PICK f \in Nat : f = events + 1 /\ events <= f
  BY <1>1
<1>3. Threads(World, requests, server, f, ok)
  BY <1>1, <1>2, ThreadsLater
<1>4. ASSUME NEW v, Act(v), Threads(v, requests, server, f, ok)
      PROVE  Onward(ok)
  BY <1>2, <1>4, ActThreads
<1>5. ASSUME NEW u \in Worlds, IsFiniteSet(u.requests), Threads(u, requests, server, f, ok),
             NEW what \in {"boot", "convs", "opened"}
      PROVE  Threads(Ask(u, what, 0, 0), requests, server, f, ok)
  <2>1. PICK v, op : op = None /\ v = AskOf(u, what, 0, 0, op)
    OBVIOUS
  <2>2. what \in Whats /\ op \in Calls
    BY <2>1 DEF Whats, Calls
  <2>3. Asked(v, u, what, 0, 0)
    BY <1>5, <2>1, <2>2, AskAdds
  <2>4. Threads(v, requests, server, f, ok)
    BY <1>5, <2>3, AskedThreads
  <2> QED
    BY <2>1, <2>4 DEF Ask
<1>6. CASE PanelOpens
  <2>1. PICK panel, what : panel = TRUE /\ what = IF app.panel THEN "convs" ELSE "opened"
    OBVIOUS
  <2>2. PICK u : u = [World EXCEPT !.app.panel = panel]
    OBVIOUS
  <2>3. u \in Worlds /\ u.requests = requests /\ Same(u, World)
    BY <1>1, <2>1, <2>2 DEF Worlds, Apps, Same
  <2>4. PICK v : v = Ask(u, what, 0, 0) /\ Act(v)
    BY <1>6, <2>1, <2>2 DEF PanelOpens
  <2>5. Threads(u, requests, server, f, ok)
    BY <1>3, <2>3, <2>4, ThreadsSame
  <2>6. what \in {"boot", "convs", "opened"}
    BY <2>1
  <2>7. Threads(v, requests, server, f, ok)
    BY <1>1, <1>5, <2>3, <2>4, <2>5, <2>6
  <2> QED
    BY <1>4, <2>4, <2>7
<1>7. CASE PanelCloses
  <2>1. PICK panel : panel = FALSE
    OBVIOUS
  <2>2. PICK u : u = [World EXCEPT !.app.panel = panel] /\ Act(u)
    BY <1>7, <2>1 DEF PanelCloses
  <2>3. Same(u, World)
    BY <1>1, <2>2 DEF Worlds, Apps, Same
  <2> QED
    BY <1>3, <1>4, <2>2, <2>3, ThreadsSame
<1>8. CASE TryAgain
  <2>1. PICK v, what : what = "boot" /\ v = Ask(World, what, 0, 0) /\ Act(v)
    BY <1>8 DEF TryAgain
  <2>2. Threads(v, requests, server, f, ok)
    BY <1>1, <1>3, <1>5, <2>1
  <2> QED
    BY <1>4, <2>1, <2>2
<1>9. CASE GoHome
  <2>1. PICK u : u = [World EXCEPT !.app.screen = HomeScreen]
    OBVIOUS
  <2>2. HomeScreen \in Screens /\ HomeScreen.name # "thread"
    BY DEF HomeScreen, Screens
  <2>3. /\ u \in Worlds /\ u.requests = requests /\ u.app.shown = app.shown
        /\ u.app.seen = app.seen /\ u.app.screen = HomeScreen
    BY <1>1, <2>1, <2>2 DEF Worlds, Apps
  <2>4. PICK v, what : what = "convs" /\ v = Ask(u, what, 0, 0) /\ Act(v)
    BY <1>9, <2>1 DEF GoHome
  <2>5. Threads(u, requests, server, f, ok)
    BY <1>1, <1>3, <2>2, <2>3, <2>4, ElsewhereThreads
  <2>6. Threads(v, requests, server, f, ok)
    BY <1>1, <1>5, <2>3, <2>4, <2>5
  <2> QED
    BY <1>4, <2>4, <2>6
<1>10. CASE Opens
  <2>1. PICK i \in DOMAIN app.list : Act(OpenConversation(World, app.list[i].conv))
    BY <1>10 DEF Opens
  <2>2. app.list[i] \in Entries
    BY <1>1
  <2>3. PICK c \in Nat : c = app.list[i].conv
    BY <2>2 DEF Entries
  <2>4. PICK v : v = OpenConversation(World, c) /\ Act(v)
    BY <2>1, <2>3
  <2>5. Threads(v, requests, server, f, ok)
    BY <1>1, <1>3, <2>4, OpenConversationThreads
  <2> QED
    BY <1>4, <2>4, <2>5
<1>11. CASE StartsNew
  <2>1. PICK v : v = StartNew(World) /\ Act(v)
    BY <1>11 DEF StartsNew
  <2>2. Threads(v, requests, server, f, ok)
    BY <1>1, <1>3, <2>1, StartNewThreads
  <2> QED
    BY <1>4, <2>1, <2>2
<1> QED
  BY <1>6, <1>7, <1>8, <1>9, <1>10, <1>11

LEMMA WritingThreads ==
    ASSUME NEW ok, Shows(ok), Sends \/ Retries \/ LoadsOlder \/ Decides
    PROVE  Onward(ok)
<1>1. /\ ServerOK(server) /\ Sound(World, server) /\ events \in Nat
      /\ Threads(World, requests, server, events, ok) /\ World \in Worlds /\ World.app = app
      /\ World.requests = requests /\ IsFiniteSet(requests) /\ app \in Apps
      /\ app.screen \in Screens /\ Extends(server, server)
  BY ThreadInvIs DEF Shows
<1>2. PICK e \in Nat, f \in Nat : e = events /\ f = e + 1 /\ e <= f
  BY <1>1
<1>3. Threads(World, requests, server, f, ok)
  BY <1>1, <1>2, ThreadsLater
<1>4. ASSUME NEW v, Act(v), Threads(v, requests, server, f, ok)
      PROVE  Onward(ok)
  BY <1>2, <1>4, ActThreads
<1>5. CASE Sends
  <2>1. PICK v : v = Send(World, e + 1) /\ Act(v) /\ World.app.screen.name = "thread"
    BY <1>1, <1>2, <1>5 DEF Sends, OnScreen
  <2>2. Threads(v, requests, server, e + 1, ok)
    BY <1>1, <1>2, <2>1, SendThreads
  <2> QED
    BY <1>2, <1>4, <2>1, <2>2
<1>6. CASE Retries
  <2>1. PICK old : Act(Retry(World, old, e + 1)) /\ World.app.screen.name = "thread"
    BY <1>1, <1>2, <1>6 DEF Retries, OnScreen
  <2>2. PICK v : v = Retry(World, old, e + 1) /\ Act(v)
    BY <2>1
  <2>3. Threads(v, requests, server, e + 1, ok)
    BY <1>1, <1>2, <2>1, <2>2, RetryThreads
  <2> QED
    BY <1>2, <1>4, <2>2, <2>3
<1>7. CASE LoadsOlder
  <2>1. PICK c \in Nat, arg \in Nat : c = app.screen.conv /\ arg = app.cursor
    BY <1>1 DEF Screens, Apps
  <2>2. PICK v, what, op : what = "older" /\ op = None /\ v = AskOf(World, what, c, arg, op) /\ Act(v)
    BY <1>7, <2>1 DEF LoadsOlder, Ask
  <2>3. what \in Whats /\ op \in Calls
    BY <2>2 DEF Whats, Calls
  <2>4. Asked(v, World, what, c, arg)
    BY <1>1, <2>1, <2>2, <2>3, AskAdds
  <2>5. Threads(v, requests, server, f, ok)
    BY <1>3, <2>4, AskedThreads
  <2> QED
    BY <1>4, <2>2, <2>5
<1>8. CASE Decides
  <2>1. PICK v : Act(v) /\ v \in {Confirm(World), Decline(World)} /\ World.app.card # None
    BY <1>1, <1>8 DEF Decides
  <2>2. Same(v, World)
    BY <1>1, <2>1, DecideSame
  <2> QED
    BY <1>3, <1>4, <2>1, <2>2, ThreadsSame
<1> QED
  BY <1>5, <1>6, <1>7, <1>8

LEMMA PageThreads ==
    ASSUME NEW ok, Shows(ok), LoaderAnswers \/ TimerFires \/ Reload
    PROVE  Onward(ok)
<1>1. /\ events \in Nat /\ Threads(World, requests, server, events, ok) /\ World \in Worlds /\ World.app = app
      /\ World.requests = requests /\ IsFiniteSet(requests) /\ World.loader = loader /\ app \in Apps
      /\ Extends(server, server)
  BY ThreadInvIs DEF Shows
<1>2. CASE LoaderAnswers
  <2>1. PICK op \in Ops : /\ loader.busy[op] > 0
                          /\ Become(OnResult([World EXCEPT !.loader.busy[op] = @ - 1], op))
    BY <1>2 DEF LoaderAnswers
  <2>2. PICK v : v = OnResult([World EXCEPT !.loader.busy[op] = @ - 1], op)
    OBVIOUS
  <2>3. Same(v, World)
    BY <1>1, <2>1, <2>2, OnResultSame
  <2>4. server' = server /\ events' = events /\ Become(v)
    BY <1>2, <2>1, <2>2 DEF LoaderAnswers
  <2>5. Threads(v, requests, server, events', ok)
    BY <1>1, <2>3, <2>4, ThreadsSame
  <2> QED
    BY <2>4, <2>5, BecomeThreads DEF Shows, Onward
<1>3. CASE TimerFires
  <2>1. /\ app' = [app EXCEPT !.working = FALSE, !.timer = FALSE] /\ requests' = requests
        /\ server' = server /\ events' = events
    BY <1>3 DEF TimerFires
  <2>2. PICK u : u = World'
    OBVIOUS
  <2>3. u.app = app' /\ u.requests = requests
    BY <2>1, <2>2 DEF World
  <2>4. Same(u, World)
    BY <1>1, <2>1, <2>3 DEF Same, Apps
  <2>5. Threads(u, requests, server, events, ok)
    BY <1>1, <2>4, ThreadsSame
  <2> QED
    BY <1>1, <2>1, <2>2, <2>5 DEF Onward
<1>4. CASE Reload
  <2>1. app' = FreshApp /\ requests' = {FirstBoot} /\ server' = server
    BY <1>4 DEF Reload
  <2>2. World'.app = FreshApp /\ World'.requests = {FirstBoot}
    BY <2>1 DEF World
  <2>3. PICK u, f : u = World' /\ f = events'
    OBVIOUS
  <2>4. Threads(u, requests, server, f, ok)
    BY <2>2, <2>3, FreshThreads
  <2> QED
    BY <1>1, <2>1, <2>3, <2>4 DEF Onward
<1> QED
  BY <1>2, <1>3, <1>4

\* The page is one of the thread, and the message stored is in it.
LEMMA PayloadFits ==
    ASSUME ChatInv, NEW r \in requests, Does(r), r.what # "result",
           NEW q, q.what = r.what, q.conv = r.conv, q.got = Payload(r)
    PROVE  AnswerFits(q, server')
<1>1. ServerOK(server) /\ Fine(World, server) /\ Len(server.log) \in Nat
  BY ConvsAre DEF ChatInv
<1>2. r \in Reqs /\ RequestOK(r, server)
  BY <1>1, WorldIs, ShapeParts DEF Fine, Sound, Shape
<1>3. Extends(server', server)
  BY DoesStep DEF ServerStep
<1>4. CASE r.what \in {"list", "created", "older"}
  <2>1. PICK cursor : cursor = IF r.what = "older" THEN r.arg ELSE 0
    OBVIOUS
  <2>2. PICK page : page = MessagePage(server, r.conv, cursor)
    OBVIOUS
  <2>3. /\ PageOK(page, server)
        /\ \A i \in DOMAIN page.items : server.log[page.items[i]].conv = r.conv
        /\ \A i, j \in DOMAIN page.items : page.items[i] = page.items[j] => i = j
    BY <1>1, <2>2, MessagePageIs
  <2>4. q.got.items = page.items
    BY <1>4, <2>1, <2>2 DEF Payload, Nothing
  <2>5. PageFits(q.got.items, q.conv, server')
    BY <1>3, <2>3, <2>4 DEF PageFits, PageOK, Extends
  <2> QED
    BY <1>4, <2>5 DEF AnswerFits
<1>5. CASE r.what = "send"
  <2>1. PICK k \in Nat : Convs(server) = 1..k
    BY <1>1 DEF ServerOK
  <2>2. Cardinality(Convs(server)) = k
    <3>1. PICK a \in Int, b \in Int : a = 1 /\ b = k
      BY <2>1
    <3>2. Cardinality(a..b) = IF a > b THEN 0 ELSE b - a + 1
      BY FS_Interval
    <3> QED
      BY <2>1, <3>1, <3>2
  <2>3. r.conv \in Convs(server)
    BY <1>2, <1>5 DEF RequestOK, OfConv
  <2>4. PICK c \in 1..(Cardinality(Convs(server)) + 1), dir \in {"in", "out"} :
           c = r.conv /\ Store(c, dir)
    BY <1>5, <2>1, <2>2, <2>3 DEF Does
  <2>5. server'.log[Len(server.log) + 1].conv = r.conv
    BY <1>1, <2>4, StoreIs
  <2>6. q.got.id = Len(server.log) + 1
    BY <1>5 DEF Payload, Nothing
  <2> QED
    BY <1>5, <2>5, <2>6 DEF AnswerFits
<1>6. CASE r.what \notin {"list", "created", "older", "send"}
  BY <1>6 DEF AnswerFits
<1> QED
  BY <1>4, <1>5, <1>6

\* A request is served: the thread stays, and the answer is of its thread.
LEMMA ServeThreads ==
    ASSUME NEW ok, Shows(ok), Serve
    PROVE  /\ View(app'.shown, app'.screen, app'.seen, server', events', ok)
           /\ \A r \in requests' : AnswerFits(r, server')
<1>1. /\ ChatInv /\ Sound(World, server) /\ events \in Nat
      /\ Threads(World, requests, server, events, ok) /\ World.app = app /\ World.requests = requests
      /\ \A r \in requests : r \in Reqs /\ RequestOK(r, server) /\ AnswerFits(r, server)
  BY ThreadInvIs, ShapeParts DEF Shows, Sound, Shape
<1>2. PICK r \in requests :
        /\ r.stage = "sent" /\ Does(r)
        /\ requests' = (requests \ {r}) \cup
              IF r.what = "result" THEN {}
              ELSE {[r EXCEPT !.stage = "served", !.got = Payload(r)]}
        /\ UNCHANGED <<app, loader, ran, events>>
  BY DEF Serve
<1>3. PICK sv : sv = server'
  OBVIOUS
<1>4. Extends(sv, server)
  BY <1>1, <1>2, <1>3, DoesStep DEF ServerStep
<1>5. Threads(World, requests, sv, events, ok)
  BY <1>1, <1>4, ThreadsLater
<1>6. View(app'.shown, app'.screen, app'.seen, server', events', ok)
  BY <1>1, <1>2, <1>3, <1>5 DEF Threads
<1>7. ASSUME NEW x \in requests' PROVE AnswerFits(x, server')
  <2>1. CASE x \in requests
    <3>1. RequestOK(x, server) /\ AnswerFits(x, server)
      BY <1>1, <2>1
    <3> QED
      BY <1>3, <1>4, <3>1, AnswerFitsLater
  <2>2. CASE x \notin requests
    <3>1. r.what # "result" /\ x = [r EXCEPT !.stage = "served", !.got = Payload(r)]
      BY <1>2, <1>7, <2>2
    <3>2. x.what = r.what /\ x.conv = r.conv /\ x.got = Payload(r)
      BY <1>1, <3>1 DEF Reqs
    <3> QED
      BY <1>1, <1>2, <3>1, <3>2, PayloadFits
  <2> QED
    BY <2>1, <2>2
<1> QED
  BY <1>6, <1>7

LEMMA FailThreads ==
    ASSUME NEW ok, Shows(ok), Fail
    PROVE  Onward(ok)
<1>1. /\ Sound(World, server) /\ events \in Nat /\ Extends(server, server)
      /\ Threads(World, requests, server, events, ok) /\ World.app = app /\ World.requests = requests
      /\ requests \in SUBSET Reqs
  BY ThreadInvIs, ShapeParts DEF Shows, Sound
<1>2. PICK r \in requests :
        /\ requests' = (requests \ {r}) \cup
              IF r.what = "result" THEN {}
              ELSE {[r EXCEPT !.stage = "failed", !.got = Nothing]}
        /\ UNCHANGED <<app, server>> /\ events' = events + 1
  BY DEF Fail, Event
<1>3. r \in Reqs
  BY <1>1
<1>4. PICK f \in Nat : f = events + 1 /\ events <= f
  BY <1>1
<1>5. Threads(World, requests, server, f, ok)
  BY <1>1, <1>4, ThreadsLater
<1>6. PICK u : u = World'
  OBVIOUS
<1>7. u.app = World.app /\ u.requests = requests'
  BY <1>1, <1>2, <1>6 DEF World
<1>8. \A q \in u.requests : q \in World.requests \/ q.stage # "served"
  BY <1>1, <1>2, <1>3, <1>7 DEF Reqs
<1>9. Same(u, World)
  BY <1>7, <1>8 DEF Same
<1>10. Threads(u, requests, server, f, ok)
  BY <1>5, <1>9, ThreadsSame
<1> QED
  BY <1>1, <1>2, <1>4, <1>6, <1>10 DEF Onward

LEMMA OthersThreads ==
    ASSUME NEW ok, Shows(ok),
           \/ Reply \/ Park \/ Sweep \/ UNCHANGED vars
           \/ \E s : Connect(s) \/ Join(s) \/ Drop(s)
    PROVE  Onward(ok)
<1>1. ChatInv /\ events \in Nat /\ Extends(server, server)
  BY ThreadInvIs DEF Shows
<1>2. CASE Reply \/ Park \/ Sweep
  <2>1. /\ Extends(server', server) /\ app' = app /\ requests' = requests
        /\ events' \in Nat /\ events <= events'
    BY <1>1, <1>2, BackendIs DEF ServerStep
  <2> QED
    BY <2>1, StillThreads
<1>3. CASE \/ \E s : Connect(s) \/ Join(s) \/ Drop(s)
           \/ UNCHANGED vars
  <2>1. app' = app /\ requests' = requests /\ server' = server
    BY <1>3 DEF Connect, Join, Drop, vars
  <2>2. events' = events \/ events' = events + 1
    BY <1>3 DEF Connect, Join, Drop, Event, vars
  <2> QED
    BY <1>1, <2>1, <2>2, StillThreads
<1> QED
  BY <1>2, <1>3

LEMMA OnwardIs ==
    ASSUME NEW ok, Shows(ok), Onward(ok)
    PROVE  /\ View(app'.shown, app'.screen, app'.seen, server', events', ok)
           /\ \A r \in requests' : AnswerFits(r, server')
<1>1. \A r \in requests : RequestOK(r, server) /\ AnswerFits(r, server)
  BY ThreadInvIs DEF Shows, Sound, Shape
<1>2. World'.app = app' /\ World'.requests = requests'
  BY DEF World
<1>3. PICK sv : sv = server' /\ Extends(sv, server)
  BY DEF Onward
<1>4. ASSUME NEW r \in requests' PROVE AnswerFits(r, sv)
  <2>1. CASE r.stage = "served"
    <3>1. r \in requests
      BY <1>2, <1>4, <2>1 DEF Onward, Threads
    <3> QED
      BY <1>1, <1>3, <3>1, AnswerFitsLater
  <2>2. CASE r.stage # "served"
    BY <2>2 DEF AnswerFits
  <2> QED
    BY <2>1, <2>2
<1> QED
  BY <1>2, <1>3, <1>4 DEF Onward, Threads

LEMMA ThreadStep ==
    ASSUME NEW ok, Shows(ok), [Next]_vars, ok => ~\E r \in requests \ requests' : Late(r)
    PROVE  /\ View(app'.shown, app'.screen, app'.seen, server', events', ok)
           /\ \A r \in requests' : AnswerFits(r, server')
<1>1. CASE PanelOpens \/ PanelCloses \/ TryAgain \/ GoHome \/ Opens \/ StartsNew
  BY <1>1, VisitorThreads, OnwardIs
<1>2. CASE Sends \/ Retries \/ LoadsOlder \/ Decides
  BY <1>2, WritingThreads, OnwardIs
<1>3. CASE LoaderAnswers \/ TimerFires \/ Reload
  BY <1>3, PageThreads, OnwardIs
<1>4. CASE Answer
  BY <1>4, AnswerThreads, OnwardIs
<1>5. CASE Serve
  BY <1>5, ServeThreads
<1>6. CASE Fail
  BY <1>6, FailThreads, OnwardIs
<1>7. CASE \E s \in 1..(NumEvents + 1) : Deliver(s) \/ Connect(s) \/ Join(s) \/ Drop(s)
  BY <1>7, DeliverThreads, OthersThreads, OnwardIs
<1>8. CASE Reply \/ Park \/ Sweep \/ UNCHANGED vars
  BY <1>8, OthersThreads, OnwardIs
<1> QED
  BY <1>1, <1>2, <1>3, <1>4, <1>5, <1>6, <1>7, <1>8 DEF Next

LEMMA ThreadNext ==
    ASSUME ThreadInv, [Next]_vars
    PROVE  ThreadInv'
<1>1. ChatInv'
  BY NextIs DEF ThreadInv
<1>2. PICK off \in BOOLEAN : off = FALSE
  OBVIOUS
<1>3. Shows(off)
  BY <1>2, ShowsIs DEF ThreadInv
<1>4. /\ View(app'.shown, app'.screen, app'.seen, server', events', off)
      /\ \A r \in requests' : AnswerFits(r, server')
  BY <1>2, <1>3, ThreadStep
<1> QED
  BY <1>1, <1>2, <1>4 DEF ThreadInv

\* All that is shown counts when it is sound.
LEMMA SoundIs ==
    ASSUME NEW shown \in Seq(Items), NEW screen, NEW seen, NEW sv, NEW e,
           View(shown, screen, seen, sv, e, FALSE),
           \A i \in DOMAIN shown : shown[i].kind = "stored" =>
                 /\ \A j \in DOMAIN shown : shown[i] = shown[j] => i = j
                 /\ screen.name = "thread" => sv.log[shown[i].id].conv = screen.conv
                 /\ shown[i].id \in seen
    PROVE  View(shown, screen, seen, sv, e, TRUE)
<1>1. \A i \in DOMAIN shown : shown[i] \in Items
  OBVIOUS
<1>2. \A i, j \in DOMAIN shown : shown[i].kind = "stored" /\ Alike(shown[i], shown[j])
                                    => shown[i] = shown[j]
  BY <1>1 DEF Alike, Items
<1> QED
  BY <1>2 DEF View, Placed, Counts

\* In whatever order the socket, the pages and the answers to the visitor's own texts
\* come, and whatever the visitor does meanwhile, a thread gets a message twice, or one
\* of another conversation, by nothing but an answer that comes when its own thread has
\* been left (controller.ts, seenIds, openConversation, send and replaceTempMessage).
THEOREM LateAnswersAlone == Spec => OnlyLateAnswersMixUp
<1>1. Init => ThreadInv
  <2> SUFFICES ASSUME Init PROVE ThreadInv
    OBVIOUS
  <2>1. ChatInv /\ app = FreshApp /\ requests = {FirstBoot}
    BY InitIs DEF Init
  <2>2. app.shown = << >> /\ FirstBoot.stage # "served"
    BY <2>1 DEF FreshApp, FirstBoot
  <2>3. View(app.shown, app.screen, app.seen, server, events, FALSE)
    BY <2>2, ViewOfNothing
  <2> QED
    BY <2>1, <2>2, <2>3 DEF ThreadInv, AnswerFits
<1>2. ThreadInv /\ [Next]_vars => ThreadInv'
  BY ThreadNext
<1>3. ThreadInv /\ ThreadInv' /\ [Next]_vars =>
         [ThreadSound /\ ~ThreadSound' => \E r \in requests \ requests' : Late(r)]_vars
  <2> SUFFICES ASSUME ThreadInv, ThreadInv', [Next]_vars, ThreadSound,
                      ~\E r \in requests \ requests' : Late(r)
               PROVE  ThreadSound'
    OBVIOUS
  <2>1. PICK on \in BOOLEAN : on = TRUE
    OBVIOUS
  <2>2. app.shown \in Seq(Items) /\ app'.shown \in Seq(Items)
    <3>1. app \in Apps
      BY ThreadInvIs
    <3>2. PICK u, sv : u = World' /\ sv = server'
      OBVIOUS
    <3>3. Fine(u, sv) /\ u.app = app'
      BY <3>2 DEF ThreadInv, ChatInv, World
    <3>4. app' \in Apps
      BY <3>3, ShapeParts DEF Fine, Sound, Worlds
    <3> QED
      BY <3>1, <3>4 DEF Apps
  <2>3. View(app.shown, app.screen, app.seen, server, events, on)
    BY <2>1, <2>2, SoundIs DEF ThreadInv, ThreadSound, ThreadShows
  <2>4. Shows(on)
    BY <2>3, ShowsIs
  <2>5. View(app'.shown, app'.screen, app'.seen, server', events', on)
    BY <2>4, ThreadStep
  <2>6. PICK a, sv, f : /\ a = app' /\ sv = server' /\ f = events' /\ a.shown \in Seq(Items)
                        /\ View(a.shown, a.screen, a.seen, sv, f, TRUE)
    BY <2>1, <2>2, <2>5
  <2>7. \A i \in DOMAIN a.shown : a.shown[i].kind = "stored" =>
           /\ \A j \in DOMAIN a.shown : a.shown[i] = a.shown[j] => i = j
           /\ a.screen.name = "thread" => sv.log[a.shown[i].id].conv = a.screen.conv
           /\ a.shown[i].id \in a.seen
    BY <2>6 DEF View, Alike, Placed, Counts
  <2> QED
    BY <2>6, <2>7 DEF ThreadSound, ThreadShows
<1> QED
  BY <1>1, <1>2, <1>3, PTL DEF Spec, OnlyLateAnswersMixUp
=============================================================================
