------------------------ MODULE ExtensionDrive_proofs ------------------------
(***************************************************************************)
(* Theorems about the remote drive session inside the extension, for any   *)
(* number of tabs, operations and events.                                  *)
(***************************************************************************)
EXTENDS ExtensionDrive, FiniteSetTheorems, SequenceTheorems, WellFoundedInduction, TLAPS

OpNames == {"open", "act", "close"}

TabRecs == [from : {"user", "drive", "page"}, opener : Nat,
            popup : BOOLEAN, live : BOOLEAN]

\* Tabs that are not the user's (and 0, no tab).
NotUsers == {t \in 0..Len(tabs) : t # 0 => tabs[t].from # "user"}

ControllerRecs ==
    [n : Nat \ {0}, tab : NotUsers, created : NotUsers, openers : Seq(NotUsers),
     pending : NotUsers, adopt : NotUsers, cdp : BOOLEAN,
     queue : Seq(OpNames \cup {"end"}), at : {"start", "make", "attach"}]

\* A controller without a tab knows nothing of one.
Blank(c) == c.tab = 0 => c.created = 0 /\ c.pending = 0 /\ c.openers = << >> /\ ~c.cdp

\* An operation makes one controller at most, so that a number is always left
\* for a new one.
Numbers == {c.n : c \in controllers}
Counted == ops \in Nat /\ IsFiniteSet(Numbers) /\ Cardinality(Numbers) <= ops

ControllersOK ==
    /\ \A c \in controllers : c \in ControllerRecs /\ Blank(c)
    /\ \A c, d \in controllers : c.n = d.n => c = d
    /\ remote \in Nat
    /\ remote # 0 => \E c \in controllers : c.n = remote
    /\ Counted

RecordsOK ==
    /\ panel \in NotUsers /\ adopt \in NotUsers /\ session \in NotUsers
    /\ journal \in [panel : NotUsers, adopt : NotUsers]
    /\ local \in {"no", "loading", "yes"}

\* Whatever the session, its records and its hints name, the user has not
\* opened it.
TypeInv == tabs \in Seq(TabRecs) /\ ControllersOK /\ RecordsOK

\* With operations that do not overlap one controller at most is at work:
\* the one in use, or one that was stopped, and then there is no session.
OneAtWork ==
    /\ ~up => controllers = {} /\ remote = 0
    /\ \A c, d \in controllers : c.queue # << >> /\ d.queue # << >> => c = d
    /\ \A c \in controllers : c.queue # << >> /\ c.n # remote => remote = 0 /\ session = 0
    /\ \A c \in controllers : c.n = remote => c.queue \in Seq(OpNames)

\* Where the session's tab is to be found: in the controller in use, with
\* the panel persisted as its mirror; else in the hint, persisted as well.
Found ==
    \/ journal.panel = session /\ \E c \in controllers : c.n = remote /\ c.tab = session
    \/ remote = 0 /\ adopt = session /\ journal.panel = 0 /\ journal.adopt = session

KeptInv ==
    /\ OneAtWork
    /\ session # 0 /\ Live(session) =>
          /\ up /\ Idle => Found
          /\ ~up => session = IF journal.panel # 0 THEN journal.panel ELSE journal.adopt

----------------------------------------------------------------------------
(* The tabs: they only grow in number, and nobody changes who opened one.  *)

TabsGrow == tabs' \in Seq(TabRecs) /\ NotUsers \subseteq NotUsers'

LEMMA TabsStay == ASSUME TypeInv, tabs' = tabs PROVE TabsGrow
BY DEF TabsGrow, TypeInv, NotUsers

LEMMA NoTab == ASSUME TypeInv PROVE 0 \in NotUsers
<1>1. Len(tabs) \in Nat
  BY LenProperties DEF TypeInv
<1> QED BY <1>1 DEF NotUsers

LEMMA TabAdded ==
    ASSUME TypeInv, NEW t \in TabRecs, tabs' = Append(tabs, t)
    PROVE  /\ TabsGrow /\ Fresh \in Nat \ {0}
           /\ t.from # "user" => Fresh \in NotUsers'
<1>1. /\ Len(tabs) \in Nat /\ tabs' \in Seq(TabRecs) /\ Len(tabs') = Len(tabs) + 1
      /\ \A i \in 1..Len(tabs) : tabs'[i] = tabs[i]
      /\ tabs'[Len(tabs) + 1] = t
  BY AppendProperties, LenProperties DEF TypeInv
<1> QED BY <1>1 DEF TabsGrow, NotUsers, Fresh

LEMMA TabClosed ==
    ASSUME TypeInv, NEW t \in 0..Len(tabs), tabs' = Closed(tabs, t) PROVE TabsGrow
<1>1. CASE t = 0
  BY <1>1, TabsStay DEF Closed
<1>2. CASE t # 0
  <2> DEFINE e == [tabs[t] EXCEPT !.live = FALSE]
  <2>1. t \in 1..Len(tabs) /\ Len(tabs) \in Nat
    BY <1>2, LenProperties DEF TypeInv
  <2>2. tabs[t] \in TabRecs
    BY <2>1, ElementOfSeq DEF TypeInv
  <2>3. e \in TabRecs /\ e.from = tabs[t].from
    BY <2>2 DEF TabRecs
  <2>4. tabs' = [tabs EXCEPT ![t] = e]
    BY <1>2 DEF Closed
  <2> HIDE DEF e
  <2>5. /\ tabs' \in Seq(TabRecs) /\ Len(tabs') = Len(tabs)
        /\ \A i \in 1..Len(tabs) : tabs'[i] = IF i = t THEN e ELSE tabs[i]
    BY <2>1, <2>3, <2>4, ExceptSeq DEF TypeInv
  <2> QED BY <2>1, <2>3, <2>5 DEF TabsGrow, NotUsers
<1> QED BY <1>1, <1>2

LEMMA TabKept ==
    ASSUME TypeInv, NEW t, tabs' = Append(tabs, t), NEW u \in 1..Len(tabs)
    PROVE  tabs'[u] = tabs[u]
<1>1. tabs \in Seq(TabRecs \cup {t})
  BY SeqMonotonic DEF TypeInv
<1> QED BY <1>1, AppendProperties

LEMMA TabGone ==
    ASSUME TypeInv, NEW t \in DOMAIN tabs, tabs' = Closed(tabs, t), NEW u \in 1..Len(tabs),
           tabs'[u].live
    PROVE  tabs[u].live
<1>1. t \in 1..Len(tabs) /\ t # 0 /\ DOMAIN tabs = 1..Len(tabs) /\ tabs[u] \in TabRecs
  BY LenProperties, ElementOfSeq DEF TypeInv
<1> QED BY <1>1 DEF Closed, TabRecs

\* What fitted the tabs there were fits the tabs there are.
LEMMA RecordsGrow ==
    ASSUME TabsGrow, NEW c \in ControllerRecs PROVE c \in ControllerRecs'
<1>1. c.openers \in Seq(NotUsers')
  BY SeqMonotonic DEF TabsGrow, ControllerRecs
<1> QED BY <1>1 DEF TabsGrow, ControllerRecs

LEMMA RecordsStay ==
    ASSUME RecordsOK, TabsGrow, UNCHANGED <<panel, adopt, session, journal, local>>
    PROVE  RecordsOK'
BY DEF RecordsOK, TabsGrow

----------------------------------------------------------------------------
(* The controllers.                                                        *)

\* A set of numbers that grows with an operation at most.
LEMMA CountStays ==
    ASSUME Counted, Numbers' \subseteq Numbers, ops' \in {ops, ops + 1} PROVE Counted'
<1>1. /\ IsFiniteSet(Numbers') /\ Cardinality(Numbers') <= Cardinality(Numbers)
      /\ Cardinality(Numbers') \in Nat /\ Cardinality(Numbers) \in Nat
  BY FS_Subset, FS_CardinalityType DEF Counted
<1> QED BY <1>1 DEF Counted

LEMMA CountAdds ==
    ASSUME Counted, NEW n, Numbers' \subseteq Numbers \cup {n}, ops' = ops + 1 PROVE Counted'
<1>1. IsFiniteSet(Numbers \cup {n}) /\ Cardinality(Numbers \cup {n}) <= Cardinality(Numbers) + 1
  <2>1. Cardinality(Numbers) \in Nat
    BY FS_CardinalityType DEF Counted
  <2> QED BY <2>1, FS_AddElement DEF Counted
<1>2. /\ IsFiniteSet(Numbers') /\ Cardinality(Numbers') <= Cardinality(Numbers \cup {n})
      /\ Cardinality(Numbers') \in Nat /\ Cardinality(Numbers) \in Nat
      /\ Cardinality(Numbers \cup {n}) \in Nat
  BY <1>1, FS_Subset, FS_CardinalityType DEF Counted
<1> QED BY <1>1, <1>2 DEF Counted

\* There are fewer controllers than operations, and so a free number.
LEMMA NumberLeft ==
    ASSUME Counted, ops < NumOps
    PROVE  \E i \in 1..(NumOps + 1) : \A c \in controllers : c.n # i
<1> SUFFICES ASSUME 1..(NumOps + 1) \subseteq Numbers PROVE FALSE
  BY DEF Numbers
<1>1. NumOps \in Nat /\ ops \in Nat
  BY DriveAssumption DEF Counted
<1>2. Cardinality(1..(NumOps + 1)) = NumOps + 1
  BY <1>1, FS_Interval
<1>3. Cardinality(1..(NumOps + 1)) <= Cardinality(Numbers)
  BY FS_Subset DEF Counted
<1>4. Cardinality(Numbers) \in Nat /\ Cardinality(Numbers) <= ops
  BY FS_CardinalityType DEF Counted
<1> QED BY <1>1, <1>2, <1>3, <1>4

\* A controller that goes on, or that is gone.
LEMMA BecomesTypes ==
    ASSUME TypeInv, TabsGrow, NEW c \in controllers, NEW d \in ControllerRecs',
           Blank(d), d.n = c.n, Becomes(c, d), remote' \in {remote, 0}, ops' = ops
    PROVE  ControllersOK'
<1>1. \A x \in controllers' : x = d \/ x \in controllers \ {c}
  BY DEF Becomes, Keep
<1>2. \A x \in (controllers \ {c}) \cup {d} : x.n = remote' => x \in controllers'
  BY DEF Becomes, Keep, Spent
<1>3. \A x \in controllers : x \in ControllerRecs' /\ Blank(x)
  BY RecordsGrow DEF TypeInv, ControllersOK
<1>4. (\A x \in controllers : x \in ControllerRecs /\ Blank(x))'
  BY <1>1, <1>3 DEF Blank
<1>5. \A x, y \in controllers' : x.n = y.n => x = y
  BY <1>1 DEF TypeInv, ControllersOK
<1>6. remote' \in Nat /\ (remote' # 0 => \E x \in controllers' : x.n = remote')
  BY <1>2 DEF TypeInv, ControllersOK
<1>7. Numbers' \subseteq Numbers
  BY <1>1 DEF Numbers
<1>8. Counted'
  BY <1>7, CountStays DEF TypeInv, ControllersOK
<1> QED BY <1>4, <1>5, <1>6, <1>8 DEF ControllersOK

\* An operation of a controller that goes on, or that ends.
LEMMA ContinueTypes ==
    ASSUME TypeInv, TabsGrow, NEW c \in controllers, NEW d \in ControllerRecs', Blank(d),
           d.n = c.n, NEW at \in {"start", "make", "attach"}, Continue(c, d, at)
    PROVE  TypeInv'
<1> DEFINE e == [d EXCEPT !.at = at]
<1>1. e \in ControllerRecs' /\ e.n = c.n /\ Blank(e)
  BY DEF ControllerRecs, Blank
<1>2. Becomes(c, e)
  BY DEF Continue
<1> HIDE DEF e
<1>3. ControllersOK'
  BY <1>1, <1>2, BecomesTypes DEF Continue
<1>4. RecordsOK'
  BY RecordsStay DEF Continue, TypeInv
<1> QED BY <1>3, <1>4 DEF TypeInv, TabsGrow

LEMMA SettleTypes ==
    ASSUME TypeInv, TabsGrow, NEW c \in controllers, NEW d \in ControllerRecs', Blank(d),
           d.n = c.n, d.queue # << >>, Settle(c, d)
    PROVE  TypeInv'
<1> DEFINE e == [d EXCEPT !.queue = Tail(@), !.at = "start"]
<1>1. Tail(d.queue) \in Seq(OpNames \cup {"end"})
  BY HeadTailProperties DEF ControllerRecs
<1>2. /\ e \in ControllerRecs' /\ e.n = c.n /\ Blank(e) /\ e.tab \in NotUsers'
  BY <1>1 DEF ControllerRecs, Blank
<1>3. /\ Becomes(c, e) /\ remote' \in {remote, 0}
      /\ \/ UNCHANGED <<panel, journal, session>>
         \/ /\ panel' \in {0, e.tab} /\ journal' = [panel |-> panel', adopt |-> adopt]
            /\ session' \in {0, e.tab, session}
      /\ UNCHANGED <<adopt, local, ops>>
  BY DEF Settle
<1> HIDE DEF e
<1>4. ControllersOK'
  BY <1>2, <1>3, BecomesTypes
<1>5. 0 \in NotUsers'
  BY NoTab DEF TabsGrow
<1>6. RecordsOK'
  BY <1>2, <1>3, <1>5 DEF TypeInv, RecordsOK, TabsGrow
<1> QED BY <1>4, <1>6 DEF TypeInv, TabsGrow

\* A controller that was disposed of.
LEMMA DisposedTypes ==
    ASSUME TypeInv, NEW c \in ControllerRecs
    PROVE  /\ Disposed(c) \in ControllerRecs /\ Blank(Disposed(c))
           /\ Disposed(c).n = c.n /\ Disposed(c).queue = c.queue
<1>1. << >> \in Seq(NotUsers) /\ 0 \in NotUsers
  BY NoTab, EmptySeq
<1>2. New(c.n, 0) \in ControllerRecs /\ Blank(New(c.n, 0)) /\ New(c.n, 0).n = c.n
  <2>1. c.n \in Nat \ {0} /\ << >> \in Seq(OpNames \cup {"end"})
    BY EmptySeq DEF ControllerRecs
  <2> QED BY <1>1, <2>1 DEF New, ControllerRecs, Blank
<1> QED BY <1>2 DEF Disposed, ControllerRecs, Blank

LEMMA UnderTypes ==
    ASSUME TypeInv, NEW c, NEW op, NEW at, Under(c, op, at)
    PROVE  /\ c \in controllers /\ c \in ControllerRecs /\ Blank(c)
           /\ c.queue # << >> /\ Op(c) = op
BY DEF Under, TypeInv, ControllersOK

LEMMA OpenTypes == ASSUME TypeInv, NEW c \in controllers, Open(c) PROVE TypeInv'
<1>1. c \in ControllerRecs /\ Blank(c) /\ c.queue # << >>
  BY UnderTypes DEF Open
<1> DEFINE t == Target(c)
           d == [c EXCEPT !.adopt = 0]
           f == [d EXCEPT !.tab = t, !.created = t, !.cdp = FALSE]
<1>2. t \in NotUsers /\ c.created \in 0..Len(tabs)
  BY <1>1, NoTab DEF Target, ControllerRecs, NotUsers
<1>3. CASE t = 0
  <2>1. tabs' = Closed(tabs, c.created) /\ Continue(c, Disposed(c), "make")
    BY <1>3 DEF Open
  <2>2. TabsGrow
    BY <1>2, <2>1, TabClosed
  <2>3. Disposed(c) \in ControllerRecs'
    BY <1>1, <2>2, DisposedTypes, RecordsGrow
  <2> QED BY <1>1, <2>1, <2>2, <2>3, DisposedTypes, ContinueTypes
<1>4. CASE t # 0
  <2>1. TabsGrow
    BY <1>4, TabsStay DEF Open
  <2>2. /\ d \in ControllerRecs /\ Blank(d) /\ d.n = c.n /\ d.queue # << >>
        /\ f \in ControllerRecs /\ Blank(f) /\ f.n = c.n
    BY <1>1, <1>2, <1>4, NoTab DEF ControllerRecs, Blank
  <2>3. Settle(c, d) \/ Continue(c, f, "attach")
    BY <1>4 DEF Open
  <2> HIDE DEF d, f
  <2> QED BY <2>1, <2>2, <2>3, RecordsGrow, SettleTypes, ContinueTypes
<1> QED BY <1>3, <1>4

LEMMA MakeTabTypes == ASSUME TypeInv, NEW c \in controllers, MakeTab(c) PROVE TypeInv'
<1>1. c \in ControllerRecs
  BY UnderTypes DEF MakeTab
<1> DEFINE t == Tab("drive", 0, FALSE)
           d == [c EXCEPT !.tab = Fresh, !.created = Fresh]
<1>2. t \in TabRecs /\ t.from # "user"
  BY DEF Tab, TabRecs
<1>3. TabsGrow /\ Fresh \in NotUsers' /\ Fresh # 0
  BY <1>2, TabAdded DEF MakeTab
<1>4. c \in ControllerRecs'
  BY <1>1, <1>3, RecordsGrow
<1>5. d \in ControllerRecs' /\ Blank(d) /\ d.n = c.n
  BY <1>3, <1>4 DEF ControllerRecs, Blank
<1>6. Continue(c, d, "attach")
  BY DEF MakeTab
<1> HIDE DEF d
<1> QED BY <1>3, <1>5, <1>6, ContinueTypes

LEMMA AttachTypes == ASSUME TypeInv, NEW c \in controllers, Attach(c) PROVE TypeInv'
<1>1. c \in ControllerRecs /\ Blank(c) /\ c.queue # << >>
  BY UnderTypes DEF Attach
<1>2. TabsGrow
  BY TabsStay DEF Attach
<1> DEFINE d == [c EXCEPT !.cdp = TRUE]
<1>3. CASE Live(c.tab) /\ Settle(c, d)
  <2>1. d \in ControllerRecs /\ Blank(d) /\ d.n = c.n /\ d.queue # << >>
    BY <1>1, <1>3 DEF ControllerRecs, Blank, Live
  <2>2. Settle(c, d)
    BY <1>3
  <2> HIDE DEF d
  <2> QED BY <1>2, <2>1, <2>2, RecordsGrow, SettleTypes
<1>4. CASE Settle(c, c)
  BY <1>1, <1>2, <1>4, RecordsGrow, SettleTypes
<1> QED BY <1>3, <1>4 DEF Attach

\* Of finitely many numbers one is the greatest.
LEMMA HasGreatest ==
    ASSUME NEW n \in Nat, NEW S \in SUBSET (1..n), S # {}
    PROVE  \E k \in S : \A j \in S : j <= k
<1> DEFINE R == OpToRel(<, Nat)
           T == {n - k : k \in S}
<1>1. T \subseteq Nat /\ T # {}
  OBVIOUS
<1>2. IsWellFoundedOn(R, Nat)
  BY NatLessThanWellFounded
<1>3. \A x, y \in Nat : x < y => <<x, y>> \in R
  BY DEF OpToRel
<1> HIDE DEF R
<1>4. PICK x \in T : \A y \in T : ~(<<y, x>> \in R)
  <2> HIDE DEF T
  <2> QED BY <1>1, <1>2, WFMin
<1>5. PICK k \in S : x = n - k
  OBVIOUS
<1>6. \A j \in S : ~(n - j < n - k)
  <2>1. \A j \in S : n - j \in T /\ n - j \in Nat
    OBVIOUS
  <2>2. x \in Nat
    BY <1>1
  <2> HIDE DEF T
  <2> QED BY <1>3, <1>4, <1>5, <2>1, <2>2
<1> QED BY <1>6

\* Where an operation of the client goes on: where it is, in a popup, or in
\* an opener.
ActTo(c, d) == Settle(c, d) \/ Continue(c, d, "attach")

LEMMA ActCases ==
    ASSUME TypeInv, NEW c \in controllers, Act(c)
    PROVE  \E d \in ControllerRecs :
              /\ Blank(d) /\ d.n = c.n /\ d.queue = c.queue
              /\ ActTo(c, d)
<1>1. c \in ControllerRecs /\ Blank(c)
  BY UnderTypes DEF Act
<1> DEFINE d == [c EXCEPT !.pending = 0]
           alive == {i \in DOMAIN c.openers : Live(c.openers[i])}
           i == CHOOSE k \in alive : \A j \in alive : j <= k
           popup == [d EXCEPT !.openers = Append(@, c.tab), !.tab = c.pending]
           alone == [d EXCEPT !.openers = << >>]
           back == [d EXCEPT !.openers = SubSeq(@, 1, i - 1), !.tab = c.openers[i]]
<1>2. d \in ControllerRecs /\ Blank(d) /\ d.n = c.n /\ d.queue = c.queue
  BY <1>1, NoTab DEF ControllerRecs, Blank
<1>3. CASE Settle(c, c)
  BY <1>1, <1>3 DEF ActTo
<1>4. CASE ~Settle(c, c) /\ Live(c.pending) /\ c.pending # c.tab
  <2>1. Continue(c, popup, "attach")
    BY <1>4 DEF Act
  <2>2. c.openers \in Seq(NotUsers) /\ c.tab \in NotUsers /\ c.pending # 0
    BY <1>1, <1>4 DEF ControllerRecs, Live
  <2>3. Append(c.openers, c.tab) \in Seq(NotUsers)
    BY <2>2, AppendProperties
  <2>4. popup \in ControllerRecs /\ Blank(popup) /\ popup.n = c.n /\ popup.queue = c.queue
    BY <1>1, <2>2, <2>3, NoTab DEF ControllerRecs, Blank
  <2> HIDE DEF popup
  <2> QED BY <2>1, <2>4 DEF ActTo
<1>5. CASE ~Settle(c, c) /\ ~(Live(c.pending) /\ c.pending # c.tab)
  <2>1. CASE c.openers = << >> \/ Live(c.tab)
    <3>1. Settle(c, d)
      BY <1>5, <2>1 DEF Act
    <3> HIDE DEF d
    <3> QED BY <1>2, <3>1 DEF ActTo
  <2>2. CASE ~(c.openers = << >> \/ Live(c.tab)) /\ alive = {}
    <3>1. Settle(c, alone)
      BY <1>5, <2>2 DEF Act
    <3>2. alone \in ControllerRecs /\ Blank(alone) /\ alone.n = c.n /\ alone.queue = c.queue
      BY <1>1, NoTab, EmptySeq DEF ControllerRecs, Blank
    <3> HIDE DEF alone
    <3> QED BY <3>1, <3>2 DEF ActTo
  <2>3. CASE ~(c.openers = << >> \/ Live(c.tab)) /\ alive # {}
    <3>1. Continue(c, back, "attach")
      BY <1>5, <2>3 DEF Act
    <3>2. /\ c.openers \in Seq(NotUsers) /\ Len(c.openers) \in Nat
          /\ DOMAIN c.openers = 1..Len(c.openers)
          /\ \A j \in 1..Len(c.openers) : c.openers[j] \in NotUsers
      BY <1>1, LenProperties, ElementOfSeq DEF ControllerRecs
    <3>3. i \in alive
      <4>1. alive \subseteq 1..Len(c.openers)
        BY <3>2
      <4> HIDE DEF alive
      <4>2. \E k \in alive : \A j \in alive : j <= k
        BY <2>3, <3>2, <4>1, HasGreatest
      <4> QED BY <4>2
    <3>4. i \in 1..Len(c.openers) /\ c.openers[i] \in NotUsers /\ c.openers[i] # 0
      BY <3>2, <3>3 DEF Live
    <3> HIDE DEF i, alive
    <3>5. SubSeq(c.openers, 1, i - 1) \in Seq(NotUsers)
      BY <3>2, <3>4, SubSeqProperties
    <3>6. back \in ControllerRecs /\ Blank(back) /\ back.n = c.n /\ back.queue = c.queue
      BY <1>1, <3>4, <3>5, NoTab DEF ControllerRecs, Blank
    <3> HIDE DEF back
    <3> QED BY <3>1, <3>6 DEF ActTo
  <2> QED BY <2>1, <2>2, <2>3
<1> QED BY <1>3, <1>4, <1>5

LEMMA ActTypes == ASSUME TypeInv, NEW c \in controllers, Act(c) PROVE TypeInv'
<1>1. c.queue # << >>
  BY UnderTypes DEF Act
<1>2. TabsGrow
  BY TabsStay DEF Act
<1>3. PICK d \in ControllerRecs : /\ Blank(d) /\ d.n = c.n /\ d.queue = c.queue
                                  /\ ActTo(c, d)
  BY ActCases
<1> QED BY <1>1, <1>2, <1>3, RecordsGrow, SettleTypes, ContinueTypes DEF ActTo

LEMMA CloseTypes == ASSUME TypeInv, NEW c \in controllers, Close(c) PROVE TypeInv'
<1>1. c \in ControllerRecs /\ c.queue # << >>
  BY UnderTypes DEF Close
<1>2. TabsGrow
  BY <1>1, TabClosed DEF Close, ControllerRecs, NotUsers
<1>3. Disposed(c) \in ControllerRecs'
  BY <1>1, <1>2, DisposedTypes, RecordsGrow
<1> QED BY <1>1, <1>2, <1>3, DisposedTypes, SettleTypes DEF Close

----------------------------------------------------------------------------
(* Operations that arrive, the user, the pages, the worker.                *)

\* Controllers that are changed one by one, and keep their numbers.
LEMMA EachTypes ==
    ASSUME TypeInv, TabsGrow, NEW f \in [controllers -> ControllerRecs'],
           controllers' = {f[c] : c \in controllers},
           \A c \in controllers : f[c].n = c.n /\ Blank(f[c]),
           remote' \in {remote, 0}, ops' \in {ops, ops + 1}
    PROVE  ControllersOK'
<1>1. \A x \in controllers' : \E c \in controllers : x = f[c] /\ x.n = c.n /\ Blank(x)
  OBVIOUS
<1>2. \A x, y \in controllers' : x.n = y.n => x = y
  BY <1>1 DEF TypeInv, ControllersOK
<1>3. remote' \in Nat /\ (remote' # 0 => \E x \in controllers' : x.n = remote')
  BY DEF TypeInv, ControllersOK
<1>4. Numbers' \subseteq Numbers
  BY <1>1 DEF Numbers
<1>5. Counted'
  BY <1>4, CountStays DEF TypeInv, ControllersOK
<1>6. (\A x \in controllers : x \in ControllerRecs /\ Blank(x))'
  BY <1>1 DEF Blank
<1> QED BY <1>2, <1>3, <1>5, <1>6 DEF ControllersOK

LEMMA QueuedTypes ==
    ASSUME NEW c \in ControllerRecs, NEW op \in OpNames \cup {"end"}
    PROVE  /\ Queued(c, op) \in ControllerRecs /\ Queued(c, op).n = c.n
           /\ Blank(c) => Blank(Queued(c, op))
<1>1. Append(c.queue, op) \in Seq(OpNames \cup {"end"})
  BY AppendProperties DEF ControllerRecs
<1> QED BY <1>1 DEF Queued, ControllerRecs, Blank

LEMMA ArriveTypes == ASSUME TypeInv, NEW op \in OpNames, Arrive(op) PROVE TypeInv'
<1>1. TabsGrow /\ ops' = ops + 1
  BY TabsStay DEF Arrive
<1>2. \A c \in controllers : c \in ControllerRecs /\ Blank(c)
  BY DEF TypeInv, ControllersOK
<1>3. RecordsOK'
  <2>1. adopt' \in {adopt, 0} /\ UNCHANGED <<panel, session, journal, local>>
    BY DEF Arrive
  <2> QED BY <1>1, <2>1, NoTab DEF TypeInv, RecordsOK, TabsGrow
<1>4. CASE op = "open" /\ local # "yes" /\ remote = 0
  <2> DEFINE n == CHOOSE i \in 1..(NumOps + 1) : \A c \in controllers : c.n # i
             d == Queued(New(n, adopt), op)
  <2>1. remote' = n /\ controllers' = controllers \cup {d}
    BY <1>4 DEF Arrive
  <2>2. n \in 1..(NumOps + 1) /\ \A c \in controllers : c.n # n
    <3>1. \E i \in 1..(NumOps + 1) : \A c \in controllers : c.n # i
      BY NumberLeft DEF Arrive, TypeInv, ControllersOK
    <3> QED BY <3>1
  <2>3. n \in Nat \ {0}
    BY <2>2, DriveAssumption
  <2> HIDE DEF n
  <2>4. New(n, adopt) \in ControllerRecs /\ Blank(New(n, adopt)) /\ New(n, adopt).n = n
    <3>1. /\ << >> \in Seq(NotUsers) /\ 0 \in NotUsers /\ adopt \in NotUsers
          /\ << >> \in Seq(OpNames \cup {"end"})
      BY NoTab, EmptySeq DEF TypeInv, RecordsOK
    <3> QED BY <2>3, <3>1 DEF New, ControllerRecs, Blank
  <2>5. d \in ControllerRecs' /\ Blank(d) /\ d.n = n
    BY <1>1, <2>4, QueuedTypes, RecordsGrow
  <2> HIDE DEF d
  <2>6. \A c \in controllers : c \in ControllerRecs'
    BY <1>1, <1>2, RecordsGrow
  <2>7. (\A c \in controllers : c \in ControllerRecs /\ Blank(c))'
    BY <1>2, <2>1, <2>5, <2>6 DEF Blank
  <2>8. \A x, y \in controllers' : x.n = y.n => x = y
    BY <2>1, <2>2, <2>5 DEF TypeInv, ControllersOK
  <2>9. remote' \in Nat /\ \E x \in controllers' : x.n = remote'
    BY <2>1, <2>3, <2>5
  <2>10. Counted'
    <3>1. Numbers' \subseteq Numbers \cup {n}
      BY <2>1, <2>5 DEF Numbers
    <3> QED BY <1>1, <3>1, CountAdds DEF TypeInv, ControllersOK
  <2> QED BY <1>1, <1>3, <2>7, <2>8, <2>9, <2>10 DEF TypeInv, ControllersOK, TabsGrow
<1>5. CASE ~(op = "open" /\ local # "yes" /\ remote = 0)
  <2> DEFINE f == [c \in controllers |->
                     IF c.n = remote /\ ~(op = "open" /\ local = "yes")
                     THEN Queued(c, op) ELSE c]
  <2>1. remote' = remote /\ controllers' = {f[c] : c \in controllers}
    BY <1>5 DEF Arrive
  <2>2. \A c \in controllers : /\ f[c] \in ControllerRecs /\ f[c].n = c.n /\ Blank(f[c])
    BY <1>2, QueuedTypes
  <2>3. f \in [controllers -> ControllerRecs']
    BY <1>1, <2>2, RecordsGrow
  <2> HIDE DEF f
  <2>4. ControllersOK'
    BY <1>1, <2>1, <2>2, <2>3, EachTypes
  <2> QED BY <1>1, <1>3, <2>4 DEF TypeInv, TabsGrow
<1> QED BY <1>4, <1>5

LEMMA StopTypes == ASSUME TypeInv, StopRemote PROVE TypeInv'
<1> DEFINE f == [c \in controllers |-> IF c.n = remote THEN Queued(c, "end") ELSE c]
<1>1. TabsGrow
  BY TabsStay DEF StopRemote
<1>2. /\ remote' = 0 /\ ops' = ops /\ controllers' = {f[c] : c \in controllers}
      /\ panel' = 0 /\ adopt' = 0 /\ session' = 0 /\ journal' = [panel |-> 0, adopt |-> 0]
      /\ local' = local
  BY DEF StopRemote, Event
<1>3. \A c \in controllers : f[c] \in ControllerRecs /\ f[c].n = c.n /\ Blank(f[c])
  BY QueuedTypes DEF TypeInv, ControllersOK
<1>4. f \in [controllers -> ControllerRecs']
  BY <1>1, <1>3, RecordsGrow
<1> HIDE DEF f
<1>5. ControllersOK'
  BY <1>1, <1>2, <1>3, <1>4, EachTypes
<1>6. 0 \in NotUsers'
  BY <1>1, NoTab DEF TabsGrow
<1>7. RecordsOK'
  BY <1>2, <1>6 DEF TypeInv, RecordsOK
<1> QED BY <1>1, <1>5, <1>7 DEF TypeInv, TabsGrow

\* A tab that a controller follows was opened by a page.
LEMMA TabOpensTypes == ASSUME TypeInv, TabOpens PROVE TypeInv'
<1>1. PICK t \in {Tab("user", 0, FALSE), Tab("page", 0, TRUE)}
              \cup {Tab("page", o, FALSE) : o \in {u \in DOMAIN tabs : tabs[u].live}} :
         /\ tabs' = Append(tabs, t)
         /\ controllers' = {IF Follows(c, t) THEN [c EXCEPT !.pending = Fresh] ELSE c :
                               c \in controllers}
  BY DEF TabOpens
<1> DEFINE f == [c \in controllers |->
                   IF Follows(c, t) THEN [c EXCEPT !.pending = Fresh] ELSE c]
<1>2. t \in TabRecs /\ (t.from = "user" => t.opener = 0 /\ ~t.popup)
  <2>0. 0 \in Nat
    OBVIOUS
  <2>1. CASE t = Tab("user", 0, FALSE) \/ t = Tab("page", 0, TRUE)
    <3>1. \A from \in {"user", "page"}, popup \in BOOLEAN :
             Tab(from, 0, popup) \in TabRecs
      BY <2>0 DEF Tab, TabRecs
    <3>2. t.from = "user" => t.opener = 0 /\ ~t.popup
      BY <2>1 DEF Tab
    <3> QED BY <2>1, <3>1, <3>2
  <2>2. ASSUME NEW o \in DOMAIN tabs, t = Tab("page", o, FALSE)
        PROVE  t \in TabRecs /\ t.from # "user"
    <3>1. o \in Nat
      BY LenProperties DEF TypeInv
    <3> QED BY <2>2, <3>1 DEF Tab, TabRecs
  <2> QED BY <2>1, <2>2
<1>3. TabsGrow /\ (t.from # "user" => Fresh \in NotUsers')
  BY <1>1, <1>2, TabAdded
<1>4. ASSUME NEW c \in controllers
      PROVE  f[c] \in ControllerRecs' /\ f[c].n = c.n /\ Blank(f[c])
  <2>1. c \in ControllerRecs' /\ Blank(c)
    BY <1>3, RecordsGrow DEF TypeInv, ControllersOK
  <2>2. CASE Follows(c, t)
    <3>1. c.tab # 0 /\ Fresh \in NotUsers'
      BY <1>2, <1>3, <2>2 DEF Follows
    <3>2. f[c] = [c EXCEPT !.pending = Fresh]
      BY <2>2
    <3> HIDE DEF f
    <3> QED BY <2>1, <3>1, <3>2 DEF ControllerRecs, Blank
  <2>3. CASE ~Follows(c, t)
    BY <2>1, <2>3
  <2> QED BY <2>2, <2>3
<1>5. f \in [controllers -> ControllerRecs'] /\ controllers' = {f[c] : c \in controllers}
  BY <1>1, <1>4
<1> HIDE DEF f
<1>6. /\ remote' = remote /\ ops' = ops
      /\ UNCHANGED <<panel, adopt, session, journal, local>>
  BY DEF TabOpens, Event
<1>7. ControllersOK'
  BY <1>3, <1>4, <1>5, <1>6, EachTypes
<1> QED BY <1>3, <1>6, <1>7, RecordsStay DEF TypeInv, TabsGrow

\* The controllers are left alone.
LEMMA ControllersStay ==
    ASSUME TypeInv, TabsGrow, UNCHANGED <<controllers, remote, ops>> PROVE ControllersOK'
<1>1. \A c \in controllers : c \in ControllerRecs' /\ Blank(c)
  BY RecordsGrow DEF TypeInv, ControllersOK
<1>2. Counted'
  BY DEF Counted, Numbers, TypeInv, ControllersOK
<1> QED BY <1>1, <1>2 DEF TypeInv, ControllersOK, Blank

LEMMA RestTypes ==
    ASSUME TypeInv, TabCloses \/ LocalStart \/ LocalStep \/ Teardown \/ Restore
                      \/ UNCHANGED vars
    PROVE  TypeInv'
<1>1. TabsGrow
  <2>1. CASE TabCloses
    <3>1. PICK t \in DOMAIN tabs : tabs' = Closed(tabs, t)
      BY <2>1 DEF TabCloses
    <3>2. t \in 0..Len(tabs)
      BY LenProperties DEF TypeInv
    <3> QED BY <3>1, <3>2, TabClosed
  <2>2. CASE ~TabCloses
    BY <2>2, TabsStay DEF LocalStart, LocalStep, Teardown, Restore, vars
  <2> QED BY <2>1, <2>2
<1>2. 0 \in NotUsers'
  BY <1>1, NoTab DEF TabsGrow
<1>3. CASE Teardown
  <2>1. /\ controllers' = {} /\ remote' = 0 /\ ops' = ops /\ panel' = 0 /\ adopt' = 0
        /\ local' = "no" /\ UNCHANGED <<journal, session>>
    BY <1>3 DEF Teardown, Event
  <2>2. Numbers' \subseteq Numbers
    BY <2>1 DEF Numbers
  <2>3. Counted'
    BY <2>1, <2>2, CountStays DEF TypeInv, ControllersOK
  <2>4. ControllersOK'
    BY <2>1, <2>3 DEF ControllersOK
  <2>5. RecordsOK'
    BY <1>1, <1>2, <2>1 DEF TypeInv, RecordsOK, TabsGrow
  <2> QED BY <1>1, <2>4, <2>5 DEF TypeInv, TabsGrow
<1>4. CASE Restore
  <2>1. /\ UNCHANGED <<controllers, remote, ops, panel, session, local>>
        /\ adopt' \in {journal.panel, journal.adopt}
        /\ journal' = [panel |-> 0, adopt |-> adopt']
    BY <1>4 DEF Restore
  <2>2. RecordsOK'
    BY <1>1, <1>2, <2>1 DEF TypeInv, RecordsOK, TabsGrow
  <2> QED BY <1>1, <2>1, <2>2, ControllersStay DEF TypeInv, TabsGrow
<1>5. CASE TabCloses \/ LocalStart \/ LocalStep \/ UNCHANGED vars
  <2>1. /\ UNCHANGED <<controllers, remote, ops, panel, adopt, session, journal>>
        /\ local' \in {local, "no", "loading", "yes"}
    BY <1>5 DEF TabCloses, LocalStart, LocalStep, Event, vars
  <2>2. RecordsOK'
    BY <1>1, <2>1 DEF TypeInv, RecordsOK, TabsGrow
  <2> QED BY <1>1, <2>1, <2>2, ControllersStay DEF TypeInv, TabsGrow
<1> QED BY <1>3, <1>4, <1>5

LEMMA InitTypeInv == Init => TypeInv
<1> SUFFICES ASSUME Init PROVE TypeInv
    OBVIOUS
<1>1. tabs \in Seq(TabRecs)
  BY DEF Init, Tab, TabRecs
<1>2. 0 \in NotUsers
  BY DEF Init, NotUsers
<1>3. Counted
  <2>1. Numbers = {}
    BY DEF Init, Numbers
  <2> QED BY <2>1, FS_EmptySet DEF Init, Counted
<1> QED BY <1>1, <1>2, <1>3 DEF Init, TypeInv, ControllersOK, RecordsOK

LEMMA StepTypes == TypeInv /\ [Next]_vars => TypeInv'
<1> SUFFICES ASSUME TypeInv, [Next]_vars PROVE TypeInv'
    OBVIOUS
<1>1. \A op \in {"open", "act", "close"} : Arrive(op) => TypeInv'
  BY ArriveTypes DEF OpNames
<1> QED BY <1>1, OpenTypes, MakeTabTypes, AttachTypes, ActTypes, CloseTypes, StopTypes,
           TabOpensTypes, RestTypes DEF Next

LEMMA TypesAreKept == Spec => []TypeInv
BY InitTypeInv, StepTypes, PTL DEF Spec

\* What the worker and its controllers keep of tabs names tabs there are, a
\* controller without a tab keeps nothing, and no two share their number.
THEOREM TypeCorrect == Spec => []TypeOK
<1>1. TypeInv => TypeOK
  <2> SUFFICES ASSUME TypeInv PROVE TypeOK
    OBVIOUS
  <2>1. \A t \in DOMAIN tabs : tabs[t].from \in {"user", "drive", "page"}
    <3>1. DOMAIN tabs = 1..Len(tabs) /\ \A t \in 1..Len(tabs) : tabs[t] \in TabRecs
      BY LenProperties, ElementOfSeq DEF TypeInv
    <3> QED BY <3>1 DEF TabRecs
  <2>2. NotUsers \subseteq Ids
    BY DEF NotUsers, Ids
  <2>3. \A c \in controllers :
          /\ {c.tab, c.created, c.pending, c.adopt} \subseteq Ids
          /\ c.at \in {"start", "make", "attach"}
          /\ c.tab = 0 => {c.created, c.pending} = {0} /\ c.openers = << >> /\ ~c.cdp
    BY <2>2 DEF TypeInv, ControllersOK, ControllerRecs, Blank
  <2>4. {panel, adopt, session, journal.panel, journal.adopt} \subseteq Ids
    BY <2>2 DEF TypeInv, RecordsOK
  <2> QED BY <2>1, <2>3, <2>4 DEF TypeInv, ControllersOK, RecordsOK, TypeOK
<1> QED BY <1>1, TypesAreKept, PTL

\* However popups come and go and sessions are resumed, the drive never
\* takes a tab of the user's for its own, which it would drive and close.
THEOREM UsersTabsAreLeft == Spec => []NeverTheUsersTab
<1>1. TypeInv => NeverTheUsersTab
  BY DEF TypeInv, ControllersOK, ControllerRecs, NotUsers, NeverTheUsersTab
<1> QED BY <1>1, TypesAreKept, PTL

----------------------------------------------------------------------------
(* The session is found again.                                             *)

\* The controller at work goes on in an operation, or ends one.
LEMMA WorkGoesOn ==
    ASSUME TypeInv, OneAtWork, up, up' = up, NEW c \in controllers, c.queue # << >>,
           NEW d, d.n = c.n, Becomes(c, d), remote' \in {remote, 0},
           c.queue \in Seq(OpNames) => d.queue \in Seq(OpNames),
           remote' # c.n => remote' = 0 /\ session' = 0
    PROVE  OneAtWork'
<1>1. \A x \in controllers' : x = d \/ (x \in controllers /\ x # c)
  BY DEF Becomes, Keep
<1>2. c.n # 0
  BY DEF TypeInv, ControllersOK, ControllerRecs
<1>3. \A x \in controllers' : x.queue # << >> => x = d
  BY <1>1 DEF OneAtWork
<1>4. \A x \in controllers' : x.n = remote' => x.queue \in Seq(OpNames)
  <2> SUFFICES ASSUME NEW x \in controllers', x.n = remote' PROVE x.queue \in Seq(OpNames)
    OBVIOUS
  <2>1. x.n # 0 /\ remote' = remote
    BY <1>1, <1>2 DEF TypeInv, ControllersOK, ControllerRecs
  <2> QED BY <1>1, <2>1 DEF OneAtWork
<1> QED BY <1>3, <1>4 DEF OneAtWork

LEMMA ContinueKeeps ==
    ASSUME TypeInv, KeptInv, up, NEW c \in controllers, c.queue # << >>,
           NEW d \in ControllerRecs', d.n = c.n, d.queue = c.queue,
           NEW at, Continue(c, d, at)
    PROVE  KeptInv'
<1> DEFINE e == [d EXCEPT !.at = at]
<1>1. e.n = c.n /\ e.queue = c.queue /\ Becomes(c, e)
  BY DEF Continue, ControllerRecs
<1>2. UNCHANGED <<up, remote, session>>
  BY DEF Continue
<1> HIDE DEF e
<1>3. OneAtWork'
  BY <1>1, <1>2, WorkGoesOn DEF KeptInv, OneAtWork
<1>4. e \in controllers'
  BY <1>1 DEF Becomes, Keep, Spent
<1>5. ~Idle'
  BY <1>1, <1>4 DEF Idle
<1> QED BY <1>2, <1>3, <1>5 DEF KeptInv

LEMMA SettleKeeps ==
    ASSUME TypeInv, KeptInv, up, NEW c \in controllers, c.queue # << >>,
           NEW d \in ControllerRecs', d.n = c.n, d.queue = c.queue, Settle(c, d)
    PROVE  KeptInv'
<1> DEFINE e == [d EXCEPT !.queue = Tail(@), !.at = "start"]
<1>1. e.n = c.n /\ e.tab = d.tab /\ e.queue = Tail(c.queue) /\ Becomes(c, e)
  BY DEF Settle, ControllerRecs
<1>2. c.n # 0 /\ (c.n # remote => remote = 0 /\ session = 0)
  BY DEF TypeInv, ControllersOK, ControllerRecs, KeptInv, OneAtWork
<1>3. Op(c) = "end" => c.n # remote
  <2>1. c.n = remote => Head(c.queue) \in OpNames
    BY HeadTailProperties DEF KeptInv, OneAtWork
  <2> QED BY <2>1 DEF Op, OpNames
<1>4. /\ up' = up /\ adopt' = adopt /\ remote' \in {remote, 0}
      /\ Op(c) # "close" => remote' = remote
      /\ Op(c) = "close" => session' = 0 /\ (c.n = remote => remote' = 0)
      /\ Op(c) = "end" => session' = session
      /\ Op(c) \notin {"close", "end"} =>
            /\ session' = IF remote = c.n THEN e.tab ELSE session
            /\ journal'.panel = e.tab
  BY DEF Settle
<1> HIDE DEF e
<1>5. remote' # c.n => remote' = 0 /\ session' = 0
  BY <1>2, <1>3, <1>4
<1>6. OneAtWork'
  <2>1. c.queue \in Seq(OpNames) => Tail(c.queue) \in Seq(OpNames)
    BY HeadTailProperties
  <2> QED BY <1>1, <1>4, <1>5, <2>1, WorkGoesOn DEF KeptInv
<1>7. session' # 0 => Found'
  <2> SUFFICES ASSUME session' # 0 PROVE Found'
    OBVIOUS
  <2>1. Op(c) \notin {"close", "end"} /\ remote = c.n
    BY <1>2, <1>3, <1>4
  <2>2. remote' = c.n /\ session' = e.tab /\ journal'.panel = e.tab
    BY <1>4, <2>1
  <2>3. e \in controllers'
    BY <1>1, <2>2 DEF Becomes, Keep, Spent
  <2> QED BY <1>1, <2>2, <2>3 DEF Found
<1> QED BY <1>4, <1>6, <1>7 DEF KeptInv

\* Every step of an operation continues it or settles it.
LEMMA DispatchCases ==
    ASSUME TypeInv, NEW c \in controllers,
           Open(c) \/ MakeTab(c) \/ Attach(c) \/ Act(c) \/ Close(c)
    PROVE  /\ up /\ c.queue # << >>
           /\ \E d \in ControllerRecs' : /\ d.n = c.n /\ d.queue = c.queue
                                         /\ \/ \E at : Continue(c, d, at)
                                            \/ Settle(c, d)
<1>1. up /\ c.queue # << >>
  BY DEF Open, MakeTab, Attach, Act, Close, Under
<1> DEFINE Goes(d) == /\ d.n = c.n /\ d.queue = c.queue
                      /\ \/ \E at : Continue(c, d, at)
                         \/ Settle(c, d)
<1>2. c \in ControllerRecs
  BY DEF TypeInv, ControllersOK
<1>3. \E d \in ControllerRecs' : Goes(d)
  <2>1. CASE Open(c)
    <3> DEFINE t == Target(c)
               d == [c EXCEPT !.adopt = 0]
               f == [d EXCEPT !.tab = t, !.created = t, !.cdp = FALSE]
    <3>1. t \in NotUsers
      BY <1>2, NoTab DEF Target, ControllerRecs
    <3>2. CASE t = 0
      <4>1. tabs' = Closed(tabs, c.created) /\ Continue(c, Disposed(c), "make")
        BY <2>1, <3>2 DEF Open
      <4>2. TabsGrow
        BY <1>2, <4>1, TabClosed DEF ControllerRecs, NotUsers
      <4>3. Disposed(c) \in ControllerRecs'
        BY <1>2, <4>2, DisposedTypes, RecordsGrow
      <4> QED BY <1>2, <4>1, <4>3, DisposedTypes
    <3>3. CASE t # 0
      <4>1. /\ d \in ControllerRecs /\ d.n = c.n /\ d.queue = c.queue
            /\ f \in ControllerRecs /\ f.n = c.n /\ f.queue = c.queue
        BY <1>2, <3>1, NoTab DEF ControllerRecs
      <4>2. Settle(c, d) \/ Continue(c, f, "attach")
        BY <2>1, <3>3 DEF Open
      <4>3. d \in ControllerRecs' /\ f \in ControllerRecs'
        BY <2>1, <3>3, <4>1, TabsStay, RecordsGrow DEF Open
      <4> HIDE DEF d, f
      <4> QED BY <4>1, <4>2, <4>3
    <3> QED BY <3>2, <3>3
  <2>2. CASE MakeTab(c)
    <3> DEFINE d == [c EXCEPT !.tab = Fresh, !.created = Fresh]
    <3>1. Continue(c, d, "attach")
      BY <2>2 DEF MakeTab
    <3>2. TabsGrow /\ Fresh \in NotUsers'
      <4>1. Tab("drive", 0, FALSE) \in TabRecs /\ Tab("drive", 0, FALSE).from # "user"
        BY DEF Tab, TabRecs
      <4> QED BY <2>2, <4>1, TabAdded DEF MakeTab
    <3>3. c \in ControllerRecs'
      BY <1>2, <3>2, RecordsGrow
    <3>4. d \in ControllerRecs' /\ d.n = c.n /\ d.queue = c.queue
      BY <3>2, <3>3 DEF ControllerRecs
    <3> HIDE DEF d
    <3> QED BY <3>1, <3>4
  <2>3. CASE Attach(c)
    <3> DEFINE d == [c EXCEPT !.cdp = TRUE]
    <3>1. c \in ControllerRecs'
      BY <1>2, <2>3, TabsStay, RecordsGrow DEF Attach
    <3>2. d \in ControllerRecs' /\ d.n = c.n /\ d.queue = c.queue
      BY <3>1 DEF ControllerRecs
    <3>3. Settle(c, d) \/ Settle(c, c)
      BY <2>3 DEF Attach
    <3> HIDE DEF d
    <3> QED BY <3>1, <3>2, <3>3
  <2>4. CASE Act(c)
    <3>1. PICK d \in ControllerRecs : d.n = c.n /\ d.queue = c.queue /\ ActTo(c, d)
      BY <2>4, ActCases
    <3>2. d \in ControllerRecs'
      BY <2>4, TabsStay, RecordsGrow DEF Act
    <3> QED BY <3>1, <3>2 DEF ActTo
  <2>5. CASE Close(c)
    <3>1. TabsGrow
      BY <1>2, <2>5, TabClosed DEF Close, ControllerRecs, NotUsers
    <3>2. Disposed(c) \in ControllerRecs'
      BY <1>2, <3>1, DisposedTypes, RecordsGrow
    <3> QED BY <1>2, <2>5, <3>2, DisposedTypes DEF Close
  <2> QED BY <2>1, <2>2, <2>3, <2>4, <2>5
<1> QED BY <1>1, <1>3

LEMMA DispatchKeeps ==
    ASSUME TypeInv, KeptInv, NEW c \in controllers,
           Open(c) \/ MakeTab(c) \/ Attach(c) \/ Act(c) \/ Close(c)
    PROVE  KeptInv'
BY DispatchCases, ContinueKeeps, SettleKeeps

\* An operation arrives when nothing is at work.
LEMMA ArriveKeeps ==
    ASSUME Overlaps = FALSE, TypeInv, KeptInv, NEW op \in OpNames, Arrive(op)
    PROVE  KeptInv'
<1>1. /\ up /\ up' = up /\ UNCHANGED <<tabs, journal, session>>
      /\ \A c \in controllers : c.queue = << >>
  BY DEF Arrive, Idle
<1>2. \A c \in controllers : c \in ControllerRecs
  BY DEF TypeInv, ControllersOK
<1>3. ASSUME NEW c \in ControllerRecs, c.queue = << >>
      PROVE  /\ Queued(c, op).queue # << >> /\ Queued(c, op).queue \in Seq(OpNames)
             /\ Queued(c, op).n = c.n
  <2>1. << >> \in Seq(OpNames)
    BY EmptySeq
  <2>2. Append(<< >>, op) \in Seq(OpNames) /\ Append(<< >>, op) # << >>
    BY <2>1, AppendProperties
  <2> QED BY <1>3, <2>2 DEF Queued, ControllerRecs
<1>4. CASE op = "open" /\ local # "yes" /\ remote = 0
  <2> DEFINE n == CHOOSE i \in 1..(NumOps + 1) : \A c \in controllers : c.n # i
             d == Queued(New(n, adopt), op)
  <2>1. remote' = n /\ controllers' = controllers \cup {d}
    BY <1>4 DEF Arrive
  <2>2. n \in 1..(NumOps + 1) /\ \A c \in controllers : c.n # n
    <3>1. \E i \in 1..(NumOps + 1) : \A c \in controllers : c.n # i
      BY NumberLeft DEF Arrive, TypeInv, ControllersOK
    <3> QED BY <3>1
  <2>3. n \in Nat \ {0}
    BY <2>2, DriveAssumption
  <2> HIDE DEF n
  <2>4. /\ New(n, adopt) \in ControllerRecs /\ New(n, adopt).queue = << >>
        /\ New(n, adopt).n = n
    <3>1. /\ << >> \in Seq(NotUsers) /\ 0 \in NotUsers /\ adopt \in NotUsers
          /\ << >> \in Seq(OpNames \cup {"end"})
      BY NoTab, EmptySeq DEF TypeInv, RecordsOK
    <3> QED BY <2>3, <3>1 DEF New, ControllerRecs
  <2>5. d.queue # << >> /\ d.queue \in Seq(OpNames) /\ d.n = n
    BY <1>3, <2>4
  <2> HIDE DEF d
  <2>6. OneAtWork'
    BY <1>1, <2>1, <2>2, <2>5 DEF OneAtWork
  <2>7. ~Idle'
    BY <2>1, <2>5 DEF Idle
  <2> QED BY <1>1, <2>6, <2>7 DEF KeptInv
<1>5. CASE ~(op = "open" /\ local # "yes" /\ remote = 0)
  <2> DEFINE f == [c \in controllers |->
                     IF c.n = remote /\ ~(op = "open" /\ local = "yes")
                     THEN Queued(c, op) ELSE c]
  <2>1. /\ remote' = remote /\ adopt' = adopt /\ controllers' = {f[c] : c \in controllers}
    BY <1>5 DEF Arrive
  <2>2. \A c \in controllers : \/ f[c] = c
                               \/ /\ c.n = remote /\ f[c].n = remote
                                  /\ f[c].queue # << >> /\ f[c].queue \in Seq(OpNames)
    BY <1>1, <1>2, <1>3
  <2> HIDE DEF f
  <2>3. \A x \in controllers' :
           \/ x \in controllers /\ x.queue = << >>
           \/ x.n = remote /\ x.queue # << >> /\ x.queue \in Seq(OpNames)
    BY <1>1, <2>1, <2>2
  <2>4. \A x, y \in controllers' : x.queue # << >> /\ y.queue # << >> => x = y
    BY <1>1, <2>1, <2>2 DEF TypeInv, ControllersOK
  <2>5. OneAtWork'
    BY <1>1, <2>1, <2>3, <2>4 DEF KeptInv, OneAtWork
  <2>6. Idle' => controllers' = controllers
    <3> SUFFICES ASSUME \A x \in controllers' : x.queue = << >>
                 PROVE  controllers' = controllers
      BY DEF Idle
    <3>1. \A c \in controllers : f[c] = c
      BY <2>1, <2>2
    <3> QED BY <2>1, <3>1
  <2>7. Idle' => (Found => Found')
    BY <1>1, <2>1, <2>6 DEF Found
  <2>8. Idle /\ (Live(session)' <=> Live(session))
    BY <1>1 DEF Idle, Live
  <2> QED BY <1>1, <2>5, <2>7, <2>8 DEF KeptInv
<1> QED BY <1>4, <1>5

LEMMA StopKeeps == ASSUME TypeInv, KeptInv, StopRemote PROVE KeptInv'
<1> DEFINE f == [c \in controllers |-> IF c.n = remote THEN Queued(c, "end") ELSE c]
<1>1. /\ up /\ up' = up /\ remote' = 0 /\ session' = 0
      /\ controllers' = {f[c] : c \in controllers}
  BY DEF StopRemote
<1>2. \A c \in controllers : /\ f[c].n = c.n /\ c.n # 0
                             /\ c.n # remote => f[c] = c
  BY QueuedTypes DEF TypeInv, ControllersOK, ControllerRecs
<1> HIDE DEF f
<1>3. \A x, y \in controllers' : x.queue # << >> /\ y.queue # << >> => x = y
  <2> SUFFICES ASSUME NEW c \in controllers, NEW d \in controllers,
                      f[c].queue # << >>, f[d].queue # << >>
               PROVE  f[c] = f[d]
    BY <1>1
  <2>1. CASE remote = 0
    BY <1>2, <2>1 DEF KeptInv, OneAtWork
  <2>2. CASE remote # 0
    BY <1>2, <2>2 DEF KeptInv, OneAtWork, TypeInv, ControllersOK
  <2> QED BY <2>1, <2>2
<1>4. \A x \in controllers' : x.n # 0
  BY <1>1, <1>2
<1> QED BY <1>1, <1>3, <1>4 DEF KeptInv, OneAtWork

\* A tab that opens or closes: the session's, if it lives, lived before.
LEMMA TabsKeep == ASSUME TypeInv, KeptInv, TabOpens \/ TabCloses PROVE KeptInv'
<1>1. UNCHANGED <<up, remote, adopt, journal, session>>
  BY DEF TabOpens, TabCloses
<1>2. \E f \in [controllers -> controllers'] :
         /\ controllers' = {f[c] : c \in controllers}
         /\ \A c \in controllers : /\ f[c].n = c.n /\ f[c].queue = c.queue
                                   /\ f[c].tab = c.tab
  <2>1. CASE TabOpens
    <3>1. PICK t : controllers' = {IF Follows(c, t) THEN [c EXCEPT !.pending = Fresh] ELSE c :
                                      c \in controllers}
      BY <2>1 DEF TabOpens
    <3> DEFINE f == [c \in controllers |->
                       IF Follows(c, t) THEN [c EXCEPT !.pending = Fresh] ELSE c]
    <3>2. controllers' = {f[c] : c \in controllers}
      BY <3>1
    <3>3. \A c \in controllers : f[c].n = c.n /\ f[c].queue = c.queue /\ f[c].tab = c.tab
      BY DEF TypeInv, ControllersOK, ControllerRecs
    <3>4. f \in [controllers -> controllers']
      BY <3>2
    <3> HIDE DEF f
    <3> QED BY <3>2, <3>3, <3>4
  <2>2. CASE TabCloses
    <3> DEFINE f == [c \in controllers |-> c]
    <3>1. controllers' = controllers
      BY <2>2 DEF TabCloses
    <3>2. f \in [controllers -> controllers'] /\ controllers' = {f[c] : c \in controllers}
      BY <3>1
    <3> QED BY <3>2
  <2> QED BY <2>1, <2>2
<1>3. PICK f \in [controllers -> controllers'] : <1>2!(f)
  BY <1>2
<1>4. OneAtWork'
  <2>1. ~up => controllers' = {}
    BY <1>3 DEF KeptInv, OneAtWork
  <2>2. \A x, y \in controllers' : x.queue # << >> /\ y.queue # << >> => x = y
    BY <1>3 DEF KeptInv, OneAtWork
  <2>3. \A x \in controllers' : x.queue # << >> /\ x.n # remote => remote = 0 /\ session = 0
    BY <1>3 DEF KeptInv, OneAtWork
  <2>4. \A x \in controllers' : x.n = remote => x.queue \in Seq(OpNames)
    BY <1>3 DEF KeptInv, OneAtWork
  <2> QED BY <1>1, <2>1, <2>2, <2>3, <2>4 DEF KeptInv, OneAtWork
<1>5. (Idle' => Idle) /\ (Found => Found')
  BY <1>1, <1>3 DEF Idle, Found
<1>6. Live(session)' => Live(session)
  <2>1. session \in 0..Len(tabs) /\ Len(tabs) \in Nat
    BY LenProperties DEF TypeInv, RecordsOK, NotUsers
  <2>2. CASE TabOpens
    <3>1. PICK t \in {Tab("user", 0, FALSE), Tab("page", 0, TRUE)}
              \cup {Tab("page", o, FALSE) : o \in {u \in DOMAIN tabs : tabs[u].live}} :
            tabs' = Append(tabs, t)
      BY <2>2 DEF TabOpens
    <3>2. session # 0 => tabs'[session] = tabs[session]
      BY <2>1, <3>1, TabKept DEF TypeInv
    <3> QED BY <1>1, <3>2 DEF Live
  <2>3. CASE TabCloses
    <3>1. PICK t \in DOMAIN tabs : tabs' = Closed(tabs, t)
      BY <2>3 DEF TabCloses
    <3>2. session # 0 => (tabs'[session].live => tabs[session].live)
      BY <2>1, <3>1, TabGone DEF TypeInv
    <3> QED BY <1>1, <3>2 DEF Live
  <2> QED BY <2>2, <2>3
<1> QED BY <1>1, <1>4, <1>5, <1>6 DEF KeptInv

\* The worker is torn down, and restores what it persisted.
LEMMA RestKeeps ==
    ASSUME TypeInv, KeptInv, LocalStart \/ LocalStep \/ Teardown \/ Restore \/ UNCHANGED vars
    PROVE  KeptInv'
<1>1. CASE Teardown
  <2>1. /\ up /\ Idle /\ ~up' /\ controllers' = {} /\ remote' = 0
        /\ UNCHANGED <<tabs, journal, session>>
    BY <1>1 DEF Teardown
  <2>2. OneAtWork'
    BY <2>1 DEF OneAtWork
  <2>3. Live(session)' <=> Live(session)
    BY <2>1 DEF Live
  <2> QED BY <2>1, <2>2, <2>3 DEF KeptInv, Found
<1>2. CASE Restore
  <2>1. /\ ~up /\ up' /\ controllers' = {} /\ remote' = 0 /\ remote = 0 /\ controllers = {}
        /\ adopt' = IF journal.panel # 0 THEN journal.panel ELSE journal.adopt
        /\ journal' = [panel |-> 0, adopt |-> adopt']
        /\ UNCHANGED <<tabs, session>>
    BY <1>2 DEF Restore, KeptInv, OneAtWork
  <2>2. OneAtWork'
    BY <2>1 DEF OneAtWork
  <2>3. Live(session)' <=> Live(session)
    BY <2>1 DEF Live
  <2> QED BY <2>1, <2>2, <2>3 DEF KeptInv, Found
<1>3. CASE LocalStart \/ LocalStep \/ UNCHANGED vars
  <2>1. UNCHANGED <<tabs, up, controllers, remote, adopt, journal, session>>
    BY <1>3 DEF LocalStart, LocalStep, vars
  <2> QED BY <2>1 DEF KeptInv, OneAtWork, Found, Idle, Live
<1> QED BY <1>1, <1>2, <1>3

\* While operations do not overlap, an `open` finds the tab of the client's
\* session as long as it lives: in the controller in use, or through the
\* hint that outlives any number of teardowns.
THEOREM SessionIsFound == ASSUME Overlaps = FALSE PROVE Spec => []Recoverable
<1>1. Init => KeptInv
  BY DEF Init, KeptInv, OneAtWork
<1>2. TypeInv /\ KeptInv /\ [Next]_vars => KeptInv'
  <2> SUFFICES ASSUME TypeInv, KeptInv, [Next]_vars PROVE KeptInv'
    OBVIOUS
  <2>1. \A op \in {"open", "act", "close"} : Arrive(op) => KeptInv'
    BY ArriveKeeps DEF OpNames
  <2> QED BY <2>1, DispatchKeeps, StopKeeps, TabsKeep, RestKeeps DEF Next
<1>3. KeptInv => Recoverable
  BY DEF KeptInv, Found, Recoverable
<1> QED BY <1>1, <1>2, <1>3, TypesAreKept, PTL DEF Spec
=============================================================================
