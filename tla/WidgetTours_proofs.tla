------------------------- MODULE WidgetTours_proofs -------------------------
(***************************************************************************)
(* Theorems about product tours, for any tours, pages and number of        *)
(* documents: the shape of the state, that a tour goes step by step and    *)
(* that the widget puts one overlay on the page.  For a site that is open  *)
(* in one document, that the storage holds the step on the screen and that *)
(* nothing which is over comes back; with two documents neither holds, as  *)
(* one ends or moves on the tour that the other plays.                     *)
(***************************************************************************)
EXTENDS WidgetTours, FiniteSetTheorems, SequenceTheorems, WellFoundedInduction, TLAPS

OneTab == \A c, d \in Tabs : c = d

----------------------------------------------------------------------------
(* The state of a document, and what its handlers see.                     *)

Players == [tour : Tours \cup {Guide, None}, step : Nat, preview : BOOLEAN,
            phase : Phases]

Promises == [what : {"find", "wait", "timer"}, step : Nat, current : BOOLEAN]

Fetches == [what : {"offers"}, tour : {None}]
             \cup [what : {"start", "preview"}, tour : Tours]
             \cup [what : {"resume"}, tour : Tours, nav : BOOLEAN]

Pills == [kind : {"none"}, tour : {None}]
           \cup [kind : {"offer", "resume", "progress"}, tour : Tours]

Docs == [page     : Pages,
         link     : Tours \cup {None},
         leaving  : Pages \cup {None},
         ready    : BOOLEAN,
         policy   : {"auto", "ask", "never"},
         player   : Players,
         awaiting : SUBSET Promises,
         about    : Tours \cup {None},
         pill     : Pills,
         survey   : BOOLEAN,
         list     : {"none", "pill", "open"},
         preview  : BOOLEAN,
         requests : SUBSET Fetches]

Records == [tour : Tours, step : Nat \ {0}, nav : BOOLEAN]

\* What is reported of a tour, and what the reports come to.
Events == {"started", "completed", "dismissed", "declined"}

Ends == {"completed", "dismissed"}

Tellings == [Tours -> {"none", "started", "forgotten", "expired", "unfetched",
                       "again", "over", "stray"}]

Worlds == [d : Docs, rec : Records \cup {None}, seen : SUBSET Tours, told : Tellings]

\* activeTourId is the tour that plays, but for a guide, which is a preview.
AboutIt(d) ==
    /\ d.about = IF d.player.tour \in Tours THEN d.player.tour ELSE None
    /\ d.player.tour = Guide => d.player.preview

\* A tour on the screen is at one of its steps, and what counts of what is
\* awaited is of that step.
AtOneStep(d) ==
    /\ IF Active(d) THEN d.player.step \in DOMAIN StepsOf(d.player.tour)
       ELSE d.player = NoTour
    /\ \A a \in d.awaiting : a.current => a.step = d.player.step

DocOK(d) == AboutIt(d) /\ AtOneStep(d)

TypeInv ==
    /\ tab \in [Tabs -> Docs] /\ record \in Records \cup {None}
    /\ seen \subseteq Tours /\ told \in Tellings
    /\ \A c \in Tabs : DocOK(tab[c])

----------------------------------------------------------------------------
(* What one document, the storage and the reports tell of each other.      *)

\* What the reports say of a tour that is stored, and of one that plays.
Begun == {"started", "forgotten", "again"}
Underway == Begun \cup {"unfetched"}

Playing(w) == Active(w.d) /\ ~w.d.player.preview

\* What plays and what is stored has begun and is not over, and no pill
\* offers to go on with, or to start, a tour while one plays.
StoryOK(w) ==
    /\ w.rec # None => w.told[w.rec.tour] \in Begun
    /\ \A t \in Tours : w.told[t] # "stray"
    /\ Playing(w) => /\ w.told[w.d.player.tour] \in Underway
                     /\ w.d.pill.kind \notin {"offer", "resume"}

\* The step on the screen is stored; or nothing is, at step i of tour t.
Exact(w) ==
    Playing(w) => /\ w.rec # None /\ w.rec.tour = w.d.player.tour
                  /\ w.rec.step = w.d.player.step /\ (w.rec.nav => w.d.leaving # None)

Stored(w, t, i) ==
    \/ Exact(w)
    \/ w.rec = None /\ w.d.player.tour = t /\ w.d.player.step = i

\* What is stored of a tour stays so; one that nothing is stored of moves only
\* to be stored again.
Keeps(v, w) == StoryOK(w) => \A t, i : Stored(w, t, i) => Stored(v, t, i)

StoryInv ==
    /\ NothingToResurrect
    /\ \A c \in Tabs : /\ StoryOK(World(c))
                        /\ Stored(World(c), tab[c].player.tour, tab[c].player.step)

\* The other overlays, which the player leaves alone.
SameOthers(d, e) == d.survey = e.survey /\ d.list = e.list

----------------------------------------------------------------------------
(* The operators the handlers are made of.                                 *)

LEMMA StepsAre ==
    /\ \A t \in Tours \cup {Guide} :
          StepsOf(t) \in Seq([kind : Kinds, page : Pages \cup {None}])
    /\ Len(StepsOf(Guide)) = 2 /\ DOMAIN StepsOf(Guide) = 1..2
    /\ StepsOf(Guide)[1].kind = "anchor" /\ StepsOf(Guide)[2].kind = "float"
<1>1. \A t \in Tours : t # Guide /\ StepsOf(t) \in Seq([kind : Kinds, page : Pages \cup {None}])
  BY ToursAssumption DEF StepsOf
<1>2. StepsOf(Guide) = << [kind |-> "anchor", page |-> None],
                          [kind |-> "float", page |-> None] >>
  BY DEF StepsOf
<1>3. /\ [kind |-> "anchor", page |-> None] \in [kind : Kinds, page : Pages \cup {None}]
      /\ [kind |-> "float", page |-> None] \in [kind : Kinds, page : Pages \cup {None}]
  BY DEF Kinds
<1>4. StepsOf(Guide) \in Seq([kind : Kinds, page : Pages \cup {None}])
  BY <1>2, <1>3
<1>5. /\ Len(StepsOf(Guide)) = 2 /\ DOMAIN StepsOf(Guide) = 1..2
      /\ StepsOf(Guide)[1].kind = "anchor" /\ StepsOf(Guide)[2].kind = "float"
  BY <1>2
<1> QED
  BY <1>1, <1>4, <1>5

LEMMA NoneAreApart ==
    /\ Guide \notin Tours /\ None \notin Tours /\ None \notin Pages /\ None # Guide
    /\ None \notin Records
BY ToursAssumption DEF Records

LEMMA NoTourIsIdle == NoTour \in Players /\ NoPill \in Pills
BY DEF NoTour, Players, Phases, NoPill, Pills

LEMMA OutdateDoes ==
    ASSUME NEW w \in Worlds
    PROVE  \E P \in SUBSET Promises :
              /\ \A a \in P : ~a.current
              /\ Outdate(w) = [w EXCEPT !.d.awaiting = P]
<1> DEFINE promises == {a \in w.d.awaiting : a.what # "timer" /\ a.current}
           P == IF promises # {} THEN {[a EXCEPT !.current = FALSE] : a \in promises}
                ELSE {a \in w.d.awaiting : ~a.current}
<1>1. w.d.awaiting \subseteq Promises
  BY DEF Worlds, Docs
<1>2. \A a \in Promises : /\ [a EXCEPT !.current = FALSE] \in Promises
                          /\ [a EXCEPT !.current = FALSE].current = FALSE
  BY DEF Promises
<1>3. P \in SUBSET Promises /\ \A a \in P : ~a.current
  BY <1>1, <1>2
<1>4. Outdate(w) = [w EXCEPT !.d.awaiting = P]
  BY DEF Outdate
<1> HIDE DEF P
<1> QED
  BY <1>3, <1>4

LEMMA TeardownDoes ==
    ASSUME NEW w \in Worlds
    PROVE  \E P \in SUBSET Promises :
              /\ \A a \in P : ~a.current
              /\ Teardown(w) = [w EXCEPT !.d.awaiting = P, !.d.player = NoTour]
<1>1. PICK P \in SUBSET Promises : /\ \A a \in P : ~a.current
                                   /\ Outdate(w) = [w EXCEPT !.d.awaiting = P]
  BY OutdateDoes
<1>2. Teardown(w) = [w EXCEPT !.d.awaiting = P, !.d.player = NoTour]
  BY <1>1 DEF Teardown
<1> QED
  BY <1>1, <1>2

LEMMA ForgetDoes ==
    ASSUME NEW w \in Worlds, NEW v, v = Forget(w)
    PROVE  /\ v \in Worlds /\ v.d = w.d /\ v.seen = w.seen /\ v.rec = None
           /\ \A t \in Tours :
                 v.told[t] = IF w.rec # None /\ w.rec.tour = t /\ w.told[t] = "started"
                             THEN "forgotten" ELSE w.told[t]
<1> DEFINE T == [t \in Tours |-> IF w.rec # None /\ w.rec.tour = t /\ w.told[t] = "started"
                                 THEN "forgotten" ELSE w.told[t]]
<1>1. w.told \in Tellings
  BY DEF Worlds
<1>2. T \in Tellings
  BY <1>1 DEF Tellings
<1>3. v = [w EXCEPT !.rec = None, !.told = T]
  BY DEF Forget
<1>4. \A t \in Tours : T[t] = IF w.rec # None /\ w.rec.tour = t /\ w.told[t] = "started"
                              THEN "forgotten" ELSE w.told[t]
  OBVIOUS
<1> HIDE DEF T
<1>5. v \in Worlds /\ v.d = w.d /\ v.seen = w.seen /\ v.rec = None /\ v.told = T
  BY <1>2, <1>3 DEF Worlds
<1> QED
  BY <1>4, <1>5

LEMMA ReportDoes ==
    ASSUME NEW w \in Worlds, NEW t \in Tours,
           NEW e \in Events,
           NEW v, v = Report(w, t, e)
    PROVE  /\ v \in Worlds /\ v.d = w.d /\ v.seen = w.seen /\ v.rec = w.rec
           /\ \A k \in Tours \ {t} : v.told[k] = w.told[k]
           /\ e = "started" => v.told[t] \in {"again", "started"}
           /\ e \in {"completed", "dismissed"} /\ w.told[t] \in Underway => v.told[t] = "over"
           /\ e = "declined" => v.told[t] = "over"
<1> DEFINE X == CASE e = "started" ->
                        IF w.told[t] \in {"started", "again", "forgotten", "unfetched"}
                        THEN "again" ELSE "started"
                  [] e \in {"completed", "dismissed"} ->
                        IF w.told[t] \in {"none", "over"} THEN "stray" ELSE "over"
                  [] e = "declined" -> "over"
<1>1. w.told \in Tellings
  BY DEF Worlds
<1>2. v = [w EXCEPT !.told[t] = X]
  BY DEF Report
<1>3. /\ X \in {"started", "again", "over", "stray"}
      /\ e = "started" => X \in {"again", "started"}
      /\ e \in {"completed", "dismissed"} /\ w.told[t] \in Underway => X = "over"
      /\ e = "declined" => X = "over"
  BY DEF Begun, Underway, Events
<1> HIDE DEF X
<1>4. [w.told EXCEPT ![t] = X] \in Tellings
  BY <1>1, <1>3 DEF Tellings
<1>5. /\ v \in Worlds /\ v.d = w.d /\ v.seen = w.seen /\ v.rec = w.rec
      /\ v.told = [w.told EXCEPT ![t] = X]
  BY <1>2, <1>4 DEF Worlds
<1>6. v.told[t] = X /\ \A k \in Tours \ {t} : v.told[k] = w.told[k]
  BY <1>1, <1>5 DEF Tellings
<1> QED
  BY <1>3, <1>5, <1>6

\* The record is written for the tour that plays.
LEMMA PersistDoes ==
    ASSUME NEW w \in Worlds, Active(w.d), AboutIt(w.d),
           NEW i \in Nat \ {0}, NEW nav \in BOOLEAN, NEW v, v = Persist(w, i, nav)
    PROVE  /\ v \in Worlds /\ v.d = w.d /\ v.seen = w.seen
           /\ w.d.player.preview => v = w
           /\ Playing(w) => /\ v.rec # None /\ v.rec.tour = w.d.player.tour
                            /\ v.rec.step = i /\ v.rec.nav = nav
           /\ StoryOK(w) => StoryOK(v)
<1> DEFINE t == w.d.player.tour
           old == IF w.rec # None /\ w.rec.tour # t THEN Forget(w) ELSE w
           R == [tour |-> t, step |-> i, nav |-> nav]
<1>1. CASE w.d.player.preview
  BY <1>1 DEF Persist, Playing
<1>2. CASE ~w.d.player.preview
  <2>1. w.d \in Docs /\ w.told \in Tellings
    BY DEF Worlds
  <2>2. w.d.player \in Players
    BY <2>1 DEF Docs
  <2>3. t \in Tours
    BY <1>2, <2>2, NoneAreApart DEF Players, AboutIt, Active
  <2>4. R \in Records /\ R # None /\ R.tour = t /\ R.step = i /\ R.nav = nav
    BY <2>3, NoneAreApart DEF Records
  <2>5. v = [old EXCEPT !.rec = R, !.told[t] = IF @ = "unfetched" THEN "again" ELSE @]
    BY <1>2 DEF Persist
  <2>6. /\ old \in Worlds /\ old.d = w.d /\ old.seen = w.seen
        /\ old.told[t] = w.told[t]
        /\ \A k \in Tours : old.told[k] \in {w.told[k], "forgotten"}
    <3>1. CASE w.rec # None /\ w.rec.tour # t
      <4>1. old = Forget(w)
        BY <3>1
      <4>2. /\ old \in Worlds /\ old.d = w.d /\ old.seen = w.seen
            /\ \A k \in Tours :
                  old.told[k] = IF w.rec # None /\ w.rec.tour = k /\ w.told[k] = "started"
                                THEN "forgotten" ELSE w.told[k]
        BY <4>1, ForgetDoes
      <4> QED
        BY <4>2, <3>1, <2>3
    <3>2. CASE ~(w.rec # None /\ w.rec.tour # t)
      BY <3>2
    <3> QED
      BY <3>1, <3>2
  <2> DEFINE T == [old.told EXCEPT ![t] = IF @ = "unfetched" THEN "again" ELSE @]
  <2> HIDE DEF R, old
  <2>9. T \in Tellings /\ v = [old EXCEPT !.rec = R, !.told = T]
    BY <2>3, <2>5, <2>6 DEF Worlds, Tellings
  <2>10. /\ old.told[t] = "unfetched" => T[t] = "again"
         /\ old.told[t] # "unfetched" => T[t] = old.told[t]
         /\ \A k \in Tours \ {t} : T[k] = old.told[k]
    BY <2>3, <2>6 DEF Worlds, Tellings
  <2> HIDE DEF T
  <2>7. /\ v \in Worlds /\ v.d = w.d /\ v.seen = w.seen /\ v.rec = R
        /\ v.told = T
    BY <2>4, <2>6, <2>9 DEF Worlds
  <2>8. ASSUME StoryOK(w) PROVE StoryOK(v)
    <3>1. Playing(w) /\ Playing(v)
      BY <1>2, <2>7 DEF Playing
    <3>2. w.told[t] \in Underway /\ v.d.pill.kind \notin {"offer", "resume"}
      BY <2>7, <2>8, <3>1 DEF StoryOK
    <3>3. v.told[t] \in Begun
      BY <2>6, <2>7, <2>10, <3>2 DEF Begun, Underway
    <3>4. \A k \in Tours : v.told[k] # "stray"
      BY <2>6, <2>7, <2>8, <2>10 DEF StoryOK
    <3> QED
      BY <3>2, <3>3, <3>4, <2>4, <2>7 DEF StoryOK, Underway
  <2> QED
    BY <1>2, <2>4, <2>7, <2>8
<1> QED
  BY <1>1, <1>2

LEMMA OnEndDoes ==
    ASSUME NEW w \in Worlds, Active(w.d), AboutIt(w.d),
           NEW e \in Ends, NEW v, v = OnEnd(w, e)
    PROVE  /\ v \in Worlds /\ SameOthers(v.d, w.d) /\ v.d.about = None
           /\ v.d.leaving = w.d.leaving /\ v.d.awaiting = w.d.awaiting
           /\ v.d.player = w.d.player
           /\ StoryOK(w) => \A t \in Tours : v.told[t] # "stray"
<1> DEFINE t == w.d.about
<1>1. w.d \in Docs /\ w.told \in Tellings
  BY DEF Worlds
<1>2. w.d.player \in Players /\ w.d.about \in Tours \cup {None}
  BY <1>1 DEF Docs
<1>3. CASE t = None
  BY <1>3 DEF OnEnd, SameOthers, StoryOK
<1>4. CASE t # None
  <2> DEFINE r == IF w.d.player.preview THEN w ELSE Report(w, t, e)
             s == IF w.d.preview
                  THEN [r EXCEPT !.d.preview = FALSE]
                  ELSE [r EXCEPT !.seen = @ \cup {t}]
  <2>1. t \in Tours /\ w.d.player.tour = t
    BY <1>2, <1>4 DEF AboutIt
  <2>2. /\ r \in Worlds /\ r.d = w.d /\ r.rec = w.rec
        /\ StoryOK(w) => \A k \in Tours : r.told[k] # "stray"
    <3>1. CASE w.d.player.preview
      BY <3>1 DEF StoryOK
    <3>2. CASE ~w.d.player.preview
      <4>1. r = Report(w, t, e)
        BY <3>2
      <4> HIDE DEF r, s, t
      <4>2. e \in Events
        BY DEF Events, Ends
      <4>3. /\ r \in Worlds /\ r.d = w.d /\ r.rec = w.rec
            /\ \A k \in Tours \ {t} : r.told[k] = w.told[k]
            /\ w.told[t] \in Underway => r.told[t] = "over"
        BY <4>1, <2>1, <4>2, ReportDoes DEF Ends
      <4>4. StoryOK(w) => w.told[t] \in Underway
        BY <3>2, <2>1 DEF StoryOK, Playing
      <4> QED
        BY <4>3, <4>4 DEF StoryOK
    <3> QED
      BY <3>1, <3>2
  <2>3. v = [s EXCEPT !.d.about = None, !.d.pill = NoPill]
    BY <1>4 DEF OnEnd
  <2> HIDE DEF r
  <2>4. /\ s \in Worlds /\ s.told = r.told
        /\ s.d = IF w.d.preview THEN [w.d EXCEPT !.preview = FALSE] ELSE w.d
    <3>1. CASE w.d.preview
      <4>1. s = [r EXCEPT !.d.preview = FALSE]
        BY <3>1
      <4>2. [r.d EXCEPT !.preview = FALSE] \in Docs
        BY <2>2 DEF Worlds, Docs
      <4> QED
        BY <2>2, <3>1, <4>1, <4>2 DEF Worlds
    <3>2. CASE ~w.d.preview
      BY <2>1, <2>2, <3>2 DEF Worlds
    <3> QED
      BY <3>1, <3>2
  <2> HIDE DEF s
  <2>5. /\ SameOthers(s.d, w.d) /\ s.d.leaving = w.d.leaving
        /\ s.d.awaiting = w.d.awaiting /\ s.d.player = w.d.player
    BY <1>1, <2>4 DEF SameOthers, Docs
  <2>6. /\ [s.d EXCEPT !.about = None, !.pill = NoPill] \in Docs
        /\ SameOthers([s.d EXCEPT !.about = None, !.pill = NoPill], s.d)
    BY <2>4, NoTourIsIdle DEF Worlds, Docs, SameOthers
  <2>7. /\ v \in Worlds /\ v.told = s.told
        /\ v.d = [s.d EXCEPT !.about = None, !.pill = NoPill]
    BY <2>3, <2>4, <2>6 DEF Worlds
  <2>8. /\ v.d.about = None /\ v.d.leaving = s.d.leaving
        /\ v.d.awaiting = s.d.awaiting /\ v.d.player = s.d.player
    BY <2>4, <2>7 DEF Worlds, Docs
  <2> QED
    BY <2>2, <2>4, <2>5, <2>6, <2>7, <2>8 DEF SameOthers
<1> QED
  BY <1>3, <1>4

\* A document in which nothing plays.
LEMMA IdleIsOK ==
    ASSUME NEW d \in Docs, d.player = NoTour, d.about = None,
           \A a \in d.awaiting : ~a.current
    PROVE  DocOK(d) /\ ~Active(d)
BY NoneAreApart DEF DocOK, AboutIt, AtOneStep, Active, NoTour

LEMMA FinishDoes ==
    ASSUME NEW w \in Worlds, Active(w.d), AboutIt(w.d),
           NEW e \in Ends, NEW v, v = Finish(w, e)
    PROVE  /\ v \in Worlds /\ SameOthers(v.d, w.d) /\ DocOK(v.d) /\ ~Active(v.d)
           /\ v.d.leaving = w.d.leaving /\ v.d.about = None /\ v.rec = None
           /\ StoryOK(w) => StoryOK(v)
<1> DEFINE o == OnEnd(w, e)
           f == Forget(o)
<1>1. /\ o \in Worlds /\ SameOthers(o.d, w.d) /\ o.d.about = None
      /\ o.d.leaving = w.d.leaving
      /\ StoryOK(w) => \A t \in Tours : o.told[t] # "stray"
  BY OnEndDoes
<1>2. v = Teardown(f)
  BY DEF Finish
<1> HIDE DEF o
<1>3. /\ f \in Worlds /\ f.d = o.d /\ f.rec = None
      /\ \A t \in Tours : f.told[t] \in {o.told[t], "forgotten"}
  BY <1>1, ForgetDoes
<1> HIDE DEF f
<1>4. PICK P \in SUBSET Promises :
          /\ \A a \in P : ~a.current
          /\ Teardown(f) = [f EXCEPT !.d.awaiting = P, !.d.player = NoTour]
  BY <1>3, TeardownDoes
<1>5. [f.d EXCEPT !.awaiting = P, !.player = NoTour] \in Docs
  BY <1>3, NoTourIsIdle DEF Worlds, Docs
<1>6. /\ v \in Worlds /\ v.rec = None /\ v.told = f.told
      /\ v.d = [f.d EXCEPT !.awaiting = P, !.player = NoTour]
  <2>1. v = [f EXCEPT !.d = [f.d EXCEPT !.awaiting = P, !.player = NoTour]]
    BY <1>2, <1>3, <1>4 DEF Worlds
  <2> DEFINE D == [f.d EXCEPT !.awaiting = P, !.player = NoTour]
  <2> HIDE DEF D
  <2>2. D \in Docs /\ v = [f EXCEPT !.d = D]
    BY <1>5, <2>1 DEF D
  <2>3. v \in Worlds /\ v.rec = None /\ v.told = f.told /\ v.d = D
    BY <1>3, <2>2 DEF Worlds
  <2> QED
    BY <2>3 DEF D
<1>7. /\ SameOthers(v.d, f.d) /\ v.d.leaving = f.d.leaving /\ v.d.about = f.d.about
      /\ v.d.player = NoTour /\ v.d.awaiting = P
  BY <1>3, <1>6 DEF Worlds, Docs, SameOthers
<1>8. DocOK(v.d) /\ ~Active(v.d)
  <2>1. v.d \in Docs /\ v.d.about = None
    BY <1>1, <1>3, <1>6, <1>7 DEF Worlds
  <2>2. \A a \in v.d.awaiting : ~a.current
    BY <1>4, <1>7
  <2> QED
    BY <2>1, <2>2, <1>7, IdleIsOK
<1>9. StoryOK(w) => StoryOK(v)
  BY <1>1, <1>3, <1>6, <1>8 DEF StoryOK, Playing
<1> QED
  BY <1>1, <1>3, <1>6, <1>7, <1>8, <1>9 DEF SameOthers

LEMMA FirstFromIs ==
    ASSUME NEW w \in Worlds, Active(w.d), NEW i \in Nat \ {0}
    PROVE  LET steps == StepsOf(w.d.player.tour)
               j == FirstFrom(w, i)
           IN  /\ j \in Nat \ {0}
               /\ j <= Len(steps) => j \in i..Len(steps)
               /\ j > Len(steps) => j = Len(steps) + 1
               /\ j <= Len(steps) => \A k \in i..j - 1 : steps[k].kind = "frame"
               /\ j <= Len(steps) /\ steps[i].kind # "frame" => j = i
<1> DEFINE steps == StepsOf(w.d.player.tour)
           stays == {j \in i..Len(steps) :
                       steps[j].kind # "frame" \/ Leads(w, steps[j])}
<1>1. w.d.player.tour \in Tours \cup {Guide}
  <2>1. w.d \in Docs
    BY DEF Worlds
  <2>2. w.d.player \in Players
    BY <2>1 DEF Docs
  <2> QED
    BY <2>2 DEF Players, Active
<1>2. Len(steps) \in Nat
  BY <1>1, StepsAre, LenProperties
<1>3. CASE stays = {}
  <2>1. FirstFrom(w, i) = Len(steps) + 1
    BY <1>3 DEF FirstFrom
  <2> QED
    BY <1>2, <2>1
<1>4. CASE stays # {}
  <2>1. stays \in SUBSET Nat
    BY <1>2
  <2>2. PICK m \in stays : \A k \in stays : m <= k
    <3> DEFINE R == OpToRel(<, Nat)
    <3>1. IsWellFoundedOn(R, Nat)
      BY NatLessThanWellFounded
    <3>2. \A x, y \in Nat : x < y => <<x, y>> \in R
      BY DEF OpToRel
    <3> HIDE DEF R, stays
    <3>3. PICK m \in stays : \A k \in stays : ~(<<k, m>> \in R)
      BY <1>4, <2>1, <3>1, WFMin
    <3>4. \A k \in stays : k \in Nat
      BY <2>1
    <3>5. ASSUME NEW k \in stays PROVE m <= k
      <4>1. m \in Nat /\ k \in Nat /\ <<k, m>> \notin R
        BY <3>3, <3>4
      <4>2. ~(k < m)
        BY <3>2, <4>1
      <4> QED
        BY <4>1, <4>2
    <3> QED
      BY <3>5
  <2>3. FirstFrom(w, i) = CHOOSE j \in stays : \A k \in stays : j <= k
    BY <1>4 DEF FirstFrom
  <2>4. FirstFrom(w, i) \in stays /\ \A k \in stays : FirstFrom(w, i) <= k
    BY <2>2, <2>3
  <2> DEFINE j == FirstFrom(w, i)
  <2>5. j \in i..Len(steps) /\ \A k \in stays : j <= k
    BY <2>4
  <2> HIDE DEF j
  <2>6. \A k \in i..j - 1 : steps[k].kind = "frame"
    BY <1>2, <2>5
  <2>7. steps[i].kind # "frame" => j = i
    BY <1>2, <2>5, <2>6
  <2> QED
    BY <1>2, <2>5, <2>6, <2>7 DEF j
<1> QED
  BY <1>3, <1>4

LEMMA AtDoes ==
    ASSUME NEW w \in Worlds, NEW i \in Nat, NEW phase \in Phases,
           NEW v, v = At(w, i, phase)
    PROVE  /\ v \in Worlds /\ v.rec = w.rec /\ v.seen = w.seen /\ v.told = w.told
           /\ v.d.player.tour = w.d.player.tour /\ v.d.player.step = i
           /\ v.d.player.preview = w.d.player.preview /\ v.d.player.phase = phase
           /\ v.d.pill = w.d.pill \/ v.d.pill.kind = "progress"
           /\ SameOthers(v.d, w.d) /\ v.d.leaving = w.d.leaving
           /\ v.d.about = w.d.about /\ v.d.awaiting = w.d.awaiting
<1> DEFINE P == [w.d.player EXCEPT !.step = i, !.phase = phase]
           L == IF phase \in {"shown", "acting", "waiting"} /\ w.d.about # None
                THEN [kind |-> "progress", tour |-> w.d.about] ELSE w.d.pill
           D == [w.d EXCEPT !.player = P, !.pill = L]
<1>1. w.d \in Docs
  BY DEF Worlds
<1>2. w.d.player \in Players /\ w.d.pill \in Pills /\ w.d.about \in Tours \cup {None}
  BY <1>1 DEF Docs
<1>3. /\ P \in Players /\ P.tour = w.d.player.tour /\ P.step = i
      /\ P.preview = w.d.player.preview /\ P.phase = phase
  BY <1>2 DEF Players
<1>4. L \in Pills /\ (L = w.d.pill \/ L.kind = "progress")
  BY <1>2 DEF Pills
<1>5. v = [w EXCEPT !.d = D]
  <2>1. v = [w EXCEPT !.d.player.step = i, !.d.player.phase = phase, !.d.pill = L]
    BY DEF At
  <2> HIDE DEF L
  <2> QED
    BY <1>1, <1>2, <2>1 DEF Worlds, Docs, Players
<1> HIDE DEF P, L
<1>6. /\ D \in Docs /\ D.player = P /\ D.pill = L /\ SameOthers(D, w.d)
      /\ D.leaving = w.d.leaving /\ D.about = w.d.about /\ D.awaiting = w.d.awaiting
  BY <1>1, <1>3, <1>4 DEF Docs, SameOthers
<1> HIDE DEF D
<1>7. v \in Worlds /\ v.rec = w.rec /\ v.seen = w.seen /\ v.told = w.told /\ v.d = D
  BY <1>5, <1>6 DEF Worlds
<1> QED
  BY <1>3, <1>4, <1>6, <1>7

Whats == {"find", "wait", "timer"}

LEMMA AwaitDoes ==
    ASSUME NEW w \in Worlds, NEW i \in Nat, NEW what \in Whats,
           NEW v, v = Await(w, i, what)
    PROVE  /\ v \in Worlds /\ v.rec = w.rec /\ v.seen = w.seen /\ v.told = w.told
           /\ v.d.player = w.d.player /\ v.d.pill = w.d.pill
           /\ SameOthers(v.d, w.d) /\ v.d.leaving = w.d.leaving
           /\ v.d.about = w.d.about
           /\ \A a \in v.d.awaiting : a \in w.d.awaiting \/ a.step = i
<1> DEFINE a == [what |-> what, step |-> i, current |-> TRUE]
           D == [w.d EXCEPT !.awaiting = @ \cup {a}]
<1>1. w.d \in Docs
  BY DEF Worlds
<1>2. a \in Promises /\ a.step = i
  BY DEF Promises, Whats
<1>3. v = [w EXCEPT !.d = D]
  BY <1>1 DEF Await, Worlds, Docs
<1> HIDE DEF a
<1>4. /\ D \in Docs /\ D.player = w.d.player /\ D.pill = w.d.pill /\ SameOthers(D, w.d)
      /\ D.leaving = w.d.leaving /\ D.about = w.d.about
      /\ D.awaiting = w.d.awaiting \cup {a}
  BY <1>1, <1>2 DEF Docs, SameOthers
<1> HIDE DEF D
<1>5. v \in Worlds /\ v.rec = w.rec /\ v.seen = w.seen /\ v.told = w.told /\ v.d = D
  BY <1>3, <1>4 DEF Worlds
<1> QED
  BY <1>2, <1>4, <1>5

\* The document is sent to a page; nothing else changes.
LEMMA LeaveForDoes ==
    ASSUME NEW w \in Worlds, NEW p \in Pages \cup {None},
           NEW v, v = [w EXCEPT !.d.leaving = p]
    PROVE  /\ v \in Worlds /\ v.rec = w.rec /\ v.seen = w.seen /\ v.told = w.told
           /\ v.d.player = w.d.player /\ v.d.pill = w.d.pill
           /\ SameOthers(v.d, w.d) /\ v.d.leaving = p
           /\ v.d.about = w.d.about /\ v.d.awaiting = w.d.awaiting
<1> DEFINE D == [w.d EXCEPT !.leaving = p]
<1>1. w.d \in Docs
  BY DEF Worlds
<1>2. v = [w EXCEPT !.d = D]
  OBVIOUS
<1>3. /\ D \in Docs /\ D.player = w.d.player /\ D.pill = w.d.pill /\ SameOthers(D, w.d)
      /\ D.leaving = p /\ D.about = w.d.about /\ D.awaiting = w.d.awaiting
  BY <1>1 DEF Docs, SameOthers
<1> HIDE DEF D
<1>4. v \in Worlds /\ v.rec = w.rec /\ v.seen = w.seen /\ v.told = w.told /\ v.d = D
  BY <1>2, <1>3 DEF Worlds
<1> QED
  BY <1>3, <1>4

----------------------------------------------------------------------------
(* A step is shown.                                                        *)

\* The tour that plays in w is at its step i in v.
Landed(v, w, i) ==
    /\ v \in Worlds /\ DocOK(v.d) /\ SameOthers(v.d, w.d)
    /\ v.d.player.tour = w.d.player.tour /\ v.d.player.preview = w.d.player.preview
    /\ v.d.player.step = i
    /\ StoryOK(w) => StoryOK(v)
    /\ Exact(v)

\* … and has left it for what it would have been without a tour.
Ended(v, w) ==
    /\ v \in Worlds /\ DocOK(v.d) /\ SameOthers(v.d, w.d)
    /\ ~Active(v.d)
    /\ StoryOK(w) => StoryOK(v)
    /\ Exact(v)

\* The step goes down in the record and to the screen; then the document may
\* be sent elsewhere, or wait for something.
LEMMA StepIsPlaced ==
    ASSUME NEW w \in Worlds, Active(w.d), AboutIt(w.d), \A a \in w.d.awaiting : ~a.current,
           NEW i \in Nat \ {0}, i \in DOMAIN StepsOf(w.d.player.tour),
           NEW phase \in Phases, NEW nav \in BOOLEAN,
           NEW u, u = At(Persist(w, i, nav), i, phase),
           NEW v \in Worlds, v.rec = u.rec, v.told = u.told,
           v.d.player = u.d.player, v.d.pill = u.d.pill, SameOthers(v.d, u.d),
           v.d.about = u.d.about,
           \A a \in v.d.awaiting : a \in u.d.awaiting \/ a.step = i,
           nav => v.d.leaving # None
    PROVE  u \in Worlds /\ Landed(v, w, i)
<1> DEFINE p == Persist(w, i, nav)
<1>1. /\ p \in Worlds /\ p.d = w.d
      /\ Playing(w) => /\ p.rec # None /\ p.rec.tour = w.d.player.tour
                       /\ p.rec.step = i /\ p.rec.nav = nav
      /\ StoryOK(w) => StoryOK(p)
  BY PersistDoes
<1>2. u = At(p, i, phase) /\ p \in Worlds
  BY <1>1
<1> HIDE DEF p
<1>3. /\ u \in Worlds /\ u.rec = p.rec /\ u.told = p.told
      /\ u.d.player.tour = p.d.player.tour /\ u.d.player.step = i
      /\ u.d.player.preview = p.d.player.preview
      /\ u.d.pill = p.d.pill \/ u.d.pill.kind = "progress"
      /\ SameOthers(u.d, p.d)
      /\ u.d.about = p.d.about /\ u.d.awaiting = p.d.awaiting
  BY <1>2, AtDoes
<1>4. /\ v.d.player.tour = w.d.player.tour /\ v.d.player.preview = w.d.player.preview
      /\ v.d.player.step = i
  BY <1>1, <1>3
<1>5. AboutIt(v.d) /\ Active(v.d)
  BY <1>1, <1>3, <1>4 DEF AboutIt, Active
<1>6. AtOneStep(v.d)
  BY <1>1, <1>3, <1>4, <1>5 DEF AtOneStep
<1>7. SameOthers(v.d, w.d)
  BY <1>1, <1>3 DEF SameOthers
<1>8. ASSUME StoryOK(w) PROVE StoryOK(v)
  BY <1>1, <1>3, <1>4, <1>5, <1>8 DEF StoryOK, Playing, Active
<1>9. Exact(v)
  BY <1>1, <1>3, <1>4, <1>5 DEF Exact, Playing, Active
<1> QED
  BY <1>3, <1>4, <1>5, <1>6, <1>7, <1>8, <1>9 DEF Landed, DocOK

\* What outdates the promises of a document changes nothing else.
LEMMA OutdateKeeps ==
    ASSUME NEW w \in Worlds, NEW o, o = Outdate(w)
    PROVE  /\ o \in Worlds /\ o.rec = w.rec /\ o.seen = w.seen /\ o.told = w.told
           /\ o.d.player = w.d.player /\ o.d.pill = w.d.pill /\ SameOthers(o.d, w.d)
           /\ o.d.about = w.d.about /\ o.d.leaving = w.d.leaving
           /\ \A a \in o.d.awaiting : ~a.current
<1>1. PICK P \in SUBSET Promises : /\ \A a \in P : ~a.current
                                   /\ Outdate(w) = [w EXCEPT !.d.awaiting = P]
  BY OutdateDoes
<1> DEFINE D == [w.d EXCEPT !.awaiting = P]
<1>2. w.d \in Docs
  BY DEF Worlds
<1>3. o = [w EXCEPT !.d = D]
  BY <1>1
<1>4. /\ D \in Docs /\ D.player = w.d.player /\ D.pill = w.d.pill /\ SameOthers(D, w.d)
      /\ D.leaving = w.d.leaving /\ D.about = w.d.about /\ D.awaiting = P
  BY <1>2 DEF Docs, SameOthers
<1> HIDE DEF D
<1>5. o \in Worlds /\ o.rec = w.rec /\ o.seen = w.seen /\ o.told = w.told /\ o.d = D
  BY <1>3, <1>4 DEF Worlds
<1> QED
  BY <1>1, <1>4, <1>5

LEMMA StoryIsOf ==
    ASSUME NEW w \in Worlds, NEW o \in Worlds,
           o.rec = w.rec, o.told = w.told, o.d.pill = w.d.pill,
           o.d.player.tour = w.d.player.tour, o.d.player.preview = w.d.player.preview
    PROVE  StoryOK(w) => StoryOK(o)
BY DEF StoryOK, Playing, Active

LEMMA TourOfActive ==
    ASSUME NEW w \in Worlds, Active(w.d)
    PROVE  /\ w.d.player.tour \in Tours \cup {Guide}
           /\ StepsOf(w.d.player.tour) \in Seq([kind : Kinds, page : Pages \cup {None}])
           /\ Len(StepsOf(w.d.player.tour)) \in Nat
           /\ DOMAIN StepsOf(w.d.player.tour) = 1..Len(StepsOf(w.d.player.tour))
           /\ \A i \in DOMAIN StepsOf(w.d.player.tour) :
                 /\ StepsOf(w.d.player.tour)[i].page \in Pages \cup {None}
                 /\ StepsOf(w.d.player.tour)[i].kind \in Kinds
<1>1. w.d \in Docs
  BY DEF Worlds
<1>2. w.d.player \in Players
  BY <1>1 DEF Docs
<1>3. w.d.player.tour \in Tours \cup {Guide}
  BY <1>2 DEF Players, Active
<1> DEFINE s == StepsOf(w.d.player.tour)
<1>4. s \in Seq([kind : Kinds, page : Pages \cup {None}])
  BY <1>3, StepsAre
<1> HIDE DEF s
<1>5. Len(s) \in Nat /\ DOMAIN s = 1..Len(s)
  BY <1>4, LenProperties
<1>6. \A i \in DOMAIN s : s[i] \in [kind : Kinds, page : Pages \cup {None}]
  BY <1>4, <1>5, ElementOfSeq
<1>7. \A i \in DOMAIN s : s[i].page \in Pages \cup {None} /\ s[i].kind \in Kinds
  BY <1>6
<1> QED
  BY <1>3, <1>4, <1>5, <1>7 DEF s

\* showStep: the tour is at the first step from there on that is not passed
\* over, or complete.
LEMMA ShowStepDoes ==
    ASSUME NEW w \in Worlds, Active(w.d), AboutIt(w.d),
           NEW from \in Nat \ {0}, NEW here \in BOOLEAN,
           NEW v, v = ShowStep(w, from, here)
    PROVE  \/ Ended(v, w)
           \/ /\ FirstFrom(w, from) \in from..Len(StepsOf(w.d.player.tour))
              /\ Landed(v, w, FirstFrom(w, from))
<1> DEFINE steps == StepsOf(w.d.player.tour)
           i == FirstFrom(w, from)
           o == Outdate(w)
<1>1. /\ w.d.player.tour \in Tours \cup {Guide}
      /\ Len(steps) \in Nat /\ DOMAIN steps = 1..Len(steps)
      /\ \A k \in DOMAIN steps : steps[k].page \in Pages \cup {None} /\ steps[k].kind \in Kinds
  BY TourOfActive
<1>2. /\ i \in Nat \ {0}
      /\ i <= Len(steps) => i \in from..Len(steps)
      /\ i > Len(steps) => i = Len(steps) + 1
  BY FirstFromIs
<1>3. CASE i > Len(steps)
  <2>1. v = Finish(w, "completed")
    BY <1>3 DEF ShowStep
  <2>2. /\ v \in Worlds /\ SameOthers(v.d, w.d) /\ DocOK(v.d) /\ ~Active(v.d)
        /\ StoryOK(w) => StoryOK(v)
    BY <2>1, FinishDoes DEF Ends
  <2> QED
    BY <2>2 DEF Ended, Exact, Playing
<1>4. CASE i <= Len(steps)
  <2>1. i \in Nat \ {0} /\ i \in DOMAIN steps /\ i \in from..Len(steps)
    <3> HIDE DEF i, steps
    <3> QED
      BY <1>1, <1>2, <1>4
  <2>2. /\ o \in Worlds /\ o.rec = w.rec /\ o.told = w.told
        /\ o.d.player = w.d.player /\ o.d.pill = w.d.pill /\ SameOthers(o.d, w.d)
        /\ o.d.about = w.d.about
        /\ \A a \in o.d.awaiting : ~a.current
    BY OutdateKeeps
  <2> DEFINE step == steps[i]
             U(phase, nav) == At(Persist(o, i, nav), i, phase)
  <2>3. \/ \E phase \in Phases : v = U(phase, FALSE)
        \/ \E phase \in Phases, what \in Whats : v = Await(U(phase, FALSE), i, what)
        \/ Leads(w, step) /\ v = NavigateToStep(o, i)
    <3>1. ~(i > Len(steps))
      BY <1>1, <1>2, <1>4
    <3>2. /\ {"waiting", "shown", "acting", "searching"} \subseteq Phases
          /\ {"wait", "timer", "find"} \subseteq Whats
      BY DEF Phases, Whats
    <3>3. v = CASE step.kind = "wait" -> Await(U("waiting", FALSE), i, "wait")
                [] step.kind = "float" -> U("shown", FALSE)
                [] step.kind = "jump" -> Await(U("acting", FALSE), i, "timer")
                [] step.kind = "anchor" /\ here -> U("shown", FALSE)
                [] step.kind = "drive" /\ here -> Await(U("acting", FALSE), i, "timer")
                [] step.kind = "frame" /\ Leads(w, step) -> NavigateToStep(o, i)
                [] step.kind \in {"anchor", "drive"} /\ ~here /\ Leads(w, step) ->
                      NavigateToStep(o, i)
                [] OTHER -> Await(U("searching", FALSE), i, "find")
      BY <3>1 DEF ShowStep
    <3> HIDE DEF U, step, o, i
    <3> QED
      BY <3>2, <3>3, Zenon
  <2> HIDE DEF o, i, steps
  <2>4. Active(o.d) /\ AboutIt(o.d) /\ i \in DOMAIN StepsOf(o.d.player.tour)
    BY <2>1, <2>2 DEF Active, AboutIt, steps
  <2>5. Landed(v, o, i)
    <3>1. CASE \E phase \in Phases : v = U(phase, FALSE)
      <4>1. PICK phase \in Phases : v = U(phase, FALSE)
        BY <3>1
      <4>2. Persist(o, i, FALSE) \in Worlds
        BY <2>1, <2>2, <2>4, PersistDoes
      <4>3. v \in Worlds
        <5>1. PICK p : p = Persist(o, i, FALSE)
          OBVIOUS
        <5>2. p \in Worlds /\ v = At(p, i, phase)
          BY <4>1, <4>2, <5>1
        <5> QED
          BY <2>1, <5>2, AtDoes
      <4>4. SameOthers(v.d, v.d) /\ \A a \in v.d.awaiting : a \in v.d.awaiting
        BY DEF SameOthers
      <4> QED
        BY <2>1, <2>2, <2>4, <4>1, <4>3, <4>4, StepIsPlaced
    <3>2. CASE \E phase \in Phases, what \in Whats : v = Await(U(phase, FALSE), i, what)
      <4>1. PICK phase \in Phases, what \in Whats : v = Await(U(phase, FALSE), i, what)
        BY <3>2
      <4>2. PICK p : p = Persist(o, i, FALSE)
        OBVIOUS
      <4>3. PICK u : u = U(phase, FALSE)
        OBVIOUS
      <4>4. p \in Worlds
        BY <2>1, <2>2, <2>4, <4>2, PersistDoes
      <4>5. u \in Worlds
        BY <2>1, <4>2, <4>3, <4>4, AtDoes
      <4>6. v = Await(u, i, what)
        BY <4>1, <4>3
      <4>7. /\ v \in Worlds /\ v.rec = u.rec /\ v.told = u.told
            /\ v.d.player = u.d.player /\ v.d.pill = u.d.pill
            /\ SameOthers(v.d, u.d) /\ v.d.about = u.d.about
            /\ \A a \in v.d.awaiting : a \in u.d.awaiting \/ a.step = i
        BY <2>1, <4>5, <4>6, AwaitDoes
      <4>8. u = At(Persist(o, i, FALSE), i, phase)
        BY <4>3
      <4> HIDE DEF U
      <4> QED
        BY <2>1, <2>2, <2>4, <4>7, <4>8, StepIsPlaced
    <3>3. CASE Leads(w, step) /\ v = NavigateToStep(o, i)
      <4>1. PICK u : u = At(Persist(o, i, TRUE), i, "left")
        OBVIOUS
      <4>2. Persist(o, i, TRUE) \in Worlds
        BY <2>1, <2>2, <2>4, PersistDoes
      <4>3. "left" \in Phases
        BY DEF Phases
      <4>4. u \in Worlds
        BY <2>1, <4>1, <4>2, <4>3, AtDoes
      <4>5. step.page \in Pages \cup {None} /\ step.page # None
        BY <1>1, <2>1, <3>3 DEF Leads
      <4>6. v = [u EXCEPT !.d.leaving = step.page]
        BY <2>2, <3>3, <4>1 DEF NavigateToStep, steps
      <4> HIDE DEF step
      <4>7. /\ v \in Worlds /\ v.rec = u.rec /\ v.told = u.told
            /\ v.d.player = u.d.player /\ v.d.pill = u.d.pill
            /\ SameOthers(v.d, u.d) /\ v.d.leaving = step.page
            /\ v.d.about = u.d.about /\ v.d.awaiting = u.d.awaiting
        BY <4>4, <4>5, <4>6, LeaveForDoes
      <4> QED
        BY <2>1, <2>2, <2>4, <4>1, <4>3, <4>5, <4>7, StepIsPlaced
    <3> QED
      BY <2>3, <3>1, <3>2, <3>3
  <2>6. StoryOK(w) => StoryOK(o)
    BY <2>2, StoryIsOf
  <2>7. Landed(v, w, i)
    BY <2>2, <2>5, <2>6 DEF Landed, SameOthers
  <2> QED
    BY <2>1, <2>7 DEF i, steps
<1> HIDE DEF i, steps
<1> QED
  BY <1>1, <1>2, <1>3, <1>4

----------------------------------------------------------------------------
(* A tour is started, and ends.                                            *)

\* start: whatever played is gone without a word.
LEMMA StartDoes ==
    ASSUME NEW w \in Worlds, NEW t \in Tours \cup {Guide}, NEW preview \in BOOLEAN,
           t = Guide => preview, w.d.about = IF t \in Tours THEN t ELSE None,
           preview \/ w.d.pill.kind \notin {"offer", "resume"},
           NEW here \in BOOLEAN, NEW v, v = Start(w, t, preview, here)
    PROVE  /\ v \in Worlds /\ DocOK(v.d) /\ SameOthers(v.d, w.d)
           /\ Active(v.d) => v.d.player.tour = t /\ v.d.player.preview = preview
           /\ Active(v.d) /\ t = Guide => v.d.player.step = 1
           /\ StoryOK(w) => StoryOK(v)
           /\ Exact(v)
<1> DEFINE p == [tour |-> t, step |-> 0, preview |-> preview, phase |-> "idle"]
           s == [Teardown(w) EXCEPT !.d.player = p]
           resumes == /\ ~preview /\ w.rec # None /\ w.rec.tour = t
                      /\ w.rec.step <= Len(StepsOf(t))
           r == IF resumes \/ preview THEN s ELSE Report(s, t, "started")
           from == IF resumes THEN w.rec.step ELSE 1
<1>1. v = ShowStep(r, from, here)
  BY DEF Start
<1>2. p \in Players /\ p.tour = t /\ p.preview = preview
  BY DEF Players, Phases
<1> HIDE DEF p
<1>3. /\ s \in Worlds /\ s.rec = w.rec /\ s.told = w.told /\ s.d.pill = w.d.pill
      /\ s.d.player = p /\ s.d.about = w.d.about /\ SameOthers(s.d, w.d)
  <2>1. PICK P \in SUBSET Promises :
            Teardown(w) = [w EXCEPT !.d.awaiting = P, !.d.player = NoTour]
    BY TeardownDoes
  <2> DEFINE M == [w.d EXCEPT !.awaiting = P, !.player = NoTour]
             D == [M EXCEPT !.player = p]
  <2>2. w.d \in Docs
    BY DEF Worlds
  <2>3. M \in Docs /\ Teardown(w) = [w EXCEPT !.d = M]
    BY <2>1, <2>2, NoTourIsIdle DEF Worlds, Docs
  <2>4. /\ M.pill = w.d.pill /\ SameOthers(M, w.d) /\ M.about = w.d.about
    BY <2>2 DEF Docs, SameOthers
  <2> HIDE DEF M
  <2>5. /\ Teardown(w) \in Worlds /\ Teardown(w).d = M
        /\ Teardown(w).rec = w.rec /\ Teardown(w).told = w.told
    BY <2>3 DEF Worlds
  <2>6. /\ D \in Docs /\ D.player = p /\ D.pill = M.pill /\ SameOthers(D, M)
        /\ D.about = M.about
    BY <1>2, <2>3 DEF Docs, SameOthers
  <2>7. s = [Teardown(w) EXCEPT !.d = D]
    BY <2>5
  <2> HIDE DEF D, s
  <2>8. /\ s \in Worlds /\ s.rec = w.rec /\ s.told = w.told /\ s.d = D
    BY <2>5, <2>6, <2>7 DEF Worlds
  <2> QED
    BY <2>4, <2>6, <2>8 DEF SameOthers
<1> HIDE DEF s
<1>4. /\ r \in Worlds /\ r.d = s.d
      /\ resumes \/ preview => r = s
      /\ ~(resumes \/ preview) =>
            /\ r.rec = s.rec /\ r.told[t] \in Begun
            /\ \A k \in Tours \ {t} : r.told[k] = s.told[k]
  <2>1. CASE resumes \/ preview
    BY <1>3, <2>1
  <2>2. CASE ~(resumes \/ preview)
    <3>1. r = Report(s, t, "started") /\ t \in Tours /\ "started" \in Events
      BY <2>2 DEF Events
    <3> HIDE DEF r
    <3>2. /\ r \in Worlds /\ r.d = s.d /\ r.rec = s.rec
          /\ r.told[t] \in {"again", "started"}
          /\ \A k \in Tours \ {t} : r.told[k] = s.told[k]
      BY <1>3, <3>1, ReportDoes
    <3> QED
      BY <2>2, <3>2 DEF Begun
  <2> QED
    BY <2>1, <2>2
<1>5. from \in Nat \ {0}
  BY DEF Worlds, Records
<1> HIDE DEF r, from
<1>6. Active(r.d) /\ AboutIt(r.d) /\ r.d.player.tour = t /\ r.d.player.preview = preview
  BY <1>2, <1>3, <1>4, NoneAreApart DEF Active, AboutIt
<1>7. \/ Ended(v, r)
      \/ /\ FirstFrom(r, from) \in from..Len(StepsOf(r.d.player.tour))
         /\ Landed(v, r, FirstFrom(r, from))
  BY <1>1, <1>4, <1>5, <1>6, ShowStepDoes
<1>8. /\ v \in Worlds /\ DocOK(v.d) /\ SameOthers(v.d, w.d)
      /\ Active(v.d) => v.d.player.tour = t /\ v.d.player.preview = preview
      /\ Exact(v) /\ (StoryOK(r) => StoryOK(v))
  BY <1>3, <1>4, <1>6, <1>7 DEF Ended, Landed, SameOthers
<1>9. ASSUME StoryOK(w) PROVE StoryOK(r)
  <2>1. r.rec = w.rec /\ r.d.pill = w.d.pill
    BY <1>3, <1>4
  <2>2. \A k \in Tours : r.told[k] = w.told[k] \/ (k = t /\ r.told[k] \in Begun)
    BY <1>3, <1>4
  <2>3. w.rec # None => w.rec.tour \in Tours
    BY DEF Worlds, Records
  <2>4. r.rec # None => r.told[r.rec.tour] \in Begun
    BY <1>9, <2>1, <2>2, <2>3 DEF StoryOK
  <2>5. \A k \in Tours : r.told[k] # "stray"
    BY <1>9, <2>2 DEF StoryOK, Begun
  <2>6. Playing(r) => /\ r.told[t] \in Underway /\ r.d.pill.kind \notin {"offer", "resume"}
    BY <1>3, <1>4, <1>6, <1>9, <2>1 DEF StoryOK, Playing, Underway
  <2> QED
    BY <1>6, <2>4, <2>5, <2>6 DEF StoryOK
<1>10. ASSUME Active(v.d), t = Guide PROVE v.d.player.step = 1
  <2>1. from = 1
    BY <1>10, NoneAreApart DEF from, Worlds, Records
  <2>2. /\ v.d.player.step = FirstFrom(r, 1)
        /\ FirstFrom(r, 1) \in 1..Len(StepsOf(r.d.player.tour))
    BY <1>7, <1>10, <2>1 DEF Ended, Landed
  <2>3. StepsOf(r.d.player.tour)[1].kind # "frame"
    BY <1>6, <1>10, StepsAre
  <2>4. FirstFrom(r, 1) = 1
    BY <1>4, <1>6, <2>2, <2>3, FirstFromIs
  <2> QED
    BY <2>2, <2>4
<1> QED
  BY <1>8, <1>9, <1>10

----------------------------------------------------------------------------
(* What a handler of one document may do.                                  *)

\* StepByStep and OneOverlay, of one document.
OneStep(d, e) ==
    d.player.tour # None /\ e.player.tour = d.player.tour
        /\ e.player.preview = d.player.preview =>
    LET p == d.player
        q == e.player
    IN  \/ q.step = p.step
        \/ q.step < p.step /\ q.step + 1 = p.step
        \/ q.step > p.step /\ \A i \in p.step + 1..q.step - 1 :
              StepsOf(p.tour)[i].kind = "frame"

Alone(e) == /\ ~(Active(e) /\ e.survey) /\ ~(Active(e) /\ e.list = "open")
            /\ ~(e.survey /\ e.list = "open")

Modest(d, e) ==
    \/ Alone(e)
    \/ /\ Active(e) => Active(d)
       /\ e.survey => d.survey
       /\ e.list = "open" => d.list = "open"

Steady(v, w) ==
    /\ v \in Worlds /\ DocOK(v.d)
    /\ StoryOK(w) => StoryOK(v)
    /\ OneStep(w.d, v.d) /\ Modest(w.d, v.d)

Sound(v, w) == Steady(v, w) /\ Keeps(v, w)

\* What a failing checkResume leaves.
Dropped(v, w) ==
    /\ Steady(v, w) /\ v.rec = None
    /\ \E r \in w.d.requests \ v.d.requests : r.what = "resume"

\* The worlds that differ in nothing a tour depends on.
Like(u, w) ==
    /\ u.rec = w.rec /\ u.told = w.told /\ u.d.player = w.d.player
    /\ u.d.about = w.d.about /\ u.d.pill = w.d.pill /\ u.d.leaving = w.d.leaving
    /\ SameOthers(u.d, w.d)

LEMMA DocOfWorld ==
    ASSUME NEW w \in Worlds
    PROVE  /\ w.d \in Docs /\ w.d.player \in Players /\ w.d.about \in Tours \cup {None}
           /\ w.d.player.step \in Nat
BY DEF Worlds, Docs, Players

LEMMA DocIsSet ==
    ASSUME NEW w \in Worlds, NEW D \in Docs, NEW v, v = [w EXCEPT !.d = D]
    PROVE  v \in Worlds /\ v.d = D /\ v.rec = w.rec /\ v.seen = w.seen /\ v.told = w.told
BY DEF Worlds

LEMMA SoundOfLike ==
    ASSUME NEW w \in Worlds, NEW u \in Worlds, NEW v, Like(u, w), Sound(v, u)
    PROVE  Sound(v, w)
<1>1. (StoryOK(w) => StoryOK(u)) /\ Keeps(u, w)
  BY DEF Like, StoryOK, Keeps, Stored, Exact, Playing, Active
<1>2. OneStep(w.d, v.d) /\ Modest(w.d, v.d)
  BY DEF Like, Sound, Steady, OneStep, Modest, Active, SameOthers
<1>3. Keeps(v, w)
  BY <1>1 DEF Keeps, Sound
<1> QED
  BY <1>1, <1>2, <1>3 DEF Sound, Steady

LEMMA LikeIsOK ==
    ASSUME NEW w \in Worlds, NEW u \in Worlds, Like(u, w), DocOK(w.d),
           \A a \in u.d.awaiting : a \in w.d.awaiting
    PROVE  DocOK(u.d)
BY DEF Like, DocOK, AboutIt, AtOneStep, Active

LEMMA LikeIsSound ==
    ASSUME NEW w \in Worlds, NEW u \in Worlds, Like(u, w), DocOK(w.d),
           \A a \in u.d.awaiting : a \in w.d.awaiting
    PROVE  Sound(u, w)
<1>1. DocOK(u.d)
  BY LikeIsOK
<1>2. (StoryOK(w) => StoryOK(u)) /\ Keeps(u, w)
  BY DEF Like, StoryOK, Keeps, Stored, Exact, Playing, Active
<1>3. OneStep(w.d, u.d) /\ Modest(w.d, u.d)
  BY DEF Like, OneStep, Modest, Active, SameOthers
<1> QED
  BY <1>1, <1>2, <1>3 DEF Sound, Steady

\* A tour that ends.
LEMMA EndedIsSound ==
    ASSUME NEW w \in Worlds, NEW v, Ended(v, w)
    PROVE  Sound(v, w)
BY DEF Ended, Sound, Steady, Keeps, Stored, OneStep, Modest, SameOthers, Active

\* play: an active tour gives way, and so do the other overlays.
LEMMA PlayDoes ==
    ASSUME NEW w \in Worlds, DocOK(w.d), NEW t \in Tours, NEW preview \in BOOLEAN,
           NEW here \in BOOLEAN, NEW v, v = Play(w, t, preview, here)
    PROVE  /\ Sound(v, w)
           /\ ~Active(w.d) => ~v.d.survey /\ v.d.list # "open"
<1> DEFINE gone == IF Active(w.d) THEN Finish(w, "dismissed") ELSE w
           screen == [gone EXCEPT !.d.pill = NoPill, !.d.survey = FALSE,
                                  !.d.list = IF @ = "open" THEN "pill" ELSE @,
                                  !.d.about = t]
           s == Start(screen, t, preview, here)
<1>1. CASE Active(w.d) /\ w.d.about = t
  <2>1. v = w
    BY <1>1 DEF Play
  <2>2. Like(v, w)
    BY <2>1 DEF Like, SameOthers
  <2> QED
    BY <1>1, <2>1, <2>2, LikeIsSound
<1>2. CASE ~(Active(w.d) /\ w.d.about = t)
  <2>1. v = IF ~Active(s.d) THEN s
            ELSE [s EXCEPT !.d.pill = [kind |-> "progress", tour |-> t]]
    BY <1>2 DEF Play
  <2>2. /\ gone \in Worlds /\ ~Active(gone.d)
        /\ StoryOK(w) => StoryOK(gone)
    <3>1. CASE Active(w.d)
      <4>1. gone = Finish(w, "dismissed") /\ "dismissed" \in Ends
        BY <3>1 DEF Ends
      <4> QED
        BY <3>1, <4>1, FinishDoes DEF DocOK
    <3>2. CASE ~Active(w.d)
      BY <3>2
    <3> QED
      BY <3>1, <3>2
  <2> HIDE DEF gone
  <2>3. /\ screen \in Worlds /\ screen.rec = gone.rec /\ screen.told = gone.told
        /\ screen.d.pill.kind = "none" /\ ~screen.d.survey /\ screen.d.list # "open"
        /\ screen.d.about = t /\ screen.d.player = gone.d.player
    <3> DEFINE L == IF gone.d.list = "open" THEN "pill" ELSE gone.d.list
               D == [gone.d EXCEPT !.pill = NoPill, !.survey = FALSE,
                                   !.list = L, !.about = t]
    <3>1. gone.d \in Docs
      BY <2>2 DEF Worlds
    <3>2. L \in {"none", "pill"}
      BY <3>1 DEF Docs
    <3>3. screen = [gone EXCEPT !.d = D]
      BY <2>2, <3>1 DEF Worlds, Docs
    <3> HIDE DEF L, screen
    <3>4. /\ D \in Docs /\ D.pill = NoPill /\ D.survey = FALSE /\ D.list = L
          /\ D.about = t /\ D.player = gone.d.player
      BY <3>1, <3>2, NoTourIsIdle DEF Docs
    <3> HIDE DEF D
    <3>5. /\ screen \in Worlds /\ screen.rec = gone.rec /\ screen.told = gone.told
          /\ screen.d = D
      BY <2>2, <3>3, <3>4, DocIsSet
    <3> QED
      BY <3>2, <3>4, <3>5 DEF NoPill
  <2> HIDE DEF screen
  <2>4. StoryOK(w) => StoryOK(screen)
    BY <2>2, <2>3 DEF StoryOK, Playing, Active
  <2>5. /\ s \in Worlds /\ DocOK(s.d) /\ SameOthers(s.d, screen.d)
        /\ Active(s.d) => s.d.player.tour = t
        /\ StoryOK(screen) => StoryOK(s)
        /\ Exact(s)
    <3>1. /\ t \in Tours \cup {Guide} /\ t # Guide
          /\ screen.d.about = IF t \in Tours THEN t ELSE None
          /\ screen.d.pill.kind \notin {"offer", "resume"}
      BY <2>3, NoneAreApart
    <3> QED
      BY <2>3, <3>1, StartDoes
  <2> HIDE DEF s
  <2>6. /\ v \in Worlds /\ v.rec = s.rec /\ v.told = s.told
        /\ v.d.player = s.d.player /\ v.d.leaving = s.d.leaving
        /\ v.d.about = s.d.about /\ v.d.awaiting = s.d.awaiting
        /\ SameOthers(v.d, s.d)
        /\ v.d.pill = s.d.pill \/ v.d.pill.kind = "progress"
    <3>1. CASE ~Active(s.d)
      BY <2>1, <2>5, <3>1 DEF SameOthers
    <3>2. CASE Active(s.d)
      <4> DEFINE l == [kind |-> "progress", tour |-> t]
                 D == [s.d EXCEPT !.pill = l]
      <4>1. v = [s EXCEPT !.d = D]
        BY <2>1, <3>2
      <4>2. s.d \in Docs
        BY <2>5 DEF Worlds
      <4>3. l \in Pills /\ l.kind = "progress"
        BY DEF Pills
      <4> HIDE DEF l
      <4>4. /\ D \in Docs /\ D.pill = l /\ D.player = s.d.player /\ D.leaving = s.d.leaving
            /\ D.about = s.d.about /\ D.awaiting = s.d.awaiting /\ SameOthers(D, s.d)
        BY <4>2, <4>3 DEF Docs, SameOthers
      <4> HIDE DEF D
      <4>5. v \in Worlds /\ v.rec = s.rec /\ v.told = s.told /\ v.d = D
        BY <2>5, <4>1, <4>4, DocIsSet
      <4> QED
        BY <4>3, <4>4, <4>5
    <3> QED
      BY <3>1, <3>2
  <2>7. DocOK(v.d)
    BY <2>5, <2>6 DEF DocOK, AboutIt, AtOneStep, Active
  <2>8. ASSUME StoryOK(w) PROVE StoryOK(v)
    <3>1. StoryOK(s)
      BY <2>4, <2>5, <2>8
    <3> QED
      BY <2>6, <3>1 DEF StoryOK, Playing, Active
  <2>9. Exact(v)
    BY <2>5, <2>6 DEF Exact, Playing, Active
  <2>10. ~v.d.survey /\ v.d.list # "open"
    BY <2>3, <2>5, <2>6 DEF SameOthers
  <2>11. OneStep(w.d, v.d)
    <3>1. v.d.player.tour \in {t, None}
      BY <2>5, <2>6 DEF Active
    <3>2. w.d.player.tour # t
      BY <1>2, NoneAreApart DEF DocOK, AboutIt, Active
    <3> QED
      BY <3>1, <3>2 DEF OneStep
  <2> QED
    BY <2>6, <2>7, <2>8, <2>9, <2>10, <2>11 DEF Sound, Steady, Keeps, Stored, Modest, Alone
<1> QED
  BY <1>1, <1>2

----------------------------------------------------------------------------
(* The player's events.                                                    *)

\* From the step on the screen, showStep goes to the next or the one before.
LEMMA ShowStepMoves ==
    ASSUME NEW w \in Worlds, DocOK(w.d), Active(w.d),
           NEW from \in Nat \ {0}, from + 1 = w.d.player.step \/ from = w.d.player.step + 1,
           NEW here \in BOOLEAN, NEW v, v = ShowStep(w, from, here)
    PROVE  /\ v \in Worlds /\ DocOK(v.d) /\ Exact(v)
           /\ StoryOK(w) => StoryOK(v)
           /\ OneStep(w.d, v.d) /\ Modest(w.d, v.d)
<1> DEFINE steps == StepsOf(w.d.player.tour)
           i == FirstFrom(w, from)
<1>1. \/ Ended(v, w)
      \/ i \in from..Len(steps) /\ Landed(v, w, i)
  BY ShowStepDoes DEF DocOK
<1>2. CASE Ended(v, w)
  BY <1>2, EndedIsSound DEF Ended, Sound, Steady
<1>3. CASE i \in from..Len(steps) /\ Landed(v, w, i)
  <2>1. i <= Len(steps) => \A k \in from..i - 1 : steps[k].kind = "frame"
    BY FirstFromIs
  <2>2. Len(steps) \in Nat /\ w.d.player.step \in Nat
    BY TourOfActive, DocOfWorld
  <2>3. v.d.player.step = i /\ v.d.player.tour = w.d.player.tour
    BY <1>3 DEF Landed
  <2> HIDE DEF i, steps
  <2>4. i \in from..Len(steps) /\ \A k \in from..i - 1 : steps[k].kind = "frame"
    BY <1>3, <2>1, <2>2
  <2> DEFINE p == w.d.player.step
  <2> HIDE DEF p
  <2>5. \/ i = p
        \/ i < p /\ i + 1 = p
        \/ i > p /\ \A k \in p + 1..i - 1 : steps[k].kind = "frame"
    <3>1. p \in Nat /\ (from + 1 = p \/ from = p + 1)
      BY <2>2 DEF p
    <3>2. CASE from + 1 = p
      <4>1. i > p => \A k \in p + 1..i - 1 : k \in from..i - 1
        BY <2>2, <2>4, <3>1, <3>2
      <4>2. i = from \/ i = p \/ i > p
        BY <2>2, <2>4, <3>1, <3>2
      <4> QED
        BY <2>2, <2>4, <3>1, <3>2, <4>1, <4>2
    <3>3. CASE from = p + 1
      BY <2>2, <2>4, <3>1, <3>3
    <3> QED
      BY <3>1, <3>2, <3>3
  <2>6. OneStep(w.d, v.d)
    BY <2>3, <2>5 DEF OneStep, p, steps
  <2>7. Modest(w.d, v.d)
    BY <1>3 DEF Landed, Modest, Active, SameOthers
  <2> QED
    BY <1>3, <2>6, <2>7 DEF Landed
<1> QED
  BY <1>1, <1>2, <1>3

LEMMA ShowStepIsSound ==
    ASSUME NEW w \in Worlds, DocOK(w.d), Active(w.d),
           NEW from \in Nat \ {0}, from + 1 = w.d.player.step \/ from = w.d.player.step + 1,
           NEW here \in BOOLEAN
    PROVE  Sound(ShowStep(w, from, here), w)
BY ShowStepMoves DEF Sound, Steady, Keeps, Stored

LEMMA FinishIsSound ==
    ASSUME NEW w \in Worlds, DocOK(w.d), Active(w.d), NEW e \in Ends
    PROVE  Ended(Finish(w, e), w)
BY FinishDoes DEF Ended, DocOK, Exact, Playing

\* completeFrom: the last step may lead to another page.
LEMMA CompleteFromIsSound ==
    ASSUME NEW w \in Worlds, DocOK(w.d), Active(w.d), NEW step, step.page \in Pages \cup {None}
    PROVE  Sound(CompleteFrom(w, step), w)
<1> DEFINE over == Finish(w, "completed")
           v == CompleteFrom(w, step)
<1>1. Ended(over, w)
  BY FinishIsSound DEF Ends
<1>2. CASE ~Leads(w, step)
  <2>1. v = over
    BY <1>2 DEF CompleteFrom
  <2> QED
    BY <1>1, <2>1, EndedIsSound
<1>3. CASE Leads(w, step)
  <2>1. v = [over EXCEPT !.d.leaving = step.page]
    BY <1>3 DEF CompleteFrom
  <2> HIDE DEF over, v
  <2>2. over \in Worlds
    BY <1>1 DEF Ended
  <2>3. PICK p \in Pages \cup {None} : v = [over EXCEPT !.d.leaving = p]
    BY <2>1
  <2>4. /\ v \in Worlds /\ v.rec = over.rec /\ v.told = over.told
        /\ v.d.player = over.d.player /\ v.d.pill = over.d.pill
        /\ SameOthers(v.d, over.d)
        /\ v.d.about = over.d.about /\ v.d.awaiting = over.d.awaiting
    <3> DEFINE D == [over.d EXCEPT !.leaving = p]
    <3>1. over.d \in Docs /\ v = [over EXCEPT !.d = D]
      BY <2>2, <2>3 DEF Worlds
    <3>2. /\ D \in Docs /\ D.player = over.d.player /\ D.pill = over.d.pill
          /\ SameOthers(D, over.d)
          /\ D.about = over.d.about /\ D.awaiting = over.d.awaiting
      BY <3>1 DEF Docs, SameOthers
    <3> HIDE DEF D
    <3> QED
      BY <2>2, <3>1, <3>2, DocIsSet
  <2>5. Ended(v, w)
    BY <1>1, <2>4 DEF Ended, DocOK, AboutIt, AtOneStep, Active, SameOthers, StoryOK,
                      Exact, Playing
  <2> QED
    BY <2>5, EndedIsSound DEF v
<1> QED
  BY <1>2, <1>3

\* What awaitTarget's end shows, of the step that the tour is at.
LEMMA PresentIsSound ==
    ASSUME NEW w \in Worlds, DocOK(w.d), Active(w.d), NEW a \in Promises,
           a.step = w.d.player.step, NEW found \in BOOLEAN
    PROVE  Sound(Present(w, a, found), w)
<1> DEFINE i == a.step
           v == Present(w, a, found)
<1>1. i \in Nat
  BY DEF Promises
<1>2. \E phase \in Phases : \/ v = At(w, i, phase)
                            \/ v = Await(At(w, i, phase), i, "timer")
  <2>1. {"blocked", "acting", "shown"} \subseteq Phases
    BY DEF Phases
  <2>2. \/ v = At(w, i, "blocked") \/ v = At(w, i, "shown")
        \/ v = Await(At(w, i, "acting"), i, "timer")
    BY DEF Present
  <2> QED
    BY <2>1, <2>2
<1>3. PICK phase \in Phases : \/ v = At(w, i, phase)
                              \/ v = Await(At(w, i, phase), i, "timer")
  BY <1>2
<1>4. PICK u : u = At(w, i, phase)
  OBVIOUS
<1> HIDE DEF v, i
<1>5. /\ u \in Worlds /\ u.rec = w.rec /\ u.told = w.told
      /\ u.d.player.tour = w.d.player.tour /\ u.d.player.step = i
      /\ u.d.player.preview = w.d.player.preview
      /\ u.d.pill = w.d.pill \/ u.d.pill.kind = "progress"
      /\ SameOthers(u.d, w.d) /\ u.d.leaving = w.d.leaving
      /\ u.d.about = w.d.about /\ u.d.awaiting = w.d.awaiting
  BY <1>1, <1>4, AtDoes
<1>6. /\ v \in Worlds /\ v.rec = u.rec /\ v.told = u.told
      /\ v.d.player = u.d.player /\ v.d.pill = u.d.pill
      /\ SameOthers(v.d, u.d) /\ v.d.leaving = u.d.leaving
      /\ v.d.about = u.d.about
      /\ \A x \in v.d.awaiting : x \in u.d.awaiting \/ x.step = i
  <2>1. CASE v = u
    BY <1>5, <2>1 DEF SameOthers
  <2>2. CASE v = Await(u, i, "timer")
    <3>1. "timer" \in Whats
      BY DEF Whats
    <3> QED
      BY <1>1, <1>5, <2>2, <3>1, AwaitDoes
  <2> QED
    BY <1>3, <1>4, <2>1, <2>2
<1>7. i = w.d.player.step
  BY DEF i
<1>8. Active(v.d) /\ DocOK(v.d)
  BY <1>5, <1>6, <1>7 DEF DocOK, AboutIt, AtOneStep, Active
<1>9. StoryOK(w) => StoryOK(v)
  BY <1>5, <1>6 DEF StoryOK, Playing, Active
<1>10. Keeps(v, w)
  BY <1>5, <1>6, <1>7 DEF Keeps, Stored, Exact, Playing, Active
<1>11. OneStep(w.d, v.d) /\ Modest(w.d, v.d)
  BY <1>5, <1>6, <1>7 DEF OneStep, Modest, Active, SameOthers
<1> QED
  BY <1>6, <1>8, <1>9, <1>10, <1>11 DEF Sound, Steady, v

\* What a promise or a timer brings: nothing, unless it is of the step on the
\* screen.
LEMMA ContinueIsSound ==
    ASSUME NEW w \in Worlds, DocOK(w.d), NEW a \in Promises,
           a.current => a.step = w.d.player.step,
           NEW found \in BOOLEAN, NEW here \in BOOLEAN
    PROVE  Sound(Continue(w, a, found, here), w)
<1> DEFINE v == Continue(w, a, found, here)
           i == a.step
<1>1. CASE Outdated(w, a)
  <2>1. v = w
    BY <1>1 DEF Continue
  <2>2. Like(w, w)
    BY DEF Like, SameOthers
  <2> QED
    BY <2>1, <2>2, LikeIsSound
<1>2. CASE ~Outdated(w, a)
  <2>1. Active(w.d) /\ i = w.d.player.step
    BY <1>2 DEF Outdated
  <2>2. i \in Nat /\ i + 1 \in Nat \ {0} /\ a.what \in {"find", "wait", "timer"}
    BY DEF Promises
  <2>3. i \in DOMAIN StepsOf(w.d.player.tour)
    BY <2>1 DEF DocOK, AtOneStep
  <2>4. CASE a.what = "find"
    <3>1. v = Present(w, a, found)
      BY <1>2, <2>4 DEF Continue
    <3> QED
      BY <2>1, <3>1, PresentIsSound
  <2>5. CASE a.what = "wait"
    <3>1. v = ShowStep(w, i + 1, here)
      BY <1>2, <2>5 DEF Continue, Goto
    <3> QED
      BY <2>1, <2>2, <3>1, ShowStepIsSound
  <2>6. CASE a.what = "timer"
    <3> DEFINE step == StepsOf(w.d.player.tour)[i]
               p == IF step.kind = "jump" THEN Persist(w, i + 1, TRUE) ELSE w
               s == ShowStep(p, i + 1, here)
    <3>1. v = IF step.kind = "jump" /\ step.page # None /\ s.d.leaving = None
              THEN [s EXCEPT !.d.leaving = step.page] ELSE s
      BY <1>2, <2>6 DEF Continue, Goto
    <3>2. step.page \in Pages \cup {None}
      BY <2>1, <2>3, TourOfActive
    <3>3. p \in Worlds /\ p.d = w.d /\ (StoryOK(w) => StoryOK(p))
      <4>1. CASE step.kind = "jump"
        <5>1. PICK n \in Nat \ {0}, nav \in BOOLEAN : p = Persist(w, n, nav)
          BY <2>2, <4>1
        <5> HIDE DEF p, i, s, v, step
        <5>2. AboutIt(w.d)
          BY DEF DocOK
        <5> QED
          BY <2>1, <5>1, <5>2, PersistDoes
      <4>2. CASE step.kind # "jump"
        BY <4>2
      <4> QED
        BY <4>1, <4>2
    <3> HIDE DEF p
    <3>4. /\ s \in Worlds /\ DocOK(s.d) /\ Exact(s)
          /\ StoryOK(p) => StoryOK(s)
          /\ OneStep(p.d, s.d) /\ Modest(p.d, s.d)
      BY <2>1, <2>2, <3>3, ShowStepMoves
    <3> HIDE DEF s, step
    <3>5. Sound(s, w)
      BY <3>3, <3>4 DEF Sound, Steady, Keeps, Stored
    <3>6. CASE v = s
      BY <3>5, <3>6
    <3>7. CASE v = [s EXCEPT !.d.leaving = step.page] /\ step.page # None
      <4> HIDE DEF v
      <4>1. /\ v \in Worlds /\ v.rec = s.rec /\ v.told = s.told
            /\ v.d.player = s.d.player /\ v.d.pill = s.d.pill
            /\ SameOthers(v.d, s.d) /\ v.d.leaving # None
            /\ v.d.about = s.d.about /\ v.d.awaiting = s.d.awaiting
        BY <3>2, <3>4, <3>7, LeaveForDoes
      <4>2. DocOK(v.d)
        BY <3>4, <4>1 DEF DocOK, AboutIt, AtOneStep, Active
      <4>3. StoryOK(s) => StoryOK(v)
        BY <4>1 DEF StoryOK, Playing, Active
      <4>4. Exact(v)
        BY <3>4, <4>1 DEF Exact, Playing, Active
      <4>5. OneStep(w.d, v.d) /\ Modest(w.d, v.d)
        BY <3>5, <4>1 DEF Sound, Steady, OneStep, Modest, Alone, SameOthers, Active
      <4> QED
        BY <3>5, <4>1, <4>2, <4>3, <4>4, <4>5 DEF Sound, Steady, Keeps, Stored, v
    <3> QED
      BY <3>1, <3>6, <3>7
  <2> QED
    BY <2>2, <2>4, <2>5, <2>6
<1> QED
  BY <1>1, <1>2

----------------------------------------------------------------------------
(* The loader's handlers.                                                  *)

LEMMA SteadyThenLike ==
    ASSUME NEW w \in Worlds, NEW u, NEW v \in Worlds, Steady(u, w), Like(v, u),
           \A a \in v.d.awaiting : a \in u.d.awaiting
    PROVE  Steady(v, w) /\ Keeps(v, u)
<1>1. u \in Worlds /\ DocOK(u.d)
  BY DEF Steady
<1>2. DocOK(v.d)
  BY <1>1, LikeIsOK
<1>3. (StoryOK(u) => StoryOK(v)) /\ Keeps(v, u)
  BY <1>1 DEF Like, StoryOK, Keeps, Stored, Exact, Playing, Active
<1>4. OneStep(w.d, v.d) /\ Modest(w.d, v.d)
  BY DEF Steady, Like, OneStep, Modest, Alone, Active, SameOthers
<1> QED
  BY <1>2, <1>3, <1>4 DEF Steady

LEMMA SoundThenLike ==
    ASSUME NEW w \in Worlds, NEW u, NEW v \in Worlds, Sound(u, w), Like(v, u),
           \A a \in v.d.awaiting : a \in u.d.awaiting
    PROVE  Sound(v, w)
BY SteadyThenLike DEF Sound, Keeps, Steady

LEMMA SoundRefl ==
    ASSUME NEW w \in Worlds, DocOK(w.d)
    PROVE  Sound(w, w)
<1>1. Like(w, w)
  BY DEF Like, SameOthers
<1> QED
  BY <1>1, LikeIsSound

LEMMA RequestDoes ==
    ASSUME NEW w \in Worlds, NEW R \in SUBSET Fetches, NEW v, v = [w EXCEPT !.d.requests = R]
    PROVE  /\ v \in Worlds /\ Like(v, w) /\ v.d.awaiting = w.d.awaiting
           /\ v.d.requests = R
<1> DEFINE D == [w.d EXCEPT !.requests = R]
<1>1. w.d \in Docs /\ v = [w EXCEPT !.d = D]
  BY DEF Worlds
<1>2. /\ D \in Docs /\ D.player = w.d.player /\ D.about = w.d.about /\ D.pill = w.d.pill
      /\ D.leaving = w.d.leaving /\ SameOthers(D, w.d) /\ D.awaiting = w.d.awaiting
      /\ D.requests = R
  BY <1>1 DEF Docs, SameOthers
<1> HIDE DEF D
<1>3. v \in Worlds /\ v.d = D /\ v.rec = w.rec /\ v.told = w.told
  BY <1>1, <1>2 DEF Worlds
<1> QED
  BY <1>2, <1>3 DEF Like

LEMMA CheckDoes ==
    ASSUME NEW w \in Worlds, NEW v, v = CheckExperiences(w)
    PROVE  /\ v \in Worlds /\ Like(v, w) /\ v.d.awaiting = w.d.awaiting
           /\ \A r \in v.d.requests : r \in w.d.requests \/ r.what = "offers"
<1>1. CASE w.d.preview
  BY <1>1 DEF CheckExperiences, Like, SameOthers
<1>2. CASE ~w.d.preview
  <2>1. w.d.requests \cup {[what |-> "offers", tour |-> None]} \in SUBSET Fetches
    BY DEF Worlds, Docs, Fetches
  <2>2. PICK R \in SUBSET Fetches :
            R = w.d.requests \cup {[what |-> "offers", tour |-> None]}
    BY <2>1
  <2>3. v = [w EXCEPT !.d.requests = R]
    BY <1>2, <2>2 DEF CheckExperiences, Request
  <2>4. v.d.requests = R
    BY <2>3 DEF Worlds, Docs
  <2>5. v \in Worlds
    BY <2>3, RequestDoes
  <2>6. v.d.awaiting = w.d.awaiting
    BY <2>3 DEF Worlds, Docs
  <2>7. Like(v, w)
    BY <2>3, RequestDoes
  <2> QED
    BY <2>2, <2>4, <2>5, <2>6, <2>7
<1> QED
  BY <1>1, <1>2

LEMMA CheckIsSound ==
    ASSUME NEW w \in Worlds, NEW u, Sound(u, w)
    PROVE  Sound(CheckExperiences(u), w)
<1>1. u \in Worlds
  BY DEF Sound, Steady
<1> DEFINE v == CheckExperiences(u)
<1>2. v \in Worlds /\ Like(v, u) /\ v.d.awaiting = u.d.awaiting
  BY <1>1, CheckDoes
<1> HIDE DEF v
<1>3. Sound(v, w)
  BY <1>2, SoundThenLike
<1> QED
  BY <1>3 DEF v

LEMMA ForgetIsSound ==
    ASSUME NEW w \in Worlds, DocOK(w.d), ~Active(w.d)
    PROVE  Sound(Forget(w), w)
<1> DEFINE v == Forget(w)
<1>1. /\ v \in Worlds /\ v.d = w.d /\ v.rec = None
      /\ \A t \in Tours :
            v.told[t] = IF w.rec # None /\ w.rec.tour = t /\ w.told[t] = "started"
                        THEN "forgotten" ELSE w.told[t]
  BY ForgetDoes
<1> HIDE DEF v
<1>2. Playing(w) => w.d.player.tour \in Tours
  BY DocOfWorld DEF Playing, Active, DocOK, AboutIt, Players
<1>3. StoryOK(w) => StoryOK(v)
  BY <1>1, <1>2 DEF StoryOK, Playing, Begun
<1>4. Keeps(v, w)
  BY <1>1 DEF Keeps, Stored, Exact, Playing
<1>5. OneStep(w.d, v.d) /\ Modest(w.d, v.d)
  BY <1>1 DEF OneStep, Modest
<1> QED
  BY <1>1, <1>3, <1>4, <1>5 DEF Sound, Steady, v

\* Only where no tour plays does a pill offer one.
LEMMA PillIsSound ==
    ASSUME NEW w \in Worlds, DocOK(w.d), NEW l \in Pills,
           ~Active(w.d) \/ l.kind = "none",
           NEW v, v = [w EXCEPT !.d.pill = l]
    PROVE  Sound(v, w) /\ SameOthers(v.d, w.d) /\ v.d.player = w.d.player
<1> DEFINE D == [w.d EXCEPT !.pill = l]
<1>1. w.d \in Docs /\ v = [w EXCEPT !.d = D]
  BY DEF Worlds
<1>2. /\ D \in Docs /\ D.player = w.d.player /\ D.about = w.d.about /\ D.pill = l
      /\ D.leaving = w.d.leaving /\ SameOthers(D, w.d) /\ D.awaiting = w.d.awaiting
  BY <1>1 DEF Docs, SameOthers
<1> HIDE DEF D
<1>3. v \in Worlds /\ v.d = D /\ v.rec = w.rec /\ v.told = w.told
  BY <1>1, <1>2 DEF Worlds
<1>4. DocOK(v.d)
  BY <1>2, <1>3 DEF DocOK, AboutIt, AtOneStep, Active
<1>5. StoryOK(w) => StoryOK(v)
  BY <1>2, <1>3 DEF StoryOK, Playing, Active
<1>6. Keeps(v, w)
  BY <1>2, <1>3 DEF Keeps, Stored, Exact, Playing, Active
<1>7. OneStep(w.d, v.d) /\ Modest(w.d, v.d)
  BY <1>2, <1>3 DEF OneStep, Modest, Active, SameOthers
<1> QED
  BY <1>2, <1>3, <1>4, <1>5, <1>6, <1>7 DEF Sound, Steady

LEMMA BootstrapIsSound ==
    ASSUME NEW w \in Worlds, DocOK(w.d)
    PROVE  Sound(Bootstrap(w), w)
<1>1. CASE w.d.preview \/ Active(w.d) \/ w.rec = None
  <2>1. Bootstrap(w) = CheckExperiences(w)
    BY <1>1 DEF Bootstrap
  <2> QED
    BY <2>1, SoundRefl, CheckIsSound
<1>2. CASE ~(w.d.preview \/ Active(w.d) \/ w.rec = None) /\ w.rec.tour \in w.seen
  <2>1. Bootstrap(w) = CheckExperiences(Forget(w))
    BY <1>2 DEF Bootstrap
  <2> QED
    BY <1>2, <2>1, ForgetIsSound, CheckIsSound
<1>3. CASE ~(w.d.preview \/ Active(w.d) \/ w.rec = None) /\ w.rec.tour \notin w.seen
  <2> DEFINE r == [what |-> "resume", tour |-> w.rec.tour, nav |-> w.rec.nav]
             R == w.d.requests \cup {r}
             v == Bootstrap(w)
  <2>1. w.rec \in Records
    BY <1>3 DEF Worlds
  <2>2. r \in Fetches
    BY <2>1 DEF Records, Fetches
  <2>3. v = [w EXCEPT !.d.requests = R]
    BY <1>3 DEF Bootstrap, Request
  <2>4. R \in SUBSET Fetches
    BY <2>2 DEF Worlds, Docs
  <2> HIDE DEF v, R
  <2>5. v \in Worlds /\ Like(v, w) /\ v.d.awaiting = w.d.awaiting
    BY <2>3, <2>4, RequestDoes
  <2>6. Sound(v, w)
    BY <2>5, LikeIsSound
  <2> QED
    BY <2>6 DEF v
<1> QED
  BY <1>1, <1>2, <1>3

\* When its fetch fails, the record goes although a tour may play by then.
LEMMA UnfetchedIsSteady ==
    ASSUME NEW w \in Worlds, DocOK(w.d), NEW v, v = Unfetched(w)
    PROVE  Steady(v, w) /\ v.rec = None /\ v.d = w.d
<1>1. CASE w.rec = None
  BY <1>1, SoundRefl DEF Unfetched, Sound
<1>2. CASE w.rec # None
  <2> DEFINE T == [w.told EXCEPT ![w.rec.tour] = "unfetched"]
  <2>1. w.rec.tour \in Tours /\ w.told \in Tellings
    BY <1>2 DEF Worlds, Records
  <2>2. T \in Tellings /\ \A t \in Tours : T[t] \in {w.told[t], "unfetched"}
    BY <2>1 DEF Tellings
  <2>3. v = [w EXCEPT !.rec = None, !.told = T]
    BY <1>2 DEF Unfetched
  <2> HIDE DEF T
  <2>4. v \in Worlds /\ v.d = w.d /\ v.rec = None /\ v.told = T
    BY <2>2, <2>3 DEF Worlds
  <2>5. Playing(w) => w.d.player.tour \in Tours
    BY DocOfWorld DEF Playing, Active, DocOK, AboutIt, Players
  <2>6. StoryOK(w) => StoryOK(v)
    BY <2>2, <2>4, <2>5 DEF StoryOK, Playing, Underway
  <2>7. OneStep(w.d, v.d) /\ Modest(w.d, v.d)
    BY <2>4 DEF OneStep, Modest
  <2> QED
    BY <2>4, <2>6, <2>7 DEF Steady
<1> QED
  BY <1>1, <1>2

LEMMA ResumedIsSound ==
    ASSUME NEW w \in Worlds, DocOK(w.d), NEW r, r.tour \in Tours,
           NEW here \in BOOLEAN
    PROVE  Sound(Resumed(w, r, TRUE, here), w)
<1> DEFINE v == Resumed(w, r, TRUE, here)
<1>2. CASE Active(w.d)
  <2>1. v = w
    BY <1>2 DEF Resumed
  <2> QED
    BY <2>1, SoundRefl
<1>3. CASE ~Active(w.d) /\ r.nav
  <2>1. v = Play(w, r.tour, FALSE, here)
    BY <1>3 DEF Resumed
  <2>2. PICK t \in Tours, preview \in BOOLEAN : v = Play(w, t, preview, here)
    BY <2>1
  <2> HIDE DEF v
  <2>3. Sound(v, w)
    BY <2>2, PlayDoes
  <2> QED
    BY <2>3 DEF v
<1>4. CASE ~Active(w.d) /\ ~r.nav
  <2> DEFINE l == [kind |-> "resume", tour |-> r.tour]
  <2>1. v = [w EXCEPT !.d.pill = l]
    BY <1>4 DEF Resumed
  <2>2. l \in Pills
    BY DEF Pills
  <2> HIDE DEF v, l
  <2>3. Sound(v, w)
    BY <1>4, <2>1, <2>2, PillIsSound
  <2> QED
    BY <2>3 DEF v
<1> QED
  BY <1>2, <1>3, <1>4

\* A survey, and a list.
LEMMA OthersDo ==
    ASSUME NEW w \in Worlds, NEW u, Sound(u, w), NEW X \in BOOLEAN,
           NEW L \in {"none", "pill", "open"},
           NEW v, v = [u EXCEPT !.d = [u.d EXCEPT !.survey = X, !.list = L]],
           \/ ~(Active(u.d) /\ X) /\ ~(Active(u.d) /\ L = "open") /\ ~(X /\ L = "open")
           \/ /\ Active(u.d) => Active(w.d)
              /\ X => w.d.survey
              /\ L = "open" => w.d.list = "open"
    PROVE  Sound(v, w)
<1> DEFINE D == [u.d EXCEPT !.survey = X, !.list = L]
<1>1. u \in Worlds /\ u.d \in Docs
  BY DEF Sound, Steady, Worlds
<1>2. /\ D \in Docs /\ D.player = u.d.player /\ D.about = u.d.about
      /\ D.pill = u.d.pill /\ D.leaving = u.d.leaving /\ D.survey = X /\ D.list = L
      /\ D.awaiting = u.d.awaiting
  BY <1>1 DEF Docs
<1> HIDE DEF D
<1>3. v \in Worlds /\ v.d = D /\ v.rec = u.rec /\ v.told = u.told
  BY <1>1, <1>2 DEF Worlds, D
<1>4. DocOK(v.d)
  BY <1>2, <1>3 DEF Sound, Steady, DocOK, AboutIt, AtOneStep, Active
<1>5. StoryOK(u) => StoryOK(v)
  BY <1>2, <1>3 DEF StoryOK, Playing, Active
<1>6. Keeps(v, w)
  BY <1>2, <1>3 DEF Sound, Keeps, Stored, Exact, Playing, Active
<1>7. OneStep(w.d, v.d)
  BY <1>2, <1>3 DEF Sound, Steady, OneStep
<1>8. Modest(w.d, v.d)
  BY <1>2, <1>3 DEF Modest, Alone, Active
<1> QED
  BY <1>3, <1>4, <1>5, <1>6, <1>7, <1>8 DEF Sound, Steady

LEMMA ApplyIsSound ==
    ASSUME NEW w \in Worlds, DocOK(w.d), NEW t \in Tours \cup {None},
           NEW survey \in BOOLEAN, NEW list \in BOOLEAN, NEW opens \in BOOLEAN,
           NEW here \in BOOLEAN
    PROVE  Sound(Apply(w, t, survey, list, opens, here), w)
<1> DEFINE eligible == t # None /\ (t \in EveryTime \/ t \notin w.seen)
           a == IF Claimed(w.d) \/ ~eligible THEN w ELSE Offer(w, t, here)
           taken == Claimed(w.d) \/ (eligible /\ w.d.policy # "never")
           b == IF ~taken /\ survey THEN [a EXCEPT !.d.survey = TRUE] ELSE a
           X == IF ~taken /\ survey THEN TRUE ELSE a.d.survey
           L == IF ~list THEN "none"
                ELSE IF opens /\ ~taken /\ ~survey THEN "open"
                ELSE IF a.d.list = "none" THEN "pill" ELSE a.d.list
           v == Apply(w, t, survey, list, opens, here)
<1>1. ~Claimed(w.d) => ~Active(w.d) /\ ~w.d.survey /\ w.d.list # "open"
  BY DEF Claimed, HasOverlay
<1>2. /\ Sound(a, w)
      /\ Claimed(w.d) => a = w
      /\ ~Claimed(w.d) => ~a.d.survey /\ a.d.list # "open"
      /\ ~taken => ~Active(a.d)
  <2>1. CASE Claimed(w.d) \/ ~eligible
    BY <1>1, <2>1, SoundRefl
  <2>2. CASE ~Claimed(w.d) /\ eligible
    <3>1. a = Offer(w, t, here) /\ t \in Tours
      BY <2>2
    <3> DEFINE auto == w.d.policy = "auto" \/ (w.d.policy = "ask" /\ t \in Passive)
    <3>2. CASE w.d.policy = "never"
      <4>1. a = w
        BY <3>1, <3>2 DEF Offer
      <4> QED
        BY <1>1, <2>2, <4>1, SoundRefl
    <3>3. CASE w.d.policy # "never" /\ auto
      <4>1. a = Play(w, t, FALSE, here)
        BY <3>1, <3>3 DEF Offer
      <4>2. PICK preview \in BOOLEAN : a = Play(w, t, preview, here)
        BY <4>1
      <4> HIDE DEF a
      <4>3. Sound(a, w) /\ (~Active(w.d) => ~a.d.survey /\ a.d.list # "open")
        BY <3>1, <4>2, PlayDoes
      <4> QED
        BY <1>1, <2>2, <3>3, <4>3
    <3>4. CASE w.d.policy # "never" /\ ~auto
      <4> DEFINE l == [kind |-> "offer", tour |-> t]
      <4>1. a = [w EXCEPT !.d.pill = l]
        BY <3>1, <3>4 DEF Offer
      <4>2. l \in Pills
        BY <3>1 DEF Pills
      <4> HIDE DEF a, l
      <4>3. Sound(a, w) /\ SameOthers(a.d, w.d)
        BY <1>1, <2>2, <4>1, <4>2, PillIsSound
      <4> QED
        BY <1>1, <2>2, <3>4, <4>3 DEF SameOthers
    <3> QED
      BY <3>2, <3>3, <3>4
  <2> QED
    BY <2>1, <2>2
<1>3. a \in Worlds /\ a.d \in Docs
  BY <1>2 DEF Sound, Steady, Worlds
<1>4. v = [b EXCEPT !.d.list = IF ~list THEN "none"
                               ELSE IF opens /\ ~taken /\ ~survey THEN "open"
                               ELSE IF @ = "none" THEN "pill" ELSE @]
  BY DEF Apply
<1> HIDE DEF a, taken, eligible, v
<1>5. b \in Worlds /\ b.d = [a.d EXCEPT !.survey = X] /\ b.d \in Docs /\ b.d.list = a.d.list
      /\ b.rec = a.rec /\ b.seen = a.seen /\ b.told = a.told
  <2>1. CASE ~taken /\ survey
    <3> DEFINE D == [a.d EXCEPT !.survey = TRUE]
    <3>1. b = [a EXCEPT !.d = D]
      BY <2>1
    <3>2. D \in Docs /\ D.list = a.d.list /\ D = [a.d EXCEPT !.survey = X]
      BY <1>3, <2>1 DEF Docs
    <3> HIDE DEF D, b, X
    <3>3. b \in Worlds /\ b.d = D /\ b.rec = a.rec /\ b.seen = a.seen /\ b.told = a.told
      BY <1>3, <3>1, <3>2 DEF Worlds
    <3> QED
      BY <3>2, <3>3
  <2>2. CASE ~(~taken /\ survey)
    <3>1. b = a /\ X = a.d.survey
      BY <2>2
    <3>2. a.d = [a.d EXCEPT !.survey = a.d.survey]
      BY <1>3 DEF Docs
    <3> QED
      BY <1>3, <3>1, <3>2
  <2> QED
    BY <2>1, <2>2
<1>6. v = [a EXCEPT !.d = [a.d EXCEPT !.survey = X, !.list = L]]
  <2> HIDE DEF b, X
  <2>1. v = [b EXCEPT !.d = [b.d EXCEPT !.list = L]]
    BY <1>4, <1>5 DEF Worlds
  <2>2. b = [a EXCEPT !.d = [a.d EXCEPT !.survey = X]]
    BY <1>3, <1>5 DEF Worlds
  <2> HIDE DEF L
  <2> QED
    BY <1>3, <2>1, <2>2 DEF Worlds, Docs
<1>7. X \in BOOLEAN /\ L \in {"none", "pill", "open"}
  BY <1>3 DEF Docs
<1>8. \/ ~(Active(a.d) /\ X) /\ ~(Active(a.d) /\ L = "open") /\ ~(X /\ L = "open")
      \/ /\ Active(a.d) => Active(w.d)
         /\ X => w.d.survey
         /\ L = "open" => w.d.list = "open"
  <2>1. CASE Claimed(w.d)
    BY <1>2, <2>1 DEF taken
  <2>2. CASE ~Claimed(w.d)
    BY <1>2, <2>2
  <2> QED
    BY <2>1, <2>2
<1> HIDE DEF X, L
<1>9. Sound(v, w)
  BY <1>2, <1>6, <1>7, <1>8, OthersDo
<1> QED
  BY <1>9 DEF v

----------------------------------------------------------------------------
(* The actions.                                                            *)

LEMMA WorldOf ==
    ASSUME TypeInv, NEW c \in Tabs
    PROVE  /\ World(c) \in Worlds /\ World(c).d = tab[c] /\ World(c).rec = record
           /\ World(c).seen = seen /\ World(c).told = told
           /\ tab[c] \in Docs /\ DocOK(tab[c])
BY DEF TypeInv, World, Worlds

\* A handler that starts from a document that differs in nothing a tour
\* depends on.
LEMMA SoundFrom ==
    ASSUME NEW w \in Worlds, DocOK(w.d), NEW D \in Docs, NEW u, u = [w EXCEPT !.d = D],
           D.player = w.d.player, D.about = w.d.about, D.pill = w.d.pill,
           D.leaving = w.d.leaving, SameOthers(D, w.d),
           \A a \in D.awaiting : a \in w.d.awaiting
    PROVE  /\ u \in Worlds /\ u.d = D /\ DocOK(u.d) /\ Like(u, w) /\ Sound(u, w)
           /\ \A v : Sound(v, u) => Sound(v, w)
<1>1. u \in Worlds /\ u.d = D /\ u.rec = w.rec /\ u.told = w.told
  BY DEF Worlds
<1>2. Like(u, w) /\ \A a \in u.d.awaiting : a \in w.d.awaiting
  BY <1>1 DEF Like
<1> QED
  BY <1>1, <1>2, LikeIsOK, LikeIsSound, SoundOfLike

LEMMA PlayerStepsAreSound ==
    ASSUME TypeInv, NEW c \in Tabs, NextStep(c) \/ Back(c) \/ Dismiss(c) \/ SkipStep(c)
    PROVE  \E v : Become(c, v) /\ Sound(v, World(c))
<1> DEFINE w == World(c)
           i == w.d.player.step
<1>1. w \in Worlds /\ w.d = tab[c] /\ DocOK(w.d)
  BY WorldOf
<1>2. i \in Nat /\ i = tab[c].player.step
  BY <1>1, DocOfWorld
<1>3. Active(w.d) => /\ i \in DOMAIN StepsOf(w.d.player.tour)
                     /\ StepsOf(w.d.player.tour)[i].page \in Pages \cup {None}
                     /\ i \in Nat \ {0}
  <2>1. SUFFICES ASSUME Active(w.d) PROVE /\ i \in DOMAIN StepsOf(w.d.player.tour)
                                          /\ StepsOf(w.d.player.tour)[i].page \in Pages \cup {None}
                                          /\ i \in Nat \ {0}
    OBVIOUS
  <2>2. i \in DOMAIN StepsOf(w.d.player.tour)
    BY <1>1, <2>1 DEF DocOK, AtOneStep
  <2> HIDE DEF w, i
  <2>3. i \in Nat \ {0}
    BY <1>1, <2>1, <2>2, TourOfActive
  <2> QED
    BY <1>1, <2>1, <2>2, <2>3, TourOfActive
<1>4. CASE NextStep(c)
  <2> DEFINE steps == StepsOf(w.d.player.tour)
  <2>1. Active(w.d)
    BY <1>1, <1>4 DEF NextStep
  <2>2. PICK here \in BOOLEAN :
            Become(c, IF i = Len(steps) THEN CompleteFrom(w, steps[i])
                      ELSE Goto(w, i + 1, here))
    BY <1>1, <1>4 DEF NextStep, Here
  <2>3. CASE i = Len(steps)
    <3>1. Become(c, CompleteFrom(w, steps[i]))
      BY <2>2, <2>3
    <3>2. PICK step : step = steps[i]
      OBVIOUS
    <3> HIDE DEF w
    <3>3. Sound(CompleteFrom(w, step), w)
      BY <1>1, <1>3, <2>1, <3>2, CompleteFromIsSound
    <3> QED
      BY <3>1, <3>2, <3>3 DEF w
  <2>4. CASE i # Len(steps)
    <3>1. Become(c, ShowStep(w, i + 1, here))
      BY <2>2, <2>4 DEF Goto
    <3>2. PICK n \in Nat \ {0} : n = i + 1
      BY <1>2
    <3> HIDE DEF w
    <3>3. Sound(ShowStep(w, n, here), w)
      BY <1>1, <2>1, <3>2, ShowStepIsSound
    <3> QED
      BY <3>1, <3>2, <3>3 DEF w
  <2> QED
    BY <2>3, <2>4
<1>5. CASE Back(c)
  <2>1. PICK here \in BOOLEAN : Active(w.d) /\ i > 1 /\ Become(c, ShowStep(w, i - 1, here))
    BY <1>1, <1>5 DEF Back, Here
  <2>2. PICK n \in Nat \ {0} : n = i - 1 /\ n + 1 = i
    BY <1>2, <2>1
  <2> HIDE DEF w
  <2>3. Sound(ShowStep(w, n, here), w)
    BY <1>1, <2>1, <2>2, ShowStepIsSound
  <2> QED
    BY <2>1, <2>2, <2>3 DEF w
<1>6. CASE Dismiss(c)
  <2>1. Active(w.d) /\ Become(c, Finish(w, "dismissed")) /\ "dismissed" \in Ends
    BY <1>1, <1>6 DEF Dismiss, Ends
  <2> HIDE DEF w
  <2>2. Sound(Finish(w, "dismissed"), w)
    BY <1>1, <2>1, FinishIsSound, EndedIsSound
  <2> QED
    BY <2>1, <2>2 DEF w
<1>7. CASE SkipStep(c)
  <2>1. PICK here \in BOOLEAN : Become(c, ShowStep(w, i + 1, here))
    BY <1>1, <1>7 DEF SkipStep, Here, Goto
  <2>2. w.d.player.phase = "blocked"
    BY <1>1, <1>7 DEF SkipStep
  <2> HIDE DEF w
  <2>3. Active(w.d)
    BY <1>1, <2>2 DEF DocOK, AtOneStep, NoTour
  <2>4. PICK n \in Nat \ {0} : n = i + 1
    BY <1>2
  <2>5. Sound(ShowStep(w, n, here), w)
    BY <1>1, <2>3, <2>4, ShowStepIsSound
  <2> QED
    BY <2>1, <2>4, <2>5 DEF w
<1> QED
  BY <1>4, <1>5, <1>6, <1>7

LEMMA ResolveIsSound ==
    ASSUME TypeInv, NEW c \in Tabs, Resolve(c)
    PROVE  \E v : Become(c, v) /\ Sound(v, World(c))
<1>1. PICK w : w = World(c)
  OBVIOUS
<1>2. w \in Worlds /\ w.d = tab[c] /\ DocOK(w.d) /\ w.d \in Docs
  BY <1>1, WorldOf
<1>3. PICK a \in w.d.awaiting, found \in BOOLEAN, here \in BOOLEAN :
          Become(c, Continue([w EXCEPT !.d.awaiting = @ \ {a}], a, found, here))
  BY <1>1, <1>2 DEF Resolve, Here
<1> DEFINE D == [w.d EXCEPT !.awaiting = @ \ {a}]
<1>4. PICK u : u = [w EXCEPT !.d = D]
  OBVIOUS
<1>5. Become(c, Continue(u, a, found, here))
  BY <1>3, <1>4
<1>6. a \in Promises
  BY <1>2 DEF Docs
<1>7. /\ D \in Docs /\ D.player = w.d.player /\ D.about = w.d.about /\ D.pill = w.d.pill
      /\ D.leaving = w.d.leaving /\ SameOthers(D, w.d)
      /\ \A x \in D.awaiting : x \in w.d.awaiting
  BY <1>2 DEF Docs, SameOthers
<1> HIDE DEF D
<1>8. /\ u \in Worlds /\ u.d = D /\ DocOK(u.d)
      /\ \A v : Sound(v, u) => Sound(v, w)
  BY <1>2, <1>4, <1>7, SoundFrom
<1>9. a.current => a.step = u.d.player.step
  BY <1>2, <1>7, <1>8 DEF DocOK, AtOneStep
<1>10. Sound(Continue(u, a, found, here), u)
  BY <1>6, <1>8, <1>9, ContinueIsSound
<1> QED
  BY <1>1, <1>5, <1>8, <1>10

LEMMA ReadyIsSound ==
    ASSUME TypeInv, NEW c \in Tabs, Ready(c) \/ SpaNavigate(c) \/ StartTour(c)
    PROVE  \E v : Become(c, v) /\ Sound(v, World(c))
<1>1. PICK w : w = World(c)
  OBVIOUS
<1>2. w \in Worlds /\ w.d = tab[c] /\ DocOK(w.d) /\ w.d \in Docs
  BY <1>1, WorldOf
<1>3. CASE Ready(c)
  <2> DEFINE D == [w.d EXCEPT !.ready = TRUE, !.policy = Policy]
  <2>1. PICK u : u = [w EXCEPT !.d = D]
    OBVIOUS
  <2>5. u = [w EXCEPT !.d.ready = TRUE, !.d.policy = Policy]
    BY <1>2, <2>1 DEF Worlds, Docs
  <2>2. Become(c, Bootstrap(u))
    BY <1>1, <1>3, <2>5 DEF Ready
  <2>3. /\ D \in Docs /\ D.player = w.d.player /\ D.about = w.d.about /\ D.pill = w.d.pill
        /\ D.leaving = w.d.leaving /\ SameOthers(D, w.d)
        /\ \A x \in D.awaiting : x \in w.d.awaiting
    BY <1>2, ToursAssumption DEF Docs, SameOthers
  <2> HIDE DEF D
  <2>4. /\ u \in Worlds /\ DocOK(u.d)
        /\ \A v : Sound(v, u) => Sound(v, w)
    BY <1>2, <2>1, <2>3, SoundFrom
  <2> QED
    BY <1>1, <2>2, <2>4, BootstrapIsSound
<1>4. CASE SpaNavigate(c)
  <2>1. PICK p \in Pages : Become(c, CheckExperiences([w EXCEPT !.d.page = p, !.d.link = None]))
    BY <1>1, <1>4 DEF SpaNavigate
  <2> DEFINE D == [w.d EXCEPT !.page = p, !.link = None]
  <2>2. PICK u : u = [w EXCEPT !.d = D]
    OBVIOUS
  <2>3. u = [w EXCEPT !.d.page = p, !.d.link = None]
    BY <1>2, <2>2 DEF Worlds, Docs
  <2>4. /\ D \in Docs /\ D.player = w.d.player /\ D.about = w.d.about /\ D.pill = w.d.pill
        /\ D.leaving = w.d.leaving /\ SameOthers(D, w.d)
        /\ \A x \in D.awaiting : x \in w.d.awaiting
    BY <1>2 DEF Docs, SameOthers
  <2> HIDE DEF D
  <2>5. Sound(u, w)
    BY <1>2, <2>2, <2>4, SoundFrom
  <2>6. Sound(CheckExperiences(u), w)
    BY <1>2, <2>5, CheckIsSound
  <2> QED
    BY <1>1, <2>1, <2>3, <2>6
<1>5. CASE StartTour(c)
  <2>1. PICK t \in Starts : Become(c, Request(w, [what |-> "start", tour |-> t]))
    BY <1>1, <1>5 DEF StartTour
  <2> DEFINE R == w.d.requests \cup {[what |-> "start", tour |-> t]}
  <2>2. PICK v : v = [w EXCEPT !.d.requests = R]
    OBVIOUS
  <2>3. Become(c, v)
    BY <2>1, <2>2 DEF Request
  <2>4. [what |-> "start", tour |-> t] \in Fetches
    BY ToursAssumption DEF Fetches
  <2>5. R \in SUBSET Fetches
    BY <1>2, <2>4 DEF Docs
  <2> HIDE DEF R
  <2>6. v \in Worlds /\ Like(v, w) /\ v.d.awaiting = w.d.awaiting
    BY <1>2, <2>2, <2>5, RequestDoes
  <2>7. Sound(v, w)
    BY <1>2, <2>6, LikeIsSound
  <2> QED
    BY <1>1, <2>3, <2>7
<1> QED
  BY <1>3, <1>4, <1>5

LEMMA AnswersAreSound ==
    ASSUME TypeInv, NEW c \in Tabs, AnswerResume(c) \/ AnswerOffers(c) \/ AnswerStart(c)
    PROVE  \E v : Become(c, v) /\ (Sound(v, World(c)) \/ Dropped(v, World(c)))
<1>1. PICK w : w = World(c)
  OBVIOUS
<1>2. w \in Worlds /\ w.d = tab[c] /\ DocOK(w.d) /\ w.d \in Docs
  BY <1>1, WorldOf
<1>3. ASSUME NEW r \in w.d.requests
      PROVE  \E u : /\ u = [w EXCEPT !.d.requests = @ \ {r}]
                    /\ u \in Worlds /\ DocOK(u.d)
                    /\ u.d.requests = w.d.requests \ {r}
                    /\ \A v : Sound(v, u) => Sound(v, w)
                    /\ \A v : Steady(v, u) => Steady(v, w)
  <2> DEFINE R == w.d.requests \ {r}
  <2>1. PICK u : u = [w EXCEPT !.d.requests = R]
    OBVIOUS
  <2>2. R \in SUBSET Fetches
    BY <1>2 DEF Docs
  <2> HIDE DEF R
  <2>3. u \in Worlds /\ Like(u, w) /\ u.d.awaiting = w.d.awaiting /\ u.d.requests = R
    BY <1>2, <2>1, <2>2, RequestDoes
  <2>4. DocOK(u.d) /\ \A v : Sound(v, u) => Sound(v, w)
    BY <1>2, <2>3, LikeIsOK, SoundOfLike
  <2>5. u = [w EXCEPT !.d.requests = @ \ {r}]
    BY <2>1 DEF R
  <2>6. \A v : Steady(v, u) => Steady(v, w)
    BY <2>3 DEF Like, Steady, StoryOK, Playing, OneStep, Modest, Active, SameOthers
  <2> QED
    BY <2>3, <2>4, <2>5, <2>6 DEF R
<1>4. \A r \in w.d.requests : /\ r \in Fetches
                              /\ r.what \in {"start", "preview", "resume"} => r.tour \in Tours
  BY <1>2 DEF Docs, Fetches
<1>5. CASE AnswerResume(c)
  <2>1. PICK r \in w.d.requests, ok \in BOOLEAN, here \in BOOLEAN :
            /\ r.what = "resume"
            /\ Become(c, CheckExperiences(Resumed([w EXCEPT !.d.requests = @ \ {r}], r, ok, here)))
    BY <1>1, <1>2, <1>5 DEF AnswerResume, Here
  <2>2. PICK u : /\ u = [w EXCEPT !.d.requests = @ \ {r}]
                 /\ u \in Worlds /\ DocOK(u.d)
                 /\ u.d.requests = w.d.requests \ {r}
                 /\ \A v : Sound(v, u) => Sound(v, w)
                 /\ \A v : Steady(v, u) => Steady(v, w)
    BY <1>3
  <2>3. r.tour \in Tours
    BY <1>4, <2>1
  <2>4. Become(c, CheckExperiences(Resumed(u, r, ok, here)))
    BY <2>1, <2>2
  <2>5. CASE ok
    <3>1. Become(c, CheckExperiences(Resumed(u, r, TRUE, here)))
      BY <2>4, <2>5
    <3>2. Sound(Resumed(u, r, TRUE, here), u)
      BY <2>2, <2>3, ResumedIsSound
    <3>3. Sound(CheckExperiences(Resumed(u, r, TRUE, here)), u)
      BY <2>2, <3>2, CheckIsSound
    <3> QED
      BY <1>1, <2>2, <3>1, <3>3
  <2>6. CASE ~ok
    <3>1. PICK x : x = Unfetched(u)
      OBVIOUS
    <3>2. PICK v : v = CheckExperiences(x)
      OBVIOUS
    <3>3. Become(c, v)
      BY <2>4, <2>6, <3>1, <3>2 DEF Resumed
    <3>4. Steady(x, u) /\ x.rec = None /\ x.d = u.d
      BY <2>2, <3>1, UnfetchedIsSteady
    <3>5. x \in Worlds
      BY <3>4 DEF Steady
    <3>6. /\ v \in Worlds /\ Like(v, x) /\ v.d.awaiting = x.d.awaiting
          /\ \A q \in v.d.requests : q \in x.d.requests \/ q.what = "offers"
      BY <3>2, <3>5, CheckDoes
    <3>7. Steady(v, u) /\ v.rec = None
      BY <2>2, <3>4, <3>6, SteadyThenLike DEF Like
    <3>8. r \in w.d.requests \ v.d.requests
      BY <2>1, <2>2, <3>4, <3>6
    <3>9. Dropped(v, w)
      BY <2>1, <2>2, <3>7, <3>8 DEF Dropped
    <3> QED
      BY <1>1, <3>3, <3>9
  <2> QED
    BY <2>5, <2>6
<1>6. CASE AnswerOffers(c)
  <2>1. PICK r \in w.d.requests, t \in Tours \cup {None}, here \in BOOLEAN,
             survey \in BOOLEAN, list \in BOOLEAN, opens \in BOOLEAN :
            Become(c, Apply([w EXCEPT !.d.requests = @ \ {r}], t, survey, list, opens, here))
    <3>1. Offered \cup {None} \subseteq Tours \cup {None}
      BY ToursAssumption
    <3>2. (IF Others THEN BOOLEAN ELSE {FALSE}) \subseteq BOOLEAN
      OBVIOUS
    <3> DEFINE Flags == IF Others THEN BOOLEAN ELSE {FALSE}
    <3>3. PICK r \in tab[c].requests, t \in Offered \cup {None}, here \in BOOLEAN,
               survey \in Flags, list \in Flags, opens \in Flags :
              Become(c, Apply([World(c) EXCEPT !.d.requests = @ \ {r}],
                              t, survey, list, opens, here))
      BY <1>6 DEF AnswerOffers, Here
    <3> HIDE DEF Flags
    <3>4. t \in Tours \cup {None} /\ survey \in BOOLEAN /\ list \in BOOLEAN /\ opens \in BOOLEAN
      BY <3>1, <3>2 DEF Flags
    <3> QED
      BY <1>1, <1>2, <3>3, <3>4
  <2>2. PICK u : /\ u = [w EXCEPT !.d.requests = @ \ {r}]
                 /\ u \in Worlds /\ DocOK(u.d)
                 /\ \A v : Sound(v, u) => Sound(v, w)
    BY <1>3
  <2>3. Sound(Apply(u, t, survey, list, opens, here), u)
    BY <2>2, ApplyIsSound
  <2>4. Become(c, Apply(u, t, survey, list, opens, here))
    BY <2>1, <2>2
  <2> QED
    BY <1>1, <2>2, <2>3, <2>4
<1>7. CASE AnswerStart(c)
  <2>1. PICK r \in w.d.requests, ok \in BOOLEAN, here \in BOOLEAN :
            /\ r.what \in {"start", "preview"}
            /\ LET w_1 == [w EXCEPT !.d.requests = @ \ {r}]
                   p == r.what = "preview"
               IN  Become(c, IF ok THEN Play(w_1, r.tour, p, here)
                             ELSE [w_1 EXCEPT !.d.preview = @ /\ ~p])
    BY <1>1, <1>2, <1>7 DEF AnswerStart, Here
  <2>2. PICK u : /\ u = [w EXCEPT !.d.requests = @ \ {r}]
                 /\ u \in Worlds /\ DocOK(u.d)
                 /\ \A v : Sound(v, u) => Sound(v, w)
    BY <1>3
  <2>3. r.tour \in Tours
    BY <1>4, <2>1
  <2>4. PICK p \in BOOLEAN : Become(c, IF ok THEN Play(u, r.tour, p, here)
                                       ELSE [u EXCEPT !.d.preview = @ /\ ~p])
    BY <2>1, <2>2
  <2>5. CASE ok
    <3>1. Become(c, Play(u, r.tour, p, here))
      BY <2>4, <2>5
    <3>2. Sound(Play(u, r.tour, p, here), u)
      BY <2>2, <2>3, PlayDoes
    <3> QED
      BY <1>1, <2>2, <3>1, <3>2
  <2>6. CASE ~ok
    <3> DEFINE b == u.d.preview /\ ~p
               D == [u.d EXCEPT !.preview = b]
    <3>1. PICK v : v = [u EXCEPT !.d = D]
      OBVIOUS
    <3>2. Become(c, v)
      BY <2>4, <2>6, <3>1
    <3>3. b \in BOOLEAN /\ u.d \in Docs
      BY <2>2 DEF Worlds
    <3> HIDE DEF b
    <3>4. /\ D \in Docs /\ D.player = u.d.player /\ D.about = u.d.about /\ D.pill = u.d.pill
          /\ D.leaving = u.d.leaving /\ SameOthers(D, u.d)
          /\ \A x \in D.awaiting : x \in u.d.awaiting
      BY <3>3 DEF Docs, SameOthers
    <3> HIDE DEF D
    <3>5. Sound(v, u)
      BY <2>2, <3>1, <3>4, SoundFrom
    <3> QED
      BY <1>1, <2>2, <3>2, <3>5
  <2> QED
    BY <2>5, <2>6
<1> QED
  BY <1>5, <1>6, <1>7

\* A guide replaces what plays, and the other overlays.
LEMMA PlayGuideIsSound ==
    ASSUME TypeInv, NEW c \in Tabs, PlayGuide(c)
    PROVE  \E v : Become(c, v) /\ Sound(v, World(c))
<1>1. PICK w : w = World(c)
  OBVIOUS
<1>2. w \in Worlds /\ w.d = tab[c] /\ DocOK(w.d) /\ w.d \in Docs
  BY <1>1, WorldOf
<1> DEFINE L == IF w.d.list = "open" THEN "pill" ELSE w.d.list
           D == [w.d EXCEPT !.survey = FALSE, !.about = None, !.list = L]
<1>3. PICK u : u = [w EXCEPT !.d = D]
  OBVIOUS
<1>4. u = [w EXCEPT !.d.survey = FALSE, !.d.about = None,
                    !.d.list = IF @ = "open" THEN "pill" ELSE @]
  BY <1>2, <1>3 DEF Worlds, Docs
<1>5. PICK here \in BOOLEAN : Become(c, Start(u, Guide, TRUE, here))
  BY <1>1, <1>4 DEF PlayGuide, Here
<1>6. L \in {"none", "pill"}
  BY <1>2 DEF Docs
<1> HIDE DEF L
<1>7. /\ D \in Docs /\ D.player = w.d.player /\ D.about = None /\ D.pill = w.d.pill
      /\ D.survey = FALSE /\ D.list = L
  BY <1>2, <1>6 DEF Docs
<1> HIDE DEF D
<1>8. u \in Worlds /\ u.d = D /\ u.rec = w.rec /\ u.told = w.told
  BY <1>2, <1>3, <1>7 DEF Worlds
<1>9. PICK t \in Tours \cup {Guide} : t = Guide
  OBVIOUS
<1>10. PICK preview \in BOOLEAN : preview = TRUE
  OBVIOUS
<1>11. PICK v : v = Start(u, t, preview, here)
  OBVIOUS
<1>12. /\ t = Guide /\ preview = TRUE
      /\ v = Start(u, t, preview, here) /\ Become(c, v)
  BY <1>5, <1>9, <1>10, <1>11
<1>13. /\ t = Guide => preview
       /\ preview \/ u.d.pill.kind \notin {"offer", "resume"}
       /\ u.d.about = IF t \in Tours THEN t ELSE None
  BY <1>7, <1>8, <1>12, NoneAreApart
<1>14. /\ v \in Worlds /\ DocOK(v.d) /\ SameOthers(v.d, u.d)
       /\ Active(v.d) => v.d.player.tour = Guide
       /\ Active(v.d) => v.d.player.step = 1
       /\ StoryOK(u) => StoryOK(v)
       /\ Exact(v)
  <2>1. v = Start(u, t, preview, here)
    BY <1>12
  <2>2. /\ v \in Worlds /\ DocOK(v.d) /\ SameOthers(v.d, u.d)
        /\ Active(v.d) => v.d.player.tour = t
        /\ Active(v.d) /\ t = Guide => v.d.player.step = 1
        /\ StoryOK(u) => StoryOK(v)
        /\ Exact(v)
    BY <1>8, <1>13, <2>1, StartDoes
  <2> QED
    BY <1>12, <2>2
<1>15. StoryOK(w) => StoryOK(u)
  BY <1>7, <1>8 DEF StoryOK, Playing, Active
<1>16. Modest(w.d, v.d)
  BY <1>6, <1>7, <1>8, <1>14 DEF Modest, Alone, SameOthers
<1>17. OneStep(w.d, v.d)
  <2>1. SUFFICES ASSUME w.d.player.tour # None, v.d.player.tour = w.d.player.tour
                 PROVE  v.d.player.step = w.d.player.step
                          \/ (v.d.player.step < w.d.player.step
                              /\ v.d.player.step + 1 = w.d.player.step)
    BY DEF OneStep
  <2>2. w.d.player.tour = Guide /\ v.d.player.step = 1
    BY <1>14, <2>1 DEF Active
  <2>3. w.d.player.step \in 1..2
    BY <1>2, <2>1, <2>2, StepsAre DEF DocOK, AtOneStep, Active
  <2> QED
    BY <2>2, <2>3
<1> QED
  BY <1>1, <1>12, <1>14, <1>15, <1>16, <1>17 DEF Sound, Steady, Keeps, Stored

LEMMA PillsAreSound ==
    ASSUME TypeInv, NEW c \in Tabs, TakePill(c) \/ ClosePill(c)
    PROVE  \E v : Become(c, v) /\ Sound(v, World(c))
<1>1. PICK w : w = World(c)
  OBVIOUS
<1>2. w \in Worlds /\ w.d = tab[c] /\ DocOK(w.d) /\ w.d \in Docs
  BY <1>1, WorldOf
<1>3. PICK p : p = w.d.pill
  OBVIOUS
<1>4. p.kind \in {"offer", "resume"} /\ p.tour \in Tours
  BY <1>2, <1>3 DEF TakePill, ClosePill, Docs, Pills
<1>5. CASE TakePill(c)
  <2>1. PICK here \in BOOLEAN, preview \in BOOLEAN : Become(c, Play(w, p.tour, preview, here))
    BY <1>1, <1>2, <1>3, <1>5 DEF TakePill, Here
  <2>2. Sound(Play(w, p.tour, preview, here), w)
    BY <1>2, <1>4, PlayDoes
  <2> QED
    BY <1>1, <2>1, <2>2
<1>6. CASE ClosePill(c)
  <2> DEFINE S == w.seen \cup {p.tour}
             D == [w.d EXCEPT !.pill = NoPill]
  <2>1. PICK u : u = [w EXCEPT !.d = D, !.seen = S]
    OBVIOUS
  <2>2. u = [w EXCEPT !.d.pill = NoPill, !.seen = @ \cup {p.tour}]
    BY <2>1
  <2>3. Become(c, IF p.kind = "offer" THEN u ELSE Forget(Report(u, p.tour, "declined")))
    BY <1>1, <1>2, <1>3, <1>6, <2>2 DEF ClosePill
  <2>4. S \in SUBSET Tours
    BY <1>2, <1>4 DEF Worlds
  <2>5. /\ D \in Docs /\ D.player = w.d.player /\ D.about = w.d.about /\ D.pill = NoPill
        /\ D.leaving = w.d.leaving /\ SameOthers(D, w.d) /\ D.awaiting = w.d.awaiting
    BY <1>2, NoTourIsIdle DEF Docs, SameOthers
  <2> HIDE DEF D, S
  <2>6. u \in Worlds /\ u.d = D /\ u.rec = w.rec /\ u.told = w.told
    BY <1>2, <2>1, <2>4, <2>5 DEF Worlds
  <2>7. DocOK(u.d)
    BY <1>2, <2>5, <2>6 DEF DocOK, AboutIt, AtOneStep, Active
  <2>8. StoryOK(w) => StoryOK(u) /\ ~Playing(u)
    BY <1>3, <1>4, <2>5, <2>6 DEF StoryOK, Playing, Active, NoPill
  <2>9. OneStep(w.d, u.d) /\ Modest(w.d, u.d)
    BY <2>5, <2>6 DEF OneStep, Modest, Active, SameOthers
  <2>10. CASE p.kind = "offer"
    <3>1. Keeps(u, w)
      BY <2>8 DEF Keeps, Stored, Exact
    <3> QED
      BY <1>1, <2>3, <2>6, <2>7, <2>8, <2>9, <2>10, <3>1 DEF Sound, Steady
  <2>11. CASE p.kind = "resume"
    <3>1. PICK r : r = Report(u, p.tour, "declined")
      OBVIOUS
    <3>2. PICK v : v = Forget(r)
      OBVIOUS
    <3>3. Become(c, v)
      BY <2>3, <2>11, <3>1, <3>2
    <3>4. "declined" \in Events
      BY DEF Events
    <3>5. /\ r \in Worlds /\ r.d = u.d /\ r.rec = u.rec
          /\ \A k \in Tours \ {p.tour} : r.told[k] = u.told[k]
          /\ r.told[p.tour] = "over"
      BY <1>4, <2>6, <3>1, <3>4, ReportDoes
    <3>6. /\ v \in Worlds /\ v.d = r.d /\ v.rec = None
          /\ \A t \in Tours : v.told[t] \in {r.told[t], "forgotten"}
      BY <3>2, <3>5, ForgetDoes
    <3>7. ASSUME StoryOK(w) PROVE StoryOK(v) /\ Exact(v)
      <4>1. ~Playing(v)
        BY <2>8, <3>5, <3>6, <3>7 DEF Playing
      <4>2. \A t \in Tours : v.told[t] # "stray"
        BY <2>8, <3>5, <3>6, <3>7 DEF StoryOK
      <4> QED
        BY <3>6, <4>1, <4>2 DEF StoryOK, Exact
    <3> QED
      BY <1>1, <2>7, <2>9, <3>3, <3>5, <3>6, <3>7 DEF Sound, Steady, Keeps, Stored
  <2> QED
    BY <1>4, <2>10, <2>11
<1> QED
  BY <1>5, <1>6

\* A document that starts over.
LEMMA FreshIsSound ==
    ASSUME NEW w \in Worlds, NEW D \in Docs, D.player = NoTour, D.about = None,
           \A a \in D.awaiting : ~a.current, D.survey = FALSE, D.list = "none",
           NEW v, v = [w EXCEPT !.d = D]
    PROVE  Sound(v, w)
<1>1. v \in Worlds /\ v.d = D /\ v.rec = w.rec /\ v.told = w.told
  BY DEF Worlds
<1>2. DocOK(D) /\ ~Active(D)
  BY IdleIsOK
<1>3. StoryOK(w) => StoryOK(v)
  BY <1>1, <1>2 DEF StoryOK, Playing
<1>4. Keeps(v, w)
  BY <1>1, <1>2 DEF Keeps, Stored, Exact, Playing
<1>5. OneStep(w.d, v.d)
  BY <1>1 DEF OneStep, NoTour
<1>6. Modest(w.d, v.d)
  BY <1>1, <1>2 DEF Modest, Alone
<1> QED
  BY <1>1, <1>2, <1>3, <1>4, <1>5, <1>6 DEF Sound, Steady

LEMMA FreshTabIs ==
    ASSUME NEW p \in Pages, NEW link \in Tours \cup {None}
    PROVE  /\ FreshTab(p, link) \in Docs
           /\ FreshTab(p, link).player = NoTour /\ FreshTab(p, link).about = None
           /\ FreshTab(p, link).awaiting = {} /\ FreshTab(p, link).survey = FALSE
           /\ FreshTab(p, link).list = "none"
<1>1. (IF link = None THEN {} ELSE {[what |-> "preview", tour |-> link]}) \in SUBSET Fetches
  BY DEF Fetches
<1> QED
  BY <1>1, NoTourIsIdle DEF FreshTab, Docs

LEMMA LoadsAreSound ==
    ASSUME TypeInv, NEW c \in Tabs, Leave(c) \/ Load(c) \/ Boot(c)
    PROVE  \E v : Become(c, v) /\ Sound(v, World(c))
<1>1. PICK w : w = World(c)
  OBVIOUS
<1>2. w \in Worlds /\ w.d = tab[c] /\ w.d \in Docs
  BY <1>1, WorldOf
<1>3. ASSUME NEW D \in Docs, tab' = [tab EXCEPT ![c] = D],
             record' = record, seen' = seen, told' = told
      PROVE  \E v : v = [w EXCEPT !.d = D] /\ Become(c, v)
  <2>1. PICK v : v = [w EXCEPT !.d = D]
    OBVIOUS
  <2>2. v.d = D /\ v.rec = w.rec /\ v.seen = w.seen /\ v.told = w.told
    BY <1>2, <2>1 DEF Worlds
  <2>3. w.rec = record /\ w.seen = seen /\ w.told = told
    BY <1>1, WorldOf
  <2>4. Become(c, v)
    BY <1>3, <2>2, <2>3 DEF Become
  <2> QED
    BY <2>1, <2>4
<1>4. CASE Leave(c)
  <2>1. tab[c].leaving \in Pages
    BY <1>2, <1>4 DEF Leave, Docs
  <2>2. PICK D \in Docs : D = FreshTab(tab[c].leaving, None)
    BY <2>1, FreshTabIs
  <2>3. D.player = NoTour /\ D.about = None /\ D.awaiting = {} /\ D.survey = FALSE /\ D.list = "none"
    BY <2>1, <2>2, FreshTabIs
  <2>4. PICK v : v = [w EXCEPT !.d = D] /\ Become(c, v)
    BY <1>3, <1>4, <2>2 DEF Leave
  <2> QED
    BY <1>1, <1>2, <2>3, <2>4, FreshIsSound
<1>5. CASE Load(c)
  <2>1. PICK p \in Pages, link \in Tours \cup {None} : tab' = [tab EXCEPT ![c] = FreshTab(p, link)]
    BY <1>5, ToursAssumption DEF Load
  <2>2. PICK D \in Docs : D = FreshTab(p, link)
    BY FreshTabIs
  <2>3. D.player = NoTour /\ D.about = None /\ D.awaiting = {} /\ D.survey = FALSE /\ D.list = "none"
    BY <2>2, FreshTabIs
  <2>4. PICK v : v = [w EXCEPT !.d = D] /\ Become(c, v)
    BY <1>3, <1>5, <2>1, <2>2 DEF Load
  <2> QED
    BY <1>1, <1>2, <2>3, <2>4, FreshIsSound
<1>6. CASE Boot(c)
  <2>1. PICK o : o = Outdate(w)
    OBVIOUS
  <2>2. o \in Worlds /\ \A a \in o.d.awaiting : ~a.current
    BY <1>2, <2>1, OutdateKeeps
  <2>3. o.d.awaiting \in SUBSET Promises
    BY <2>2 DEF Worlds, Docs
  <2>4. PICK F : F = FreshTab(tab[c].page, tab[c].link)
    OBVIOUS
  <2>5. tab[c].page \in Pages /\ tab[c].link \in Tours \cup {None}
    BY <1>2 DEF Docs
  <2>6. /\ F \in Docs /\ F.player = NoTour /\ F.about = None /\ F.survey = FALSE
        /\ F.list = "none"
    BY <2>4, <2>5, FreshTabIs
  <2> DEFINE D == [F EXCEPT !.leaving = tab[c].leaving, !.policy = tab[c].policy,
                            !.awaiting = o.d.awaiting,
                            !.requests = F.requests \cup tab[c].requests]
  <2>7. /\ D \in Docs /\ D.player = NoTour /\ D.about = None /\ D.survey = FALSE
        /\ D.list = "none" /\ D.awaiting = o.d.awaiting
    BY <1>2, <2>3, <2>6 DEF Docs
  <2>8. tab' = [tab EXCEPT ![c] = D] /\ record' = record /\ seen' = seen /\ told' = told
    <3>1. tab' = [tab EXCEPT ![c] = [FreshTab(tab[c].page, tab[c].link) EXCEPT
                        !.leaving = tab[c].leaving, !.policy = tab[c].policy,
                        !.awaiting = Outdate(World(c)).d.awaiting,
                        !.requests = FreshTab(tab[c].page, tab[c].link).requests
                                       \cup tab[c].requests]]
      BY <1>6 DEF Boot
    <3>2. record' = record /\ seen' = seen /\ told' = told
      BY <1>6 DEF Boot
    <3>3. Outdate(World(c)) = o /\ FreshTab(tab[c].page, tab[c].link) = F
      BY <1>1, <2>1, <2>4
    <3> QED
      BY <3>1, <3>3, <3>2
  <2> HIDE DEF D
  <2>9. PICK v : v = [w EXCEPT !.d = D] /\ Become(c, v)
    BY <1>3, <2>7, <2>8
  <2> QED
    BY <1>1, <1>2, <2>2, <2>7, <2>9, FreshIsSound
<1> QED
  BY <1>4, <1>5, <1>6

----------------------------------------------------------------------------
(* The steps of the system.                                                *)

Handled(c) ==
    \E v : Become(c, v) /\ (Sound(v, World(c)) \/ Dropped(v, World(c)))

\* A step is a handler of one document, one of the few clicks that are not
\* the player's, or the end of a day.
LEMMA StepsAreSound ==
    ASSUME TypeInv, Next
    PROVE  \/ \E c \in Tabs : Handled(c)
           \/ \E c \in Tabs : Visitor(c)
           \/ Expire
<1>1. CASE Expire
  BY <1>1
<1>2. ASSUME NEW c \in Tabs,
             \/ NextStep(c) \/ Back(c) \/ Dismiss(c) \/ SkipStep(c) \/ Resolve(c)
             \/ Ready(c) \/ AnswerResume(c) \/ AnswerOffers(c) \/ AnswerStart(c)
             \/ StartTour(c) \/ PlayGuide(c) \/ TakePill(c) \/ ClosePill(c)
             \/ SpaNavigate(c) \/ Leave(c) \/ Load(c) \/ Boot(c)
      PROVE  Handled(c)
  <2>1. CASE NextStep(c) \/ Back(c) \/ Dismiss(c) \/ SkipStep(c)
    BY <2>1, PlayerStepsAreSound DEF Handled
  <2>2. CASE Resolve(c)
    BY <2>2, ResolveIsSound DEF Handled
  <2>3. CASE Ready(c) \/ SpaNavigate(c) \/ StartTour(c)
    BY <2>3, ReadyIsSound DEF Handled
  <2>4. CASE AnswerResume(c) \/ AnswerOffers(c) \/ AnswerStart(c)
    BY <2>4, AnswersAreSound DEF Handled
  <2>5. CASE PlayGuide(c)
    BY <2>5, PlayGuideIsSound DEF Handled
  <2>6. CASE TakePill(c) \/ ClosePill(c)
    BY <2>6, PillsAreSound DEF Handled
  <2>7. CASE Leave(c) \/ Load(c) \/ Boot(c)
    BY <2>7, LoadsAreSound DEF Handled
  <2> QED
    BY <1>2, <2>1, <2>2, <2>3, <2>4, <2>5, <2>6, <2>7
<1> QED
  BY <1>1, <1>2 DEF Next

LEMMA BecomeDoes ==
    ASSUME TypeInv, NEW c \in Tabs, NEW v, Become(c, v), Steady(v, World(c))
    PROVE  /\ TypeInv'
           /\ World(c)' = v
           /\ \A e \in Tabs : e # c => tab'[e] = tab[e]
           /\ OneStep(tab[c], tab'[c]) /\ Modest(tab[c], tab'[c])
<1>1. v \in Worlds /\ DocOK(v.d) /\ OneStep(tab[c], v.d) /\ Modest(tab[c], v.d)
  BY WorldOf DEF Steady
<1>2. /\ v.d \in Docs /\ v.rec \in Records \cup {None} /\ v.seen \subseteq Tours
      /\ v.told \in Tellings
      /\ v = [d |-> v.d, rec |-> v.rec, seen |-> v.seen, told |-> v.told]
  BY <1>1 DEF Worlds
<1>3. /\ tab' = [tab EXCEPT ![c] = v.d]
      /\ record' = v.rec /\ seen' = v.seen /\ told' = v.told
  BY DEF Become
<1>4. /\ tab' \in [Tabs -> Docs] /\ tab'[c] = v.d
      /\ \A e \in Tabs : e # c => tab'[e] = tab[e]
  BY <1>2, <1>3 DEF TypeInv
<1>5. \A e \in Tabs : DocOK(tab'[e])
  BY <1>1, <1>4 DEF TypeInv
<1>6. TypeInv'
  BY <1>2, <1>3, <1>4, <1>5 DEF TypeInv
<1>7. World(c)' = v
  BY <1>2, <1>3, <1>4 DEF World
<1> QED
  BY <1>1, <1>4, <1>6, <1>7

LEMMA HandledDoes ==
    ASSUME TypeInv, NEW c \in Tabs, Handled(c)
    PROVE  /\ TypeInv'
           /\ \A e \in Tabs : e # c => tab'[e] = tab[e]
           /\ OneStep(tab[c], tab'[c]) /\ Modest(tab[c], tab'[c])
<1>1. PICK v : Become(c, v) /\ Steady(v, World(c))
  BY DEF Handled, Sound, Dropped
<1> QED
  BY <1>1, BecomeDoes

LEMMA VisitorDoes ==
    ASSUME TypeInv, NEW c \in Tabs, Visitor(c)
    PROVE  /\ TypeInv'
           /\ \A e \in Tabs : e # c => tab'[e] = tab[e]
           /\ tab'[c].player = tab[c].player /\ tab'[c].pill = tab[c].pill
           /\ tab'[c].leaving = tab[c].leaving
           /\ \/ tab'[c] = [tab[c] EXCEPT !.list = "open"]
              \/ Modest(tab[c], tab'[c])
<1>1. PICK d : d = tab[c]
  OBVIOUS
<1>2. d \in Docs /\ DocOK(d)
  BY <1>1, WorldOf
<1>3. PICK e : /\ tab' = [tab EXCEPT ![c] = e]
               /\ \/ e = [d EXCEPT !.survey = FALSE]
                  \/ e = [d EXCEPT !.list = "open"]
                  \/ e = [d EXCEPT !.list = "pill"]
  BY <1>1 DEF Visitor
<1>4. /\ e \in Docs /\ e.player = d.player /\ e.about = d.about /\ e.pill = d.pill
      /\ e.leaving = d.leaving /\ e.awaiting = d.awaiting
      /\ \/ e = [d EXCEPT !.list = "open"]
         \/ (e.survey => d.survey) /\ (e.list = "open" => d.list = "open")
  BY <1>2, <1>3 DEF Docs
<1>5. DocOK(e)
  BY <1>2, <1>4 DEF DocOK, AboutIt, AtOneStep, Active
<1>6. e = [d EXCEPT !.list = "open"] \/ Modest(d, e)
  BY <1>4 DEF Modest, Active
<1>7. /\ tab' \in [Tabs -> Docs] /\ tab'[c] = e
      /\ \A k \in Tabs : k # c => tab'[k] = tab[k]
  BY <1>3, <1>4 DEF TypeInv
<1>8. \A k \in Tabs : DocOK(tab'[k])
  BY <1>5, <1>7 DEF TypeInv
<1>9. TypeInv'
  BY <1>7, <1>8 DEF TypeInv, Visitor
<1> QED
  BY <1>1, <1>4, <1>6, <1>7, <1>9

LEMMA ExpireDoes ==
    ASSUME TypeInv, Expire
    PROVE  /\ TypeInv' /\ tab' = tab /\ record' = None
           /\ \A t \in Tours : told'[t] \in {told[t], "expired"}
           /\ \A c \in Tabs : ~Active(tab[c])
<1>1. record.tour \in Tours /\ told \in Tellings
  BY DEF TypeInv, Expire, Records
<1>2. told' = [told EXCEPT ![record.tour] = "expired"]
  BY DEF Expire
<1>3. told' \in Tellings /\ \A t \in Tours : told'[t] \in {told[t], "expired"}
  BY <1>1, <1>2 DEF Tellings
<1>4. TypeInv'
  BY <1>3 DEF TypeInv, Expire
<1> QED
  BY <1>3, <1>4 DEF Expire

LEMMA StartsIdle ==
    ASSUME Init
    PROVE  TypeInv /\ \A c \in Tabs : ~Active(tab[c])
<1>1. PICK p \in Pages : tab = [c \in Tabs |-> FreshTab(p, None)]
  BY DEF Init
<1>2. PICK D : D = FreshTab(p, None)
  OBVIOUS
<1>3. D \in Docs /\ D.player = NoTour /\ D.about = None /\ D.awaiting = {}
  BY <1>2, FreshTabIs
<1>4. DocOK(D) /\ ~Active(D)
  BY <1>3, IdleIsOK
<1>5. tab \in [Tabs -> Docs] /\ \A c \in Tabs : tab[c] = D
  BY <1>1, <1>2, <1>3
<1>6. record = None /\ seen = {} /\ told \in Tellings
  BY DEF Init, Tellings
<1> QED
  BY <1>4, <1>5, <1>6 DEF TypeInv

LEMMA TypeInvKept == TypeInv /\ [Next]_vars => TypeInv'
<1> SUFFICES ASSUME TypeInv, [Next]_vars PROVE TypeInv'
  OBVIOUS
<1>1. CASE UNCHANGED vars
  BY <1>1 DEF TypeInv, vars
<1>2. CASE Next
  BY <1>2, StepsAreSound, HandledDoes, VisitorDoes, ExpireDoes
<1> QED
  BY <1>1, <1>2

LEMMA TypeInvHolds == Spec => []TypeInv
<1>1. Init => TypeInv
  BY StartsIdle
<1> QED
  BY <1>1, TypeInvKept, PTL DEF Spec

\* Whatever the documents do, the state is what the code says it is: a record
\* names a tour of the site, and what plays, is offered or was seen does too.
THEOREM TypeCorrect == Spec => []TypeOK
<1>1. TypeInv => TypeOK
  <2> SUFFICES ASSUME TypeInv PROVE TypeOK
    OBVIOUS
  <2>1. ASSUME NEW c \in Tabs
        PROVE  LET d == tab[c] IN
               /\ d.page \in Pages /\ d.leaving \in Pages \cup {None}
               /\ d.player.tour \in Tours \cup {Guide, None} /\ d.player.phase \in Phases
               /\ d.about \in Tours \cup {None}
               /\ d.pill.kind \in {"none", "offer", "resume", "progress"}
               /\ d.list \in {"none", "pill", "open"}
    BY WorldOf DEF Docs, Players, Pills
  <2>2. record = None \/ record.tour \in Tours
    BY DEF TypeInv, Records
  <2> QED
    BY <2>1, <2>2 DEF TypeOK, TypeInv, Tellings
<1> QED
  BY <1>1, TypeInvHolds, PTL

----------------------------------------------------------------------------
(* Step by step, and one overlay at a time.                                *)

\* A tour goes to the next step or to the one before it, whatever promise or
\* timer of another step ends, in any number of documents.
THEOREM StepsFollow == Spec => StepByStep
<1>1. ASSUME TypeInv, [Next]_vars, NEW c \in Tabs
      PROVE  OneStep(tab[c], tab'[c])
  <2>1. CASE tab'[c].player = tab[c].player
    BY <2>1 DEF OneStep
  <2>2. CASE tab'[c].player # tab[c].player
    <3>1. Next /\ tab' # tab
      BY <1>1, <2>2 DEF vars
    <3>2. ~Expire
      BY <3>1 DEF Expire
    <3>3. ASSUME NEW e \in Tabs, Visitor(e) PROVE FALSE
      BY <1>1, <2>2, <3>3, VisitorDoes
    <3>4. PICK e \in Tabs : Handled(e)
      BY <1>1, <3>1, <3>2, <3>3, StepsAreSound
    <3> QED
      BY <1>1, <2>2, <3>4, HandledDoes
  <2> QED
    BY <2>1, <2>2
<1>2. ASSUME TypeInv, [Next]_vars
      PROVE  [\A c \in Tabs :
                LET p == tab[c].player
                    q == tab'[c].player
                    steps == StepsOf(p.tour)
                IN  p.tour # None /\ q.tour = p.tour /\ q.preview = p.preview =>
                    \/ q.step = p.step
                    \/ q.step < p.step /\ q.step + 1 = p.step
                    \/ q.step > p.step /\ \A i \in p.step + 1..q.step - 1 :
                          steps[i].kind = "frame"]_vars
  BY <1>1, <1>2 DEF OneStep
<1> QED
  BY <1>2, TypeInvHolds, PTL DEF Spec, StepByStep

LEMMA OverlaysCount ==
    ASSUME NEW d, NEW e
    PROVE  /\ Alone(e) => Overlays(e) <= 1
           /\ Modest(d, e) => Overlays(e) <= 1 \/ Overlays(e) <= Overlays(d)
<1> DEFINE On(f) == {x \in {1, 2, 3} : \/ x = 1 /\ Active(f)
                                       \/ x = 2 /\ f.survey
                                       \/ x = 3 /\ f.list = "open"}
<1>1. IsFiniteSet({1, 2, 3})
  <2>1. PICK n \in Int, m \in Int : n = 1 /\ m = 3
    OBVIOUS
  <2>2. {1, 2, 3} = n..m
    BY <2>1
  <2>3. IsFiniteSet(n..m)
    BY FS_Interval
  <2> QED
    BY <2>2, <2>3
<1>2. \A f : IsFiniteSet(On(f)) /\ Overlays(f) = Cardinality(On(f))
  BY <1>1, FS_Subset DEF Overlays
<1>3. ASSUME Alone(e) PROVE Overlays(e) <= 1
  <2>1. On(e) = {} \/ \E x : On(e) = {x}
    <3>1. CASE Active(e)
      <4>1. On(e) = {1}
        BY <1>3, <3>1 DEF Alone
      <4> QED
        BY <4>1
    <3>2. CASE ~Active(e) /\ e.survey
      <4>1. On(e) = {2}
        BY <1>3, <3>2 DEF Alone
      <4> QED
        BY <4>1
    <3>3. CASE ~Active(e) /\ ~e.survey
      <4>1. On(e) = {3} \/ On(e) = {}
        BY <3>3
      <4> QED
        BY <4>1
    <3> QED
      BY <3>1, <3>2, <3>3
  <2> HIDE DEF On
  <2>2. CASE On(e) = {}
    <3>1. Cardinality(On(e)) = 0
      BY <2>2, FS_EmptySet
    <3> QED
      BY <1>2, <3>1
  <2>3. ASSUME NEW x, On(e) = {x} PROVE Overlays(e) <= 1
    <3>1. Cardinality({x}) = 1
      BY FS_Singleton
    <3> QED
      BY <1>2, <2>3, <3>1
  <2> QED
    BY <2>1, <2>2, <2>3
<1>4. ASSUME Active(e) => Active(d), e.survey => d.survey,
             e.list = "open" => d.list = "open"
      PROVE  Overlays(e) <= Overlays(d)
  <2>1. On(e) \subseteq On(d)
    BY <1>4
  <2> HIDE DEF On
  <2> QED
    BY <1>2, <2>1, FS_Subset
<1> QED
  BY <1>3, <1>4 DEF Modest

\* The widget does not put a tour, a survey and an open checklist on the page
\* together: a handler leaves one overlay, or those it found.  Only the visitor
\* adds one, who opens the checklist.
THEOREM OneOverlayAtATime == Spec => OneOverlay
<1>1. ASSUME TypeInv, [Next]_vars, NEW c \in Tabs
      PROVE  \/ Overlays(tab'[c]) <= 1
             \/ Overlays(tab'[c]) <= Overlays(tab[c])
             \/ tab'[c] = [tab[c] EXCEPT !.list = "open"]
  <2>1. CASE tab'[c] = tab[c]
    <3>1. Modest(tab[c], tab'[c])
      BY <2>1 DEF Modest
    <3> QED
      BY <3>1, OverlaysCount
  <2>2. CASE tab'[c] # tab[c]
    <3>1. Next /\ tab' # tab
      BY <1>1, <2>2 DEF vars
    <3>2. ~Expire
      BY <3>1 DEF Expire
    <3>3. CASE \E e \in Tabs : Visitor(e)
      <4>1. tab'[c] = [tab[c] EXCEPT !.list = "open"] \/ Modest(tab[c], tab'[c])
        BY <1>1, <2>2, <3>3, VisitorDoes
      <4> QED
        BY <4>1, OverlaysCount
    <3>4. CASE \E e \in Tabs : Handled(e)
      <4>1. Modest(tab[c], tab'[c])
        BY <1>1, <2>2, <3>4, HandledDoes
      <4> QED
        BY <4>1, OverlaysCount
    <3> QED
      BY <1>1, <3>1, <3>2, <3>3, <3>4, StepsAreSound
  <2> QED
    BY <2>1, <2>2
<1>2. ASSUME TypeInv, [Next]_vars
      PROVE  [\A c \in Tabs :
                \/ Overlays(tab'[c]) <= 1
                \/ Overlays(tab'[c]) <= Overlays(tab[c])
                \/ tab'[c] = [tab[c] EXCEPT !.list = "open"]]_vars
  BY <1>1, <1>2
<1> QED
  BY <1>2, TypeInvHolds, PTL DEF Spec, OneOverlay

----------------------------------------------------------------------------
(* What the storage says, on a site that is open in one document.          *)

\* A handler of the one document: the story goes on, and the position is
\* stored, was lost before, or is lost to a failing checkResume.
LEMMA StoryGoesOn ==
    ASSUME OneTab, TypeInv, StoryInv, NEW c \in Tabs, NEW v, Become(c, v),
           Sound(v, World(c)) \/ Dropped(v, World(c))
    PROVE  /\ StoryInv'
           /\ Playing(v) =>
                 \/ Exact(v)
                 \/ Dropped(v, World(c))
                 \/ /\ v.rec = None /\ Playing(World(c)) /\ record = None
                    /\ v.d.player.tour = tab[c].player.tour
                    /\ v.d.player.step = tab[c].player.step
<1>1. PICK w : w = World(c)
  OBVIOUS
<1>2. w \in Worlds /\ w.d = tab[c] /\ w.rec = record
  BY <1>1, WorldOf
<1> DEFINE t == w.d.player.tour
           i == w.d.player.step
<1>3. StoryOK(w) /\ Stored(w, t, i)
  BY <1>1, <1>2 DEF StoryInv
<1>4. Steady(v, w)
  BY <1>1 DEF Sound, Dropped
<1>5. World(c)' = v
  BY <1>1, <1>4, BecomeDoes
<1>6. record' = v.rec /\ told' = v.told /\ v.d = tab'[c]
  <2>1. World(c)'.d = tab'[c]
    BY DEF World
  <2> QED
    BY <1>5, <2>1 DEF Become
<1>7. CASE Dropped(v, w)
  <2>1. v.rec = None
    BY <1>7 DEF Dropped
  <2>2. Stored(v, v.d.player.tour, v.d.player.step)
    BY <2>1 DEF Stored
  <2> QED
    BY <1>1, <1>3, <1>4, <1>5, <1>6, <1>7, <2>2 DEF StoryInv, NothingToResurrect,
       StoryOK, Steady, Begun, OneTab
<1>8. CASE Sound(v, w)
  <2>1. \A k, n : Stored(w, k, n) => Stored(v, k, n)
    BY <1>3, <1>8 DEF Sound, Keeps
  <2>2. CASE Exact(v)
    <3>1. Stored(v, v.d.player.tour, v.d.player.step)
      BY <2>2 DEF Stored
    <3> QED
      BY <1>3, <1>4, <1>5, <1>6, <2>2, <3>1 DEF StoryInv, NothingToResurrect,
         StoryOK, Steady, Begun, OneTab
  <2>3. CASE ~Exact(v)
    <3>1. /\ v.rec = None /\ v.d.player.tour = t /\ v.d.player.step = i
      BY <1>3, <2>1, <2>3 DEF Stored
    <3>2. t # None
      BY <2>3, <3>1 DEF Exact, Playing, Active
    <3>3. ~Exact(w)
      <4>1. SUFFICES ASSUME Exact(w) PROVE FALSE
        OBVIOUS
      <4>2. Stored(w, None, i)
        BY <4>1 DEF Stored
      <4>3. Stored(v, None, i)
        BY <2>1, <4>2
      <4> QED
        BY <2>3, <3>1, <3>2, <4>3 DEF Stored
    <3>4. Playing(w) /\ w.rec = None
      BY <1>3, <3>3 DEF Stored, Exact
    <3>5. Stored(v, v.d.player.tour, v.d.player.step)
      BY <3>1 DEF Stored
    <3> QED
      BY <1>1, <1>2, <1>3, <1>4, <1>5, <1>6, <3>1, <3>4, <3>5 DEF StoryInv,
         NothingToResurrect, StoryOK, Steady, Begun, OneTab
  <2> QED
    BY <2>2, <2>3
<1> QED
  BY <1>1, <1>7, <1>8

\* The clicks that are not the player's.
LEMMA VisitorKeepsStory ==
    ASSUME OneTab, TypeInv, StoryInv, NEW c \in Tabs, Visitor(c)
    PROVE  StoryInv' /\ tab'[c].player = tab[c].player
             /\ tab'[c].leaving = tab[c].leaving /\ record' = record
<1>1. /\ tab'[c].player = tab[c].player /\ tab'[c].pill = tab[c].pill
      /\ tab'[c].leaving = tab[c].leaving
  BY VisitorDoes
<1>2. record' = record /\ told' = told
  BY DEF Visitor
<1>3. NothingToResurrect'
  BY <1>2 DEF NothingToResurrect, StoryInv
<1>4. /\ StoryOK(World(c)')
      /\ Stored(World(c)', tab'[c].player.tour, tab'[c].player.step)
  BY <1>1, <1>2 DEF StoryInv, World, StoryOK, Stored, Exact, Playing, Active
<1> QED
  BY <1>1, <1>2, <1>3, <1>4 DEF StoryInv, OneTab

LEMMA StoryInvKept ==
    ASSUME OneTab, TypeInv, StoryInv, [Next]_vars
    PROVE  StoryInv'
<1>1. CASE UNCHANGED vars
  BY <1>1 DEF StoryInv, NothingToResurrect, World, StoryOK, Stored, Exact, Playing, vars
<1>2. CASE Expire
  <2>1. /\ tab' = tab /\ record' = None
        /\ \A t \in Tours : told'[t] \in {told[t], "expired"}
        /\ \A c \in Tabs : ~Active(tab[c])
    BY <1>2, ExpireDoes
  <2>2. NothingToResurrect'
    BY <2>1 DEF NothingToResurrect, StoryInv
  <2>3. ASSUME NEW c \in Tabs
        PROVE  /\ StoryOK(World(c)')
               /\ Stored(World(c)', tab'[c].player.tour, tab'[c].player.step)
    BY <2>1, <2>2 DEF World, StoryOK, Stored, Exact, Playing, NothingToResurrect
  <2> QED
    BY <2>2, <2>3 DEF StoryInv
<1>3. CASE Next
  BY <1>2, <1>3, StepsAreSound, StoryGoesOn, VisitorKeepsStory DEF Handled
<1> QED
  BY <1>1, <1>3

LEMMA StoryInvHolds ==
    ASSUME OneTab
    PROVE  Spec => []StoryInv
<1>1. ASSUME Init PROVE StoryInv
  <2>1. NothingToResurrect
    BY <1>1 DEF Init, NothingToResurrect
  <2>2. ASSUME NEW c \in Tabs
        PROVE  /\ StoryOK(World(c))
               /\ Stored(World(c), tab[c].player.tour, tab[c].player.step)
    <3>1. ~Playing(World(c))
      BY <1>1, StartsIdle DEF Playing, World
    <3>2. World(c).rec = None /\ World(c).told = told
      BY <1>1 DEF World, Init
    <3> QED
      BY <2>1, <3>1, <3>2 DEF StoryOK, Stored, Exact, NothingToResurrect
  <2> QED
    BY <2>1, <2>2 DEF StoryInv
<1>2. TypeInv /\ StoryInv /\ [Next]_vars => StoryInv'
  BY StoryInvKept
<1> QED
  BY <1>1, <1>2, TypeInvHolds, PTL DEF Spec

\* On a site open in one document, the step on the screen is stored.  Only a
\* checkResume whose fetch was under way when the tour started, and which fails,
\* takes the record away from a tour that plays; the tour then stays at its
\* step, or moves on and is stored again.
THEOREM PositionIsKept ==
    ASSUME OneTab
    PROVE  Spec => PositionKept
<1>1. ASSUME TypeInv, StoryInv, [Next]_vars, NEW c \in Tabs, Live(c)', vars' # vars
      PROVE  \/ InStorage(c)'
             \/ /\ record' = None
                /\ \/ \E r \in tab[c].requests \ tab'[c].requests : r.what = "resume"
                   \/ /\ Live(c) /\ record = None
                      /\ tab'[c].player.tour = tab[c].player.tour
                      /\ tab'[c].player.step = tab[c].player.step
  <2>1. Next
    BY <1>1
  <2>2. ~Expire
    BY <1>1, ExpireDoes DEF Live
  <2>3. CASE \E e \in Tabs : Visitor(e)
    <3>1. Visitor(c)
      BY <2>3 DEF OneTab
    <3>2. /\ tab'[c].player = tab[c].player /\ tab'[c].leaving = tab[c].leaving
          /\ record' = record
      BY <1>1, <3>1, VisitorKeepsStory
    <3>3. Live(c)
      BY <1>1, <3>2 DEF Live, Active
    <3>4. InStorage(c) \/ record = None
      BY <1>1, <3>3 DEF StoryInv, Stored, Exact, Playing, World, Live, InStorage
    <3> QED
      BY <3>2, <3>3, <3>4 DEF InStorage
  <2>4. CASE \E e \in Tabs : Handled(e)
    <3>8. Handled(c)
      BY <2>4 DEF OneTab
    <3>1. PICK v : Become(c, v) /\ (Sound(v, World(c)) \/ Dropped(v, World(c)))
      BY <3>8 DEF Handled
    <3>2. World(c)' = v
      BY <1>1, <3>1, BecomeDoes DEF Sound, Dropped
    <3>3. v.d = tab'[c] /\ v.rec = record'
      BY <3>2 DEF World
    <3>4. Playing(v)
      BY <1>1, <3>3 DEF Live, Playing
    <3>5. CASE Exact(v)
      BY <3>3, <3>4, <3>5 DEF Exact, InStorage
    <3>6. CASE Dropped(v, World(c))
      BY <3>3, <3>6 DEF Dropped, World
    <3>7. CASE /\ v.rec = None /\ Playing(World(c)) /\ record = None
               /\ v.d.player.tour = tab[c].player.tour
               /\ v.d.player.step = tab[c].player.step
      BY <3>3, <3>7 DEF World, Playing, Live
    <3> QED
      BY <1>1, <3>1, <3>4, <3>5, <3>6, <3>7, StoryGoesOn
  <2> QED
    BY <1>1, <2>1, <2>2, <2>3, <2>4, StepsAreSound
<1>2. ASSUME TypeInv, StoryInv, [Next]_vars
      PROVE  [\A c \in Tabs : Live(c)' =>
                \/ InStorage(c)'
                \/ /\ record' = None
                   /\ \/ \E r \in tab[c].requests \ tab'[c].requests : r.what = "resume"
                      \/ /\ Live(c) /\ record = None
                         /\ tab'[c].player.tour = tab[c].player.tour
                         /\ tab'[c].player.step = tab[c].player.step]_vars
  BY <1>1, <1>2
<1> QED
  BY <1>2, TypeInvHolds, StoryInvHolds, PTL DEF Spec, PositionKept

\* On a site open in one document, what the storage would resume has started
\* and is not over, and nothing is reported over that did not start.
THEOREM NothingComesBack ==
    ASSUME OneTab
    PROVE  Spec => []NothingToResurrect
<1>1. StoryInv => NothingToResurrect
  BY DEF StoryInv
<1> QED
  BY <1>1, StoryInvHolds, PTL
=============================================================================
