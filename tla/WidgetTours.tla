---------------------------- MODULE WidgetTours ----------------------------
(***************************************************************************)
(* Product tours on a customer's page: the tour player                     *)
(* (widget/src/tour-player.ts) inside the widget loader                    *)
(* (widget/src/loader.ts), over the localStorage that the tabs of one site *)
(* share and over page loads, which lose everything else.                  *)
(*                                                                         *)
(* A document runs one thread: a handler, or what it does between two      *)
(* awaits, is one step.  Handlers are written as functions from what one   *)
(* tab can see (its own state, the storage, what was reported) to what it  *)
(* leaves, so that a handler that calls another is a composition.          *)
(***************************************************************************)
EXTENDS Naturals, FiniteSets, Sequences

CONSTANTS
    Tabs,       \* documents of the site that run the loader
    Pages,      \* the pages they show, told apart by isDifferentPage
    Steps,      \* each tour's steps, as sequences of [kind, page]
    EveryTime,  \* tours whose frequency is every_time
    Passive,    \* tours that are banners or announcements
    Policy,     \* tour_autostart_policy: "auto", "ask" or "never"
    Starts,     \* bound: tours that are started by their id, or previewed
    Offered,    \* bound: tours the server has on offer
    Others,     \* whether surveys, checklists, previews and AI guides exist
    NumMoves,   \* bound: loads, navigations, boots, repeated READYs, tours
                \* started by id, guides
    None        \* no tour, no page, no record

Tours == DOMAIN Steps
Guide == "guide"      \* the synthetic tour of playAdHocGuide

\* "float" needs no element; "anchor" does, and the visitor (or a delay)
\* advances it; "drive" is an anchored action the player performs; "jump" is
\* a navigate action it performs; "wait" waits for an element or an address;
\* the element of "frame" is in a frame the player cannot reach.
Kinds == {"float", "anchor", "drive", "jump", "wait", "frame"}

ASSUME ToursAssumption ==
    /\ Guide \notin Tours /\ None \notin Tours \cup Pages \cup {Guide}
    /\ EveryTime \subseteq Tours /\ Passive \subseteq Tours
    /\ Starts \subseteq Tours /\ Offered \subseteq Tours
    /\ Policy \in {"auto", "ask", "never"}
    /\ Others \in BOOLEAN /\ NumMoves \in Nat
    /\ \A t \in Tours : Steps[t] \in Seq([kind : Kinds, page : Pages \cup {None}])
    /\ None \notin [tour : Tours, step : Nat, nav : BOOLEAN]

VARIABLES
    tab,      \* the state of each document, with the requests it awaits
    record,   \* tourProgressKey in localStorage: the tour in flight, or None
    seen,     \* toursSeenKey in localStorage
    told,     \* history: what was reported of each tour
    moves     \* how many of the moves that NumMoves bounds there were

vars == <<tab, record, seen, told, moves>>

\* An AI guide has two steps without a page, and every step may be missing.
StepsOf(t) == IF t = Guide THEN << [kind |-> "anchor", page |-> None],
                                   [kind |-> "float", page |-> None] >>
              ELSE Steps[t]

NoTour == [tour |-> None, step |-> 0, preview |-> FALSE, phase |-> "idle"]
NoPill == [kind |-> "none", tour |-> None]

\* A document on page p, opened by a dashboard preview link for tour `link`
\* or not: init leaves the fetch of checkPreview under way.
FreshTab(p, link) ==
    [page     |-> p,        \* location.href without its hash
     link     |-> link,     \* the hash: #stept-preview=…
     leaving  |-> None,     \* where location.assign is taking the document
     ready    |-> FALSE,    \* READY has come from the iframe
     policy   |-> "ask",    \* autostartPolicy, until READY brings Policy
     player   |-> NoTour,
     awaiting |-> {},       \* promises of waitForTarget, waitForUrl, a timer
     about    |-> None,     \* activeTourId
     pill     |-> NoPill,
     survey   |-> FALSE,
     list     |-> "none",   \* the checklist: not mounted, its pill, its panel
     preview  |-> link # None,    \* previewing
     requests |-> IF link = None THEN {}      \* fetches under way
                  ELSE {[what |-> "preview", tour |-> link]}]

Active(d) == d.player.tour # None

----------------------------------------------------------------------------
(* The player's handlers.  w is what tab c sees: [d, rec, seen, told].      *)

World(c) == [d |-> tab[c], rec |-> record, seen |-> seen, told |-> told]

Become(c, w) ==
    /\ tab' = [tab EXCEPT ![c] = w.d]
    /\ record' = w.rec /\ seen' = w.seen /\ told' = w.told

\* What the reports say of a tour, previews aside: never started, started,
\* over, started again before it was over ("again"), or over without a start
\* ("stray").  When the record of a started tour goes without a report the
\* tour is "forgotten", "expired" when a day passed, and "unfetched" when its
\* fetch failed, until it starts or is stored again.
Forget(w) ==
    [w EXCEPT !.rec = None,
              !.told = [t \in Tours |->
                  IF w.rec # None /\ w.rec.tour = t /\ @[t] = "started"
                  THEN "forgotten" ELSE @[t]]]

\* The catch of checkResume: whichever record there is by now goes.
Unfetched(w) ==
    IF w.rec = None THEN w
    ELSE [w EXCEPT !.rec = None, !.told[w.rec.tour] = "unfetched"]

Report(w, t, event) ==
    IF t \notin Tours THEN w
    ELSE [w EXCEPT !.told[t] =
            CASE event = "started" ->
                    IF @ \in {"started", "again", "forgotten", "unfetched"}
                    THEN "again" ELSE "started"
              [] event \in {"completed", "dismissed"} ->
                    IF @ \in {"none", "over"} THEN "stray" ELSE "over"
              [] event = "declined" -> "over"]

\* Mutant: a preview leaves a record too.
PersistAny(w, i, nav) ==
    [w EXCEPT !.rec = [tour |-> w.d.player.tour, step |-> i, nav |-> nav]]

\* persist: a preview leaves no record; a plain write consumes `navigating`.
Persist(w, i, nav) ==
    IF w.d.player.preview THEN w
    ELSE LET old == IF w.rec # None /\ w.rec.tour # w.d.player.tour
                    THEN Forget(w) ELSE w
         IN  [old EXCEPT !.rec = [tour |-> w.d.player.tour, step |-> i,
                                  nav |-> nav],
                         !.told[w.d.player.tour] =
                             IF @ = "unfetched" THEN "again" ELSE @]

\* ++runToken and resetStep: what is awaited for the step no longer counts.
\* Timers are cleared; a promise stays, and finds its token outdated.  Bound:
\* by the time a promise is outdated those outdated before it have ended.
Outdate(w) ==
    LET promises == {a \in w.d.awaiting : a.what # "timer" /\ a.current}
    IN  [w EXCEPT !.d.awaiting =
            IF promises # {} THEN {[a EXCEPT !.current = FALSE] : a \in promises}
            ELSE {a \in @ : ~a.current}]

Teardown(w) == [Outdate(w) EXCEPT !.d.player = NoTour]

\* onTourEvent of a started tour's end; an AI guide has no activeTourId.
OnEnd(w, event) ==
    IF w.d.about = None THEN w
    ELSE LET r == IF w.d.player.preview THEN w ELSE Report(w, w.d.about, event)
             s == IF w.d.preview
                  THEN [r EXCEPT !.d.preview = FALSE]
                  ELSE [r EXCEPT !.seen = @ \cup {w.d.about}]
         IN  [s EXCEPT !.d.about = None, !.d.pill = NoPill]

\* Mutant: the record outlives the tour.
FinishKeepsRecord(w, event) ==
    IF ~Active(w.d) THEN w ELSE Teardown(OnEnd(w, event))

\* finish: report, drop the record, tear down.  The record goes whoever's it
\* is.
Finish(w, event) ==
    IF ~Active(w.d) THEN w
    ELSE Teardown(Forget(OnEnd(w, event)))

\* An address to leave for: another page, and no preview.
Leads(w, step) ==
    step.page # None /\ ~w.d.player.preview /\ step.page # w.d.page

\* completeFrom: over first, then on to the last step's address.
CompleteFrom(w, step) ==
    LET over == Finish(w, "completed")
    IN  IF Leads(w, step) THEN [over EXCEPT !.d.leaving = step.page] ELSE over

\* A step whose element is in a frame is reported and passed over at once,
\* unless its address is elsewhere: the first step from i on that is not.
FirstFrom(w, i) ==
    LET steps == StepsOf(w.d.player.tour)
        stays == {j \in i..Len(steps) :
                    steps[j].kind # "frame" \/ Leads(w, steps[j])}
    IN  IF stays = {} THEN Len(steps) + 1
        ELSE CHOOSE j \in stays : \A k \in stays : j <= k

At(w, i, phase) ==
    [w EXCEPT !.d.player.step = i, !.d.player.phase = phase,
              !.d.pill = IF phase \in {"shown", "acting", "waiting"}
                            /\ w.d.about # None
                         THEN [kind |-> "progress", tour |-> w.d.about] ELSE @]

Await(w, i, what) ==
    [w EXCEPT !.d.awaiting = @ \cup {[what |-> what, step |-> i,
                                      current |-> TRUE]}]

\* Mutant: the page is left before the step is stored.
NavigateUnsaved(w, i) ==
    [At(w, i, "left") EXCEPT !.d.leaving = StepsOf(w.d.player.tour)[i].page]

\* navigateToStep: the step goes down first, flagged.
NavigateToStep(w, i) ==
    [At(Persist(w, i, TRUE), i, "left") EXCEPT
        !.d.leaving = StepsOf(w.d.player.tour)[i].page]

\* showStep; `here` says whether a step's element is on the page by now.
ShowStep(w, from, here) ==
    LET i == FirstFrom(w, from)
        steps == StepsOf(w.d.player.tour)
        o == Outdate(w)
    IN  IF i > Len(steps) THEN Finish(w, "completed")
        ELSE LET step == steps[i] IN
        CASE step.kind = "wait" ->
                Await(At(Persist(o, i, FALSE), i, "waiting"), i, "wait")
          [] step.kind = "float" -> At(Persist(o, i, FALSE), i, "shown")
          [] step.kind = "jump" ->
                Await(At(Persist(o, i, FALSE), i, "acting"), i, "timer")
          [] step.kind = "anchor" /\ here -> At(Persist(o, i, FALSE), i, "shown")
          [] step.kind = "drive" /\ here ->
                Await(At(Persist(o, i, FALSE), i, "acting"), i, "timer")
          [] step.kind = "frame" /\ Leads(w, step) -> NavigateToStep(o, i)
          [] step.kind \in {"anchor", "drive"} /\ ~here /\ Leads(w, step) ->
                NavigateToStep(o, i)
          [] OTHER -> Await(At(Persist(o, i, FALSE), i, "searching"), i, "find")

\* start: a record of this tour means that it started before.
Start(w, t, preview, here) ==
    LET p == [tour |-> t, step |-> 0, preview |-> preview, phase |-> "idle"]
        s == [Teardown(w) EXCEPT !.d.player = p]
        resumes == /\ ~preview /\ w.rec # None /\ w.rec.tour = t
                   /\ w.rec.step <= Len(StepsOf(t))
        r == IF resumes \/ preview THEN s ELSE Report(s, t, "started")
    IN  ShowStep(r, IF resumes THEN w.rec.step ELSE 1, here)

\* play: an active tour gives way (and is dismissed), then the overlays do.
Play(w, t, preview, here) ==
    LET gone == IF Active(w.d) THEN Finish(w, "dismissed") ELSE w
        screen == [gone EXCEPT !.d.pill = NoPill, !.d.survey = FALSE,
                               !.d.list = IF @ = "open" THEN "pill" ELSE @,
                               !.d.about = t]
        s == Start(screen, t, preview, here)
    IN  IF Active(w.d) /\ w.d.about = t THEN w
        ELSE IF ~Active(s.d) THEN s
        ELSE [s EXCEPT !.d.pill = [kind |-> "progress", tour |-> t]]
----------------------------------------------------------------------------
(* The player's events.                                                    *)

Here == BOOLEAN     \* whether the step's element is on the page

\* goto: past the last step the tour is complete.
Goto(w, i, here) == ShowStep(w, i, here)

\* next: Next, Done, the arrow key, a click on the element, a value typed
\* into it, a delay.  Leaving the last step is completing the tour.
NextStep(c) ==
    LET d == tab[c]
        i == d.player.step
        steps == StepsOf(d.player.tour)
    IN  /\ Active(d)
        /\ \E here \in Here :
              Become(c, IF i = Len(steps) THEN CompleteFrom(World(c), steps[i])
                        ELSE Goto(World(c), i + 1, here))
        /\ UNCHANGED moves

\* back: the Back button and the arrow key.
Back(c) ==
    /\ Active(tab[c]) /\ tab[c].player.step > 1
    /\ \E here \in Here :
          Become(c, ShowStep(World(c), tab[c].player.step - 1, here))
    /\ UNCHANGED moves

\* dismiss: the card's cross, Escape, End tour, Stop on the progress pill.
Dismiss(c) ==
    /\ Active(tab[c])
    /\ Become(c, Finish(World(c), "dismissed"))
    /\ UNCHANGED moves

\* The skip button of the card that says the element is not there.
SkipStep(c) ==
    /\ tab[c].player.phase = "blocked"
    /\ \E here \in Here :
          Become(c, Goto(World(c), tab[c].player.step + 1, here))
    /\ UNCHANGED moves

\* The end of awaitTarget: present the step, or say that it is blocked.
Present(w, a, found) ==
    LET drives == StepsOf(w.d.player.tour)[a.step].kind = "drive"
    IN  IF ~found THEN At(w, a.step, "blocked")
        ELSE IF drives THEN Await(At(w, a.step, "acting"), a.step, "timer")
        ELSE At(w, a.step, "shown")

\* Mutant: the token of the promise is not compared.
OutdatedByEnd(w, a) == ~Active(w.d)

\* token !== this.runToken || !this.tour
Outdated(w, a) == ~a.current \/ ~Active(w.d)

\* What the player does when a promise or a timer of step a.step ends: found
\* an element, ran into its timeout, performed the action.  A promise that
\* finds another token does nothing.
Continue(w, a, found, here) ==
    IF Outdated(w, a) THEN w ELSE
    CASE a.what = "find" -> Present(w, a, found)
      [] a.what = "wait" -> Goto(w, a.step + 1, here)
      [] a.what = "timer" ->
            LET step == StepsOf(w.d.player.tour)[a.step]
                p == IF step.kind = "jump" THEN Persist(w, a.step + 1, TRUE) ELSE w
                s == Goto(p, a.step + 1, here)
            IN  IF step.kind = "jump" /\ step.page # None /\ s.d.leaving = None
                THEN [s EXCEPT !.d.leaving = step.page] ELSE s

Resolve(c) ==
    /\ \E a \in tab[c].awaiting, found \in BOOLEAN, here \in Here :
          Become(c, Continue([World(c) EXCEPT !.d.awaiting = @ \ {a}],
                             a, found, here))
    /\ UNCHANGED moves

Move == moves < NumMoves /\ moves' = moves + 1

----------------------------------------------------------------------------
(* The loader.                                                             *)

Request(w, r) == [w EXCEPT !.d.requests = @ \cup {r}]

\* checkExperiences: one request per address, and none during a preview.
\* (It is called on READY, which forces it, and when the address changes.)
CheckExperiences(w) ==
    IF w.d.preview THEN w ELSE Request(w, [what |-> "offers", tour |-> None])

\* bootstrapExperiences up to its first await: checkResume.
Bootstrap(w) ==
    IF w.d.preview \/ Active(w.d) \/ w.rec = None THEN CheckExperiences(w)
    ELSE IF w.rec.tour \in w.seen THEN CheckExperiences(Forget(w))
    ELSE Request(w, [what |-> "resume", tour |-> w.rec.tour, nav |-> w.rec.nav])

\* READY from the iframe, which comes after each boot of the application in it.
Ready(c) ==
    /\ \/ ~tab[c].ready /\ UNCHANGED moves
       \/ tab[c].ready /\ Move
    /\ Become(c, Bootstrap([World(c) EXCEPT !.d.ready = TRUE, !.d.policy = Policy]))

\* Mutant: the player's own navigation only makes an offer.
ResumedOffers(w, r, ok, here) ==
    IF ~ok THEN Unfetched(w)
    ELSE IF Active(w.d) THEN w
    ELSE [w EXCEPT !.d.pill = [kind |-> "resume", tour |-> r.tour]]

\* The rest of checkResume once fetchTour answers, or fails.
Resumed(w, r, ok, here) ==
    IF ~ok THEN Unfetched(w)
    ELSE IF Active(w.d) THEN w
    ELSE IF r.nav THEN Play(w, r.tour, FALSE, here)
    ELSE [w EXCEPT !.d.pill = [kind |-> "resume", tour |-> r.tour]]

AnswerResume(c) ==
    /\ \E r \in tab[c].requests, ok \in BOOLEAN, here \in Here :
          /\ r.what = "resume"
          /\ LET w == [World(c) EXCEPT !.d.requests = @ \ {r}]
             IN  Become(c, CheckExperiences(Resumed(w, r, ok, here)))
    /\ UNCHANGED moves

\* offerTour, for the first tour on offer that may run here: a banner or an
\* announcement does not ask.
Offer(w, t, here) ==
    CASE w.d.policy = "never" -> w
      [] w.d.policy = "auto" \/ (w.d.policy = "ask" /\ t \in Passive) ->
            Play(w, t, FALSE, here)
      [] OTHER -> [w EXCEPT !.d.pill = [kind |-> "offer", tour |-> t]]

\* Mutant: an open survey does not count.
TourOrList(d) == Active(d) \/ d.list = "open"

HasOverlay(d) == Active(d) \/ d.survey \/ d.list = "open"
Claimed(d) == HasOverlay(d) \/ d.pill # NoPill

\* applyExperiences: a tour, else a survey, and a checklist whose panel opens
\* by itself (the first time) only when neither has the screen.
Apply(w, t, survey, list, opens, here) ==
    LET eligible == t # None /\ (t \in EveryTime \/ t \notin w.seen)
        a == IF Claimed(w.d) \/ ~eligible THEN w ELSE Offer(w, t, here)
        taken == Claimed(w.d) \/ (eligible /\ w.d.policy # "never")
        b == IF ~taken /\ survey THEN [a EXCEPT !.d.survey = TRUE] ELSE a
    IN  [b EXCEPT !.d.list =
            IF ~list THEN "none"
            ELSE IF opens /\ ~taken /\ ~survey THEN "open"
            ELSE IF @ = "none" THEN "pill" ELSE @]

AnswerOffers(c) ==
    /\ \E r \in tab[c].requests, t \in Offered \cup {None}, here \in Here :
       \E survey, list, opens \in IF Others THEN BOOLEAN ELSE {FALSE} :
          /\ r.what = "offers"
          /\ Become(c, Apply([World(c) EXCEPT !.d.requests = @ \ {r}],
                             t, survey, list, opens, here))
    /\ UNCHANGED moves

\* startTour and resumeTour, from the page, the messenger, a checklist.
StartTour(c) ==
    /\ Move
    /\ \E t \in Starts : Become(c, Request(World(c), [what |-> "start", tour |-> t]))

AnswerStart(c) ==
    /\ \E r \in tab[c].requests, ok \in BOOLEAN, here \in Here :
          /\ r.what \in {"start", "preview"}
          /\ LET w == [World(c) EXCEPT !.d.requests = @ \ {r}]
                 p == r.what = "preview"
             IN  Become(c, IF ok THEN Play(w, r.tour, p, here)
                           ELSE [w EXCEPT !.d.preview = @ /\ ~p])
    /\ UNCHANGED moves

\* playAdHocGuide, which the application in the iframe asks for: it replaces
\* an active tour without a word.
PlayGuide(c) ==
    /\ Move /\ Others /\ tab[c].ready
    /\ \E here \in Here :
          LET w == [World(c) EXCEPT !.d.survey = FALSE, !.d.about = None,
                                    !.d.list = IF @ = "open" THEN "pill" ELSE @]
          IN  Become(c, Start(w, Guide, TRUE, here))

\* The visitor takes the offer, or continues the tour.
TakePill(c) ==
    /\ tab[c].pill.kind \in {"offer", "resume"}
    /\ \E here \in Here : Become(c, Play(World(c), tab[c].pill.tour, FALSE, here))
    /\ UNCHANGED moves

\* The visitor closes the pill.  Declining to go on is a dismissal.
ClosePill(c) ==
    LET p == tab[c].pill
        w == [World(c) EXCEPT !.d.pill = NoPill, !.seen = @ \cup {p.tour}]
    IN  /\ p.kind \in {"offer", "resume"}
        /\ Become(c, IF p.kind = "offer" THEN w
                     ELSE Forget(Report(w, p.tour, "declined")))
        /\ UNCHANGED moves

\* The visitor closes a survey, opens or closes the checklist.
Visitor(c) ==
    /\ \E d \in (IF tab[c].survey THEN {[tab[c] EXCEPT !.survey = FALSE]} ELSE {})
             \cup (IF tab[c].list = "pill" THEN {[tab[c] EXCEPT !.list = "open"]} ELSE {})
             \cup (IF tab[c].list = "open" THEN {[tab[c] EXCEPT !.list = "pill"]} ELSE {}) :
          tab' = [tab EXCEPT ![c] = d]
    /\ UNCHANGED <<record, seen, told, moves>>

\* onLocationChange: the application shows another page without a load.
SpaNavigate(c) ==
    /\ Move
    /\ \E p \in Pages \ {tab[c].page} :
          Become(c, CheckExperiences([World(c) EXCEPT !.d.page = p, !.d.link = None]))

\* The document goes where the player sent it.
Leave(c) ==
    /\ tab[c].leaving # None
    /\ tab' = [tab EXCEPT ![c] = FreshTab(tab[c].leaving, None)]
    /\ UNCHANGED <<record, seen, told, moves>>

\* The visitor reloads, follows a link, or opens a preview link.
Load(c) ==
    /\ Move /\ tab[c].leaving = None
    /\ \E p \in Pages, link \in (IF Others THEN Starts ELSE {}) \cup {None} :
          tab' = [tab EXCEPT ![c] = FreshTab(p, link)]
    /\ UNCHANGED <<record, seen, told>>

\* shutdown and init again (`Stept('boot', …)`), with the fetches of before
\* still to be answered.
Boot(c) ==
    /\ Move
    /\ LET fresh == FreshTab(tab[c].page, tab[c].link)
       IN  tab' = [tab EXCEPT ![c] = [fresh EXCEPT
                      !.leaving = tab[c].leaving, !.policy = tab[c].policy,
                      !.awaiting = Outdate(World(c)).d.awaiting,
                      !.requests = fresh.requests \cup tab[c].requests]]
    /\ UNCHANGED <<record, seen, told>>

\* A day passes (TOUR_PROGRESS_TTL_MS) with no tour on the screen.
Expire ==
    /\ record # None /\ \A c \in Tabs : ~Active(tab[c])
    /\ record' = None
    /\ told' = [told EXCEPT ![record.tour] = "expired"]
    /\ UNCHANGED <<tab, seen, moves>>

----------------------------------------------------------------------------
Init ==
    /\ \E p \in Pages : tab = [c \in Tabs |-> FreshTab(p, None)]
    /\ record = None /\ seen = {}
    /\ told = [t \in Tours |-> "none"]
    /\ moves = 0

Next ==
    \/ \E c \in Tabs :
          \/ NextStep(c) \/ Back(c) \/ Dismiss(c) \/ SkipStep(c) \/ Resolve(c)
          \/ Ready(c) \/ AnswerResume(c) \/ AnswerOffers(c) \/ AnswerStart(c)
          \/ StartTour(c) \/ PlayGuide(c) \/ TakePill(c) \/ ClosePill(c)
          \/ Visitor(c) \/ SpaNavigate(c) \/ Leave(c) \/ Load(c) \/ Boot(c)
    \/ Expire

Spec == Init /\ [][Next]_vars

\* Documents unload and load, the iframe gets ready, requests are answered.
\* Nothing says that the visitor does anything, or that READY comes again.
Fairness ==
    \A c \in Tabs :
        /\ WF_vars(Leave(c)) /\ WF_vars(AnswerResume(c))
        /\ WF_vars(~tab[c].ready /\ Ready(c))

FairSpec == Spec /\ Fairness

----------------------------------------------------------------------------
(* Correctness.                                                            *)

Phases == {"idle", "shown", "acting", "waiting", "searching", "blocked", "left"}

TypeOK ==
    /\ \A c \in Tabs :
          LET d == tab[c] IN
          /\ d.page \in Pages /\ d.leaving \in Pages \cup {None}
          /\ d.player.tour \in Tours \cup {Guide, None} /\ d.player.phase \in Phases
          /\ d.about \in Tours \cup {None}
          /\ d.pill.kind \in {"none", "offer", "resume", "progress"}
          /\ d.list \in {"none", "pill", "open"}
    /\ record = None \/ record.tour \in Tours
    /\ seen \subseteq Tours
    /\ told \in [Tours -> {"none", "started", "forgotten", "expired",
                            "unfetched", "again", "over", "stray"}]

Live(c) == Active(tab[c]) /\ ~tab[c].player.preview

\* The storage holds the step that is on the screen of tab c (or that its
\* page is leaving for).
InStorage(c) ==
    /\ record # None
    /\ record.tour = tab[c].player.tour /\ record.step = tab[c].player.step
    /\ record.nav => tab[c].leaving # None

\* The step on the screen is stored, so that a reload, which may come at any
\* moment, goes on from there (tour-player.ts:13-17).  It is lost in one way
\* only: to a checkResume whose fetch was under way when the tour started, and
\* fails (loader.ts:757-759); then the next step is stored again.
PositionKept ==
    [][\A c \in Tabs : Live(c)' =>
          \/ InStorage(c)'
          \/ /\ record' = None
             /\ \/ \E r \in tab[c].requests \ tab'[c].requests : r.what = "resume"
                \/ /\ Live(c) /\ record = None
                   /\ tab'[c].player.tour = tab[c].player.tour
                   /\ tab'[c].player.step = tab[c].player.step]_vars

\* What the storage would resume is a tour that started and is not over, and
\* nothing is reported over that did not start (loader.ts:749-752,
\* tour-player.ts:655-656).
NothingToResurrect ==
    /\ record # None => told[record.tour] \in {"started", "forgotten", "again"}
    /\ \A t \in Tours : told[t] # "stray"

\* While a tour plays it goes from a step to the next or to the one before,
\* passing over steps in frames only: whatever a promise or a timer of an
\* earlier step brings, it no longer moves the tour (runToken).
StepByStep ==
    [][\A c \in Tabs :
          LET p == tab[c].player
              q == tab'[c].player
              steps == StepsOf(p.tour)
          IN  p.tour # None /\ q.tour = p.tour /\ q.preview = p.preview =>
              \/ q.step = p.step
              \/ q.step < p.step /\ q.step + 1 = p.step
              \/ q.step > p.step /\ \A i \in p.step + 1..q.step - 1 :
                    steps[i].kind = "frame"]_vars

Overlays(d) == Cardinality({x \in {1, 2, 3} :
    \/ x = 1 /\ Active(d)
    \/ x = 2 /\ d.survey
    \/ x = 3 /\ d.list = "open"})

\* The widget itself never puts a second overlay on the page (loader.ts:16-18):
\* only the visitor, who opens the checklist from its pill, does.
OneOverlay ==
    [][\A c \in Tabs :
          \/ Overlays(tab'[c]) <= 1
          \/ Overlays(tab'[c]) <= Overlays(tab[c])
          \/ tab'[c] = [tab[c] EXCEPT !.list = "open"]]_vars

\* What becomes of tour t, which sent tab c's page elsewhere: it (or else
\* something) plays on the page, or it came to an end: the visitor ended or
\* declined it, a day passed, or it is not to be had any more.  Before the page
\* is left, the visitor may also move it on, end a guide that took its place, or
\* decline another tour; each of these takes the mark or the record away.
CarriedOn(c, t) ==
    LET d == tab[c] IN
    \/ Active(d) /\ (d.leaving = None \/ d.player.tour # t)
    \/ d.preview /\ d.leaving = None
    \/ d.leaving # None /\ (record = None \/ ~record.nav)
    \/ t \in seen \/ told[t] \in {"over", "expired", "unfetched"}

\* A tour that sent the page elsewhere goes on by itself once the page is
\* there (tour-player.ts:692-694), the first time it is played: of one that was
\* seen before, NextLoadContinues below tells.
CrossPageContinues ==
    \A c \in Tabs, t \in Tours :
        (/\ tab[c].leaving # None /\ t \notin seen
         /\ record # None /\ record.tour = t /\ record.nav) ~> CarriedOn(c, t)

----------------------------------------------------------------------------
(* What the code says of itself.                                           *)

\* "progress goes down FIRST (flagged `navigating`) so the next load
\* auto-continues at this exact step instead of restarting the tour"
\* (tour-player.ts:692-694).
NextLoadContinues ==
    [][\A c \in Tabs : ~tab[c].ready /\ tab'[c].ready /\ record # None =>
          (record.nav => record' = record)]_vars

\* Progress is persisted "so a reload, a cross-page step or a new tab resumes
\* mid-tour" (tour-player.ts:13-17).
PositionAlways == \A c \in Tabs : Live(c) => InStorage(c)

\* "Completed/dismissed elsewhere (another tab): a leftover record must never
\* resurrect the tour" (loader.ts:749-752).
NeverResurrected ==
    \A c \in Tabs : tab[c].pill.kind = "resume" => told[tab[c].pill.tour] # "over"
=============================================================================
