-------------------------- MODULE ExtensionDrive --------------------------
(***************************************************************************)
(* The session in which a remote client drives a tab of this browser: the  *)
(* background worker's part (extension/src/entrypoints/background.ts) and  *)
(* the controller of the driven tab (remote/drive-controller.ts), with the *)
(* user, the pages and the browser around them.                            *)
(*                                                                         *)
(* The worker runs one thread: what an operation does between two awaits   *)
(* that matter is one step.  Operations of one controller are serialized   *)
(* by its queue; nothing serializes what the user and the pages do.        *)
(***************************************************************************)
EXTENDS Naturals, FiniteSets, Sequences

CONSTANTS
    NumTabs,     \* bound: tabs beyond which the user and the pages open none
    NumOps,      \* bound: operations of the remote client
    NumEvents,   \* bound: what the user, the pages and the browser do
    Overlaps     \* whether an operation may come before the last was answered

ASSUME DriveAssumption ==
    NumTabs \in Nat \ {0} /\ NumOps \in Nat /\ NumEvents \in Nat /\ Overlaps \in BOOLEAN

VARIABLES
    tabs,         \* the tabs that were opened, by number
    up,           \* whether the worker runs
    controllers,  \* RemoteDriveControllers that still have something to do
    remote,       \* remoteDrive: the number of the controller in use, or 0
    panel,        \* state.remoteDrive: the tab that the panel shows, or 0
    adopt,        \* remoteAdoptTabId: a tab to reattach to, or 0
    journal,      \* panelstate.remoteDrive and remoteadopt as last persisted
    local,        \* a tour driven from the panel: "no", "loading", "yes"
    session,      \* history: the tab the client's session is on, or 0
    ops, events

vars == <<tabs, up, controllers, remote, panel, adopt, journal, local, session,
          ops, events>>

Fresh == Len(tabs) + 1

\* A tab: opened by the user, by the drive or by a page; the tab that opened
\* it as far as the browser says; in a window of type popup or not.
Tab(from, opener, popup) ==
    [from |-> from, opener |-> opener, popup |-> popup, live |-> TRUE]
Live(t) == t # 0 /\ tabs[t].live
Closed(ts, t) == IF t = 0 THEN ts ELSE [ts EXCEPT ![t].live = FALSE]

New(n, hint) ==
    [n       |-> n,
     tab     |-> 0,        \* tabId
     created |-> 0,        \* createdTabId
     openers |-> << >>,    \* popupOpenerTabIds
     pending |-> 0,        \* pendingAdoptTabId
     adopt   |-> hint,     \* adoptTabId
     cdp     |-> FALSE,    \* a debugger session
     queue   |-> << >>,    \* operations, the first under way
     at      |-> "start"]  \* where that one goes on

\* A controller that has nothing left to do is gone.
Spent(c) == c.tab = 0 /\ c.queue = << >> /\ c.n # remote'
Keep(cs) == {c \in cs : ~Spent(c)}
Becomes(c, d) == controllers' = Keep((controllers \ {c}) \cup {d})

Op(c) == Head(c.queue)
Under(c, op, at) ==
    up /\ c \in controllers /\ c.queue # << >> /\ Op(c) = op /\ c.at = at

Event == events < NumEvents /\ events' = events + 1 /\ UNCHANGED ops

----------------------------------------------------------------------------
(* The worker: handleRemoteOp, stopRemote.                                 *)

Queued(c, op) == [c EXCEPT !.queue = Append(@, op)]
Idle == \A c \in controllers : c.queue = << >>

\* An operation arrives.  `open` is refused while a tour is driven and makes
\* the controller; the others need one, and are answered at once without.
Arrive(op) ==
    /\ up /\ ops < NumOps /\ ops' = ops + 1
    /\ Overlaps \/ Idle
    /\ IF op = "open" /\ local # "yes" /\ remote = 0
       THEN LET n == CHOOSE i \in 1..(NumOps + 1) : \A c \in controllers : c.n # i
            IN  /\ remote' = n /\ adopt' = 0
                /\ controllers' = controllers \cup {Queued(New(n, adopt), op)}
       ELSE /\ UNCHANGED <<remote, adopt>>
            /\ controllers' =
                 {IF c.n = remote /\ ~(op = "open" /\ local = "yes")
                  THEN Queued(c, op) ELSE c : c \in controllers}
    /\ UNCHANGED <<tabs, up, panel, journal, local, session, events>>

\* What follows an operation of the client (finally): the panel mirrors the
\* session, and the state is persisted.  The close of stopRemote has none.
Settle(c, d) ==
    LET op == Op(c)
        e == [d EXCEPT !.queue = Tail(@), !.at = "start"]
    IN  /\ remote' = IF op = "close" /\ remote = c.n THEN 0 ELSE remote
        /\ Becomes(c, e)
        /\ IF op = "end" THEN UNCHANGED <<panel, journal, session>>
           ELSE /\ panel' = IF op = "close" THEN 0 ELSE e.tab
                /\ journal' = [panel |-> panel', adopt |-> adopt]
                /\ session' = IF op = "close" THEN 0
                                           ELSE IF remote = c.n THEN e.tab ELSE session
        /\ UNCHANGED <<up, adopt, local, ops>>

\* Not over yet.
Continue(c, d, at) ==
    /\ Becomes(c, [d EXCEPT !.at = at])
    /\ UNCHANGED <<up, remote, panel, adopt, journal, local, session, ops>>

\* stopRemote: the user signs out, or takes the browser back.
StopRemote ==
    /\ up /\ Event
    /\ remote' = 0 /\ panel' = 0 /\ adopt' = 0 /\ session' = 0
    /\ journal' = [panel |-> 0, adopt |-> 0]
    /\ controllers' = {IF c.n = remote THEN Queued(c, "end") ELSE c : c \in controllers}
    /\ UNCHANGED <<tabs, up, local>>

----------------------------------------------------------------------------
(* The controller.                                                         *)

\* Mutant: a popup that was seen in the last session is not forgotten.
DisposedButPopup(c) == [New(c.n, 0) EXCEPT !.queue = c.queue, !.pending = c.pending]

\* dispose: the tab it created is closed, the listener goes.
Disposed(c) == [New(c.n, 0) EXCEPT !.queue = c.queue]

\* reattachExisting: this session's tab, or the hint of the previous one.
Target(c) == IF Live(c.tab) THEN c.tab ELSE IF Live(c.adopt) THEN c.adopt ELSE 0

\* open: reattach to a tab that lives, or dispose and open another.
Open(c) ==
    /\ Under(c, "open", "start")
    /\ LET t == Target(c)
           d == [c EXCEPT !.adopt = 0]
       IN  IF t = 0
           THEN Continue(c, Disposed(c), "make") /\ tabs' = Closed(tabs, c.created)
           ELSE /\ UNCHANGED tabs
                /\ IF c.tab = t /\ c.cdp THEN Settle(c, d)
                   ELSE Continue(c, [d EXCEPT !.tab = t, !.created = t, !.cdp = FALSE],
                                 "attach")
    /\ UNCHANGED events

MakeTab(c) ==
    /\ Under(c, "open", "make")
    /\ tabs' = Append(tabs, Tab("drive", 0, FALSE))
    /\ Continue(c, [c EXCEPT !.tab = Fresh, !.created = Fresh], "attach")
    /\ UNCHANGED events

\* Mutant: the debugger is waited for when the tab is gone.
AttachWaits(c) ==
    /\ \E op \in {"open", "act"} : Under(c, op, "attach")
    /\ Live(c.tab) /\ Settle(c, [c EXCEPT !.cdp = TRUE])
    /\ UNCHANGED <<tabs, events>>

\* The debugger attaches, or cannot: a tab that is gone, or another debugger.
\* A popup that it cannot attach to leaves the session of the opener behind.
Attach(c) ==
    /\ \E op \in {"open", "act"} : Under(c, op, "attach")
    /\ \/ Live(c.tab) /\ Settle(c, [c EXCEPT !.cdp = TRUE]) /\ UNCHANGED events
       \/ /\ Settle(c, c)
          /\ IF Live(c.tab) THEN Event ELSE UNCHANGED events
    /\ UNCHANGED <<tabs>>

\* navigate, snapshot, act, key: the page moves, and the session follows it
\* into a popup that it opened, or back to the nearest opener when the popup
\* is gone.  A scroll follows nothing, nor does what ensure() refuses or what
\* fails before it.
Act(c) ==
    /\ Under(c, "act", "start")
    /\ UNCHANGED <<tabs, events>>
    /\ LET d == [c EXCEPT !.pending = 0]
           alive == {i \in DOMAIN c.openers : Live(c.openers[i])}
           i == CHOOSE k \in alive : \A j \in alive : j <= k
       IN  \/ Settle(c, c)
           \/ /\ c.cdp /\ c.tab # 0
              /\ IF Live(c.pending) /\ c.pending # c.tab
                 THEN Continue(c, [d EXCEPT !.openers = Append(@, c.tab),
                                            !.tab = c.pending], "attach")
                 ELSE IF c.openers = << >> \/ Live(c.tab) THEN Settle(c, d)
                 ELSE IF alive = {} THEN Settle(c, [d EXCEPT !.openers = << >>])
                 ELSE Continue(c, [d EXCEPT !.openers = SubSeq(@, 1, i - 1),
                                            !.tab = c.openers[i]], "attach")

Close(c) ==
    /\ \E op \in {"close", "end"} : Under(c, op, "start")
    /\ tabs' = Closed(tabs, c.created)
    /\ Settle(c, Disposed(c))
    /\ UNCHANGED events

----------------------------------------------------------------------------
(* The pages, the user, the browser.                                       *)

\* Mutant: whatever window it is in.
FollowsAny(c, t) ==
    c.tab # 0 /\ (t.opener = c.tab \/ t.opener = 0)

\* onTabCreated: a tab that the driven tab opened, or one without an opener
\* that starts a popup window.
Follows(c, t) ==
    c.tab # 0 /\ (t.opener = c.tab \/ (t.opener = 0 /\ t.popup))

\* A tab is opened: by the user, or by a live page (a popup window has no
\* opener that the browser would tell).
TabOpens ==
    /\ Len(tabs) < NumTabs /\ Event
    /\ \E t \in {Tab("user", 0, FALSE), Tab("page", 0, TRUE)}
              \cup {Tab("page", o, FALSE) : o \in {u \in DOMAIN tabs : tabs[u].live}} :
          /\ tabs' = Append(tabs, t)
          /\ controllers' = {IF Follows(c, t) THEN [c EXCEPT !.pending = Fresh] ELSE c :
                                c \in controllers}
    /\ UNCHANGED <<up, remote, panel, adopt, journal, local, session>>

\* … or closed.
TabCloses ==
    /\ Event
    /\ \E t \in DOMAIN tabs : tabs[t].live /\ tabs' = Closed(tabs, t)
    /\ UNCHANGED <<up, controllers, remote, panel, adopt, journal, local, session>>

\* The panel drives a tour: refused while a session is on, but the tour is
\* fetched before it starts.
LocalStart ==
    /\ up /\ local = "no" /\ remote = 0 /\ panel = 0 /\ Event
    /\ local' = "loading"
    /\ UNCHANGED <<tabs, up, controllers, remote, panel, adopt, journal, session>>

LocalStep ==
    /\ up /\ local # "no"
    /\ local' = IF local = "loading" THEN "yes" ELSE "no"
    /\ UNCHANGED <<tabs, up, controllers, remote, panel, adopt, journal, session,
                   ops, events>>

\* An idle worker is torn down.
Teardown ==
    /\ up /\ Idle /\ local # "loading" /\ Event
    /\ up' = FALSE /\ controllers' = {} /\ remote' = 0 /\ panel' = 0 /\ adopt' = 0
    /\ local' = "no"
    /\ UNCHANGED <<tabs, journal, session>>

\* Mutant: only the panel's session is remembered.
RestorePanel ==
    /\ ~up /\ up' = TRUE
    /\ adopt' = journal.panel
    /\ journal' = [panel |-> 0, adopt |-> adopt']
    /\ UNCHANGED <<tabs, controllers, remote, panel, local, session, ops, events>>

\* restore: the tab of the session that was on, or the hint before it.
Restore ==
    /\ ~up /\ up' = TRUE
    /\ adopt' = IF journal.panel # 0 THEN journal.panel ELSE journal.adopt
    /\ journal' = [panel |-> 0, adopt |-> adopt']
    /\ UNCHANGED <<tabs, controllers, remote, panel, local, session, ops, events>>

----------------------------------------------------------------------------
Init ==
    /\ tabs = << Tab("user", 0, FALSE) >>
    /\ up = TRUE /\ controllers = {} /\ remote = 0 /\ panel = 0 /\ adopt = 0
    /\ journal = [panel |-> 0, adopt |-> 0] /\ local = "no" /\ session = 0
    /\ ops = 0 /\ events = 0

Dispatch == \E c \in controllers :
    Open(c) \/ MakeTab(c) \/ Attach(c) \/ Act(c) \/ Close(c)

Next ==
    \/ \E op \in {"open", "act", "close"} : Arrive(op)
    \/ \E c \in controllers : Open(c) \/ MakeTab(c) \/ Attach(c) \/ Act(c) \/ Close(c)
    \/ StopRemote \/ TabOpens \/ TabCloses \/ LocalStart \/ LocalStep
    \/ Teardown \/ Restore

Spec == Init /\ [][Next]_vars

\* Promises are settled; tabs do open.
FairSpec == Spec /\ WF_vars(Dispatch)

----------------------------------------------------------------------------
(* Correctness.                                                            *)

Ids == 0..Len(tabs)

TypeOK ==
    /\ \A t \in DOMAIN tabs : tabs[t].from \in {"user", "drive", "page"}
    /\ \A c \in controllers :
          /\ {c.tab, c.created, c.pending, c.adopt} \subseteq Ids
          /\ c.at \in {"start", "make", "attach"}
          /\ c.tab = 0 => /\ {c.created, c.pending} = {0}
                          /\ c.openers = << >> /\ ~c.cdp
    /\ \A c, d \in controllers : c.n = d.n => c = d
    /\ remote # 0 => \E c \in controllers : c.n = remote
    /\ {panel, adopt, session, journal.panel, journal.adopt} \subseteq Ids
    /\ local \in {"no", "loading", "yes"}

\* A tab that the user opened is never driven and never closed by the drive
\* (drive-controller.ts:632-636, 719).
NeverTheUsersTab ==
    \A c \in controllers :
        \A t \in {c.tab, c.created} \ {0} : tabs[t].from # "user"

\* As long as the client has a session and its tab lives, an `open` finds that
\* tab, however often the worker was torn down (background.ts:101-103, 165-168).
Recoverable ==
    up /\ session # 0 /\ Live(session) /\ Idle =>
        \/ \E c \in controllers : c.n = remote /\ c.tab = session
        \/ remote = 0 /\ adopt = session

\* A failure never wedges the queue: every operation is answered
\* (drive-controller.ts:162-163).
Answered == (\E c \in controllers : c.queue # << >>) ~> Idle
=============================================================================
