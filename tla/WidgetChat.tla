---------------------------- MODULE WidgetChat ----------------------------
(***************************************************************************)
(* The messenger in the visitor's browser: the controller inside the       *)
(* widget's iframe (widget/src/app/controller.ts) and its socket           *)
(* (app/ws.ts), with the loader that carries out page operations for it    *)
(* and the part of the backend that answers it.                            *)
(*                                                                         *)
(* The iframe runs one thread: a handler, or what it does between two      *)
(* awaits, is one step.  Handlers are functions from what the iframe       *)
(* reaches (its state, its requests, the loader, its sockets) to what they *)
(* leave, so that a handler that calls another is a composition.           *)
(***************************************************************************)
EXTENDS Naturals, FiniteSets, Sequences, Functions

CONSTANTS
    Start,       \* the conversations there are at first, as one message each
    Ops,         \* the operations an agent may ask for, each once
    PageSize,    \* messages in a page of a thread
    NumEvents,   \* bound: acts of the visitor, replies, operations, faults
    NumOpen      \* bound: requests under way when one of these happens

\* An operation is named by its kind: "auto" is carried out at once (a page
\* operation, a tour, an action without confirm), "ask" waits for the visitor,
\* "steps" is posted and reported done.
ASSUME ChatAssumption ==
    /\ Start \in Seq({"in", "out"}) /\ Ops \subseteq {"auto", "ask", "steps"}
    /\ {NumEvents, NumOpen} \subseteq Nat /\ PageSize \in Nat \ {0}

VARIABLES
    app,       \* the controller's state
    requests,  \* its requests, under way
    loader,    \* the loader: the launcher's badge, the operations it works on
    sockets,   \* the WidgetSockets that were made since the page was loaded
    server,    \* messages, what was read of them, the operation a run waits for
    ran,       \* history: how often each operation was begun
    events     \* how many of those that NumEvents bounds there were

vars == <<app, requests, loader, sockets, server, ran, events>>

None == "none"

\* Messages and conversations are numbered in the order they are stored.
Convs(sv) == {sv.log[i].conv : i \in DOMAIN sv.log}
Messages(sv, c) == {i \in DOMAIN sv.log : sv.log[i].conv = c}
Unread(sv, c) == \E i \in Messages(sv, c) : sv.log[i].dir = "out" /\ i > sv.read[c]

\* conversation_summaries
Summaries(sv) ==
    [i \in 1..Cardinality(Convs(sv)) |-> [conv |-> i, unread |-> Unread(sv, i)]]

\* The numbers of S in their order, and what a sequence has at some places.
Ascending(S) ==
    [i \in 1..Cardinality(S) |-> CHOOSE x \in S : Cardinality({y \in S : y < x}) = i - 1]
Kept(s, I) == LET at == Ascending(I) IN [i \in DOMAIN at |-> s[at[i]]]
Newest(S, k) == {i \in S : Cardinality({j \in S : j > i}) < k}

\* list_messages: the newest page, or the one before a cursor.
MessagePage(sv, c, cursor) ==
    LET all  == {i \in Messages(sv, c) : cursor = 0 \/ i < cursor}
        page == Newest(all, PageSize)
    IN  [items |-> Ascending(page),
         next  |-> IF page = all THEN 0 ELSE CHOOSE i \in page : \A j \in page : i <= j]

----------------------------------------------------------------------------
(* The controller.  w is what the iframe reaches.                          *)

World == [app |-> app, requests |-> requests, loader |-> loader,
          sockets |-> sockets, ran |-> ran]

Become(w) ==
    /\ app' = w.app /\ requests' = w.requests /\ loader' = w.loader
    /\ sockets' = w.sockets /\ ran' = w.ran

Loading == [name |-> "loading", conv |-> 0]
HomeScreen == [name |-> "home", conv |-> 0]
Failure == [name |-> "error", conv |-> 0]
Thread(c) == [name |-> "thread", conv |-> c]    \* 0: not created yet

\* INITIAL, and the private fields.
FreshApp ==
    [screen  |-> Loading,
     list    |-> << >>,    \* conversations: [conv, unread]
     shown   |-> << >>,    \* messages: [kind, id], stored or temporary
     seen    |-> {},       \* seenIds
     cursor  |-> 0,        \* nextCursor
     loading |-> FALSE,    \* loadingMessages
     panel   |-> FALSE,    \* panelOpen
     card    |-> None,     \* pendingAction
     ops     |-> {},       \* pendingOps
     working |-> FALSE,    \* workingOnPage
     timer   |-> FALSE]    \* statusTimer

\* What an answer carries: conversations, a page, a new number, an operation.
Nothing == [list |-> << >>, items |-> << >>, next |-> 0, id |-> 0, op |-> None]

\* A request; arg is a cursor or a temporary message, op an operation.  Before
\* the first boot there is no token, and the backend refuses.
AskOf(w, what, c, arg, op) ==
    LET n == CHOOSE i \in 1..(Cardinality(w.requests) + 1) :
                /\ \A r \in w.requests : r.n # i
                /\ \A j \in 1..(i - 1) : \E r \in w.requests : r.n = j
    IN  [w EXCEPT !.requests = @ \cup {
            [n |-> n, what |-> what, conv |-> c, arg |-> arg, op |-> op, got |-> Nothing,
             stage |-> IF what = "boot" \/ w.sockets # << >> THEN "sent" ELSE "failed"]}]

Ask(w, what, c, arg) == AskOf(w, what, c, arg, None)

Stored(ids) == [i \in DOMAIN ids |-> [kind |-> "stored", id |-> ids[i]]]
UnreadCount(list) == Cardinality({i \in DOMAIN list : list[i].unread})
PushUnread(w) == [w EXCEPT !.loader.badge = UnreadCount(w.app.list)]
ConvOnScreen(a) == IF a.screen.name = "thread" THEN a.screen.conv ELSE 0

\* The last socket made is the controller's; the others live on.
Subscribe(w, c) ==
    IF w.sockets = << >> THEN w ELSE [w EXCEPT !.sockets[Len(w.sockets)].want = @ \cup {c}]

OpenConversation(w, c) ==
    Ask([w EXCEPT !.app.screen = Thread(c), !.app.shown = << >>, !.app.seen = {},
                  !.app.cursor = 0, !.app.loading = TRUE, !.app.card = None],
        "list", c, 0)

\* maybeOpenUnreadThread
OpenTheUnread(w) ==
    LET unread == {i \in DOMAIN w.app.list : w.app.list[i].unread}
    IN  IF w.app.screen.name = "home" /\ Cardinality(unread) = 1
        THEN OpenConversation(w, w.app.list[CHOOSE i \in unread : TRUE].conv)
        ELSE w

StartNew(w) ==
    [w EXCEPT !.app.screen = Thread(0), !.app.shown = << >>, !.app.seen = {},
              !.app.cursor = 0, !.app.card = None]

\* setWorking
SetWorking(w, on) == [w EXCEPT !.app.working = on, !.app.timer = on]

Post(w, op) == [w EXCEPT !.loader.busy[op] = @ + 1, !.ran[op] = @ + 1]

\* finishOp: the result goes to the conversation on the screen, if there is one.
FinishOp(w, op) ==
    LET quiet == SetWorking(w, FALSE)
    IN  IF ConvOnScreen(w.app) = 0 THEN quiet
        ELSE AskOf(quiet, "result", ConvOnScreen(w.app), 0, op)

\* Mutant: the second delivery of an operation counts too.
EveryDelivery(w, op) == [SetWorking(w, TRUE) EXCEPT !.app.ops = @ \cup {op},
                                                    !.loader.busy[op] = @ + 1,
                                                    !.ran[op] = @ + 1]

\* onCopilotOp
OnOp(w, op) ==
    CASE op \in w.app.ops \/ w.app.card = op -> w
      [] op \notin w.app.ops /\ w.app.card # op /\ op = "ask" ->
            [w EXCEPT !.app.card = op]
      [] op \notin w.app.ops /\ w.app.card # op /\ op = "auto" ->
            Post([SetWorking(w, TRUE) EXCEPT !.app.ops = @ \cup {op}], op)
      [] op \notin w.app.ops /\ w.app.card # op /\ op = "steps" ->
            FinishOp([SetWorking(w, TRUE) EXCEPT !.ran[op] = @ + 1], op)

Confirm(w) ==
    Post([SetWorking(w, TRUE) EXCEPT !.app.ops = @ \cup {w.app.card}, !.app.card = None],
         w.app.card)

Decline(w) == FinishOp([w EXCEPT !.app.card = None], w.app.card)

\* onCopilotResult
OnResult(w, op) ==
    IF op \notin w.app.ops THEN w
    ELSE FinishOp([w EXCEPT !.app.ops = @ \ {op}], op)

\* send; arg names the temporary message.
Send(w, temp) ==
    LET typed == [w EXCEPT !.app.shown = Append(@, [kind |-> "pending", id |-> temp])]
    IN  Ask(typed, IF w.app.screen.conv = 0 THEN "create" ELSE "send",
            w.app.screen.conv, temp)

Retry(w, old, temp) ==
    Send([w EXCEPT !.app.shown = Kept(@, {i \in DOMAIN @ : @[i] # old})], temp)

MarkFailed(w, temp) ==
    [w EXCEPT !.app.shown = [i \in DOMAIN @ |->
        IF @[i] = [kind |-> "pending", id |-> temp]
        THEN [kind |-> "failed", id |-> temp] ELSE @[i]]]

ReplaceTemp(w, temp, id) ==
    LET mine == [kind |-> "pending", id |-> temp]
    IN  IF id \in w.app.seen
        THEN [w EXCEPT !.app.shown = Kept(@, {i \in DOMAIN @ : @[i] # mine})]
        ELSE [w EXCEPT !.app.seen = @ \cup {id},
                       !.app.shown = [i \in DOMAIN @ |->
                          IF @[i] = mine THEN [kind |-> "stored", id |-> id] ELSE @[i]]]

----------------------------------------------------------------------------
(* What follows a request.                                                 *)

\* A page of a thread, which replaces what is shown.
ShowPage(w, page) ==
    [w EXCEPT !.app.shown = Stored(page.items), !.app.cursor = page.next,
              !.app.seen = @ \cup Range(page.items)]

\* loadOlderMessages
ShowOlder(w, page) ==
    LET older == Kept(page.items, {i \in DOMAIN page.items : page.items[i] \notin w.app.seen})
    IN  [w EXCEPT !.app.shown = Stored(older) \o @, !.app.cursor = page.next,
                  !.app.seen = @ \cup Range(older)]

\* applyBoot: another socket, READY with the unread count.
Booted(w, list) ==
    LET v == PushUnread(
                [w EXCEPT !.app.screen = HomeScreen, !.app.list = list,
                          !.sockets = Append(@, [up |-> FALSE, want |-> {},
                                                 joined |-> {}, wire |-> << >>])])
    IN  IF v.app.panel THEN OpenTheUnread(v) ELSE v

Refreshed(w, list) == PushUnread([w EXCEPT !.app.list = list])

\* Mutant: the thread is opened by the temporary message's number.
CreatedTemp(w, r) ==
    Ask([Subscribe(w, r.got.id) EXCEPT !.app.screen = Thread(r.arg), !.app.seen = {}],
        "created", r.got.id, r.arg)

\* The rest of send, once the conversation is created; its messages are next.
Created(w, r) ==
    Ask([Subscribe(w, r.got.id) EXCEPT
            !.app.screen = Thread(r.got.id), !.app.seen = {},
            !.app.list = << [conv |-> r.got.id, unread |-> FALSE] >> \o @],
        "created", r.got.id, r.arg)

\* The rest of openConversation.
Listed(w, r) ==
    Ask(Ask([Subscribe(ShowPage(w, r.got), r.conv) EXCEPT !.app.loading = FALSE],
            "read", r.conv, 0), "pending", r.conv, 0)

\* Mutant: the badge is left to the next refresh.
MarkedReadQuietly(w, c) ==
    [w EXCEPT !.app.list = [i \in DOMAIN @ |->
        IF @[i].conv = c THEN [@[i] EXCEPT !.unread = FALSE] ELSE @[i]]]

MarkedRead(w, c) ==
    PushUnread([w EXCEPT !.app.list = [i \in DOMAIN @ |->
                   IF @[i].conv = c THEN [@[i] EXCEPT !.unread = FALSE] ELSE @[i]]])

Answered(w, r) ==
    CASE r.what = "boot"    -> Booted(w, r.got.list)
      [] r.what = "convs"   -> Refreshed(w, r.got.list)
      [] r.what = "opened"  -> OpenTheUnread(Refreshed(w, r.got.list))
      [] r.what = "list"    -> Listed(w, r)
      [] r.what = "older"   -> ShowOlder(w, r.got)
      [] r.what = "create"  -> Created(w, r)
      [] r.what = "created" -> ShowPage(w, r.got)
      [] r.what = "send"    -> ReplaceTemp(w, r.arg, r.got.id)
      [] r.what = "read"    -> MarkedRead(w, r.conv)
      [] r.what = "pending" -> IF r.got.op = None THEN w ELSE OnOp(w, r.got.op)

\* Mutant: only the creation of a conversation can fail.
NotAnsweredSent(w, r) ==
    CASE r.what = "boot" -> [w EXCEPT !.app.screen = Failure]
      [] r.what = "list" -> [w EXCEPT !.app.screen = Failure, !.app.loading = FALSE]
      [] r.what \in {"create", "created"} -> MarkFailed(w, r.arg)
      [] r.what = "opened" -> OpenTheUnread(w)
      [] r.what \in {"convs", "send", "older", "read", "pending"} -> w

\* What the catch branches leave.
NotAnswered(w, r) ==
    CASE r.what = "boot" -> [w EXCEPT !.app.screen = Failure]
      [] r.what = "list" -> [w EXCEPT !.app.screen = Failure, !.app.loading = FALSE]
      [] r.what \in {"create", "created", "send"} -> MarkFailed(w, r.arg)
      [] r.what = "opened" -> OpenTheUnread(w)
      [] r.what \in {"convs", "older", "read", "pending"} -> w

\* An answer reaches the iframe.
Answer ==
    \E r \in requests :
        /\ r.stage # "sent"
        /\ LET w == [World EXCEPT !.requests = @ \ {r}]
           IN  Become(IF r.stage = "served" THEN Answered(w, r) ELSE NotAnswered(w, r))
        /\ UNCHANGED <<server, events>>

----------------------------------------------------------------------------
(* Frames of the socket.                                                   *)

\* Mutant: whichever conversation it is of.
OnMessageOfAny(w, m) ==
    IF m.id \in w.app.seen \/ w.app.screen.name # "thread" THEN w
    ELSE [w EXCEPT !.app.seen = @ \cup {m.id},
                   !.app.shown = Append(@, [kind |-> "stored", id |-> m.id])]

\* onMessageCreated; `active` is null outside a thread.
OnMessage(w, m) ==
    IF m.conv = ConvOnScreen(w.app) /\ m.id \notin w.app.seen
    THEN LET v == [w EXCEPT !.app.seen = @ \cup {m.id},
                            !.app.shown = Append(@, [kind |-> "stored", id |-> m.id]),
                            !.app.card = IF m.dir = "out" THEN None ELSE @]
         IN  IF m.dir = "out" THEN Ask(v, "read", m.conv, 0) ELSE v
    ELSE IF m.dir = "out"
    THEN PushUnread([w EXCEPT !.app.list = [i \in DOMAIN @ |->
             IF @[i].conv = m.conv THEN [@[i] EXCEPT !.unread = TRUE] ELSE @[i]]])
    ELSE w

Deliver(s) ==
    /\ s \in DOMAIN sockets /\ sockets[s].wire # << >>
    /\ LET m == Head(sockets[s].wire)
           w == [World EXCEPT !.sockets[s].wire = Tail(@)]
       IN  Become(CASE m.what = "message" -> OnMessage(w, m)
                    [] m.what = "op"      -> OnOp(w, m.op)
                    [] m.what = "ended"   -> SetWorking(w, FALSE))
    /\ UNCHANGED <<server, events>>

\* The socket opens: the backend joins the contact's conversations.
Connect(s) ==
    /\ s \in DOMAIN sockets /\ ~sockets[s].up
    /\ sockets' = [sockets EXCEPT ![s].up = TRUE, ![s].joined = Convs(server)]
    /\ UNCHANGED <<app, requests, loader, server, ran, events>>

\* … and those that the widget subscribes to.
Join(s) ==
    /\ s \in DOMAIN sockets /\ sockets[s].up
    /\ \E c \in sockets[s].want \ sockets[s].joined :
          sockets' = [sockets EXCEPT ![s].joined = @ \cup {c}]
    /\ UNCHANGED <<app, requests, loader, server, ran, events>>

Event ==
    /\ events < NumEvents /\ Cardinality(requests) <= NumOpen
    /\ events' = events + 1

Drop(s) ==
    /\ s \in DOMAIN sockets /\ sockets[s].up /\ Event
    /\ sockets' = [sockets EXCEPT ![s].up = FALSE, ![s].joined = {}, ![s].wire = << >>]
    /\ UNCHANGED <<app, requests, loader, server, ran>>

----------------------------------------------------------------------------
(* The backend.                                                            *)

\* A frame; "ended" says that a run is over.
Frame == [what |-> "ended", conv |-> 0, id |-> 0, dir |-> "out", op |-> None]

Tell(socks, c, frame) ==
    [s \in DOMAIN socks |->
        IF socks[s].up /\ c \in socks[s].joined
        THEN [socks[s] EXCEPT !.wire = Append(@, frame)] ELSE socks[s]]

\* A message is stored and told on the conversation's topic.
Store(c, dir) ==
    LET id == Len(server.log) + 1
    IN  /\ server' = [server EXCEPT !.log = Append(@, [conv |-> c, dir |-> dir])]
        /\ sockets' = Tell(sockets, c, [Frame EXCEPT !.what = "message", !.conv = c,
                                                        !.id = id, !.dir = dir])

Reply ==
    /\ Event
    /\ \E c \in Convs(server) : Store(c, "out")
    /\ UNCHANGED <<app, requests, loader, ran>>

\* A run parks on an operation.
Park ==
    /\ server.waits.op = None /\ Event
    /\ \E c \in Convs(server), op \in Ops \ server.parked :
          /\ server' = [server EXCEPT !.parked = @ \cup {op},
                                     !.waits = [conv |-> c, op |-> op]]
          /\ sockets' = Tell(sockets, c, [Frame EXCEPT !.what = "op", !.op = op])
    /\ UNCHANGED <<app, requests, loader, ran>>

\* The run goes on, after a result or the sweep, and is over.
Resume ==
    /\ server' = [server EXCEPT !.waits.op = None]
    /\ sockets' = Tell(sockets, server.waits.conv, Frame)

Sweep ==
    /\ server.waits.op # None /\ Resume
    /\ UNCHANGED <<app, requests, loader, ran, events>>

\* What a request does, and what it answers.
Does(r) ==
    CASE r.what = "create" -> Store(Cardinality(Convs(server)) + 1, "in")
      [] r.what = "send"   -> Store(r.conv, "in")
      [] r.what = "read" -> /\ server' = [server EXCEPT !.read[r.conv] = Len(server.log)]
                            /\ UNCHANGED sockets
      [] r.what = "result" ->
            IF server.waits = [conv |-> r.conv, op |-> r.op] THEN Resume
            ELSE UNCHANGED <<server, sockets>>
      [] r.what \notin {"create", "send", "read", "result"} -> UNCHANGED <<server, sockets>>

Payload(r) ==
    CASE r.what \in {"boot", "convs", "opened"} -> [Nothing EXCEPT !.list = Summaries(server)]
      [] r.what \in {"list", "created", "older"} ->
            LET page == MessagePage(server, r.conv, IF r.what = "older" THEN r.arg ELSE 0)
            IN  [Nothing EXCEPT !.items = page.items, !.next = page.next]
      [] r.what = "create"  -> [Nothing EXCEPT !.id = Cardinality(Convs(server)) + 1]
      [] r.what = "send"    -> [Nothing EXCEPT !.id = Len(server.log) + 1]
      [] r.what = "pending" -> [Nothing EXCEPT !.op =
            IF server.waits.conv = r.conv THEN server.waits.op ELSE None]
      [] r.what = "read" -> Nothing

Serve ==
    \E r \in requests :
        /\ r.stage = "sent" /\ Does(r)
        /\ requests' = (requests \ {r}) \cup
              IF r.what = "result" THEN {}    \* nothing follows
              ELSE {[r EXCEPT !.stage = "served", !.got = Payload(r)]}
        /\ UNCHANGED <<app, loader, ran, events>>

\* A request, or its answer, is lost.
Fail ==
    \E r \in requests :
        /\ r.stage # "failed" /\ Event
        /\ requests' = (requests \ {r}) \cup
              IF r.what = "result" THEN {}
              ELSE {[r EXCEPT !.stage = "failed", !.got = Nothing]}
        /\ UNCHANGED <<app, loader, sockets, server, ran>>

----------------------------------------------------------------------------
(* The visitor, the loader, the page.                                      *)

\* The visitor may act whatever is still awaited.
Act(w) == Event /\ Become(w) /\ UNCHANGED server

\* OPEN: the panel is opened, or was open and is asked for again.
PanelOpens ==
    Act(Ask([World EXCEPT !.app.panel = TRUE], IF app.panel THEN "convs" ELSE "opened", 0, 0))

PanelCloses == app.panel /\ Act([World EXCEPT !.app.panel = FALSE])

OnScreen(name) == app.panel /\ app.screen.name = name

TryAgain == OnScreen("error") /\ Act(Ask(World, "boot", 0, 0))
GoHome == OnScreen("thread") /\ Act(Ask([World EXCEPT !.app.screen = HomeScreen], "convs", 0, 0))
Opens == OnScreen("home") /\ \E i \in DOMAIN app.list : Act(OpenConversation(World, app.list[i].conv))
StartsNew == OnScreen("home") /\ Act(StartNew(World))
Sends == OnScreen("thread") /\ Act(Send(World, events + 1))
Retries == /\ OnScreen("thread")
           /\ \E i \in DOMAIN app.shown :
                 app.shown[i].kind = "failed" /\ Act(Retry(World, app.shown[i], events + 1))
LoadsOlder == /\ OnScreen("thread") /\ app.screen.conv # 0 /\ app.cursor # 0
              /\ Act(Ask(World, "older", app.screen.conv, app.cursor))
Decides == OnScreen("thread") /\ app.card # None /\ (Act(Confirm(World)) \/ Act(Decline(World)))

\* The loader has carried out an operation.
LoaderAnswers ==
    /\ \E op \in Ops : loader.busy[op] > 0
                       /\ Become(OnResult([World EXCEPT !.loader.busy[op] = @ - 1], op))
    /\ UNCHANGED <<server, events>>

\* The staleness timer of the "working on the page" line.
TimerFires ==
    /\ app.timer /\ app' = [app EXCEPT !.working = FALSE, !.timer = FALSE]
    /\ UNCHANGED <<requests, loader, sockets, server, ran, events>>

\* The page is reloaded.
FirstBoot == [n |-> 1, what |-> "boot", conv |-> 0, arg |-> 0, op |-> None,
              got |-> Nothing, stage |-> "sent"]
FreshLoader == [badge |-> 0, busy |-> [op \in Ops |-> 0]]
Reload ==
    /\ Event
    /\ app' = FreshApp /\ requests' = {FirstBoot} /\ loader' = FreshLoader
    /\ sockets' = << >>
    /\ UNCHANGED <<server, ran>>

----------------------------------------------------------------------------
Init ==
    /\ app = FreshApp /\ requests = {FirstBoot} /\ loader = FreshLoader
    /\ sockets = << >>
    /\ server = [log   |-> [i \in DOMAIN Start |-> [conv |-> i, dir |-> Start[i]]],
                 read  |-> [c \in 1..(Len(Start) + NumEvents) |-> 0],
                 parked |-> {},    \* the operations there were
                 waits |-> [conv |-> 1, op |-> None]]    \* the one that is waited for
    /\ ran = [op \in Ops |-> 0]
    /\ events = 0

Next ==
    \/ PanelOpens \/ PanelCloses \/ TryAgain \/ GoHome \/ Opens \/ StartsNew
    \/ Sends \/ Retries \/ LoadsOlder \/ Decides
    \/ Answer \/ Serve \/ Fail
    \/ \E s \in 1..(NumEvents + 1) : Deliver(s) \/ Connect(s) \/ Join(s) \/ Drop(s)
    \/ Reply \/ Park \/ Sweep \/ LoaderAnswers \/ TimerFires \/ Reload

Spec == Init /\ [][Next]_vars

----------------------------------------------------------------------------
(* Correctness.                                                            *)

\* The shape of the state: what the controller refers to has been stored, and
\* the badge counts no more conversations than are listed.
TypeOK ==
    /\ app.screen.name \in {"loading", "home", "thread", "error"}
    /\ app.screen.conv \in {0} \cup Convs(server)
    /\ \A i \in DOMAIN app.list : app.list[i].conv \in Convs(server)
    /\ \A i \in DOMAIN app.shown : app.shown[i].kind \in {"stored", "pending", "failed"}
    /\ app.seen \subseteq DOMAIN server.log /\ app.cursor \in 0..Len(server.log)
    /\ app.ops \subseteq Ops /\ app.card \in {None} \cup Ops
    /\ \A r \in requests : r.stage \in {"sent", "served", "failed"}
    /\ loader.badge \in 0..Len(app.list) /\ server.waits.op \in {None} \cup Ops

\* A thread shows no message twice and none of another conversation, which belongs
\* to its own row: "A reply landed in a conversation we're not viewing → mark unread
\* + refresh" (controller.ts:982).
ThreadShows ==
    \A i \in DOMAIN app.shown : app.shown[i].kind = "stored" =>
        /\ \A j \in DOMAIN app.shown : app.shown[i] = app.shown[j] => i = j
        /\ app.screen.name = "thread" => server.log[app.shown[i].id].conv = app.screen.conv

\* … and seenIds knows what is shown.
ThreadSound ==
    /\ ThreadShows
    /\ \A i \in DOMAIN app.shown : app.shown[i].kind = "stored" => app.shown[i].id \in app.seen

\* The answer is meant for another thread than the one that is on the screen.
Late(r) ==
    /\ r.stage = "served"
    /\ \/ r.what \in {"list", "older", "created", "send"} /\ app.screen # Thread(r.conv)
       \/ r.what = "create" /\ app.screen # Thread(0)

\* Whatever order the socket, the pages, the answers to the visitor's own texts
\* and the visitor's turning from thread to thread come in, nothing puts a message
\* into a thread twice, or a message of another one, but an answer that comes
\* when its own thread has been left (controller.ts:671, 688, 718-731, 738).
OnlyLateAnswersMixUp ==
    [][ThreadSound /\ ~ThreadSound' => \E r \in requests \ requests' : Late(r)]_vars

\* The loader never works on one operation twice at once.
OneAtATime == \A op \in Ops : loader.busy[op] <= 1

\* The launcher's badge counts what the conversation list flags.
BadgeCounts == sockets # << >> => loader.badge = UnreadCount(app.list)

\* "a client action executed twice is a real double side effect" (controller.ts:439-440).
ExecutedOnce == \A op \in Ops : ran[op] <= 1

\* Whatever waits is covered by what ends it, also when it fails: "loading" by a
\* request for a page (controller.ts:689, 694); a pending message by a request
\* that stores it or shows it as failed (controller.ts:758-764); the "working
\* on the page" line by its timer (controller.ts:534).
WaitsAreCovered ==
    /\ app.loading => \E r \in requests : r.what = "list"
    /\ \A i \in DOMAIN app.shown : app.shown[i].kind = "pending" =>
          \E r \in requests : r.what \in {"create", "created", "send"} /\ r.arg = app.shown[i].id
    /\ app.working => app.timer
=============================================================================
