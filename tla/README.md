# Stept: specifications of the concurrent core

TLA+ specifications of the parts of Stept whose correctness depends on what
happens at the same time: the AI-agent run engine, the gateway through which tools
drive a browser, the browser extension at its other end, the tour player and the
messenger of the visitor widget, and the session the dashboard's tabs share. TLC
checks them on small instances; TLAPS proves the theorems of the `..._proofs.tla` modules
for every value of the constants, under the assumptions they state. `PROJECT.json` maps
each definition to the lines it stands for.

Source paths are relative to `src/backend/app/` unless they start with `src/`.

## 1. The system

Stept is a customer-messaging product: a FastAPI backend on PostgreSQL, a Redis
(or in-process) queue and pub/sub, a React dashboard, a visitor widget, and a
Chrome extension. The backend runs several uvicorn worker processes; queued
tasks run next to the requests as asyncio tasks, or in an `arq` process of up to ten
jobs at once. Every one of them works on the same rows. Agent runs are executed one
after another within each process: `tasks.py:28-46` holds a lock of the event loop around
the whole execution and its commit.

| Component | State it keeps | Operations | How it meets the others |
|---|---|---|---|
| **Agent run engine** `agents/engine.py`, `agents/tasks.py`, `core/queue.py` | `agent_runs`, `agent_steps`, `approval_requests`; queued deliveries | execute a run, merge or chain follow-ups, park on an approval or on the page, decide, answer, time out, reap | called from the event handlers of conversations *inside their transaction*; writes messages and status back through the conversation service |
| **Remote browser drive** `services/remote_drive.py`, `realtime/extension_ws.py` | per-process registry of sockets, roster of workers, discovery rounds, pending futures, session owner | register, supersede, unregister, discover, dispatch, answer, claim | MCP tools call it on any worker; workers talk over pub/sub |
| Conversation lifecycle `services/conversations.py` | conversation row (status, trackers, assignee), messages | ingest, add message, update status, assign, resolve idle | emits events that the engine, automation, SLA and webhooks handle in the same transaction |
| Campaigns `services/campaigns.py` | campaign status, recipients, deliveries | schedule, dispatch in batches, cancel, retry | queue tasks, e-mail channel |
| Integration tokens `integrations/tokens.py` | OAuth tokens, expiry | refresh under a lock | every tool that calls an external service |
| Webhooks `services/webhooks.py` | endpoints, deliveries, failure counters | deliver, back off, disable | queue tasks fed by events |
| Knowledge `rag/tasks.py`, `services/knowledge.py` | sources, documents, chunks, sync status | sync, ingest, delete | queue tasks; retrieval reads chunks |
| SLA timers `services/slas.py` | applied policies, due times | start, satisfy, breach scan | conversation events, a scheduled job |
| MCP approvals `services/mcp_approvals.py` | one-time approvals of external agents | request, decide, consume | agent endpoint |
| Automation and macros `automation/engine.py` | rules | match, act | conversation events |
| Realtime fan-out `realtime/manager.py`, `core/pubsub.py` | open sockets | broadcast | every service |
| Channels, contacts, accounts, billing, reports, notifications, tours, surveys | records | request-at-a-time edits | HTTP API |
| **Widget: tours** `src/widget/src/tour-player.ts`, `loader.ts` | the step on the screen; the tour's record and the seen-marks in `localStorage`, shared by all tabs of the site | start, next, back, skip, dismiss, navigate, perform an action, wait, resume, offer | reports to the backend, which may resume a parked run; loads and unloads with the customer's pages |
| **Widget: messenger** `src/widget/src/app/controller.ts`, `ws.ts` | conversation list, the thread on the screen, unread flags, page operations and their card | boot, open, send, retry, load older, confirm, decline | HTTP and one socket to the backend; the loader outside its iframe carries out what agents ask for |
| **Extension: connection** `src/extension/src/entrypoints/background.ts`, `remote/run-client.ts` | session and switch in `chrome.storage`, the gateway client, the keepalive alarm | sign in, adopt a pasted token, sign out, toggle, connect, reconnect, wake up | the drive's socket; Chrome tears its worker down at will |
| **Extension: remote drive** `remote/drive-controller.ts` | the driven tab, the tabs behind it, the queue of operations; what the panel shows, persisted | open, act, close, follow a popup, reattach, stop | operations of the drive; the user's own tabs around it |
| Extension: recording, guides, local drive | recorded events, compiled steps | record, compile, save, play | HTTP |
| **Dashboard: session** `src/frontend/src/api/client.ts`, `services/auth.py` | access token in memory, refresh cookie shared by the tabs, chain of refresh tokens | refresh in turns, rotate, hand on, renew, sign out | a Web Lock and a BroadcastChannel between tabs |
| Dashboard: pages; SDKs, sites | user interface | | HTTP, WebSocket |

### What is hard in it

* **Transactions at READ COMMITTED.** SQLAlchemy reads rows into its identity map
  and later writes the columns that changed. An UPDATE waits for the row lock but
  what it writes was decided on what was read before. Every check-then-write in the
  engine is exposed to that.
* **One long transaction per execution.** `execute_agent_run_task` commits once, after
  the model, the tools and the reply. The claim (`status = "running"`, the lease) is
  flushed, so it locks the row, but no other transaction ever sees it. The branches that
  look for a committed `running` row (the expired lease in `_claim`, `crashed` in the
  reaper) can therefore never be taken.
* **Deliveries before commits.** Runs are enqueued inside the transaction that
  creates them; deliveries are repeated, lost, and reordered.
* **Two lock orders.** A message takes the conversation row and then the runs it
  merges; an execution takes its run and then the conversation. PostgreSQL breaks the
  deadlock by aborting one of them, and a message handler's exception is swallowed by
  the event bus while the transaction under it is already dead.
* **Effects outside the database.** An approved tool call is not undone by a rollback.
* **Event loops without a shared memory.** The drive's registry, rounds and futures
  are per process; between two awaits anything may have changed, including which
  worker holds the browser's socket.
* **Browsers that forget.** A page load or a worker's teardown loses everything but
  storage, and may come between any two steps. What is stored must be enough to go on,
  and must not bring back what is over.
* **Answers that come late.** The controllers of the widget, the extension and the
  dashboard go on after an `await` with whatever is on the screen, in the session or in
  the cookie jar by then. The same message arrives by the socket, by a page and by
  the answer of its own send, in any order.

The hazards are listed line by line in `PROJECT.json`, each with the properties that
would catch it, or the reason why none does.

## 2. Modules

| Module | What it is |
|---|---|
| `AgentRuns` | one conversation: rows, locks, deliveries, the transactions of executions, messages, people and jobs; its properties and mutants |
| `MCAgentRuns` | the bound of the liveness run |
| `AgentRuns_proofs` | type correctness, at most one queued run, approval before effect; one reply per message, merged runs never replied, one run in flight, replies in order (one process) |
| `RemoteCall` | what the drive promises a caller, without workers or sockets |
| `RemoteDrive` | one workspace: workers, sockets, bus, calls; its properties and mutants; its refinement of `RemoteCall` |
| `RemoteDrive_proofs` | type correctness, the newest socket keeps its slot |
| `RemoteCall_proofs` | one write per operation, the gateway implements `RemoteCall` |
| `MCRemoteDrive` | what the tools ask for in each run, symmetry |
| `ExtensionLink` | one browser's worker: session, gateway clients, alarm, teardowns |
| `ExtensionLink_proofs` | type correctness, one client, never without an alarm |
| `ExtensionDrive` | one browser: the session in which a client drives a tab |
| `ExtensionDrive_proofs` | type correctness, the user's tabs are left alone, the session is found again |
| `WidgetTours` | the documents of one site: tour player, loader, storage |
| `WidgetTours_proofs` | type correctness, step by step, one overlay, the position is stored, nothing comes back |
| `MCWidgetTours` | the tours of the instance |
| `WidgetChat` | one visitor: the messenger's iframe, the loader, sockets, and the backend behind them |
| `WidgetChat_proofs` | type correctness, only an answer that comes late mixes threads up, one operation at a time, the badge, nothing waits for nothing |
| `MCWidgetChat` | the conversations at the start |
| `DashboardSession` | the tabs of one browser, their cookie and the user's refresh tokens |
| `MCDashboardSession` | the bound of the run |
| `DashboardSession_proofs` | type correctness, the shared cookie stays good, the minute of grace is enough |

`RemoteDrive` and `ExtensionDrive` meet at an operation on the socket (`Ack` and
`Arrive`), `AgentRuns`, `WidgetChat` and `WidgetTours` at a page operation and its result
(`PauseForClient`, `SubmitResult`, `TourEnded` there; `Park`, `Resume`, `OnOp`, `Report`
here). Each module has a small model of the other side; they are not composed into one,
whose states would be the product of machines that share one message.

Operators commented "Mutant" replace the definition they stand before in a mutated
copy of the module; each breaks the property it is listed with, and none is used by
the specification itself.

### 2.1 AgentRuns

Run `m` is the run that message `m` triggers, and messages are numbered in the order
in which they get the conversation row. A transaction is a record in `work` (one per
member of `Workers`, a process that executes runs: within one, the lock of `tasks.py:28-46` is
held from the pick-up to the commit, so that what else is delivered there waits), `post` (one per visitor message) or `call` (decisions, page results, tour
telemetry, the sweep). `run`, `approval` and `conv` hold committed rows only; what
was read and flushed is in the transaction's record until its commit. `lockRun` and
`lockConv` are the row locks, which a transaction takes at its first flush and keeps
to the end.

| Step | Code |
|---|---|
| `PickupRun`, `PickupNothing` | `_task_lock` and the preamble of `execute_run`: status and lease checks, the in-order guard `_earlier_active_run`, the conversation that left the AI queue |
| `Claim` | `_claim`, flushed: waits for the row |
| `ResumeWithAnswer`, `RunApproved`, `ResumeNotReady` | `_apply_client_result`, `_apply_pending_decision`, and their exceptions, which fail the attempt |
| `ToolCall`, `PauseForApproval`, `PauseForClient`, `FinalReply`, `Fallback`, `ProviderFails`, `ProviderRetryable` | one turn of the loop of `execute_run` and what follows it; the control tools (`agents/tools.py`) hand off, close or leave marks |
| `LockConversation` | the UPDATE of the conversation row by a reply, a notice or a status change; `_chain_next_queued` after it |
| `Commit`, `RollBack`, `Crash` | the end of the session scope; a failed attempt comes back until `MAX_ATTEMPTS` |
| `PostBegin`, `PostMessage`, `MergeAndQueue`, `CommitPost` | `ingest_inbound` / `add_message` and `_on_message_created` in one transaction |
| `SetStatus` | `update_status` by a teammate |
| `Decide`, `SubmitResult`, `TourStarted`, `TourEnded`, `Sweep`, then `Write`, `MirrorTour`, `CommitCall` | `decide_approval`, `expire_overdue`, `submit_client_result`, `resolve_guide_wait`, `sweep_stale_client_waits`: read, flush and enqueue, commit |
| `Reap` | `reap_stalled_runs` |
| `BreakDeadlock` | PostgreSQL aborts one of two transactions that wait for each other |

Abstractions. The queue is a set of deliveries `<<run, attempt>>`: two deliveries of
the same attempt at once would be the same to the engine as one after the other, and a
second execution of the same run is reached through the reaper and the chain. Times are left out: a lease, a sweep or an expiry may come at any moment, and so
may the answer it races. The preamble's reads are one step; nothing between them is
written by the same transaction. What a message or tool *says* is left out; what it
does to rows is not. The agent stays live and its limits are constants. The audit,
usage and trace rows appear as the counters of a run (`ops`, `calls`, `replies`).

### 2.2 RemoteDrive

A worker is an event loop, and what it does between two awaits is one step. The bus is
two FIFO queues per worker, the `drive:ctrl` topic and its own inbox, drained by two
pumps. A socket number stands for the roster entry it is announced with (worker,
device slot, `connected_at`); "last seen" is left open, so that routing by recency may
pick any browser. `live[d]` is the browser's own view: it uses one socket, and a former
one is dead although its worker may not know.

| Step | Code |
|---|---|
| `Start`, `Bootstrapped` | `_start`, the bootstrap window and its shortening |
| `Connect`, `Leave`, `Register`, `Announce`, `Disconnect` | the extension opens a socket; it goes, or its connection breaks, before the worker knows; `register` up to the close it awaits, and from there; the endpoint's `finally` |
| `Call`, `Conclude` with `Route` | `_control`: `_discover`, `_resolve_target`, the local send or the dispatch |
| `Finish`, `Timeout` | the future resolves and `exec_op` claims or releases the session; the timeout, which wins even against an answer that has just come |
| `Ack` | a frame of the browser: `handle_message`, `_on_ack` |
| `OnHello` ... `OnReply` | `_on_frame` and its handlers, each with the roster refresh |

Abstractions. Heartbeats, the expiry of roster entries and the 6-hour life of a claim
are left out: workers in the model neither stop nor forget. The bus loses nothing.
A write to a socket and what follows from its failure are one step (`Sent`, `NotSent`):
`_send_local` keeps nothing over its await but the peer it writes to, and
`unregister` compares that with the slot, so the step can be put where the write ends.
A write fails only on a connection that is broken, which is one the browser has left.
Clocks of the workers agree (they share a host) and no two sockets of a device register
in the same microsecond. `RemoteCall` is the gateway with one worker that does everything
at once: an operation is written at most once, the caller hears once how it ended, and
"gone" (the browser is not connected, ask again) is said only of an operation no browser will
run. `CallsAreKept` maps an operation's place and what its browser did with it to that. With `Prompt = TRUE` the bus answers within the discovery
windows; with `FALSE` a round may end at any time.

### 2.3 ExtensionLink

The worker is one event loop; a handler that awaits is a record in `flows` that says
where it goes on, and a call of `startRunClient` that awaits the device id is in `starts`.
`clients` are the gateway clients that were not stopped; `disk` and `alarm` survive a
teardown, nothing else does.

| Step | Code |
|---|---|
| `SignIn`, `Adopt`, `SignOut`, `SetRemoteControl`, `PanelRevives` | messages of the panel: sign-in and the choice of a workspace, a pasted token, sign-out, the switch, opening the panel |
| `Continue` with `AdoptChecked`, `Save`, `Apply`, `Reapply`, `Starts`, `Answered`, `ClearSession`, `TearDownRemote` | `adoptToken`, `validateSession`, `saveSession`, `applySession`, `signOut`, and `guarded`, which signs out on a 401 |
| `DeviceId` | `startRunClient` after its await: the epoch it compares, the client it stops and installs |
| `Tick`, `AlarmRevives`, `Restore` | the keepalive alarm and `keepaliveNeeded`; a start of the worker and `restore` |
| `Open`, `Lose`, `OnClose`, `Retry` | `RunClient` |
| `Teardown`, `Revoke` | Chrome ends the worker; the server refuses a token from now on |

Abstractions. Tokens are model values; requests for tours are one kind of handler,
since all they do to the session is to end it. The user makes one attempt to sign in at a time, and
storing and clearing a session do not overlap (`MaySignIn`): the panel disables its form.

### 2.4 ExtensionDrive

Tabs are numbered and carry who opened them; a `controller` is a
`RemoteDriveController` that still has something to do, with its queue; `journal` is what
was last persisted.

| Step | Code |
|---|---|
| `Arrive`, `Settle` | `handleRemoteOp` before and after the operation |
| `Open`, `MakeTab`, `Attach`, `Act`, `Close` | an operation of the queue: reattach to a tab or make one, adopt a popup, revert from a closed one, close. `Act` is the moment at which an operation follows the page: before it does its work (navigate, snapshot, key: 198, 207, 247) or after (act: 217), and any number of events may come before it; or it follows nothing (scroll, wait, a failure) |
| `TabOpens`, `TabCloses` | `onTabCreated` and what the controller finds at its next operation |
| `StopRemote`, `LocalStart`, `LocalStep` | the stop button; a tour the panel drives in the same browser |
| `Teardown`, `Restore` | the worker ends; `restore` |

Abstractions. What an operation does inside the page is left out, and so is CDP. With
`Overlaps = FALSE` an operation comes when the one before was answered, as tools do.

### 2.5 WidgetTours

A document runs one thread. Handlers are functions from what a tab can see (its own
state, the storage, what was reported) to what they leave, so that a handler which
calls another is a composition, as in the code.

| Step | Code |
|---|---|
| `NextStep`, `Back`, `Dismiss`, `SkipStep` | the card's buttons, `goto`, `finish`, `completeFrom`, `failStep` |
| `Resolve` with `Continue` | a promise of the step: its element, `runDrivenAction`, `runWaitStep`, `waitForUrl`; a promise of an earlier step is `Outdated` |
| `Ready` (again after each boot of the application in the iframe), `AnswerResume`, `AnswerOffers`, `AnswerStart` | the iframe's `ready`, `bootstrapExperiences`, `checkResume`, `applyExperiences`, `checkPreview` |
| `StartTour`, `PlayGuide`, `TakePill`, `ClosePill`, `Visitor` | the host page's API, an AI guide, the pills, survey and checklist |
| `SpaNavigate`, `Leave`, `Load`, `Boot` | addresses, unloads, loads, `shutdown` and `boot` |
| `Expire` | a record is a day old |

Until `Ready` brings the workspace's `Policy`, offers are made under "ask"; a tour in `Passive`
is a banner or an announcement, which is played and not asked for. The host may start tours and
change the address before the iframe is ready, as in the code. `told` is what the reports say
of a tour, and what became of its record without a report: "forgotten", "expired", or
"unfetched" when the fetch of `checkResume` failed.

Abstractions. Pages are told apart as `isDifferentPage` does; a step is one of the
`Kinds`. Of the promises of earlier steps only the last is kept. A day passes only
while no tour is on a screen. The panel, `lastExperienceUrl`, campaigns, redirecting
addresses and `beforeunload` are left out.

### 2.6 WidgetChat

Again functions, of a world that is the controller's state, its requests under way, the
loader and its sockets. A request is in stage `sent`, `served` or `failed`; the backend
may store a message and the answer be lost.

| Step | Code |
|---|---|
| `PanelOpens`, `PanelCloses`, `TryAgain`, `GoHome`, `Opens`, `StartsNew` | `boot`, the panel, the conversation list |
| `Sends`, `Retries`, `LoadsOlder`, `Decides` | `send` with its three awaits, `retry`, `loadOlderMessages`, the confirm card |
| `Answer` | the rest of an `await`: `Booted`, `Refreshed`, `Created`, `Listed`, `MarkedRead`, `NotAnswered` |
| `Deliver`, `Connect`, `Join`, `Drop` | a frame of the socket, its connection, the server's subscription, its loss |
| `Serve`, `Fail`, `Reply`, `Park`, `Sweep` | the backend: endpoints of the widget, the agent's reply, a page operation, its timeout |
| `LoaderAnswers`, `TimerFires`, `Reload` | `runCopilotOp` is done; the timer of the "working" line; a page load |

Abstractions. Texts are numbers. Identity, help centre, search, ratings, typing,
campaigns, page context and locale are left out. The visitor may act at any time, whatever
is still awaited (`Act`): the user interface disables nothing while a thread loads.

### 2.7 DashboardSession

| Step | Code |
|---|---|
| `TakeTurn`, `RefreshDone` | `refreshSession` inside the lock (or without one, `Locks = FALSE`), `doRefresh` and its answer |
| `Read`, `Write`, `Commit` | `rotate_refresh_token` up to the user's row, its flush and the answer, the exit of `get_db` |
| `ServeLogout`, `LogoutDone` | `revoke_refresh_token`; the menu and `announceLogout` |
| `Hear` | the listener of the channel |
| `TimerFires`, `BecomesVisible`, `Refused` | the three that ask for a refresh |
| `Load`, `Close`, `LogsOut`, `Lose`, `Store`, `Minute` | the user, the network, the browser's cookie jar, time |

The Set-Cookie of an answer is taken before the page hears of it; the answers of a page that is
gone are lost, its requests are still served. FastAPI runs the exit of a dependency
after the response in the locked version and before it in others that
`pyproject.toml` allows, so a commit may come before or after its answer. Time is counted
in minutes and only where the code compares it: 180, 120 and 60 seconds before the
access token expires, and the 60 seconds of grace. Signing in again is left out.

## 3. Runs

| Run | Instance | Shows |
|---|---|---|
| `runs_safety` | 2 messages, 1 operation per run, 1 execution and 1 request or job at a time, 2 attempts, 1 crash or provider error, a teammate who takes over; 3.2 million states | one reply per message, replies in order, one run in flight, merged runs never replied, at most one queued run, no effect without approval |
| `runs_live` | 1 message, 1 operation, 2 faults, a teammate who snoozes; or 2 messages and 1 fault (`OneMatter`); fair; 40 thousand states | every queued run at the head of its thread is served, every message is stored or refused, a page operation never stays unanswered |
| `drive_home` | 2 workers, 1 browser, 2 connections, 1 call, fair; 700 thousand states | one write per operation, the newest socket keeps its slot, an undeliverable call is told so, the registry settles, and the gateway implements `RemoteCall` |
| `drive_session` | 2 workers, 1 connection, 2 calls; 570 thousand states | a worker that routes by session owner knows the newest claim |
| `ext_link` | 2 accounts, 4 acts of the user, 2 faults, fair; 510 thousand states | one gateway client at a time; a signed-in browser is never without an alarm, and comes back online |
| `ext_session` | 4 tabs, 4 operations, 4 events, fair; 220 thousand states | the user's own tabs are never driven, the session's tab is found again after any teardowns, every operation is answered |
| `tours` | 1 document, 2 pages, 3 tours (one crosses pages, one drives, one is a banner), 2 moves, fair; 480 thousand states | the position is stored, but for a failing `checkResume`; nothing over is brought back, steps follow one another, one overlay, a tour played for the first time goes on after the page it left for has loaded |
| `tours_again` | 1 tour, started more than once | *violation*: one that was seen is thrown away by the page it went to |
| `chat` | 2 conversations, pages of one message, 4 events, 3 kinds of operation; 3.6 million states | what gets into a thread twice or from another comes with an answer whose own thread was left; no operation twice at once, the badge counts what the list flags, nothing waits for what will not come |
| `chat_late` | the same | *violation*: the page of a thread that was left is put under another |
| `session` | 2 tabs with Web Locks, the last 3 minutes of a token, 3 events (`EventsOrMinutes`), fair; 320 thousand states | the cookie stays good and theft detection silent, the session gate opens |
| `session_renewal` | the same, nobody there | *violation*: the proactive renewal never happens |

Why the bounds are enough for what they show. Merging, chaining and the in-order guard
each relate a run to one other run, so two messages exercise them; `runs_live` looks at
one matter at a time: what can happen to one message with two faults, or to two messages
with one and no operations. Its constraint only leaves behaviours out: a step it cuts off is still
enabled, so no behaviour that it leaves ends at the bound and counts as fair. One operation per
run is one park and one resume, and the second attempt is the first that can find
what the failed one left. One fault is needed to lose a delivery or to roll an
execution back, a second to do so again after the recovery. In the drive a device can
be in two places with two connections, and a claim needs one call to be made and
another to be routed by it. `OwnerKnown` has also been checked once with two
connections (7.7 million states), which takes too long to keep. It is a property of **two**
workers, and fails with three: of two workers that start together, one may hear the other,
call and claim the session before a third, which is up, has taken the hello of either; the
third then routes to the browser it holds itself, since it knows of nobody to ask. In `ext_link` four acts are a
sign-in, a pasted token, a sign-out and a toggle in any order, and the second fault comes during the
recovery from the first. Four tabs are the user's, the driven one, its popup and the
popup's. A tour that crosses pages, one that drives and a banner have every kind of step between
them, and two moves are one load inside another, or a load and a repeated `ready`. In `chat` four events are
enough for a send, a reply, a lost socket and a reload; `NumOpen` keeps the visitor from
starting a fifth thing while two answers are missing. In `session` a tab that loads or reloads comes to the gate, and
two more events are a holder of the lock who is closed, reloaded, signed out or left without an
answer while it waits, and another after that. The minutes pass the margin, the expiry and the end
of the grace; `EventsOrMinutes` lets them pass freely after one event, one pass after two and none after three.
No fair step changes events or minutes, so the constraint cuts off none. Beyond these
bounds the runs say nothing; the theorems of section 5 do.

`OneReply`, `OneInFlight`, `RepliesInOrder` and `MergedNeverReplied` are checked with
**one** process that executes runs, and hold only there. Within a process the lock of
`tasks.py:28-46` executes one run at a time, whatever the queue starts at once; that is what a
single `arq` worker gives, which is what `src/deploy/docker-compose.prod.yml` ships, and the in-process
queue of a single uvicorn worker. Between processes nothing takes the lock's place: with
several uvicorn workers and no Redis, each with a queue of its own, or more than one `arq` worker,
two deliveries of one run (the reaper makes a second when a run takes longer than
`QUEUED_STALL_SECONDS`) execute it at once. With `Workers = {w1, w2}` TLC refutes all four
without any fault. `TypeOK`, `AtMostOneQueued` and
`EffectNeedsApproval` do not depend on it; they are proved for any number.

What else the runs assume, and what fails without it: `ext_session` has `Overlaps = FALSE` (with `TRUE` an
operation under way when the session is stopped breaks `Recoverable`); `tours` has one tab (with two,
`NeverResurrected` is violated); `session` has Web Locks (without, two rotations may be answered in
either order, and the cookie may be one that was replaced).

`CHECK_DEADLOCK FALSE` is set throughout: a thread with all its messages answered, or a
gateway whose bounded calls and connections are used up, has nothing left to do.

## 4. Fairness

`AgentRuns.Fairness`: executions, messages, requests and jobs go on (`WorkerStep`, `PostStep`,
`CallStep`). Each transaction has one next step at a time; where that waits for a row
lock it is granted to whoever waits while it is given back again and again, since
PostgreSQL queues lock requests, hence strong fairness. A delivery that is there again
and again is taken, since the queue is first in first out (strong fairness of
`PickupRun` per run). The sweep and the reaper are scheduled jobs, and the sweep waits for a row like
the others (strong); deadlock detection
always ends. Nothing is assumed of visitors, teammates, approvers, pages, model
providers or crashes. Overdue approvals expire only when somebody lists the approvals
(`api/v1/approvals.py:55`), so no claim is made that a run parked on one goes on.

`RemoteDrive.Fairness`: workers start, register what connects, drain their topics, and
notice in the end that a socket the browser has left is dead. Nothing is assumed of
browsers and callers, and not even that timeouts fire: `GoneIsTold` holds without.

`ExtensionLink.Fairness`: promises settle, alarms and timers fire, the gateway answers a
connection attempt; among overlapping starts the latest is not passed over for ever.
Nothing is assumed of the user, of Chrome's teardowns or of faults, which are bounded.
`ExtensionDrive.FairSpec`: operations go on, tabs that were asked for open.
`WidgetTours.Fairness`: a page that was asked for loads, the iframe gets ready once per document, the request of
`checkResume` is answered. Nothing is assumed of visitors. `DashboardSession.Fairness`: the
backend serves, the browser stores, tabs run, and a tab that asks for the lock again and
again while it is free gets it, since Web Locks are granted in order (strong fairness of
`TakeTurn`); nobody needs to look at a tab and no timer needs to fire. `WidgetChat` has no
fairness: what waits is shown to be covered by a request or a timer, in every state.

## 5. Theorems

`AgentRuns_proofs.tla`, for any number of executions and requests at once, and of
messages, operations, attempts and faults, from the two assumptions on the constants in
`AgentRuns.tla`:

* `TypeCorrect`: `Spec => []TypeOK`. The inductive invariant `TypeInv` adds which
  statuses a transaction can carry at which place (`WorkOK`, `CallOK`), since only
  that keeps "running" out of the committed rows. One lemma per action.
* `OneQueuedRun`: `Spec => []AtMostOneQueued`. `AtMostOneQueued` alone is not inductive:
  a message that is about to commit its run must have seen every queued one. `QueueInv`
  adds `PostLock` (a message between its first flush and its end holds the conversation
  row) and `MergeSeesQueued` (whatever is queued now is among the runs it merges):
  nothing but a message makes a run queued, the row keeps a second message out, and an
  execution only ever takes runs out of the queue.
* `ApprovedBeforeRun`: `Spec => EffectNeedsApproval`: only `RunApproved` touches the
  effects, and it reads the committed verdict in the same step.

`ExtensionLink_proofs.tla`, for any tokens and any number of acts and faults, from
`LinkAssumption`; one inductive invariant `IInv`, one lemma per action (`...Keeps`), and from it

* `TypeCorrect`: `Spec => []TypeOK`.
* `OneConnection`: `Spec => []OneClient`. A client is installed only by the latest start, in
  the step that stops the one before, and a torn-down worker has none (`DownIsDown`).
* `AlwaysReachable`: `Spec => []Reachable`. The alarm follows from what the worker holds, so
  the invariant says what each place of a handler knows: which handler can be where with which token (`FlowKinds`),
  that one attempt to sign in is under way at a time and none while a session is cleared
  (`OneEnters`, `Apart`), that until it is over nobody is signed in (`EntersAlone`), that a
  user who left is out everywhere (`OutIsOut`, `LeftIsOut`), that the session of one who is
  signed in is in the worker and on disk (`MemberHas`, `MemberStored`), as the switch is
  (`SwitchKept`), and that a worker that is up either has the alarm or is about to set it (`Woken`).

`DashboardSession_proofs.tla`, for any tabs, acts and minutes, from `SessionAssumption`:

* `TypeCorrect`: `Spec => []TypeOK`. Refresh tokens form chains that lead to later ones only.
* `TheCookieIsKept`: `Spec => []CookieKept`. A good cookie alone says nothing about the next
  rotation, so `IInv` adds: one refresh at most is under way, of the tab that holds the lock
  (`OneRefresh`); the backend rotates the very token in the jar, which is still live then
  (`RotatesTheJar`); and one write at most is not committed, the one that made the token the
  browser has or is about to get (`OneWrite`, `CurrentIsGood`), so that an early commit and
  one after the answer come to the same. All of it only while nobody signs out and no answer
  is lost (`Sound`), which no later step undoes.
* `GraceIsEnough`: `Spec => []GraceHolds`, with or without Web Locks and whichever answers are
  lost. `GraceInv` says that, while nobody signs out and no
  minute passes over an unfinished refresh (`InTime`), the cookie and whatever cookie a request has
  brought was replaced within the minute if at all (`Timely`, `Asked`), no chain was ended and
  what was replaced leads on to a committed token (`ChainsLive`), and each write that is not
  committed makes a token of its own (`Rotations`).

`AgentRuns_proofs.tla` also, for any number of messages, requests, operations and attempts, and
**one** process that executes runs (`OneWorker`, the hypothesis of these theorems): there the lock of
`tasks.py:28-46` has deliveries executed one after another. Section 3 says what fails with two.

* `RepliesOnce`, `MergedStaySilent`, `OneRunInFlight`, `RepliesKeepOrder`: `OneReply`,
  `MergedNeverReplied`, `OneInFlight` and `RepliesInOrder`, from `TurnInv`. It says that
  messages hold the conversation row in their order, so that a run appears when no later one
  has (`InOrder`); that a run replies in the step that ends it, holding the row a message holds
  to merge it, so that only one of the two happens to it (`RepliesOK`); and that once a run
  had its turn no earlier one is left that could have one, counting the run whose turn is not
  committed yet (`TurnsOK`).

`RemoteDrive_proofs.tla` and `RemoteCall_proofs.tla`, for any workers, browsers, sockets and
operations, whether or not the bus is prompt:

* `TypeCorrect`: `Spec => []TypeOK`. `TypeInv` adds what a frame on the bus may say (`MailOK`)
  and which sockets, operations and claims exist (`OpenedOK`, `AskedOK`, `ClaimsOK`).
* `NewestSocketStays`: `Spec => []NewestStays`. `SlotInv` adds that registrations are of the past and
  that only they give a socket its time (`BornOK`), and that an announcement that evicts
  speaks of a socket which has registered (`AnnouncedOK`): a socket that is the newest of its
  browser is therefore never the older one of the two.
* `WrittenToOne`: `Spec => []WrittenOnce`. `CallInv` says what a call's state, the sockets it was
  written to and the browser say of one another (`Own`); the same of a frame on the bus and its
  call: one to dispatch is not written yet, one that says "gone" never will be (`Fits`); and
  that a call which is yet to be written is on its way once, with no answer (`Once`).
* `GatewayKeepsItsPromise`: `Spec => CallsAreKept`, the refinement of
  `RemoteCall`. A `Call` maps to `Ask`; a `Conclude` to `Write`, to `Hear` or, when the
  operation is sent to another worker, to a stutter; there, `OnDispatch` maps to `Write`;
  `Finish` and `Timeout` to `Hear`, the browser's `Ack` to `Answer`, all else to a stutter.

`ExtensionDrive_proofs.tla`, for any number of tabs, operations and events:

* `TypeCorrect`; `UsersTabsAreLeft`: `Spec => []NeverTheUsersTab`. `TypeInv` says that no tab that a
  controller, its chain of openers, the hint, the panel or the journal names is the user's
  (`NotUsers`), and that a number is always left for the next controller (`Counted`).
* `SessionIsFound`: `Spec => []Recoverable`, **for `Overlaps = FALSE`** (operations one after
  another, as tools ask for them). `KeptInv` says that one controller at most is at work
  (`OneAtWork`), and that the session's tab is the controller's, with the journal its mirror, or
  the hint's, which is persisted as well (`Found`); with overlaps it fails.

`WidgetTours_proofs.tla`. A handler is a function of a *world* (a document, the storage, the
reports), so the proof follows the functions: one lemma says what each does, and a handler
is `Sound` when it takes a world to one where the document is in shape, the tour moved
as it may (`OneStep`), no overlay was added (`Modest`), and what the document, the storage and the
reports say of one another still fits, if it did (`StoryOK`, `Stored`). A shape worth naming is
`DocOK`: the tour that plays is the active one, it is at one of its steps, and whatever
promise still counts is of that step.

* `TypeCorrect`, `StepsFollow`, `OneOverlayAtATime`: `TypeOK`, `StepByStep` and `OneOverlay`,
  for any tours, pages and number of documents.
* `PositionIsKept`, `NothingComesBack`: `PositionKept` and `NothingToResurrect` for a site open
  in **one** document (`OneTab`). With two neither holds: one document ends, or writes over, the
  record of the tour that the other plays. `PositionKept` is about steps: each leaves the step on
  the screen in the storage, or is the end of a `checkResume` that took the record away, or
  comes after one and leaves the tour where it is. The invariant behind both (`StoryInv`) says that
  a live tour has its step stored or no record at all (`Stored`).

`WidgetChat_proofs.tla`, for any conversations at the start, pages of any length, operations and
number of events, from `ChatAssumption`. Here, too, a handler is a function, of what the iframe
reaches (`World`), so that there is one lemma per handler, and one per kind of step.

* `TypeCorrect`, `NotTwiceAtOnce`, `BadgeIsRight`, `NothingWaitsForNothing`: `TypeOK`, `OneAtATime`,
  `BadgeCounts` and `WaitsAreCovered`, from `ChatInv`. It says that every request, answer and frame
  speaks of what is stored (`Shape`), and that before the first boot there is no socket and
  nothing but a boot is answered (`Dark`); that what the loader works on is in `pendingOps` and
  what the card asks is not (`Once`); that the badge was pushed (`Counted`); and that whatever
  waits is covered, also between an answer and what its handler asks for next (`AnswerOK`).
* `LateAnswersAlone`: `Spec => OnlyLateAnswersMixUp`, with no hypothesis: the visitor may act
  whatever is awaited. A thread that is sound (`ThreadSound`: each message once, no other's, all
  in `seenIds`) becomes unsound only in the step in which an answer comes whose own thread is not on
  the screen (`Late`). What is mixed up may be put right again by the next page, so the
  invariant cannot ask for a sound thread: `ThreadInv` says of the items on the screen only
  that the visitor's own texts are distinct and have the number of an event that was (`View`, with
  `ok = FALSE`), and of the answers under way that each is of the thread that was asked for, a page with each
  message once (`AnswerFits`). One lemma per handler then carries `View` over the step twice: as it
  is, and with the messages counted (`ok = TRUE`) when its answer is `InTime`.

Only model-checked: all liveness (outside the prover's reach), and `OwnerKnown` of `RemoteDrive`,
which holds for two workers and a prompt bus only (section 3).

## 6. Where code and documentation disagree

Three runs keep a counterexample: `tours_again` (a tour that dies at its own cross-page step),
`chat_late` (a thread under which another's messages are shown) and `session_renewal` (the proactive renewal). They are described, with the lines they contradict,
under "findings" in `PROJECT.json`.

### Stated in the modules and refuted by TLC, without a run of their own

| Definition | What the code does |
|---|---|
| `AgentRuns.OneReply` with two processes | the claim of `execute_run` is not committed before the reply, so another process executes the run again (`agents/engine.py:920`), against "a duplicate delivery or a crash-retry no-ops" (`agents/tasks.py:3-5`) |
| `AgentRuns.MergeIsExclusive` | a message cancels a run that is executing |
| `AgentRuns.ResumedByOwnAnswer` | a second page answer overwrites the run's next operation (`agents/engine.py:1399`) |
| `AgentRuns.EffectOnce` | an approved tool runs again after a crash (`agents/engine.py:946`) |
| `AgentRuns.PageWaitEnds` | a run whose last delivery is lost stays parked |
| `RemoteDrive.AnswerKept` | an answer in time is dropped as "late" when the browser has reconnected to another worker (`services/remote_drive.py:656-658`); the caller waits out its timeout |
| `WidgetTours.PositionAlways` | a `checkResume` that fails clears the record of a tour started meanwhile (`loader.ts:757-759`), against `tour-player.ts:13-17` |
| `WidgetTours.NeverResurrected` | `checkResume` reads the seen-marks before its fetch (`loader.ts:761`), so another tab may finish the tour meanwhile and it is offered again, against the comment at 749-752 |
| `WidgetChat.ExecutedOnce` | a delivery of an operation that is handled after its first execution executes it again (`controller.ts:441`, `521`), against the comment at 438-440 |
| `ExtensionLink.SignedOutIsOff` | `validateSession` stores the session after a sign-out cleared it (`background.ts:197`), against `SettingsDrawer.tsx:12-13` |

### Seen while reading

Backend:

* `agents/tools.py:640`: an approved client action is executed by `execute_tool`, which
  knows no client tools, and answers "unknown tool".
* `agents/engine.py:690`: `max_tool_calls` counts `tool_call` steps on every resume, and
  page operations leave none.
* `agents/engine.py:1707`: two decisions on one approval at the same time both find it
  pending; `src/backend/tests/test_approvals.py:214` expects a 409 for the second.
* A message that merges a run parked on an approval leaves the request pending.
* `services/remote_drive.py:504`: a cold worker that knows one sibling does not wait for
  the others, although line 77 says it waits out a round.
* `services/auth.py:157-162` promises "always a single chain": two rotations of one
  token at READ COMMITTED both read it unreplaced, and both successors stay live. It needs a
  request of a page that was reloaded, since the tabs take turns.
* A sign-out does not take the lock: a refresh under way sets the cookie again after it, or,
  read after its commit, counts as reuse and ends the user's other sessions.

Tours: an AI guide clears the record of another tab's tour when it ends and leaves the progress
pill; offers fetched for one page are applied on the next; `runDrivenAction` stores the next step as
`navigating` and `goto` stores it again without (`tour-player.ts:1037-1050`), so that a driven
navigation ends in an offer to resume, against its comment; a double click on Next
while the page leaves skips a step; the checklist's pill opens a second overlay
(`loader.ts:1015`); an address that redirects is loaded for ever (`tour-player.ts:711`).

Messenger: a frame that arrives while a page loads is overwritten by the page and then
ignored as seen; a re-boot leaves the old socket connected; a late `refreshConversations`
brings back old unread flags; when `create` succeeds and `list` fails, a retry sends twice;
an operation's result goes to whichever conversation is on the screen, or nowhere; the
thread is marked read with the panel closed, against `controller.ts:625-628`; a
reconnected socket refetches nothing.

Extension: a failed `adoptToken` puts back a session that was signed out meanwhile; a popup
counts as the drive's own tab after a teardown, and the chain of openers is lost; an operation that
ends after `stopRemote` shows the session again (`background.ts:1383`); `startDrive` does not
expect a second one (`background.ts:1190`); a sign-out overlaps with storing a pasted token
(`background.ts:215`).

Dashboard: without Web Locks the answers of two tabs may leave a replaced token in the
cookie; a failed send restores a snapshot of the inbox that lacks what arrived meanwhile
(`src/frontend/src/features/inbox/hooks.ts:498`).

## 7. Not modelled

Automation, realtime fan-out, channel adapters, contacts, members, billing,
notifications, reports, and tours and surveys on the server: they keep records a
request at a time, shape data, or mirror an external service. Retrieval is numerical code.
Conversations are modelled as far as the engine and the messenger meet them. Of the
extension, recording and compiling tours is data transformation; guides and the local runner
are in `ExtensionDrive` only as what keeps a remote session out. The dashboard's pages,
the editors, the translations, the generated API schema, the SDKs and the sites are the
larger part of the source and hold hardly any state of their own: no model of them would be
shorter than the code or say more. The share of the code that the map covers stays small for that reason.

## 8. Plan

In this order; each component gets a module, one run for what holds, and theorems where
an inductive invariant is worth its proof.

1. `Inbox` (`src/frontend/src/features/inbox/hooks.ts`): the dashboard's cache of a thread between
   optimistic sends, their rollback, the socket and refetches.
2. `Tokens` (`integrations/tokens.py:80-163`): several processes refresh one rotating
   token; no refresh token is used twice, nobody keeps a dead one.
3. `Campaigns` (`services/campaigns.py:313-341`): batches against cancel, retry and a
   second scheduler; no recipient is sent to twice, a canceled campaign stops.
4. `Webhooks` (`services/webhooks.py:196-345`): attempts, backoff, disabling.
5. The extension's recording and local runner; `Conversations`: trackers, ingest deduplication
   and idle resolution; then the knowledge sync, the SLA scan and MCP approvals.
