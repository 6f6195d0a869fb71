--------------------------- MODULE ExtensionLink ---------------------------
(***************************************************************************)
(* The browser extension's connection to the gateway: the background       *)
(* worker's session (extension/src/entrypoints/background.ts), the gateway *)
(* client (remote/run-client.ts) and the keepalive alarm                   *)
(* (remote/keepalive.ts), over worker teardowns, which lose everything but *)
(* the browser's storage and the alarm.                                    *)
(*                                                                         *)
(* The worker runs one thread: what a handler does between two awaits is   *)
(* one step.  A handler that awaits is a record in `flows` that says where *)
(* it goes on; a storage read is one step with the use of its answer.      *)
(***************************************************************************)
EXTENDS Naturals, FiniteSets

CONSTANTS
    Tokens,     \* extension tokens, one per sign-in
    None,       \* no token
    NumFlows,   \* bound: what people do (sign in and out, paste, toggle, open)
    NumFaults   \* bound: sockets lost, attempts refused, teardowns, revocations

ASSUME LinkAssumption ==
    None \notin Tokens /\ NumFlows \in Nat /\ NumFaults \in Nat

VARIABLES
    disk,       \* chrome.storage.local: the session's token, the control switch
    alarm,      \* whether the keepalive alarm is armed
    worker,     \* "down", "restoring" or "up"
    session,    \* the token of the worker's session
    signedIn,   \* state.auth.signedIn, what the panel shows
    control,    \* state.remoteControl
    starts,     \* startRunClient calls that await the device id
    clients,    \* the RunClients that were not stopped
    run,        \* runClient: the number of the installed one, or 0
    shown,      \* state.remoteConnected
    flows,      \* handlers under way
    revoked,    \* tokens the server does not take any more
    member,     \* history: whom the user last signed in as, or None
    acts, faults

vars == <<disk, alarm, worker, session, signedIn, control, starts, clients, run,
          shown, flows, revoked, member, acts, faults>>

Ids == 1..3
Idle == [id |-> 0, token |-> None, ws |-> "none", late |-> FALSE,
         retry |-> FALSE, ping |-> FALSE]

Clients ==
    [id : Ids, token : Tokens,
     ws    : {"none", "connecting", "open", "closing"},
     late  : BOOLEAN,    \* a socket given up while it closed has yet to say so
     retry : BOOLEAN,    \* reconnectTimer
     ping  : BOOLEAN]    \* pingTimer

Acts == acts < NumFlows /\ acts' = acts + 1 /\ UNCHANGED faults
Fault == faults < NumFaults /\ faults' = faults + 1 /\ UNCHANGED acts
Free == UNCHANGED <<acts, faults>>

----------------------------------------------------------------------------
(* The client, run-client.ts.                                              *)

\* connect: a socket that is open or connecting is detached and closed first,
\* so that its end is not heard; one that is closing already still reports.
Connected(k) ==
    [k EXCEPT !.ws = "connecting", !.late = @ \/ k.ws = "closing"]

\* ensureConnected: a ping, or another attempt.
Ensured(k) == IF k.ws = "open" THEN k ELSE Connected(k)

\* onclose of a socket: whichever it was, the ping stops and a retry is armed
\* unless there is one.
Closed(k) == [k EXCEPT !.ping = FALSE, !.retry = TRUE]

Replace(k, new) == clients' = (clients \ {k}) \cup {new}

\* The gateway accepts the connection.
Open(k) ==
    /\ k \in clients /\ k.ws = "connecting" /\ k.token \notin revoked
    /\ Replace(k, [k EXCEPT !.ws = "open", !.ping = TRUE])
    /\ shown' = TRUE /\ Free
    /\ UNCHANGED <<disk, alarm, worker, session, signedIn, control, starts, run, flows, revoked, member>>

\* The connection is refused or lost: the socket closes, and then is closed.
Lose(k) ==
    /\ k \in clients /\ k.ws \in {"connecting", "open"}
    /\ Replace(k, [k EXCEPT !.ws = "closing"])
    /\ IF k.token \in revoked /\ k.ws = "connecting" THEN Free ELSE Fault
    /\ UNCHANGED <<disk, alarm, worker, session, signedIn, control, starts, run, shown,
                   flows, revoked, member>>

OnClose(k) ==
    /\ k \in clients
    /\ \/ k.ws = "closing" /\ Replace(k, Closed([k EXCEPT !.ws = "none"]))
       \/ k.late /\ Replace(k, Closed([k EXCEPT !.late = FALSE]))
    /\ shown' = FALSE /\ Free
    /\ UNCHANGED <<disk, alarm, worker, session, signedIn, control, starts, run, flows, revoked, member>>

\* The reconnect timer; connect does not cancel it.
Retry(k) ==
    /\ k \in clients /\ k.retry
    /\ Replace(k, Connected([k EXCEPT !.retry = FALSE])) /\ Free
    /\ UNCHANGED <<disk, alarm, worker, session, signedIn, control, starts, run, shown,
                   flows, revoked, member>>

----------------------------------------------------------------------------
(* The worker: starting and stopping the client.  These are what a handler *)
(* does to <<starts, clients, run>>; the handler says what else changes.   *)

Installed == {k \in clients : k.id = run}
Outdated(ss) == {[s EXCEPT !.latest = FALSE] : s \in ss}

\* startRunClient up to its await: ++runClientEpoch outdates the calls before.
StartRunClient(token, on) ==
    IF token = None \/ ~on THEN UNCHANGED <<starts, clients, run, shown>>
    ELSE /\ starts' = Outdated(starts) \cup {[token |-> token, latest |-> TRUE]}
         /\ clients' = clients \ Installed
         /\ run' = 0
         /\ shown' = (shown /\ run = 0)

\* stopRemote: the gateway's client goes, and calls that await find out.
StopRemote ==
    /\ starts' = Outdated(starts)
    /\ clients' = clients \ Installed
    /\ run' = 0 /\ shown' = FALSE

NewClient(token) ==
    [Idle EXCEPT !.id = CHOOSE i \in Ids : \A k \in clients : k.id # i,
                 !.token = token, !.ws = "connecting"]

\* Mutant: the continuation as it was before the epoch.
InstallAny(s) ==
    /\ session = s.token /\ control
    /\ LET new == NewClient(s.token)
       IN  clients' = clients \cup {new} /\ run' = new.id
    /\ alarm' = TRUE /\ UNCHANGED shown

\* Mutant: the alarm is not armed.
InstallUnarmed(s) ==
    /\ s.latest /\ session = s.token /\ control
    /\ LET new == NewClient(s.token)
       IN  /\ clients' = (clients \ Installed) \cup {new}
           /\ run' = new.id
    /\ UNCHANGED <<alarm, shown>>

\* The rest of startRunClient, for the latest call of a session that is still
\* the one it was for.
Install(s) ==
    /\ s.latest /\ session = s.token /\ control
    /\ LET new == NewClient(s.token)
       IN  /\ clients' = (clients \ Installed) \cup {new}
           /\ run' = new.id
    /\ alarm' = TRUE
    /\ shown' = (shown /\ run = 0)

StandDown(s) ==
    /\ ~s.latest \/ session # s.token \/ ~control
    /\ UNCHANGED <<alarm, clients, run, shown>>

\* The device id is there.
DeviceId(s) ==
    /\ s \in starts
    /\ Install(s) \/ StandDown(s)
    /\ starts' = starts \ {s}
    /\ Free /\ UNCHANGED <<disk, worker, session, signedIn, control, flows, revoked, member>>

\* Mutant: only a recording, a guide or a driven tour keep the alarm.
KeepaliveForWork(client, token, on) == FALSE

\* keepaliveNeeded.  Bound: no recording, guide or driven tour is under way.
KeepaliveNeeded(client, token, on) == client # 0 \/ (token # None /\ on)

\* The alarm, with the session restored.
Tick ==
    /\ worker = "up" /\ alarm
    /\ IF ~KeepaliveNeeded(run, session, control)
       THEN alarm' = FALSE /\ UNCHANGED <<starts, clients, run, shown>>
       ELSE /\ UNCHANGED alarm
            /\ IF run = 0 THEN StartRunClient(session, control)
               ELSE /\ clients' = (clients \ Installed)
                                    \cup {Ensured(k) : k \in Installed}
                    /\ UNCHANGED <<starts, run, shown>>
    /\ Free /\ UNCHANGED <<disk, worker, session, signedIn, control, flows, revoked, member>>

----------------------------------------------------------------------------
(* The worker: handlers that await.                                        *)

Flow(op, at, token, prev) == [op |-> op, at |-> at, token |-> token, prev |-> prev]

Goes(f, at) == flows' = (flows \ {f}) \cup {[f EXCEPT !.at = at]}
Ends(f) == flows' = flows \ {f}
Becomes(f, new) == flows' = (flows \ {f}) \cup new

\* Mutant: asked without a session.
AsksAnyway(op) == {Flow(op, "answer", session, None)}

\* validateSession ("check") and refreshTours ("tours") send the token that the
\* session has then.
Asks(op) == IF session = None THEN {} ELSE {Flow(op, "answer", session, None)}
SignsOut == Flow("signout", "clear", None, None)

\* The panel, which hears of a new session, or that there is none, when the
\* state is persisted: by then the steps after that are done.
Panel(in) ==
    /\ worker = "up" /\ signedIn = in
    /\ \A f \in flows : f.at \notin {"start", "remote"}

\* Bound: a session is not stored in the milliseconds in which another one is
\* cleared: the answer of the server that starts the one comes when the other
\* is over.
During(ops, places) == \E f \in flows : f.op \in ops /\ f.at \in places
Storing == During({"signin", "adopt"}, {"save", "apply", "start"})
Clearing == During({"signout"}, {"clear", "apply", "remote"})

\* Bound: one attempt to sign in at a time.
MaySignIn == Panel(FALSE) /\ \A f \in flows : f.op \notin {"signin", "adopt"}

\* chooseWorkspace, once the token is minted (which no other sign-in has).
SignIn ==
    /\ MaySignIn /\ ~Clearing /\ Acts
    /\ \E t \in Tokens \ revoked :
          /\ t \notin {disk.session, session}
          /\ flows' = flows \cup {Flow("signin", "save", t, None)}
    /\ UNCHANGED <<disk, alarm, worker, session, signedIn, control, starts, clients, run,
                   shown, revoked, member>>

\* adoptToken: the pasted token is the session while it is checked.
Adopt ==
    /\ MaySignIn /\ Acts
    /\ \E t \in Tokens :
          /\ flows' = flows \cup {Flow("adopt", "check", t, session)}
          /\ session' = t
    /\ UNCHANGED <<disk, alarm, worker, signedIn, control, starts, clients, run,
                   shown, revoked, member>>

SignOut ==
    /\ Panel(TRUE) /\ ~Storing /\ Acts
    /\ flows' = flows \cup {SignsOut}
    /\ UNCHANGED <<disk, alarm, worker, session, signedIn, control, starts, clients, run,
                   shown, revoked, member>>

\* set-remote-control.
SetRemoteControl ==
    /\ Panel(TRUE) /\ Acts
    /\ control' = ~control
    /\ disk' = [disk EXCEPT !.control = ~control]
    /\ IF control THEN StopRemote ELSE StartRunClient(session, TRUE)
    /\ UNCHANGED <<alarm, worker, session, signedIn, flows, revoked, member>>

\* The answer to adoptToken's check: taken or not.
AdoptChecked(f) ==
    /\ f.op = "adopt" /\ f.at = "check"
    /\ \/ f.token \notin revoked /\ ~Clearing /\ Goes(f, "save") /\ UNCHANGED session
       \/ Ends(f) /\ session' = f.prev
    /\ UNCHANGED <<disk, alarm, signedIn, starts, clients, run, shown, member>>

\* saveSession, with a new session or, in validateSession, the present one.
Save(f) ==
    /\ f.at = "save"
    /\ disk' = [disk EXCEPT !.session =
                  IF f.op # "check" THEN f.token ELSE IF session = None THEN @ ELSE session]
    /\ Goes(f, "apply")
    /\ UNCHANGED <<alarm, session, signedIn, starts, clients, run, shown, member>>

\* applySession, with a new session or, in signOut, with none …
Apply(f) ==
    /\ f.at = "apply" /\ f.op # "check"
    /\ session' = f.token /\ signedIn' = (f.token # None)
    /\ Goes(f, IF f.op = "signout" THEN "remote" ELSE "start")
    /\ member' = f.token
    /\ UNCHANGED <<disk, alarm, starts, clients, run, shown>>

\* … or, in validateSession, with what the session is by then.
Reapply(f) ==
    /\ f.at = "apply" /\ f.op = "check"
    /\ signedIn' = (session # None)
    /\ Becomes(f, Asks("tours"))
    /\ UNCHANGED <<disk, alarm, session, starts, clients, run, shown, member>>

\* With the new state persisted: the check of the session, and the client.
Starts(f) ==
    /\ f.at = "start"
    /\ Becomes(f, Asks(IF f.op = "adopt" THEN "tours" ELSE "check"))
    /\ StartRunClient(session, control)
    /\ UNCHANGED <<disk, alarm, session, signedIn, member>>

\* An answer: fine, unauthorized (guarded: signOut), or none.
Answered(f) ==
    /\ f.at = "answer"
    /\ \/ f.token \notin revoked /\ f.op = "check" /\ Goes(f, "save")
       \/ f.token \in revoked /\ ~Storing /\ Becomes(f, {SignsOut})
       \/ Ends(f)
    /\ UNCHANGED <<disk, alarm, session, signedIn, starts, clients, run, shown, member>>

ClearSession(f) ==
    /\ f.at = "clear"
    /\ disk' = [disk EXCEPT !.session = None]
    /\ Goes(f, "apply")
    /\ UNCHANGED <<alarm, session, signedIn, starts, clients, run, shown, member>>

\* The last part of signOut.
TearDownRemote(f) ==
    /\ f.at = "remote"
    /\ StopRemote /\ Ends(f)
    /\ UNCHANGED <<disk, alarm, session, signedIn, member>>

Go(f) ==
    /\ f \in flows /\ worker = "up"
    /\ \/ AdoptChecked(f) \/ Save(f) \/ Apply(f) \/ Reapply(f) \/ Starts(f)
       \/ Answered(f) \/ ClearSession(f) \/ TearDownRemote(f)
    /\ Free /\ UNCHANGED <<worker, control, revoked>>

----------------------------------------------------------------------------
(* The worker's life.                                                      *)

\* An idle worker is torn down.  Idle: only sockets, timers and answers of the
\* server are awaited, which take longer than the browser waits.
Teardown ==
    /\ worker = "up" /\ starts = {}
    /\ \A f \in flows : f.at = "answer"
    /\ worker' = "down"
    /\ session' = None /\ signedIn' = FALSE /\ control' = TRUE /\ clients' = {} /\ run' = 0
    /\ shown' = FALSE /\ flows' = {}
    /\ Fault /\ UNCHANGED <<disk, alarm, starts, revoked, member>>

Revive ==
    /\ worker = "down" /\ worker' = "restoring"
    /\ UNCHANGED <<disk, alarm, session, signedIn, control, starts, clients, run, shown,
                   flows, revoked, member>>

\* The alarm revives the worker …
AlarmRevives == alarm /\ Revive /\ Free

\* … and so does the panel.
PanelRevives == Revive /\ Acts

\* restore: the switch and the session are read …
Restore ==
    /\ worker = "restoring"
    /\ worker' = "up"
    /\ control' = disk.control /\ session' = disk.session
    /\ signedIn' = (disk.session # None)
    /\ IF disk.session = None THEN UNCHANGED flows
       ELSE flows' = flows \cup {Flow("restore", "start", disk.session, None)}
    /\ Free /\ UNCHANGED <<disk, alarm, starts, clients, run, shown, revoked, member>>

\* The server stops taking a token.
Revoke ==
    /\ \E t \in Tokens \ revoked : revoked' = revoked \cup {t}
    /\ Fault
    /\ UNCHANGED <<disk, alarm, worker, session, signedIn, control, starts, clients, run,
                   shown, flows, member>>

----------------------------------------------------------------------------
\* A fresh install, with the panel open.
Init ==
    /\ disk = [session |-> None, control |-> TRUE]
    /\ alarm = FALSE /\ worker = "up"
    /\ session = None /\ signedIn = FALSE /\ control = TRUE
    /\ starts = {} /\ clients = {} /\ run = 0 /\ shown = FALSE
    /\ flows = {} /\ revoked = {} /\ member = None /\ acts = 0 /\ faults = 0

Continue == \E f \in flows : Go(f)
Sockets == \E k \in clients : Open(k) \/ OnClose(k) \/ Retry(k)

Next ==
    \/ SignIn \/ Adopt \/ SignOut \/ SetRemoteControl \/ PanelRevives
    \/ Continue \/ (\E s \in starts : DeviceId(s)) \/ Tick \/ Restore \/ AlarmRevives
    \/ \E k \in clients : Open(k) \/ Lose(k) \/ OnClose(k) \/ Retry(k)
    \/ Teardown \/ Revoke

Spec == Init /\ [][Next]_vars

\* Promises are settled, timers and alarms fire, the gateway answers.
Fairness ==
    /\ WF_vars(Continue) /\ WF_vars(Tick)
    /\ WF_vars(\E s \in starts : DeviceId(s))
    /\ WF_vars(\E s \in starts : s.latest /\ DeviceId(s))
    /\ WF_vars(Restore) /\ WF_vars(AlarmRevives) /\ WF_vars(Sockets)

FairSpec == Spec /\ Fairness

----------------------------------------------------------------------------
(* Correctness.                                                            *)

Ops == {"signin", "adopt", "check", "tours", "signout", "restore"}
Places == {"check", "save", "apply", "start", "answer", "clear", "remote"}

Flows == [op : Ops, at : Places, token : Tokens \cup {None}, prev : Tokens \cup {None}]
StartCalls == [token : Tokens, latest : BOOLEAN]

TypeOK ==
    /\ disk \in [session : Tokens \cup {None}, control : BOOLEAN]
    /\ alarm \in BOOLEAN /\ worker \in {"down", "restoring", "up"}
    /\ session \in Tokens \cup {None} /\ signedIn \in BOOLEAN /\ control \in BOOLEAN
    /\ starts \subseteq StartCalls
    /\ clients \subseteq Clients /\ run \in Ids \cup {0} /\ shown \in BOOLEAN
    /\ flows \subseteq Flows
    /\ \A f \in flows : f.at = "answer" => f.token # None
    /\ revoked \subseteq Tokens /\ member \in Tokens \cup {None}
    /\ acts \in 0..NumFlows /\ faults \in 0..NumFaults

\* At most one RunClient lives, the installed one, so that the gateway sees one
\* connection of this browser (background.ts:77-82, 1309-1310).
OneClient ==
    /\ \A k \in clients : k.id = run
    /\ \A k, l \in clients : k = l

\* A browser whose user is signed in, with the switch on, is never left with
\* nothing to revive it: with nothing under way, or torn down, it has the alarm
\* (background.ts:258-261, keepalive.ts:3-13).
SignedIn == member # None
Quiet == starts = {} /\ \A f \in flows : f.at = "answer"

Reachable ==
    SignedIn /\ disk.control /\ (worker = "down" \/ (worker = "up" /\ Quiet))
        => alarm

\* It comes back, whatever socket, attempt or worker is lost on the way.
Wanted == SignedIn /\ disk.control /\ member \notin revoked
Online == \E k \in clients : k.ws = "open"
BackOnline == Wanted ~> (Online \/ ~Wanted)

----------------------------------------------------------------------------
\* "sign-out (which forgets the extension token)" (SettingsDrawer.tsx:13): with
\* nothing under way, a browser whose user signed out has no session, in the
\* worker or on disk, and no connection.
SignedOutIsOff ==
    member = None /\ worker = "up" /\ starts = {} /\ flows = {}
        => clients = {} /\ disk.session = None
=============================================================================
