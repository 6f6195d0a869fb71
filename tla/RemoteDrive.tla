---------------------------- MODULE RemoteDrive ----------------------------
(***************************************************************************)
(* The remote-drive gateway of one workspace (services/remote_drive.py):   *)
(* worker processes that each own some browsers' sockets, find the others' *)
(* over pub/sub, and pass operations and their answers between them.       *)
(*                                                                         *)
(* A worker runs one event loop: what happens between two awaits is one    *)
(* step.  The bus is the ctrl topic, which every started worker hears, and *)
(* one inbox per worker; each is first in, first out and loses nothing     *)
(* (the Redis connection holds).  A socket stands for the roster entry it  *)
(* is announced with: its worker, its device slot, its connection time.    *)
(***************************************************************************)
EXTENDS Naturals, FiniteSets, Sequences

CONSTANTS
    Nodes,     \* worker processes
    Devices,   \* browsers, by device slot ("{user_id}:{device_id}")
    NumSocks,  \* bound: connections the browsers open
    NumOps,    \* bound: operations the tools ask for
    Asks,      \* bound: what the tools ask for, as <<device or None, kind>>
    Prompt,    \* whether the bus answers within the discovery windows
    None       \* no socket, no device, no worker

Socks == 1..NumSocks
Ops   == 1..NumOps

ASSUME BoundsAssumption ==
    /\ NumSocks \in Nat /\ NumOps \in Nat /\ Prompt \in BOOLEAN
    /\ None \notin Devices \cup Nodes \cup Socks

\* exec_op with an ordinary operation, exec_op "close", and the recorder and
\* tour requests, which leave the ownership of the session alone.
Kinds == {"drive", "close", "other"}

ASSUME AsksAssumption == Asks \subseteq (Devices \cup {None}) \X Kinds

VARIABLES
    up,        \* worker: not started, within its bootstrap window, past it
    roster,    \* _nodes: the siblings each worker knows
    ctrl,      \* frames each worker has yet to take from drive:ctrl
    inbox,     \* frames each worker has yet to take from its own topic
    peers,     \* _peers: the socket in each device slot of each worker
    sock,      \* connections, numbered as the browsers open them
    live,      \* the socket each browser itself uses
    owner,     \* _drive_owner of each worker: a device (None: released), when
    clock,     \* instants used so far, by registrations and by claims
    op,        \* the tools' calls, with their round and their future
    inflight,  \* _inflight: operations each worker runs for others
    wrote,     \* history: the sockets an operation was written to
    browser    \* whether a browser executes an operation, or has answered it

bus      == <<ctrl, inbox>>
registry == <<peers, sock, live>>
session  == <<owner, clock>>
calls    == <<op, inflight, wrote, browser>>
vars     == <<up, roster, bus, registry, session, calls>>

NoSock == [st |-> "none", said |-> FALSE, node |-> None, dev |-> None, at |-> 0]
IdleOp == [pc |-> "idle", node |-> None, dev |-> None, kind |-> "other",
           found |-> {}, await |-> {}, strict |-> FALSE, since |-> 0,
           tnode |-> None, tdev |-> None, ack |-> "none"]

\* Some workers know each other already, the others are yet to start.
Init ==
    /\ \E S \in SUBSET Nodes :
         /\ up = [n \in Nodes |-> IF n \in S THEN "up" ELSE "down"]
         /\ roster = [n \in Nodes |-> IF n \in S THEN S \ {n} ELSE {}]
    /\ ctrl = [n \in Nodes |-> <<>>]
    /\ inbox = [n \in Nodes |-> <<>>]
    /\ peers = [n \in Nodes |-> [d \in Devices |-> None]]
    /\ sock = [s \in Socks |-> NoSock]
    /\ live = [d \in Devices |-> None]
    /\ owner = [n \in Nodes |-> [dev |-> None, at |-> 0]]
    /\ clock = 0
    /\ op = [o \in Ops |-> IdleOp]
    /\ inflight = [n \in Nodes |-> {}]
    /\ wrote = [o \in Ops |-> {}]
    /\ browser = [o \in Ops |-> "no"]

Started(n) == up[n] # "down"

\* Mutant: a worker does not ignore its own broadcasts.
LoopedBack(n, f) == [m \in Nodes |->
    IF Started(m) \/ m = n THEN Append(ctrl[m], f) ELSE ctrl[m]]

\* A broadcast reaches every started worker; its sender ignores its own copy.
Broadcast(n, f) == [m \in Nodes |->
    IF m # n /\ Started(m) THEN Append(ctrl[m], f) ELSE ctrl[m]]
Unicast(m, f) == [inbox EXCEPT ![m] = Append(@, f)]

(***************************************************************************)
(* Workers: start, bootstrap, registration of sockets.                     *)
(***************************************************************************)
Start(n) ==
    /\ up[n] = "down"
    /\ up' = [up EXCEPT ![n] = "boot"]
    /\ ctrl' = Broadcast(n, [kind |-> "hello", node |-> n])
    /\ UNCHANGED <<roster, inbox, registry, session, calls>>

\* The bootstrap window ends.  On a prompt bus every sibling has by then
\* heard what this worker asked, and been heard in answer.
Greeted(n) ==
    /\ \A m \in Nodes : \A i \in DOMAIN ctrl[m] :
         ~(ctrl[m][i].kind \in {"hello", "discover"} /\ ctrl[m][i].node = n)
    /\ \A i \in DOMAIN inbox[n] : inbox[n][i].kind \notin {"hello-ack", "discover-reply"}

Bootstrapped(n) ==
    /\ up[n] = "boot" /\ (Prompt => Greeted(n))
    /\ up' = [up EXCEPT ![n] = "up"]
    /\ UNCHANGED <<roster, bus, registry, session, calls>>

\* A browser opens a socket to whichever worker the proxy picks, and from
\* then on uses no other; a former one of its is closed, or dead already.
Connect(d, n) == \E s \in Socks :
    /\ sock[s].st = "none" /\ \A k \in Socks : k < s => sock[k].st # "none"
    /\ sock' = [sock EXCEPT ![s] = 
         [NoSock EXCEPT !.st = "dialing", !.node = n, !.dev = d]]
    /\ live' = [live EXCEPT ![d] = s]
    /\ UNCHANGED <<up, roster, bus, peers, session, calls>>

\* The browser goes, or its connection breaks: the worker does not know yet.
Leave(d) ==
    /\ live[d] # None
    /\ live' = [live EXCEPT ![d] = None]
    /\ UNCHANGED <<up, roster, bus, peers, sock, session, calls>>

Slot(s) == peers[sock[s].node][sock[s].dev]

\* The socket takes the slot of its device; the one found there is closed.
Register(s) ==
    LET old == Slot(s) IN
    /\ sock[s].st = "dialing" /\ Started(sock[s].node)
    /\ clock' = clock + 1
    /\ peers' = [peers EXCEPT ![sock[s].node][sock[s].dev] = s]
    /\ sock' = [k \in Socks |->
         IF k = s THEN [sock[k] EXCEPT !.st = "open", !.at = clock + 1]
         ELSE IF k = old THEN [sock[k] EXCEPT !.st = "shut"] ELSE sock[k]]
    /\ UNCHANGED <<up, roster, bus, live, owner, calls>>

\* Once the close of the superseded socket returns, the others are told; only
\* then does the endpoint listen to the socket.
Announce(s) ==
    /\ sock[s].st \in {"open", "shut"} /\ ~sock[s].said
    /\ sock' = [sock EXCEPT ![s].said = TRUE]
    /\ ctrl' = Broadcast(sock[s].node, [kind |-> "supersede", node |-> sock[s].node,
                                        dev |-> sock[s].dev, at |-> sock[s].at])
    /\ UNCHANGED <<up, roster, inbox, peers, live, session, calls>>

Without(p, s) == [p EXCEPT ![sock[s].node][sock[s].dev] = None]

\* Mutant: the slot is emptied whoever is in it.
UnregisterAny(s) == peers' = Without(peers, s)

Unregister(s) == peers' = IF Slot(s) = s THEN Without(peers, s) ELSE peers

\* The endpoint ends: the browser left, the network broke, or we closed it.
Disconnect(s) ==
    /\ sock[s].st \in {"open", "shut"} /\ sock[s].said
    /\ Unregister(s)
    /\ sock' = [sock EXCEPT ![s].st = "closed"]
    /\ live' = [d \in Devices |-> IF live[d] = s THEN None ELSE live[d]]
    /\ UNCHANGED <<up, roster, bus, session, calls>>

(***************************************************************************)
(* A call: discovery, the choice of one socket, the dispatch.              *)
(***************************************************************************)
Local(n) == {peers[n][d] : d \in Devices} \ {None}

\* _merge: of the sockets of one device, the newest connection.
Latest(S) == {s \in S : \A t \in S : sock[t].dev = sock[s].dev => sock[t].at <= sock[s].at}

\* _resolve_target: the device asked for, else the owner of the session while
\* it is connected, else the browser seen last, which may be any.
Candidates(k, found) ==
    LET want  == IF k.dev # None THEN k.dev ELSE owner[k.node].dev
        match == {s \in Latest(found) : sock[s].dev = want}
    IN IF k.dev # None \/ match # {} THEN match ELSE Latest(found)

\* _send_local: the frame goes to whatever socket holds the slot by now; a
\* browser that has left it does not read it.
Sent(n, d, o) ==
    LET s == peers[n][d] IN
    /\ s # None
    /\ wrote' = [wrote EXCEPT ![o] = @ \cup {s}]
    /\ browser' = IF live[d] = s THEN [browser EXCEPT ![o] = "busy"] ELSE browser
    /\ UNCHANGED peers

\* An empty slot, or a dead socket, which loses its slot when the write fails.
NotSent(n, d) ==
    /\ \/ peers[n][d] = None
       \/ live[d] # peers[n][d]
    /\ peers' = [peers EXCEPT ![n][d] = None]
    /\ UNCHANGED <<wrote, browser>>

Done(k, ack) == [k EXCEPT !.pc = "done", !.ack = ack]

Dispatch(k, o, to) == Unicast(to, [kind |-> "dispatch", node |-> k.node, op |-> o, dev |-> k.tdev])

Route(o, k, found) ==
    \/ /\ Candidates(k, found) = {}
       /\ op' = [op EXCEPT ![o] = Done(k, "gone")]
       /\ UNCHANGED <<inbox, peers, wrote, browser>>
    \/ \E s \in Candidates(k, found) :
         LET t == [k EXCEPT !.pc = "wait", !.tnode = sock[s].node, !.tdev = sock[s].dev]
         IN
         \/ /\ t.tnode = k.node /\ Sent(t.tnode, t.tdev, o)
            /\ op' = [op EXCEPT ![o] = t] /\ UNCHANGED inbox
         \/ /\ t.tnode = k.node /\ NotSent(t.tnode, t.tdev)
            /\ op' = [op EXCEPT ![o] = Done(t, "gone")] /\ UNCHANGED inbox
         \/ /\ t.tnode # k.node /\ inbox' = Dispatch(t, o, t.tnode)
            /\ op' = [op EXCEPT ![o] = t] /\ UNCHANGED <<peers, wrote, browser>>

NewestClaim == CHOOSE at \in {owner[n].at : n \in Nodes} :
                   \A n \in Nodes : owner[n].at <= at

\* A worker that knows of no other, past its bootstrap, routes at once; else
\* it asks the others for their browsers.
Call(o, n, d, kind) ==
    LET k == [IdleOp EXCEPT !.node = n, !.dev = d, !.kind = kind, !.since = NewestClaim,
                !.found = Local(n), !.await = roster[n], !.strict = roster[n] # {}]
    IN
    /\ op[o].pc = "idle" /\ \A j \in Ops : j < o => op[j].pc # "idle"
    /\ Started(n)
    /\ IF roster[n] = {} /\ up[n] = "up"
       THEN Route(o, k, k.found) /\ UNCHANGED ctrl
       ELSE /\ op' = [op EXCEPT ![o] = [k EXCEPT !.pc = "discover"]]
            /\ ctrl' = Broadcast(n, [kind |-> "discover", node |-> n, op |-> o])
            /\ UNCHANGED <<inbox, peers, wrote, browser>>
    /\ UNCHANGED <<up, roster, sock, live, session, inflight>>

\* The round ends when every sibling known at its start has answered, at the
\* end of the bootstrap window if none was, or when its time is up.
RoundOver(k) ==
    \/ k.strict /\ k.await = {}
    \/ ~k.strict /\ up[k.node] = "up"
    \/ ~Prompt

Conclude(o) ==
    /\ op[o].pc = "discover" /\ RoundOver(op[o])
    /\ Route(o, op[o], op[o].found)
    /\ UNCHANGED <<up, roster, ctrl, sock, live, session, inflight>>

\* The future is resolved: a successful session operation claims the session
\* for its browser, a successful close releases it.
Finish(o) ==
    LET k == op[o]
        claims == k.kind # "other" /\ k.ack = "ok"
        claim == [dev |-> IF k.kind = "close" THEN None ELSE k.tdev, at |-> clock + 1]
    IN
    /\ k.pc = "wait" /\ k.ack # "none"
    /\ op' = [op EXCEPT ![o] = Done(k, k.ack)]
    /\ IF claims
       THEN /\ clock' = clock + 1
            /\ owner' = [owner EXCEPT ![k.node] = claim]
            /\ ctrl' = Broadcast(k.node, [kind |-> "drive-owner", node |-> k.node, claim |-> claim])
       ELSE UNCHANGED <<session, ctrl>>
    /\ UNCHANGED <<up, roster, inbox, registry, inflight, wrote, browser>>

\* Mutant: the call is tried again.
TimeoutRetries(o) ==
    /\ op[o].pc = "wait"
    /\ op' = [op EXCEPT ![o].pc = "discover"]
    /\ UNCHANGED <<up, roster, bus, registry, session, inflight, wrote, browser>>

\* Mutant: a time-out is told as a browser that is gone.
TimeoutGone(o) ==
    /\ op[o].pc = "wait"
    /\ op' = [op EXCEPT ![o] = Done(op[o], "gone")]
    /\ UNCHANGED <<up, roster, bus, registry, session, inflight, wrote, browser>>

\* The time for an answer is up, even if it has just come.
Timeout(o) ==
    /\ op[o].pc = "wait"
    /\ op' = [op EXCEPT ![o] = Done(op[o], "timeout")]
    /\ UNCHANGED <<up, roster, bus, registry, session, inflight, wrote, browser>>

(***************************************************************************)
(* Answers from the browsers.                                              *)
(***************************************************************************)
\* A browser answers on the socket it has by now, or its answer was already
\* under way on the one it was asked on, which may be closing.
Ack(s, o, ack) ==
    LET n == sock[s].node
        k == op[o]
        mine == k.pc = "wait" /\ k.node = n
        relayed == ~mine /\ o \in inflight[n]
    IN
    /\ browser[o] = "busy" /\ sock[s].dev = k.tdev /\ sock[s].st \in {"open", "shut"} /\ sock[s].said
    /\ live[k.tdev] = s \/ s \in wrote[o]
    /\ browser' = [browser EXCEPT ![o] = "answered"]
    /\ op' = IF mine /\ k.ack = "none" THEN [op EXCEPT ![o].ack = ack] ELSE op
    /\ inflight' = IF relayed THEN [inflight EXCEPT ![n] = @ \ {o}] ELSE inflight
    /\ inbox' = IF relayed
                THEN Unicast(k.node, [kind |-> "reply", node |-> n, op |-> o, ack |-> ack])
                ELSE inbox
    /\ UNCHANGED <<up, roster, ctrl, registry, session, wrote>>

(***************************************************************************)
(* Frames.  Whoever sends one is known from then on.                       *)
(***************************************************************************)
TakeCtrl(n, kind) ==
    /\ ctrl[n] # <<>> /\ Head(ctrl[n]).kind = kind
    /\ ctrl' = [ctrl EXCEPT ![n] = Tail(@)]
    /\ roster' = [roster EXCEPT ![n] = @ \cup {Head(ctrl[n]).node}]
    /\ UNCHANGED up

TakeInbox(n, kind) ==
    /\ inbox[n] # <<>> /\ Head(inbox[n]).kind = kind
    /\ roster' = [roster EXCEPT ![n] = @ \cup {Head(inbox[n]).node}]
    /\ UNCHANGED <<up, ctrl>>

Handled(n) == inbox' = [inbox EXCEPT ![n] = Tail(@)]
HandledWith(n, m, f) == inbox' = [inbox EXCEPT ![n] = Tail(@), ![m] = Append(@, f)]

OnHello(n) ==
    /\ TakeCtrl(n, "hello")
    /\ inbox' = Unicast(Head(ctrl[n]).node, [kind |-> "hello-ack", node |-> n])
    /\ UNCHANGED <<registry, session, calls>>

OnHelloAck(n) ==
    /\ TakeInbox(n, "hello-ack") /\ Handled(n)
    /\ UNCHANGED <<registry, session, calls>>

OnDiscover(n) ==
    LET f == Head(ctrl[n]) IN
    /\ TakeCtrl(n, "discover")
    /\ inbox' = Unicast(f.node, [kind |-> "discover-reply", node |-> n, op |-> f.op,
                                 found |-> Local(n), claim |-> owner[n]])
    /\ UNCHANGED <<registry, session, calls>>

\* _merge_drive_owner: the newer claim holds.
Newer(mine, claim) == IF mine.at >= claim.at THEN mine ELSE claim

\* Mutant: what a sibling knows of the session is not read.
OnRosterReply(n) ==
    LET f == Head(inbox[n]) IN
    /\ TakeInbox(n, "discover-reply") /\ Handled(n)
    /\ op' = IF op[f.op].pc = "discover"
             THEN [op EXCEPT ![f.op].found = @ \cup f.found, ![f.op].await = @ \ {f.node}]
             ELSE op
    /\ UNCHANGED <<registry, session, inflight, wrote, browser>>

\* The answer counts while the round is open, and tells of the session too.
OnDiscoverReply(n) ==
    LET f == Head(inbox[n]) IN
    /\ TakeInbox(n, "discover-reply") /\ Handled(n)
    /\ IF op[f.op].pc = "discover"
       THEN /\ op' = [op EXCEPT ![f.op].found = @ \cup f.found,
                                 ![f.op].await = @ \ {f.node}]
            /\ owner' = [owner EXCEPT ![n] = Newer(@, f.claim)]
       ELSE UNCHANGED <<op, owner>>
    /\ UNCHANGED <<registry, clock, inflight, wrote, browser>>

OnDriveOwner(n) ==
    /\ TakeCtrl(n, "drive-owner")
    /\ owner' = [owner EXCEPT ![n] = Newer(@, Head(ctrl[n]).claim)]
    /\ UNCHANGED <<inbox, registry, clock, calls>>

\* Mutant: the older connection wins.
OnSupersedeOlder(n) ==
    LET f == Head(ctrl[n])
        s == peers[n][f.dev]
    IN
    /\ TakeCtrl(n, "supersede")
    /\ IF s # None /\ sock[s].at > f.at
       THEN /\ peers' = [peers EXCEPT ![n][f.dev] = None]
            /\ sock' = [sock EXCEPT ![s].st = "shut"]
       ELSE UNCHANGED <<peers, sock>>
    /\ UNCHANGED <<inbox, live, session, calls>>

\* Another worker took the device over: an older socket of ours is closed.
OnSupersede(n) ==
    LET f == Head(ctrl[n])
        s == peers[n][f.dev]
    IN
    /\ TakeCtrl(n, "supersede")
    /\ IF s # None /\ sock[s].at < f.at
       THEN /\ peers' = [peers EXCEPT ![n][f.dev] = None]
            /\ sock' = [sock EXCEPT ![s].st = "shut"]
       ELSE UNCHANGED <<peers, sock>>
    /\ UNCHANGED <<inbox, live, session, calls>>

\* Mutant: nobody is told that the socket is gone.
OnDispatchSilent(n) ==
    LET f == Head(inbox[n]) IN
    /\ TakeInbox(n, "dispatch") /\ Handled(n)
    /\ \/ /\ Sent(n, f.dev, f.op)
          /\ inflight' = [inflight EXCEPT ![n] = @ \cup {f.op}]
       \/ NotSent(n, f.dev) /\ UNCHANGED inflight
    /\ UNCHANGED <<sock, live, session, op>>

\* An operation for a socket of ours; whatever another worker still has in
\* our care after its time is up is forgotten on the way.
OnDispatch(n) ==
    LET f == Head(inbox[n])
        kept == {o \in inflight[n] : op[o].pc = "wait"}
    IN
    /\ TakeInbox(n, "dispatch")
    /\ \/ /\ Sent(n, f.dev, f.op) /\ Handled(n)
          /\ inflight' = [inflight EXCEPT ![n] = kept \cup {f.op}]
       \/ /\ NotSent(n, f.dev)
          /\ HandledWith(n, f.node, [kind |-> "reply", node |-> n, op |-> f.op, ack |-> "gone"])
          /\ inflight' = IF peers[n][f.dev] = None THEN inflight
                         ELSE [inflight EXCEPT ![n] = kept]
    /\ UNCHANGED <<sock, live, session, op>>

OnReply(n) ==
    LET f == Head(inbox[n]) IN
    /\ TakeInbox(n, "reply") /\ Handled(n)
    /\ op' = IF op[f.op].pc = "wait" /\ op[f.op].ack = "none"
             THEN [op EXCEPT ![f.op].ack = f.ack] ELSE op
    /\ UNCHANGED <<registry, session, inflight, wrote, browser>>

CtrlStep(n) == OnHello(n) \/ OnDiscover(n) \/ OnDriveOwner(n) \/ OnSupersede(n)
InboxStep(n) == OnHelloAck(n) \/ OnDiscoverReply(n) \/ OnDispatch(n) \/ OnReply(n)

Next ==
    \/ \E n \in Nodes : Start(n) \/ Bootstrapped(n) \/ CtrlStep(n) \/ InboxStep(n)
    \/ \E d \in Devices : Leave(d) \/ \E n \in Nodes : Connect(d, n)
    \/ \E s \in Socks : Register(s) \/ Announce(s) \/ Disconnect(s)
    \/ \E o \in Ops : \/ \E n \in Nodes, a \in Asks : Call(o, n, a[1], a[2])
                      \/ Conclude(o) \/ Finish(o) \/ Timeout(o)
    \/ \E s \in Socks, o \in Ops, ack \in {"ok", "failed"} : Ack(s, o, ack)

Spec == Init /\ [][Next]_vars

\* Workers run: they register what connects, take the frames they are sent,
\* and notice in the end that a socket of a browser's past is dead.  Nothing
\* is assumed of browsers, callers and timeouts.
Fairness ==
    /\ \A n \in Nodes : WF_vars(Start(n)) /\ WF_vars(CtrlStep(n)) /\ WF_vars(InboxStep(n))
    /\ \A s \in Socks : /\ WF_vars(Register(s)) /\ WF_vars(Announce(s))
                        /\ WF_vars(Disconnect(s) /\ (sock[s].st = "shut" \/ s # live[sock[s].dev]))

FairSpec == Spec /\ Fairness

(***************************************************************************)
(* Properties.                                                             *)
(***************************************************************************)
SockRecs == [st : {"none", "dialing", "open", "shut", "closed"}, said : BOOLEAN,
             node : Nodes \cup {None}, dev : Devices \cup {None}, at : Nat]
Claims == [dev : Devices \cup {None}, at : Nat]
OpRecs == [pc : {"idle", "discover", "wait", "done"}, node : Nodes \cup {None},
           dev : Devices \cup {None}, kind : Kinds, found : SUBSET Socks,
           await : SUBSET Nodes, strict : BOOLEAN, since : Nat,
           tnode : Nodes \cup {None}, tdev : Devices \cup {None},
           ack : {"none", "ok", "failed", "gone", "timeout"}]

\* Workers, sockets, calls and claims have the shape the code gives them;
\* the roster of a worker holds siblings only, never the worker itself.
TypeOK ==
    /\ up \in [Nodes -> {"down", "boot", "up"}]
    /\ roster \in [Nodes -> SUBSET Nodes] /\ \A n \in Nodes : n \notin roster[n]
    /\ peers \in [Nodes -> [Devices -> Socks \cup {None}]]
    /\ sock \in [Socks -> SockRecs]
    /\ live \in [Devices -> Socks \cup {None}]
    /\ owner \in [Nodes -> Claims] /\ clock \in Nat
    /\ op \in [Ops -> OpRecs]
    /\ inflight \in [Nodes -> SUBSET Ops]
    /\ wrote \in [Ops -> SUBSET Socks]
    /\ browser \in [Ops -> {"no", "busy", "answered"}]

\* An operation is written to one socket only, whatever moves meanwhile.
WrittenOnce == \A o \in Ops : Cardinality(wrote[o]) <= 1

\* The gateway is a RemoteCall: whatever goes on between workers and sockets,
\* a browser runs an operation once, and a caller that hears that nobody was
\* there may ask again (remote_drive.py:34-36, 828-842).
Promise == INSTANCE RemoteCall WITH
    Calls <- Ops,
    told  <- [o \in Ops |-> CASE op[o].pc = "idle" -> "idle"
                              [] op[o].pc = "done" -> op[o].ack
                              [] OTHER             -> "waiting"],
    work  <- [o \in Ops |-> IF browser[o] # "no" THEN browser[o]
                            ELSE IF wrote[o] # {} THEN "lost" ELSE "none"]

CallsAreKept == Promise!Spec

\* A browser's own socket keeps its slot as long as no later one of that
\* browser has registered anywhere: no dead socket's end, failed write or
\* late announcement evicts it.
NewestStays == \A d \in Devices : LET s == live[d] IN
    /\ s # None
    /\ sock[s].st \in {"open", "shut"}
    /\ \A t \in Socks : sock[t].dev = d => sock[t].at <= sock[s].at
    => Slot(s) = s /\ sock[s].st = "open"

\* Whoever routes a call by the session's owner knows the newest claim there
\* was when the call came in, wherever it was made.
OwnerKnown == [][\A o \in Ops :
    op[o].pc # "wait" /\ op'[o].pc = "wait" /\ op'[o].dev = None
    => owner[op'[o].node].at >= op'[o].since]_vars

\* An answer given in time reaches the call.
AnswerKept == \A o \in Ops :
    browser[o] = "answered" /\ op[o].pc = "wait" /\ op[o].ack = "none"
    => \E i \in DOMAIN inbox[op[o].node] :
         /\ inbox[op[o].node][i].kind = "reply" /\ inbox[op[o].node][i].op = o

\* Once the browsers stop reconnecting, each is registered exactly where its
\* socket is, and nowhere else.
Homes(d) == {peers[n][d] : n \in Nodes} \ {None}
Settles == <>[](\A d \in Devices : Homes(d) = {live[d]} \ {None})

\* A call that cannot be delivered is told so, without its time running out.
GoneIsTold == \A o \in Ops :
    op[o].pc = "wait" /\ wrote[o] = {} ~> op[o].pc = "done" \/ op[o].ack # "none" \/ wrote[o] # {}
=============================================================================
