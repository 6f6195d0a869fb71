------------------------- MODULE RemoteDrive_proofs -------------------------
(***************************************************************************)
(* Proofs about RemoteDrive, for any workers, browsers, connections and    *)
(* calls: the shape of its state; that a browser's own socket is not       *)
(* evicted while it is the newest.                                         *)
(***************************************************************************)
EXTENDS RemoteDrive, SequenceTheorems, TLAPS

CtrlFrames ==
    [kind : {"hello"}, node : Nodes]
    \cup [kind : {"discover"}, node : Nodes, op : Ops]
    \cup [kind : {"supersede"}, node : Nodes, dev : Devices, at : Nat]
    \cup [kind : {"drive-owner"}, node : Nodes, claim : Claims]

InboxFrames ==
    [kind : {"hello-ack"}, node : Nodes]
    \cup [kind : {"discover-reply"}, node : Nodes, op : Ops, found : SUBSET Socks, claim : Claims]
    \cup [kind : {"dispatch"}, node : Nodes, op : Ops, dev : Devices]
    \cup [kind : {"reply"}, node : Nodes, op : Ops, ack : {"ok", "failed", "gone"}]

\* No worker hears itself.
MailOK ==
    /\ ctrl \in [Nodes -> Seq(CtrlFrames)] /\ inbox \in [Nodes -> Seq(InboxFrames)]
    /\ \A m \in Nodes : \A i \in DOMAIN ctrl[m] : ctrl[m][i].node # m
    /\ \A m \in Nodes : \A i \in DOMAIN inbox[m] : inbox[m][i].node # m

\* What is said of sockets is said of those that were opened; whoever is in a
\* slot is open, and belongs there.
OpenedOK ==
    /\ \A s \in Socks : sock[s].st # "none" => sock[s].node \in Nodes /\ sock[s].dev \in Devices
    /\ \A n \in Nodes, d \in Devices : LET s == peers[n][d] IN
          s # None => sock[s].st = "open" /\ sock[s].node = n /\ sock[s].dev = d
    /\ \A o \in Ops : \A s \in op[o].found : sock[s].st # "none"
    /\ \A m \in Nodes : \A i \in DOMAIN inbox[m] :
          inbox[m][i].kind = "discover-reply" => \A s \in inbox[m][i].found : sock[s].st # "none"

\* A call is of its worker; others have it in their care, or will.
AskedOK ==
    /\ \A o \in Ops : op[o].pc # "idle" => op[o].node \in Nodes
    /\ \A o \in Ops : op[o].pc = "wait" => op[o].tdev \in Devices
    /\ \A n \in Nodes : \A o \in inflight[n] : op[o].pc \in {"wait", "done"} /\ op[o].node # n
    /\ \A m \in Nodes : \A i \in DOMAIN inbox[m] : LET f == inbox[m][i] IN
          f.kind = "dispatch" => op[f.op].pc \in {"wait", "done"} /\ op[f.op].node = f.node

\* Claims are of the past, and one that a worker knows is the newest.
ClaimsOK ==
    /\ \A m \in Nodes : owner[m].at <= clock
    /\ \A m \in Nodes : \A i \in DOMAIN ctrl[m] :
          ctrl[m][i].kind = "drive-owner" => ctrl[m][i].claim.at <= clock
    /\ \A m \in Nodes : \A i \in DOMAIN inbox[m] :
          inbox[m][i].kind = "discover-reply" => inbox[m][i].claim.at <= clock
    /\ Nodes # {} => \E n \in Nodes : \A m \in Nodes : owner[m].at <= owner[n].at

TypeInv == TypeOK /\ MailOK /\ OpenedOK /\ AskedOK /\ ClaimsOK

----------------------------------------------------------------------------
(* Mailboxes: frames are taken at the front and put at the end.            *)

LEMMA Popped ==
    ASSUME NEW F, NEW b \in [Nodes -> Seq(F)], NEW n \in Nodes, b[n] # << >>
    PROVE  LET c == [b EXCEPT ![n] = Tail(@)] IN
           /\ c \in [Nodes -> Seq(F)]
           /\ 1 \in DOMAIN b[n] /\ Head(b[n]) = b[n][1] /\ b[n][1] \in F
           /\ \A m \in Nodes : m # n => c[m] = b[m]
           /\ \A i \in DOMAIN c[n] : i \in Nat /\ i + 1 \in DOMAIN b[n] /\ c[n][i] = b[n][i + 1]
<1> DEFINE c == [b EXCEPT ![n] = Tail(@)]
<1>1. b[n] \in Seq(F) /\ Len(b[n]) \in Nat \ {0}
  BY EmptySeq
<1>2. /\ Tail(b[n]) \in Seq(F) /\ Head(b[n]) = b[n][1] /\ b[n][1] \in F /\ 1 \in DOMAIN b[n]
      /\ \A i \in DOMAIN Tail(b[n]) : i \in Nat /\ i + 1 \in DOMAIN b[n] /\ Tail(b[n])[i] = b[n][i + 1]
  BY <1>1
<1> QED BY <1>2

LEMMA Pushed ==
    ASSUME NEW F, NEW b \in [Nodes -> Seq(F)], NEW n \in Nodes, NEW f \in F
    PROVE  LET c == [b EXCEPT ![n] = Append(@, f)] IN
           /\ c \in [Nodes -> Seq(F)]
           /\ \A m \in Nodes : m # n => c[m] = b[m]
           /\ \A i \in DOMAIN b[n] : i \in DOMAIN c[n] /\ c[n][i] = b[n][i]
           /\ \A i \in DOMAIN c[n] : \/ i \in DOMAIN b[n] /\ c[n][i] = b[n][i]
                                     \/ i = Len(b[n]) + 1 /\ c[n][i] = f
           /\ Len(b[n]) + 1 \notin DOMAIN b[n]
<1>1. b[n] \in Seq(F) /\ Len(b[n]) \in Nat
  OBVIOUS
<1>2. /\ Append(b[n], f) \in Seq(F) /\ DOMAIN b[n] = 1..Len(b[n])
      /\ DOMAIN Append(b[n], f) = 1..(Len(b[n]) + 1)
      /\ \A i \in DOMAIN b[n] : Append(b[n], f)[i] = b[n][i]
      /\ Append(b[n], f)[Len(b[n]) + 1] = f
  BY <1>1
<1> QED BY <1>1, <1>2

LEMMA Told ==
    ASSUME MailOK, NEW n \in Nodes, NEW f \in CtrlFrames, f.node = n, ctrl' = Broadcast(n, f)
    PROVE  /\ ctrl' \in [Nodes -> Seq(CtrlFrames)]
           /\ \A m \in Nodes : \A i \in DOMAIN ctrl'[m] : ctrl'[m][i].node # m
           /\ \A m \in Nodes : \A i \in DOMAIN ctrl'[m] :
                 (\E j \in DOMAIN ctrl[m] : ctrl'[m][i] = ctrl[m][j]) \/ ctrl'[m][i] = f
<1>1. ASSUME NEW m \in Nodes
      PROVE  /\ Append(ctrl[m], f) \in Seq(CtrlFrames) /\ ctrl[m] \in Seq(CtrlFrames)
             /\ \A i \in DOMAIN Append(ctrl[m], f) :
                   \/ i \in DOMAIN ctrl[m] /\ Append(ctrl[m], f)[i] = ctrl[m][i]
                   \/ Append(ctrl[m], f)[i] = f
  <2>1. ctrl[m] \in Seq(CtrlFrames)
    BY DEF MailOK
  <2> HIDE DEF CtrlFrames
  <2> QED BY <2>1
<1>2. ctrl' \in [Nodes -> Seq(CtrlFrames)]
  BY <1>1 DEF Broadcast
<1>3. \A m \in Nodes : \A i \in DOMAIN ctrl'[m] :
         (i \in DOMAIN ctrl[m] /\ ctrl'[m][i] = ctrl[m][i]) \/ (m # n /\ ctrl'[m][i] = f)
  BY <1>1 DEF Broadcast
<1>4. \A m \in Nodes : \A i \in DOMAIN ctrl[m] : ctrl[m][i].node # m
  BY DEF MailOK
<1>5. \A m \in Nodes : \A i \in DOMAIN ctrl'[m] : ctrl'[m][i].node # m
  BY <1>3, <1>4
<1>6. \A m \in Nodes : \A i \in DOMAIN ctrl'[m] :
         (\E j \in DOMAIN ctrl[m] : ctrl'[m][i] = ctrl[m][j]) \/ ctrl'[m][i] = f
  BY <1>3
<1> QED BY <1>2, <1>5, <1>6

LEMMA TakesCtrl ==
    ASSUME TypeInv, NEW n \in Nodes, NEW kind, TakeCtrl(n, kind)
    PROVE  /\ ctrl' \in [Nodes -> Seq(CtrlFrames)]
           /\ \A m \in Nodes : \A i \in DOMAIN ctrl'[m] : \E j \in DOMAIN ctrl[m] : ctrl'[m][i] = ctrl[m][j]
           /\ Head(ctrl[n]) \in CtrlFrames /\ Head(ctrl[n]).kind = kind
           /\ \E j \in DOMAIN ctrl[n] : Head(ctrl[n]) = ctrl[n][j]
           /\ Head(ctrl[n]).node \in Nodes \ {n}
           /\ roster' \in [Nodes -> SUBSET Nodes] /\ \A m \in Nodes : m \notin roster'[m]
<1>1. ctrl \in [Nodes -> Seq(CtrlFrames)] /\ ctrl[n] # << >> /\ ctrl' = [ctrl EXCEPT ![n] = Tail(@)]
  BY DEF TypeInv, MailOK, TakeCtrl
<1>2. /\ ctrl' \in [Nodes -> Seq(CtrlFrames)]
      /\ 1 \in DOMAIN ctrl[n] /\ Head(ctrl[n]) = ctrl[n][1] /\ ctrl[n][1] \in CtrlFrames
      /\ \A m \in Nodes : \A i \in DOMAIN ctrl'[m] : \E j \in DOMAIN ctrl[m] : ctrl'[m][i] = ctrl[m][j]
  BY <1>1, Popped
<1>3. Head(ctrl[n]).node \in Nodes \ {n}
  BY <1>2 DEF TypeInv, MailOK, CtrlFrames
<1>4. roster' \in [Nodes -> SUBSET Nodes] /\ \A m \in Nodes : m \notin roster'[m]
  BY <1>3 DEF TakeCtrl, TypeInv, TypeOK
<1> QED BY <1>2, <1>3, <1>4 DEF TakeCtrl

LEMMA TakesInbox ==
    ASSUME TypeInv, NEW n \in Nodes, NEW kind, TakeInbox(n, kind)
    PROVE  /\ inbox \in [Nodes -> Seq(InboxFrames)] /\ inbox[n] # << >>
           /\ Head(inbox[n]) \in InboxFrames /\ Head(inbox[n]).kind = kind
           /\ 1 \in DOMAIN inbox[n] /\ Head(inbox[n]) = inbox[n][1]
           /\ Head(inbox[n]).node \in Nodes \ {n}
           /\ roster' \in [Nodes -> SUBSET Nodes] /\ \A m \in Nodes : m \notin roster'[m]
<1>1. inbox \in [Nodes -> Seq(InboxFrames)] /\ inbox[n] # << >>
  BY DEF TypeInv, MailOK, TakeInbox
<1>2. 1 \in DOMAIN inbox[n] /\ Head(inbox[n]) = inbox[n][1] /\ inbox[n][1] \in InboxFrames
  BY <1>1, Popped
<1>3. Head(inbox[n]).node \in Nodes \ {n}
  BY <1>2 DEF TypeInv, MailOK, InboxFrames
<1>4. roster' \in [Nodes -> SUBSET Nodes] /\ \A m \in Nodes : m \notin roster'[m]
  BY <1>3 DEF TakeInbox, TypeInv, TypeOK
<1> QED BY <1>1, <1>2, <1>3, <1>4 DEF TakeInbox

\* What is in a mailbox is a frame.
LEMMA CtrlShape ==
    ASSUME MailOK, NEW m \in Nodes, NEW i \in DOMAIN ctrl[m]
    PROVE  ctrl[m][i] \in CtrlFrames
<1>1. ctrl[m] \in Seq(CtrlFrames)
  BY DEF MailOK
<1> QED BY <1>1, ElementOfSeq, LenProperties

LEMMA FrameShape ==
    ASSUME MailOK, NEW m \in Nodes, NEW i \in DOMAIN inbox[m]
    PROVE  inbox[m][i] \in InboxFrames
<1>1. inbox[m] \in Seq(InboxFrames)
  BY DEF MailOK
<1> QED BY <1>1, ElementOfSeq, LenProperties

LEMMA FoundShape ==
    ASSUME MailOK, NEW m \in Nodes, NEW i \in DOMAIN inbox[m], inbox[m][i].kind = "discover-reply"
    PROVE  inbox[m][i].found \subseteq Socks /\ inbox[m][i].op \in Ops /\ inbox[m][i].claim \in Claims
  BY FrameShape DEF InboxFrames

----------------------------------------------------------------------------
(* The shape of the state: workers and sockets.                            *)

LEMMA StartShape == ASSUME TypeInv, NEW n \in Nodes, Start(n) PROVE TypeInv'
<1> DEFINE f == [kind |-> "hello", node |-> n]
<1>1. f \in CtrlFrames
  BY DEF CtrlFrames
<1>2. MailOK'
  <2>1. ctrl' = Broadcast(n, f) /\ f.node = n /\ inbox' = inbox
    BY DEF Start
  <2> HIDE DEF f
  <2> QED BY <1>1, <2>1, Told DEF TypeInv, MailOK
<1>4. ClaimsOK'
  <2>1. ctrl' = Broadcast(n, f) /\ f.node = n /\ f.kind = "hello" /\ UNCHANGED <<inbox, owner, clock>>
    BY DEF Start, session
  <2> HIDE DEF f
  <2>2. \A m \in Nodes : \A i \in DOMAIN ctrl'[m] :
           (\E j \in DOMAIN ctrl[m] : ctrl'[m][i] = ctrl[m][j]) \/ ctrl'[m][i] = f
    BY <1>1, <2>1, Told DEF TypeInv
  <2> QED BY <2>1, <2>2 DEF TypeInv, ClaimsOK
<1>3. TypeOK' /\ OpenedOK' /\ AskedOK'
  BY DEF TypeInv, TypeOK, OpenedOK, AskedOK, Start, registry, session, calls
<1> QED BY <1>2, <1>3, <1>4 DEF TypeInv

LEMMA BootstrappedShape == ASSUME TypeInv, NEW n \in Nodes, Bootstrapped(n) PROVE TypeInv'
  BY DEF TypeInv, TypeOK, MailOK, OpenedOK, AskedOK, ClaimsOK, Bootstrapped, bus, registry, session, calls

LEMMA LeaveShape == ASSUME TypeInv, NEW d \in Devices, Leave(d) PROVE TypeInv'
  BY DEF TypeInv, TypeOK, MailOK, OpenedOK, AskedOK, ClaimsOK, Leave, bus, session, calls

LEMMA ConnectShape == ASSUME TypeInv, NEW d \in Devices, NEW n \in Nodes, Connect(d, n) PROVE TypeInv'
<1>1. PICK s \in Socks :
        /\ sock[s].st = "none"
        /\ sock' = [sock EXCEPT ![s] = [NoSock EXCEPT !.st = "dialing", !.node = n, !.dev = d]]
        /\ live' = [live EXCEPT ![d] = s]
  BY DEF Connect
<1> DEFINE k == [NoSock EXCEPT !.st = "dialing", !.node = n, !.dev = d]
<1>2. k \in SockRecs /\ k.st = "dialing" /\ k.node = n /\ k.dev = d
  BY DEF NoSock, SockRecs
<1>3. sock' \in [Socks -> SockRecs] /\ sock'[s] = k /\ \A t \in Socks : t # s => sock'[t] = sock[t]
  BY <1>1, <1>2 DEF TypeInv, TypeOK
<1>4. TypeOK'
  BY <1>1, <1>3 DEF TypeInv, TypeOK, Connect, session, calls
<1>5. OpenedOK'
  BY <1>1, <1>2, <1>3 DEF TypeInv, TypeOK, OpenedOK, Connect, bus, calls
<1>6. MailOK' /\ AskedOK'
  BY DEF TypeInv, MailOK, AskedOK, Connect, bus, calls
<1> QED BY <1>4, <1>5, <1>6 DEF TypeInv, ClaimsOK, Connect, bus, session

LEMMA RegisterShape == ASSUME TypeInv, NEW s \in Socks, Register(s) PROVE TypeInv'
<1> DEFINE n == sock[s].node
           d == sock[s].dev
<1>1. n \in Nodes /\ d \in Devices /\ clock \in Nat /\ sock[s].st = "dialing"
  BY DEF TypeInv, TypeOK, OpenedOK, Register
<1>2. /\ peers' \in [Nodes -> [Devices -> Socks \cup {None}]]
      /\ \A m \in Nodes, e \in Devices : peers'[m][e] = IF m = n /\ e = d THEN s ELSE peers[m][e]
  BY <1>1 DEF TypeInv, TypeOK, Register
<1> DEFINE a == [sock[s] EXCEPT !.st = "open", !.at = clock + 1]
           z(k) == [sock[k] EXCEPT !.st = "shut"]
<1>3. /\ sock'[s] = a
      /\ \A k \in Socks : k # s => sock'[k] = IF k = peers[n][d] THEN z(k) ELSE sock[k]
  BY DEF Register, Slot
<1>4. \A k \in Socks : sock[k] \in SockRecs
  BY DEF TypeInv, TypeOK
<1>5. \A k \in Socks : /\ sock'[k] \in SockRecs
                       /\ sock'[k].node = sock[k].node /\ sock'[k].dev = sock[k].dev
                       /\ sock[k].st # "none" => sock'[k].st # "none"
                       /\ sock'[k].st # "none" => sock[k].st # "none"
  <2>1. a \in SockRecs /\ a.node = n /\ a.dev = d /\ a.st = "open"
    <3>1. sock[s] \in SockRecs /\ clock + 1 \in Nat
      BY <1>1, <1>4
    <3> QED BY <3>1 DEF SockRecs
  <2>2. \A k \in Socks : z(k) \in SockRecs /\ z(k).node = sock[k].node /\ z(k).dev = sock[k].dev
                         /\ z(k).st = "shut"
    BY <1>4 DEF SockRecs
  <2>3. \A k \in Socks : k = peers[n][d] => sock[k].st = "open"
    BY <1>1, BoundsAssumption DEF TypeInv, OpenedOK
  <2> HIDE DEF a, z
  <2> TAKE k \in Socks
  <2>4. CASE k = s
    BY <1>1, <1>3, <2>1, <2>4
  <2>5. CASE k # s /\ k = peers[n][d]
    BY <1>3, <2>2, <2>3, <2>5
  <2>6. CASE k # s /\ k # peers[n][d]
    BY <1>3, <1>4, <2>6
  <2> QED BY <2>4, <2>5, <2>6
<1>6. sock' \in [Socks -> SockRecs]
  BY <1>5 DEF Register
<1>7. TypeOK'
  <2>1. clock' = clock + 1 /\ UNCHANGED <<up, roster, live, owner, calls>>
    BY DEF Register
  <2> QED BY <1>1, <1>2, <1>6, <2>1 DEF TypeInv, TypeOK, calls
<1>8. sock'[s].st = "open" /\ \A k \in Socks : k # s /\ k # peers[n][d] => sock'[k] = sock[k]
  BY <1>3, <1>4 DEF SockRecs
<1>9. \A m \in Nodes, e \in Devices : peers[m][e] # None => sock[peers[m][e]].node = m /\ sock[peers[m][e]].dev = e
                                         /\ sock[peers[m][e]].st = "open" /\ peers[m][e] \in Socks
  BY DEF TypeInv, TypeOK, OpenedOK
<1>10. \A m \in Nodes, e \in Devices : peers'[m][e] # None =>
          /\ sock'[peers'[m][e]].st = "open"
          /\ sock'[peers'[m][e]].node = m /\ sock'[peers'[m][e]].dev = e
  BY <1>1, <1>2, <1>5, <1>8, <1>9
<1>11. OpenedOK'
  <2>1. UNCHANGED <<inbox, op>>
    BY DEF Register, bus, calls
  <2>2. \A o \in Ops : \A k \in op[o].found : k \in Socks
    BY DEF TypeInv, TypeOK, OpRecs
  <2>3. \A m \in Nodes : \A i \in DOMAIN inbox[m] :
           inbox[m][i].kind = "discover-reply" => \A k \in inbox[m][i].found : k \in Socks
    BY FoundShape DEF TypeInv
  <2> QED BY <1>5, <1>10, <2>1, <2>2, <2>3 DEF TypeInv, OpenedOK
<1>12. MailOK' /\ AskedOK'
  BY DEF TypeInv, MailOK, AskedOK, Register, bus, calls
<1>13. ClaimsOK'
  <2>1. clock' = clock + 1 /\ UNCHANGED <<bus, owner>>
    BY DEF Register
  <2>2. \A m \in Nodes : owner[m].at \in Nat
    BY DEF TypeInv, TypeOK, Claims
  <2>3. \A m \in Nodes : \A i \in DOMAIN ctrl[m] : ctrl[m][i].kind = "drive-owner" => ctrl[m][i].claim.at \in Nat
    BY CtrlShape DEF TypeInv, CtrlFrames, Claims
  <2>4. \A m \in Nodes : \A i \in DOMAIN inbox[m] : inbox[m][i].kind = "discover-reply" => inbox[m][i].claim.at \in Nat
    BY FoundShape DEF TypeInv, Claims
  <2>5. \A at \in Nat : at <= clock => at <= clock + 1
    BY <1>1
  <2> QED BY <2>1, <2>2, <2>3, <2>4, <2>5 DEF TypeInv, ClaimsOK, bus
<1> QED BY <1>7, <1>11, <1>12, <1>13 DEF TypeInv

LEMMA AnnounceShape == ASSUME TypeInv, NEW s \in Socks, Announce(s) PROVE TypeInv'
<1> DEFINE f == [kind |-> "supersede", node |-> sock[s].node, dev |-> sock[s].dev, at |-> sock[s].at]
           a == [sock[s] EXCEPT !.said = TRUE]
<1>1. sock[s] \in SockRecs /\ sock[s].node \in Nodes /\ sock[s].dev \in Devices
  BY DEF TypeInv, TypeOK, OpenedOK, Announce
<1>2. f \in CtrlFrames /\ f.node = sock[s].node /\ sock[s].at \in Nat
  BY <1>1 DEF CtrlFrames, SockRecs
<1>3. a \in SockRecs /\ a.node = sock[s].node /\ a.dev = sock[s].dev /\ a.st = sock[s].st
  BY <1>1 DEF SockRecs
<1>4. ctrl' = Broadcast(sock[s].node, f) /\ sock' = [sock EXCEPT ![s] = a]
      /\ UNCHANGED <<up, roster, inbox, peers, live, session, calls>>
  BY DEF Announce
<1> HIDE DEF f, a
<1>5. sock' \in [Socks -> SockRecs] /\ \A k \in Socks :
         sock'[k].node = sock[k].node /\ sock'[k].dev = sock[k].dev /\ sock'[k].st = sock[k].st
  BY <1>3, <1>4 DEF TypeInv, TypeOK
<1>6. MailOK'
  BY <1>1, <1>2, <1>4, Told DEF TypeInv, MailOK
<1>7. TypeOK' /\ AskedOK'
  BY <1>4, <1>5 DEF TypeInv, TypeOK, AskedOK, session, calls
<1>8. OpenedOK'
  <2>1. \A o \in Ops : op[o].found \subseteq Socks
    BY DEF TypeInv, TypeOK, OpRecs
  <2>2. \A n \in Nodes, d \in Devices : peers[n][d] # None => peers[n][d] \in Socks
    BY DEF TypeInv, TypeOK
  <2> QED BY <1>4, <1>5, <2>1, <2>2, FoundShape DEF TypeInv, OpenedOK, calls
<1>9. ClaimsOK'
  <2>1. f.kind = "supersede"
    BY DEF f
  <2>2. \A m \in Nodes : \A i \in DOMAIN ctrl'[m] :
           (\E j \in DOMAIN ctrl[m] : ctrl'[m][i] = ctrl[m][j]) \/ ctrl'[m][i] = f
    BY <1>1, <1>2, <1>4, Told DEF TypeInv
  <2> QED BY <1>4, <2>1, <2>2 DEF TypeInv, ClaimsOK, session
<1> QED BY <1>6, <1>7, <1>8, <1>9 DEF TypeInv

LEMMA DisconnectShape == ASSUME TypeInv, NEW s \in Socks, Disconnect(s) PROVE TypeInv'
<1> DEFINE n == sock[s].node
           d == sock[s].dev
           a == [sock[s] EXCEPT !.st = "closed"]
<1>1. sock[s] \in SockRecs /\ n \in Nodes /\ d \in Devices
  BY DEF TypeInv, TypeOK, OpenedOK, Disconnect
<1>2. a \in SockRecs /\ a.node = n /\ a.dev = d /\ a.st = "closed"
  BY <1>1 DEF SockRecs
<1>3. sock' = [sock EXCEPT ![s] = a] /\ UNCHANGED <<up, roster, bus, session, calls>>
  BY DEF Disconnect
<1>4. live' \in [Devices -> Socks \cup {None}]
  BY DEF Disconnect, TypeInv, TypeOK
<1>5. /\ peers' \in [Nodes -> [Devices -> Socks \cup {None}]]
      /\ \A m \in Nodes, e \in Devices :
            peers'[m][e] = IF m = n /\ e = d /\ peers[n][d] = s THEN None ELSE peers[m][e]
  BY <1>1 DEF Disconnect, Unregister, Without, Slot, TypeInv, TypeOK
<1> HIDE DEF a
<1>6. sock' \in [Socks -> SockRecs] /\ \A k \in Socks : k # s => sock'[k] = sock[k]
  BY <1>2, <1>3 DEF TypeInv, TypeOK
<1>7. TypeOK' /\ MailOK' /\ AskedOK'
  BY <1>3, <1>4, <1>5, <1>6 DEF TypeInv, TypeOK, MailOK, AskedOK, bus, session, calls
<1>8. sock'[s] = a
  BY <1>3 DEF TypeInv, TypeOK
<1>9. OpenedOK'
  <2>1. \A o \in Ops : op[o].found \subseteq Socks
    BY DEF TypeInv, TypeOK, OpRecs
  <2>2. \A m \in Nodes, e \in Devices : peers'[m][e] # None => peers'[m][e] \in Socks \ {s}
    BY <1>5 DEF TypeInv, TypeOK, OpenedOK
  <2>3. \A m \in Nodes, e \in Devices : LET k == peers'[m][e] IN
           k # None => sock'[k].st = "open" /\ sock'[k].node = m /\ sock'[k].dev = e
    BY <1>5, <1>6, <2>2 DEF TypeInv, OpenedOK
  <2>4. \A k \in Socks : /\ sock[k].st # "none" => sock'[k].st # "none"
                         /\ sock'[k].st # "none" => sock'[k].node \in Nodes /\ sock'[k].dev \in Devices
    BY <1>1, <1>2, <1>6, <1>8 DEF TypeInv, OpenedOK
  <2> QED BY <1>3, <2>1, <2>3, <2>4, FoundShape DEF TypeInv, OpenedOK, bus, calls
<1> QED BY <1>3, <1>7, <1>9 DEF TypeInv, ClaimsOK, bus, session

----------------------------------------------------------------------------
(* The shape of the state: calls.                                          *)

LEMMA LocalShape ==
    ASSUME TypeInv, NEW n \in Nodes
    PROVE  Local(n) \subseteq Socks /\ \A s \in Local(n) : sock[s].st # "none"
  BY DEF Local, TypeInv, TypeOK, OpenedOK

LEMMA CandidatesShape == ASSUME NEW k, NEW found PROVE Candidates(k, found) \subseteq found
  BY DEF Candidates, Latest

LEMMA DoneShape ==
    ASSUME NEW k \in OpRecs, NEW ack \in {"none", "ok", "failed", "gone", "timeout"}
    PROVE  /\ Done(k, ack) \in OpRecs /\ Done(k, ack).pc = "done" /\ Done(k, ack).ack = ack
           /\ Done(k, ack).node = k.node /\ Done(k, ack).found = k.found
           /\ Done(k, ack).dev = k.dev /\ Done(k, ack).tdev = k.tdev
  BY DEF Done, OpRecs

Waits(k, n, d) == [k EXCEPT !.pc = "wait", !.tnode = n, !.tdev = d]

LEMMA WaitShape ==
    ASSUME NEW k \in OpRecs, NEW n \in Nodes, NEW d \in Devices
    PROVE  LET t == Waits(k, n, d) IN
           /\ t \in OpRecs /\ t.pc = "wait" /\ t.tnode = n /\ t.tdev = d
           /\ t.node = k.node /\ t.found = k.found /\ t.ack = k.ack /\ t.dev = k.dev
  BY DEF OpRecs, Waits

LEMMA SentShape ==
    ASSUME TypeInv, NEW n \in Nodes, NEW d \in Devices, NEW o \in Ops, Sent(n, d, o)
    PROVE  /\ peers[n][d] \in Socks
           /\ wrote' \in [Ops -> SUBSET Socks] /\ browser' \in [Ops -> {"no", "busy", "answered"}]
           /\ wrote'[o] = wrote[o] \cup {peers[n][d]} /\ browser'[o] \in {"busy", browser[o]}
           /\ \A p \in Ops : p # o => wrote'[p] = wrote[p] /\ browser'[p] = browser[p]
           /\ peers' = peers
<1>1. peers[n][d] \in Socks
  BY DEF Sent, TypeInv, TypeOK
<1> QED BY <1>1 DEF Sent, TypeInv, TypeOK

LEMMA NotSentShape ==
    ASSUME TypeInv, NEW n \in Nodes, NEW d \in Devices, NotSent(n, d)
    PROVE  /\ peers' \in [Nodes -> [Devices -> Socks \cup {None}]]
           /\ \A m \in Nodes, e \in Devices :
                 peers'[m][e] = IF m = n /\ e = d THEN None ELSE peers[m][e]
           /\ UNCHANGED <<wrote, browser>>
  BY DEF NotSent, TypeInv, TypeOK

\* What Route leaves: the call waits, or nobody was there.
LEMMA RouteShape ==
    ASSUME TypeInv, NEW o \in Ops, NEW k \in OpRecs, NEW found, Route(o, k, found),
           found \subseteq Socks, \A s \in found : sock[s].st # "none", k.node \in Nodes
    PROVE  /\ op' \in [Ops -> OpRecs] /\ \A p \in Ops : p # o => op'[p] = op[p]
           /\ op'[o].pc \in {"wait", "done"} /\ op'[o].node = k.node /\ op'[o].found = k.found
           /\ op'[o].pc = "wait" => op'[o].tdev \in Devices
           /\ inbox' \in [Nodes -> Seq(InboxFrames)]
           /\ \A m \in Nodes : \A i \in DOMAIN inbox'[m] :
                 \/ \E j \in DOMAIN inbox[m] : inbox'[m][i] = inbox[m][j]
                 \/ /\ inbox'[m][i].kind = "dispatch" /\ inbox'[m][i].op = o
                    /\ inbox'[m][i].node = k.node /\ m # k.node
           /\ peers' \in [Nodes -> [Devices -> Socks \cup {None}]]
           /\ \A m \in Nodes, e \in Devices : peers'[m][e] \in {None, peers[m][e]}
           /\ wrote' \in [Ops -> SUBSET Socks] /\ browser' \in [Ops -> {"no", "busy", "answered"}]
<1>1. inbox \in [Nodes -> Seq(InboxFrames)] /\ op \in [Ops -> OpRecs]
      /\ peers \in [Nodes -> [Devices -> Socks \cup {None}]]
      /\ wrote \in [Ops -> SUBSET Socks] /\ browser \in [Ops -> {"no", "busy", "answered"}]
  BY DEF TypeInv, TypeOK, MailOK
<1>2. CASE /\ op' = [op EXCEPT ![o] = Done(k, "gone")]
           /\ UNCHANGED <<inbox, peers, wrote, browser>>
  BY <1>1, <1>2, DoneShape
<1>3. ASSUME NEW s \in Candidates(k, found),
             LET t == [k EXCEPT !.pc = "wait", !.tnode = sock[s].node, !.tdev = sock[s].dev]
             IN
             \/ /\ t.tnode = k.node /\ Sent(t.tnode, t.tdev, o)
                /\ op' = [op EXCEPT ![o] = t] /\ UNCHANGED inbox
             \/ /\ t.tnode = k.node /\ NotSent(t.tnode, t.tdev)
                /\ op' = [op EXCEPT ![o] = Done(t, "gone")] /\ UNCHANGED inbox
             \/ /\ t.tnode # k.node /\ inbox' = Dispatch(t, o, t.tnode)
                /\ op' = [op EXCEPT ![o] = t] /\ UNCHANGED <<peers, wrote, browser>>
      PROVE  /\ op' \in [Ops -> OpRecs] /\ \A p \in Ops : p # o => op'[p] = op[p]
             /\ op'[o].pc \in {"wait", "done"} /\ op'[o].node = k.node /\ op'[o].found = k.found
             /\ op'[o].pc = "wait" => op'[o].tdev \in Devices
             /\ inbox' \in [Nodes -> Seq(InboxFrames)]
             /\ \A m \in Nodes : \A i \in DOMAIN inbox'[m] :
                   \/ \E j \in DOMAIN inbox[m] : inbox'[m][i] = inbox[m][j]
                   \/ /\ inbox'[m][i].kind = "dispatch" /\ inbox'[m][i].op = o
                      /\ inbox'[m][i].node = k.node /\ m # k.node
             /\ peers' \in [Nodes -> [Devices -> Socks \cup {None}]]
             /\ \A m \in Nodes, e \in Devices : peers'[m][e] \in {None, peers[m][e]}
             /\ wrote' \in [Ops -> SUBSET Socks] /\ browser' \in [Ops -> {"no", "busy", "answered"}]
  <2> DEFINE t == [k EXCEPT !.pc = "wait", !.tnode = sock[s].node, !.tdev = sock[s].dev]
  <2>1. s \in Socks /\ sock[s].node \in Nodes /\ sock[s].dev \in Devices
    BY CandidatesShape DEF TypeInv, OpenedOK
  <2>2. /\ t \in OpRecs /\ t.pc = "wait" /\ t.tnode = sock[s].node /\ t.tdev = sock[s].dev
        /\ t.node = k.node /\ t.found = k.found
    <3>1. t = Waits(k, sock[s].node, sock[s].dev)
      BY DEF Waits
    <3> HIDE DEF t
    <3> QED BY <2>1, <3>1, WaitShape
  <2> HIDE DEF t
  <2>3. CASE t.tnode = k.node /\ Sent(t.tnode, t.tdev, o) /\ op' = [op EXCEPT ![o] = t] /\ UNCHANGED inbox
    <3>1. /\ wrote' \in [Ops -> SUBSET Socks] /\ browser' \in [Ops -> {"no", "busy", "answered"}]
          /\ peers' = peers
      BY <2>1, <2>2, <2>3, SentShape
    <3> QED BY <1>1, <2>1, <2>2, <2>3, <3>1
  <2>4. CASE /\ t.tnode = k.node /\ NotSent(t.tnode, t.tdev)
             /\ op' = [op EXCEPT ![o] = Done(t, "gone")] /\ UNCHANGED inbox
    <3>1. /\ peers' \in [Nodes -> [Devices -> Socks \cup {None}]]
          /\ \A m \in Nodes, e \in Devices : peers'[m][e] \in {None, peers[m][e]}
          /\ UNCHANGED <<wrote, browser>>
      BY <2>1, <2>2, <2>4, NotSentShape
    <3>2. Done(t, "gone") \in OpRecs /\ Done(t, "gone").pc = "done" /\ Done(t, "gone").node = k.node
          /\ Done(t, "gone").found = k.found
      BY <2>2, DoneShape
    <3> QED BY <1>1, <2>4, <3>1, <3>2
  <2>5. CASE /\ t.tnode # k.node /\ inbox' = Dispatch(t, o, t.tnode)
             /\ op' = [op EXCEPT ![o] = t] /\ UNCHANGED <<peers, wrote, browser>>
    <3> DEFINE f == [kind |-> "dispatch", node |-> k.node, op |-> o, dev |-> t.tdev]
    <3>1. f \in InboxFrames /\ f.kind = "dispatch" /\ f.node = k.node /\ f.op = o
      BY <2>1, <2>2 DEF InboxFrames
    <3>2. inbox' = [inbox EXCEPT ![t.tnode] = Append(@, f)]
      BY <2>2, <2>5 DEF Dispatch, Unicast
    <3> HIDE DEF f
    <3>3. /\ inbox' \in [Nodes -> Seq(InboxFrames)]
          /\ \A m \in Nodes : \A i \in DOMAIN inbox'[m] :
                \/ \E j \in DOMAIN inbox[m] : inbox'[m][i] = inbox[m][j]
                \/ m = t.tnode /\ inbox'[m][i] = f
      BY <1>1, <2>1, <2>2, <3>1, <3>2, Pushed
    <3>4. /\ op' \in [Ops -> OpRecs] /\ \A p \in Ops : p # o => op'[p] = op[p]
          /\ op'[o] = t
      BY <1>1, <2>2, <2>5
    <3>5. \A m \in Nodes : \A i \in DOMAIN inbox'[m] :
             \/ \E j \in DOMAIN inbox[m] : inbox'[m][i] = inbox[m][j]
             \/ /\ inbox'[m][i].kind = "dispatch" /\ inbox'[m][i].op = o
                /\ inbox'[m][i].node = k.node /\ m # k.node
      BY <2>5, <3>1, <3>3
    <3> QED BY <1>1, <2>1, <2>2, <2>5, <3>3, <3>4, <3>5
  <2> QED BY <1>3, <2>3, <2>4, <2>5 DEF t
<1> QED BY <1>2, <1>3 DEF Route

\* Nobody else has a call in care before it is routed.
LEMMA NotInCare ==
    ASSUME TypeInv, NEW o \in Ops, op[o].pc \notin {"wait", "done"}
    PROVE  /\ \A n \in Nodes : o \notin inflight[n]
           /\ \A m \in Nodes : \A i \in DOMAIN inbox[m] : inbox[m][i].kind = "dispatch" => inbox[m][i].op # o
  BY DEF TypeInv, AskedOK

LEMMA RoutedShape ==
    ASSUME TypeInv, NEW o \in Ops, op[o].pc \notin {"wait", "done"}, NEW k \in OpRecs, NEW found,
           Route(o, k, found), found \subseteq Socks, \A s \in found : sock[s].st # "none",
           k.found = found, k.node \in Nodes,
           UNCHANGED <<up, roster, ctrl, sock, live, session, inflight>>
    PROVE  TypeInv'
<1>1. /\ op' \in [Ops -> OpRecs] /\ \A p \in Ops : p # o => op'[p] = op[p]
      /\ op'[o].pc \in {"wait", "done"} /\ op'[o].node = k.node /\ op'[o].found = k.found
      /\ op'[o].pc = "wait" => op'[o].tdev \in Devices
  BY RouteShape
<1>2. /\ inbox' \in [Nodes -> Seq(InboxFrames)]
      /\ \A m \in Nodes : \A i \in DOMAIN inbox'[m] :
            \/ \E j \in DOMAIN inbox[m] : inbox'[m][i] = inbox[m][j]
            \/ /\ inbox'[m][i].kind = "dispatch" /\ inbox'[m][i].op = o
               /\ inbox'[m][i].node = k.node /\ m # k.node
  BY RouteShape
<1>3. /\ peers' \in [Nodes -> [Devices -> Socks \cup {None}]]
      /\ \A m \in Nodes, e \in Devices : peers'[m][e] \in {None, peers[m][e]}
      /\ wrote' \in [Ops -> SUBSET Socks] /\ browser' \in [Ops -> {"no", "busy", "answered"}]
  BY RouteShape
<1>4. TypeOK'
  BY <1>1, <1>3 DEF TypeInv, TypeOK, session
<1>5. MailOK'
  BY <1>2 DEF TypeInv, MailOK
<1>6. OpenedOK'
  <2>1. \A m \in Nodes : \A i \in DOMAIN inbox'[m] :
           inbox'[m][i].kind = "discover-reply" => \A s \in inbox'[m][i].found : sock[s].st # "none"
    BY <1>2 DEF TypeInv, OpenedOK
  <2>2. \A p \in Ops : \A s \in op'[p].found : sock[s].st # "none"
    BY <1>1 DEF TypeInv, OpenedOK
  <2> QED BY <1>3, <2>1, <2>2 DEF TypeInv, OpenedOK
<1>7. AskedOK'
  <2>1. \A m \in Nodes : \A i \in DOMAIN inbox'[m] : LET f == inbox'[m][i] IN
           f.kind = "dispatch" => op'[f.op].pc \in {"wait", "done"} /\ op'[f.op].node = f.node
    <3> SUFFICES ASSUME NEW m \in Nodes, NEW i \in DOMAIN inbox'[m], inbox'[m][i].kind = "dispatch"
                 PROVE  /\ op'[inbox'[m][i].op].pc \in {"wait", "done"}
                        /\ op'[inbox'[m][i].op].node = inbox'[m][i].node
      OBVIOUS
    <3>1. CASE \E j \in DOMAIN inbox[m] : inbox'[m][i] = inbox[m][j]
      <4>1. PICK j \in DOMAIN inbox[m] : inbox'[m][i] = inbox[m][j]
        BY <3>1
      <4>2. inbox[m][j] \in InboxFrames
        BY FrameShape DEF TypeInv
      <4>3. inbox[m][j].op \in Ops \ {o}
        BY <4>1, <4>2, NotInCare DEF InboxFrames
      <4> QED BY <1>1, <4>1, <4>3 DEF TypeInv, AskedOK
    <3>2. CASE inbox'[m][i].op = o /\ inbox'[m][i].node = k.node
      BY <1>1, <3>2
    <3> QED BY <1>2, <3>1, <3>2
  <2>2. \A n \in Nodes : \A p \in inflight'[n] : op'[p].pc \in {"wait", "done"} /\ op'[p].node # n
    BY <1>1, NotInCare DEF TypeInv, TypeOK, AskedOK
  <2>3. \A p \in Ops : /\ op'[p].pc # "idle" => op'[p].node \in Nodes
                       /\ op'[p].pc = "wait" => op'[p].tdev \in Devices
    BY <1>1 DEF TypeInv, AskedOK
  <2> QED BY <2>1, <2>2, <2>3 DEF AskedOK
<1>8. ClaimsOK'
  BY <1>2 DEF TypeInv, ClaimsOK, session
<1> QED BY <1>4, <1>5, <1>6, <1>7, <1>8 DEF TypeInv

\* The record of a call that comes in.
Asked(n, d, kind) ==
    [IdleOp EXCEPT !.node = n, !.dev = d, !.kind = kind, !.since = NewestClaim,
                   !.found = Local(n), !.await = roster[n], !.strict = roster[n] # {}]

LEMMA NewestClaimShape ==
    ASSUME TypeInv, NEW n \in Nodes
    PROVE  /\ NewestClaim \in Nat /\ \A m \in Nodes : owner[m].at <= NewestClaim
           /\ \E m \in Nodes : owner[m].at = NewestClaim
<1>1. \A m \in Nodes : owner[m].at \in Nat
  BY DEF TypeInv, TypeOK, Claims
<1>2. \E at \in {owner[m].at : m \in Nodes} : \A m \in Nodes : owner[m].at <= at
  BY DEF TypeInv, ClaimsOK
<1>3. NewestClaim \in {owner[m].at : m \in Nodes} /\ \A m \in Nodes : owner[m].at <= NewestClaim
  BY <1>2 DEF NewestClaim
<1> QED BY <1>1, <1>3

LEMMA AskedShape ==
    ASSUME TypeInv, NEW n \in Nodes, NEW d \in Devices \cup {None}, NEW kind \in Kinds
    PROVE  LET k == Asked(n, d, kind) IN
           /\ k \in OpRecs /\ k.pc = "idle" /\ k.node = n /\ k.found = Local(n) /\ k.ack = "none"
<1>1. NewestClaim \in Nat /\ Local(n) \in SUBSET Socks /\ roster[n] \in SUBSET Nodes
  BY NewestClaimShape, LocalShape DEF TypeInv, TypeOK
<1> QED BY <1>1 DEF Asked, IdleOp, OpRecs

LEMMA CallShape ==
    ASSUME TypeInv, NEW o \in Ops, NEW n \in Nodes, NEW a \in Asks, Call(o, n, a[1], a[2])
    PROVE  TypeInv'
<1> DEFINE k == Asked(n, a[1], a[2])
           asks == [k EXCEPT !.pc = "discover"]
<1>1. a[1] \in Devices \cup {None} /\ a[2] \in Kinds
  BY AsksAssumption
<1>2. k \in OpRecs /\ k.node = n /\ k.found = Local(n)
  BY <1>1, AskedShape
<1>3. op[o].pc = "idle" /\ UNCHANGED <<up, roster, sock, live, session, inflight>>
  BY DEF Call
<1>4. Local(n) \subseteq Socks /\ \A s \in Local(n) : sock[s].st # "none"
  BY LocalShape
<1>5. CASE Route(o, k, k.found) /\ UNCHANGED ctrl
  <2> HIDE DEF k
  <2> QED BY <1>2, <1>3, <1>4, <1>5, RoutedShape
<1>6. CASE /\ op' = [op EXCEPT ![o] = asks]
           /\ ctrl' = Broadcast(n, [kind |-> "discover", node |-> n, op |-> o])
           /\ UNCHANGED <<inbox, peers, wrote, browser>>
  <2> DEFINE f == [kind |-> "discover", node |-> n, op |-> o]
  <2>1. f \in CtrlFrames /\ f.node = n
    BY DEF CtrlFrames
  <2>2. asks \in OpRecs /\ asks.pc = "discover" /\ asks.node = n /\ asks.found = Local(n)
    <3> HIDE DEF k
    <3> QED BY <1>2 DEF OpRecs
  <2>3. ctrl' = Broadcast(n, f)
    BY <1>6
  <2> HIDE DEF f, k, asks
  <2>4. MailOK'
    BY <1>6, <2>1, <2>3, Told DEF TypeInv, MailOK
  <2>5. /\ op' \in [Ops -> OpRecs] /\ op'[o] = asks
        /\ \A p \in Ops : p # o => op'[p] = op[p]
    BY <1>6, <2>2 DEF TypeInv, TypeOK
  <2>6. TypeOK'
    BY <1>3, <1>6, <2>5 DEF TypeInv, TypeOK, session
  <2>7. OpenedOK'
    BY <1>3, <1>4, <1>6, <2>2, <2>5 DEF TypeInv, OpenedOK
  <2>8. AskedOK'
    <3>1. \A m \in Nodes : \A i \in DOMAIN inbox[m] :
             inbox[m][i].kind = "dispatch" => inbox[m][i].op \in Ops \ {o}
      BY <1>3, NotInCare, FrameShape DEF TypeInv, InboxFrames
    <3>2. \A m \in Nodes : inflight[m] \subseteq Ops \ {o}
      BY <1>3, NotInCare DEF TypeInv, TypeOK
    <3> QED BY <1>3, <1>6, <2>2, <2>5, <3>1, <3>2 DEF TypeInv, AskedOK
  <2>9. ClaimsOK'
    <3>1. f.kind = "discover"
      BY DEF f
    <3>2. \A m \in Nodes : \A i \in DOMAIN ctrl'[m] :
             (\E j \in DOMAIN ctrl[m] : ctrl'[m][i] = ctrl[m][j]) \/ ctrl'[m][i] = f
      BY <2>1, <2>3, Told DEF TypeInv
    <3> QED BY <1>3, <1>6, <3>1, <3>2 DEF TypeInv, ClaimsOK, session
  <2> QED BY <2>4, <2>6, <2>7, <2>8, <2>9 DEF TypeInv
<1> QED BY <1>5, <1>6 DEF Call, Asked

LEMMA ConcludeShape == ASSUME TypeInv, NEW o \in Ops, Conclude(o) PROVE TypeInv'
<1>1. op[o] \in OpRecs /\ op[o].pc = "discover" /\ op[o].node \in Nodes
  BY DEF TypeInv, TypeOK, AskedOK, Conclude
<1>2. op[o].found \subseteq Socks /\ \A s \in op[o].found : sock[s].st # "none"
  BY <1>1 DEF TypeInv, OpenedOK, OpRecs
<1> QED BY <1>1, <1>2, RoutedShape DEF Conclude

\* A call that only gets its answer keeps the rest.
LEMMA AnsweredShape ==
    ASSUME TypeInv, NEW o \in Ops, NEW k \in OpRecs, op' = [op EXCEPT ![o] = k],
           op[o].pc = "wait", k.pc \in {"wait", "done"}, k.node = op[o].node, k.tdev = op[o].tdev,
           k.found = op[o].found, UNCHANGED <<sock, peers, inflight, inbox>>
    PROVE  op' \in [Ops -> OpRecs] /\ OpenedOK' /\ AskedOK'
<1>1. op' \in [Ops -> OpRecs] /\ op'[o] = k /\ \A p \in Ops : p # o => op'[p] = op[p]
  BY DEF TypeInv, TypeOK
<1>2. \A p \in Ops : /\ op'[p].found = op[p].found /\ op'[p].node = op[p].node /\ op'[p].tdev = op[p].tdev
                     /\ op[p].pc \in {"wait", "done"} => op'[p].pc \in {"wait", "done"}
                     /\ op'[p].pc # "idle" => op[p].pc # "idle"
                     /\ op'[p].pc = "wait" => op[p].pc = "wait"
  BY <1>1
<1>3. \A m \in Nodes : \A i \in DOMAIN inbox[m] : inbox[m][i].kind = "dispatch" => inbox[m][i].op \in Ops
  BY FrameShape DEF TypeInv, InboxFrames
<1>4. \A m \in Nodes : inflight[m] \subseteq Ops
  BY DEF TypeInv, TypeOK
<1>5. OpenedOK'
  BY <1>2 DEF TypeInv, OpenedOK
<1>6. AskedOK'
  BY <1>2, <1>3, <1>4 DEF TypeInv, AskedOK
<1> QED BY <1>1, <1>5, <1>6

LEMMA TimeoutShape == ASSUME TypeInv, NEW o \in Ops, Timeout(o) PROVE TypeInv'
<1> DEFINE k == Done(op[o], "timeout")
<1>1. k \in OpRecs /\ k.pc = "done" /\ k.node = op[o].node /\ k.tdev = op[o].tdev /\ k.found = op[o].found
  BY DoneShape DEF TypeInv, TypeOK
<1>2. op' = [op EXCEPT ![o] = k] /\ op[o].pc = "wait"
      /\ UNCHANGED <<up, roster, bus, registry, session, inflight, wrote, browser>>
  BY DEF Timeout
<1> HIDE DEF k
<1>3. op' \in [Ops -> OpRecs] /\ OpenedOK' /\ AskedOK'
  BY <1>1, <1>2, AnsweredShape DEF bus, registry
<1> QED BY <1>2, <1>3 DEF TypeInv, TypeOK, MailOK, ClaimsOK, bus, registry, session

LEMMA FinishShape == ASSUME TypeInv, NEW o \in Ops, Finish(o) PROVE TypeInv'
<1> DEFINE k == op[o]
           n == op[o].node
           claim == [dev |-> IF k.kind = "close" THEN None ELSE k.tdev, at |-> clock + 1]
           f == [kind |-> "drive-owner", node |-> n, claim |-> claim]
           done == Done(k, k.ack)
<1>1. k \in OpRecs /\ k.pc = "wait" /\ n \in Nodes /\ k.tdev \in Devices /\ clock \in Nat
  BY DEF TypeInv, TypeOK, AskedOK, Finish
<1>2. done \in OpRecs /\ done.pc = "done" /\ done.node = n /\ done.tdev = k.tdev /\ done.found = k.found
  BY <1>1, DoneShape DEF OpRecs
<1>3. claim \in Claims /\ claim.at = clock + 1
  BY <1>1 DEF Claims
<1>4. f \in CtrlFrames /\ f.node = n
  BY <1>1, <1>3 DEF CtrlFrames
<1>5. op' = [op EXCEPT ![o] = done] /\ UNCHANGED <<up, roster, inbox, registry, inflight, wrote, browser>>
  BY DEF Finish
<1>6. \/ /\ clock' = clock + 1 /\ owner' = [owner EXCEPT ![n] = claim] /\ ctrl' = Broadcast(n, f)
      \/ UNCHANGED <<session, ctrl>>
  BY DEF Finish
<1> HIDE DEF k, claim, f, done
<1>7. op' \in [Ops -> OpRecs] /\ OpenedOK' /\ AskedOK'
  BY <1>1, <1>2, <1>5, AnsweredShape DEF registry, k
<1>8. MailOK'
  BY <1>1, <1>4, <1>5, <1>6, Told DEF TypeInv, MailOK
<1>9. owner' \in [Nodes -> Claims] /\ clock' \in Nat
  BY <1>1, <1>3, <1>6 DEF TypeInv, TypeOK, session
<1>10. ClaimsOK'
  <2>1. CASE UNCHANGED <<session, ctrl>>
    BY <1>5, <2>1 DEF TypeInv, ClaimsOK, session
  <2>2. CASE clock' = clock + 1 /\ owner' = [owner EXCEPT ![n] = claim] /\ ctrl' = Broadcast(n, f)
    <3>1. \A m \in Nodes : owner[m].at \in Nat
      BY DEF TypeInv, TypeOK, Claims
    <3>2. owner'[n].at = clock' /\ \A m \in Nodes : m # n => owner'[m] = owner[m]
      BY <1>1, <1>3, <2>2 DEF TypeInv, TypeOK
    <3>3. \A at \in Nat : at <= clock => at <= clock'
      BY <1>1, <2>2
    <3>4. \A m \in Nodes : owner'[m].at <= clock'
      BY <1>1, <2>2, <3>1, <3>2, <3>3 DEF TypeInv, ClaimsOK
    <3>5. \A m \in Nodes : \A i \in DOMAIN ctrl'[m] :
             ctrl'[m][i].kind = "drive-owner" => ctrl'[m][i].claim.at <= clock'
      <4>1. \A m \in Nodes : \A i \in DOMAIN ctrl'[m] :
               (\E j \in DOMAIN ctrl[m] : ctrl'[m][i] = ctrl[m][j]) \/ ctrl'[m][i] = f
        BY <1>1, <1>4, <2>2, Told DEF TypeInv
      <4>2. f.claim.at <= clock'
        BY <1>1, <1>3, <2>2 DEF f
      <4>3. \A m \in Nodes : \A i \in DOMAIN ctrl[m] :
               ctrl[m][i].kind = "drive-owner" => ctrl[m][i].claim.at \in Nat
        BY CtrlShape DEF TypeInv, CtrlFrames, Claims
      <4> QED BY <3>3, <4>1, <4>2, <4>3 DEF TypeInv, ClaimsOK
    <3>6. \A m \in Nodes : \A i \in DOMAIN inbox[m] :
             inbox[m][i].kind = "discover-reply" => inbox[m][i].claim.at <= clock'
      BY <3>3, FoundShape DEF TypeInv, ClaimsOK, Claims
    <3> QED BY <1>1, <1>5, <3>2, <3>4, <3>5, <3>6 DEF ClaimsOK
  <2> QED BY <1>6, <2>1, <2>2
<1> QED BY <1>5, <1>7, <1>8, <1>9, <1>10 DEF TypeInv, TypeOK, registry

----------------------------------------------------------------------------
(* The shape of the state: answers and frames.                             *)

LEMMA AckShape ==
    ASSUME TypeInv, NEW s \in Socks, NEW o \in Ops, NEW ack \in {"ok", "failed"}, Ack(s, o, ack)
    PROVE  TypeInv'
<1> DEFINE n == sock[s].node
           k == op[o]
           relayed == ~(k.pc = "wait" /\ k.node = n) /\ o \in inflight[n]
           heard == [k EXCEPT !.ack = ack]
           f == [kind |-> "reply", node |-> n, op |-> o, ack |-> ack]
<1>1. /\ browser' = [browser EXCEPT ![o] = "answered"]
      /\ \/ op' = op
         \/ op' = [op EXCEPT ![o] = heard] /\ k.pc = "wait"
      /\ inflight' = IF relayed THEN [inflight EXCEPT ![n] = @ \ {o}] ELSE inflight
      /\ inbox' = IF relayed THEN [inbox EXCEPT ![k.node] = Append(@, f)] ELSE inbox
      /\ UNCHANGED <<up, roster, ctrl, registry, session, wrote>>
  BY DEF Ack, Unicast
<1>2. n \in Nodes /\ k \in OpRecs
  BY DEF TypeInv, TypeOK, OpenedOK, Ack
<1>3. heard \in OpRecs /\ heard.pc = k.pc /\ heard.node = k.node /\ heard.tdev = k.tdev
      /\ heard.found = k.found
  BY <1>2 DEF OpRecs
<1>4. relayed => k.node \in Nodes \ {n}
  BY <1>2 DEF TypeInv, AskedOK
<1>5. f \in InboxFrames /\ f.kind = "reply" /\ f.node = n
  BY <1>2 DEF InboxFrames
<1> HIDE DEF heard, f, relayed
<1>6. op' \in [Ops -> OpRecs] /\ \A p \in Ops :
         op'[p].pc = op[p].pc /\ op'[p].node = op[p].node /\ op'[p].tdev = op[p].tdev /\ op'[p].found = op[p].found
  BY <1>1, <1>3 DEF TypeInv, TypeOK
<1>7. /\ inbox' \in [Nodes -> Seq(InboxFrames)]
      /\ \A m \in Nodes : \A i \in DOMAIN inbox'[m] :
            \/ \E j \in DOMAIN inbox[m] : inbox'[m][i] = inbox[m][j]
            \/ inbox'[m][i] = f /\ m # n
  <2>1. inbox \in [Nodes -> Seq(InboxFrames)]
    BY DEF TypeInv, MailOK
  <2>2. CASE relayed
    BY <1>1, <1>4, <1>5, <2>1, <2>2, Pushed
  <2>3. CASE ~relayed
    BY <1>1, <2>1, <2>3
  <2> QED BY <2>2, <2>3
<1>8. inflight' \in [Nodes -> SUBSET Ops] /\ \A m \in Nodes : inflight'[m] \subseteq inflight[m]
  BY <1>1, <1>2 DEF TypeInv, TypeOK
<1>9. TypeOK'
  BY <1>1, <1>6, <1>8 DEF TypeInv, TypeOK, registry, session
<1>10. MailOK'
  BY <1>1, <1>5, <1>7 DEF TypeInv, MailOK
<1>11. OpenedOK'
  BY <1>1, <1>5, <1>6, <1>7 DEF TypeInv, OpenedOK, registry
<1>12. AskedOK'
  <2>1. \A m \in Nodes : \A i \in DOMAIN inbox[m] : inbox[m][i].kind = "dispatch" => inbox[m][i].op \in Ops
    BY FrameShape DEF TypeInv, InboxFrames
  <2>2. \A m \in Nodes : \A i \in DOMAIN inbox'[m] : inbox'[m][i].kind = "dispatch" =>
           \E j \in DOMAIN inbox[m] : inbox'[m][i] = inbox[m][j]
    BY <1>5, <1>7
  <2>3. \A m \in Nodes : inflight'[m] \subseteq Ops
    BY <1>8
  <2> QED BY <1>6, <1>8, <2>1, <2>2, <2>3 DEF TypeInv, AskedOK
<1>13. ClaimsOK'
  BY <1>1, <1>5, <1>7 DEF TypeInv, ClaimsOK, session
<1> QED BY <1>9, <1>10, <1>11, <1>12, <1>13 DEF TypeInv

\* A frame for all is taken, and answered with f.
LEMMA TakenShape ==
    ASSUME TypeInv, NEW f,
           ctrl' \in [Nodes -> Seq(CtrlFrames)],
           \A l \in Nodes : \A i \in DOMAIN ctrl'[l] : \E j \in DOMAIN ctrl[l] : ctrl'[l][i] = ctrl[l][j],
           inbox' \in [Nodes -> Seq(InboxFrames)],
           \A l \in Nodes : \A i \in DOMAIN inbox'[l] :
               (\E j \in DOMAIN inbox[l] : inbox'[l][i] = inbox[l][j]) \/ (inbox'[l][i] = f /\ l # f.node),
           f.kind # "dispatch",
           f.kind = "discover-reply" => f.claim.at <= clock /\ \A s \in f.found : sock[s].st # "none",
           UNCHANGED <<sock, peers, op, inflight, owner, clock>>
    PROVE  MailOK' /\ OpenedOK' /\ AskedOK' /\ ClaimsOK'
<1>1. MailOK'
  <2>1. \A l \in Nodes : \A i \in DOMAIN ctrl'[l] : ctrl'[l][i].node # l
    BY DEF TypeInv, MailOK
  <2>2. \A l \in Nodes : \A i \in DOMAIN inbox'[l] : inbox'[l][i].node # l
    BY DEF TypeInv, MailOK
  <2> QED BY <2>1, <2>2 DEF MailOK
<1>2. OpenedOK'
  <2>1. \A l \in Nodes : \A i \in DOMAIN inbox'[l] :
           inbox'[l][i].kind = "discover-reply" => \A s \in inbox'[l][i].found : sock[s].st # "none"
    BY DEF TypeInv, OpenedOK
  <2> QED BY <2>1 DEF TypeInv, OpenedOK
<1>3. AskedOK'
  <2>1. \A l \in Nodes : \A i \in DOMAIN inbox'[l] : LET h == inbox'[l][i] IN
           h.kind = "dispatch" => op[h.op].pc \in {"wait", "done"} /\ op[h.op].node = h.node
    BY DEF TypeInv, AskedOK
  <2> QED BY <2>1 DEF TypeInv, AskedOK
<1>4. ClaimsOK'
  <2>1. \A l \in Nodes : \A i \in DOMAIN ctrl'[l] :
           ctrl'[l][i].kind = "drive-owner" => ctrl'[l][i].claim.at <= clock
    <3>1. \A l \in Nodes : \A j \in DOMAIN ctrl[l] :
             ctrl[l][j].kind = "drive-owner" => ctrl[l][j].claim.at <= clock
      BY DEF TypeInv, ClaimsOK
    <3> TAKE l \in Nodes
    <3> TAKE i \in DOMAIN ctrl'[l]
    <3>2. PICK j \in DOMAIN ctrl[l] : ctrl'[l][i] = ctrl[l][j]
      OBVIOUS
    <3> QED BY <3>1, <3>2
  <2>2. \A l \in Nodes : \A i \in DOMAIN inbox'[l] :
           inbox'[l][i].kind = "discover-reply" => inbox'[l][i].claim.at <= clock
    BY DEF TypeInv, ClaimsOK
  <2> QED BY <2>1, <2>2 DEF TypeInv, ClaimsOK
<1> QED BY <1>1, <1>2, <1>3, <1>4

LEMMA HelloShape == ASSUME TypeInv, NEW n \in Nodes, OnHello(n) PROVE TypeInv'
<1> DEFINE m == Head(ctrl[n]).node
           f == [kind |-> "hello-ack", node |-> n]
<1>1. TakeCtrl(n, "hello") /\ inbox' = [inbox EXCEPT ![m] = Append(@, f)]
      /\ UNCHANGED <<up, registry, session, calls>>
  BY DEF OnHello, Unicast, TakeCtrl
<1>2. /\ ctrl' \in [Nodes -> Seq(CtrlFrames)] /\ m \in Nodes \ {n}
      /\ \A l \in Nodes : \A i \in DOMAIN ctrl'[l] : \E j \in DOMAIN ctrl[l] : ctrl'[l][i] = ctrl[l][j]
      /\ roster' \in [Nodes -> SUBSET Nodes] /\ \A l \in Nodes : l \notin roster'[l]
  BY <1>1, TakesCtrl
<1>3. f \in InboxFrames /\ f.kind = "hello-ack" /\ f.node = n
  BY DEF InboxFrames
<1> HIDE DEF f, m
<1>4. /\ inbox' \in [Nodes -> Seq(InboxFrames)]
      /\ \A l \in Nodes : \A i \in DOMAIN inbox'[l] :
            \/ \E j \in DOMAIN inbox[l] : inbox'[l][i] = inbox[l][j]
            \/ inbox'[l][i] = f /\ l # n
  <2>1. inbox \in [Nodes -> Seq(InboxFrames)]
    BY DEF TypeInv, MailOK
  <2> QED BY <1>1, <1>2, <1>3, <2>1, Pushed
<1>5. TypeOK'
  BY <1>1, <1>2 DEF TypeInv, TypeOK, registry, session, calls
<1>6. UNCHANGED <<sock, peers, op, inflight, owner, clock>>
  BY <1>1 DEF registry, session, calls
<1>7. MailOK' /\ OpenedOK' /\ AskedOK' /\ ClaimsOK'
  <2>1. /\ \A l \in Nodes : \A i \in DOMAIN inbox'[l] :
              (\E j \in DOMAIN inbox[l] : inbox'[l][i] = inbox[l][j]) \/ (inbox'[l][i] = f /\ l # f.node)
        /\ f.kind # "dispatch"
        /\ f.kind = "discover-reply" => f.claim.at <= clock /\ \A s \in f.found : sock[s].st # "none"
    BY <1>3, <1>4
  <2>2. /\ ctrl' \in [Nodes -> Seq(CtrlFrames)]
        /\ \A l \in Nodes : \A i \in DOMAIN ctrl'[l] : \E j \in DOMAIN ctrl[l] : ctrl'[l][i] = ctrl[l][j]
    BY <1>2
  <2>3. inbox' \in [Nodes -> Seq(InboxFrames)]
    BY <1>4
  <2> QED BY <1>6, <2>1, <2>2, <2>3, TakenShape
<1> QED BY <1>5, <1>7 DEF TypeInv

LEMMA DiscoverShape == ASSUME TypeInv, NEW n \in Nodes, OnDiscover(n) PROVE TypeInv'
<1> DEFINE h == Head(ctrl[n])
           f == [kind |-> "discover-reply", node |-> n, op |-> h.op, found |-> Local(n), claim |-> owner[n]]
<1>1. TakeCtrl(n, "discover") /\ inbox' = [inbox EXCEPT ![h.node] = Append(@, f)]
      /\ UNCHANGED <<up, registry, session, calls>>
  BY DEF OnDiscover, Unicast, TakeCtrl
<1>2. /\ ctrl' \in [Nodes -> Seq(CtrlFrames)] /\ h.node \in Nodes \ {n} /\ h \in CtrlFrames
      /\ h.kind = "discover"
      /\ \A l \in Nodes : \A i \in DOMAIN ctrl'[l] : \E j \in DOMAIN ctrl[l] : ctrl'[l][i] = ctrl[l][j]
      /\ roster' \in [Nodes -> SUBSET Nodes] /\ \A l \in Nodes : l \notin roster'[l]
  BY <1>1, TakesCtrl
<1>3. h.op \in Ops /\ owner[n] \in Claims
  BY <1>2 DEF CtrlFrames, TypeInv, TypeOK
<1>4. f \in InboxFrames /\ f.kind = "discover-reply" /\ f.node = n /\ f.found = Local(n) /\ f.claim = owner[n]
  BY <1>3, LocalShape DEF InboxFrames
<1> HIDE DEF f, h
<1>5. /\ inbox' \in [Nodes -> Seq(InboxFrames)]
      /\ \A l \in Nodes : \A i \in DOMAIN inbox'[l] :
            \/ \E j \in DOMAIN inbox[l] : inbox'[l][i] = inbox[l][j]
            \/ inbox'[l][i] = f /\ l # n
  <2>1. inbox \in [Nodes -> Seq(InboxFrames)]
    BY DEF TypeInv, MailOK
  <2> QED BY <1>1, <1>2, <1>4, <2>1, Pushed
<1>6. TypeOK'
  BY <1>1, <1>2 DEF TypeInv, TypeOK, registry, session, calls
<1>7. f.claim.at <= clock /\ \A s \in f.found : sock[s].st # "none"
  BY <1>4, LocalShape DEF TypeInv, ClaimsOK
<1>8. UNCHANGED <<sock, peers, op, inflight, owner, clock>>
  BY <1>1 DEF registry, session, calls
<1>9. MailOK' /\ OpenedOK' /\ AskedOK' /\ ClaimsOK'
  <2>1. /\ \A l \in Nodes : \A i \in DOMAIN inbox'[l] :
              (\E j \in DOMAIN inbox[l] : inbox'[l][i] = inbox[l][j]) \/ (inbox'[l][i] = f /\ l # f.node)
        /\ f.kind # "dispatch"
        /\ f.kind = "discover-reply" => f.claim.at <= clock /\ \A s \in f.found : sock[s].st # "none"
    BY <1>4, <1>5, <1>7
  <2>2. /\ ctrl' \in [Nodes -> Seq(CtrlFrames)]
        /\ \A l \in Nodes : \A i \in DOMAIN ctrl'[l] : \E j \in DOMAIN ctrl[l] : ctrl'[l][i] = ctrl[l][j]
    BY <1>2
  <2>3. inbox' \in [Nodes -> Seq(InboxFrames)]
    BY <1>5
  <2> QED BY <1>8, <2>1, <2>2, <2>3, TakenShape
<1> QED BY <1>6, <1>9 DEF TypeInv

\* The newest claim stays known when a worker takes over a newer one.
LEMMA MergedShape ==
    ASSUME TypeInv, NEW n \in Nodes, NEW claim \in Claims, claim.at <= clock,
           owner' = [owner EXCEPT ![n] = Newer(@, claim)], clock' = clock
    PROVE  /\ owner' \in [Nodes -> Claims]
           /\ \A m \in Nodes : owner'[m].at <= clock'
           /\ \E k \in Nodes : \A m \in Nodes : owner'[m].at <= owner'[k].at
<1>1. \A m \in Nodes : owner[m] \in Claims /\ owner[m].at \in Nat
  BY DEF TypeInv, TypeOK, Claims
<1>2. claim.at \in Nat
  BY DEF Claims
<1>3. owner' \in [Nodes -> Claims] /\ \A m \in Nodes : m # n => owner'[m] = owner[m]
  BY <1>1 DEF Newer, TypeInv, TypeOK
<1>4. owner'[n].at >= owner[n].at /\ owner'[n].at >= claim.at /\ owner'[n].at \in {owner[n].at, claim.at}
  BY <1>1, <1>2 DEF Newer, TypeInv, TypeOK
<1>5. \A m \in Nodes : owner'[m].at <= clock'
  BY <1>3, <1>4 DEF TypeInv, ClaimsOK
<1>6. PICK k \in Nodes : \A m \in Nodes : owner[m].at <= owner[k].at
  BY DEF TypeInv, ClaimsOK
<1>7. \/ \A m \in Nodes : owner'[m].at <= owner'[n].at
      \/ \A m \in Nodes : owner'[m].at <= owner'[k].at
  BY <1>1, <1>2, <1>3, <1>4, <1>6
<1> QED BY <1>3, <1>5, <1>7

LEMMA DriveOwnerShape == ASSUME TypeInv, NEW n \in Nodes, OnDriveOwner(n) PROVE TypeInv'
<1> DEFINE h == Head(ctrl[n])
<1>1. TakeCtrl(n, "drive-owner") /\ owner' = [owner EXCEPT ![n] = Newer(@, h.claim)]
      /\ UNCHANGED <<up, inbox, registry, clock, calls>>
  BY DEF OnDriveOwner, TakeCtrl
<1>2. /\ ctrl' \in [Nodes -> Seq(CtrlFrames)] /\ h \in CtrlFrames /\ h.kind = "drive-owner"
      /\ \E j \in DOMAIN ctrl[n] : h = ctrl[n][j]
      /\ \A l \in Nodes : \A i \in DOMAIN ctrl'[l] : \E j \in DOMAIN ctrl[l] : ctrl'[l][i] = ctrl[l][j]
      /\ roster' \in [Nodes -> SUBSET Nodes] /\ \A l \in Nodes : l \notin roster'[l]
  BY <1>1, TakesCtrl
<1>3. h.claim \in Claims /\ h.claim.at <= clock
  BY <1>2 DEF CtrlFrames, TypeInv, ClaimsOK
<1>4. /\ owner' \in [Nodes -> Claims] /\ \A m \in Nodes : owner'[m].at <= clock'
      /\ \E k \in Nodes : \A m \in Nodes : owner'[m].at <= owner'[k].at
  BY <1>1, <1>3, MergedShape
<1> HIDE DEF h
<1>5. TypeOK'
  BY <1>1, <1>2, <1>4 DEF TypeInv, TypeOK, registry, calls
<1>6. MailOK' /\ OpenedOK' /\ AskedOK'
  BY <1>1, <1>2 DEF TypeInv, MailOK, OpenedOK, AskedOK, registry, calls
<1>7. ClaimsOK'
  BY <1>1, <1>2, <1>4 DEF TypeInv, ClaimsOK
<1> QED BY <1>5, <1>6, <1>7 DEF TypeInv

LEMMA SupersedeShape == ASSUME TypeInv, NEW n \in Nodes, OnSupersede(n) PROVE TypeInv'
<1> DEFINE h == Head(ctrl[n])
           s == peers[n][h.dev]
           shut == [sock[s] EXCEPT !.st = "shut"]
<1>1. /\ TakeCtrl(n, "supersede")
      /\ \/ s # None /\ peers' = [peers EXCEPT ![n][h.dev] = None] /\ sock' = [sock EXCEPT ![s] = shut]
         \/ UNCHANGED <<peers, sock>>
      /\ UNCHANGED <<up, inbox, live, session, calls>>
  BY DEF OnSupersede, TakeCtrl
<1>2. /\ ctrl' \in [Nodes -> Seq(CtrlFrames)] /\ h \in CtrlFrames /\ h.kind = "supersede"
      /\ \A l \in Nodes : \A i \in DOMAIN ctrl'[l] : \E j \in DOMAIN ctrl[l] : ctrl'[l][i] = ctrl[l][j]
      /\ roster' \in [Nodes -> SUBSET Nodes] /\ \A l \in Nodes : l \notin roster'[l]
  BY <1>1, TakesCtrl
<1>3. h.dev \in Devices
  BY <1>2 DEF CtrlFrames
<1>4. s # None => /\ s \in Socks /\ sock[s].node = n /\ sock[s].dev = h.dev /\ sock[s].st = "open"
                  /\ shut \in SockRecs /\ shut.st = "shut" /\ shut.node = n /\ shut.dev = h.dev
  <2>1. s # None => /\ s \in Socks /\ sock[s].node = n /\ sock[s].dev = h.dev /\ sock[s].st = "open"
                    /\ sock[s] \in SockRecs
    BY <1>3 DEF TypeInv, TypeOK, OpenedOK
  <2>2. sock[s] \in SockRecs => /\ shut \in SockRecs /\ shut.st = "shut"
                                /\ shut.node = sock[s].node /\ shut.dev = sock[s].dev
    BY DEF SockRecs
  <2> QED BY <2>1, <2>2
<1> HIDE DEF h, shut
<1>5. /\ peers' \in [Nodes -> [Devices -> Socks \cup {None}]] /\ sock' \in [Socks -> SockRecs]
      /\ \A k \in Socks : /\ sock'[k].node = sock[k].node /\ sock'[k].dev = sock[k].dev
                          /\ sock'[k].st = "none" <=> sock[k].st = "none"
      /\ \A m \in Nodes, d \in Devices : peers'[m][d] # None =>
            /\ peers'[m][d] = peers[m][d] /\ sock'[peers[m][d]] = sock[peers[m][d]]
  <2>1. peers \in [Nodes -> [Devices -> Socks \cup {None}]] /\ sock \in [Socks -> SockRecs]
    BY DEF TypeInv, TypeOK
  <2>2. CASE UNCHANGED <<peers, sock>>
    BY <2>1, <2>2
  <2>3. CASE s # None /\ peers' = [peers EXCEPT ![n][h.dev] = None] /\ sock' = [sock EXCEPT ![s] = shut]
    <3>1. /\ peers' \in [Nodes -> [Devices -> Socks \cup {None}]] /\ sock' \in [Socks -> SockRecs]
          /\ sock'[s] = shut /\ \A k \in Socks : k # s => sock'[k] = sock[k]
          /\ \A m \in Nodes, d \in Devices :
                peers'[m][d] = IF m = n /\ d = h.dev THEN None ELSE peers[m][d]
      BY <1>3, <1>4, <2>1, <2>3
    <3>2. \A m \in Nodes, d \in Devices : peers[m][d] = s => m = n /\ d = h.dev
      BY <1>4, <2>3 DEF TypeInv, OpenedOK
    <3>3. \A m \in Nodes, d \in Devices : peers'[m][d] # None =>
             peers'[m][d] = peers[m][d] /\ peers[m][d] \in Socks \ {s}
      BY <2>1, <3>1, <3>2
    <3>4. \A k \in Socks : /\ sock'[k].node = sock[k].node /\ sock'[k].dev = sock[k].dev
                           /\ sock'[k].st = "none" <=> sock[k].st = "none"
      BY <1>4, <2>3, <3>1
    <3> QED BY <3>1, <3>3, <3>4
  <2> QED BY <1>1, <2>2, <2>3
<1>6. TypeOK'
  BY <1>1, <1>2, <1>5 DEF TypeInv, TypeOK, session, calls
<1>7. MailOK' /\ AskedOK' /\ ClaimsOK'
  BY <1>1, <1>2 DEF TypeInv, MailOK, AskedOK, ClaimsOK, session, calls
<1>8. OpenedOK'
  <2>1. \A o \in Ops : op[o].found \subseteq Socks
    BY DEF TypeInv, TypeOK, OpRecs
  <2>2. \A m \in Nodes, d \in Devices : peers'[m][d] # None =>
           /\ sock'[peers'[m][d]].st = "open"
           /\ sock'[peers'[m][d]].node = m /\ sock'[peers'[m][d]].dev = d
    BY <1>5 DEF TypeInv, OpenedOK
  <2>3. \A k \in Socks : /\ sock[k].st # "none" => sock'[k].st # "none"
                         /\ sock'[k].st # "none" => sock'[k].node \in Nodes /\ sock'[k].dev \in Devices
    BY <1>5 DEF TypeInv, OpenedOK
  <2> QED BY <1>1, <2>1, <2>2, <2>3, FoundShape DEF TypeInv, OpenedOK, calls
<1> QED BY <1>6, <1>7, <1>8 DEF TypeInv

\* A frame of the worker's own is taken.
LEMMA InboxTaken ==
    ASSUME TypeInv, NEW n \in Nodes, NEW kind, TakeInbox(n, kind), Handled(n)
    PROVE  /\ inbox' \in [Nodes -> Seq(InboxFrames)]
           /\ \A l \in Nodes : \A i \in DOMAIN inbox'[l] : \E j \in DOMAIN inbox[l] : inbox'[l][i] = inbox[l][j]
<1>1. inbox \in [Nodes -> Seq(InboxFrames)] /\ inbox[n] # << >> /\ inbox' = [inbox EXCEPT ![n] = Tail(@)]
  BY TakesInbox DEF Handled
<1> QED BY <1>1, Popped

\* What a dispatch in a mailbox says stays true while its call is not forgotten.
LEMMA DispatchKept ==
    ASSUME TypeInv,
           \A l \in Nodes : \A i \in DOMAIN inbox'[l] : \E j \in DOMAIN inbox[l] : inbox'[l][i] = inbox[l][j],
           \A p \in Ops : op'[p].pc = op[p].pc /\ op'[p].node = op[p].node
    PROVE  \A l \in Nodes : \A i \in DOMAIN inbox'[l] : LET f == inbox'[l][i] IN
               f.kind = "dispatch" => op'[f.op].pc \in {"wait", "done"} /\ op'[f.op].node = f.node
<1> SUFFICES ASSUME NEW l \in Nodes, NEW i \in DOMAIN inbox'[l], inbox'[l][i].kind = "dispatch"
             PROVE  /\ op'[inbox'[l][i].op].pc \in {"wait", "done"}
                    /\ op'[inbox'[l][i].op].node = inbox'[l][i].node
  OBVIOUS
<1>1. PICK j \in DOMAIN inbox[l] : inbox'[l][i] = inbox[l][j]
  OBVIOUS
<1>2. inbox[l][j].op \in Ops
  BY <1>1, FrameShape DEF TypeInv, InboxFrames
<1>3. op[inbox[l][j].op].pc \in {"wait", "done"} /\ op[inbox[l][j].op].node = inbox[l][j].node
  BY <1>1 DEF TypeInv, AskedOK
<1> QED BY <1>1, <1>2, <1>3

LEMMA HelloAckShape == ASSUME TypeInv, NEW n \in Nodes, OnHelloAck(n) PROVE TypeInv'
<1>1. TakeInbox(n, "hello-ack") /\ Handled(n) /\ UNCHANGED <<up, ctrl, registry, session, calls>>
  BY DEF OnHelloAck, TakeInbox
<1>2. roster' \in [Nodes -> SUBSET Nodes] /\ \A m \in Nodes : m \notin roster'[m]
  BY <1>1, TakesInbox
<1>3. /\ inbox' \in [Nodes -> Seq(InboxFrames)]
      /\ \A l \in Nodes : \A i \in DOMAIN inbox'[l] : \E j \in DOMAIN inbox[l] : inbox'[l][i] = inbox[l][j]
  BY <1>1, InboxTaken
<1>4. TypeOK'
  BY <1>1, <1>2 DEF TypeInv, TypeOK, registry, session, calls
<1>5. MailOK' /\ OpenedOK'
  BY <1>1, <1>3 DEF TypeInv, MailOK, OpenedOK, registry, calls
<1>6. AskedOK'
  BY <1>1, <1>3 DEF TypeInv, AskedOK, calls
<1>7. ClaimsOK'
  BY <1>1, <1>3 DEF TypeInv, ClaimsOK, session
<1> QED BY <1>4, <1>5, <1>6, <1>7 DEF TypeInv

LEMMA DiscoverReplyShape == ASSUME TypeInv, NEW n \in Nodes, OnDiscoverReply(n) PROVE TypeInv'
<1> DEFINE h == Head(inbox[n])
           o == h.op
           merged == [op[o] EXCEPT !.found = @ \cup h.found, !.await = @ \ {h.node}]
<1>1. /\ TakeInbox(n, "discover-reply") /\ Handled(n)
      /\ \/ /\ op[o].pc = "discover" /\ op' = [op EXCEPT ![o] = merged]
            /\ owner' = [owner EXCEPT ![n] = Newer(@, h.claim)]
         \/ UNCHANGED <<op, owner>>
      /\ UNCHANGED <<up, ctrl, registry, clock, inflight, wrote, browser>>
  <2>1. o \in Ops /\ op \in [Ops -> OpRecs]
    <3>1. h \in InboxFrames /\ h.kind = "discover-reply"
      BY TakesInbox DEF OnDiscoverReply
    <3> QED BY <3>1 DEF InboxFrames, TypeInv, TypeOK
  <2>2. [op EXCEPT ![o].found = @ \cup h.found, ![o].await = @ \ {h.node}] = [op EXCEPT ![o] = merged]
    <3>1. op[o] \in OpRecs
      BY <2>1
    <3> QED BY <2>1, <3>1 DEF OpRecs
  <2> QED BY <2>2 DEF OnDiscoverReply, TakeInbox
<1>2. /\ 1 \in DOMAIN inbox[n] /\ h = inbox[n][1] /\ h.kind = "discover-reply"
      /\ roster' \in [Nodes -> SUBSET Nodes] /\ \A l \in Nodes : l \notin roster'[l]
  BY <1>1, TakesInbox
<1>3. /\ inbox' \in [Nodes -> Seq(InboxFrames)]
      /\ \A l \in Nodes : \A i \in DOMAIN inbox'[l] : \E j \in DOMAIN inbox[l] : inbox'[l][i] = inbox[l][j]
  BY <1>1, InboxTaken
<1>4. o \in Ops /\ h.found \in SUBSET Socks /\ h.claim \in Claims
  BY <1>2, FoundShape DEF TypeInv
<1>5. h.claim.at <= clock /\ \A s \in h.found : sock[s].st # "none"
  BY <1>2 DEF TypeInv, OpenedOK, ClaimsOK
<1>6. op[o] \in OpRecs
  BY <1>4 DEF TypeInv, TypeOK
<1>7. /\ merged \in OpRecs /\ merged.pc = op[o].pc /\ merged.node = op[o].node
      /\ merged.found = op[o].found \cup h.found
  <2> HIDE DEF h
  <2> QED BY <1>4, <1>6 DEF OpRecs
<1> HIDE DEF h, o, merged
<1>8. /\ op' \in [Ops -> OpRecs]
      /\ \A p \in Ops : op'[p].pc = op[p].pc /\ op'[p].node = op[p].node
      /\ \A p \in Ops : op'[p] = op[p] \/ (op'[p] = merged /\ p = o /\ op[o].pc = "discover")
  <2>1. op \in [Ops -> OpRecs]
    BY DEF TypeInv, TypeOK
  <2>2. op' = op \/ (op[o].pc = "discover" /\ op' = [op EXCEPT ![o] = merged])
    BY <1>1
  <2> QED BY <1>4, <1>7, <2>1, <2>2
<1>9. /\ owner' \in [Nodes -> Claims] /\ \A m \in Nodes : owner'[m].at <= clock'
      /\ \E k \in Nodes : \A m \in Nodes : owner'[m].at <= owner'[k].at
  <2>1. CASE UNCHANGED owner
    BY <1>1, <2>1 DEF TypeInv, TypeOK, ClaimsOK
  <2>2. CASE owner' = [owner EXCEPT ![n] = Newer(@, h.claim)]
    BY <1>1, <1>4, <1>5, <2>2, MergedShape
  <2> QED BY <1>1, <2>1, <2>2
<1>10. TypeOK'
  BY <1>1, <1>2, <1>8, <1>9 DEF TypeInv, TypeOK, registry
<1>11. MailOK'
  BY <1>1, <1>3 DEF TypeInv, MailOK
<1>12. OpenedOK'
  <2>1. \A p \in Ops : \A s \in op'[p].found : sock[s].st # "none"
    BY <1>5, <1>7, <1>8 DEF TypeInv, OpenedOK
  <2>2. \A l \in Nodes : \A i \in DOMAIN inbox'[l] :
           inbox'[l][i].kind = "discover-reply" => \A s \in inbox'[l][i].found : sock[s].st # "none"
    BY <1>3 DEF TypeInv, OpenedOK
  <2> QED BY <1>1, <2>1, <2>2 DEF TypeInv, OpenedOK, registry
<1>13. AskedOK'
  <2>1. \A p \in Ops : op'[p].pc = "wait" => op'[p].tdev \in Devices
    BY <1>7, <1>8 DEF TypeInv, AskedOK
  <2>2. \A m \in Nodes : \A p \in inflight[m] : p \in Ops
    BY DEF TypeInv, TypeOK
  <2>3. \A l \in Nodes : \A i \in DOMAIN inbox'[l] : LET f == inbox'[l][i] IN
           f.kind = "dispatch" => op'[f.op].pc \in {"wait", "done"} /\ op'[f.op].node = f.node
    BY <1>3, <1>8, DispatchKept
  <2> QED BY <1>1, <1>8, <2>1, <2>2, <2>3 DEF TypeInv, AskedOK
<1>14. ClaimsOK'
  <2>1. \A l \in Nodes : \A i \in DOMAIN inbox'[l] :
           inbox'[l][i].kind = "discover-reply" => inbox'[l][i].claim.at <= clock
    BY <1>3 DEF TypeInv, ClaimsOK
  <2> QED BY <1>1, <1>9, <2>1 DEF TypeInv, ClaimsOK
<1> QED BY <1>10, <1>11, <1>12, <1>13, <1>14 DEF TypeInv

LEMMA ReplyShape == ASSUME TypeInv, NEW n \in Nodes, OnReply(n) PROVE TypeInv'
<1> DEFINE h == Head(inbox[n])
           o == h.op
           heard == [op[o] EXCEPT !.ack = h.ack]
<1>1. /\ TakeInbox(n, "reply") /\ Handled(n)
      /\ op' = op \/ op' = [op EXCEPT ![o] = heard]
      /\ UNCHANGED <<up, ctrl, registry, session, inflight, wrote, browser>>
  BY DEF OnReply, TakeInbox
<1>2. /\ h \in InboxFrames /\ h.kind = "reply"
      /\ roster' \in [Nodes -> SUBSET Nodes] /\ \A l \in Nodes : l \notin roster'[l]
  BY <1>1, TakesInbox
<1>3. /\ inbox' \in [Nodes -> Seq(InboxFrames)]
      /\ \A l \in Nodes : \A i \in DOMAIN inbox'[l] : \E j \in DOMAIN inbox[l] : inbox'[l][i] = inbox[l][j]
  BY <1>1, InboxTaken
<1>4. o \in Ops /\ h.ack \in {"ok", "failed", "gone"}
  BY <1>2 DEF InboxFrames
<1>5. op[o] \in OpRecs
  BY <1>4 DEF TypeInv, TypeOK
<1>6. /\ heard \in OpRecs /\ heard.pc = op[o].pc /\ heard.node = op[o].node
      /\ heard.tdev = op[o].tdev /\ heard.found = op[o].found
  <2> HIDE DEF h
  <2> QED BY <1>4, <1>5 DEF OpRecs
<1> HIDE DEF h, o, heard
<1>7. /\ op' \in [Ops -> OpRecs]
      /\ \A p \in Ops : op'[p].pc = op[p].pc /\ op'[p].node = op[p].node
                        /\ op'[p].tdev = op[p].tdev /\ op'[p].found = op[p].found
  BY <1>1, <1>4, <1>6 DEF TypeInv, TypeOK
<1>8. TypeOK'
  BY <1>1, <1>2, <1>7 DEF TypeInv, TypeOK, registry, session
<1>9. MailOK'
  BY <1>1, <1>3 DEF TypeInv, MailOK
<1>10. OpenedOK'
  BY <1>1, <1>3, <1>7 DEF TypeInv, OpenedOK, registry
<1>11. AskedOK'
  <2>1. \A m \in Nodes : \A p \in inflight[m] : p \in Ops
    BY DEF TypeInv, TypeOK
  <2>2. \A l \in Nodes : \A i \in DOMAIN inbox'[l] : LET f == inbox'[l][i] IN
           f.kind = "dispatch" => op'[f.op].pc \in {"wait", "done"} /\ op'[f.op].node = f.node
    BY <1>3, <1>7, DispatchKept
  <2> QED BY <1>1, <1>7, <2>1, <2>2 DEF TypeInv, AskedOK
<1>12. ClaimsOK'
  BY <1>1, <1>3 DEF TypeInv, ClaimsOK, session
<1> QED BY <1>8, <1>9, <1>10, <1>11, <1>12 DEF TypeInv

LEMMA DispatchShape == ASSUME TypeInv, NEW n \in Nodes, OnDispatch(n) PROVE TypeInv'
<1> DEFINE h == Head(inbox[n])
           o == h.op
           f == [kind |-> "reply", node |-> n, op |-> o, ack |-> "gone"]
           kept == {p \in inflight[n] : op[p].pc = "wait"}
<1>1. /\ TakeInbox(n, "dispatch") /\ UNCHANGED <<up, ctrl, sock, live, session, op>>
      /\ \/ /\ Sent(n, h.dev, o) /\ Handled(n)
            /\ inflight' = [inflight EXCEPT ![n] = kept \cup {o}]
         \/ /\ NotSent(n, h.dev) /\ HandledWith(n, h.node, f)
            /\ inflight' = inflight \/ inflight' = [inflight EXCEPT ![n] = kept]
  BY DEF OnDispatch, TakeInbox
<1>2. /\ inbox \in [Nodes -> Seq(InboxFrames)] /\ inbox[n] # << >>
      /\ h \in InboxFrames /\ h.kind = "dispatch" /\ h.node \in Nodes \ {n}
      /\ 1 \in DOMAIN inbox[n] /\ h = inbox[n][1]
      /\ roster' \in [Nodes -> SUBSET Nodes] /\ \A l \in Nodes : l \notin roster'[l]
  BY <1>1, TakesInbox
<1>3. o \in Ops /\ h.dev \in Devices
  BY <1>2 DEF InboxFrames
<1>4. f \in InboxFrames /\ f.kind = "reply" /\ f.node = n
  BY <1>3 DEF InboxFrames
<1>5. op[o].pc \in {"wait", "done"} /\ op[o].node # n
  BY <1>2 DEF TypeInv, AskedOK
<1>6. kept \subseteq inflight[n] /\ inflight[n] \subseteq Ops
  BY DEF TypeInv, TypeOK
<1> HIDE DEF h, o, f, kept
<1>7. /\ inbox' \in [Nodes -> Seq(InboxFrames)]
      /\ \A l \in Nodes : \A i \in DOMAIN inbox'[l] :
            \/ \E j \in DOMAIN inbox[l] : inbox'[l][i] = inbox[l][j]
            \/ inbox'[l][i] = f /\ l # n
  <2>1. CASE Handled(n)
    BY <1>1, <2>1, InboxTaken
  <2>2. CASE HandledWith(n, h.node, f)
    <3> DEFINE taken == [inbox EXCEPT ![n] = Tail(@)]
    <3>1. /\ taken \in [Nodes -> Seq(InboxFrames)]
          /\ \A m \in Nodes : m # n => taken[m] = inbox[m]
          /\ \A i \in DOMAIN taken[n] : i + 1 \in DOMAIN inbox[n] /\ taken[n][i] = inbox[n][i + 1]
      BY <1>2, Popped
    <3>2. inbox' = [taken EXCEPT ![h.node] = Append(@, f)]
      BY <1>2, <2>2 DEF HandledWith
    <3> HIDE DEF taken
    <3>3. /\ inbox' \in [Nodes -> Seq(InboxFrames)]
          /\ \A m \in Nodes : m # h.node => inbox'[m] = taken[m]
          /\ \A i \in DOMAIN inbox'[h.node] :
                (i \in DOMAIN taken[h.node] /\ inbox'[h.node][i] = taken[h.node][i]) \/ inbox'[h.node][i] = f
      BY <1>2, <1>4, <3>1, <3>2, Pushed
    <3>4. \A l \in Nodes : \A i \in DOMAIN taken[l] : \E j \in DOMAIN inbox[l] : taken[l][i] = inbox[l][j]
      BY <3>1
    <3>5. \A l \in Nodes : \A i \in DOMAIN inbox'[l] :
             \/ i \in DOMAIN taken[l] /\ inbox'[l][i] = taken[l][i]
             \/ inbox'[l][i] = f /\ l = h.node
      BY <3>3
    <3>6. h.node # n
      BY <1>2
    <3> QED BY <3>3, <3>4, <3>5, <3>6
  <2> QED BY <1>1, <2>1, <2>2
<1>8. inflight' \in [Nodes -> SUBSET Ops] /\ \A m \in Nodes : \A p \in inflight'[m] :
         p \in inflight[m] \/ (p = o /\ m = n)
  BY <1>1, <1>3, <1>6 DEF TypeInv, TypeOK
<1>9. /\ peers' \in [Nodes -> [Devices -> Socks \cup {None}]]
      /\ \A m \in Nodes, e \in Devices : peers'[m][e] \in {None, peers[m][e]}
      /\ wrote' \in [Ops -> SUBSET Socks] /\ browser' \in [Ops -> {"no", "busy", "answered"}]
  <2>1. CASE Sent(n, h.dev, o)
    BY <1>3, <2>1, SentShape DEF TypeInv, TypeOK
  <2>2. CASE NotSent(n, h.dev)
    BY <1>3, <2>2, NotSentShape DEF TypeInv, TypeOK
  <2> QED BY <1>1, <2>1, <2>2
<1>10. TypeOK'
  BY <1>1, <1>2, <1>8, <1>9 DEF TypeInv, TypeOK, session
<1>11. MailOK'
  BY <1>1, <1>4, <1>7 DEF TypeInv, MailOK
<1>12. OpenedOK'
  <2>1. \A l \in Nodes : \A i \in DOMAIN inbox'[l] :
           inbox'[l][i].kind = "discover-reply" => \A s \in inbox'[l][i].found : sock[s].st # "none"
    BY <1>4, <1>7 DEF TypeInv, OpenedOK
  <2> QED BY <1>1, <1>9, <2>1 DEF TypeInv, OpenedOK
<1>13. AskedOK'
  <2>1. \A l \in Nodes : \A i \in DOMAIN inbox'[l] : LET g == inbox'[l][i] IN
           g.kind = "dispatch" => op[g.op].pc \in {"wait", "done"} /\ op[g.op].node = g.node
    BY <1>4, <1>7 DEF TypeInv, AskedOK
  <2> QED BY <1>1, <1>5, <1>8, <2>1 DEF TypeInv, AskedOK
<1>14. ClaimsOK'
  <2>1. \A l \in Nodes : \A i \in DOMAIN inbox'[l] :
           inbox'[l][i].kind = "discover-reply" => inbox'[l][i].claim.at <= clock
    BY <1>4, <1>7 DEF TypeInv, ClaimsOK
  <2> QED BY <1>1, <2>1 DEF TypeInv, ClaimsOK, session
<1> QED BY <1>10, <1>11, <1>12, <1>13, <1>14 DEF TypeInv

----------------------------------------------------------------------------
(* The shape of the state: every step keeps it.                            *)

LEMMA InitShape == ASSUME Init PROVE TypeInv
<1>1. PICK S \in SUBSET Nodes :
         /\ up = [n \in Nodes |-> IF n \in S THEN "up" ELSE "down"]
         /\ roster = [n \in Nodes |-> IF n \in S THEN S \ {n} ELSE {}]
  BY DEF Init
<1>2. /\ up \in [Nodes -> {"down", "boot", "up"}]
      /\ roster \in [Nodes -> SUBSET Nodes] /\ \A n \in Nodes : n \notin roster[n]
  BY <1>1
<1>3. NoSock \in SockRecs /\ NoSock.st = "none" /\ NoSock.at = 0
  BY DEF NoSock, SockRecs
<1>4. IdleOp \in OpRecs /\ IdleOp.pc = "idle" /\ IdleOp.found = {}
  BY DEF IdleOp, OpRecs, Kinds
<1>5. TypeOK
  BY <1>2, <1>3, <1>4 DEF Init, TypeOK, Claims
<1>6. MailOK
  BY DEF Init, MailOK
<1>7. OpenedOK /\ AskedOK
  BY <1>3, <1>4 DEF Init, OpenedOK, AskedOK
<1>8. ClaimsOK
  BY DEF Init, ClaimsOK
<1> QED BY <1>5, <1>6, <1>7, <1>8 DEF TypeInv

LEMMA NextShape == ASSUME TypeInv, [Next]_vars PROVE TypeInv'
<1>1. ASSUME NEW n \in Nodes, CtrlStep(n) PROVE TypeInv'
  BY <1>1, HelloShape, DiscoverShape, DriveOwnerShape, SupersedeShape DEF CtrlStep
<1>2. ASSUME NEW n \in Nodes, InboxStep(n) PROVE TypeInv'
  BY <1>2, HelloAckShape, DiscoverReplyShape, DispatchShape, ReplyShape DEF InboxStep
<1>3. ASSUME NEW s \in Socks, Register(s) \/ Announce(s) \/ Disconnect(s) PROVE TypeInv'
  BY <1>3, RegisterShape, AnnounceShape, DisconnectShape
<1>4. ASSUME NEW o \in Ops, Conclude(o) \/ Finish(o) \/ Timeout(o) PROVE TypeInv'
  BY <1>4, ConcludeShape, FinishShape, TimeoutShape
<1>5. CASE UNCHANGED vars
  BY <1>5 DEF TypeInv, TypeOK, MailOK, OpenedOK, AskedOK, ClaimsOK, vars, bus, registry, session, calls
<1> QED BY <1>1, <1>2, <1>3, <1>4, <1>5, StartShape, BootstrappedShape, LeaveShape, ConnectShape, CallShape, AckShape
        DEF Next

LEMMA TypeInvariant == Spec => []TypeInv
<1>1. Init => TypeInv
  BY InitShape
<1>2. TypeInv /\ [Next]_vars => TypeInv'
  BY NextShape
<1> QED BY <1>1, <1>2, PTL DEF Spec

\* Workers, sockets, calls and claims keep the shape the gateway gives them
\* (services/remote_drive.py), and a worker is never in its own roster.
THEOREM TypeCorrect == Spec => []TypeOK
<1>1. TypeInv => TypeOK
  BY DEF TypeInv
<1> QED BY <1>1, TypeInvariant, PTL

----------------------------------------------------------------------------
(* The slots of the registry.                                              *)

\* Registrations are of the past, and only they give a socket its time; a
\* browser uses a socket of its own, and one it has opened; a socket that is
\* announced has registered.
BornOK ==
    /\ \A s \in Socks : sock[s].at <= clock
    /\ \A s \in Socks : sock[s].st \in {"none", "dialing"} => sock[s].at = 0
    /\ \A d \in Devices : live[d] # None => sock[live[d]].dev = d /\ sock[live[d]].st # "none"

AnnouncedOK == \A m \in Nodes : \A i \in DOMAIN ctrl[m] : LET f == ctrl[m][i] IN
    f.kind = "supersede" => \E s \in Socks :
        sock[s].st \notin {"none", "dialing"} /\ sock[s].dev = f.dev /\ sock[s].at = f.at

SlotInv == BornOK /\ AnnouncedOK /\ NewestStays

----------------------------------------------------------------------------
(* Steps that leave the sockets alone.                                     *)

LEMMA SlotsKept ==
    ASSUME TypeInv, SlotInv, UNCHANGED <<sock, live>>, clock' \in {clock, clock + 1},
           \A m \in Nodes : \A i \in DOMAIN ctrl'[m] :
               (\E j \in DOMAIN ctrl[m] : ctrl'[m][i] = ctrl[m][j]) \/ ctrl'[m][i].kind # "supersede",
           \A m \in Nodes, e \in Devices : peers'[m][e] = peers[m][e] \/ live[e] # peers[m][e]
    PROVE  SlotInv'
<1>1. clock \in Nat /\ \A s \in Socks : sock[s].at \in Nat
  BY DEF TypeInv, TypeOK, SockRecs
<1>2. BornOK'
  BY <1>1 DEF SlotInv, BornOK
<1>3. AnnouncedOK'
  <2> SUFFICES ASSUME NEW m \in Nodes, NEW i \in DOMAIN ctrl'[m], ctrl'[m][i].kind = "supersede"
               PROVE  \E s \in Socks : /\ sock[s].st \notin {"none", "dialing"}
                                      /\ sock[s].dev = ctrl'[m][i].dev /\ sock[s].at = ctrl'[m][i].at
    BY DEF AnnouncedOK
  <2>1. PICK j \in DOMAIN ctrl[m] : ctrl'[m][i] = ctrl[m][j]
    OBVIOUS
  <2> QED BY <2>1 DEF SlotInv, AnnouncedOK
<1>4. NewestStays'
  <2> SUFFICES ASSUME NEW d \in Devices, live[d] # None, sock[live[d]].st \in {"open", "shut"},
                      \A t \in Socks : sock[t].dev = d => sock[t].at <= sock[live[d]].at
               PROVE  peers'[sock[live[d]].node][sock[live[d]].dev] = live[d] /\ sock[live[d]].st = "open"
    BY DEF NewestStays, Slot
  <2>1. Slot(live[d]) = live[d] /\ sock[live[d]].st = "open"
    BY DEF SlotInv, NewestStays
  <2>2. live[d] \in Socks /\ sock[live[d]].dev = d /\ sock[live[d]].node \in Nodes
    BY DEF SlotInv, BornOK, TypeInv, TypeOK, OpenedOK
  <2> QED BY <2>1, <2>2 DEF Slot
<1> QED BY <1>2, <1>3, <1>4 DEF SlotInv

LEMMA NotSentSlots ==
    ASSUME TypeInv, NEW n \in Nodes, NEW d \in Devices, NotSent(n, d)
    PROVE  \A m \in Nodes, e \in Devices : peers'[m][e] = peers[m][e] \/ live[e] # peers[m][e]
<1>1. \A m \in Nodes, e \in Devices : peers'[m][e] = IF m = n /\ e = d THEN None ELSE peers[m][e]
  BY NotSentShape
<1> QED BY <1>1 DEF NotSent

LEMMA RouteSlots ==
    ASSUME TypeInv, NEW o, NEW k, NEW found, Route(o, k, found), k.node \in Nodes,
           found \subseteq Socks, \A s \in found : sock[s].st # "none"
    PROVE  \A m \in Nodes, e \in Devices : peers'[m][e] = peers[m][e] \/ live[e] # peers[m][e]
<1>1. CASE UNCHANGED peers
  BY <1>1
<1>2. ASSUME NEW s \in Candidates(k, found), NotSent(sock[s].node, sock[s].dev)
      PROVE  \A m \in Nodes, e \in Devices : peers'[m][e] = peers[m][e] \/ live[e] # peers[m][e]
  <2>1. sock[s].node \in Nodes /\ sock[s].dev \in Devices
    BY CandidatesShape DEF TypeInv, OpenedOK
  <2> QED BY <1>2, <2>1, NotSentSlots
<1>3. ASSUME NEW s \in Candidates(k, found), ~UNCHANGED peers,
             LET t == [k EXCEPT !.pc = "wait", !.tnode = sock[s].node, !.tdev = sock[s].dev]
             IN  Sent(t.tnode, t.tdev, o) \/ NotSent(t.tnode, t.tdev)
      PROVE  NotSent(sock[s].node, sock[s].dev)
  BY <1>3 DEF Sent
<1> QED BY <1>1, <1>2, <1>3 DEF Route

LEMMA TakenSlots ==
    ASSUME TypeInv, SlotInv, NEW n \in Nodes, NEW kind, TakeCtrl(n, kind),
           UNCHANGED <<peers, sock, live, clock>>
    PROVE  SlotInv'
<1>1. \A m \in Nodes : \A i \in DOMAIN ctrl'[m] : \E j \in DOMAIN ctrl[m] : ctrl'[m][i] = ctrl[m][j]
  BY TakesCtrl
<1> QED BY <1>1, SlotsKept

LEMMA ToldSlots ==
    ASSUME TypeInv, SlotInv, NEW n \in Nodes, NEW f \in CtrlFrames, f.node = n, f.kind # "supersede",
           ctrl' = Broadcast(n, f), UNCHANGED <<peers, sock, live>>, clock' \in {clock, clock + 1}
    PROVE  SlotInv'
<1>1. \A m \in Nodes : \A i \in DOMAIN ctrl'[m] :
         (\E j \in DOMAIN ctrl[m] : ctrl'[m][i] = ctrl[m][j]) \/ ctrl'[m][i] = f
  BY Told DEF TypeInv
<1> QED BY <1>1, SlotsKept

LEMMA CallsSlots ==
    ASSUME TypeInv, SlotInv,
           \/ \E n \in Nodes : Start(n) \/ Bootstrapped(n)
           \/ \E o \in Ops, n \in Nodes, a \in Asks : Call(o, n, a[1], a[2])
           \/ \E o \in Ops : Conclude(o) \/ Finish(o) \/ Timeout(o)
           \/ \E s \in Socks, o \in Ops, ack \in {"ok", "failed"} : Ack(s, o, ack)
    PROVE  SlotInv'
<1>1. ASSUME NEW n \in Nodes, Start(n) PROVE SlotInv'
  <2> DEFINE f == [kind |-> "hello", node |-> n]
  <2>1. f \in CtrlFrames /\ f.node = n /\ f.kind = "hello"
    BY DEF CtrlFrames
  <2>2. ctrl' = Broadcast(n, f) /\ UNCHANGED <<peers, sock, live, clock>>
    BY <1>1 DEF Start, registry, session
  <2> HIDE DEF f
  <2> QED BY <2>1, <2>2, ToldSlots
<1>2. ASSUME NEW n \in Nodes, Bootstrapped(n) PROVE SlotInv'
  BY <1>2, SlotsKept DEF Bootstrapped, bus, registry, session
<1>3. ASSUME NEW o \in Ops, NEW n \in Nodes, NEW a \in Asks, Call(o, n, a[1], a[2]) PROVE SlotInv'
  <2> DEFINE k == Asked(n, a[1], a[2])
             f == [kind |-> "discover", node |-> n, op |-> o]
  <2>1. k.node = n /\ k.found = Local(n)
    BY AsksAssumption, AskedShape
  <2>2. UNCHANGED <<sock, live, clock>>
    BY <1>3 DEF Call, session
  <2>3. \/ Route(o, k, k.found) /\ UNCHANGED ctrl
        \/ ctrl' = Broadcast(n, f) /\ UNCHANGED peers
    BY <1>3 DEF Call, Asked
  <2>4. f \in CtrlFrames /\ f.node = n /\ f.kind = "discover"
    BY DEF CtrlFrames
  <2> HIDE DEF k, f
  <2>5. CASE Route(o, k, k.found) /\ UNCHANGED ctrl
    BY <2>1, <2>2, <2>5, LocalShape, RouteSlots, SlotsKept
  <2>6. CASE ctrl' = Broadcast(n, f) /\ UNCHANGED peers
    BY <2>2, <2>4, <2>6, ToldSlots
  <2> QED BY <2>3, <2>5, <2>6
<1>4. ASSUME NEW o \in Ops, Conclude(o) PROVE SlotInv'
  <2>1. op[o].node \in Nodes /\ op[o].found \subseteq Socks /\ \A s \in op[o].found : sock[s].st # "none"
    BY <1>4 DEF TypeInv, TypeOK, OpRecs, OpenedOK, AskedOK, Conclude
  <2>2. Route(o, op[o], op[o].found) /\ UNCHANGED <<ctrl, sock, live, clock>>
    BY <1>4 DEF Conclude, session
  <2>3. \A m \in Nodes, e \in Devices : peers'[m][e] = peers[m][e] \/ live[e] # peers[m][e]
    BY <2>1, <2>2, RouteSlots
  <2> QED BY <2>2, <2>3, SlotsKept
<1>5. ASSUME NEW o \in Ops, Finish(o) PROVE SlotInv'
  <2> DEFINE n == op[o].node
             claim == [dev |-> IF op[o].kind = "close" THEN None ELSE op[o].tdev, at |-> clock + 1]
             f == [kind |-> "drive-owner", node |-> n, claim |-> claim]
  <2>1. n \in Nodes /\ op[o].tdev \in Devices /\ clock \in Nat
    BY <1>5 DEF TypeInv, TypeOK, AskedOK, Finish
  <2>2. f \in CtrlFrames /\ f.node = n /\ f.kind = "drive-owner"
    BY <2>1 DEF CtrlFrames, Claims
  <2>3. /\ UNCHANGED <<peers, sock, live>>
        /\ (clock' = clock + 1 /\ ctrl' = Broadcast(n, f)) \/ UNCHANGED <<clock, ctrl>>
    BY <1>5 DEF Finish, registry, session
  <2> HIDE DEF f, n
  <2>4. CASE clock' = clock + 1 /\ ctrl' = Broadcast(n, f)
    BY <2>1, <2>2, <2>3, <2>4, ToldSlots
  <2>5. CASE UNCHANGED <<clock, ctrl>>
    BY <2>3, <2>5, SlotsKept
  <2> QED BY <2>3, <2>4, <2>5
<1>6. ASSUME NEW o \in Ops, Timeout(o) PROVE SlotInv'
  BY <1>6, SlotsKept DEF Timeout, bus, registry, session
<1>7. ASSUME NEW s \in Socks, NEW o \in Ops, NEW ack \in {"ok", "failed"}, Ack(s, o, ack) PROVE SlotInv'
  BY <1>7, SlotsKept DEF Ack, registry, session
<1> QED BY <1>1, <1>2, <1>3, <1>4, <1>5, <1>6, <1>7

LEMMA FramesSlots ==
    ASSUME TypeInv, SlotInv, NEW n \in Nodes,
           OnHello(n) \/ OnDiscover(n) \/ OnDriveOwner(n) \/ InboxStep(n)
    PROVE  SlotInv'
<1>1. ASSUME OnHello(n) PROVE SlotInv'
  BY <1>1, TakenSlots DEF OnHello, registry, session
<1>2. ASSUME OnDiscover(n) PROVE SlotInv'
  BY <1>2, TakenSlots DEF OnDiscover, registry, session
<1>3. ASSUME OnDriveOwner(n) PROVE SlotInv'
  BY <1>3, TakenSlots DEF OnDriveOwner, registry
<1>4. ASSUME OnHelloAck(n) \/ OnDiscoverReply(n) \/ OnReply(n) PROVE SlotInv'
  BY <1>4, SlotsKept DEF OnHelloAck, OnDiscoverReply, OnReply, TakeInbox, registry, session
<1>5. ASSUME OnDispatch(n) PROVE SlotInv'
  <2> DEFINE d == Head(inbox[n]).dev
             o == Head(inbox[n]).op
  <2>1. d \in Devices
    <3>1. Head(inbox[n]) \in InboxFrames /\ Head(inbox[n]).kind = "dispatch"
      BY <1>5, TakesInbox DEF OnDispatch
    <3> QED BY <3>1 DEF InboxFrames
  <2>2. UNCHANGED <<ctrl, sock, live, clock>> /\ (Sent(n, d, o) \/ NotSent(n, d))
    BY <1>5 DEF OnDispatch, TakeInbox, session
  <2> HIDE DEF d, o
  <2>3. \A m \in Nodes, e \in Devices : peers'[m][e] = peers[m][e] \/ live[e] # peers[m][e]
    BY <2>1, <2>2, NotSentSlots DEF Sent
  <2> QED BY <2>2, <2>3, SlotsKept
<1> QED BY <1>1, <1>2, <1>3, <1>4, <1>5 DEF InboxStep

----------------------------------------------------------------------------
(* Steps of the sockets.                                                   *)

LEMMA LeaveSlots ==
    ASSUME TypeInv, SlotInv, NEW d \in Devices, Leave(d)
    PROVE  SlotInv'
<1>1. /\ UNCHANGED <<ctrl, peers, sock, clock>>
      /\ \A e \in Devices : live'[e] = live[e] \/ live'[e] = None
  BY DEF Leave, bus, session, TypeInv, TypeOK
<1>2. BornOK'
  BY <1>1 DEF SlotInv, BornOK
<1>3. AnnouncedOK'
  BY <1>1 DEF SlotInv, AnnouncedOK
<1>4. NewestStays'
  BY <1>1 DEF SlotInv, NewestStays, Slot
<1> QED BY <1>2, <1>3, <1>4 DEF SlotInv

LEMMA ConnectSlots ==
    ASSUME TypeInv, SlotInv, NEW d \in Devices, NEW n \in Nodes, Connect(d, n)
    PROVE  SlotInv'
<1>1. PICK s \in Socks :
        /\ sock[s].st = "none"
        /\ sock' = [sock EXCEPT ![s] = [NoSock EXCEPT !.st = "dialing", !.node = n, !.dev = d]]
        /\ live' = [live EXCEPT ![d] = s]
  BY DEF Connect
<1> DEFINE k == [NoSock EXCEPT !.st = "dialing", !.node = n, !.dev = d]
<1>2. k.st = "dialing" /\ k.dev = d /\ k.at = 0
  BY DEF NoSock
<1>3. /\ sock'[s] = k /\ \A t \in Socks : t # s => sock'[t] = sock[t]
      /\ live'[d] = s /\ \A e \in Devices : e # d => live'[e] = live[e]
  BY <1>1 DEF TypeInv, TypeOK
<1> HIDE DEF k
<1>4. UNCHANGED <<ctrl, peers, clock>> /\ clock \in Nat
  BY DEF Connect, bus, session, TypeInv, TypeOK
<1>5. \A e \in Devices : e # d /\ live[e] # None => live[e] \in Socks \ {s} /\ sock[live[e]].dev = e
  BY <1>1 DEF SlotInv, BornOK, TypeInv, TypeOK
<1>6. BornOK'
  <2>1. \A t \in Socks : sock'[t].at <= clock
    BY <1>2, <1>3, <1>4 DEF SlotInv, BornOK
  <2>2. \A t \in Socks : sock'[t].st \in {"none", "dialing"} => sock'[t].at = 0
    BY <1>2, <1>3 DEF SlotInv, BornOK
  <2>3. \A e \in Devices : live'[e] # None => sock'[live'[e]].dev = e /\ sock'[live'[e]].st # "none"
    BY <1>2, <1>3, <1>5 DEF SlotInv, BornOK
  <2> QED BY <1>4, <2>1, <2>2, <2>3 DEF BornOK
<1>7. AnnouncedOK'
  BY <1>1, <1>3, <1>4 DEF SlotInv, AnnouncedOK
<1>8. NewestStays'
  <2> SUFFICES ASSUME NEW e \in Devices, live'[e] # None, sock'[live'[e]].st \in {"open", "shut"},
                      \A t \in Socks : sock'[t].dev = e => sock'[t].at <= sock'[live'[e]].at
               PROVE  /\ peers[sock'[live'[e]].node][sock'[live'[e]].dev] = live'[e]
                      /\ sock'[live'[e]].st = "open"
    BY <1>4 DEF NewestStays, Slot
  <2>1. e # d /\ live'[e] = live[e] /\ live[e] \in Socks \ {s}
    BY <1>2, <1>3, <1>5
  <2>2. sock'[live[e]] = sock[live[e]] /\ sock[live[e]].at \in Nat /\ sock[s].at = 0
    BY <1>1, <1>3, <2>1 DEF SlotInv, BornOK, TypeInv, TypeOK, SockRecs
  <2>3. \A t \in Socks : sock[t].dev = e => sock[t].at <= sock[live[e]].at
    BY <1>3, <2>1, <2>2
  <2> QED BY <2>1, <2>2, <2>3 DEF SlotInv, NewestStays, Slot
<1> QED BY <1>6, <1>7, <1>8 DEF SlotInv

LEMMA RegisterSlots == ASSUME TypeInv, SlotInv, NEW s \in Socks, Register(s) PROVE SlotInv'
<1> DEFINE n == sock[s].node
           d == sock[s].dev
<1>1. n \in Nodes /\ d \in Devices /\ clock \in Nat /\ sock[s].st = "dialing" /\ clock' = clock + 1
      /\ UNCHANGED <<ctrl, live>>
  BY DEF TypeInv, TypeOK, OpenedOK, Register, bus
<1>2. \A m \in Nodes, e \in Devices : peers'[m][e] = IF m = n /\ e = d THEN s ELSE peers[m][e]
  BY <1>1 DEF TypeInv, TypeOK, Register
<1>3. \A k \in Socks : sock[k] \in SockRecs
  BY DEF TypeInv, TypeOK
<1>4. sock'[s].st = "open" /\ sock'[s].at = clock + 1 /\ sock'[s].node = n /\ sock'[s].dev = d
  BY <1>3 DEF Register, SockRecs
<1>5. peers[n][d] # None => /\ peers[n][d] \in Socks /\ sock[peers[n][d]].dev = d
                            /\ sock[peers[n][d]].st = "open"
  BY <1>1 DEF TypeInv, TypeOK, OpenedOK
<1>6. \A k \in Socks : k # s =>
         /\ sock'[k].at = sock[k].at /\ sock'[k].dev = sock[k].dev /\ sock'[k].node = sock[k].node
         /\ sock'[k] = sock[k] \/ (sock[k].dev = d /\ sock[k].st = "open" /\ sock'[k].st = "shut")
  <2> TAKE k \in Socks
  <2>1. CASE k # s /\ k # peers[n][d]
    BY <2>1 DEF Register, Slot
  <2>2. CASE k # s /\ k = peers[n][d]
    <3> DEFINE z == [sock[k] EXCEPT !.st = "shut"]
    <3>1. sock'[k] = z
      BY <2>2 DEF Register, Slot
    <3>2. z.at = sock[k].at /\ z.dev = sock[k].dev /\ z.node = sock[k].node /\ z.st = "shut"
      BY <1>3 DEF SockRecs
    <3>3. k # None
      BY BoundsAssumption
    <3> QED BY <1>5, <2>2, <3>1, <3>2, <3>3
  <2> QED BY <2>1, <2>2
<1>7. \A k \in Socks : sock[k].at \in Nat
  BY <1>3 DEF SockRecs
<1> HIDE DEF n, d
<1>8. BornOK'
  <2>1. \A k \in Socks : sock'[k].at <= clock + 1
    BY <1>1, <1>4, <1>6, <1>7 DEF SlotInv, BornOK
  <2>2. \A k \in Socks : sock'[k].st \in {"none", "dialing"} => sock'[k].at = 0
    BY <1>4, <1>6 DEF SlotInv, BornOK
  <2>3. \A e \in Devices : live[e] # None => sock'[live[e]].dev = e /\ sock'[live[e]].st # "none"
    <3> TAKE e \in Devices
    <3> HAVE live[e] # None
    <3>1. live[e] \in Socks /\ sock[live[e]].dev = e /\ sock[live[e]].st # "none"
      BY DEF SlotInv, BornOK, TypeInv, TypeOK
    <3>2. CASE live[e] = s
      BY <1>4, <3>1, <3>2 DEF d
    <3>3. CASE live[e] # s
      BY <1>6, <3>1, <3>3
    <3> QED BY <3>2, <3>3
  <2> QED BY <1>1, <2>1, <2>2, <2>3 DEF BornOK
<1>9. AnnouncedOK'
  <2>1. \A k \in Socks : sock[k].st \notin {"none", "dialing"} =>
           /\ sock'[k].st \notin {"none", "dialing"}
           /\ sock'[k].dev = sock[k].dev /\ sock'[k].at = sock[k].at
    BY <1>1, <1>6
  <2> QED BY <1>1, <2>1 DEF SlotInv, AnnouncedOK
<1>10. NewestStays'
  <2> SUFFICES ASSUME NEW e \in Devices, live[e] # None, sock'[live[e]].st \in {"open", "shut"},
                      \A t \in Socks : sock'[t].dev = e => sock'[t].at <= sock'[live[e]].at
               PROVE  peers'[sock'[live[e]].node][sock'[live[e]].dev] = live[e] /\ sock'[live[e]].st = "open"
    BY <1>1 DEF NewestStays, Slot
  <2>1. live[e] \in Socks /\ sock[live[e]].dev = e /\ sock[live[e]].at <= clock
    BY DEF SlotInv, BornOK, TypeInv, TypeOK
  <2>2. CASE live[e] = s
    BY <1>1, <1>2, <1>4, <2>2
  <2>3. CASE live[e] # s
    <3>1. e # d
      BY <1>1, <1>4, <1>6, <1>7, <2>1, <2>3
    <3>2. sock'[live[e]] = sock[live[e]]
      BY <1>6, <2>1, <2>3, <3>1
    <3>3. \A t \in Socks : sock[t].dev = e => sock[t].at <= sock[live[e]].at
      BY <1>6, <3>1, <3>2 DEF d
    <3>4. Slot(live[e]) = live[e] /\ sock[live[e]].st = "open"
      BY <3>2, <3>3 DEF SlotInv, NewestStays
    <3>5. sock[live[e]].node \in Nodes
      BY <2>1, <3>4 DEF TypeInv, OpenedOK
    <3> QED BY <1>2, <2>1, <3>1, <3>2, <3>4, <3>5 DEF Slot
  <2> QED BY <2>2, <2>3
<1> QED BY <1>8, <1>9, <1>10 DEF SlotInv

LEMMA AnnounceSlots == ASSUME TypeInv, SlotInv, NEW s \in Socks, Announce(s) PROVE SlotInv'
<1> DEFINE f == [kind |-> "supersede", node |-> sock[s].node, dev |-> sock[s].dev, at |-> sock[s].at]
           a == [sock[s] EXCEPT !.said = TRUE]
<1>1. sock[s] \in SockRecs /\ sock[s].node \in Nodes /\ sock[s].dev \in Devices
      /\ sock[s].st \in {"open", "shut"}
  BY DEF TypeInv, TypeOK, OpenedOK, Announce
<1>2. f \in CtrlFrames /\ f.node = sock[s].node /\ f.dev = sock[s].dev /\ f.at = sock[s].at
  BY <1>1 DEF CtrlFrames, SockRecs
<1>3. a.st = sock[s].st /\ a.at = sock[s].at /\ a.dev = sock[s].dev /\ a.node = sock[s].node
  BY <1>1 DEF SockRecs
<1>4. ctrl' = Broadcast(sock[s].node, f) /\ sock' = [sock EXCEPT ![s] = a]
      /\ UNCHANGED <<peers, live, clock>>
  BY DEF Announce, session
<1> HIDE DEF f, a
<1>5. \A k \in Socks : /\ sock'[k].st = sock[k].st /\ sock'[k].at = sock[k].at
                       /\ sock'[k].dev = sock[k].dev /\ sock'[k].node = sock[k].node
  BY <1>3, <1>4 DEF TypeInv, TypeOK
<1>6. \A d \in Devices : live[d] # None => live[d] \in Socks
  BY DEF TypeInv, TypeOK
<1>7. BornOK'
  BY <1>4, <1>5, <1>6 DEF SlotInv, BornOK
<1>8. AnnouncedOK'
  <2>1. \A m \in Nodes : \A i \in DOMAIN ctrl'[m] :
           (\E j \in DOMAIN ctrl[m] : ctrl'[m][i] = ctrl[m][j]) \/ ctrl'[m][i] = f
    BY <1>1, <1>2, <1>4, Told DEF TypeInv
  <2> SUFFICES ASSUME NEW m \in Nodes, NEW i \in DOMAIN ctrl'[m], ctrl'[m][i].kind = "supersede"
               PROVE  \E k \in Socks : /\ sock'[k].st \notin {"none", "dialing"}
                                       /\ sock'[k].dev = ctrl'[m][i].dev /\ sock'[k].at = ctrl'[m][i].at
    BY DEF AnnouncedOK
  <2>2. CASE ctrl'[m][i] = f
    BY <1>1, <1>2, <1>5, <2>2
  <2>3. CASE \E j \in DOMAIN ctrl[m] : ctrl'[m][i] = ctrl[m][j]
    BY <1>5, <2>3 DEF SlotInv, AnnouncedOK
  <2> QED BY <2>1, <2>2, <2>3
<1>9. NewestStays'
  BY <1>4, <1>5, <1>6 DEF SlotInv, NewestStays, Slot
<1> QED BY <1>7, <1>8, <1>9 DEF SlotInv

\* A slot that is emptied is not that of a newest socket.
LEMMA ClosedSlots ==
    ASSUME TypeInv, SlotInv, NEW s \in Socks, UNCHANGED clock,
           sock[s].st \notin {"none", "dialing"},
           \A k \in Socks : k # s => sock'[k] = sock[k],
           sock'[s].st \in {"shut", "closed"}, sock'[s].dev = sock[s].dev, sock'[s].at = sock[s].at,
           \A d \in Devices : live'[d] # None => live'[d] = live[d],
           \A d \in Devices : live'[d] = s => \E t \in Socks : sock[t].dev = d /\ sock[t].at > sock[s].at,
           \A m \in Nodes, e \in Devices : peers'[m][e] = peers[m][e] \/ peers[m][e] = s,
           \A m \in Nodes : \A i \in DOMAIN ctrl'[m] : \E j \in DOMAIN ctrl[m] : ctrl'[m][i] = ctrl[m][j]
    PROVE  SlotInv'
<1>1. \A k \in Socks : /\ sock'[k].dev = sock[k].dev /\ sock'[k].at = sock[k].at /\ sock[k].at \in Nat
                       /\ sock[k].st \notin {"none", "dialing"} => sock'[k].st \notin {"none", "dialing"}
  BY DEF TypeInv, TypeOK, SockRecs
<1>2. \A d \in Devices : live'[d] # None => live[d] \in Socks /\ live'[d] = live[d] /\ sock[live[d]].dev = d
                                            /\ sock[live[d]].st # "none"
  BY DEF SlotInv, BornOK, TypeInv, TypeOK
<1>3. BornOK'
  <2>1. \A k \in Socks : sock'[k].at <= clock
    BY <1>1 DEF SlotInv, BornOK
  <2>2. \A k \in Socks : sock'[k].st \in {"none", "dialing"} => sock'[k].at = 0
    BY DEF SlotInv, BornOK
  <2>3. \A d \in Devices : live'[d] # None => sock'[live'[d]].dev = d /\ sock'[live'[d]].st # "none"
    BY <1>1, <1>2
  <2> QED BY <2>1, <2>2, <2>3 DEF BornOK
<1>4. AnnouncedOK'
  <2> SUFFICES ASSUME NEW m \in Nodes, NEW i \in DOMAIN ctrl'[m], ctrl'[m][i].kind = "supersede"
               PROVE  \E k \in Socks : /\ sock'[k].st \notin {"none", "dialing"}
                                       /\ sock'[k].dev = ctrl'[m][i].dev /\ sock'[k].at = ctrl'[m][i].at
    BY DEF AnnouncedOK
  <2>1. \E k \in Socks : /\ sock[k].st \notin {"none", "dialing"}
                         /\ sock[k].dev = ctrl'[m][i].dev /\ sock[k].at = ctrl'[m][i].at
    BY DEF SlotInv, AnnouncedOK
  <2> QED BY <1>1, <2>1
<1>5. NewestStays'
  <2> SUFFICES ASSUME NEW d \in Devices, live'[d] # None, sock'[live'[d]].st \in {"open", "shut"},
                      \A t \in Socks : sock'[t].dev = d => sock'[t].at <= sock'[live'[d]].at
               PROVE  /\ peers'[sock'[live'[d]].node][sock'[live'[d]].dev] = live'[d]
                      /\ sock'[live'[d]].st = "open"
    BY DEF NewestStays, Slot
  <2> DEFINE x == live[d]
  <2>1. x \in Socks /\ live'[d] = x /\ sock[x].dev = d
    BY <1>2
  <2> HIDE DEF x
  <2>2. \A t \in Socks : sock[t].dev = d => sock[t].at <= sock[x].at
    BY <1>1, <2>1
  <2>3. x # s
    BY <1>1, <2>1, <2>2
  <2>4. sock'[x] = sock[x]
    BY <2>1, <2>3
  <2>5. Slot(x) = x /\ sock[x].st = "open" /\ sock[x].node \in Nodes
    BY <2>1, <2>2, <2>4, BoundsAssumption DEF x, SlotInv, NewestStays, TypeInv, OpenedOK
  <2> QED BY <2>1, <2>3, <2>4, <2>5 DEF Slot
<1> QED BY <1>3, <1>4, <1>5 DEF SlotInv

LEMMA DisconnectSlots == ASSUME TypeInv, SlotInv, NEW s \in Socks, Disconnect(s) PROVE SlotInv'
<1> DEFINE a == [sock[s] EXCEPT !.st = "closed"]
<1>1. sock[s] \in SockRecs /\ sock[s].node \in Nodes /\ sock[s].dev \in Devices
      /\ sock[s].st \in {"open", "shut"}
  BY DEF TypeInv, TypeOK, OpenedOK, Disconnect
<1>2. a.st = "closed" /\ a.dev = sock[s].dev /\ a.at = sock[s].at
  BY <1>1 DEF SockRecs
<1>3. sock' = [sock EXCEPT ![s] = a] /\ UNCHANGED <<ctrl, clock>>
  BY DEF Disconnect, bus, session
<1> HIDE DEF a
<1>4. sock'[s] = a /\ \A k \in Socks : k # s => sock'[k] = sock[k]
  BY <1>3 DEF TypeInv, TypeOK
<1>5. \A d \in Devices : (live'[d] # None => live'[d] = live[d]) /\ live'[d] # s
  BY BoundsAssumption DEF Disconnect
<1>6. \A m \in Nodes, e \in Devices : peers'[m][e] = peers[m][e] \/ peers[m][e] = s
  BY <1>1 DEF Disconnect, Unregister, Without, Slot, TypeInv, TypeOK
<1> QED BY <1>1, <1>2, <1>3, <1>4, <1>5, <1>6, ClosedSlots

LEMMA SupersedeSlots == ASSUME TypeInv, SlotInv, NEW n \in Nodes, OnSupersede(n) PROVE SlotInv'
<1> DEFINE h == Head(ctrl[n])
           s == peers[n][h.dev]
           a == [sock[s] EXCEPT !.st = "shut"]
<1>1. TakeCtrl(n, "supersede") /\ UNCHANGED <<live, clock>>
  BY DEF OnSupersede, session
<1>2. /\ h \in CtrlFrames /\ h.kind = "supersede" /\ \E j \in DOMAIN ctrl[n] : h = ctrl[n][j]
      /\ \A m \in Nodes : \A i \in DOMAIN ctrl'[m] : \E j \in DOMAIN ctrl[m] : ctrl'[m][i] = ctrl[m][j]
  BY <1>1, TakesCtrl
<1>3. h.dev \in Devices
  BY <1>2 DEF CtrlFrames
<1>4. CASE UNCHANGED <<peers, sock>>
  BY <1>1, <1>2, <1>4, TakenSlots
<1>5. CASE /\ s # None /\ sock[s].at < h.at
           /\ peers' = [peers EXCEPT ![n][h.dev] = None] /\ sock' = [sock EXCEPT ![s] = a]
  <2>1. s \in Socks /\ sock[s].dev = h.dev /\ sock[s].st = "open" /\ sock[s] \in SockRecs
    BY <1>3, <1>5 DEF TypeInv, TypeOK, OpenedOK
  <2>2. a.st = "shut" /\ a.dev = sock[s].dev /\ a.at = sock[s].at
    BY <2>1 DEF SockRecs
  <2>3. \E t \in Socks : sock[t].dev = h.dev /\ sock[t].at > sock[s].at
    <3>1. PICK t \in Socks : sock[t].dev = h.dev /\ sock[t].at = h.at
      BY <1>2 DEF SlotInv, AnnouncedOK
    <3>2. sock[t].at \in Nat /\ sock[s].at \in Nat
      BY <2>1 DEF TypeInv, TypeOK, SockRecs
    <3> QED BY <1>5, <3>1, <3>2
  <2>4. \A m \in Nodes, e \in Devices : peers'[m][e] = peers[m][e] \/ peers[m][e] = s
    BY <1>3, <1>5 DEF TypeInv, TypeOK
  <2>5. \A d \in Devices : live[d] = s => d = h.dev
    BY <1>5, <2>1 DEF SlotInv, BornOK
  <2> HIDE DEF a, s, h
  <2>6. sock'[s] = a /\ \A k \in Socks : k # s => sock'[k] = sock[k]
    BY <1>5, <2>1 DEF TypeInv, TypeOK
  <2> QED BY <1>1, <1>2, <2>1, <2>2, <2>3, <2>4, <2>5, <2>6, ClosedSlots
<1> QED BY <1>4, <1>5 DEF OnSupersede

----------------------------------------------------------------------------
(* Every step.                                                             *)

LEMMA InitSlots == ASSUME Init PROVE SlotInv
<1>1. NoSock.at = 0
  BY DEF NoSock
<1> QED BY <1>1 DEF Init, SlotInv, BornOK, AnnouncedOK, NewestStays

LEMMA NextSlots == ASSUME TypeInv, SlotInv, [Next]_vars PROVE SlotInv'
<1>1. ASSUME NEW n \in Nodes, CtrlStep(n) PROVE SlotInv'
  BY <1>1, FramesSlots, SupersedeSlots DEF CtrlStep
<1>2. ASSUME NEW n \in Nodes, InboxStep(n) PROVE SlotInv'
  BY <1>2, FramesSlots
<1>3. ASSUME NEW s \in Socks, Register(s) \/ Announce(s) \/ Disconnect(s) PROVE SlotInv'
  BY <1>3, RegisterSlots, AnnounceSlots, DisconnectSlots
<1>4. CASE UNCHANGED vars
  BY <1>4, SlotsKept DEF vars, bus, registry, session
<1> QED BY <1>1, <1>2, <1>3, <1>4, CallsSlots, LeaveSlots, ConnectSlots DEF Next

\* The socket a browser itself uses keeps its slot, and stays open, as long
\* as no later connection of that browser has registered with any worker:
\* neither the end of an older socket (remote_drive.py:391-404), nor a write
\* that failed on one (:719-737), nor an announcement that comes late
\* (:411-423), evicts it.
THEOREM NewestSocketStays == Spec => []NewestStays
<1>1. Init => TypeInv /\ SlotInv
  BY InitShape, InitSlots
<1>2. TypeInv /\ SlotInv /\ [Next]_vars => (TypeInv /\ SlotInv)'
  BY NextShape, NextSlots
<1>3. SlotInv => NewestStays
  BY DEF SlotInv
<1> QED BY <1>1, <1>2, <1>3, PTL DEF Spec
=============================================================================
