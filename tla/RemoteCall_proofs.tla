-------------------------- MODULE RemoteCall_proofs --------------------------
(***************************************************************************)
(* The calls of the gateway (services/remote_drive.py): an operation is    *)
(* written to one socket at most, and the gateway implements RemoteCall.   *)
(***************************************************************************)
EXTENDS RemoteDrive_proofs, FiniteSetTheorems

\* What a call's round, the sockets it was written to and the browser say of
\* each other.
Own(k, w, b) ==
    /\ k.pc \in {"idle", "discover"} => w = {} /\ b = "no" /\ k.ack = "none"
    /\ k.pc = "wait" => k.ack # "timeout"
    /\ k.pc = "done" => k.ack # "none"
    /\ k.ack = "gone" => w = {} /\ b = "no"
    /\ k.ack \in {"ok", "failed"} => b = "answered"
    /\ b # "no" => w # {}
    /\ \A s, t \in w : s = t

\* What a frame on its way says of its call: one to dispatch is not written
\* yet, and its caller has heard nothing but that time is up.
Fits(f, k, w, b) ==
    /\ f.kind = "dispatch" => /\ w = {} /\ b = "no"
                              /\ k.pc = "wait" => k.ack = "none"
                              /\ k.pc = "done" => k.ack = "timeout"
    /\ f.kind = "reply" => /\ k.pc \in {"wait", "done"}
                           /\ IF f.ack = "gone" THEN w = {} /\ b = "no" ELSE b = "answered"

Moving(f) == f.kind \in {"dispatch", "reply"}

\* A call that is yet to be written is on its way once, with no answer.
Once(box) == \A m, k \in Nodes : \A i \in DOMAIN box[m], j \in DOMAIN box[k] :
    box[m][i].kind = "dispatch" /\ Moving(box[k][j]) /\ box[m][i].op = box[k][j].op => m = k /\ i = j

CallInv ==
    /\ \A o \in Ops : Own(op[o], wrote[o], browser[o])
    /\ \A m \in Nodes : \A i \in DOMAIN inbox[m] : LET f == inbox[m][i] IN
          Moving(f) => Fits(f, op[f.op], wrote[f.op], browser[f.op])
    /\ Once(inbox)

----------------------------------------------------------------------------
(* Mailboxes.                                                              *)

\* What moves is a call's.
LEMMA MovingShape ==
    ASSUME MailOK, NEW m \in Nodes, NEW i \in DOMAIN inbox[m], Moving(inbox[m][i])
    PROVE  inbox[m][i].op \in Ops
  BY FrameShape DEF Moving, InboxFrames

LEMMA OncePopped ==
    ASSUME NEW F, NEW b \in [Nodes -> Seq(F)], NEW n \in Nodes, b[n] # << >>, Once(b)
    PROVE  Once([b EXCEPT ![n] = Tail(@)])
<1> DEFINE c == [b EXCEPT ![n] = Tail(@)]
<1>1. /\ \A m \in Nodes : m # n => c[m] = b[m]
      /\ \A i \in DOMAIN c[n] : i \in Nat /\ i + 1 \in DOMAIN b[n] /\ c[n][i] = b[n][i + 1]
  BY Popped
<1> HIDE DEF c
<1> SUFFICES ASSUME NEW m \in Nodes, NEW k \in Nodes, NEW i \in DOMAIN c[m], NEW j \in DOMAIN c[k],
                    c[m][i].kind = "dispatch", Moving(c[k][j]), c[m][i].op = c[k][j].op
             PROVE  m = k /\ i = j
  BY DEF Once, c
<1>2. CASE m # n /\ k # n
  BY <1>1, <1>2 DEF Once
<1>3. CASE m = n /\ k # n
  BY <1>1, <1>3 DEF Once
<1>4. CASE m # n /\ k = n
  BY <1>1, <1>4 DEF Once
<1>5. CASE m = n /\ k = n
  <2>1. i \in Nat /\ j \in Nat /\ i + 1 = j + 1
    BY <1>1, <1>5 DEF Once
  <2> QED BY <1>5, <2>1
<1> QED BY <1>2, <1>3, <1>4, <1>5

LEMMA OncePushed ==
    ASSUME NEW F, NEW b \in [Nodes -> Seq(F)], NEW n \in Nodes, NEW f \in F, Once(b),
           Moving(f) => \A m \in Nodes : \A i \in DOMAIN b[m] : Moving(b[m][i]) => b[m][i].op # f.op
    PROVE  Once([b EXCEPT ![n] = Append(@, f)])
<1> DEFINE c == [b EXCEPT ![n] = Append(@, f)]
           e == Len(b[n]) + 1
<1>1. /\ \A m \in Nodes : m # n => c[m] = b[m]
      /\ \A i \in DOMAIN c[n] : \/ i \in DOMAIN b[n] /\ c[n][i] = b[n][i]
                                \/ i = e /\ c[n][i] = f
  BY Pushed
<1> HIDE DEF c, e
<1> SUFFICES ASSUME NEW m \in Nodes, NEW k \in Nodes, NEW i \in DOMAIN c[m], NEW j \in DOMAIN c[k],
                    c[m][i].kind = "dispatch", Moving(c[k][j]), c[m][i].op = c[k][j].op
             PROVE  m = k /\ i = j
  BY DEF Once, c
<1>2. (i \in DOMAIN b[m] /\ c[m][i] = b[m][i]) \/ (m = n /\ i = e /\ c[m][i] = f)
  BY <1>1
<1>3. (j \in DOMAIN b[k] /\ c[k][j] = b[k][j]) \/ (k = n /\ j = e /\ c[k][j] = f)
  BY <1>1
<1>4. CASE i \in DOMAIN b[m] /\ c[m][i] = b[m][i] /\ j \in DOMAIN b[k] /\ c[k][j] = b[k][j]
  BY <1>4 DEF Once
<1>5. CASE i \in DOMAIN b[m] /\ c[m][i] = b[m][i] /\ k = n /\ j = e /\ c[k][j] = f
  BY <1>5 DEF Moving
<1>6. CASE m = n /\ i = e /\ c[m][i] = f /\ j \in DOMAIN b[k] /\ c[k][j] = b[k][j]
  BY <1>6 DEF Moving
<1>7. CASE m = n /\ i = e /\ k = n /\ j = e
  BY <1>7
<1> QED BY <1>2, <1>3, <1>4, <1>5, <1>6, <1>7

\* A dispatch that is taken leaves nothing of its call on the way.
LEMMA TakenOnce ==
    ASSUME NEW F, NEW b \in [Nodes -> Seq(F)], NEW n \in Nodes, b[n] # << >>, Once(b),
           Head(b[n]).kind = "dispatch"
    PROVE  LET c == [b EXCEPT ![n] = Tail(@)] IN
           \A m \in Nodes : \A i \in DOMAIN c[m] : Moving(c[m][i]) => c[m][i].op # Head(b[n]).op
<1> DEFINE c == [b EXCEPT ![n] = Tail(@)]
<1>1. /\ 1 \in DOMAIN b[n] /\ Head(b[n]) = b[n][1]
      /\ \A m \in Nodes : m # n => c[m] = b[m]
      /\ \A i \in DOMAIN c[n] : i \in Nat /\ i + 1 \in DOMAIN b[n] /\ c[n][i] = b[n][i + 1]
  BY Popped
<1>2. \A i \in DOMAIN c[n] : i \in Nat /\ i + 1 # 1
  <2> TAKE i \in DOMAIN c[n]
  <2>1. c[n] = Tail(b[n]) /\ b[n] \in Seq(F) /\ Tail(b[n]) \in Seq(F)
    BY EmptySeq
  <2>2. i \in 1..Len(Tail(b[n]))
    BY <2>1
  <2> QED BY <2>2
<1> HIDE DEF c
<1>3. ASSUME NEW m \in Nodes, NEW i \in DOMAIN c[m], Moving(c[m][i]), c[m][i].op = b[n][1].op
      PROVE  FALSE
  <2>1. CASE m # n
    BY <1>1, <1>3, <2>1 DEF Once
  <2>2. CASE m = n
    <3>1. i + 1 \in DOMAIN b[n] /\ c[n][i] = b[n][i + 1]
      BY <1>1, <2>2
    <3>2. b[n][1].kind = "dispatch" /\ Moving(b[n][i + 1]) /\ b[n][1].op = b[n][i + 1].op
      BY <1>1, <1>3, <2>2, <3>1
    <3>3. 1 = i + 1
      BY <1>1, <3>1, <3>2 DEF Once
    <3> QED BY <1>2, <2>2, <3>3
  <2> QED BY <2>1, <2>2
<1> QED BY <1>1, <1>3 DEF c

----------------------------------------------------------------------------
(* Steps about one call.                                                   *)

LEMMA CallKept ==
    ASSUME TypeInv, CallInv, NEW o \in Ops,
           \A p \in Ops : p # o => op'[p] = op[p] /\ wrote'[p] = wrote[p] /\ browser'[p] = browser[p],
           Own(op'[o], wrote'[o], browser'[o]),
           \A m \in Nodes : \A i \in DOMAIN inbox'[m] : Moving(inbox'[m][i]) =>
               \/ /\ inbox'[m][i].op # o
                  /\ \E j \in DOMAIN inbox[m] : inbox'[m][i] = inbox[m][j]
               \/ inbox'[m][i].op = o /\ Fits(inbox'[m][i], op'[o], wrote'[o], browser'[o]),
           Once(inbox')
    PROVE  CallInv'
<1>1. \A p \in Ops : Own(op'[p], wrote'[p], browser'[p])
  BY DEF CallInv
<1>2. \A m \in Nodes : \A i \in DOMAIN inbox'[m] : Moving(inbox'[m][i]) =>
         LET f == inbox'[m][i] IN Fits(f, op'[f.op], wrote'[f.op], browser'[f.op])
  <2> TAKE m \in Nodes
  <2> TAKE i \in DOMAIN inbox'[m]
  <2> HAVE Moving(inbox'[m][i])
  <2> DEFINE f == inbox'[m][i]
  <2>1. CASE f.op # o /\ \E j \in DOMAIN inbox[m] : f = inbox[m][j]
    <3>1. PICK j \in DOMAIN inbox[m] : f = inbox[m][j]
      BY <2>1
    <3>2. f.op \in Ops
      BY <3>1, MovingShape DEF TypeInv
    <3>3. Fits(f, op[f.op], wrote[f.op], browser[f.op])
      BY <3>1 DEF CallInv
    <3> QED BY <2>1, <3>2, <3>3
  <2>2. CASE f.op = o /\ Fits(f, op'[o], wrote'[o], browser'[o])
    BY <2>2
  <2> QED BY <2>1, <2>2
<1> QED BY <1>1, <1>2 DEF CallInv, Once, Moving, Own, Fits

\* Nothing of a call moves before it is routed.
LEMMA NothingMoves ==
    ASSUME TypeInv, CallInv, NEW o \in Ops, op[o].pc \notin {"wait", "done"}
    PROVE  \A m \in Nodes : \A i \in DOMAIN inbox[m] : Moving(inbox[m][i]) => inbox[m][i].op # o
  BY DEF TypeInv, AskedOK, CallInv, Moving, Fits

\* A call that is routed is refused, written, or put on its way.
Refused(o) ==
    /\ op'[o].pc = "done" /\ op'[o].ack = "gone"
    /\ UNCHANGED <<inbox, wrote, browser>>

Written(o) ==
    /\ op'[o].pc = "wait" /\ op'[o].ack = "none"
    /\ \E s \in Socks : wrote'[o] = wrote[o] \cup {s}
    /\ browser'[o] \in {"busy", browser[o]}
    /\ UNCHANGED inbox

Relayed(o) ==
    /\ op'[o].pc = "wait" /\ op'[o].ack = "none"
    /\ \E m \in Nodes, f \in InboxFrames :
          f.kind = "dispatch" /\ f.op = o /\ inbox' = [inbox EXCEPT ![m] = Append(@, f)]
    /\ UNCHANGED <<wrote, browser>>

OthersKept(o) == \A p \in Ops : p # o =>
    op'[p] = op[p] /\ wrote'[p] = wrote[p] /\ browser'[p] = browser[p]

LEMMA RouteCalls ==
    ASSUME TypeInv, NEW o \in Ops, NEW k \in OpRecs, NEW found, Route(o, k, found), k.ack = "none",
           found \subseteq Socks, \A s \in found : sock[s].st # "none", k.node \in Nodes
    PROVE  OthersKept(o) /\ (Refused(o) \/ Written(o) \/ Relayed(o))
<1>1. op \in [Ops -> OpRecs]
  BY DEF TypeInv, TypeOK
<1>2. CASE /\ op' = [op EXCEPT ![o] = Done(k, "gone")]
           /\ UNCHANGED <<inbox, peers, wrote, browser>>
  BY <1>1, <1>2, DoneShape DEF OthersKept, Refused
<1>3. ASSUME NEW s \in Candidates(k, found),
             LET t == [k EXCEPT !.pc = "wait", !.tnode = sock[s].node, !.tdev = sock[s].dev]
             IN
             \/ /\ t.tnode = k.node /\ Sent(t.tnode, t.tdev, o)
                /\ op' = [op EXCEPT ![o] = t] /\ UNCHANGED inbox
             \/ /\ t.tnode = k.node /\ NotSent(t.tnode, t.tdev)
                /\ op' = [op EXCEPT ![o] = Done(t, "gone")] /\ UNCHANGED inbox
             \/ /\ t.tnode # k.node /\ inbox' = Dispatch(t, o, t.tnode)
                /\ op' = [op EXCEPT ![o] = t] /\ UNCHANGED <<peers, wrote, browser>>
      PROVE  OthersKept(o) /\ (Refused(o) \/ Written(o) \/ Relayed(o))
  <2> DEFINE t == [k EXCEPT !.pc = "wait", !.tnode = sock[s].node, !.tdev = sock[s].dev]
  <2>1. s \in Socks /\ sock[s].node \in Nodes /\ sock[s].dev \in Devices
    BY CandidatesShape DEF TypeInv, OpenedOK
  <2>2. /\ t \in OpRecs /\ t.pc = "wait" /\ t.tnode = sock[s].node /\ t.tdev = sock[s].dev
        /\ t.node = k.node /\ t.ack = "none"
    <3>1. t = Waits(k, sock[s].node, sock[s].dev)
      BY DEF Waits
    <3> HIDE DEF t
    <3> QED BY <2>1, <3>1, WaitShape
  <2> HIDE DEF t
  <2>3. CASE t.tnode = k.node /\ Sent(t.tnode, t.tdev, o) /\ op' = [op EXCEPT ![o] = t] /\ UNCHANGED inbox
    <3>1. /\ peers[t.tnode][t.tdev] \in Socks
          /\ wrote'[o] = wrote[o] \cup {peers[t.tnode][t.tdev]} /\ browser'[o] \in {"busy", browser[o]}
          /\ \A p \in Ops : p # o => wrote'[p] = wrote[p] /\ browser'[p] = browser[p]
      BY <2>1, <2>2, <2>3, SentShape
    <3>2. op'[o] = t /\ \A p \in Ops : p # o => op'[p] = op[p]
      BY <1>1, <2>3
    <3> QED BY <2>2, <2>3, <3>1, <3>2 DEF OthersKept, Written
  <2>4. CASE /\ t.tnode = k.node /\ NotSent(t.tnode, t.tdev)
             /\ op' = [op EXCEPT ![o] = Done(t, "gone")] /\ UNCHANGED inbox
    <3>1. UNCHANGED <<wrote, browser>>
      BY <2>4 DEF NotSent
    <3>2. Done(t, "gone").pc = "done" /\ Done(t, "gone").ack = "gone"
      BY <2>2, DoneShape
    <3> QED BY <1>1, <2>4, <3>1, <3>2 DEF OthersKept, Refused
  <2>5. CASE /\ t.tnode # k.node /\ inbox' = Dispatch(t, o, t.tnode)
             /\ op' = [op EXCEPT ![o] = t] /\ UNCHANGED <<peers, wrote, browser>>
    <3> DEFINE f == [kind |-> "dispatch", node |-> k.node, op |-> o, dev |-> t.tdev]
    <3>1. f \in InboxFrames /\ f.kind = "dispatch" /\ f.op = o
      BY <2>1, <2>2 DEF InboxFrames
    <3>2. inbox' = [inbox EXCEPT ![t.tnode] = Append(@, f)]
      BY <2>2, <2>5 DEF Dispatch, Unicast
    <3> HIDE DEF f
    <3>3. op'[o] = t /\ \A p \in Ops : p # o => op'[p] = op[p]
      BY <1>1, <2>5
    <3>4. Relayed(o)
      BY <2>1, <2>2, <2>5, <3>1, <3>2, <3>3 DEF Relayed
    <3> QED BY <2>5, <3>3, <3>4 DEF OthersKept
  <2> QED BY <1>3, <2>3, <2>4, <2>5 DEF t
<1> QED BY <1>2, <1>3 DEF Route

LEMMA RoutedCalls ==
    ASSUME TypeInv, CallInv, NEW o \in Ops, op[o].pc \in {"idle", "discover"},
           OthersKept(o), Refused(o) \/ Written(o) \/ Relayed(o)
    PROVE  CallInv'
<1>1. wrote[o] = {} /\ browser[o] = "no"
  BY DEF CallInv, Own
<1>2. \A m \in Nodes : \A i \in DOMAIN inbox[m] : Moving(inbox[m][i]) => inbox[m][i].op # o
  BY NothingMoves
<1>3. CASE Refused(o)
  <2>1. Own(op'[o], wrote'[o], browser'[o])
    BY <1>1, <1>3 DEF Refused, Own
  <2>2. Once(inbox') /\ UNCHANGED inbox
    BY <1>3 DEF CallInv, Refused
  <2> QED BY <1>2, <2>1, <2>2, CallKept DEF OthersKept
<1>4. CASE Written(o)
  <2>1. Own(op'[o], wrote'[o], browser'[o])
    <3>1. PICK s \in Socks : wrote'[o] = wrote[o] \cup {s}
      BY <1>4 DEF Written
    <3> QED BY <1>1, <1>4, <3>1 DEF Written, Own
  <2>2. Once(inbox') /\ UNCHANGED inbox
    BY <1>4 DEF CallInv, Written
  <2> QED BY <1>2, <2>1, <2>2, CallKept DEF OthersKept
<1>5. CASE Relayed(o)
  <2>1. PICK n \in Nodes, f \in InboxFrames :
           f.kind = "dispatch" /\ f.op = o /\ inbox' = [inbox EXCEPT ![n] = Append(@, f)]
    BY <1>5 DEF Relayed
  <2>2. inbox \in [Nodes -> Seq(InboxFrames)] /\ Once(inbox)
    BY DEF TypeInv, MailOK, CallInv
  <2>3. Once(inbox')
    BY <1>2, <2>1, <2>2, OncePushed
  <2>4. \A m \in Nodes : \A i \in DOMAIN inbox'[m] :
           (\E j \in DOMAIN inbox[m] : inbox'[m][i] = inbox[m][j]) \/ inbox'[m][i] = f
    BY <2>1, <2>2, Pushed
  <2>5. Own(op'[o], wrote'[o], browser'[o]) /\ Fits(f, op'[o], wrote'[o], browser'[o])
    BY <1>1, <1>5, <2>1 DEF Relayed, Own, Fits
  <2>6. \A m \in Nodes : \A i \in DOMAIN inbox'[m] : Moving(inbox'[m][i]) =>
           \/ /\ inbox'[m][i].op # o
              /\ \E j \in DOMAIN inbox[m] : inbox'[m][i] = inbox[m][j]
           \/ inbox'[m][i].op = o /\ Fits(inbox'[m][i], op'[o], wrote'[o], browser'[o])
    BY <1>2, <2>1, <2>4, <2>5
  <2> QED BY <2>3, <2>5, <2>6, CallKept DEF OthersKept
<1> QED BY <1>3, <1>4, <1>5

\* What a call that comes in, or a round that ends, does to the call.
LEMMA CallEffect ==
    ASSUME TypeInv, CallInv, NEW o \in Ops, NEW n \in Nodes, NEW a \in Asks, Call(o, n, a[1], a[2])
    PROVE  /\ op[o].pc = "idle" /\ OthersKept(o)
           /\ \/ Refused(o) \/ Written(o) \/ Relayed(o)
              \/ op'[o].pc = "discover" /\ op'[o].ack = "none" /\ UNCHANGED <<inbox, wrote, browser>>
<1> DEFINE k == Asked(n, a[1], a[2])
           asks == [k EXCEPT !.pc = "discover"]
<1>1. a[1] \in Devices \cup {None} /\ a[2] \in Kinds
  BY AsksAssumption
<1>2. k \in OpRecs /\ k.node = n /\ k.found = Local(n) /\ k.ack = "none"
  BY <1>1, AskedShape
<1>3. asks.pc = "discover" /\ asks.ack = "none"
  <2> HIDE DEF k
  <2> QED BY <1>2 DEF OpRecs
<1>4. \/ Route(o, k, k.found)
      \/ op' = [op EXCEPT ![o] = asks] /\ UNCHANGED <<inbox, wrote, browser>>
  BY DEF Call, Asked
<1>5. op[o].pc = "idle" /\ op \in [Ops -> OpRecs]
  BY DEF Call, TypeInv, TypeOK
<1> HIDE DEF k, asks
<1>6. CASE Route(o, k, k.found)
  BY <1>2, <1>5, <1>6, LocalShape, RouteCalls
<1>7. CASE op' = [op EXCEPT ![o] = asks] /\ UNCHANGED <<inbox, wrote, browser>>
  BY <1>3, <1>5, <1>7 DEF OthersKept
<1> QED BY <1>4, <1>6, <1>7

LEMMA ConcludeEffect ==
    ASSUME TypeInv, CallInv, NEW o \in Ops, Conclude(o)
    PROVE  op[o].pc = "discover" /\ OthersKept(o) /\ (Refused(o) \/ Written(o) \/ Relayed(o))
<1>1. op[o] \in OpRecs /\ op[o].pc = "discover" /\ op[o].node \in Nodes /\ op[o].ack = "none"
  BY DEF TypeInv, TypeOK, AskedOK, CallInv, Own, Conclude
<1>2. op[o].found \subseteq Socks /\ \A s \in op[o].found : sock[s].st # "none"
  BY <1>1 DEF TypeInv, OpenedOK, OpRecs
<1> QED BY <1>1, <1>2, RouteCalls DEF Conclude

LEMMA AskCalls ==
    ASSUME TypeInv, CallInv, NEW o \in Ops,
           Conclude(o) \/ \E n \in Nodes, a \in Asks : Call(o, n, a[1], a[2])
    PROVE  CallInv'
<1>1. CASE Conclude(o)
  BY <1>1, ConcludeEffect, RoutedCalls
<1>2. ASSUME NEW n \in Nodes, NEW a \in Asks, Call(o, n, a[1], a[2]) PROVE CallInv'
  <2>1. op[o].pc = "idle" /\ OthersKept(o)
    BY <1>2, CallEffect
  <2>2. CASE Refused(o) \/ Written(o) \/ Relayed(o)
    BY <2>1, <2>2, RoutedCalls
  <2>3. CASE op'[o].pc = "discover" /\ op'[o].ack = "none" /\ UNCHANGED <<inbox, wrote, browser>>
    <3>1. wrote[o] = {} /\ browser[o] = "no"
      BY <2>1 DEF CallInv, Own
    <3>2. Own(op'[o], wrote'[o], browser'[o])
      BY <2>3, <3>1 DEF Own
    <3>3. Once(inbox') /\ UNCHANGED inbox
      BY <2>3 DEF CallInv
    <3>4. \A m \in Nodes : \A i \in DOMAIN inbox[m] : Moving(inbox[m][i]) => inbox[m][i].op # o
      BY <2>1, NothingMoves
    <3> QED BY <2>1, <3>2, <3>3, <3>4, CallKept DEF OthersKept
  <2> QED BY <1>2, <2>2, <2>3, CallEffect
<1> QED BY <1>1, <1>2

\* Nothing moves but what moved, and it fits its call as before.
LEMMA StillCalls ==
    ASSUME TypeInv, CallInv, NEW o \in Ops, OthersKept(o), UNCHANGED inbox,
           Own(op'[o], wrote'[o], browser'[o]),
           \A f : Fits(f, op[o], wrote[o], browser[o]) => Fits(f, op'[o], wrote'[o], browser'[o])
    PROVE  CallInv'
<1>1. \A m \in Nodes : \A i \in DOMAIN inbox[m] : Moving(inbox[m][i]) =>
         \/ inbox[m][i].op # o
         \/ inbox[m][i].op = o /\ Fits(inbox[m][i], op'[o], wrote'[o], browser'[o])
  BY DEF CallInv
<1>2. Once(inbox')
  BY DEF CallInv
<1> QED BY <1>1, <1>2, CallKept DEF OthersKept

\* The caller stops waiting, with an answer or without.
Ended(o, ack) ==
    /\ op[o].pc = "wait" /\ op'[o].pc = "done" /\ op'[o].ack = ack
    /\ OthersKept(o) /\ UNCHANGED <<inbox, wrote, browser>>

LEMMA FinishEffect == ASSUME TypeInv, NEW o \in Ops, Finish(o) PROVE Ended(o, op[o].ack) /\ op[o].ack # "none"
<1>1. op[o] \in OpRecs /\ op \in [Ops -> OpRecs] /\ op[o].ack \in {"none", "ok", "failed", "gone", "timeout"}
  BY DEF TypeInv, TypeOK, OpRecs
<1>2. op' = [op EXCEPT ![o] = Done(op[o], op[o].ack)] /\ UNCHANGED <<inbox, wrote, browser>>
      /\ op[o].pc = "wait" /\ op[o].ack # "none"
  BY DEF Finish
<1> QED BY <1>1, <1>2, DoneShape DEF Ended, OthersKept

LEMMA TimeoutEffect == ASSUME TypeInv, NEW o \in Ops, Timeout(o) PROVE Ended(o, "timeout")
<1>1. op[o] \in OpRecs /\ op \in [Ops -> OpRecs]
  BY DEF TypeInv, TypeOK
<1>2. op' = [op EXCEPT ![o] = Done(op[o], "timeout")] /\ UNCHANGED <<inbox, wrote, browser>>
      /\ op[o].pc = "wait"
  BY DEF Timeout, bus
<1> QED BY <1>1, <1>2, DoneShape DEF Ended, OthersKept

LEMMA EndCalls == ASSUME TypeInv, CallInv, NEW o \in Ops, Finish(o) \/ Timeout(o) PROVE CallInv'
<1>1. Ended(o, "timeout") \/ (Ended(o, op[o].ack) /\ op[o].ack # "none")
  BY FinishEffect, TimeoutEffect
<1>2. Own(op[o], wrote[o], browser[o])
  BY DEF CallInv
<1>3. Own(op'[o], wrote'[o], browser'[o])
  BY <1>1, <1>2 DEF Ended, Own
<1>4. \A f : Fits(f, op[o], wrote[o], browser[o]) => Fits(f, op'[o], wrote'[o], browser'[o])
  BY <1>1 DEF Ended, Fits
<1> QED BY <1>1, <1>3, <1>4, StillCalls DEF Ended

\* The browser answers; the answer is heard here, or sent on to the caller.
LEMMA AckEffect ==
    ASSUME TypeInv, NEW s \in Socks, NEW o \in Ops, NEW ack \in {"ok", "failed"}, Ack(s, o, ack)
    PROVE  /\ browser[o] = "busy" /\ browser'[o] = "answered" /\ OthersKept(o) /\ UNCHANGED wrote
           /\ op'[o].pc = op[o].pc
           /\ op'[o].ack = op[o].ack \/ (op[o].pc = "wait" /\ op[o].ack = "none" /\ op'[o].ack = ack)
           /\ \/ UNCHANGED inbox
              \/ /\ op[o].pc \in {"wait", "done"}
                 /\ \E m \in Nodes, f \in InboxFrames :
                       f.kind = "reply" /\ f.op = o /\ f.ack # "gone" /\ inbox' = [inbox EXCEPT ![m] = Append(@, f)]
<1> DEFINE n == sock[s].node
           k == op[o]
           relayed == ~(k.pc = "wait" /\ k.node = n) /\ o \in inflight[n]
           heard == [k EXCEPT !.ack = ack]
           f == [kind |-> "reply", node |-> n, op |-> o, ack |-> ack]
<1>1. /\ browser[o] = "busy" /\ browser' = [browser EXCEPT ![o] = "answered"] /\ UNCHANGED wrote
      /\ \/ op' = op
         \/ op' = [op EXCEPT ![o] = heard] /\ k.pc = "wait" /\ k.ack = "none"
      /\ inbox' = IF relayed THEN [inbox EXCEPT ![k.node] = Append(@, f)] ELSE inbox
  BY DEF Ack, Unicast
<1>2. n \in Nodes /\ k \in OpRecs /\ op \in [Ops -> OpRecs] /\ browser \in [Ops -> {"no", "busy", "answered"}]
  BY DEF TypeInv, TypeOK, OpenedOK, Ack
<1>3. heard.pc = k.pc /\ heard.ack = ack
  BY <1>2 DEF OpRecs
<1>4. relayed => k.node \in Nodes /\ k.pc \in {"wait", "done"}
  BY <1>2 DEF TypeInv, AskedOK
<1>5. f \in InboxFrames /\ f.kind = "reply" /\ f.op = o /\ f.ack # "gone"
  BY <1>2 DEF InboxFrames
<1> HIDE DEF heard, f, relayed
<1>6. /\ \A p \in Ops : p # o => op'[p] = op[p] /\ browser'[p] = browser[p]
      /\ browser'[o] = "answered" /\ op'[o].pc = k.pc
      /\ op'[o].ack = k.ack \/ (k.pc = "wait" /\ k.ack = "none" /\ op'[o].ack = ack)
  BY <1>1, <1>2, <1>3
<1> QED BY <1>1, <1>4, <1>5, <1>6 DEF OthersKept

LEMMA AckCalls ==
    ASSUME TypeInv, CallInv, NEW s \in Socks, NEW o \in Ops, NEW ack \in {"ok", "failed"}, Ack(s, o, ack)
    PROVE  CallInv'
<1>1. /\ browser[o] = "busy" /\ browser'[o] = "answered" /\ OthersKept(o) /\ UNCHANGED wrote
      /\ op'[o].pc = op[o].pc
      /\ op'[o].ack = op[o].ack \/ (op[o].pc = "wait" /\ op[o].ack = "none" /\ op'[o].ack = ack)
  BY AckEffect
<1>2. Own(op[o], wrote[o], browser[o])
  BY DEF CallInv
<1>3. Own(op'[o], wrote'[o], browser'[o])
  BY <1>1, <1>2 DEF Own
<1>4. \A m \in Nodes : \A i \in DOMAIN inbox[m] : Moving(inbox[m][i]) => inbox[m][i].op # o
  BY <1>1 DEF CallInv, Moving, Fits
<1>5. CASE UNCHANGED inbox
  <2>1. Once(inbox')
    BY <1>5 DEF CallInv
  <2> QED BY <1>1, <1>3, <1>4, <1>5, <2>1, CallKept DEF OthersKept
<1>6. ASSUME NEW n \in Nodes, NEW f \in InboxFrames, f.kind = "reply", f.op = o, f.ack # "gone",
             op[o].pc \in {"wait", "done"}, inbox' = [inbox EXCEPT ![n] = Append(@, f)]
      PROVE  CallInv'
  <2>1. inbox \in [Nodes -> Seq(InboxFrames)] /\ Once(inbox)
    BY DEF TypeInv, MailOK, CallInv
  <2>2. Once(inbox')
    BY <1>4, <1>6, <2>1, OncePushed
  <2>3. \A m \in Nodes : \A i \in DOMAIN inbox'[m] :
           (\E j \in DOMAIN inbox[m] : inbox'[m][i] = inbox[m][j]) \/ inbox'[m][i] = f
    BY <1>6, <2>1, Pushed
  <2>4. Fits(f, op'[o], wrote'[o], browser'[o])
    BY <1>1, <1>6 DEF Fits
  <2>5. \A m \in Nodes : \A i \in DOMAIN inbox'[m] : Moving(inbox'[m][i]) =>
           \/ /\ inbox'[m][i].op # o
              /\ \E j \in DOMAIN inbox[m] : inbox'[m][i] = inbox[m][j]
           \/ inbox'[m][i].op = o /\ Fits(inbox'[m][i], op'[o], wrote'[o], browser'[o])
    BY <1>4, <1>6, <2>3, <2>4
  <2> QED BY <1>1, <1>3, <2>2, <2>5, CallKept DEF OthersKept
<1> QED BY <1>5, <1>6, AckEffect

----------------------------------------------------------------------------
(* Steps about frames.                                                     *)

\* Steps that are not about calls may still send or take other frames.
LEMMA QuietCalls ==
    ASSUME TypeInv, CallInv, UNCHANGED <<op, wrote, browser>>, Once(inbox'),
           \A m \in Nodes : \A i \in DOMAIN inbox'[m] :
               (\E j \in DOMAIN inbox[m] : inbox'[m][i] = inbox[m][j]) \/ ~Moving(inbox'[m][i])
    PROVE  CallInv'
<1>1. \A m \in Nodes : \A i \in DOMAIN inbox'[m] : Moving(inbox'[m][i]) =>
         LET f == inbox'[m][i] IN Fits(f, op[f.op], wrote[f.op], browser[f.op])
  BY DEF CallInv
<1> QED BY <1>1 DEF CallInv, Once, Moving, Own, Fits

LEMMA SaidCalls ==
    ASSUME TypeInv, CallInv, UNCHANGED <<op, wrote, browser>>, NEW n \in Nodes, NEW f \in InboxFrames,
           ~Moving(f), inbox' = [inbox EXCEPT ![n] = Append(@, f)]
    PROVE  CallInv'
<1>1. inbox \in [Nodes -> Seq(InboxFrames)] /\ Once(inbox)
  BY DEF TypeInv, MailOK, CallInv
<1>2. Once(inbox')
  BY <1>1, OncePushed
<1>3. \A m \in Nodes : \A i \in DOMAIN inbox'[m] :
         (\E j \in DOMAIN inbox[m] : inbox'[m][i] = inbox[m][j]) \/ inbox'[m][i] = f
  BY <1>1, Pushed
<1> QED BY <1>2, <1>3, QuietCalls

LEMMA TakenCalls ==
    ASSUME TypeInv, CallInv, NEW n \in Nodes, NEW kind, TakeInbox(n, kind), Handled(n)
    PROVE  /\ Once(inbox')
           /\ \A m \in Nodes : \A i \in DOMAIN inbox'[m] : \E j \in DOMAIN inbox[m] : inbox'[m][i] = inbox[m][j]
<1>1. inbox \in [Nodes -> Seq(InboxFrames)] /\ inbox[n] # << >> /\ inbox' = [inbox EXCEPT ![n] = Tail(@)]
  BY TakesInbox DEF Handled
<1> QED BY <1>1, OncePopped, InboxTaken DEF CallInv

\* An answer from another worker: the call has its answer, if it still waits.
LEMMA ReplyEffect ==
    ASSUME TypeInv, CallInv, NEW n \in Nodes, OnReply(n)
    PROVE  \E o \in Ops :
              /\ OthersKept(o) /\ UNCHANGED <<wrote, browser>>
              /\ op'[o].pc = op[o].pc
              /\ Fits(Head(inbox[n]), op[o], wrote[o], browser[o]) /\ Head(inbox[n]).op = o
              /\ \/ op' = op
                 \/ op[o].pc = "wait" /\ op[o].ack = "none" /\ op'[o].ack = Head(inbox[n]).ack
<1> DEFINE h == Head(inbox[n])
           o == h.op
           heard == [op[o] EXCEPT !.ack = h.ack]
<1>1. /\ TakeInbox(n, "reply") /\ UNCHANGED <<wrote, browser>>
      /\ op' = op \/ (op' = [op EXCEPT ![o] = heard] /\ op[o].pc = "wait" /\ op[o].ack = "none")
  BY DEF OnReply
<1>2. h \in InboxFrames /\ h.kind = "reply" /\ 1 \in DOMAIN inbox[n] /\ h = inbox[n][1]
  BY <1>1, TakesInbox
<1>3. o \in Ops
  BY <1>2 DEF InboxFrames
<1>4. op \in [Ops -> OpRecs] /\ op[o] \in OpRecs
  BY <1>3 DEF TypeInv, TypeOK
<1>5. Fits(h, op[o], wrote[o], browser[o])
  BY <1>2 DEF CallInv, Moving
<1>6. heard.pc = op[o].pc /\ heard.ack = h.ack
  <2> HIDE DEF h
  <2> QED BY <1>4 DEF OpRecs
<1> HIDE DEF heard
<1>7. op'[o].pc = op[o].pc /\ OthersKept(o)
      /\ (op' = op \/ (op[o].pc = "wait" /\ op[o].ack = "none" /\ op'[o].ack = h.ack))
  BY <1>1, <1>3, <1>4, <1>6 DEF OthersKept
<1> QED BY <1>1, <1>3, <1>5, <1>7

LEMMA ReplyCalls == ASSUME TypeInv, CallInv, NEW n \in Nodes, OnReply(n) PROVE CallInv'
<1> DEFINE h == Head(inbox[n])
<1>1. PICK o \in Ops :
        /\ OthersKept(o) /\ UNCHANGED <<wrote, browser>>
        /\ op'[o].pc = op[o].pc
        /\ Fits(h, op[o], wrote[o], browser[o]) /\ h.op = o
        /\ \/ op' = op
           \/ op[o].pc = "wait" /\ op[o].ack = "none" /\ op'[o].ack = h.ack
  BY ReplyEffect
<1>2. TakeInbox(n, "reply") /\ Handled(n)
  BY DEF OnReply
<1>3. /\ Once(inbox')
      /\ \A m \in Nodes : \A i \in DOMAIN inbox'[m] : \E j \in DOMAIN inbox[m] : inbox'[m][i] = inbox[m][j]
  BY <1>2, TakenCalls
<1>4. h \in InboxFrames /\ h.kind = "reply" /\ 1 \in DOMAIN inbox[n] /\ h = inbox[n][1]
  BY <1>2, TakesInbox
<1>5. CASE op' = op
  BY <1>1, <1>3, <1>5, QuietCalls
<1>6. CASE op[o].pc = "wait" /\ op[o].ack = "none" /\ op'[o].ack = h.ack
  <2>1. Own(op[o], wrote[o], browser[o])
    BY DEF CallInv
  <2>2. h.ack \in {"ok", "failed", "gone"}
    BY <1>4 DEF InboxFrames
  <2>3. Own(op'[o], wrote'[o], browser'[o])
    BY <1>1, <1>4, <1>6, <2>1, <2>2 DEF Own, Fits
  <2>4. \A m \in Nodes : \A j \in DOMAIN inbox[m] :
           inbox[m][j].kind = "dispatch" => inbox[m][j].op # o
    <3> TAKE m \in Nodes
    <3> TAKE j \in DOMAIN inbox[m]
    <3>1. ASSUME inbox[m][j].kind = "dispatch", inbox[m][j].op = o PROVE FALSE
      <4>1. Moving(inbox[n][1]) /\ inbox[m][j].op = inbox[n][1].op
        BY <1>1, <1>4, <3>1 DEF Moving
      <4>2. m = n /\ j = 1
        BY <1>4, <3>1, <4>1 DEF CallInv, Once
      <4> QED BY <1>4, <3>1, <4>2
    <3> QED BY <3>1
  <2>5. \A m \in Nodes : \A i \in DOMAIN inbox'[m] : Moving(inbox'[m][i]) =>
           \/ /\ inbox'[m][i].op # o
              /\ \E j \in DOMAIN inbox[m] : inbox'[m][i] = inbox[m][j]
           \/ inbox'[m][i].op = o /\ Fits(inbox'[m][i], op'[o], wrote'[o], browser'[o])
    <3> TAKE m \in Nodes
    <3> TAKE i \in DOMAIN inbox'[m]
    <3> HAVE Moving(inbox'[m][i])
    <3>1. PICK j \in DOMAIN inbox[m] : inbox'[m][i] = inbox[m][j]
      BY <1>3
    <3>2. CASE inbox[m][j].op = o
      <4>1. Fits(inbox[m][j], op[o], wrote[o], browser[o]) /\ inbox[m][j].kind = "reply"
        BY <2>4, <3>1, <3>2 DEF CallInv, Moving
      <4>2. Fits(inbox[m][j], op'[o], wrote'[o], browser'[o])
        BY <1>1, <4>1 DEF Fits
      <4> QED BY <3>1, <3>2, <4>2
    <3> QED BY <3>1, <3>2
  <2> QED BY <1>1, <1>3, <2>3, <2>5, CallKept DEF OthersKept
<1> QED BY <1>1, <1>5, <1>6

\* An operation from another worker: written here, or refused.
LEMMA DispatchEffect ==
    ASSUME TypeInv, CallInv, NEW n \in Nodes, OnDispatch(n)
    PROVE  \E o \in Ops :
              /\ UNCHANGED op /\ Head(inbox[n]).op = o
              /\ wrote[o] = {} /\ browser[o] = "no"
              /\ op[o].pc = "wait" => op[o].ack = "none"
              /\ op[o].pc = "done" => op[o].ack = "timeout"
              /\ op[o].pc \in {"wait", "done"}
              /\ \A p \in Ops : p # o => wrote'[p] = wrote[p] /\ browser'[p] = browser[p]
              /\ \/ /\ \E s \in Socks : wrote'[o] = wrote[o] \cup {s}
                    /\ browser'[o] \in {"busy", browser[o]} /\ Handled(n)
                 \/ /\ UNCHANGED <<wrote, browser>>
                    /\ \E f \in InboxFrames, m \in Nodes :
                          /\ f.kind = "reply" /\ f.op = o /\ f.ack = "gone" /\ m # n
                          /\ HandledWith(n, m, f)
<1> DEFINE h == Head(inbox[n])
           o == h.op
           f == [kind |-> "reply", node |-> n, op |-> o, ack |-> "gone"]
<1>1. /\ TakeInbox(n, "dispatch") /\ UNCHANGED op
      /\ \/ Sent(n, h.dev, o) /\ Handled(n)
         \/ NotSent(n, h.dev) /\ HandledWith(n, h.node, f)
  BY DEF OnDispatch
<1>2. /\ h \in InboxFrames /\ h.kind = "dispatch" /\ h.node \in Nodes \ {n}
      /\ 1 \in DOMAIN inbox[n] /\ h = inbox[n][1]
  BY <1>1, TakesInbox
<1>3. o \in Ops /\ h.dev \in Devices
  BY <1>2 DEF InboxFrames
<1>4. f \in InboxFrames /\ f.kind = "reply" /\ f.op = o /\ f.ack = "gone"
  BY <1>3 DEF InboxFrames
<1>5. Fits(h, op[o], wrote[o], browser[o]) /\ op[o].pc \in {"wait", "done"}
  BY <1>2 DEF CallInv, Moving, TypeInv, AskedOK
<1>6. /\ wrote[o] = {} /\ browser[o] = "no"
      /\ op[o].pc = "wait" => op[o].ack = "none"
      /\ op[o].pc = "done" => op[o].ack = "timeout"
  BY <1>2, <1>5 DEF Fits
<1> HIDE DEF h, f, o
<1>7. CASE Sent(n, h.dev, o) /\ Handled(n)
  <2>1. /\ peers[n][h.dev] \in Socks
        /\ wrote'[o] = wrote[o] \cup {peers[n][h.dev]} /\ browser'[o] \in {"busy", browser[o]}
        /\ \A p \in Ops : p # o => wrote'[p] = wrote[p] /\ browser'[p] = browser[p]
    BY <1>3, <1>7, SentShape
  <2> QED BY <1>1, <1>3, <1>5, <1>6, <1>7, <2>1 DEF o, h
<1>8. CASE NotSent(n, h.dev) /\ HandledWith(n, h.node, f)
  <2>1. UNCHANGED <<wrote, browser>>
    BY <1>8 DEF NotSent
  <2>2. h.node \in Nodes /\ h.node # n
    BY <1>2
  <2>3. \E g \in InboxFrames, m \in Nodes :
           g.kind = "reply" /\ g.op = o /\ g.ack = "gone" /\ m # n /\ HandledWith(n, m, g)
    BY <1>4, <1>8, <2>2
  <2> QED BY <1>1, <1>3, <1>5, <1>6, <2>1, <2>3 DEF o, h
<1> QED BY <1>1, <1>7, <1>8

LEMMA DispatchCalls == ASSUME TypeInv, CallInv, NEW n \in Nodes, OnDispatch(n) PROVE CallInv'
<1> DEFINE taken == [inbox EXCEPT ![n] = Tail(@)]
<1>1. PICK o \in Ops :
        /\ UNCHANGED op /\ Head(inbox[n]).op = o
        /\ wrote[o] = {} /\ browser[o] = "no"
        /\ op[o].pc = "wait" => op[o].ack = "none"
        /\ op[o].pc = "done" => op[o].ack = "timeout"
        /\ op[o].pc \in {"wait", "done"}
        /\ \A p \in Ops : p # o => wrote'[p] = wrote[p] /\ browser'[p] = browser[p]
        /\ \/ /\ \E s \in Socks : wrote'[o] = wrote[o] \cup {s}
              /\ browser'[o] \in {"busy", browser[o]} /\ Handled(n)
           \/ /\ UNCHANGED <<wrote, browser>>
              /\ \E f \in InboxFrames, m \in Nodes :
                    f.kind = "reply" /\ f.op = o /\ f.ack = "gone" /\ m # n /\ HandledWith(n, m, f)
  BY DispatchEffect
<1>2. TakeInbox(n, "dispatch")
  BY DEF OnDispatch
<1>3. /\ inbox \in [Nodes -> Seq(InboxFrames)] /\ inbox[n] # << >> /\ Once(inbox)
      /\ Head(inbox[n]).kind = "dispatch"
  BY <1>2, TakesInbox DEF CallInv
<1>4. /\ taken \in [Nodes -> Seq(InboxFrames)] /\ Once(taken)
      /\ \A m \in Nodes : \A i \in DOMAIN taken[m] : Moving(taken[m][i]) => taken[m][i].op # o
  <2>1. taken \in [Nodes -> Seq(InboxFrames)]
    BY <1>3, Popped
  <2>2. Once(taken)
    BY <1>3, OncePopped
  <2>3. \A m \in Nodes : \A i \in DOMAIN taken[m] : Moving(taken[m][i]) => taken[m][i].op # Head(inbox[n]).op
    BY <1>3, TakenOnce
  <2> HIDE DEF taken
  <2> QED BY <1>1, <2>1, <2>2, <2>3
<1>5. \A m \in Nodes : \A i \in DOMAIN taken[m] : \E j \in DOMAIN inbox[m] : taken[m][i] = inbox[m][j]
  BY <1>3, Popped
<1>6. OthersKept(o)
  BY <1>1 DEF OthersKept
<1>7. CASE /\ \E s \in Socks : wrote'[o] = wrote[o] \cup {s}
           /\ browser'[o] \in {"busy", browser[o]} /\ Handled(n)
  <2>1. inbox' = taken
    BY <1>7 DEF Handled
  <2>2. Own(op'[o], wrote'[o], browser'[o])
    <3>1. PICK s \in Socks : wrote'[o] = {s}
      BY <1>1, <1>7
    <3>2. op'[o] = op[o] /\ op[o].ack \in {"none", "timeout"}
      BY <1>1
    <3> QED BY <1>1, <1>7, <3>1, <3>2 DEF Own
  <2> HIDE DEF taken
  <2> QED BY <1>4, <1>5, <1>6, <2>1, <2>2, CallKept DEF OthersKept
<1>8. ASSUME UNCHANGED <<wrote, browser>>, NEW f \in InboxFrames, NEW k \in Nodes,
             f.kind = "reply", f.op = o, f.ack = "gone", k # n, HandledWith(n, k, f)
      PROVE  CallInv'
  <2>1. inbox' = [taken EXCEPT ![k] = Append(@, f)]
    BY <1>3, <1>8 DEF HandledWith
  <2> HIDE DEF taken
  <2>2. Once(inbox')
    BY <1>4, <1>8, <2>1, OncePushed
  <2>3. \A m \in Nodes : \A i \in DOMAIN inbox'[m] :
           (\E j \in DOMAIN taken[m] : inbox'[m][i] = taken[m][j]) \/ inbox'[m][i] = f
    BY <1>4, <2>1, Pushed
  <2>4. Own(op'[o], wrote'[o], browser'[o]) /\ Fits(f, op'[o], wrote'[o], browser'[o])
    BY <1>1, <1>8 DEF CallInv, Fits
  <2>5. \A m \in Nodes : \A i \in DOMAIN inbox'[m] : Moving(inbox'[m][i]) =>
           \/ /\ inbox'[m][i].op # o
              /\ \E j \in DOMAIN inbox[m] : inbox'[m][i] = inbox[m][j]
           \/ inbox'[m][i].op = o /\ Fits(inbox'[m][i], op'[o], wrote'[o], browser'[o])
    <3>1. \A m \in Nodes : \A i \in DOMAIN taken[m] : Moving(taken[m][i]) => taken[m][i].op # o
      BY <1>4
    <3> TAKE m \in Nodes
    <3> TAKE i \in DOMAIN inbox'[m]
    <3> HAVE Moving(inbox'[m][i])
    <3>2. CASE inbox'[m][i] = f
      BY <1>8, <2>4, <3>2
    <3>3. CASE \E j \in DOMAIN taken[m] : inbox'[m][i] = taken[m][j]
      <4>1. PICK j \in DOMAIN taken[m] : inbox'[m][i] = taken[m][j]
        BY <3>3
      <4>2. \E l \in DOMAIN inbox[m] : taken[m][j] = inbox[m][l]
        BY <1>5, <4>1
      <4> QED BY <3>1, <4>1, <4>2
    <3> QED BY <2>3, <3>2, <3>3
  <2> QED BY <1>6, <2>2, <2>4, <2>5, CallKept DEF OthersKept
<1> QED BY <1>1, <1>7, <1>8

\* An answer to a round adds what was found, and no more.
LEMMA DiscoverReplyEffect ==
    ASSUME TypeInv, NEW n \in Nodes, OnDiscoverReply(n)
    PROVE  /\ \A p \in Ops : op'[p].pc = op[p].pc /\ op'[p].ack = op[p].ack
           /\ UNCHANGED <<wrote, browser>>
<1> DEFINE o == Head(inbox[n]).op
<1>1. o \in Ops
  <2>1. Head(inbox[n]) \in InboxFrames /\ Head(inbox[n]).kind = "discover-reply"
    BY TakesInbox DEF OnDiscoverReply
  <2> QED BY <2>1 DEF InboxFrames
<1>2. op \in [Ops -> OpRecs] /\ \A p \in Ops : op[p] \in OpRecs
  BY DEF TypeInv, TypeOK
<1>3. op' = op \/ op' = [op EXCEPT ![o].found = @ \cup Head(inbox[n]).found,
                                   ![o].await = @ \ {Head(inbox[n]).node}]
  BY DEF OnDiscoverReply
<1> HIDE DEF o
<1> QED BY <1>1, <1>2, <1>3 DEF OnDiscoverReply, OpRecs

LEMMA DiscoverReplyCalls == ASSUME TypeInv, CallInv, NEW n \in Nodes, OnDiscoverReply(n) PROVE CallInv'
<1>1. /\ \A p \in Ops : op'[p].pc = op[p].pc /\ op'[p].ack = op[p].ack
      /\ UNCHANGED <<wrote, browser>>
  BY DiscoverReplyEffect
<1>2. /\ Once(inbox')
      /\ \A m \in Nodes : \A i \in DOMAIN inbox'[m] : \E j \in DOMAIN inbox[m] : inbox'[m][i] = inbox[m][j]
  BY TakenCalls DEF OnDiscoverReply
<1>3. \A p \in Ops : Own(op'[p], wrote'[p], browser'[p])
  BY <1>1 DEF CallInv, Own
<1>4. \A m \in Nodes : \A i \in DOMAIN inbox'[m] : Moving(inbox'[m][i]) =>
         LET f == inbox'[m][i] IN Fits(f, op'[f.op], wrote'[f.op], browser'[f.op])
  <2> TAKE m \in Nodes
  <2> TAKE i \in DOMAIN inbox'[m]
  <2> HAVE Moving(inbox'[m][i])
  <2> DEFINE f == inbox'[m][i]
  <2>1. PICK j \in DOMAIN inbox[m] : f = inbox[m][j]
    BY <1>2
  <2>2. f.op \in Ops /\ Fits(f, op[f.op], wrote[f.op], browser[f.op])
    BY <2>1, MovingShape DEF TypeInv, CallInv
  <2> HIDE DEF f
  <2>3. Fits(f, op'[f.op], wrote'[f.op], browser'[f.op])
    BY <1>1, <2>2 DEF Fits
  <2> QED BY <2>3 DEF f
<1> QED BY <1>2, <1>3, <1>4 DEF CallInv, Once, Moving, Own, Fits

----------------------------------------------------------------------------
(* Every step.                                                             *)

LEMMA InitCalls == ASSUME Init PROVE CallInv
<1>1. IdleOp.pc = "idle" /\ IdleOp.ack = "none"
  BY DEF IdleOp
<1> QED BY <1>1 DEF Init, CallInv, Own, Once

LEMMA NextCalls == ASSUME TypeInv, CallInv, [Next]_vars PROVE CallInv'
<1>1. ASSUME UNCHANGED <<inbox, op, wrote, browser>> PROVE CallInv'
  BY <1>1 DEF CallInv, Once, Moving, Own, Fits
<1>2. ASSUME NEW n \in Nodes, Start(n) \/ Bootstrapped(n) PROVE CallInv'
  BY <1>1, <1>2 DEF Start, Bootstrapped, bus, calls
<1>3. ASSUME NEW n \in Nodes, CtrlStep(n) PROVE CallInv'
  <2>1. ASSUME OnHello(n) PROVE CallInv'
    <3> DEFINE f == [kind |-> "hello-ack", node |-> n]
    <3>1. f \in InboxFrames /\ ~Moving(f)
      BY DEF InboxFrames, Moving
    <3>2. Head(ctrl[n]).node \in Nodes /\ inbox' = [inbox EXCEPT ![Head(ctrl[n]).node] = Append(@, f)]
          /\ UNCHANGED <<op, wrote, browser>>
      BY <2>1, TakesCtrl DEF OnHello, Unicast, calls
    <3> HIDE DEF f
    <3> QED BY <3>1, <3>2, SaidCalls
  <2>2. ASSUME OnDiscover(n) PROVE CallInv'
    <3> DEFINE h == Head(ctrl[n])
               f == [kind |-> "discover-reply", node |-> n, op |-> h.op, found |-> Local(n), claim |-> owner[n]]
    <3>1. h \in CtrlFrames /\ h.kind = "discover" /\ h.node \in Nodes
      BY <2>2, TakesCtrl DEF OnDiscover
    <3>2. h.op \in Ops /\ owner[n] \in Claims
      BY <3>1 DEF CtrlFrames, TypeInv, TypeOK
    <3>3. f \in InboxFrames /\ ~Moving(f)
      BY <3>2, LocalShape DEF InboxFrames, Moving
    <3>4. inbox' = [inbox EXCEPT ![h.node] = Append(@, f)] /\ UNCHANGED <<op, wrote, browser>>
      BY <2>2 DEF OnDiscover, Unicast, calls
    <3> HIDE DEF f, h
    <3> QED BY <3>1, <3>3, <3>4, SaidCalls
  <2>3. ASSUME OnDriveOwner(n) \/ OnSupersede(n) PROVE CallInv'
    BY <1>1, <2>3 DEF OnDriveOwner, OnSupersede, calls
  <2> QED BY <1>3, <2>1, <2>2, <2>3 DEF CtrlStep
<1>4. ASSUME NEW n \in Nodes, InboxStep(n) PROVE CallInv'
  <2>1. ASSUME OnHelloAck(n) PROVE CallInv'
    BY <2>1, TakenCalls, QuietCalls DEF OnHelloAck, calls
  <2> QED BY <1>4, <2>1, DiscoverReplyCalls, DispatchCalls, ReplyCalls DEF InboxStep
<1>5. ASSUME NEW s \in Socks, Register(s) \/ Announce(s) \/ Disconnect(s) PROVE CallInv'
  BY <1>1, <1>5 DEF Register, Announce, Disconnect, bus, calls
<1>6. ASSUME NEW d \in Devices, Leave(d) \/ \E n \in Nodes : Connect(d, n) PROVE CallInv'
  BY <1>1, <1>6 DEF Leave, Connect, bus, calls
<1>7. CASE UNCHANGED vars
  BY <1>1, <1>7 DEF vars, bus, calls
<1> QED BY <1>2, <1>3, <1>4, <1>5, <1>6, <1>7, AskCalls, EndCalls, AckCalls DEF Next

LEMMA CallInvariant == Spec => [](TypeInv /\ CallInv)
<1>1. Init => TypeInv /\ CallInv
  BY InitShape, InitCalls
<1>2. TypeInv /\ CallInv /\ [Next]_vars => (TypeInv /\ CallInv)'
  BY NextShape, NextCalls
<1> QED BY <1>1, <1>2, PTL DEF Spec

\* An operation is written to one socket at most: it goes to the one worker
\* that the round chose (remote_drive.py:738-786), is in its inbox once, and
\* that worker writes it, or answers that nobody was there (:788-845).
THEOREM WrittenToOne == Spec => []WrittenOnce
<1>1. TypeInv /\ CallInv => WrittenOnce
  <2> SUFFICES ASSUME TypeInv, CallInv, NEW o \in Ops PROVE Cardinality(wrote[o]) <= 1
    BY DEF WrittenOnce
  <2>1. \A s, t \in wrote[o] : s = t
    BY DEF CallInv, Own
  <2>2. CASE wrote[o] = {}
    <3>1. Cardinality({}) = 0
      BY FS_EmptySet
    <3> QED BY <2>2, <3>1
  <2>3. CASE wrote[o] # {}
    <3>1. PICK s \in wrote[o] : TRUE
      BY <2>3
    <3>2. wrote[o] = {s}
      BY <2>1, <3>1
    <3>3. Cardinality({s}) = 1
      BY FS_Singleton
    <3> QED BY <3>2, <3>3
  <2> QED BY <2>2, <2>3
<1> QED BY <1>1, CallInvariant, PTL

----------------------------------------------------------------------------
(* The gateway implements RemoteCall.                                      *)

\* What the caller of an operation has heard, and what became of it: the
\* mapping of Promise, for one call.
Heard(k) == CASE k.pc = "idle" -> "idle"
              [] k.pc = "done" -> k.ack
              [] OTHER         -> "waiting"
Became(w, b) == IF b # "no" THEN b ELSE IF w # {} THEN "lost" ELSE "none"

LEMMA HeardIs == \A k : /\ k.pc = "idle" => Heard(k) = "idle"
                        /\ k.pc = "done" => Heard(k) = k.ack
                        /\ k.pc \notin {"idle", "done"} => Heard(k) = "waiting"
<1> SUFFICES ASSUME NEW k
             PROVE  /\ k.pc = "idle" => Heard(k) = "idle"
                    /\ k.pc = "done" => Heard(k) = k.ack
                    /\ k.pc \notin {"idle", "done"} => Heard(k) = "waiting"
  OBVIOUS
<1> QED BY Zenon DEF Heard

LEMMA HearsMapped ==
    ASSUME NEW o \in Ops, NEW what, \A p \in Ops : p # o => Heard(op'[p]) = Heard(op[p]), Heard(op'[o]) = what
    PROVE  Promise!Hears(o, what)
<1> DEFINE told == [p \in Ops |-> Heard(op[p])]
<1>1. told' = [told EXCEPT ![o] = what]
  OBVIOUS
<1> QED BY <1>1 DEF Heard, Promise!Hears

LEMMA WritesMapped ==
    ASSUME NEW o \in Ops, NEW what, Became(wrote'[o], browser'[o]) = what,
           \A p \in Ops : p # o => Became(wrote'[p], browser'[p]) = Became(wrote[p], browser[p])
    PROVE  Promise!Writes(o, what)
<1> DEFINE work == [p \in Ops |-> Became(wrote[p], browser[p])]
<1>1. work' = [work EXCEPT ![o] = what]
  OBVIOUS
<1> QED BY <1>1 DEF Became, Promise!Writes

\* What RemoteCall lets happen to a call, of which the caller has heard t and
\* then u, and whose operation became w and then x.
Moves(t, u, w, x) ==
    \/ t = "idle" /\ u = "waiting" /\ x \in {"none", "lost", "busy"}
    \/ t = "idle" /\ u = "gone" /\ x = w
    \/ t \in {"waiting", "timeout"} /\ u = t /\ w = "none" /\ x \in {"lost", "busy"}
    \/ u = t /\ w = "busy" /\ x = "answered"
    \/ t = "waiting" /\ u = "timeout" /\ x = w
    \/ t = "waiting" /\ u \in {"ok", "failed"} /\ w = "answered" /\ x = w
    \/ t = "waiting" /\ u = "gone" /\ w = "none" /\ x = w

LEMMA MovesStep ==
    ASSUME NEW o \in Ops,
           \A p \in Ops : p # o => /\ Heard(op'[p]) = Heard(op[p])
                                   /\ Became(wrote'[p], browser'[p]) = Became(wrote[p], browser[p]),
           Moves(Heard(op[o]), Heard(op'[o]), Became(wrote[o], browser[o]), Became(wrote'[o], browser'[o]))
    PROVE  Promise!Next
<1> DEFINE told == [p \in Ops |-> Heard(op[p])]
           work == [p \in Ops |-> Became(wrote[p], browser[p])]
           t == Heard(op[o])
           u == Heard(op'[o])
           w == Became(wrote[o], browser[o])
           x == Became(wrote'[o], browser'[o])
<1>0. \A y \in {"none", "lost", "busy", "answered"} : x = y => Promise!Writes(o, y)
  BY WritesMapped
<1>1. told[o] = t /\ work[o] = w
  OBVIOUS
<1>2. u = t => told' = told
  OBVIOUS
<1>3. x = w => work' = work
  OBVIOUS
<1> HIDE DEF told, work
<1>4. CASE t = "idle" /\ u = "waiting" /\ x \in {"none", "lost", "busy"}
  <2>1. told[o] = "idle"
    BY <1>1, <1>4
  <2>2. Promise!Hears(o, "waiting")
    BY <1>4, HearsMapped
  <2>3. \E y \in Promise!Work \ {"answered"} : Promise!Writes(o, y)
    BY <1>0, <1>4 DEF Promise!Work
  <2>4. Promise!Ask(o)
    BY <2>1, <2>2, <2>3, Zenon DEF told, Heard, Promise!Ask
  <2> QED BY <2>4 DEF Promise!Next
<1>5. CASE t = "idle" /\ u = "gone" /\ x = w
  <2>1. told[o] = "idle" /\ work' = work
    BY <1>1, <1>3, <1>5
  <2>2. Promise!Hears(o, "gone")
    BY <1>5, HearsMapped
  <2>3. Promise!Ask(o)
    BY <2>1, <2>2, Zenon DEF told, work, Heard, Became, Promise!Ask
  <2> QED BY <2>3 DEF Promise!Next
<1>6. CASE t \in {"waiting", "timeout"} /\ u = t /\ w = "none" /\ x \in {"lost", "busy"}
  <2>1. told[o] \in {"waiting", "timeout"} /\ work[o] = "none" /\ told' = told
    BY <1>1, <1>2, <1>6
  <2>2. \E y \in {"lost", "busy"} : Promise!Writes(o, y)
    BY <1>0, <1>6
  <2>3. Promise!Write(o)
    BY <2>1, <2>2, Zenon DEF told, work, Heard, Became, Promise!Write
  <2> QED BY <2>3 DEF Promise!Next
<1>7. CASE u = t /\ w = "busy" /\ x = "answered"
  <2>1. work[o] = "busy" /\ told' = told
    BY <1>1, <1>2, <1>7
  <2>2. Promise!Writes(o, "answered")
    BY <1>7, WritesMapped
  <2>3. Promise!Answer(o)
    BY <2>1, <2>2, Zenon DEF told, work, Heard, Became, Promise!Answer
  <2> QED BY <2>3 DEF Promise!Next
<1>8. CASE t = "waiting" /\ x = w /\ (u = "timeout" \/ (u \in {"ok", "failed"} /\ w = "answered")
                                      \/ (u = "gone" /\ w = "none"))
  <2>1. told[o] = "waiting" /\ work[o] = w /\ work' = work
    BY <1>1, <1>3, <1>8
  <2>2. u = "timeout" => Promise!Hears(o, "timeout")
    BY HearsMapped
  <2>3. u = "ok" => Promise!Hears(o, "ok")
    BY HearsMapped
  <2>4. u = "failed" => Promise!Hears(o, "failed")
    BY HearsMapped
  <2>5. u = "gone" => Promise!Hears(o, "gone")
    BY HearsMapped
  <2>6. \/ Promise!Hears(o, "timeout")
        \/ work[o] = "answered" /\ (Promise!Hears(o, "ok") \/ Promise!Hears(o, "failed"))
        \/ work[o] = "none" /\ Promise!Hears(o, "gone")
    BY <1>8, <2>1, <2>2, <2>3, <2>4, <2>5
  <2>7. Promise!Hear(o)
    BY <2>1, <2>6, Zenon DEF told, work, Heard, Became, Promise!Hear
  <2> QED BY <2>7 DEF Promise!Next
<1> QED BY <1>4, <1>5, <1>6, <1>7, <1>8 DEF Moves

LEMMA StutterStep ==
    ASSUME \A p \in Ops : /\ Heard(op'[p]) = Heard(op[p])
                          /\ Became(wrote'[p], browser'[p]) = Became(wrote[p], browser[p])
    PROVE  UNCHANGED Promise!vars
<1> DEFINE told == [p \in Ops |-> Heard(op[p])]
           work == [p \in Ops |-> Became(wrote[p], browser[p])]
<1>1. told' = told /\ work' = work
  OBVIOUS
<1> QED BY <1>1 DEF Heard, Became, Promise!vars

\* A step about one call is a move of that call, or none.
LEMMA OneStep ==
    ASSUME NEW o \in Ops, OthersKept(o),
           \/ /\ Heard(op'[o]) = Heard(op[o])
              /\ Became(wrote'[o], browser'[o]) = Became(wrote[o], browser[o])
           \/ Moves(Heard(op[o]), Heard(op'[o]), Became(wrote[o], browser[o]), Became(wrote'[o], browser'[o]))
    PROVE  Promise!Next \/ UNCHANGED Promise!vars
<1>1. \A p \in Ops : p # o => /\ Heard(op'[p]) = Heard(op[p])
                              /\ Became(wrote'[p], browser'[p]) = Became(wrote[p], browser[p])
  BY DEF OthersKept
<1>2. CASE Moves(Heard(op[o]), Heard(op'[o]), Became(wrote[o], browser[o]), Became(wrote'[o], browser'[o]))
  BY <1>1, <1>2, MovesStep
<1>3. CASE /\ Heard(op'[o]) = Heard(op[o])
           /\ Became(wrote'[o], browser'[o]) = Became(wrote[o], browser[o])
  BY <1>1, <1>3, StutterStep
<1> QED BY <1>2, <1>3

LEMMA RoutedStep ==
    ASSUME TypeInv, CallInv, NEW o \in Ops, op[o].pc \in {"idle", "discover"}, OthersKept(o),
           Refused(o) \/ Written(o) \/ Relayed(o)
    PROVE  Promise!Next \/ UNCHANGED Promise!vars
<1>1. wrote[o] = {} /\ browser[o] = "no" /\ Became(wrote[o], browser[o]) = "none"
  BY DEF CallInv, Own, Became
<1>2. Heard(op[o]) = IF op[o].pc = "idle" THEN "idle" ELSE "waiting"
  BY HeardIs
<1>3. CASE Refused(o)
  <2>1. Heard(op'[o]) = "gone"
    BY <1>3, HeardIs DEF Refused
  <2>2. Became(wrote'[o], browser'[o]) = "none"
    BY <1>1, <1>3 DEF Refused
  <2> QED BY <1>1, <1>2, <2>1, <2>2, OneStep DEF Moves
<1>4. CASE Written(o)
  <2>1. Heard(op'[o]) = "waiting"
    BY <1>4, HeardIs DEF Written
  <2>2. Became(wrote'[o], browser'[o]) \in {"lost", "busy"}
    BY <1>1, <1>4 DEF Written, Became
  <2> QED BY <1>1, <1>2, <2>1, <2>2, OneStep DEF Moves
<1>5. CASE Relayed(o)
  <2>1. Heard(op'[o]) = "waiting"
    BY <1>5, HeardIs DEF Relayed
  <2>2. Became(wrote'[o], browser'[o]) = "none"
    BY <1>1, <1>5 DEF Relayed
  <2> QED BY <1>1, <1>2, <2>1, <2>2, OneStep DEF Moves
<1> QED BY <1>3, <1>4, <1>5

LEMMA AskStep ==
    ASSUME TypeInv, CallInv, NEW o \in Ops,
           Conclude(o) \/ \E n \in Nodes, a \in Asks : Call(o, n, a[1], a[2])
    PROVE  Promise!Next \/ UNCHANGED Promise!vars
<1>1. CASE Conclude(o)
  BY <1>1, ConcludeEffect, RoutedStep
<1>2. ASSUME NEW n \in Nodes, NEW a \in Asks, Call(o, n, a[1], a[2])
      PROVE  Promise!Next \/ UNCHANGED Promise!vars
  <2>1. op[o].pc = "idle" /\ OthersKept(o)
    BY <1>2, CallEffect
  <2>2. CASE Refused(o) \/ Written(o) \/ Relayed(o)
    BY <2>1, <2>2, RoutedStep
  <2>3. CASE op'[o].pc = "discover" /\ op'[o].ack = "none" /\ UNCHANGED <<inbox, wrote, browser>>
    <3>1. Heard(op[o]) = "idle" /\ Heard(op'[o]) = "waiting"
      BY <2>1, <2>3, HeardIs
    <3>2. Became(wrote'[o], browser'[o]) = "none"
      BY <2>1, <2>3 DEF CallInv, Own, Became
    <3> QED BY <2>1, <3>1, <3>2, OneStep DEF Moves
  <2> QED BY <1>2, <2>2, <2>3, CallEffect
<1> QED BY <1>1, <1>2

LEMMA EndStep ==
    ASSUME TypeInv, CallInv, NEW o \in Ops, Finish(o) \/ Timeout(o)
    PROVE  Promise!Next \/ UNCHANGED Promise!vars
<1>1. Ended(o, "timeout") \/ (Ended(o, op[o].ack) /\ op[o].ack # "none")
  BY FinishEffect, TimeoutEffect
<1>2. OthersKept(o) /\ op[o].pc = "wait" /\ op'[o].pc = "done" /\ UNCHANGED <<wrote, browser>>
  BY <1>1 DEF Ended
<1>3. Heard(op[o]) = "waiting" /\ Heard(op'[o]) = op'[o].ack
  BY <1>2, HeardIs
<1>4. op[o].ack \in {"none", "ok", "failed", "gone", "timeout"}
  BY DEF TypeInv, TypeOK, OpRecs
<1>5. Became(wrote'[o], browser'[o]) = Became(wrote[o], browser[o])
  BY <1>2
<1>6. \/ op'[o].ack = "timeout"
      \/ op'[o].ack \in {"ok", "failed"} /\ Became(wrote[o], browser[o]) = "answered"
      \/ op'[o].ack = "gone" /\ Became(wrote[o], browser[o]) = "none"
  BY <1>1, <1>4 DEF Ended, CallInv, Own, Became
<1> QED BY <1>2, <1>3, <1>5, <1>6, OneStep DEF Moves

LEMMA AckStep ==
    ASSUME TypeInv, CallInv, NEW s \in Socks, NEW o \in Ops, NEW ack \in {"ok", "failed"}, Ack(s, o, ack)
    PROVE  Promise!Next \/ UNCHANGED Promise!vars
<1>1. /\ browser[o] = "busy" /\ browser'[o] = "answered" /\ OthersKept(o)
      /\ op'[o].pc = op[o].pc
      /\ op'[o].ack = op[o].ack \/ op[o].pc = "wait"
  BY AckEffect
<1>2. Heard(op'[o]) = Heard(op[o])
  BY <1>1, HeardIs
<1>3. Became(wrote[o], browser[o]) = "busy" /\ Became(wrote'[o], browser'[o]) = "answered"
  BY <1>1 DEF Became
<1> QED BY <1>1, <1>2, <1>3, OneStep DEF Moves

LEMMA FrameStep ==
    ASSUME TypeInv, CallInv, NEW n \in Nodes, OnDiscoverReply(n) \/ OnDispatch(n) \/ OnReply(n)
    PROVE  Promise!Next \/ UNCHANGED Promise!vars
<1>1. CASE OnDiscoverReply(n)
  <2>1. \A p \in Ops : op'[p].pc = op[p].pc /\ op'[p].ack = op[p].ack /\ wrote'[p] = wrote[p]
                       /\ browser'[p] = browser[p]
    BY <1>1, DiscoverReplyEffect
  <2>2. \A p \in Ops : Heard(op'[p]) = Heard(op[p])
    BY <2>1, HeardIs
  <2> QED BY <2>1, <2>2, StutterStep
<1>2. CASE OnDispatch(n)
  <2>1. PICK o \in Ops :
          /\ UNCHANGED op
          /\ wrote[o] = {} /\ browser[o] = "no"
          /\ op[o].pc = "done" => op[o].ack = "timeout"
          /\ op[o].pc \in {"wait", "done"}
          /\ \A p \in Ops : p # o => wrote'[p] = wrote[p] /\ browser'[p] = browser[p]
          /\ \/ (\E s \in Socks : wrote'[o] = wrote[o] \cup {s}) /\ browser'[o] \in {"busy", browser[o]}
             \/ UNCHANGED <<wrote, browser>>
    BY <1>2, DispatchEffect
  <2>2. OthersKept(o) /\ Heard(op'[o]) = Heard(op[o]) /\ Heard(op[o]) \in {"waiting", "timeout"}
    BY <2>1, HeardIs DEF OthersKept
  <2>3. /\ Became(wrote[o], browser[o]) = "none"
        /\ Became(wrote'[o], browser'[o]) \in {"none", "lost", "busy"}
    BY <2>1 DEF Became
  <2> QED BY <2>2, <2>3, OneStep DEF Moves
<1>3. CASE OnReply(n)
  <2>1. PICK o \in Ops : /\ OthersKept(o) /\ UNCHANGED <<wrote, browser>> /\ op'[o].pc = op[o].pc
                         /\ op' = op \/ op[o].pc = "wait"
    BY <1>3, ReplyEffect
  <2>2. Heard(op'[o]) = Heard(op[o])
    BY <2>1, HeardIs
  <2> QED BY <2>1, <2>2, OneStep
<1> QED BY <1>1, <1>2, <1>3

LEMMA StepMapped == ASSUME TypeInv, CallInv, [Next]_vars PROVE [Promise!Next]_(Promise!vars)
<1>1. ASSUME UNCHANGED <<op, wrote, browser>> PROVE UNCHANGED Promise!vars
  BY <1>1, StutterStep
<1>2. ASSUME NEW n \in Nodes, Start(n) \/ Bootstrapped(n) \/ CtrlStep(n) \/ OnHelloAck(n)
      PROVE  UNCHANGED Promise!vars
  BY <1>1, <1>2 DEF Start, Bootstrapped, CtrlStep, OnHello, OnDiscover, OnDriveOwner, OnSupersede,
                    OnHelloAck, calls
<1>3. ASSUME NEW s \in Socks, Register(s) \/ Announce(s) \/ Disconnect(s)
      PROVE  UNCHANGED Promise!vars
  BY <1>1, <1>3 DEF Register, Announce, Disconnect, calls
<1>4. ASSUME NEW d \in Devices, Leave(d) \/ \E n \in Nodes : Connect(d, n)
      PROVE  UNCHANGED Promise!vars
  BY <1>1, <1>4 DEF Leave, Connect, calls
<1>5. CASE UNCHANGED vars
  BY <1>1, <1>5 DEF vars, calls
<1> QED BY <1>2, <1>3, <1>4, <1>5, AskStep, EndStep, AckStep, FrameStep DEF Next, InboxStep

LEMMA InitMapped == ASSUME Init PROVE Promise!Init
<1>1. IdleOp.pc = "idle"
  BY DEF IdleOp
<1>2. \A p \in Ops : Heard(op[p]) = "idle" /\ Became(wrote[p], browser[p]) = "none"
  BY <1>1, HeardIs DEF Init, Became
<1> DEFINE told == [p \in Ops |-> Heard(op[p])]
           work == [p \in Ops |-> Became(wrote[p], browser[p])]
<1>3. told = [p \in Ops |-> "idle"] /\ work = [p \in Ops |-> "none"]
  BY <1>2
<1> QED BY <1>3, Zenon DEF Heard, Became, Promise!Init

\* The gateway keeps the promise of RemoteCall to whoever calls it
\* (remote_drive.py:34-36, 828-842), whatever goes on between the workers:
\* an operation is written once, and "not delivered" is said only of one
\* that no browser will run.
THEOREM GatewayKeepsItsPromise == Spec => CallsAreKept
<1>1. Init => Promise!Init
  BY InitMapped
<1>2. TypeInv /\ CallInv /\ [Next]_vars => [Promise!Next]_(Promise!vars)
  BY StepMapped
<1> QED BY <1>1, <1>2, CallInvariant, PTL DEF Spec, CallsAreKept, Promise!Spec
=============================================================================
