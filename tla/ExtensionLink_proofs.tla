----------------------- MODULE ExtensionLink_proofs -----------------------
(***************************************************************************)
(* Proofs about ExtensionLink, for any tokens and any number of acts and   *)
(* faults: type correctness, one client at a time, and a browser that is   *)
(* signed in is never left with nothing to revive it.                      *)
(***************************************************************************)
EXTENDS ExtensionLink, TLAPS

\* A torn-down worker has no handler under way.
DownIsDown == worker # "up" => flows = {} /\ starts = {}

\* What each handler carries to each place.
FlowKinds ==
    \A f \in flows :
        \/ f.op = "signin" /\ f.at \in {"save", "apply", "start"} /\ f.token # None
        \/ f.op = "adopt" /\ f.at \in {"check", "save", "apply", "start"} /\ f.token # None
        \/ f.op = "check" /\ f.at \in {"answer", "save", "apply"}
        \/ f.op = "tours" /\ f.at = "answer"
        \/ f.op = "signout" /\ f.at \in {"clear", "apply", "remote"} /\ f.token = None
        \/ f.op = "restore" /\ f.at = "start"

Enters(f) == f.op \in {"signin", "adopt"}

\* Not signed in yet.
Entering(f) == Enters(f) /\ f.at \in {"check", "save", "apply"}

\* One attempt to sign in at a time, and never while a session is cleared.
OneEnters == \A f, g \in flows : Enters(f) /\ Enters(g) => f = g
Apart == ~(Storing /\ Clearing)

\* Until it is over nobody is signed in, and the session is none or the one
\* on trial; what it stored stays.
EntersAlone ==
    \A f \in flows : Entering(f) =>
        /\ member = None
        /\ session = None \/ (f.op = "adopt" /\ session = f.token)
        /\ f.at = "check" => f.prev = None
        /\ f.at = "apply" => disk.session = f.token

\* The panel of a signed-out browser: the session is none or on trial.
OutIsOut ==
    worker = "up" /\ ~signedIn =>
        session = None \/ \E f \in flows : f.op = "adopt" /\ Entering(f)

SwitchKept == worker = "up" => control = disk.control

\* Who is signed in has the session, in the worker and (but for a sign-out
\* that is under way) on disk.
MemberHas == worker = "up" /\ member # None => session = member /\ signedIn

Leaving == \E f \in flows : f.op = "signout" /\ f.at = "apply"
MemberStored == member # None => disk.session = member \/ Leaving

\* The last part of a sign-out stops nobody's client.
LeftIsOut == member # None => \A f \in flows : f.at # "remote"

\* The alarm is armed, or something under way is going to arm it.
Coming ==
    /\ worker = "up"
    /\ \/ \E f \in flows : f.at = "start"
       \/ \E s \in starts : s.latest /\ s.token = member
Woken == member # None /\ disk.control => alarm \/ Coming

IInv ==
    /\ TypeOK /\ OneClient /\ DownIsDown /\ FlowKinds /\ OneEnters /\ Apart
    /\ EntersAlone /\ OutIsOut /\ SwitchKept /\ MemberHas /\ MemberStored
    /\ LeftIsOut /\ Woken

----------------------------------------------------------------------------
\* A handler that goes on to another place is the same handler there.
LEMMA GoesOn ==
    ASSUME TypeOK, NEW f \in flows, NEW at \in Places, Goes(f, at)
    PROVE  \E g \in Flows :
              /\ flows' = (flows \ {f}) \cup {g}
              /\ g.op = f.op /\ g.at = at /\ g.token = f.token /\ g.prev = f.prev
<1>1. f \in Flows
  BY DEF TypeOK
<1> DEFINE g == [f EXCEPT !.at = at]
<1>2. /\ g \in Flows
      /\ g.op = f.op /\ g.at = at /\ g.token = f.token /\ g.prev = f.prev
  BY <1>1 DEF Flows
<1>3. flows' = (flows \ {f}) \cup {g}
  BY DEF Goes
<1> QED BY <1>2, <1>3

Same == UNCHANGED <<worker, control, revoked, acts, faults>>


\* The new client is the only one.
LEMMA NewOne ==
    ASSUME TypeOK, OneClient, NEW s \in starts, Install(s)
    PROVE  \E k \in Clients : clients' = {k} /\ run' = k.id
<1> DEFINE new == NewClient(s.token)
<1>1. \E i \in Ids : \A k \in clients : k.id # i
  BY DEF TypeOK, OneClient, Ids
<1>2. s.token \in Tokens
  BY DEF TypeOK, StartCalls
<1>3. new \in Clients
  BY <1>1, <1>2 DEF NewClient, Idle, Clients
<1>4. clients \ Installed = {}
  BY DEF OneClient, Installed
<1> QED BY <1>3, <1>4 DEF Install

\* What happens to a client leaves it the same client.
LEMMA ConnectedTypes ==
    ASSUME NEW k \in Clients
    PROVE  /\ Connected(k) \in Clients /\ Connected(k).id = k.id
           /\ Ensured(k) \in Clients /\ Ensured(k).id = k.id
BY DEF Connected, Ensured, Clients

LEMMA ClosedTypes ==
    ASSUME NEW k \in Clients
    PROVE  Closed(k) \in Clients /\ Closed(k).id = k.id
BY DEF Closed, Clients

LEMMA OutdatedTypes == TypeOK => Outdated(starts) \subseteq StartCalls
<1> SUFFICES ASSUME TypeOK, NEW s \in starts PROVE [s EXCEPT !.latest = FALSE] \in StartCalls
  BY DEF Outdated
<1> QED BY DEF TypeOK, StartCalls

\* The client is to be started again, or there is nothing to start.
LEMMA StartRunTypes ==
    ASSUME TypeOK, OneClient, NEW on \in BOOLEAN, StartRunClient(session, on)
    PROVE  /\ starts' \subseteq StartCalls /\ clients' \subseteq clients
           /\ run' \in {run, 0} /\ shown' \in BOOLEAN
           /\ (clients' = clients /\ run' = run) \/ clients' = {}
           /\ session # None /\ on => \E s \in starts' : s.latest /\ s.token = session
<1>1. CASE session = None \/ ~on
  BY <1>1 DEF StartRunClient, TypeOK
<1>2. CASE session # None /\ on
  <2> DEFINE s == [token |-> session, latest |-> TRUE]
  <2>1. s \in StartCalls /\ s.latest /\ s.token = session
    BY <1>2 DEF StartCalls, TypeOK
  <2>2. starts' = Outdated(starts) \cup {s} /\ clients' = clients \ Installed /\ run' = 0
    BY <1>2 DEF StartRunClient
  <2>3. clients' = {}
    BY <2>2 DEF Installed, OneClient
  <2>4. shown' \in BOOLEAN
    BY <1>2, Zenon DEF StartRunClient
  <2> HIDE DEF s
  <2> QED BY <1>2, <2>1, <2>2, <2>3, <2>4, OutdatedTypes
<1> QED BY <1>1, <1>2

LEMMA StopRemoteTypes ==
    ASSUME TypeOK, OneClient, StopRemote
    PROVE  starts' \subseteq StartCalls /\ clients' = {} /\ run' = 0 /\ shown' = FALSE
BY OutdatedTypes DEF StopRemote, Installed, OneClient

LEMMA AsksTypes ==
    ASSUME TypeOK, NEW op \in {"check", "tours"}
    PROVE  /\ Asks(op) \in SUBSET Flows
           /\ \A g \in Asks(op) : g.op = op /\ g.at = "answer" /\ g.token # None
BY DEF Asks, Flow, TypeOK, Flows, Ops, Places

LEMMA TickOne ==
    ASSUME TypeOK, OneClient, Tick
    PROVE  \/ clients' = clients /\ run' = run
           \/ clients' = {} /\ run' = 0
           \/ \E k \in Clients : clients' = {k} /\ run' = k.id
<1>1. CASE UNCHANGED <<clients, run>>
  BY <1>1
<1>2. CASE StartRunClient(session, control)
  BY <1>2 DEF StartRunClient, Installed, OneClient
<1>3. CASE clients' = (clients \ Installed) \cup {Ensured(k) : k \in Installed} /\ run' = run
  <2>1. CASE clients = {}
    BY <2>1, <1>3 DEF Installed
  <2>2. ASSUME NEW k \in clients PROVE \E l \in Clients : clients' = {l} /\ run' = l.id
    <3>1. Installed = {k} /\ clients \ Installed = {} /\ k \in Clients /\ k.id = run
      BY <2>2 DEF OneClient, Installed, TypeOK
    <3>2. clients' = {Ensured(k)}
      BY <1>3, <3>1
    <3> QED BY <1>3, <3>1, <3>2, ConnectedTypes
  <2> QED BY <2>1, <2>2
<1> QED BY <1>1, <1>2, <1>3 DEF Tick

LEMMA SocketOf ==
    ASSUME TypeOK, NEW k \in clients, Open(k) \/ Lose(k) \/ OnClose(k) \/ Retry(k)
    PROVE  \E l \in Clients : clients' = (clients \ {k}) \cup {l} /\ l.id = k.id
<1>1. k \in Clients
  BY DEF TypeOK
<1>2. ASSUME NEW w \in {"open", "closing"}, NEW p \in BOOLEAN
      PROVE  [k EXCEPT !.ws = w] \in Clients /\ [k EXCEPT !.ws = w, !.ping = p] \in Clients
             /\ [k EXCEPT !.ws = w].id = k.id /\ [k EXCEPT !.ws = w, !.ping = p].id = k.id
  BY <1>1 DEF Clients
<1>3. CASE Open(k)
  BY <1>2, <1>3 DEF Open, Replace
<1>4. CASE Lose(k)
  BY <1>2, <1>4 DEF Lose, Replace
<1>5. CASE OnClose(k)
  <2>1. /\ [k EXCEPT !.ws = "none"] \in Clients /\ [k EXCEPT !.ws = "none"].id = k.id
        /\ [k EXCEPT !.late = FALSE] \in Clients /\ [k EXCEPT !.late = FALSE].id = k.id
    BY <1>1 DEF Clients
  <2> QED BY <1>5, <2>1, ClosedTypes DEF OnClose, Replace
<1>6. CASE Retry(k)
  <2>1. [k EXCEPT !.retry = FALSE] \in Clients /\ [k EXCEPT !.retry = FALSE].id = k.id
    BY <1>1 DEF Clients
  <2> QED BY <1>6, <2>1, ConnectedTypes DEF Retry, Replace
<1> QED BY <1>3, <1>4, <1>5, <1>6

\* The session is stored.
LEMMA SaveKeeps ==
    ASSUME IInv, NEW f \in flows, worker = "up", Same,
           Save(f)
    PROVE  IInv'
<1>1. f \in Flows /\ flows \subseteq Flows
  BY DEF IInv, TypeOK
<1>2. PICK g \in Flows : /\ flows' = (flows \ {f}) \cup {g} /\ g.op = f.op
                         /\ g.at = "apply" /\ g.token = f.token /\ g.prev = f.prev
  BY GoesOn DEF Save, Places, IInv
<1>3. f.at = "save"
  BY DEF Save
<1>4. UNCHANGED <<alarm, session, signedIn, starts, clients, run, shown, member>>
  BY DEF Save
<1>5. disk' = [disk EXCEPT !.session = IF f.op # "check" THEN f.token
           ELSE IF session = None THEN disk.session ELSE session]
  BY DEF Save
<1>6. TypeOK'
  BY <1>1, <1>2, <1>3, <1>4, <1>5 DEF IInv, TypeOK, Flows, Same
<1>7. OneClient' /\ MemberHas'
  BY <1>1, <1>2, <1>3, <1>4, <1>5 DEF IInv, OneClient, MemberHas, Same
<1>8. DownIsDown'
  BY <1>1, <1>2, <1>3, <1>4, <1>5 DEF IInv, DownIsDown, Same
<1>9. FlowKinds'
  BY <1>1, <1>2, <1>3, <1>4, <1>5 DEF IInv, FlowKinds, Same
<1>10. OneEnters'
  BY <1>1, <1>2, <1>3, <1>4, <1>5 DEF IInv, OneEnters, Enters, Same
<1>11. Apart'
  BY <1>1, <1>2, <1>3, <1>4, <1>5 DEF IInv, Apart, Storing, Clearing, During,
       FlowKinds, Same
<1>12. EntersAlone'
  BY <1>1, <1>2, <1>3, <1>4, <1>5 DEF IInv, EntersAlone, Entering, Enters,
       OneEnters, FlowKinds, TypeOK, Same
<1>13. OutIsOut'
  BY <1>1, <1>2, <1>3, <1>4, <1>5 DEF IInv, OutIsOut, Entering, Enters,
       FlowKinds, Same
<1>14. SwitchKept'
  BY <1>1, <1>2, <1>3, <1>4, <1>5 DEF IInv, SwitchKept, TypeOK, Same
<1>15. MemberStored'
  BY <1>1, <1>2, <1>3, <1>4, <1>5 DEF IInv, MemberStored, Leaving, MemberHas,
       EntersAlone, Entering, Enters, FlowKinds, TypeOK, Same
<1>16. LeftIsOut'
  BY <1>1, <1>2, <1>3, <1>4, <1>5 DEF IInv, LeftIsOut, Same
<1>17. Woken'
  BY <1>1, <1>2, <1>3, <1>4, <1>5 DEF IInv, Woken, Coming, SwitchKept,
       MemberHas, LeftIsOut, TypeOK, Same
<1> QED BY <1>6, <1>7, <1>8, <1>9, <1>10, <1>11, <1>12, <1>13, <1>14, <1>15,
       <1>16, <1>17 DEF IInv

\* It becomes the session of the worker, or there is none any more.
LEMMA ApplyKeeps ==
    ASSUME IInv, NEW f \in flows, worker = "up", Same,
           Apply(f)
    PROVE  IInv'
<1>1. f \in Flows /\ flows \subseteq Flows
  BY DEF IInv, TypeOK
<1>2. f.at = "apply" /\ f.op # "check"
  BY DEF Apply
<1>3. PICK g \in Flows : /\ flows' = (flows \ {f}) \cup {g} /\ g.op = f.op
                         /\ g.at = (IF f.op = "signout" THEN "remote" ELSE "start")
                         /\ g.token = f.token /\ g.prev = f.prev
  BY GoesOn DEF Apply, Places, IInv
<1>4. UNCHANGED <<disk, alarm, starts, clients, run, shown>>
  BY DEF Apply
<1>5. session' = f.token /\ signedIn' = (f.token # None) /\ member' = f.token
  BY DEF Apply
<1>6. TypeOK'
  BY <1>1, <1>2, <1>3, <1>4, <1>5 DEF IInv, TypeOK, Flows, Same
<1>7. OneClient' /\ SwitchKept'
  BY <1>1, <1>2, <1>3, <1>4, <1>5 DEF IInv, OneClient, SwitchKept, Same
<1>8. DownIsDown'
  BY <1>1, <1>2, <1>3, <1>4, <1>5 DEF IInv, DownIsDown, Same
<1>9. FlowKinds'
  BY <1>1, <1>2, <1>3, <1>4, <1>5 DEF IInv, FlowKinds, Same
<1>10. OneEnters'
  BY <1>1, <1>2, <1>3, <1>4, <1>5 DEF IInv, OneEnters, Enters, Same
<1>11. Apart'
  BY <1>1, <1>2, <1>3, <1>4, <1>5 DEF IInv, Apart, Storing, Clearing, During,
       FlowKinds, Same
<1>12. EntersAlone'
  BY <1>1, <1>2, <1>3, <1>4, <1>5 DEF IInv, EntersAlone, Entering, Enters,
       OneEnters, FlowKinds, TypeOK, Same
<1>13. OutIsOut'
  BY <1>1, <1>2, <1>3, <1>4, <1>5 DEF IInv, OutIsOut, Entering, Enters,
       FlowKinds, TypeOK, Same
<1>14. MemberHas'
  BY <1>1, <1>2, <1>3, <1>4, <1>5 DEF IInv, MemberHas, EntersAlone, Entering,
       Enters, FlowKinds, Same
<1>15. MemberStored'
  BY <1>1, <1>2, <1>3, <1>4, <1>5 DEF IInv, MemberStored, Leaving, MemberHas,
       EntersAlone, Entering, Enters, FlowKinds, TypeOK, Same
<1>16. LeftIsOut'
  BY <1>1, <1>2, <1>3, <1>4, <1>5 DEF IInv, LeftIsOut, FlowKinds, Apart,
       Storing, Clearing, During, Same
<1>17. Woken'
  BY <1>1, <1>2, <1>3, <1>4, <1>5 DEF IInv, Woken, Coming, SwitchKept,
       MemberHas, LeftIsOut, FlowKinds, Same
<1> QED BY <1>6, <1>7, <1>8, <1>9, <1>10, <1>11, <1>12, <1>13, <1>14, <1>15,
       <1>16, <1>17 DEF IInv

\* A session that was confirmed is shown.
LEMMA ReapplyKeeps ==
    ASSUME IInv, NEW f \in flows, worker = "up", Same,
           Reapply(f)
    PROVE  IInv'
<1>1. f \in Flows /\ flows \subseteq Flows
  BY DEF IInv, TypeOK
<1>2. f.at = "apply" /\ f.op = "check"
  BY DEF Reapply
<1>3. /\ flows' = (flows \ {f}) \cup Asks("tours") /\ Asks("tours") \subseteq Flows
      /\ \A g \in Asks("tours") : g.op = "tours" /\ g.at = "answer" /\ g.token # None
  BY DEF Reapply, Becomes, Asks, Flow, IInv, TypeOK, Flows, Ops, Places
<1>4. UNCHANGED <<disk, alarm, session, starts, clients, run, shown, member>>
  BY DEF Reapply
<1>5. signedIn' = (session # None)
  BY DEF Reapply
<1>6. TypeOK'
  BY <1>1, <1>2, <1>3, <1>4, <1>5 DEF IInv, TypeOK, Flows, Same
<1>7. OneClient' /\ SwitchKept'
  BY <1>1, <1>2, <1>3, <1>4, <1>5 DEF IInv, OneClient, SwitchKept, Same
<1>8. DownIsDown'
  BY <1>1, <1>2, <1>3, <1>4, <1>5 DEF IInv, DownIsDown, Same
<1>9. FlowKinds'
  BY <1>1, <1>2, <1>3, <1>4, <1>5 DEF IInv, FlowKinds, Same
<1>10. OneEnters'
  BY <1>1, <1>2, <1>3, <1>4, <1>5 DEF IInv, OneEnters, Enters, Same
<1>11. Apart'
  BY <1>1, <1>2, <1>3, <1>4, <1>5 DEF IInv, Apart, Storing, Clearing, During,
       FlowKinds, Same
<1>12. EntersAlone'
  BY <1>1, <1>2, <1>3, <1>4, <1>5 DEF IInv, EntersAlone, Entering, Enters,
       OneEnters, FlowKinds, Same
<1>13. OutIsOut'
  BY <1>1, <1>2, <1>3, <1>4, <1>5 DEF IInv, OutIsOut, Entering, Enters,
       FlowKinds, Same
<1>14. MemberHas'
  BY <1>1, <1>2, <1>3, <1>4, <1>5 DEF IInv, MemberHas, EntersAlone, Entering,
       Enters, Same
<1>15. MemberStored'
  BY <1>1, <1>2, <1>3, <1>4, <1>5 DEF IInv, MemberStored, Leaving, MemberHas,
       EntersAlone, Entering, Enters, FlowKinds, Same
<1>16. LeftIsOut'
  BY <1>1, <1>2, <1>3, <1>4, <1>5 DEF IInv, LeftIsOut, Same
<1>17. Woken'
  BY <1>1, <1>2, <1>3, <1>4, <1>5 DEF IInv, Woken, Coming, SwitchKept,
       MemberHas, LeftIsOut, Same
<1> QED BY <1>6, <1>7, <1>8, <1>9, <1>10, <1>11, <1>12, <1>13, <1>14, <1>15,
       <1>16, <1>17 DEF IInv

\* The rest of a sign-in, or of the restoration, starts the client.
LEMMA StartsKeeps ==
    ASSUME IInv, NEW f \in flows, worker = "up", Same,
           Starts(f)
    PROVE  IInv'
<1>1. f \in Flows /\ flows \subseteq Flows
  BY DEF IInv, TypeOK
<1>2. f.at = "start"
  BY DEF Starts
<1>3. PICK S \in SUBSET Flows : /\ flows' = (flows \ {f}) \cup S
                                /\ \A g \in S : /\ g.op \in {"check", "tours"}
                                                /\ g.at = "answer" /\ g.token # None
  BY AsksTypes DEF Starts, Becomes, IInv
<1>4. UNCHANGED <<disk, alarm, session, signedIn, member>>
  BY DEF Starts
<1>5. /\ starts' \subseteq StartCalls /\ clients' \subseteq clients /\ run' \in {run, 0}
      /\ shown' \in BOOLEAN /\ ((clients' = clients /\ run' = run) \/ clients' = {})
  BY StartRunTypes DEF Starts, IInv, TypeOK
<1>6. session # None /\ control => \E s \in starts' : s.latest /\ s.token = session
  BY StartRunTypes DEF Starts, IInv, TypeOK
<1>7. TypeOK'
  BY <1>1, <1>2, <1>3, <1>4, <1>5, <1>6 DEF IInv, TypeOK, Flows, Same
<1>8. SwitchKept' /\ MemberHas'
  BY <1>1, <1>2, <1>3, <1>4, <1>5, <1>6 DEF IInv, SwitchKept, MemberHas, Same
<1>9. OneClient'
  BY <1>1, <1>2, <1>3, <1>4, <1>5, <1>6 DEF IInv, OneClient, Same
<1>10. DownIsDown'
  BY <1>1, <1>2, <1>3, <1>4, <1>5, <1>6 DEF IInv, DownIsDown, Same
<1>11. FlowKinds'
  BY <1>1, <1>2, <1>3, <1>4, <1>5, <1>6 DEF IInv, FlowKinds, Same
<1>12. OneEnters'
  BY <1>1, <1>2, <1>3, <1>4, <1>5, <1>6 DEF IInv, OneEnters, Enters, Same
<1>13. Apart'
  BY <1>1, <1>2, <1>3, <1>4, <1>5, <1>6 DEF IInv, Apart, Storing, Clearing,
       During, FlowKinds, Same
<1>14. EntersAlone'
  BY <1>1, <1>2, <1>3, <1>4, <1>5, <1>6 DEF IInv, EntersAlone, Entering,
       Enters, OneEnters, FlowKinds, Same
<1>15. OutIsOut'
  BY <1>1, <1>2, <1>3, <1>4, <1>5, <1>6 DEF IInv, OutIsOut, Entering, Enters,
       FlowKinds, Same
<1>16. MemberStored'
  BY <1>1, <1>2, <1>3, <1>4, <1>5, <1>6 DEF IInv, MemberStored, Leaving,
       MemberHas, EntersAlone, Entering, Enters, FlowKinds, Same
<1>17. LeftIsOut'
  BY <1>1, <1>2, <1>3, <1>4, <1>5, <1>6 DEF IInv, LeftIsOut, Same
<1>18. Woken'
  BY <1>1, <1>2, <1>3, <1>4, <1>5, <1>6 DEF IInv, Woken, Coming, SwitchKept,
       MemberHas, LeftIsOut, Same
<1> QED BY <1>7, <1>8, <1>9, <1>10, <1>11, <1>12, <1>13, <1>14, <1>15, <1>16,
       <1>17, <1>18 DEF IInv

\* A pasted token is confirmed, or given up.
LEMMA AdoptCheckedKeeps ==
    ASSUME IInv, NEW f \in flows, worker = "up", Same,
           AdoptChecked(f)
    PROVE  IInv'
<1>1. f \in Flows /\ flows \subseteq Flows
  BY DEF IInv, TypeOK
<1>2. f.op = "adopt" /\ f.at = "check"
  BY DEF AdoptChecked
<1>3. UNCHANGED <<disk, alarm, signedIn, starts, clients, run, shown, member>>
  BY DEF AdoptChecked
<1>4. f.prev = None /\ member = None
  BY DEF AdoptChecked, IInv, EntersAlone, Entering, Enters
<1>5. \/ /\ ~Clearing /\ session' = session
         /\ \E g \in Flows : /\ flows' = (flows \ {f}) \cup {g} /\ g.op = f.op
                             /\ g.at = "save" /\ g.token = f.token /\ g.prev = f.prev
      \/ flows' = flows \ {f} /\ session' = None
  <2>1. CASE Goes(f, "save") /\ ~Clearing /\ session' = session
    <3>1. \E g \in Flows : /\ flows' = (flows \ {f}) \cup {g} /\ g.op = f.op
                           /\ g.at = "save" /\ g.token = f.token /\ g.prev = f.prev
      BY <2>1, GoesOn DEF Places, IInv
    <3> QED BY <2>1, <3>1
  <2>2. CASE Ends(f) /\ session' = f.prev
    BY <2>2, <1>4 DEF Ends
  <2> QED BY <2>1, <2>2 DEF AdoptChecked
<1>6. TypeOK'
  BY <1>1, <1>2, <1>3, <1>4, <1>5 DEF IInv, TypeOK, Flows, Same
<1>7. OneClient' /\ SwitchKept'
  BY <1>1, <1>2, <1>3, <1>4, <1>5 DEF IInv, OneClient, SwitchKept, Same
<1>8. DownIsDown'
  BY <1>1, <1>2, <1>3, <1>4, <1>5 DEF IInv, DownIsDown, Same
<1>9. FlowKinds'
  BY <1>1, <1>2, <1>3, <1>4, <1>5 DEF IInv, FlowKinds, Same
<1>10. OneEnters'
  BY <1>1, <1>2, <1>3, <1>4, <1>5 DEF IInv, OneEnters, Enters, Same
<1>11. Apart'
  BY <1>1, <1>2, <1>3, <1>4, <1>5 DEF IInv, Apart, Storing, Clearing, During,
       FlowKinds, Same
<1>12. EntersAlone'
  BY <1>1, <1>2, <1>3, <1>4, <1>5 DEF IInv, EntersAlone, Entering, Enters,
       OneEnters, FlowKinds, Same
<1>13. OutIsOut'
  BY <1>1, <1>2, <1>3, <1>4, <1>5 DEF IInv, OutIsOut, Entering, Enters,
       FlowKinds, Same
<1>14. MemberHas'
  BY <1>1, <1>2, <1>3, <1>4, <1>5 DEF IInv, MemberHas, EntersAlone, Entering,
       Enters, Same
<1>15. MemberStored'
  BY <1>1, <1>2, <1>3, <1>4, <1>5 DEF IInv, MemberStored, Leaving, MemberHas,
       EntersAlone, Entering, Enters, FlowKinds, Same
<1>16. LeftIsOut'
  BY <1>1, <1>2, <1>3, <1>4, <1>5 DEF IInv, LeftIsOut, Same
<1>17. Woken'
  BY <1>1, <1>2, <1>3, <1>4, <1>5 DEF IInv, Woken, Coming, SwitchKept,
       MemberHas, LeftIsOut, Same
<1> QED BY <1>6, <1>7, <1>8, <1>9, <1>10, <1>11, <1>12, <1>13, <1>14, <1>15,
       <1>16, <1>17 DEF IInv

\* The server has answered, or has not.
LEMMA AnsweredKeeps ==
    ASSUME IInv, NEW f \in flows, worker = "up", Same,
           Answered(f)
    PROVE  IInv'
<1>1. f \in Flows /\ flows \subseteq Flows
  BY DEF IInv, TypeOK
<1>2. f.at = "answer"
  BY DEF Answered
<1>3. UNCHANGED <<disk, alarm, session, signedIn, starts, clients, run, shown, member>>
  BY DEF Answered
<1>4. \/ /\ f.op = "check"
         /\ \E g \in Flows : /\ flows' = (flows \ {f}) \cup {g} /\ g.op = f.op
                             /\ g.at = "save" /\ g.token = f.token /\ g.prev = f.prev
      \/ ~Storing /\ flows' = (flows \ {f}) \cup {SignsOut}
      \/ flows' = flows \ {f}
  <2>1. CASE f.op = "check" /\ Goes(f, "save")
    <3>1. \E g \in Flows : /\ flows' = (flows \ {f}) \cup {g} /\ g.op = f.op
                           /\ g.at = "save" /\ g.token = f.token /\ g.prev = f.prev
      BY <2>1, GoesOn DEF Places, IInv
    <3> QED BY <2>1, <3>1
  <2> QED BY <2>1 DEF Answered, Ends, Becomes
<1>5. /\ SignsOut \in Flows /\ SignsOut.op = "signout" /\ SignsOut.at = "clear"
      /\ SignsOut.token = None
  BY DEF SignsOut, Flow, Flows, Ops, Places
<1>6. TypeOK'
  BY <1>1, <1>2, <1>3, <1>4, <1>5 DEF IInv, TypeOK, Flows, Same
<1>7. OneClient' /\ SwitchKept' /\ MemberHas'
  BY <1>1, <1>2, <1>3, <1>4, <1>5 DEF IInv, OneClient, SwitchKept, MemberHas,
       Same
<1>8. DownIsDown'
  BY <1>1, <1>2, <1>3, <1>4, <1>5 DEF IInv, DownIsDown, Same
<1>9. FlowKinds'
  BY <1>1, <1>2, <1>3, <1>4, <1>5 DEF IInv, FlowKinds, Same
<1>10. OneEnters'
  BY <1>1, <1>2, <1>3, <1>4, <1>5 DEF IInv, OneEnters, Enters, Same
<1>11. Apart'
  BY <1>1, <1>2, <1>3, <1>4, <1>5 DEF IInv, Apart, Storing, Clearing, During,
       FlowKinds, Same
<1>12. EntersAlone'
  BY <1>1, <1>2, <1>3, <1>4, <1>5 DEF IInv, EntersAlone, Entering, Enters,
       OneEnters, FlowKinds, Same
<1>13. OutIsOut'
  BY <1>1, <1>2, <1>3, <1>4, <1>5 DEF IInv, OutIsOut, Entering, Enters,
       FlowKinds, Same
<1>14. MemberStored'
  BY <1>1, <1>2, <1>3, <1>4, <1>5 DEF IInv, MemberStored, Leaving, MemberHas,
       EntersAlone, Entering, Enters, FlowKinds, Same
<1>15. LeftIsOut'
  BY <1>1, <1>2, <1>3, <1>4, <1>5 DEF IInv, LeftIsOut, Same
<1>16. Woken'
  BY <1>1, <1>2, <1>3, <1>4, <1>5 DEF IInv, Woken, Coming, SwitchKept,
       MemberHas, LeftIsOut, Same
<1> QED BY <1>6, <1>7, <1>8, <1>9, <1>10, <1>11, <1>12, <1>13, <1>14, <1>15,
       <1>16 DEF IInv

\* A sign-out clears what is stored.
LEMMA ClearSessionKeeps ==
    ASSUME IInv, NEW f \in flows, worker = "up", Same,
           ClearSession(f)
    PROVE  IInv'
<1>1. f \in Flows /\ flows \subseteq Flows
  BY DEF IInv, TypeOK
<1>2. f.at = "clear"
  BY DEF ClearSession
<1>3. PICK g \in Flows : /\ flows' = (flows \ {f}) \cup {g} /\ g.op = f.op
                         /\ g.at = "apply" /\ g.token = f.token /\ g.prev = f.prev
  BY GoesOn DEF ClearSession, Places, IInv
<1>4. UNCHANGED <<alarm, session, signedIn, starts, clients, run, shown, member>>
  BY DEF ClearSession
<1>5. disk' = [disk EXCEPT !.session = None]
  BY DEF ClearSession
<1>6. TypeOK'
  BY <1>1, <1>2, <1>3, <1>4, <1>5 DEF IInv, TypeOK, Flows, Same
<1>7. OneClient' /\ MemberHas'
  BY <1>1, <1>2, <1>3, <1>4, <1>5 DEF IInv, OneClient, MemberHas, Same
<1>8. DownIsDown'
  BY <1>1, <1>2, <1>3, <1>4, <1>5 DEF IInv, DownIsDown, Same
<1>9. FlowKinds'
  BY <1>1, <1>2, <1>3, <1>4, <1>5 DEF IInv, FlowKinds, Same
<1>10. OneEnters'
  BY <1>1, <1>2, <1>3, <1>4, <1>5 DEF IInv, OneEnters, Enters, Same
<1>11. Apart'
  BY <1>1, <1>2, <1>3, <1>4, <1>5 DEF IInv, Apart, Storing, Clearing, During,
       FlowKinds, Same
<1>12. EntersAlone'
  BY <1>1, <1>2, <1>3, <1>4, <1>5 DEF IInv, EntersAlone, Entering, Enters,
       OneEnters, FlowKinds, TypeOK, Apart, Storing, Clearing, During, Same
<1>13. OutIsOut'
  BY <1>1, <1>2, <1>3, <1>4, <1>5 DEF IInv, OutIsOut, Entering, Enters,
       FlowKinds, Same
<1>14. SwitchKept'
  BY <1>1, <1>2, <1>3, <1>4, <1>5 DEF IInv, SwitchKept, TypeOK, Same
<1>15. MemberStored'
  BY <1>1, <1>2, <1>3, <1>4, <1>5 DEF IInv, MemberStored, Leaving, MemberHas,
       EntersAlone, Entering, Enters, FlowKinds, TypeOK, Same
<1>16. LeftIsOut'
  BY <1>1, <1>2, <1>3, <1>4, <1>5 DEF IInv, LeftIsOut, Same
<1>17. Woken'
  BY <1>1, <1>2, <1>3, <1>4, <1>5 DEF IInv, Woken, Coming, SwitchKept,
       MemberHas, LeftIsOut, TypeOK, Same
<1> QED BY <1>6, <1>7, <1>8, <1>9, <1>10, <1>11, <1>12, <1>13, <1>14, <1>15,
       <1>16, <1>17 DEF IInv

\* The last part of a sign-out stops the client.
LEMMA TearDownRemoteKeeps ==
    ASSUME IInv, NEW f \in flows, worker = "up", Same,
           TearDownRemote(f)
    PROVE  IInv'
<1>1. f \in Flows /\ flows \subseteq Flows
  BY DEF IInv, TypeOK
<1>2. f.at = "remote"
  BY DEF TearDownRemote
<1>3. flows' = flows \ {f}
  BY DEF TearDownRemote, Ends
<1>4. UNCHANGED <<disk, alarm, session, signedIn, member>>
  BY DEF TearDownRemote
<1>5. /\ starts' \subseteq StartCalls /\ clients' = {} /\ run' = 0 /\ shown' = FALSE
  BY StopRemoteTypes DEF TearDownRemote, IInv
<1>6. member = None
  BY <1>2 DEF IInv, LeftIsOut
<1>7. TypeOK'
  BY <1>1, <1>2, <1>3, <1>4, <1>5, <1>6 DEF IInv, TypeOK, Flows, Same
<1>8. SwitchKept' /\ MemberHas'
  BY <1>1, <1>2, <1>3, <1>4, <1>5, <1>6 DEF IInv, SwitchKept, MemberHas, Same
<1>9. OneClient'
  BY <1>1, <1>2, <1>3, <1>4, <1>5, <1>6 DEF IInv, OneClient, Same
<1>10. DownIsDown'
  BY <1>1, <1>2, <1>3, <1>4, <1>5, <1>6 DEF IInv, DownIsDown, Same
<1>11. FlowKinds'
  BY <1>1, <1>2, <1>3, <1>4, <1>5, <1>6 DEF IInv, FlowKinds, Same
<1>12. OneEnters'
  BY <1>1, <1>2, <1>3, <1>4, <1>5, <1>6 DEF IInv, OneEnters, Enters, Same
<1>13. Apart'
  BY <1>1, <1>2, <1>3, <1>4, <1>5, <1>6 DEF IInv, Apart, Storing, Clearing,
       During, FlowKinds, Same
<1>14. EntersAlone'
  BY <1>1, <1>2, <1>3, <1>4, <1>5, <1>6 DEF IInv, EntersAlone, Entering,
       Enters, OneEnters, FlowKinds, Same
<1>15. OutIsOut'
  BY <1>1, <1>2, <1>3, <1>4, <1>5, <1>6 DEF IInv, OutIsOut, Entering, Enters,
       FlowKinds, Same
<1>16. MemberStored'
  BY <1>1, <1>2, <1>3, <1>4, <1>5, <1>6 DEF IInv, MemberStored, Leaving,
       MemberHas, EntersAlone, Entering, Enters, FlowKinds, Same
<1>17. LeftIsOut'
  BY <1>1, <1>2, <1>3, <1>4, <1>5, <1>6 DEF IInv, LeftIsOut, Same
<1>18. Woken'
  BY <1>1, <1>2, <1>3, <1>4, <1>5, <1>6 DEF IInv, Woken, Coming, SwitchKept,
       MemberHas, LeftIsOut, Same
<1> QED BY <1>7, <1>8, <1>9, <1>10, <1>11, <1>12, <1>13, <1>14, <1>15, <1>16,
       <1>17, <1>18 DEF IInv

\* Somebody signs in.
LEMMA SignInKeeps ==
    ASSUME IInv, SignIn
    PROVE  IInv'
<1>1. PICK g \in Flows : /\ flows' = flows \cup {g} /\ g.op = "signin" /\ g.at = "save"
                         /\ g.token # None
  BY LinkAssumption DEF SignIn, Flow, Flows, Ops, Places, IInv, TypeOK
<1>2. UNCHANGED <<disk, alarm, worker, session, signedIn, control, starts, clients, run, shown, revoked, member>>
  BY DEF SignIn
<1>3. acts' \in 0..NumFlows /\ faults' \in 0..NumFaults
  BY LinkAssumption DEF SignIn, Acts, IInv, TypeOK
<1>4. worker = "up" /\ ~signedIn /\ ~Clearing /\ \A f \in flows : ~Enters(f)
  BY DEF SignIn, MaySignIn, Panel, Enters, IInv, TypeOK
<1>5. session = None /\ member = None
  BY <1>4 DEF IInv, OutIsOut, MemberHas, Entering
<1>6. TypeOK'
  BY <1>1, <1>2, <1>3, <1>4, <1>5 DEF IInv, TypeOK, Flows
<1>7. OneClient' /\ SwitchKept' /\ MemberHas'
  BY <1>1, <1>2, <1>3, <1>4, <1>5 DEF IInv, OneClient, SwitchKept, MemberHas
<1>8. DownIsDown'
  BY <1>1, <1>2, <1>3, <1>4, <1>5 DEF IInv, DownIsDown
<1>9. FlowKinds'
  BY <1>1, <1>2, <1>3, <1>4, <1>5 DEF IInv, FlowKinds
<1>10. OneEnters'
  BY <1>1, <1>2, <1>3, <1>4, <1>5 DEF IInv, OneEnters, Enters
<1>11. Apart'
  BY <1>1, <1>2, <1>3, <1>4, <1>5 DEF IInv, Apart, Storing, Clearing, During,
       FlowKinds
<1>12. EntersAlone'
  BY <1>1, <1>2, <1>3, <1>4, <1>5 DEF IInv, EntersAlone, Entering, Enters,
       OneEnters, FlowKinds
<1>13. OutIsOut'
  BY <1>1, <1>2, <1>3, <1>4, <1>5 DEF IInv, OutIsOut, Entering, Enters,
       FlowKinds
<1>14. MemberStored'
  BY <1>1, <1>2, <1>3, <1>4, <1>5 DEF IInv, MemberStored, Leaving, MemberHas,
       EntersAlone, Entering, Enters, FlowKinds
<1>15. LeftIsOut'
  BY <1>1, <1>2, <1>3, <1>4, <1>5 DEF IInv, LeftIsOut
<1>16. Woken'
  BY <1>1, <1>2, <1>3, <1>4, <1>5 DEF IInv, Woken, Coming, SwitchKept,
       MemberHas, LeftIsOut
<1> QED BY <1>6, <1>7, <1>8, <1>9, <1>10, <1>11, <1>12, <1>13, <1>14, <1>15,
       <1>16 DEF IInv

\* Somebody pastes a token.
LEMMA AdoptKeeps ==
    ASSUME IInv, Adopt
    PROVE  IInv'
<1>1. worker = "up" /\ ~signedIn /\ \A f \in flows : ~Enters(f)
  BY DEF Adopt, MaySignIn, Panel, Enters, IInv, TypeOK
<1>2. session = None /\ member = None
  BY <1>1 DEF IInv, OutIsOut, MemberHas, Entering
<1>3. PICK g \in Flows : /\ flows' = flows \cup {g} /\ g.op = "adopt" /\ g.at = "check"
                         /\ g.token # None /\ g.prev = None /\ session' = g.token
  <2>1. PICK t \in Tokens : flows' = flows \cup {Flow("adopt", "check", t, None)} /\ session' = t
    BY <1>2 DEF Adopt
  <2>2. Flow("adopt", "check", t, None) \in Flows /\ t # None
    BY LinkAssumption DEF Flow, Flows, Ops, Places
  <2> QED BY <2>1, <2>2 DEF Flow
<1>4. UNCHANGED <<disk, alarm, worker, signedIn, control, starts, clients, run, shown, revoked, member>>
  BY DEF Adopt
<1>5. acts' \in 0..NumFlows /\ faults' \in 0..NumFaults
  BY LinkAssumption DEF Adopt, Acts, IInv, TypeOK
<1>6. TypeOK'
  BY <1>1, <1>2, <1>3, <1>4, <1>5 DEF IInv, TypeOK, Flows
<1>7. OneClient' /\ SwitchKept'
  BY <1>1, <1>2, <1>3, <1>4, <1>5 DEF IInv, OneClient, SwitchKept
<1>8. DownIsDown'
  BY <1>1, <1>2, <1>3, <1>4, <1>5 DEF IInv, DownIsDown
<1>9. FlowKinds'
  BY <1>1, <1>2, <1>3, <1>4, <1>5 DEF IInv, FlowKinds
<1>10. OneEnters'
  BY <1>1, <1>2, <1>3, <1>4, <1>5 DEF IInv, OneEnters, Enters
<1>11. Apart'
  BY <1>1, <1>2, <1>3, <1>4, <1>5 DEF IInv, Apart, Storing, Clearing, During,
       FlowKinds
<1>12. EntersAlone'
  BY <1>1, <1>2, <1>3, <1>4, <1>5 DEF IInv, EntersAlone, Entering, Enters,
       OneEnters, FlowKinds
<1>13. OutIsOut'
  BY <1>1, <1>2, <1>3, <1>4, <1>5 DEF IInv, OutIsOut, Entering, Enters,
       FlowKinds
<1>14. MemberHas'
  BY <1>1, <1>2, <1>3, <1>4, <1>5 DEF IInv, MemberHas, EntersAlone, Entering,
       Enters
<1>15. MemberStored'
  BY <1>1, <1>2, <1>3, <1>4, <1>5 DEF IInv, MemberStored, Leaving, MemberHas,
       EntersAlone, Entering, Enters, FlowKinds
<1>16. LeftIsOut'
  BY <1>1, <1>2, <1>3, <1>4, <1>5 DEF IInv, LeftIsOut
<1>17. Woken'
  BY <1>1, <1>2, <1>3, <1>4, <1>5 DEF IInv, Woken, Coming, SwitchKept,
       MemberHas, LeftIsOut
<1> QED BY <1>6, <1>7, <1>8, <1>9, <1>10, <1>11, <1>12, <1>13, <1>14, <1>15,
       <1>16, <1>17 DEF IInv

\* Somebody signs out.
LEMMA SignOutKeeps ==
    ASSUME IInv, SignOut
    PROVE  IInv'
<1>1. flows' = flows \cup {SignsOut} /\ ~Storing
  BY DEF SignOut
<1>2. /\ SignsOut \in Flows /\ SignsOut.op = "signout" /\ SignsOut.at = "clear"
      /\ SignsOut.token = None
  BY DEF SignsOut, Flow, Flows, Ops, Places
<1>3. worker = "up"
  BY DEF SignOut, Panel
<1>4. UNCHANGED <<disk, alarm, worker, session, signedIn, control, starts, clients, run, shown, revoked, member>>
  BY DEF SignOut
<1>5. acts' \in 0..NumFlows /\ faults' \in 0..NumFaults
  BY LinkAssumption DEF SignOut, Acts, IInv, TypeOK
<1>6. TypeOK'
  BY <1>1, <1>2, <1>3, <1>4, <1>5 DEF IInv, TypeOK, Flows
<1>7. OneClient' /\ SwitchKept' /\ MemberHas'
  BY <1>1, <1>2, <1>3, <1>4, <1>5 DEF IInv, OneClient, SwitchKept, MemberHas
<1>8. DownIsDown'
  BY <1>1, <1>2, <1>3, <1>4, <1>5 DEF IInv, DownIsDown
<1>9. FlowKinds'
  BY <1>1, <1>2, <1>3, <1>4, <1>5 DEF IInv, FlowKinds
<1>10. OneEnters'
  BY <1>1, <1>2, <1>3, <1>4, <1>5 DEF IInv, OneEnters, Enters
<1>11. Apart'
  BY <1>1, <1>2, <1>3, <1>4, <1>5 DEF IInv, Apart, Storing, Clearing, During,
       FlowKinds
<1>12. EntersAlone'
  BY <1>1, <1>2, <1>3, <1>4, <1>5 DEF IInv, EntersAlone, Entering, Enters,
       OneEnters, FlowKinds
<1>13. OutIsOut'
  BY <1>1, <1>2, <1>3, <1>4, <1>5 DEF IInv, OutIsOut, Entering, Enters,
       FlowKinds
<1>14. MemberStored'
  BY <1>1, <1>2, <1>3, <1>4, <1>5 DEF IInv, MemberStored, Leaving, MemberHas,
       EntersAlone, Entering, Enters, FlowKinds
<1>15. LeftIsOut'
  BY <1>1, <1>2, <1>3, <1>4, <1>5 DEF IInv, LeftIsOut
<1>16. Woken'
  BY <1>1, <1>2, <1>3, <1>4, <1>5 DEF IInv, Woken, Coming, SwitchKept,
       MemberHas, LeftIsOut
<1> QED BY <1>6, <1>7, <1>8, <1>9, <1>10, <1>11, <1>12, <1>13, <1>14, <1>15,
       <1>16 DEF IInv

\* Somebody throws the switch.
LEMMA SetRemoteControlKeeps ==
    ASSUME IInv, SetRemoteControl
    PROVE  IInv'
<1>1. UNCHANGED <<alarm, worker, session, signedIn, flows, revoked, member>>
  BY DEF SetRemoteControl
<1>2. acts' \in 0..NumFlows /\ faults' \in 0..NumFaults
  BY LinkAssumption DEF SetRemoteControl, Acts, IInv, TypeOK
<1>3. /\ disk' = [disk EXCEPT !.control = ~control] /\ control' = ~control /\ worker = "up"
  BY DEF SetRemoteControl, Panel
<1>4. /\ starts' \subseteq StartCalls /\ ((clients' = clients /\ run' = run) \/ clients' = {})
      /\ run' \in {run, 0} /\ shown' \in BOOLEAN
  BY StartRunTypes, StopRemoteTypes DEF SetRemoteControl, IInv, TypeOK
<1>5. session # None /\ ~control => \E s \in starts' : s.latest /\ s.token = session
  BY StartRunTypes DEF SetRemoteControl, IInv, TypeOK
<1>6. TypeOK'
  BY <1>1, <1>2, <1>3, <1>4, <1>5 DEF IInv, TypeOK, Flows
<1>7. FlowKinds' /\ OneEnters' /\ Apart' /\ OutIsOut' /\ MemberHas' /\ LeftIsOut'
  BY <1>1, <1>2, <1>3, <1>4, <1>5 DEF IInv, FlowKinds, OneEnters, Enters,
       Apart, Storing, Clearing, During, OutIsOut, Entering, MemberHas,
       LeftIsOut
<1>8. OneClient'
  BY <1>1, <1>2, <1>3, <1>4, <1>5 DEF IInv, OneClient
<1>9. DownIsDown'
  BY <1>1, <1>2, <1>3, <1>4, <1>5 DEF IInv, DownIsDown
<1>10. EntersAlone'
  BY <1>1, <1>2, <1>3, <1>4, <1>5 DEF IInv, EntersAlone, Entering, Enters,
       OneEnters, FlowKinds, TypeOK
<1>11. SwitchKept'
  BY <1>1, <1>2, <1>3, <1>4, <1>5 DEF IInv, SwitchKept, TypeOK
<1>12. MemberStored'
  BY <1>1, <1>2, <1>3, <1>4, <1>5 DEF IInv, MemberStored, Leaving, MemberHas,
       EntersAlone, Entering, Enters, FlowKinds, TypeOK
<1>13. Woken'
  BY <1>1, <1>2, <1>3, <1>4, <1>5 DEF IInv, Woken, Coming, SwitchKept,
       MemberHas, LeftIsOut, TypeOK
<1> QED BY <1>6, <1>7, <1>8, <1>9, <1>10, <1>11, <1>12, <1>13 DEF IInv

\* The device id is there.
LEMMA DeviceIdKeeps ==
    ASSUME IInv, NEW s \in starts, DeviceId(s)
    PROVE  IInv'
<1>1. UNCHANGED <<disk, worker, session, signedIn, control, flows, revoked, member>>
  BY DEF DeviceId
<1>2. acts' \in 0..NumFlows /\ faults' \in 0..NumFaults
  BY LinkAssumption DEF DeviceId, Free, IInv, TypeOK
<1>3. starts' = starts \ {s}
  BY DEF DeviceId
<1>4. alarm' \in BOOLEAN /\ shown' \in BOOLEAN /\ (alarm => alarm')
  <2>1. CASE Install(s)
    BY <2>1, Zenon DEF Install, IInv, TypeOK
  <2>2. CASE StandDown(s)
    BY <2>2 DEF StandDown, IInv, TypeOK
  <2> QED BY <2>1, <2>2 DEF DeviceId
<1>5. s.latest /\ session = s.token /\ control => alarm'
  BY DEF DeviceId, Install, StandDown
<1>6. \/ clients' = clients /\ run' = run
      \/ \E k \in Clients : clients' = {k} /\ run' = k.id
  BY NewOne DEF DeviceId, Install, StandDown, IInv
<1>7. TypeOK'
  BY <1>1, <1>2, <1>3, <1>4, <1>5, <1>6 DEF IInv, TypeOK, Flows, Clients, Ids
<1>8. /\ FlowKinds' /\ OneEnters' /\ Apart' /\ EntersAlone' /\ OutIsOut'
      /\ SwitchKept' /\ MemberHas' /\ MemberStored' /\ LeftIsOut'
  BY <1>1, <1>2, <1>3, <1>4, <1>5, <1>6 DEF IInv, FlowKinds, OneEnters,
       Enters, Apart, Storing, Clearing, During, EntersAlone, Entering,
       OutIsOut, SwitchKept, MemberHas, MemberStored, Leaving, LeftIsOut
<1>9. OneClient'
  BY <1>1, <1>2, <1>3, <1>4, <1>5, <1>6 DEF IInv, OneClient
<1>10. DownIsDown'
  BY <1>1, <1>2, <1>3, <1>4, <1>5, <1>6 DEF IInv, DownIsDown
<1>11. Woken'
  BY <1>1, <1>2, <1>3, <1>4, <1>5, <1>6 DEF IInv, Woken, Coming, SwitchKept,
       MemberHas, LeftIsOut
<1> QED BY <1>7, <1>8, <1>9, <1>10, <1>11 DEF IInv

\* The alarm goes off.
LEMMA TickKeeps ==
    ASSUME IInv, Tick
    PROVE  IInv'
<1>1. UNCHANGED <<disk, worker, session, signedIn, control, flows, revoked, member>>
  BY DEF Tick
<1>2. acts' \in 0..NumFlows /\ faults' \in 0..NumFaults
  BY LinkAssumption DEF Tick, Free, IInv, TypeOK
<1>3. starts' \subseteq StartCalls /\ shown' \in BOOLEAN /\ alarm' \in BOOLEAN /\ worker = "up"
  BY StartRunTypes DEF Tick, IInv, TypeOK
<1>4. alarm /\ (alarm' \/ session = None \/ ~control)
  BY DEF Tick, KeepaliveNeeded
<1>5. \/ clients' = clients /\ run' = run
      \/ clients' = {} /\ run' = 0
      \/ \E k \in Clients : clients' = {k} /\ run' = k.id
  BY TickOne DEF IInv
<1>6. TypeOK'
  BY <1>1, <1>2, <1>3, <1>4, <1>5 DEF IInv, TypeOK, Flows, Clients, Ids
<1>7. /\ FlowKinds' /\ OneEnters' /\ Apart' /\ EntersAlone' /\ OutIsOut'
      /\ SwitchKept' /\ MemberHas' /\ MemberStored' /\ LeftIsOut'
  BY <1>1, <1>2, <1>3, <1>4, <1>5 DEF IInv, FlowKinds, OneEnters, Enters,
       Apart, Storing, Clearing, During, EntersAlone, Entering, OutIsOut,
       SwitchKept, MemberHas, MemberStored, Leaving, LeftIsOut
<1>8. OneClient'
  BY <1>1, <1>2, <1>3, <1>4, <1>5 DEF IInv, OneClient
<1>9. DownIsDown'
  BY <1>1, <1>2, <1>3, <1>4, <1>5 DEF IInv, DownIsDown
<1>10. Woken'
  BY <1>1, <1>2, <1>3, <1>4, <1>5 DEF IInv, Woken, Coming, SwitchKept,
       MemberHas, LeftIsOut
<1> QED BY <1>6, <1>7, <1>8, <1>9, <1>10 DEF IInv

\* The worker is restored.
LEMMA RestoreKeeps ==
    ASSUME IInv, Restore
    PROVE  IInv'
<1>1. UNCHANGED <<disk, alarm, starts, clients, run, shown, revoked, member>>
  BY DEF Restore
<1>2. acts' \in 0..NumFlows /\ faults' \in 0..NumFaults
  BY LinkAssumption DEF Restore, Free, IInv, TypeOK
<1>3. worker = "restoring" /\ flows = {} /\ starts = {} /\ worker' = "up"
  BY DEF Restore, IInv, DownIsDown
<1>4. control' = disk.control /\ session' = disk.session /\ signedIn' = (disk.session # None)
  BY DEF Restore
<1>5. \/ flows' = {}
      \/ \E g \in Flows : flows' = {g} /\ g.op = "restore" /\ g.at = "start"
  BY <1>3 DEF Restore, Flow, Flows, Ops, Places, IInv, TypeOK
<1>6. TypeOK'
  BY <1>1, <1>2, <1>3, <1>4, <1>5 DEF IInv, TypeOK, Flows
<1>7. OneClient'
  BY <1>1, <1>2, <1>3, <1>4, <1>5 DEF IInv, OneClient
<1>8. DownIsDown'
  BY <1>1, <1>2, <1>3, <1>4, <1>5 DEF IInv, DownIsDown
<1>9. FlowKinds'
  BY <1>1, <1>2, <1>3, <1>4, <1>5 DEF IInv, FlowKinds
<1>10. OneEnters'
  BY <1>1, <1>2, <1>3, <1>4, <1>5 DEF IInv, OneEnters, Enters
<1>11. Apart'
  BY <1>1, <1>2, <1>3, <1>4, <1>5 DEF IInv, Apart, Storing, Clearing, During,
       FlowKinds
<1>12. EntersAlone'
  BY <1>1, <1>2, <1>3, <1>4, <1>5 DEF IInv, EntersAlone, Entering, Enters,
       OneEnters, FlowKinds
<1>13. OutIsOut'
  BY <1>1, <1>2, <1>3, <1>4, <1>5 DEF IInv, OutIsOut, Entering, Enters,
       FlowKinds
<1>14. SwitchKept'
  BY <1>1, <1>2, <1>3, <1>4, <1>5 DEF IInv, SwitchKept
<1>15. MemberHas'
  BY <1>1, <1>2, <1>3, <1>4, <1>5 DEF IInv, MemberHas, EntersAlone, Entering,
       Enters, MemberStored, Leaving
<1>16. MemberStored'
  BY <1>1, <1>2, <1>3, <1>4, <1>5 DEF IInv, MemberStored, Leaving, MemberHas,
       EntersAlone, Entering, Enters, FlowKinds
<1>17. LeftIsOut'
  BY <1>1, <1>2, <1>3, <1>4, <1>5 DEF IInv, LeftIsOut
<1>18. Woken'
  BY <1>1, <1>2, <1>3, <1>4, <1>5 DEF IInv, Woken, Coming, SwitchKept,
       MemberHas, LeftIsOut
<1> QED BY <1>6, <1>7, <1>8, <1>9, <1>10, <1>11, <1>12, <1>13, <1>14, <1>15,
       <1>16, <1>17, <1>18 DEF IInv

\* The alarm or the panel revives the worker.
LEMMA ReviveKeeps ==
    ASSUME IInv, AlarmRevives \/ PanelRevives
    PROVE  IInv'
<1>1. UNCHANGED <<disk, alarm, session, signedIn, control, starts, clients, run, shown, flows, revoked, member>>
  BY DEF AlarmRevives, PanelRevives, Revive
<1>2. acts' \in 0..NumFlows /\ faults' \in 0..NumFaults
  BY LinkAssumption DEF AlarmRevives, PanelRevives, Revive, Free, Acts, IInv, TypeOK
<1>3. worker = "down" /\ worker' = "restoring"
  BY DEF AlarmRevives, PanelRevives, Revive
<1>4. TypeOK'
  BY <1>1, <1>2, <1>3 DEF IInv, TypeOK, Flows
<1>5. /\ OneClient' /\ FlowKinds' /\ OneEnters' /\ Apart' /\ EntersAlone'
      /\ MemberStored' /\ LeftIsOut'
  BY <1>1, <1>2, <1>3 DEF IInv, OneClient, FlowKinds, OneEnters, Enters,
       Apart, Storing, Clearing, During, EntersAlone, Entering, MemberStored,
       Leaving, LeftIsOut
<1>6. DownIsDown'
  BY <1>1, <1>2, <1>3 DEF IInv, DownIsDown
<1>7. OutIsOut'
  BY <1>1, <1>2, <1>3 DEF IInv, OutIsOut, Entering, Enters, FlowKinds
<1>8. SwitchKept'
  BY <1>1, <1>2, <1>3 DEF IInv, SwitchKept
<1>9. MemberHas'
  BY <1>1, <1>2, <1>3 DEF IInv, MemberHas, EntersAlone, Entering, Enters
<1>10. Woken'
  BY <1>1, <1>2, <1>3 DEF IInv, Woken, Coming, SwitchKept, MemberHas,
       LeftIsOut
<1> QED BY <1>4, <1>5, <1>6, <1>7, <1>8, <1>9, <1>10 DEF IInv

\* A socket opens, is lost, closes, or is tried again.
LEMMA SocketKeeps ==
    ASSUME IInv, NEW k \in clients, Open(k) \/ Lose(k) \/ OnClose(k) \/ Retry(k)
    PROVE  IInv'
<1>1. UNCHANGED <<disk, alarm, worker, session, signedIn, control, starts, run, flows, revoked, member>>
  BY DEF Open, Lose, OnClose, Retry
<1>2. acts' \in 0..NumFlows /\ faults' \in 0..NumFaults
  BY LinkAssumption DEF Open, Lose, OnClose, Retry, Free, Fault, IInv, TypeOK
<1>3. PICK l \in Clients : clients' = (clients \ {k}) \cup {l} /\ l.id = k.id
  BY SocketOf DEF IInv
<1>4. shown' \in BOOLEAN
  BY DEF Open, Lose, OnClose, Retry, IInv, TypeOK
<1>5. TypeOK'
  BY <1>1, <1>2, <1>3, <1>4 DEF IInv, TypeOK, Flows, Clients, Ids
<1>6. /\ DownIsDown' /\ FlowKinds' /\ OneEnters' /\ Apart' /\ EntersAlone'
      /\ OutIsOut' /\ SwitchKept' /\ MemberHas' /\ MemberStored'
      /\ LeftIsOut' /\ Woken'
  BY <1>1, <1>2, <1>3, <1>4 DEF IInv, DownIsDown, FlowKinds, OneEnters,
       Enters, Apart, Storing, Clearing, During, EntersAlone, Entering,
       OutIsOut, SwitchKept, MemberHas, MemberStored, Leaving, LeftIsOut,
       Woken, Coming
<1>7. OneClient'
  BY <1>1, <1>2, <1>3, <1>4 DEF IInv, OneClient
<1> QED BY <1>5, <1>6, <1>7 DEF IInv

\* The worker is torn down.
LEMMA TeardownKeeps ==
    ASSUME IInv, Teardown
    PROVE  IInv'
<1>1. UNCHANGED <<disk, alarm, starts, revoked, member>>
  BY DEF Teardown
<1>2. acts' \in 0..NumFlows /\ faults' \in 0..NumFaults
  BY LinkAssumption DEF Teardown, Fault, IInv, TypeOK
<1>3. worker = "up" /\ starts = {} /\ \A f \in flows : f.at = "answer"
  BY DEF Teardown
<1>4. /\ worker' = "down" /\ session' = None /\ signedIn' = FALSE /\ control' = TRUE
      /\ clients' = {} /\ run' = 0 /\ shown' = FALSE /\ flows' = {}
  BY DEF Teardown
<1>5. TypeOK'
  BY <1>1, <1>2, <1>3, <1>4 DEF IInv, TypeOK, Flows
<1>6. OneClient'
  BY <1>1, <1>2, <1>3, <1>4 DEF IInv, OneClient
<1>7. DownIsDown'
  BY <1>1, <1>2, <1>3, <1>4 DEF IInv, DownIsDown
<1>8. FlowKinds'
  BY <1>1, <1>2, <1>3, <1>4 DEF IInv, FlowKinds
<1>9. OneEnters'
  BY <1>1, <1>2, <1>3, <1>4 DEF IInv, OneEnters, Enters
<1>10. Apart'
  BY <1>1, <1>2, <1>3, <1>4 DEF IInv, Apart, Storing, Clearing, During,
       FlowKinds
<1>11. EntersAlone'
  BY <1>1, <1>2, <1>3, <1>4 DEF IInv, EntersAlone, Entering, Enters,
       OneEnters, FlowKinds
<1>12. OutIsOut'
  BY <1>1, <1>2, <1>3, <1>4 DEF IInv, OutIsOut, Entering, Enters, FlowKinds
<1>13. SwitchKept'
  BY <1>1, <1>2, <1>3, <1>4 DEF IInv, SwitchKept
<1>14. MemberHas'
  BY <1>1, <1>2, <1>3, <1>4 DEF IInv, MemberHas, EntersAlone, Entering, Enters
<1>15. MemberStored'
  BY <1>1, <1>2, <1>3, <1>4 DEF IInv, MemberStored, Leaving, MemberHas,
       EntersAlone, Entering, Enters, FlowKinds
<1>16. LeftIsOut'
  BY <1>1, <1>2, <1>3, <1>4 DEF IInv, LeftIsOut
<1>17. Woken'
  BY <1>1, <1>2, <1>3, <1>4 DEF IInv, Woken, Coming, SwitchKept, MemberHas,
       LeftIsOut
<1> QED BY <1>5, <1>6, <1>7, <1>8, <1>9, <1>10, <1>11, <1>12, <1>13, <1>14,
       <1>15, <1>16, <1>17 DEF IInv

\* A token is revoked.
LEMMA RevokeKeeps ==
    ASSUME IInv, Revoke
    PROVE  IInv'
<1>1. UNCHANGED <<disk, alarm, worker, session, signedIn, control, starts, clients, run, shown, flows, member>>
  BY DEF Revoke
<1>2. acts' \in 0..NumFlows /\ faults' \in 0..NumFaults
  BY LinkAssumption DEF Revoke, Fault, IInv, TypeOK
<1>3. revoked' \subseteq Tokens
  BY DEF Revoke, IInv, TypeOK
<1>4. TypeOK'
  BY <1>1, <1>2, <1>3 DEF IInv, TypeOK, Flows
<1>5. /\ OneClient' /\ DownIsDown' /\ FlowKinds' /\ OneEnters' /\ Apart'
      /\ EntersAlone' /\ OutIsOut' /\ SwitchKept' /\ MemberHas' /\ MemberStored'
      /\ LeftIsOut' /\ Woken'
  BY <1>1, <1>2, <1>3 DEF IInv, OneClient, DownIsDown, FlowKinds, OneEnters,
       Enters, Apart, Storing, Clearing, During, EntersAlone, Entering,
       OutIsOut, SwitchKept, MemberHas, MemberStored, Leaving, LeftIsOut,
       Woken, Coming
<1> QED BY <1>4, <1>5 DEF IInv

----------------------------------------------------------------------------
LEMMA GoKeeps ==
    ASSUME IInv, NEW f \in flows, Go(f)
    PROVE  IInv'
<1>1. worker = "up" /\ Same
  BY DEF Go, Same, Free
<1> QED BY <1>1, AdoptCheckedKeeps, SaveKeeps, ApplyKeeps, ReapplyKeeps, StartsKeeps,
       AnsweredKeeps, ClearSessionKeeps, TearDownRemoteKeeps DEF Go

LEMMA StutterKeeps == IInv /\ UNCHANGED vars => IInv'
BY DEF vars, IInv, TypeOK, Flows, Clients, StartCalls, OneClient, DownIsDown, FlowKinds, OneEnters,
       Enters, Apart, Storing, Clearing, During, EntersAlone, Entering, OutIsOut,
       SwitchKept, MemberHas, MemberStored, Leaving, LeftIsOut, Woken, Coming

LEMMA InitInv == Init => IInv
<1> SUFFICES ASSUME Init PROVE IInv
    OBVIOUS
<1>1. TypeOK
  <2>1. disk \in [session : Tokens \cup {None}, control : BOOLEAN]
    BY DEF Init
  <2>2. flows = {} /\ starts = {} /\ clients = {} /\ revoked = {}
    BY DEF Init
  <2>3. acts \in 0..NumFlows /\ faults \in 0..NumFaults
    BY LinkAssumption DEF Init
  <2>4. /\ alarm \in BOOLEAN /\ worker \in {"down", "restoring", "up"}
        /\ session \in Tokens \cup {None} /\ signedIn \in BOOLEAN
        /\ control \in BOOLEAN /\ shown \in BOOLEAN /\ member \in Tokens \cup {None}
        /\ run \in Ids \cup {0}
    BY DEF Init
  <2> QED BY <2>1, <2>2, <2>3, <2>4 DEF TypeOK
<1>2. OneClient /\ DownIsDown /\ FlowKinds /\ OneEnters /\ EntersAlone
  BY DEF Init, OneClient, DownIsDown, FlowKinds, OneEnters, EntersAlone
<1>3. Apart
  BY DEF Init, Apart, Storing, During
<1>4. OutIsOut /\ MemberHas /\ MemberStored /\ LeftIsOut /\ Woken
  BY DEF Init, OutIsOut, MemberHas, MemberStored, LeftIsOut, Woken
<1>5. SwitchKept
  BY DEF Init, SwitchKept
<1> QED BY <1>1, <1>2, <1>3, <1>4, <1>5 DEF IInv

LEMMA NextInv == IInv /\ [Next]_vars => IInv'
<1> SUFFICES ASSUME IInv, [Next]_vars PROVE IInv'
    OBVIOUS
<1>1. CASE SignIn \/ Adopt \/ SignOut \/ SetRemoteControl
  BY <1>1, SignInKeeps, AdoptKeeps, SignOutKeeps, SetRemoteControlKeeps
<1>2. CASE PanelRevives \/ AlarmRevives \/ Restore \/ Teardown \/ Revoke \/ Tick
  BY <1>2, ReviveKeeps, RestoreKeeps, TeardownKeeps, RevokeKeeps, TickKeeps
<1>3. CASE Continue
  BY <1>3, GoKeeps DEF Continue
<1>4. CASE \E s \in starts : DeviceId(s)
  BY <1>4, DeviceIdKeeps
<1>5. CASE \E k \in clients : Open(k) \/ Lose(k) \/ OnClose(k) \/ Retry(k)
  BY <1>5, SocketKeeps
<1>6. CASE UNCHANGED vars
  BY <1>6, StutterKeeps
<1> QED BY <1>1, <1>2, <1>3, <1>4, <1>5, <1>6 DEF Next

LEMMA InvReachable == IInv => Reachable
BY DEF IInv, Woken, Coming, Reachable, SignedIn, Quiet

\* The worker's state keeps its shape.
THEOREM TypeCorrect == Spec => []TypeOK
<1>1. IInv => TypeOK
  BY DEF IInv
<1> QED BY <1>1, InitInv, NextInv, PTL DEF Spec

\* However starts, device ids, alarms, sign-ins and sign-outs interleave, this
\* browser has one client, the installed one, and so one connection.
THEOREM OneConnection == Spec => []OneClient
<1>1. IInv => OneClient
  BY DEF IInv
<1> QED BY <1>1, InitInv, NextInv, PTL DEF Spec

\* Whatever is torn down, restored, toggled or pasted, a browser whose user is
\* signed in, with the switch on, keeps the alarm that brings it back.
THEOREM AlwaysReachable == Spec => []Reachable
<1> QED BY InitInv, NextInv, InvReachable, PTL DEF Spec
=============================================================================
