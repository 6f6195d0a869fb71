------------------------- MODULE DashboardSession -------------------------
(***************************************************************************)
(* How the dashboard stays signed in (frontend/src/api/client.ts): the     *)
(* tabs of one browser share a refresh cookie that the backend replaces at *)
(* every use (services/auth.py), keep their access tokens in memory, take  *)
(* turns by a Web Lock and hand tokens on over a BroadcastChannel.         *)
(*                                                                         *)
(* A tab runs one thread; what it does between two awaits is one step.     *)
(* Time is counted in minutes: the last three of an access token's life,   *)
(* and the one for which a replaced refresh token is still good.           *)
(***************************************************************************)
EXTENDS Naturals, FiniteSets, Sequences

CONSTANTS
    Tabs,
    Locks,        \* whether the browser has navigator.locks
    NumEvents,    \* bound: acts of the user, tabs that go away, lost messages
    Left,         \* minutes the access token has left at first
    NumMinutes,   \* bound: minutes that pass
    None          \* no tab

ASSUME SessionAssumption ==
    /\ IsFiniteSet(Tabs) /\ None \notin Tabs /\ Locks \in BOOLEAN
    /\ NumEvents \in Nat /\ NumMinutes \in 0..12 /\ Left \in 1..3

VARIABLES
    tab,       \* the tabs
    jar,       \* the cookie, as the number of its refresh token; 0 is none
    lock,      \* who holds "stept-session-refresh", or None
    wire,      \* requests under way
    channel,   \* what the BroadcastChannel has for each tab
    tokens,    \* the refresh_tokens of the user
    writes,    \* transactions that are not committed
    past,      \* history: [lost, out, late, alarm]
    events, minutes

vars == <<tab, jar, lock, wire, channel, tokens, writes, past, events, minutes>>

Life == 4      \* more than three minutes left: before 80 % of the token's life
Mark == 3      \* the renewal timer is due
Wake == 2      \* renewed when the tab becomes visible
Margin == 1    \* no longer "comfortably fresh"; 0 is expired

\* at: the session gate, the dashboard, the login page, or closed.
\* turn: where the refreshPromise is.  tired: the last refresh came to nothing.
At == {"gate", "app", "login", "closed"}
NoToken == [at |-> "login", token |-> FALSE, life |-> 0, timer |-> FALSE,
            turn |-> "idle", tired |-> FALSE]

----------------------------------------------------------------------------
(* The backend's refresh tokens.                                           *)

\* state: "unwritten" (not committed), "live", "rotated" (replaced by next) or
\* "ended"; age: minutes since then, as far as they matter.
NewToken == [state |-> "unwritten", next |-> 0, age |-> 0]

\* _live_chain_head; 0 when the chain was ended.
ChainHead(r) ==
    LET end[i \in DOMAIN tokens] == IF tokens[i].next = 0 THEN i ELSE end[tokens[i].next]
    IN  IF tokens[end[r]].state = "live" THEN end[r] ELSE 0

\* refresh_rotation_grace_seconds is a minute.
MayBeInGrace(r) == tokens[r].state = "rotated" /\ tokens[r].age <= 1
MayBeLate(r) == tokens[r].state # "rotated" \/ tokens[r].age >= 1

\* Mutant: a replaced token is never good.
StrictTargets(r) == IF tokens[r].state = "live" THEN {r} ELSE {0}

\* The token that rotate_refresh_token will replace, or 0 for reuse.
Targets(r) ==
    IF tokens[r].state = "live" THEN {r}
    ELSE (IF MayBeInGrace(r) THEN {ChainHead(r)} ELSE {}) \cup (IF MayBeLate(r) THEN {0} ELSE {})

\* The answer, with the cookie it sets; nobody hears it when the page is gone.
Answer(q, ok, cookie) ==
    wire' = (wire \ {q}) \cup
              (IF q.tab = None THEN {}
               ELSE {[q EXCEPT !.stage = "served", !.ok = ok, !.cookie = cookie]})

Known == {r \in DOMAIN tokens : tokens[r].state # "unwritten"}
Refuse(q) == Answer(q, FALSE, 0) /\ UNCHANGED <<tokens, past>>

\* Reuse ends every token that is left, but for a row another request writes.
Alarm(q) ==
    /\ tokens' = [r \in DOMAIN tokens |->
          IF tokens[r].state = "live" /\ (\A w \in writes : w.old # r \/ w.new = 0)
          THEN [tokens[r] EXCEPT !.state = "ended"] ELSE tokens[r]]
    /\ past' = [past EXCEPT !.alarm = TRUE]
    /\ Answer(q, FALSE, 0)

\* rotate_refresh_token, as far as the user's row.
Read ==
    \E q \in wire :
        /\ q.stage = "sent" /\ q.what = "refresh"
        /\ \/ q.cookie \notin Known /\ Refuse(q)
           \/ /\ q.cookie \in Known
              /\ \E r \in Targets(q.cookie) :
                    \/ r = 0 /\ Alarm(q)
                    \/ /\ r # 0 /\ UNCHANGED <<tokens, past>>
                       /\ wire' = (wire \ {q}) \cup {[q EXCEPT !.stage = "read", !.target = r]}
        /\ UNCHANGED <<tab, jar, lock, channel, writes, events, minutes>>

\* The rest of it: the rows are flushed, and locked, and the answer goes out.
Write ==
    \E q \in wire :
        /\ q.stage = "read" /\ \A w \in writes : w.old # q.target \/ w.new = 0
        /\ tokens' = Append(tokens, NewToken)
        /\ writes' = writes \cup {[old |-> q.target, new |-> Len(tokens) + 1]}
        /\ Answer(q, TRUE, Len(tokens) + 1)
        /\ UNCHANGED <<tab, jar, lock, channel, past, events, minutes>>

\* revoke_refresh_token, of what is live when it is read.
ServeLogout ==
    \E q \in wire :
        /\ q.stage = "sent" /\ q.what = "logout"
        /\ writes' = IF q.cookie \in Known /\ tokens[q.cookie].state = "live"
                     THEN writes \cup {[old |-> q.cookie, new |-> 0]} ELSE writes
        /\ Answer(q, TRUE, 0)
        /\ UNCHANGED <<tab, jar, lock, channel, tokens, past, events, minutes>>

\* The exit of get_db, which FastAPI runs before or after it sends the answer.
Commit ==
    \E w \in writes :
        /\ w.new = 0 => \A v \in writes : v.old # w.old \/ v.new = 0
        /\ writes' = writes \ {w}
        /\ tokens' =
              IF w.new # 0
              THEN [tokens EXCEPT ![w.old] = [state |-> "rotated", next |-> w.new, age |-> 0],
                                  ![w.new].state = "live"]
              ELSE [tokens EXCEPT ![w.old].state = IF @ = "live" THEN "ended" ELSE @]
        /\ UNCHANGED <<tab, jar, lock, wire, channel, past, events, minutes>>

----------------------------------------------------------------------------
(* Requests and their answers.                                             *)

\* The wire with a request of t, which carries the cookie.
Sent(t, what) ==
    LET n == CHOOSE i \in 1..(Cardinality(wire) + 1) :
                /\ \A q \in wire : q.n # i
                /\ \A j \in 1..(i - 1) : \E q \in wire : q.n = j
    IN  wire \cup {[n |-> n, tab |-> t, what |-> what, cookie |-> jar, target |-> 0,
                    stage |-> "sent", ok |-> FALSE]}

\* The browser takes the cookie before the page hears of the answer.
Store ==
    \E q \in wire :
        /\ q.stage = "served"
        /\ jar' = IF q.ok THEN q.cookie ELSE jar
        /\ wire' = (wire \ {q}) \cup {[q EXCEPT !.stage = "stored"]}
        /\ UNCHANGED <<tab, lock, channel, tokens, writes, past, events, minutes>>

\* A request of a page that is gone is still served.
Abandoned(t) ==
    {q \in wire : q.tab # t} \cup
    {[q EXCEPT !.tab = None] : q \in {o \in wire : o.tab = t /\ o.stage \in {"sent", "read"}}}
LosesOne(t) == \E q \in wire : q.tab = t /\ q.stage # "stored"

\* A page goes away, its lock and its requests with it.
Leave(t, next) ==
    /\ tab' = [tab EXCEPT ![t] = next]
    /\ lock' = IF lock = t THEN None ELSE lock
    /\ wire' = Abandoned(t)
    /\ past' = [past EXCEPT !.lost = @ \/ LosesOne(t)]

Others(t) == {u \in Tabs : u # t /\ tab[u].at # "closed"}
Told(t, what) == [u \in Tabs |-> IF u \in Others(t) THEN Append(channel[u], what) ELSE channel[u]]

\* adoptAccessToken
Adopt(x) == [x EXCEPT !.token = TRUE, !.life = Life, !.timer = TRUE, !.tired = FALSE]

----------------------------------------------------------------------------
(* The tabs.                                                               *)

Event == events < NumEvents /\ events' = events + 1

\* refreshSession: one at a time in a tab, and in turns.
Refreshing(x) == [x EXCEPT !.turn = IF @ = "idle" THEN "asked" ELSE @]

\* The request that waited is made again; at the gate it is /me.
Resolved(x, ok) ==
    LET y == [x EXCEPT !.turn = "idle", !.tired = ~ok]
    IN  IF x.at # "gate" THEN y
        ELSE IF ok /\ x.token /\ x.life > 0 THEN [y EXCEPT !.at = "app"]
        ELSE [y EXCEPT !.at = "login", !.token = FALSE]

\* Mutant: without its turn.
TurnTakenAnyway(t) == tab[t].turn = "asked"

Granted(t) == tab[t].turn = "asked" /\ (Locks => lock = None)

\* In its turn a tab looks whether another has refreshed meanwhile.
TakeTurn(t) ==
    /\ Granted(t)
    /\ IF Locks /\ tab[t].token /\ tab[t].life > Margin
       THEN /\ tab' = [tab EXCEPT ![t] = Resolved(@, TRUE)]
            /\ UNCHANGED <<lock, wire>>
       ELSE /\ tab' = [tab EXCEPT ![t].turn = "sent"]
            /\ wire' = Sent(t, "refresh")
            /\ lock' = IF Locks THEN t ELSE lock
    /\ UNCHANGED <<jar, channel, tokens, writes, past, events, minutes>>

\* Mutant: the lock is kept.
DoneInTurn(t, q) ==
    /\ wire' = wire \ {q}
    /\ tab' = [tab EXCEPT ![t] = IF q.ok THEN Resolved(Adopt(@), TRUE) ELSE Resolved(@, FALSE)]
    /\ channel' = IF q.ok THEN Told(t, "token") ELSE channel
    /\ UNCHANGED lock

\* doRefresh, with its answer.
RefreshDone(t, q) ==
    /\ wire' = wire \ {q}
    /\ tab' = [tab EXCEPT ![t] = IF q.ok THEN Resolved(Adopt(@), TRUE) ELSE Resolved(@, FALSE)]
    /\ channel' = IF q.ok THEN Told(t, "token") ELSE channel
    /\ lock' = IF lock = t THEN None ELSE lock

\* logout in the menu, and announceLogout.
LogoutDone(t, q) ==
    /\ wire' = wire \ {q}
    /\ tab' = [tab EXCEPT ![t] = [@ EXCEPT !.at = "login", !.token = FALSE,
                                           !.life = 0, !.timer = FALSE]]
    /\ channel' = Told(t, "logout")
    /\ UNCHANGED lock

Continue(t) ==
    /\ \E q \in wire :
          /\ q.tab = t /\ q.stage = "stored"
          /\ CASE q.what = "refresh" -> RefreshDone(t, q)
               [] q.what = "logout" -> LogoutDone(t, q)
    /\ UNCHANGED <<jar, tokens, writes, past, events, minutes>>

\* The listener of the channel; "logout" loads the login page anew.
Hear(t) ==
    /\ channel[t] # << >>
    /\ IF Head(channel[t]) = "token"
       THEN /\ tab' = [tab EXCEPT ![t] = Adopt(@)]
            /\ channel' = [channel EXCEPT ![t] = Tail(@)]
            /\ UNCHANGED <<lock, wire, past>>
       ELSE /\ Leave(t, NoToken)
            /\ channel' = [channel EXCEPT ![t] = << >>]
    /\ UNCHANGED <<jar, tokens, writes, events, minutes>>

\* The renewal timer.
TimerFires(t) ==
    /\ tab[t].timer /\ tab[t].life <= Mark
    /\ tab' = [tab EXCEPT ![t] = Refreshing([@ EXCEPT !.timer = FALSE])]
    /\ UNCHANGED <<jar, lock, wire, channel, tokens, writes, past, events, minutes>>

\* visibilitychange
BecomesVisible(t) ==
    /\ tab[t].token /\ tab[t].life <= Wake /\ tab[t].turn = "idle"
    /\ tab' = [tab EXCEPT ![t] = Refreshing(@)]
    /\ UNCHANGED <<jar, lock, wire, channel, tokens, writes, past, events, minutes>>

\* A request of the dashboard, or its socket, is refused: the token expired.
Refused(t) ==
    /\ tab[t].at = "app" /\ tab[t].life = 0 /\ tab[t].turn = "idle"
    /\ Event /\ tab' = [tab EXCEPT ![t] = Refreshing(@)]
    /\ UNCHANGED <<jar, lock, wire, channel, tokens, writes, past, minutes>>

----------------------------------------------------------------------------
(* The user, the network, time.                                            *)

\* A tab is opened, reloaded or closed.  RequireAuth asks for /me, without a
\* token, and is refused.
Load(t) ==
    /\ Event /\ Leave(t, [NoToken EXCEPT !.at = "gate", !.turn = "asked"])
    /\ channel' = [channel EXCEPT ![t] = << >>]
    /\ UNCHANGED <<jar, tokens, writes, minutes>>

Close(t) ==
    /\ tab[t].at # "closed" /\ Event /\ Leave(t, [NoToken EXCEPT !.at = "closed"])
    /\ channel' = [channel EXCEPT ![t] = << >>]
    /\ UNCHANGED <<jar, tokens, writes, minutes>>

LogsOut(t) ==
    /\ tab[t].at = "app" /\ Event /\ \A q \in wire : ~(q.tab = t /\ q.what = "logout")
    /\ wire' = Sent(t, "logout")
    /\ past' = [past EXCEPT !.out = TRUE]
    /\ UNCHANGED <<tab, jar, lock, channel, tokens, writes, minutes>>

\* A request or its answer is lost, and the page hears of it; what reached the
\* backend may still be served.
Lose ==
    \E q \in wire :
        /\ q.tab # None /\ q.stage # "stored" /\ Event
        /\ \E served \in BOOLEAN :
              /\ served => q.stage # "served"
              /\ wire' = (wire \ {q}) \cup {[q EXCEPT !.stage = "stored", !.ok = FALSE]}
                            \cup (IF served THEN {[q EXCEPT !.tab = None]} ELSE {})
        /\ past' = [past EXCEPT !.lost = TRUE]
        /\ UNCHANGED <<tab, jar, lock, channel, tokens, writes, minutes>>

\* A minute passes.  A new access token is not due before twelve have, which is
\* more than NumMinutes.
Older(x) == [x EXCEPT !.life = IF @ \in {0, Life} THEN @ ELSE @ - 1]

Minute ==
    /\ minutes < NumMinutes /\ minutes' = minutes + 1
    /\ tab' = [t \in Tabs |-> Older(tab[t])]
    /\ tokens' = [r \in DOMAIN tokens |->
          IF tokens[r].age < 2 THEN [tokens[r] EXCEPT !.age = @ + 1] ELSE tokens[r]]
    /\ past' = [past EXCEPT !.late = @ \/ wire # {} \/ writes # {} \/ jar = 0
                                      \/ tokens[jar].state # "live"]
    /\ UNCHANGED <<jar, lock, wire, channel, writes, events>>

----------------------------------------------------------------------------
\* The user is signed in, in every tab, and the renewal timers are due.
Init ==
    /\ tab = [t \in Tabs |-> [Adopt(NoToken) EXCEPT !.at = "app", !.life = Left]]
    /\ jar = 1 /\ tokens = <<[NewToken EXCEPT !.state = "live"]>> /\ writes = {}
    /\ lock = None /\ wire = {} /\ channel = [t \in Tabs |-> << >>]
    /\ past = [lost |-> FALSE, out |-> FALSE, late |-> FALSE, alarm |-> FALSE]
    /\ events = 0 /\ minutes = 0

Next ==
    \/ Read \/ Write \/ ServeLogout \/ Commit \/ Store \/ Lose \/ Minute
    \/ \E t \in Tabs :
          \/ TakeTurn(t) \/ Continue(t) \/ Hear(t) \/ TimerFires(t) \/ BecomesVisible(t)
          \/ Refused(t) \/ Load(t) \/ Close(t) \/ LogsOut(t)

\* The network answers or fails; tabs run, and get the lock when it is free.
Fairness ==
    /\ WF_vars(Read) /\ WF_vars(Write) /\ WF_vars(ServeLogout) /\ WF_vars(Commit) /\ WF_vars(Store)
    /\ \A t \in Tabs : SF_vars(TakeTurn(t)) /\ WF_vars(Continue(t)) /\ WF_vars(Hear(t))

Spec == Init /\ [][Next]_vars
FairSpec == Spec /\ Fairness

----------------------------------------------------------------------------
(* Correctness.                                                            *)

\* The shape of the state; tokens are replaced by later ones, and the lock is
\* held by the tab that refreshes.
TypeOK ==
    /\ \A t \in Tabs : tab[t].at \in At /\ tab[t].life \in 0..Life
                       /\ tab[t].turn \in {"idle", "asked", "sent"}
    /\ jar \in 0..Len(tokens)
    /\ \A r \in DOMAIN tokens : tokens[r].next \in {0} \cup (r + 1)..Len(tokens)
    /\ lock # None => lock \in Tabs /\ tab[lock].turn = "sent"

\* A cookie that is, or is about to be, the live token.
Good(r) == tokens[r].state \in {"live", "unwritten"}

\* The tabs' turns keep the session: while nobody signs out and no answer is lost,
\* the browser's cookie is good, or a tab is being handed a good one
\* (client.ts:36-38).
CookieKept ==
    Locks /\ ~past.out /\ ~past.lost =>
        \/ Good(jar)
        \/ \E q \in wire : q.what = "refresh" /\ q.stage = "served" /\ q.ok /\ Good(q.cookie)

\* When one is lost, to a reload say, the next refresh within the minute of grace
\* finds the chain alive and trips no theft detection (auth.py:152-156).
GraceHolds == ~past.out /\ ~past.late => ~past.alarm /\ (Good(jar) \/ ChainHead(jar) # 0)

\* The session gate does not spin for ever: whatever the other tabs do with the
\* lock, and whatever is lost, it lets in or sends to the login page
\* (RequireAuth.tsx:9-13).
GateOpens == \A t \in Tabs : tab[t].at = "gate" ~> tab[t].at # "gate"

\* "a proactive timer renews at ~80% of the token's lifetime" (client.ts:43): no
\* token expires in an open tab whose timer has fired and whose refresh did not
\* fail.
RenewedInTime ==
    \A t \in Tabs : tab[t].at = "app" /\ tab[t].life = 0
        => tab[t].timer \/ tab[t].turn # "idle" \/ tab[t].tired
=============================================================================
