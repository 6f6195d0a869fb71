---------------------------- MODULE RemoteCall ----------------------------
(***************************************************************************)
(* What the remote-drive gateway promises whoever calls it, without        *)
(* workers, sockets, rosters or frames (services/remote_drive.py:1-44):    *)
(* an operation reaches a browser at most once, and the caller hears once  *)
(* how it ended.  That it was not delivered is said only of an operation   *)
(* that no browser will ever run: the caller may safely ask again.         *)
(***************************************************************************)
CONSTANT Calls

VARIABLES
    told,   \* what the caller has heard
    work    \* what became of the operation

vars == <<told, work>>

Told == {"idle", "waiting", "ok", "failed", "gone", "timeout"}

\* "lost": written to a socket that the browser has left.
Work == {"none", "lost", "busy", "answered"}

Hears(c, what) == told' = [told EXCEPT ![c] = what]
Writes(c, what) == work' = [work EXCEPT ![c] = what]

Init ==
    /\ told = [c \in Calls |-> "idle"]
    /\ work = [c \in Calls |-> "none"]

\* With one worker the call is written, or refused, at once.
Ask(c) ==
    /\ told[c] = "idle"
    /\ \/ Hears(c, "waiting") /\ \E w \in Work \ {"answered"} : Writes(c, w)
       \/ Hears(c, "gone") /\ UNCHANGED work

\* An operation whose time is up may still be on its way.
Write(c) ==
    /\ told[c] \in {"waiting", "timeout"} /\ work[c] = "none"
    /\ \E w \in {"lost", "busy"} : Writes(c, w)
    /\ UNCHANGED told

Answer(c) ==
    /\ work[c] = "busy" /\ Writes(c, "answered")
    /\ UNCHANGED told

Hear(c) ==
    /\ told[c] = "waiting"
    /\ \/ Hears(c, "timeout")
       \/ work[c] = "answered" /\ (Hears(c, "ok") \/ Hears(c, "failed"))
       \/ work[c] = "none" /\ Hears(c, "gone")
    /\ UNCHANGED work

Next == \E c \in Calls : Ask(c) \/ Write(c) \/ Answer(c) \/ Hear(c)

Spec == Init /\ [][Next]_vars
=============================================================================
