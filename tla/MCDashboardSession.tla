------------------------- MODULE MCDashboardSession -------------------------
(* Instances of DashboardSession for TLC. *)
EXTENDS DashboardSession

\* Three events in the first minute, or two in the first two, or one in all of
\* them.  No fair step is one of these, so none is cut off.
EventsOrMinutes ==
    /\ events = 3 => minutes = 0
    /\ events = 2 => minutes <= 1
=============================================================================
