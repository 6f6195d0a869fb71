--------------------------- MODULE MCWidgetTours ---------------------------
(***************************************************************************)
(* WidgetTours for TLC: the tours of each run.                             *)
(***************************************************************************)
EXTENDS WidgetTours

CONSTANTS home, shop     \* pages

S(kind, page) == [kind |-> kind, page |-> page]

\* One tour that crosses to another page and waits there, one that the player
\* drives, past a frame, to the page it ends on, and a banner.
ThreeTours == [ cross  |-> << S("anchor", None), S("anchor", shop) >>,
                drive  |-> << S("jump", shop), S("frame", None), S("drive", None) >>,
                banner |-> << S("float", None) >> ]
OneTour  == [ cross |-> << S("anchor", None), S("anchor", shop) >> ]
=============================================================================
