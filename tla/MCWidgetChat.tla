---------------------------- MODULE MCWidgetChat ----------------------------
(* Instances of WidgetChat for TLC. *)
EXTENDS WidgetChat

TwoThreads == << "in", "out" >>
=============================================================================
