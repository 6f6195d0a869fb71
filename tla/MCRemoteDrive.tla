--------------------------- MODULE MCRemoteDrive ---------------------------
(***************************************************************************)
(* RemoteDrive for TLC: what the tools ask for in each run.  `browser1` is *)
(* the one device of the small instances.                                  *)
(***************************************************************************)
EXTENDS RemoteDrive, TLC

CONSTANT browser1

DriveAnyClose == {<<None, "drive">>, <<None, "close">>}
AnyAndNamed   == {<<None, "drive">>, <<browser1, "close">>}

\* Workers are interchangeable.
Symmetry == Permutations(Nodes)
=============================================================================
