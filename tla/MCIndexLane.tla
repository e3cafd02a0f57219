---------------------------- MODULE MCIndexLane ----------------------------
(***************************************************************************)
(* IndexLane for TLC: three queries over two roots.                        *)
(***************************************************************************)
EXTENDS IndexLane

CONSTANTS home, mount      \* roots
TwoRoots == {home, mount}
BothModes == {"fff", "plocate"}
Throws == {"throws"}
=============================================================================
