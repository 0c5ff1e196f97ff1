---------------------------- MODULE MCServerMain ----------------------------
(* A small instance of ServerMain for TLC. *)
EXTENDS ServerMain

CONSTANTS c1, c2, x1, x2, x3

TwoConns      == {c1, c2}
ThreeContexts == {x1, x2, x3}
=============================================================================
