---------------------------- MODULE MCConnections ----------------------------
(***************************************************************************)
(* An instance of Connections for TLC: two captures, of which the server may *)
(* lose the stop of the second, two pods that share one container but not    *)
(* their first, the thirty checks of the code, one capture over REST that    *)
(* one request stops, and one crash.                                         *)
(***************************************************************************)
EXTENDS Connections, TLC

CONSTANTS p1, p2, main, side

MCContainersOf == p1 :> <<main, side>> @@ p2 :> <<side>>
=============================================================================
