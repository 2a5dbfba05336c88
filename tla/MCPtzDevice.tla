---------------------------- MODULE MCPtzDevice ----------------------------
(***************************************************************************)
(* Values for the small instances of PtzDevice.  Three pan and two tilt    *)
(* positions: a move has room and meets a limit.  Of the axis values, 0    *)
(* lets moves be of both axes, together and alone, -1 is full scale, and   *)
(* -5 is so far beyond it that with ints up to 3 it becomes a movement of  *)
(* 3 in the other direction, which added to a position wraps once more.    *)
(* The liveness runs need one direction only.                              *)
(***************************************************************************)
EXTENDS PtzDevice

BothWays == {-5, -1, 0}
OneWay == {0, 1}

AnyOutcome == {"ok", "failed", "unacknowledged"}
OnlyOk == {"ok"}
MayFail == {"ok", "failed"}

=============================================================================
