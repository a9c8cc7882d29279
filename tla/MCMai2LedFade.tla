---------------------------- MODULE MCMai2LedFade ----------------------------
(* Instantiates Mai2LedFade for TLC.  Speed 255 gives the shortest fade,   *)
(* 128 ms = 4 units of 32 ms, whose float arithmetic is exact; colours 64 *)
(* and 255 put the undefined cast's result 0 outside a fade between them. *)
EXTENDS Mai2LedFade, TLC

MCBoards == {0}
MCLevels == {64, 255}
MCSpeeds == {0, 255}
\* (uint8_t) of a float of magnitude >= 2^31: a multiple of 256, low byte 0,
\* whether the build converts through a 32- or a 64-bit integer.
MCUBResults == {0}
=============================================================================
