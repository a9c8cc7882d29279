------------------------------ MODULE MCMai2Poll ------------------------------
(* Instantiates Mai2Poll for TLC: the player-1 slot's thread alone (no LED *)
(* writers), two handle values, and the board's input as the byte pairs  *)
(* "nothing", "coin" (ext bit 3) and "button 1 with select" (ext bit 0).   *)
EXTENDS Mai2Poll, TLC

NoWriters == {}
MCHandles == {1, 2}
MCPollValues == {0, 2048, 257}
=============================================================================
