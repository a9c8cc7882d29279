---------------------------- MODULE MCAffineRxRace ----------------------------
(* Instantiates AffineRxRace with the real 128-byte accumulator and reads *)
(* of telemetry as the board streams it.                                   *)
EXTENDS AffineRxRace

\* FF 01 0A, buttons 3 bytes, touch 7 bytes, 0A: an idle telemetry frame.
TelemetryIdle == <<255, 1, 10, 0, 0, 0, 0, 0, 0, 0, 0, 0, 0, 10>>
\* The same frame behind the 0xFF of a frame cut off by the previous read:
\* the stray byte is dropped with more bytes buffered behind it.
StrayThenTelemetry == <<255>> \o TelemetryIdle

MCReads == {TelemetryIdle, StrayThenTelemetry}
\* size_t is 32 or 64 bits; TLC's integers stop at 2^31 - 1, and any width
\* makes 0 - count exceed the buffer.
MCSizeMod == 2^30
=============================================================================
