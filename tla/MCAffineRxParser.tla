--------------------------- MODULE MCAffineRxParser ---------------------------
(* Instantiates AffineRxParser with frames the board really sends.        *)
EXTENDS AffineRxParser

\* FF 01 0A, buttons 3 bytes, touch 7 bytes, 0A: an idle telemetry frame.
TelemetryIdle == <<255, 1, 10, 0, 0, 0, 0, 0, 0, 0, 0, 0, 0, 10>>
\* A telemetry frame with buttons held and touch byte 1 equal to 0x29.
TelemetryTouch == <<255, 1, 10, 5, 192, 32, 0, 41, 0, 0, 0, 0, 0, 10>>
\* 28 ... 29: the legacy 9-byte frame.
Legacy == <<40, 1, 2, 3, 4, 5, 6, 7, 41>>
\* FF F0 05 04 '1' '.' '0' '0' sum: a board-info reply, version "1.00".
BoardInfoReply == <<255, 240, 5, 4, 49, 46, 48, 48,
                    (255 + 240 + 5 + 4 + 49 + 46 + 48 + 48) % 256>>

MCBoardFrames == {TelemetryIdle, TelemetryTouch, Legacy, BoardInfoReply}
MCTelemetry == {TelemetryIdle, TelemetryTouch}
\* The accumulator of the firmware is 128 bytes; 16 keeps the same code
\* path (a board-info reply that would not fit) within a few frames.
MCSmallRxBuf == 16
MCNoise == {240}
=============================================================================
