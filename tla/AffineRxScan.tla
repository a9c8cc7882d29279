----------------------------- MODULE AffineRxScan -----------------------------
(***************************************************************************)
(* The case analysis of affine_rx_try_parse (src/mai2io/src/affine_io.c): *)
(* what the bytes at the head of dev->rx_buf are.  Shared by the parser   *)
(* model (AffineRxParser) and the model of the unlocked rx_len reset      *)
(* (AffineRxRace).                                                         *)
(***************************************************************************)
EXTENDS Naturals, Sequences

(***************************************************************************)
(* affine_rx_try_parse.  Scan decides what the bytes at the head of the    *)
(* accumulator are: a complete frame of n bytes ("take"), a frame that    *)
(* needs more bytes ("wait"), or a byte to discard ("drop").              *)
(***************************************************************************)
Wait == [do |-> "wait"]
Drop == [do |-> "drop"]
Take(n) == [do |-> "take", n |-> n]

\* A frame of fixed length n whose last byte must be term.
Fixed(buf, n, term) ==
    IF Len(buf) < n THEN Wait ELSE IF buf[n] = term THEN Take(n) ELSE Drop

\* FF F0 len ...: a board-info reply of 3 + len + 1 bytes; one that cannot fit
\* the accumulator is given up at its leading byte.
BoardInfo(buf, size) ==
    LET total == 3 + buf[3] + 1
    IN IF total > size THEN Drop ELSE IF Len(buf) < total THEN Wait ELSE Take(total)

\* Mutated form: the board-info length taken without the trailing checksum.
ScanShortBoardInfo(buf, size) ==
    CASE buf[1] = 255 /\ Len(buf) < 3 -> Wait
      [] buf[1] = 255 /\ buf[2] = 1   -> Fixed(buf, 14, 10)
      [] buf[1] = 255 /\ buf[2] = 240 ->
            LET total == 3 + buf[3]
            IN IF total > size THEN Drop ELSE IF Len(buf) < total THEN Wait ELSE Take(total)
      [] buf[1] = 40                  -> Fixed(buf, 9, 41)
      [] OTHER                        -> Drop

\* Mutated form: no check that a board-info reply fits the accumulator.
ScanNoFitCheck(buf, size) ==
    CASE buf[1] = 255 /\ Len(buf) < 3 -> Wait
      [] buf[1] = 255 /\ buf[2] = 1   -> Fixed(buf, 14, 10)
      [] buf[1] = 255 /\ buf[2] = 240 ->
            IF Len(buf) < 3 + buf[3] + 1 THEN Wait ELSE Take(3 + buf[3] + 1)
      [] buf[1] = 40                  -> Fixed(buf, 9, 41)
      [] OTHER                        -> Drop

(* The head of a non-empty accumulator.  FF 01 0A ... and FF 01 xx ... are *)
(* both 14-byte telemetry frames ending in 0A (the code tests them in two *)
(* branches with the same effect); 28 ... 29 is the 9-byte legacy frame.  *)
Scan(buf, size) ==
    CASE buf[1] = 255 /\ Len(buf) < 3 -> Wait
      [] buf[1] = 255 /\ buf[2] = 1   -> Fixed(buf, 14, 10)
      [] buf[1] = 255 /\ buf[2] = 240 -> BoardInfo(buf, size)
      [] buf[1] = 40                  -> Fixed(buf, 9, 41)
      [] OTHER                        -> Drop

=============================================================================
