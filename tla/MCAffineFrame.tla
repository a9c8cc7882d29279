---------------------------- MODULE MCAffineFrame ----------------------------
(* Checks the operators of AffineFrame against reference definitions over  *)
(* bounded inputs.  The harness state is one call of affine_send_cmd (a    *)
(* command, a payload length and a fill pattern for its bytes) and one    *)
(* shared-memory write and read (a player and a buttons1 value).          *)
EXTENDS AffineFrame, FiniteSets, TLC

Commands == {CMD_HEARTBEAT, CMD_LED_BUTTONS, CMD_LED_BILLBOARD, CMD_LED_PWM,
             CMD_GET_BOARD_INFO}
\* Lengths the callers use (0, 3, 24), the largest accepted (60), and the
\* first rejected one (61).
PayloadLengths == {0, 3, 24, 60, 61}
\* Payload byte i is (fill * i) % 256: all zero, ascending, wrapping.
Fills == {0, 1, 97, 255}
Payload(len, fill) == [i \in 1..len |-> (fill * i) % 256]

Players == {1, 2}
\* buttons1 is masked to six bits by affine_update_state.
Buttons1 == 0..63

VARIABLES tx, shmIn
vars == <<tx, shmIn>>

Inputs == [cmd : Commands, len : PayloadLengths, fill : Fills]
ShmInputs == [player : Players, buttons1 : Buttons1]

Init == tx \in Inputs /\ shmIn \in ShmInputs

\* The next call of affine_send_cmd, or the next shared-memory write and read.
Next == \/ \E i \in Inputs : tx' = i /\ UNCHANGED shmIn
        \/ \E j \in ShmInputs : shmIn' = j /\ UNCHANGED tx

Spec == Init /\ [][Next]_vars

\* Reference: the byte sum of a sequence, reduced once at the end.
RefChecksum(s) == FoldLeft(+, 0, s) % 256

Frame == EncodeFrame(tx.cmd, Payload(tx.len, tx.fill))

(* Every frame affine_send_cmd writes is 0xFF, the command, the payload    *)
(* length, the payload, and as last byte the sum of all preceding bytes    *)
(* modulo 256 (spec 4.2), so the board's check of the trailer passes.     *)
FrameChecksumValid ==
    Frame # <<>> =>
        /\ Len(Frame) = tx.len + 4
        /\ SubSeq(Frame, 1, 3) = <<255, tx.cmd, tx.len>>
        /\ SubSeq(Frame, 4, 3 + tx.len) = Payload(tx.len, tx.fill)
        /\ Frame[Len(Frame)] = RefChecksum(Front(Frame))

\* The payload lengths the senders pass: heartbeat and board info, PWM, LEDs.
CallerLengths == {0, 3, 24}

(* affine_send_cmd never writes past uint8_t frame[64]: a frame it sends,  *)
(* header, payload and checksum, fits the buffer, while every payload its *)
(* callers pass (affine_io_send_led_*, the heartbeat and board-info       *)
(* requests) is sent and not refused by the length guard.                *)
FrameFits ==
    /\ Len(Frame) <= FrameBufSize
    /\ tx.len \in CallerLengths => Frame # <<>>

(* What a consumer process reads back from a player's shared region is the *)
(* four extended signals (select, test, service, coin) the owning slot    *)
(* wrote: decode(player, encode(player, s)) = s (spec section 8).         *)
IoStatusRoundTrip ==
    DecodeIoStatus(shmIn.player, EncodeIoStatus(shmIn.player, shmIn.buttons1))
        = shmIn.buttons1 % 16

=============================================================================
