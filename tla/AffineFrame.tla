----------------------------- MODULE AffineFrame -----------------------------
(***************************************************************************)
(* The byte-level conversions of src/mai2io/src/affine_io.c, as pure       *)
(* operators: the command frame affine_send_cmd builds, the button merge   *)
(* of affine_update_state, and the per-player "io status" byte the slot    *)
(* publishes to shared memory and decodes from it.  Bytes are naturals     *)
(* 0..255; uint8_t arithmetic wraps modulo 256.                            *)
(***************************************************************************)
EXTENDS Naturals, SequencesExt

Byte == 0..255

\* Command ids (affine_io.c and mai2io.c).
CMD_HEARTBEAT == 17        \* 0x11
CMD_LED_BUTTONS == 20      \* 0x14
CMD_LED_BILLBOARD == 21    \* 0x15
CMD_LED_PWM == 22          \* 0x16
CMD_GET_BOARD_INFO == 240  \* 0xF0

\* uint8_t frame[64]: the payload may be at most sizeof(frame) - 4 bytes.
FrameBufSize == 64

\* Bit k of x.
Bit(x, k) == (x \div 2^k) % 2 = 1

(***************************************************************************)
(* affine_send_cmd: uint8_t sum accumulated over frame[0..total-1].        *)
(***************************************************************************)
RECURSIVE Checksum(_)
Checksum(s) ==
    IF s = <<>> THEN 0 ELSE (Checksum(Front(s)) + s[Len(s)]) % 256

\* Mutated form: the limit off by one, sizeof(frame) - 3.
EncodeFrameOffByOne(cmd, payload) ==
    IF Len(payload) > FrameBufSize - 3 THEN <<>>
    ELSE LET body == <<255, cmd, Len(payload)>> \o payload
         IN body \o <<Checksum(body)>>

\* Mutated form: the checksum taken over the bytes after the 0xFF header.
EncodeFrameNoHeaderSum(cmd, payload) ==
    IF Len(payload) > FrameBufSize - 4 THEN <<>>
    ELSE LET body == <<255, cmd, Len(payload)>> \o payload
         IN body \o <<Checksum(Tail(body))>>

(* The bytes affine_send_cmd writes for cmd and payload, or <<>> when it  *)
(* returns without sending because the payload does not fit the frame.   *)
EncodeFrame(cmd, payload) ==
    IF Len(payload) > FrameBufSize - 4 THEN <<>>
    ELSE LET body == <<255, cmd, Len(payload)>> \o payload
         IN body \o <<Checksum(body)>>

(***************************************************************************)
(* affine_update_state: buttons0 is the low nibble of the first button     *)
(* byte and the high nibble of the second; buttons1 the third masked to   *)
(* six bits.                                                               *)
(***************************************************************************)
DecodeButtons(b) ==
    << (b[1] % 16) + (b[2] \div 16) * 16, b[3] % 64 >>

(***************************************************************************)
(* affine_encode_io_status / affine_decode_io_status.  buttons1 bits 1..3  *)
(* (test, service, coin) go to status bits 0..2; bit 0 (select) goes to    *)
(* status bit 4 for player 1 and bit 5 for player 2.                       *)
(***************************************************************************)
SelectStatusBit(player) == IF player = 1 THEN 4 ELSE 5

EncodeIoStatus(player, buttons1) ==
    (IF Bit(buttons1, 1) THEN 1 ELSE 0)
    + (IF Bit(buttons1, 2) THEN 2 ELSE 0)
    + (IF Bit(buttons1, 3) THEN 4 ELSE 0)
    + (IF Bit(buttons1, 0) THEN 2^SelectStatusBit(player) ELSE 0)

\* Mutated form: player 2's region decoded with player 1's select bit.
DecodeIoStatusFixedBit(player, io_status) ==
    (IF Bit(io_status, 0) THEN 2 ELSE 0)
    + (IF Bit(io_status, 1) THEN 4 ELSE 0)
    + (IF Bit(io_status, 2) THEN 8 ELSE 0)
    + (IF Bit(io_status, 4) THEN 1 ELSE 0)

DecodeIoStatus(player, io_status) ==
    (IF Bit(io_status, 0) THEN 2 ELSE 0)
    + (IF Bit(io_status, 1) THEN 4 ELSE 0)
    + (IF Bit(io_status, 2) THEN 8 ELSE 0)
    + (IF Bit(io_status, SelectStatusBit(player)) THEN 1 ELSE 0)

=============================================================================
