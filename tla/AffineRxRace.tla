----------------------------- MODULE AffineRxRace -----------------------------
(***************************************************************************)
(* The unlocked dev->rx_len = 0 of the failure path of affine_send_cmd    *)
(* (src/mai2io/src/affine_io.c:334), run by the LED or game thread, against *)
(* the slot thread's affine_rx_process / affine_rx_consume, which read and *)
(* write rx_len with no lock.  The slot thread's steps are its accesses to *)
(* rx_len: the full check and load of rx_buf[rx_len++], the store, the    *)
(* parse of the head (AffineRxScan), the check of affine_rx_consume, and  *)
(* its memmove and subtraction.                                            *)
(*                                                                         *)
(* The race is undefined behaviour; the subtraction either reuses the     *)
(* value the check loaded or reloads rx_len, as the compiler chooses, and *)
(* both are modelled.  size_t arithmetic is taken modulo SizeMod.  What    *)
(* affine_update_state and affine_handle_board_info do with a frame does  *)
(* not touch rx_len and is left out.                                       *)
(***************************************************************************)
EXTENDS Naturals, Sequences, AffineRxScan

CONSTANTS
    RxBufSize,  \* sizeof(dev->rx_buf), AFFINE_RX_BUF_SIZE
    SizeMod,    \* 2^w for the width w of size_t
    Reads,      \* what serial_read may return, as byte sequences
    MaxReads    \* bound on serial_read calls

ASSUME RxBufSize >= 14 /\ SizeMod > 2 * RxBufSize

Byte == 0..255

VARIABLES
    rxBuf,      \* dev->rx_buf (rxBuf[i] is rx_buf[i - 1])
    rxLen,      \* dev->rx_len
    connected,  \* dev->connected
    inbuf,      \* the bytes of buf[0 .. read - 1] not yet processed
    reads,      \* serial_read calls so far
    pc,         \* the slot thread's next access
    reg,        \* the value of rx_len the slot thread holds in a register
    count       \* the argument of affine_rx_consume

vars == <<rxBuf, rxLen, connected, inbuf, reads, pc, reg, count>>

TypeOK ==
    /\ rxBuf \in [1..RxBufSize -> Byte]
    /\ rxLen \in 0..SizeMod - 1
    /\ connected \in BOOLEAN
    /\ inbuf \in Seq(Byte) /\ reads \in 0..MaxReads
    /\ pc \in {"read", "load", "store", "parse", "check", "shift"}
    /\ reg \in 0..RxBufSize /\ count \in 0..RxBufSize

\* Static storage is zero; affine_try_open has just set rx_len = 0.
Init ==
    /\ rxBuf = [i \in 1..RxBufSize |-> 0]
    /\ rxLen = 0 /\ connected = TRUE
    /\ inbuf = <<>> /\ reads = 0
    /\ pc = "read" /\ reg = 0 /\ count = 0

\* Where the thread goes when the parse loop breaks.
AfterParse == IF inbuf = <<>> THEN "read" ELSE "load"

(***************************************************************************)
(* The slot thread, affine_thread_proc.                                    *)
(***************************************************************************)

\* serial_read on the open port returns some bytes.
Read ==
    /\ pc = "read" /\ connected /\ reads < MaxReads
    /\ \E r \in Reads : inbuf' = r
    /\ reads' = reads + 1
    /\ pc' = "load"
    /\ UNCHANGED <<rxBuf, rxLen, connected, reg, count>>

(* serial_read on the closed port fails; after the rescan interval        *)
(* affine_try_open reopens the board and sets rx_len = 0.                  *)
Reopen ==
    /\ pc = "read" /\ ~connected
    /\ connected' = TRUE /\ rxLen' = 0
    /\ UNCHANGED <<rxBuf, inbuf, reads, pc, reg, count>>

(* affine_rx_process: if (rx_len >= sizeof(rx_buf)) rx_len = 0; then the  *)
(* index of rx_buf[rx_len++] is loaded.                                     *)
Load ==
    /\ pc = "load"
    /\ LET r == IF rxLen >= RxBufSize THEN 0 ELSE rxLen IN
         /\ rxLen' = r
         /\ reg' = r
    /\ pc' = "store"
    /\ UNCHANGED <<rxBuf, connected, inbuf, reads, count>>

\* The byte is stored at the loaded index and rx_len = index + 1.
Store ==
    /\ pc = "store"
    /\ rxBuf' = [rxBuf EXCEPT ![reg + 1] = Head(inbuf)]
    /\ rxLen' = reg + 1
    /\ inbuf' = Tail(inbuf)
    /\ pc' = "parse" /\ reg' = 0
    /\ UNCHANGED <<connected, reads, count>>

(* One iteration of affine_rx_try_parse over rx_buf[0 .. rx_len - 1]: it   *)
(* breaks on an empty or incomplete accumulator, or calls                 *)
(* affine_rx_consume for a frame or a byte to drop.  (With rx_len past    *)
(* the buffer no step is defined: the reads run off rx_buf.)              *)
Parse ==
    /\ pc = "parse" /\ rxLen <= RxBufSize
    /\ IF rxLen = 0
         THEN pc' = AfterParse /\ count' = count
         ELSE LET s == Scan(SubSeq(rxBuf, 1, rxLen), RxBufSize) IN
              CASE s.do = "wait" -> pc' = AfterParse /\ count' = count
                [] s.do = "drop" -> pc' = "check" /\ count' = 1
                [] s.do = "take" -> pc' = "check" /\ count' = s.n
    /\ UNCHANGED <<rxBuf, rxLen, connected, inbuf, reads, reg>>

\* affine_rx_consume: if (count >= rx_len) { rx_len = 0; return; }
ConsumeCheck ==
    /\ pc = "check"
    /\ IF count >= rxLen
         THEN /\ rxLen' = 0 /\ reg' = 0 /\ pc' = "parse" /\ count' = 0
         ELSE /\ reg' = rxLen /\ pc' = "shift" /\ UNCHANGED <<rxLen, count>>
    /\ UNCHANGED <<rxBuf, connected, inbuf, reads>>

(* memmove(rx_buf, rx_buf + count, rx_len - count); rx_len -= count; with   *)
(* rx_len the checked value or a fresh load.  A length below count wraps: *)
(* the memmove then runs off the buffer too.                              *)
ConsumeShift ==
    /\ pc = "shift"
    /\ \E base \in {reg, rxLen} :
         /\ rxLen' = (base - count) % SizeMod
         /\ rxBuf' = IF base >= count
                       THEN [i \in 1..RxBufSize |->
                               IF i <= base - count THEN rxBuf[i + count] ELSE rxBuf[i]]
                       ELSE rxBuf
    /\ pc' = "parse" /\ reg' = 0 /\ count' = 0
    /\ UNCHANGED <<connected, inbuf, reads>>

SlotThread == Read \/ Reopen \/ Load \/ Store \/ Parse \/ ConsumeCheck \/ ConsumeShift

(***************************************************************************)
(* A writer, affine_send_cmd from the LED or game thread.                  *)
(***************************************************************************)

(* serial_write fails: serial_close, connected = false, rx_len = 0 (and the *)
(* shared state is zeroed), under write_lock, which the slot thread's     *)
(* parse does not take.                                                    *)
WriteFail ==
    /\ connected
    /\ connected' = FALSE /\ rxLen' = 0
    /\ UNCHANGED <<rxBuf, inbuf, reads, pc, reg, count>>

Next == SlotThread \/ WriteFail

Spec == Init /\ [][Next]_vars

(***************************************************************************)
(* Properties.                                                             *)
(***************************************************************************)

(* rx_len never exceeds the accumulator (spec 7: discarding is bounded by  *)
(* the buffer size), whatever the writer's reset interleaves with: past   *)
(* it, the next affine_rx_consume memmoves rx_len - count bytes and the   *)
(* parse reads beyond rx_buf.                                              *)
RxLenInBounds == rxLen <= RxBufSize

=============================================================================
