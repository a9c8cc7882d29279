---------------------------- MODULE AffineRxParser ----------------------------
(***************************************************************************)
(* The receive path of src/mai2io/src/affine_io.c: the bytes the board     *)
(* sends, the serial line that may insert or drop bytes, the slot thread   *)
(* reading up to 64 bytes at a time, and affine_rx_process /               *)
(* affine_rx_try_parse turning the accumulator dev->rx_buf into frames.    *)
(* A decoded frame is recorded as the bytes handed to affine_update_state  *)
(* or affine_handle_board_info.                                            *)
(***************************************************************************)
EXTENDS Naturals, SequencesExt, AffineRxScan

CONSTANTS
    RxBufSize,   \* sizeof(dev->rx_buf), AFFINE_RX_BUF_SIZE
    ReadSize,    \* sizeof(buf) in affine_thread_proc: bytes per serial_read
    BoardFrames, \* the frames the board may send, as byte sequences
    NoiseBytes,  \* bytes the line may insert
    MaxSent,     \* bound on the frames the board sends
    MaxFaults    \* bound on inserted and dropped bytes

ASSUME RxBufSize >= 14 /\ ReadSize >= 1 /\ MaxSent \in Nat /\ MaxFaults \in Nat

VARIABLES
    wire,     \* bytes on the line, not yet read
    rx,       \* dev->rx_buf[0 .. dev->rx_len - 1]
    inbuf,    \* the bytes of the last serial_read not yet processed
    sent,     \* history: the frames the board sent, in order
    decoded,  \* history: the frames the parser delivered, in order
    faults    \* bytes inserted or dropped by the line so far

vars == <<wire, rx, inbuf, sent, decoded, faults>>

TypeOK ==
    /\ wire \in Seq(0..255) /\ rx \in Seq(0..255) /\ inbuf \in Seq(0..255)
    /\ sent \in Seq(BoardFrames) /\ decoded \in Seq(Seq(0..255))
    /\ faults \in 0..MaxFaults

Init ==
    /\ wire = <<>> /\ rx = <<>> /\ inbuf = <<>> \* rx_len = 0 after affine_try_open
    /\ sent = <<>> /\ decoded = <<>>
    /\ faults = 0

\* affine_rx_consume(dev, n)
Consume(buf, n) == IF n >= Len(buf) THEN <<>> ELSE SubSeq(buf, n + 1, Len(buf))

(* The parse loop: <<accumulator left, frames delivered>>.  Every          *)
(* iteration either stops or shortens the accumulator, so it terminates.  *)
RECURSIVE TryParse(_, _)
TryParse(buf, out) ==
    IF buf = <<>> THEN <<buf, out>>
    ELSE LET s == Scan(buf, RxBufSize) IN
         CASE s.do = "wait" -> <<buf, out>>
           [] s.do = "drop" -> TryParse(Consume(buf, 1), out)
           [] s.do = "take" -> TryParse(Consume(buf, s.n),
                                        Append(out, SubSeq(buf, 1, s.n)))

(* One iteration of affine_rx_process: the byte is appended (the         *)
(* accumulator is reset first if it is full) and the parse loop runs.     *)
RxProcessByte(buf, b) ==
    TryParse(Append(IF Len(buf) >= RxBufSize THEN <<>> ELSE buf, b), <<>>)

(***************************************************************************)
(* Actions.                                                                *)
(***************************************************************************)

\* The board writes one frame to the line.
BoardSends ==
    /\ Len(sent) < MaxSent
    /\ \E f \in BoardFrames :
         /\ wire' = wire \o f
         /\ sent' = Append(sent, f)
    /\ UNCHANGED <<rx, inbuf, decoded, faults>>

\* The line inserts a byte anywhere in what is not yet read.
LineInserts ==
    /\ faults < MaxFaults
    /\ \E b \in NoiseBytes, i \in 1..Len(wire) + 1 :
         wire' = InsertAt(wire, i, b)
    /\ faults' = faults + 1
    /\ UNCHANGED <<rx, inbuf, sent, decoded>>

\* The line drops a byte not yet read.
LineDrops ==
    /\ faults < MaxFaults
    /\ \E i \in 1..Len(wire) : wire' = RemoveAt(wire, i)
    /\ faults' = faults + 1
    /\ UNCHANGED <<rx, inbuf, sent, decoded>>

(* affine_thread_proc: serial_read returns 1..64 of the waiting bytes;   *)
(* the thread reads again only after affine_rx_process has used them all. *)
SerialRead ==
    /\ inbuf = <<>>
    /\ \E n \in 1..ReadSize :
         /\ n <= Len(wire)
         /\ inbuf' = SubSeq(wire, 1, n)
         /\ wire' = SubSeq(wire, n + 1, Len(wire))
    /\ UNCHANGED <<rx, sent, decoded, faults>>

\* affine_rx_process, one byte of the read buffer per step.
RxProcess ==
    /\ inbuf # <<>>
    /\ LET r == RxProcessByte(rx, Head(inbuf)) IN
         /\ rx' = r[1]
         /\ decoded' = decoded \o r[2]
    /\ inbuf' = Tail(inbuf)
    /\ UNCHANGED <<wire, sent, faults>>

Next == BoardSends \/ LineInserts \/ LineDrops \/ SerialRead \/ RxProcess

Spec == Init /\ [][Next]_vars

(***************************************************************************)
(* Properties.                                                             *)
(***************************************************************************)

(* On a line that neither inserts nor drops bytes, the parser delivers     *)
(* exactly the frames the board sent, in order, however the reads split   *)
(* them; once everything sent has been read the accumulator is empty.     *)
DecodesExactlyWhatWasSent ==
    faults = 0 =>
        /\ IsPrefix(decoded, sent)
        /\ (wire = <<>> /\ inbuf = <<>> => decoded = sent /\ rx = <<>>)

(* Whatever the line does, the accumulator never fills: every wait is for *)
(* a frame that fits, so the reset in affine_rx_process never discards    *)
(* buffered bytes.                                                         *)
RxNeverFull == Len(rx) < RxBufSize

(* Garbage is discarded, never delivered (spec 4.2, 7 and 8): every frame  *)
(* the parser hands on is one the board sent.                              *)
NoSpuriousFrames == \A i \in 1..Len(decoded) : decoded[i] \in ToSet(sent)

=============================================================================
