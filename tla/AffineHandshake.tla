---------------------------- MODULE AffineHandshake ----------------------------
(***************************************************************************)
(* The board-info handshake of one slot (src/mai2io/src/affine_io.c): the  *)
(* fields affine_try_open resets, the board-info block at the top of each *)
(* iteration of affine_thread_proc, and affine_handle_board_info applied  *)
(* to a reply read in the same iteration.                                  *)
(*                                                                         *)
(* GetTickCount is a clock modulo Wrap in units of 250 ms; DWORD          *)
(* differences are taken modulo Wrap, and a timestamp of 0 is the code's  *)
(* "no request yet" sentinel.  The loop runs every few ms (a 20 ms read    *)
(* timeout), so the clock advances one unit only after the board-info    *)
(* block has run in the current unit, or while affine_try_open enumerates *)
(* and opens the port.                                                     *)
(***************************************************************************)
EXTENDS Naturals

CONSTANTS
    Wrap,          \* clock modulus (2^32 ms in the program)
    Delay,         \* AFFINE_BOARD_INFO_DELAY_MS / 250
    Timeout,       \* AFFINE_BOARD_INFO_TIMEOUT_MS / 250
    GiveUp,        \* the 3000 ms overall limit / 250
    Firmwares,     \* how boards answer GET_BOARD_INFO
    MaxCount       \* cap of the per-connection counters

ASSUME Wrap > GiveUp + 2 * Timeout /\ 0 < Delay /\ Delay < Timeout /\ Timeout < GiveUp
ASSUME Firmwares \subseteq {"valid", "malformed", "empty", "silent"}

VARIABLES
    now,        \* GetTickCount()
    iterNow,    \* the iteration's local now (line 506) when try_open ran in it
    ticked,     \* the board-info block has run since the clock last advanced
    phase,      \* where affine_thread_proc is: after try_open, the block, the read
    connected,  \* dev->connected
    firmware,   \* how the board on this connection answers
    pending,    \* dev->board_info_pending
    logged,     \* dev->board_info_logged
    unknown,    \* dev->board_info_unknown
    startMs,    \* dev->board_info_start_ms
    requestMs,  \* dev->board_info_request_ms
    awaiting    \* requests sent and not yet answered

vars == <<now, iterNow, ticked, phase, connected, firmware, pending, logged, unknown, startMs,
          requestMs, awaiting>>

Clock == 0..Wrap - 1

\* (DWORD)(a - b)
Elapsed(a, b) == (a - b + Wrap) % Wrap

Capped(n) == IF n < MaxCount THEN n + 1 ELSE MaxCount

TypeOK ==
    /\ now \in Clock /\ iterNow \in Clock
    /\ ticked \in BOOLEAN /\ connected \in BOOLEAN
    /\ phase \in {"opened", "block", "read"}
    /\ firmware \in Firmwares
    /\ pending \in BOOLEAN /\ logged \in BOOLEAN /\ unknown \in BOOLEAN
    /\ startMs \in Clock /\ requestMs \in Clock
    /\ awaiting \in 0..MaxCount

\* affine_init_device: memset(dev, 0), the port not yet open.
Init ==
    /\ now \in Clock /\ iterNow = 0
    /\ ticked = TRUE /\ connected = FALSE /\ phase = "block"
    /\ firmware \in Firmwares
    /\ pending = FALSE /\ logged = FALSE /\ unknown = FALSE
    /\ startMs = 0 /\ requestMs = 0
    /\ awaiting = 0

(* One GET_BOARD_INFO sent by affine_send_cmd (a write that fails is a    *)
(* disconnect, the action LinkLost).                                       *)
SendRequest ==
    awaiting' = Capped(awaiting)

(***************************************************************************)
(* affine_try_open succeeding: a new board, handshake armed.  The loop    *)
(* read now at its top; try_open reads GetTickCount again after            *)
(* discovery and open, and the clock may have advanced in between.  The   *)
(* board-info block of the same iteration still uses the loop's now.       *)
(***************************************************************************)
TryOpen ==
    /\ ~connected
    /\ connected' = TRUE
    /\ \E f \in Firmwares : firmware' = f
    /\ pending' = TRUE /\ logged' = FALSE /\ unknown' = FALSE
    /\ iterNow' = now
    /\ \E d \in {0, 1} : /\ now' = (now + d) % Wrap
                         /\ ticked' = (d = 0)
    /\ startMs' = now' /\ requestMs' = 0
    /\ awaiting' = 0
    /\ phase' = "opened"

(***************************************************************************)
(* The board-info block of affine_thread_proc, as three cases.             *)
(***************************************************************************)
\* First request, once the settle delay has passed since connecting.
FirstRequest(t) ==
    /\ pending /\ requestMs = 0
    /\ Elapsed(t, startMs) >= Delay
    /\ SendRequest
    /\ requestMs' = t
    /\ UNCHANGED <<pending, logged, unknown>>

\* Mutated form: the overall limit counted one timeout too late.
RetryRequestLateGiveUp(t) ==
    /\ pending /\ requestMs # 0
    /\ Elapsed(t, requestMs) >= Timeout
    /\ ~logged
    /\ SendRequest
    /\ requestMs' = t
    /\ IF Elapsed(t, startMs) > GiveUp + Timeout
         THEN /\ pending' = FALSE /\ logged' = TRUE /\ unknown' = TRUE
         ELSE UNCHANGED <<pending, logged, unknown>>

(* A request timed out: send again and, past the overall limit, give up:  *)
(* report the firmware unknown and let heartbeats resume.                  *)
RetryRequest(t) ==
    /\ pending /\ requestMs # 0
    /\ Elapsed(t, requestMs) >= Timeout
    /\ ~logged
    /\ SendRequest
    /\ requestMs' = t
    /\ IF Elapsed(t, startMs) > GiveUp
         THEN /\ pending' = FALSE /\ logged' = TRUE /\ unknown' = TRUE
         ELSE UNCHANGED <<pending, logged, unknown>>

\* Nothing due: waiting for the delay or the timeout, or the heartbeat branch.
NoRequest(t) ==
    /\ ~(pending /\ requestMs = 0 /\ Elapsed(t, startMs) >= Delay)
    /\ ~(pending /\ requestMs # 0 /\ Elapsed(t, requestMs) >= Timeout /\ ~logged)
    /\ UNCHANGED <<pending, logged, unknown, requestMs, awaiting>>

(***************************************************************************)
(* affine_handle_board_info for one reply read in the iteration.           *)
(***************************************************************************)
\* Mutated form: the ver_len check dropped, a malformed reply is logged.
HandleBoardInfoNoVerLenCheck(kind) ==
    IF kind = "empty" THEN UNCHANGED <<pending, logged, unknown>>
    ELSE pending' = FALSE /\ logged' = TRUE /\ unknown' = FALSE

HandleBoardInfo(kind) ==
    CASE kind = "empty" ->       \* len < 1: parse failed, nothing changes
            UNCHANGED <<pending, logged, unknown>>
      [] kind = "malformed" ->   \* ver_len 0 or past len: resolved as failed
            /\ pending' = FALSE
            /\ UNCHANGED <<logged, unknown>>
      [] kind = "valid" ->
            /\ pending' = FALSE
            /\ logged' = TRUE
            /\ unknown' = FALSE

(* The board-info block of an iteration on an open port, with the now the *)
(* iteration read at its top.                                              *)
Block ==
    /\ connected /\ phase \in {"opened", "block"}
    /\ LET t == IF phase = "opened" THEN iterNow ELSE now
       IN FirstRequest(t) \/ RetryRequest(t) \/ NoRequest(t)
    /\ phase' = "read" /\ iterNow' = 0 /\ ticked' = TRUE
    /\ UNCHANGED <<now, connected, firmware, startMs>>

(* serial_read and affine_rx_process: nothing of the handshake is read, or *)
(* the board's answer to an outstanding request is parsed.               *)
ReadNothing ==
    /\ connected /\ phase = "read"
    /\ phase' = "block"
    /\ UNCHANGED <<now, iterNow, ticked, connected, firmware, pending, logged,
                   unknown, startMs, requestMs, awaiting>>

ReadReply ==
    /\ connected /\ phase = "read"
    /\ awaiting > 0 /\ firmware # "silent"
    /\ HandleBoardInfo(firmware)
    /\ awaiting' = awaiting - 1
    /\ phase' = "block"
    /\ UNCHANGED <<now, iterNow, ticked, connected, firmware, startMs, requestMs>>

(* A read or write fails, the board is unplugged or the slot disabled: the *)
(* port is closed and the loop goes back to affine_try_open.              *)
LinkLost ==
    /\ connected
    /\ connected' = FALSE /\ phase' = "block" /\ ticked' = TRUE /\ iterNow' = 0
    /\ UNCHANGED <<now, firmware, pending, logged, unknown, startMs, requestMs,
                   awaiting>>

\* The clock advances one unit; the block runs at least once per unit.
Tick ==
    /\ ticked \/ ~connected
    /\ now' = (now + 1) % Wrap
    /\ ticked' = FALSE
    /\ UNCHANGED <<iterNow, phase, connected, firmware, pending, logged, unknown, startMs,
                   requestMs, awaiting>>

Thread == TryOpen \/ Block \/ ReadNothing \/ ReadReply

Next == Thread \/ LinkLost \/ Tick

Spec == Init /\ [][Next]_vars

(* The slot thread runs whenever it can; time passes; a board that answers *)
(* streams its reply within a read, so a reply that can be read is read.   *)
FairSpec == Spec /\ WF_vars(Thread) /\ WF_vars(Tick) /\ SF_vars(ReadReply)

(***************************************************************************)
(* Properties.                                                             *)
(***************************************************************************)

(* The handshake's outcome as the flags of affine_device record it.       *)
Outcome ==
    IF pending THEN "pending"
    ELSE IF ~logged THEN "none"
    ELSE IF unknown THEN "unknown"
    ELSE "known"

Abstract == INSTANCE BoardInfoOutcome WITH link <- connected, outcome <- Outcome

(* The handshake implements its abstract promise (BoardInfoOutcome): the  *)
(* flags of affine_try_open, the retry block and affine_handle_board_info *)
(* say "known" only after a valid reply and "none" only after a malformed  *)
(* one; a pending handshake ends; and after a give-up, the request sent   *)
(* with it lets a valid board be identified late.                          *)
BoardInfoRefined == Abstract!Spec

(* board_info_pending, which suppresses heartbeats, is cleared within    *)
(* the 3000 ms limit plus one retry timeout of the connection: a board     *)
(* that never answers is given up on, and heartbeats resume, by 4000 ms,   *)
(* even when the first request went out before the settle delay because   *)
(* the clock moved during affine_try_open, and wherever the clock wraps.  *)
HeartbeatsResumeInTime ==
    connected /\ pending => Elapsed(now, startMs) <= GiveUp + Timeout

=============================================================================
