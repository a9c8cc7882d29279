---------------------------- MODULE AffineDevice ----------------------------
(***************************************************************************)
(* One device slot of src/mai2io/src/affine_io.c: the slot's own thread    *)
(* (affine_thread_proc), the other threads that write LED commands to the  *)
(* same port through affine_send_cmd (the LED fade thread and the game     *)
(* thread), the physical device, and the two-byte shared-memory region    *)
(* the slot publishes its buttons to.                                      *)
(*                                                                         *)
(* The button state is abstracted to a small set of values, 0 meaning "no  *)
(* input".  Frame parsing is modelled in AffineRxParser; here one read     *)
(* delivers at most one telemetry value.  Time is abstracted away: a       *)
(* Sleep is a point where other threads may run, and whether a heartbeat   *)
(* or board-info request is due is a nondeterministic choice (the timers   *)
(* are modelled in AffineHandshake).                                       *)
(***************************************************************************)
EXTENDS Naturals, FiniteSets

CONSTANTS
    Dev,        \* the slot's own thread (affine_thread_proc)
    Writers,    \* other threads calling affine_io_send_led_* for this slot
    NoThread,   \* owner of a free write_lock
    BtnValues,  \* abstract values of dev->buttons0/1 as one value, 0 = no input
    Handles     \* the Win32 handle values CreateFileW may return (reused after close)

ASSUME /\ Dev \notin Writers
       /\ NoThread \notin Writers \cup {Dev}
       /\ 0 \in BtnValues
       /\ Handles \subseteq (Nat \ {0}) /\ Cardinality(Handles) >= 2

Threads == {Dev} \cup Writers

\* INVALID_HANDLE_VALUE
INVALID == 0

VARIABLES
    present,    \* the board is plugged in (environment)
    phys,       \* the value the board's telemetry currently reports (environment)
    enabled,    \* dev->enabled
    port,       \* dev->port.handle
    opened,     \* handles returned by CreateFileW and not yet passed to CloseHandle
    live,       \* opened handles whose device has not been removed since
    connected,  \* dev->connected
    buttons,    \* dev->buttons0/buttons1, the decoded state
    shm,        \* the slot's shared-memory region (affine_shm_ptr[player-1])
    frame,      \* the telemetry value read and not yet applied by the device thread
    pc,         \* program counter of every thread
    writeLock   \* holder of dev->write_lock

vars == <<present, phys, enabled, port, opened, live, connected, buttons, shm,
          frame, pc, writeLock>>

DevPCs == {"loop", "open_pub", "send", "read", "update", "update_pub"}
SendPCs == {"send_lock", "send_write", "send_fail_close", "send_fail_disc",
            "send_fail_pub"}

TypeOK ==
    /\ present \in BOOLEAN /\ enabled \in BOOLEAN /\ connected \in BOOLEAN
    /\ phys \in BtnValues /\ buttons \in BtnValues /\ shm \in BtnValues
    /\ frame \in BtnValues
    /\ opened \subseteq Handles /\ live \subseteq opened
    \* dev->port is INVALID or a handle that has not been closed
    /\ port \in opened \cup {INVALID}
    /\ pc[Dev] \in DevPCs \cup SendPCs
    /\ \A w \in Writers : pc[w] \in {"idle"} \cup SendPCs
    /\ writeLock \in Threads \cup {NoThread}

Init ==
    /\ present \in BOOLEAN
    /\ phys = 0
    \* affine_enabled[], set from the ini file by mai2_load_config before
    \* init; a disabled slot's thread only sleeps (affine_thread_proc 509-518)
    /\ enabled \in BOOLEAN
    /\ port = INVALID               \* affine_init_device
    /\ opened = {} /\ live = {}
    /\ connected = FALSE
    /\ buttons = 0
    /\ shm = 0                      \* a fresh file mapping is zero-filled
    /\ frame = 0
    /\ pc = [t \in Threads |-> IF t = Dev THEN "loop" ELSE "idle"]
    /\ writeLock = NoThread

(***************************************************************************)
(* Helpers.                                                                *)
(***************************************************************************)

\* serial_close(&dev->port): CloseHandle on a valid handle, then INVALID.
CloseSet(h) == IF h = INVALID THEN opened ELSE opened \ {h}
LiveSet(h) == IF h = INVALID THEN live ELSE live \ {h}

\* serial_find_com_port finds the board's COM port only while it is plugged in.
FindComPort == present

\* serial_open: CreateFileW opens a COM port exclusively (share mode 0), so it
\* fails while another handle to the attached board is open.
SerialOpenOk == live = {}

\* serial_read and serial_write: ReadFile/WriteFile fail on INVALID_HANDLE_VALUE
\* and on a handle whose device has gone.
SerialReadOk(h) == h \in live
SerialWriteOk(h) == h \in live

\* The value affine_io_get_state reports: the locked decoded state when the
\* slot is connected, otherwise the shared region (affine_shm_read_state).
GetState == IF connected THEN buttons ELSE shm

\* Where affine_send_cmd returns to.
Ret(t) == IF t = Dev THEN "read" ELSE "idle"

(***************************************************************************)
(* affine_send_cmd, shared by the device thread and the writer threads.    *)
(* The connected check happens in the caller's step; the frame building   *)
(* and the capture write touch no shared state and are folded into it.   *)
(***************************************************************************)

\* Mutated form: entering the write section without taking dev->write_lock.
SendLockNoWait(t) ==
    /\ pc[t] = "send_lock"
    /\ writeLock' = t
    /\ pc' = [pc EXCEPT ![t] = "send_write"]
    /\ UNCHANGED <<present, phys, enabled, port, opened, live, connected,
                   buttons, shm, frame>>

SendLock(t) ==
    /\ pc[t] = "send_lock"
    /\ writeLock = NoThread
    /\ writeLock' = t
    /\ pc' = [pc EXCEPT ![t] = "send_write"]
    /\ UNCHANGED <<present, phys, enabled, port, opened, live, connected,
                   buttons, shm, frame>>

\* serial_write succeeds only on a handle that is open and still attached,
\* and may fail on one too: WriteFile errors or writes fewer bytes than
\* asked before the port's write timeout.
SendWrite(t) ==
    /\ pc[t] = "send_write"
    /\ \/ /\ SerialWriteOk(port)
          /\ writeLock' = NoThread
          /\ pc' = [pc EXCEPT ![t] = Ret(t)]
       \/ /\ pc' = [pc EXCEPT ![t] = "send_fail_close"]
          /\ UNCHANGED writeLock
    /\ UNCHANGED <<present, phys, enabled, port, opened, live, connected,
                   buttons, shm, frame>>

SendFailClose(t) ==
    /\ pc[t] = "send_fail_close"
    /\ opened' = CloseSet(port) /\ live' = LiveSet(port)
    /\ port' = INVALID
    /\ pc' = [pc EXCEPT ![t] = "send_fail_disc"]
    /\ UNCHANGED <<present, phys, enabled, connected, buttons, shm,
                   frame, writeLock>>

SendFailDisc(t) ==
    /\ pc[t] = "send_fail_disc"
    /\ connected' = FALSE           \* and dev->rx_len = 0
    /\ pc' = [pc EXCEPT ![t] = "send_fail_pub"]
    /\ UNCHANGED <<present, phys, enabled, port, opened, live, buttons, shm,
                   frame, writeLock>>

\* Mutated form: the error path returning without LeaveCriticalSection.
SendFailPubNoUnlock(t) ==
    /\ pc[t] = "send_fail_pub"
    /\ shm' = 0
    /\ pc' = [pc EXCEPT ![t] = Ret(t)]
    /\ UNCHANGED <<present, phys, enabled, port, opened, live, connected,
                   buttons, frame, writeLock>>

SendFailPub(t) ==
    /\ pc[t] = "send_fail_pub"
    /\ shm' = 0
    /\ writeLock' = NoThread
    /\ pc' = [pc EXCEPT ![t] = Ret(t)]
    /\ UNCHANGED <<present, phys, enabled, port, opened, live, connected,
                   buttons, frame>>

SendCmd(t) ==
    SendLock(t) \/ SendWrite(t) \/ SendFailClose(t) \/ SendFailDisc(t)
        \/ SendFailPub(t)

(***************************************************************************)
(* Mutated forms of device-thread steps (see PROJECT.json "mutants").      *)
(***************************************************************************)

\* The read-failure path without serial_close.
DReadFailNoClose ==
    /\ pc[Dev] = "read"
    /\ ~SerialReadOk(port)
    /\ connected' = FALSE
    /\ shm' = 0
    /\ pc' = [pc EXCEPT ![Dev] = "loop"]
    /\ UNCHANGED <<present, phys, enabled, port, opened, live, buttons,
                   frame, writeLock>>

\* The read-failure path closing the handle but leaving dev->port pointing
\* at it (serial_close without the reset to INVALID_HANDLE_VALUE).
DReadFailStaleHandle ==
    /\ pc[Dev] = "read"
    /\ ~SerialReadOk(port)
    /\ opened' = CloseSet(port) /\ live' = LiveSet(port)
    /\ connected' = FALSE
    /\ shm' = 0
    /\ pc' = [pc EXCEPT ![Dev] = "loop"]
    /\ UNCHANGED <<present, phys, enabled, port, buttons, frame,
                   writeLock>>

\* The read-failure path without clearing the published state.
DReadFailNoUnpublish ==
    /\ pc[Dev] = "read"
    /\ ~SerialReadOk(port)
    /\ opened' = CloseSet(port) /\ live' = LiveSet(port)
    /\ port' = INVALID
    /\ connected' = FALSE
    /\ pc' = [pc EXCEPT ![Dev] = "loop"]
    /\ UNCHANGED <<present, phys, enabled, buttons, shm, frame,
                   writeLock>>

\* The read-failure path leaving dev->connected set.
DReadFailKeepConnected ==
    /\ pc[Dev] = "read"
    /\ ~SerialReadOk(port)
    /\ opened' = CloseSet(port) /\ live' = LiveSet(port)
    /\ port' = INVALID
    /\ shm' = 0
    /\ pc' = [pc EXCEPT ![Dev] = "loop"]
    /\ UNCHANGED <<present, phys, enabled, connected, buttons,
                   frame, writeLock>>

(***************************************************************************)
(* The device thread, affine_thread_proc.                                  *)
(***************************************************************************)

(* affine_try_open.  Discovery fails while the board is absent (no state   *)
(* change: the thread sleeps and retries).  CreateFileW opens COM ports    *)
(* exclusively: it fails while another handle to the board is open, and   *)
(* serial_open then leaves dev->port INVALID.  On success the slot is     *)
(* connected and dev->buttons0/1, whatever they hold, are published.      *)
DTryOpen ==
    /\ pc[Dev] = "loop"
    /\ enabled
    /\ ~connected
    /\ FindComPort
    /\ IF SerialOpenOk /\ Handles \ opened # {}
         THEN LET h == CHOOSE x \in Handles \ opened : TRUE IN
              /\ port' = h
              /\ opened' = opened \cup {h}
              /\ live' = live \cup {h}
              /\ connected' = TRUE
              /\ pc' = [pc EXCEPT ![Dev] = "open_pub"]
         ELSE /\ port' = INVALID
              /\ UNCHANGED <<opened, live, connected, pc>>
    /\ UNCHANGED <<present, phys, enabled, buttons, shm, frame, writeLock>>

\* affine_try_open: affine_shm_write_buttons(dev->player, dev->buttons0, ...)
DOpenPub ==
    /\ pc[Dev] = "open_pub"
    /\ shm' = buttons
    /\ pc' = [pc EXCEPT ![Dev] = "send"]
    /\ UNCHANGED <<present, phys, enabled, port, opened, live, connected,
                   buttons, frame, writeLock>>

\* Already connected: go on to the board-info / heartbeat section.
DConnected ==
    /\ pc[Dev] = "loop"
    /\ enabled
    /\ connected
    /\ pc' = [pc EXCEPT ![Dev] = "send"]
    /\ UNCHANGED <<present, phys, enabled, port, opened, live, connected,
                   buttons, shm, frame, writeLock>>

(* A heartbeat or board-info request is due or not; affine_send_cmd returns *)
(* at once when the slot is not connected.                                *)
DSend ==
    /\ pc[Dev] = "send"
    /\ \/ pc' = [pc EXCEPT ![Dev] = "read"]
       \/ connected /\ pc' = [pc EXCEPT ![Dev] = "send_lock"]
    /\ UNCHANGED <<present, phys, enabled, port, opened, live, connected,
                   buttons, shm, frame, writeLock>>

\* serial_read on an attached handle returns nothing or the latest telemetry.
DReadOk ==
    /\ pc[Dev] = "read"
    /\ SerialReadOk(port)
    /\ \/ pc' = [pc EXCEPT ![Dev] = "loop"] /\ UNCHANGED frame
       \/ pc' = [pc EXCEPT ![Dev] = "update"] /\ frame' = phys
    /\ UNCHANGED <<present, phys, enabled, port, opened, live, connected,
                   buttons, shm, writeLock>>

(* serial_read fails on any other handle: the thread closes the port,      *)
(* disconnects, publishes no input and sleeps.                            *)
DReadFail ==
    /\ pc[Dev] = "read"
    /\ ~SerialReadOk(port)
    /\ opened' = CloseSet(port) /\ live' = LiveSet(port)
    /\ port' = INVALID
    /\ connected' = FALSE
    /\ shm' = 0
    /\ pc' = [pc EXCEPT ![Dev] = "loop"]
    /\ UNCHANGED <<present, phys, enabled, buttons, frame,
                   writeLock>>

\* affine_update_state: the decoded state, under dev->state_lock.
DUpdate ==
    /\ pc[Dev] = "update"
    /\ buttons' = frame
    /\ pc' = [pc EXCEPT ![Dev] = "update_pub"]
    /\ UNCHANGED <<present, phys, enabled, port, opened, live, connected, shm,
                   frame, writeLock>>

\* affine_update_state: affine_shm_write_buttons after the lock is released.
DUpdatePub ==
    /\ pc[Dev] = "update_pub"
    /\ shm' = buttons
    /\ pc' = [pc EXCEPT ![Dev] = "loop"]
    /\ UNCHANGED <<present, phys, enabled, port, opened, live, connected,
                   buttons, frame, writeLock>>

DevNext ==
    \/ DTryOpen \/ DOpenPub \/ DConnected \/ DSend \/ DReadOk
    \/ DReadFail \/ DUpdate \/ DUpdatePub \/ SendCmd(Dev)

(***************************************************************************)
(* The writer threads: affine_io_send_led_buttons/_billboard/_pwm.         *)
(***************************************************************************)

WriterBegin(w) ==
    /\ pc[w] = "idle"
    /\ connected
    /\ pc' = [pc EXCEPT ![w] = "send_lock"]
    /\ UNCHANGED <<present, phys, enabled, port, opened, live, connected,
                   buttons, shm, frame, writeLock>>

WriterNext(w) == WriterBegin(w) \/ SendCmd(w)

(***************************************************************************)
(* The environment: the board is unplugged or plugged in and its inputs    *)
(* change.  dev->enabled is fixed: affine_io_set_enabled is called only by *)
(* mai2_load_config, before the slots are initialised.                     *)
(***************************************************************************)

Unplug ==
    /\ present
    /\ present' = FALSE
    /\ live' = {}
    /\ UNCHANGED <<phys, enabled, port, opened, connected, buttons, shm,
                   frame, pc, writeLock>>

Plug ==
    /\ ~present
    /\ present' = TRUE
    /\ UNCHANGED <<phys, enabled, port, opened, live, connected, buttons, shm,
                   frame, pc, writeLock>>

Press ==
    /\ \E v \in BtnValues \ {phys} : phys' = v
    /\ UNCHANGED <<present, enabled, port, opened, live, connected, buttons,
                   shm, frame, pc, writeLock>>

EnvNext == Unplug \/ Plug \/ Press

Next ==
    \/ DevNext
    \/ \E w \in Writers : WriterNext(w)
    \/ EnvNext

Spec == Init /\ [][Next]_vars

(* The slot's thread loops forever (weak fairness).  The board streams     *)
(* telemetry continuously, so a read the thread keeps attempting           *)
(* eventually returns a frame (strong fairness: the read is only enabled   *)
(* once per loop).  The writers and the board itself may stop at any time. *)
ReadReturnsFrame == DReadOk /\ pc'[Dev] = "update"

FairSpec == Spec /\ WF_vars(DevNext) /\ SF_vars(ReadReturnsFrame)

(* A write that fails on an attached board (a timeout or a short write).  *)
(* A link that keeps doing so makes the slot reconnect forever, so the    *)
(* liveness properties below assume that it eventually stops.  No         *)
(* fairness can say "finitely often", so this is a premise of each.       *)
WriteTimeout ==
    \E t \in Threads : SendWrite(t) /\ SerialWriteOk(port)
                       /\ pc'[t] = "send_fail_close"

WritesSettle == <>[][~WriteTimeout]_vars

(* A thread inside affine_send_cmd keeps running until it returns (weak    *)
(* fairness), and a thread waiting for dev->write_lock gets it if the lock *)
(* is released again and again (strong fairness: a CRITICAL_SECTION wakes  *)
(* a waiter on release; starvation would need endless contention).        *)
SendFairness ==
    \A t \in Threads :
        /\ SF_vars(SendLock(t))
        /\ WF_vars(SendWrite(t) \/ SendFailClose(t) \/ SendFailDisc(t)
                    \/ SendFailPub(t))

WritersFairSpec == FairSpec /\ SendFairness

(***************************************************************************)
(* Properties.                                                             *)
(***************************************************************************)

(* Once the slot's thread has dropped the connection and no writer is      *)
(* still inside affine_send_cmd, the shared region reports no input: a    *)
(* read or write failure zeroes the published state (spec section 7), so  *)
(* another process never sees a button held by an absent board.           *)
PublishedClearedWhenDisconnected ==
    (pc[Dev] = "loop" /\ ~connected /\ \A w \in Writers : pc[w] = "idle")
        => shm = 0

(* No handle to the board stays open except dev->port: every handle the  *)
(* slot opened is closed before the slot opens another one.  A leaked     *)
(* handle keeps the COM port, which CreateFileW opens exclusively, busy.  *)
HandleNotLeaked == opened \subseteq {port}

(* If the board stays plugged in, the slot stays enabled and the input    *)
(* stays at v, then eventually both the shared region and                 *)
(* affine_io_get_state report v for good: the thread reconnects after any *)
(* failure and keeps publishing (once writes stop timing out).            *)
StableInputPublished ==
    \A v \in BtnValues :
        <>[](present /\ enabled /\ phys = v) /\ WritesSettle
            => <>[](shm = v /\ GetState = v)

(* Frames of different threads never interleave on the wire: at most one  *)
(* thread is between serial_write and the release of dev->write_lock.     *)
WriteExclusive ==
    \A s, t \in Threads :
        (s # t /\ pc[s] \in SendPCs \ {"send_lock"}) => pc[t] \notin SendPCs \ {"send_lock"}

(* Every call of affine_send_cmd returns: a thread that starts sending, the *)
(* slot's thread or an LED writer, is never left waiting for               *)
(* dev->write_lock forever, on the success path or on the error path.     *)
SendCompletes ==
    \A t \in Threads : (pc[t] \in SendPCs) ~> (pc[t] \notin SendPCs)

=============================================================================
