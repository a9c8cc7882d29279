# TLA+ models of Affine IO

These modules model the connection-and-protocol engine of Affine IO, in
`src/mai2io/src/affine_io.c` and `src/common/src/serial_win.c`. That engine is
the back end of the mai2 IO DLL (`src/mai2io/src/mai2io.c`). The modules are
checked with TLC. Each module is translated from the C source, and
`PROJECT.json` maps every modelling definition to the lines it stands for.

## The system

| Part | Source | State | Operations |
|---|---|---|---|
| Connection supervisor (one per player slot) | `affine_io.c` `affine_thread_proc`, `affine_try_open`, `affine_close` | `connected`, `enabled`, `port.handle`, `rx_buf/rx_len`, timers | open, board-info/heartbeat block, read, read failure |
| Port writes | `affine_send_cmd` | `write_lock` (CRITICAL_SECTION) | build frame, lock, write, failure path (close, `connected=false`, `rx_len=0`, zero shm), unlock |
| Frame codec, TX | `affine_send_cmd` | none | `FF cmd len payload sum`, payload at most 60 bytes |
| Frame codec, RX | `affine_rx_process`, `affine_rx_consume`, `affine_rx_try_parse` | `rx_buf`, `rx_len` | 14-byte telemetry `FF 01 .. 0A`, board info `FF F0 len .. sum`, 9-byte legacy `28 .. 29`, drop one byte otherwise |
| Board-info handshake | `affine_thread_proc` lines 527-550, `affine_handle_board_info` | `board_info_pending/logged/unknown`, `start_ms`, `request_ms` | settle delay 500 ms, timeout 1000 ms, give-up after 3000 ms |
| State publisher | `affine_update_state`, `affine_shm_write_buttons`, `affine_io_get_state` | `buttons0/1` under `state_lock`; 2 bytes per slot in a named shared mapping | publish on connect, on every frame, zero on failure |
| Serial primitives | `serial_win.c` | the OS handle | exclusive `CreateFileW` (share mode 0), `serial_close`, read/write with 20-50 ms timeouts |
| mai2 poll | `mai2io.c` `mai2_io_poll`, `mai2_apply_affine_buttons` | `mai2_opbtn`, `mai2_player1_btn`, coin latch `mai2_affine_coin` | called by the game once per frame; reads `affine_io_get_state(1)` |
| mai2 LED fade engine | `mai2io.c` `mai2_io_led_gs_update`, `mai2_io_led_thread_proc` | `mai2_led_fades`, `mai2_led_force_update` under `mai2_led_cs` | the game starts fades; the LED thread interpolates every 8 ms and sends changed boards |
| Capture, logging, stub families | `affine_capture_*`, `dprintf.c`, `aimeio.c`, `chuniio.c`, `mercuryio.c`, `affine_serial.c` | log files, log gate | text I/O; the stubs return `E_NOTIMPL` |

Several threads run at once on each slot:
- the slot thread, which reads, parses, sends heartbeats and board-info requests, and reconnects;
- the mai2 LED thread and the game thread, which both call `affine_send_cmd` for LED frames;
- the game thread, which also reads the state through `affine_io_get_state`.

`write_lock` serialises only the write itself. The failure path of a write
clears `connected` and closes the port. The slot thread does the same when a
read fails. Neither path takes a lock that the other path respects.

## Modules

- **AffineDevice**: one slot, its slot thread and a set of `Writers` (LED
  senders).
  - State: the port handle (`port`), the set of handles the process holds
    (`opened`), which handles the OS still serves (`live`), `connected`,
    `enabled`, the decoded `buttons`, the published `shm`, a per-thread `pc`,
    and `writeLock`.
  - Steps: each step of the slot thread is an action: `DTryOpen`
    and `DOpenPub`, `DSend` (heartbeat or handshake write), `DReadOk` and
    `DReadFail`, `DUpdate` and `DUpdatePub`. Every thread runs `affine_send_cmd`
    as the steps `SendLock`, `SendWrite`, `SendFailClose`, `SendFailDisc` and
    `SendFailPub`.
  - Environment: unplug, plug and the board changing its buttons.
    `enabled` is chosen in `Init` and never changes: the only caller of
    `affine_io_set_enabled` is `mai2_load_config`, which runs before the
    slots start. A disabled slot's thread only sleeps, so its
    close-while-connected branch (lines 509-518) cannot run.
  - `SendWrite` fails on a dead handle, and may also fail on a live one
    (`WriteFile` error, or a short write at the write timeout,
    serial_win.c 250-256).
  - The serial calls are predicates over `opened` and `live`. `serial_open`
    fails while the process still holds a handle to the port (the port is
    opened exclusively) and then leaves `port = INVALID`.
- **Mai2Poll**: `mai2_io_poll` for player 1, composed with `AffineDevice`
  (it EXTENDS it and adds the game thread's `Poll` to the slot's steps).
  - State: `opbtn`, `p1Btn`, `coinLatch`, and two history counters:
    `coinEvents` (polls that reported `OPBTN_COIN`) and `coinPresses`
    (counted by `SlotStep`). A press is a rising edge of the board's coin
    input, or a reconnect with the coin held. The zeroed state of the
    disconnect is a low sample, after which spec 8 allows a new event.
  - `Poll` reads the locked decoded state while connected and the shared
    region otherwise (`GetState`), maps the buttons with
    `ApplyAffineButtons`, and runs the coin latch.
  - `started` is `affine_started` in the polling process. `Mai2IoInit`
    (the exe-name check of `mai2_io_init`) sets it in `Sinmai.exe`, where
    the slots run. Any other process skips device init, and its
    `affine_io_get_state` always reads the shared region written by the
    owner (`AffineIoGetState`, `HaveState`). Init chooses either, so each
    poll run covers both deployments.
  - A slot value is the byte pair `buttons0 + 256 * buttons1`; the values
    {0, 2048, 257} are "nothing", "coin" and "button 1 plus select".
- **Mai2LedFade**: the LED fade engine.
  - State: the fade of one LED group and one colour channel per board
    (`fades`: start, target, current, start time, duration), `force`,
    whether the slot would accept a frame (`linkUp`), what the board last
    received (`shown`), and each thread's program counter and `now`.
  - Both threads read `GetTickCount64` before `EnterCriticalSection`:
    `LedSample`/`LedTick` and `GsSample`/`GsApply`. The locked bodies are
    single actions, as `mai2_led_cs` makes them.
  - `Interpolate` is the float formula truncated by the `uint8_t` cast.
    `Outputs` is the set of colours a tick can compute. When the tick's
    `now` is before the fade's start time, the uint64 difference wraps, the
    cast is undefined, and the result is any value of `UBResults` ({0}: any
    float of 2^31 or more is a multiple of 256, so its low byte is 0).
- **AffineFrame**: pure operators.
  - `EncodeFrame` with a recursive uint8 `Checksum`.
  - `DecodeButtons`, the nibble merge.
  - `EncodeIoStatus` and `DecodeIoStatus`.
  - `MCAffineFrame` checks them against a `FoldLeft` reference sum over
    payloads of 0, 3, 24, 60 and 61 bytes, and checks the io_status round
    trip.
- **AffineRxParser**: the receive path.
  - The board appends whole frames to `wire`. The line may insert or drop
    bytes, bounded by `MaxFaults`.
  - `SerialRead` moves 1..64 waiting bytes into the thread's `inbuf`.
    `RxProcess` runs one iteration of `affine_rx_process`: it appends one byte,
    resets a full accumulator, and runs the `TryParse` loop.
  - `Scan`, in the constant module **AffineRxScan**, is the case analysis
    of `affine_rx_try_parse` for the head of the accumulator: wait, drop
    one byte, or take a frame of n bytes.
  - `decoded` records what was handed to `affine_update_state` or
    `affine_handle_board_info`.
- **AffineRxRace**: the receive path against the failure path of a write.
  - The slot thread's steps are its accesses to `rx_len`:
    - `Load` covers the full check and the load of the index of
      `rx_buf[rx_len++]`;
    - `Store` stores the byte and the index plus one;
    - `Parse` runs one loop iteration of `affine_rx_try_parse` (with `Scan`);
    - `ConsumeCheck` is `count >= rx_len` of `affine_rx_consume`;
    - `ConsumeShift` is its `memmove` and `rx_len -= count`.
  - `WriteFail` is `affine_send_cmd`'s failure path run by the LED or game
    thread. It sets `connected = false` and `rx_len = 0` under
    `write_lock`, which the parse never takes.
  - The race is undefined behaviour. The subtraction either reuses the value
    the check loaded (`reg`) or reloads `rx_len`, and the model allows both.
  - `size_t` is taken modulo `SizeMod` = 2^30. Any width wraps alike.
  - `Reopen` is the read failure on the closed port followed by
    `affine_try_open`, which sets `rx_len = 0` again.
- **AffineHandshake**: the board-info block of one slot.
  - The clock is a modular `GetTickCount`, where 1 unit is 250 ms. All the
    code's constants (500, 1000, 3000 ms) are multiples of that unit. DWORD
    subtraction becomes `Elapsed`, modulo `Wrap`. A timestamp of 0 is the
    code's sentinel.
  - The thread alternates `Block` (`FirstRequest`, `RetryRequest` or
    `NoRequest`) and a read (`ReadNothing`, or `ReadReply` applying
    `HandleBoardInfo`).
  - The clock `Tick`s only after `Block` has run in the current unit,
    because the loop runs every ~20 ms (the read timeout).
  - `TryOpen` keeps the loop's `now` (line 506) as `iterNow`.
    - The clock may advance one unit before try_open's own `GetTickCount`
      (line 262), which becomes `startMs`.
    - The `Block` of that iteration compares with `iterNow`, as the code
      does.
    - `(DWORD)(now - start_ms)` then wraps, and the first request goes out
      at once.
  - A board's answer is chosen per connection: valid, malformed (ver_len 0),
    empty (len 0), or silent.
- **BoardInfoOutcome**: the abstract handshake of spec 4.1 step 4 and 4.3.
  - State: `link`, `firmware`, and `outcome` (pending, known, none,
    unknown). There is no clock and there are no requests.
  - Steps: `Connect`, `Identify` (valid answer, also after unknown), `Reject`
    (malformed answer), `GiveUp` and `Drop`. Weak fairness on ending the
    handshake.
  - `AffineHandshake` implements it: `Abstract` instantiates it with
    `link <- connected` and `outcome <- Outcome`, the reading of the
    `board_info_pending/logged/unknown` flags. `BoardInfoRefined`
    (`Abstract!Spec`) is a property of the handshake run. Its liveness part
    holds because the give-up step sends one more request, so a valid
    board's late answer still arrives.

## Runs

| Run | Checks | Result |
|---|---|---|
| poll_alone | `PollTypeOK`, `HandleNotLeaked`, `PublishedClearedWhenDisconnected`, `StableInputPublished`, `HeldCoinSettles`, `GameSeesStableInput` (slot thread and poll, either deployment, 2 handle values, values {0, coin, button+select}, shm mapped, read failures and write timeouts) | pass |
| device_writers | `WriteExclusive`, `SendCompletes` (two writers plus the slot thread) | pass |
| device_leak | `HandleNotLeaked` with one writer | violation: a writer's late `connected=false` after a reopen leaks the exclusive handle |
| device_stalepub | `PublishedClearedWhenDisconnected` with one writer | violation: the publish at line 460 overwrites the writer's zeroing |
| poll_phantom | `CoinEventsMatchPresses` | violation: the coin is pressed, decoded and reported once, then released. A read failure zeroes the published state, and the next poll clears the latch. The slot reconnects with the coin low, and the poll reads the previous connection's `buttons` (try_open republishes them to shared memory too) and reports a second `OPBTN_COIN`. Spec 4.1 step 2 says a new connection publishes zeroed state |
| codec | `FrameChecksumValid` (5 commands, payload lengths 0/3/24/60/61, 4 fill patterns), `IoStatusRoundTrip` (both players, all 6-bit values), `FrameFits` (no frame past `frame[64]`, every caller's length sent) | pass |
| parser | `DecodesExactlyWhatWasSent`, `RxNeverFull` (2 frames of 4 shapes, any read split, 2 inserted 0xF0 or dropped bytes, accumulator scaled to 16) | pass |
| parser_spurious | `NoSpuriousFrames` (one garbage byte) | violation: `28` + telemetry with touch byte `29` yields a bogus legacy frame |
| handshake_resolves | `HeartbeatsResumeInTime` (pending clears within 3000 ms plus one timeout of the connect), `BoardInfoRefined` (all four board answers, clock moving during try_open) | pass |
| rx_underflow | `RxLenInBounds` (reads of idle telemetry, with or without a stray leading `FF`; one failing write) | violation: a stray `FF` then telemetry is dropped one byte at a time. `affine_rx_consume` passes its check with `rx_len` 3, and a failing LED write sets `rx_len = 0`. The subtraction reloads 0 and `rx_len` wraps to 2^30 - 1 (2^64 - 1 on a 64-bit build). The next parse reads and memmoves past `rx_buf` |
| led_converge | `TypeOK`, `BoardConverges` (jumps and fades between levels 64 and 255, the link going up and down) | pass |
| led_glitch | `CurrentWithinFade` | violation: the LED thread reads `now`, the game starts a fade at a later time, and the tick computes a negative elapsed time; the LED is set and sent black |

Four divergences from the spec have no run of their own:
- The payload limit of `affine_send_cmd` is 60 bytes (a 64-byte frame less
  header and checksum); a 61-byte payload is refused. `FrameFits` checks
  that no frame overruns the buffer and that no caller's length is refused.
- `board_info_request_ms == 0` means "no request yet". A request sent in
  the millisecond when `GetTickCount()` is 0 stores the sentinel, and the
  next iteration sends the first request again. Spec 3 says one request is
  outstanding at a time. This happens once in 49.7 days, and its effect is
  one extra request, so the run slot went to `rx_underflow`.
- The spec (4.1 step 4 and 8) says the board-info request is retried
  once, and so does the comment at line 538. The code retries every
  1000 ms until the 3000 ms limit, with requests at 500, 1500, 2500 and
  3500 ms.
- The spec (8) says no request is sent before the settle delay. When the
  clock moves between the loop's `GetTickCount` (line 506) and try_open's
  (line 262), the first request goes out in the same iteration as the
  connect. The retries then follow at about 1000, 2000, 3000 and 4000 ms.
  `HeartbeatsResumeInTime` checks that the give-up still comes by 4000 ms
  on both paths.

LED frames sent while the slot is disconnected are dropped and never resent:
the LED thread sends only on a change or a forced update. After a replug the
board keeps its old colour until the game commands a new one.
`BoardConverges` is therefore stated for a board that loses no frame.

The spec's button-decode example (section 8: `(05, C0, 20)` gives core
`0x45`) contradicts its own nibble rule, which the code implements and which
gives `0xC5`; the code, not the example, is what `DecodeButtons` models.

Every property of a passing run has a mutant in `PROJECT.json`: a plausible
bug in the mapped code, which TLC must then report.

## Bounds

- **Handles.** Two handle values are enough for the handle-reuse and leak
  cases: one is held and the other is the reopen.
- **Buttons.** The button values {0, 1} separate "no input" from "input".
- **Writers.** Two writers and the slot thread give three contenders for
  `write_lock`.
- **Parser frames.** The parser runs use one frame of each shape the parser
  knows: idle telemetry, telemetry with touch byte 0x29, legacy, and board
  info. Two frames are enough to split a frame across reads at every offset
  and to put one frame behind a corrupted one.
- **Parser line faults.** The parser run shrinks the accumulator from 128 to 16
  bytes. That keeps the "reply would not fit" branch and the overflow reset
  reachable within two frames. The parse code is the same for any size of at
  least 14.
- **Handshake clock.** The handshake clock wraps at 21 units (5.25 s). That is
  more than the longest interval the code compares (3000 ms plus one timeout),
  so every comparison the code makes is exact.
- **Counters.** Counters are capped at 4 (3 for the coin counters, enough
  for a press, its phantom and one more).
- **Clock skew in try_open.** The clock moves at most one unit (250 ms)
  during try_open. Any positive skew makes the first comparison wrap, so
  one unit shows the early request. A try_open slower than 250 ms would
  add a retry per 1000 ms of delay and is not modelled.
- **Receive race.** The race run keeps the real 128-byte accumulator and
  allows two reads of 14 or 15 bytes and one failing write. That is the
  shortest input that leaves bytes behind a dropped one.
- **LED clock.** The LED clock counts units of 32 ms up to 8 units, and the
  game makes at most 2 calls. Speed 255 gives a 128 ms (4-unit) fade, whose
  progress values are exact binary fractions, and speed 0 a jump. Two calls
  cover a jump followed by a fade and a fade restarted mid-way. One board
  with one group and channel stands for all: each runs the same code, and
  a board is sent when any of its groups needs it. Levels {64, 255} give a
  rising and a falling fade.

## Fairness

- **Slot thread.** It gets weak fairness: it never blocks except in `Sleep`
  and bounded read timeouts.
- **Reads that return a frame.** These get strong fairness in
  `StableInputPublished`, because the board streams telemetry continuously. A
  read that keeps failing is an unplug, and the environment is not fair.
- **Write timeouts.** A write timeout on an attached board is assumed to
  stop eventually (`WritesSettle == <>[][~WriteTimeout]_vars`). A link that
  times out writes again and again makes the slot reconnect forever. No
  fairness condition says "finitely often", so this is a premise of
  `StableInputPublished`, `HeldCoinSettles` and `GameSeesStableInput`.
- **Send path.** In `SendCompletes`, entering `write_lock` is strongly fair,
  because Windows critical sections do not starve a waiter forever. The other
  send steps are weakly fair.
- **Handshake.** Time advances (`WF(Tick)`). A reply that can be read is read
  (`SF(ReadReply)`).
- **mai2.** The game calls `mai2_io_poll` every frame (`WF(Poll)`). The LED
  thread loops with `Sleep(8)` and is never stopped (`WF(LedThread)`); a
  game call that has read the clock leaves `mai2_led_cs` (`WF(GsApply)`);
  the game is not obliged to call again.
- **Environment.** Unplugging and plugging are never assumed to happen.

## Not modelled

- **The receive race in `AffineDevice`.** `AffineRxRace` has only the
  slot's `rx_len` accesses and a failing write. Composing the full parser
  with `AffineDevice` gives a state space beyond TLC's reach.
- **Torn shared-memory writes** (affine_io.c:911). The reader of the shared
  region is another process, and its reads are not steps of this program.
  Spec 6 accepts the risk. A torn pair mixes two publications byte by byte,
  and each byte is a value the slot did publish.
- **Concurrent `affine_io_init`.** `mai2_io_init` and `mai2_io_led_init`
  both call it, and its `affine_started` check is unlocked. Two callers on
  two threads would initialise each slot twice and start two slot threads
  on one record. The callers are in the host game, outside this
  repository, so whether two threads ever race here cannot be known.
- **Enabling a slot at runtime.** `affine_io_set_enabled` would take effect
  at once once the slots run, but nothing in this repository calls it after
  init, so `enabled` is fixed per run.
- **Touch.** `affine_io_set_touch_enabled` returns without storing
  anything while `affine_started` is false, and init's memset clears
  `touch_enabled`. A `mai2_io_touch_update` made before init is therefore
  lost, whereas `affine_io_set_enabled` keeps its value in
  `affine_enabled[]`. The order of these calls is the host game's. No
  module has the touch path, and every run slot is taken by a
  button, coin or connection question.
- **`filename` in `mai2_io_init`** is uninitialised when
  `GetModuleFileNameA` fails. `Mai2IoInit` lets the comparison go either
  way; a crash in `_stricmp` is outside the model.
- **`affine_shm_map`** maps a slot's region lazily with no lock. The slot
  thread and the game thread may both map it, and one view and handle leak.
  The data is the same named object, so no state diverges.
- **Init and shutdown** (`affine_io_init`, `affine_io_shutdown`'s memset of a
  device the LED thread may be inside), and the uninitialised `mai2_led_cs`
  before `mai2_io_led_init`. Both are undefined behaviour on memory the
  models do not represent.
- **LED board index.** An unchecked board index writes past `mai2_led_fades`.
  The game passes 0 or 1.
- **Two LED boards, 8 groups, 3 channels, player 2.** These are the same
  code over more data. Two boards took the LED run past its time budget.
- **Not yet done:** an abstract "slot" specification refined by
  `AffineDevice` (connected or not; the published state is the last frame or
  zero). Its published state is not a function of the slot's: the two
  violations `device_stalepub` and `poll_phantom` are exactly where it fails.

Some parts are left out and will stay out:
- SetupAPI enumeration, DCB setup and the shared mapping's creation are OS
  calls, reduced to whether they succeed.
- Capture files, `dprintf` and the poll log lines are text I/O.
- The billboard, FET and camera/DC functions of mai2io are stubs with no
  state.
- The aime, chuni and mercury families are out of scope in the spec. Each
  calls `affine_serial_ensure` with product id 0, so
  `affine_serial_try_open` always fails at its 5000 ms log gate. They never
  connect, and their only behaviour is a rate-limited log line.
- Touch bytes and the touch callback are not modelled. The properties are
  about buttons and connection state.
