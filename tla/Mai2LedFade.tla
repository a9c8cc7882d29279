----------------------------- MODULE Mai2LedFade -----------------------------
(***************************************************************************)
(* The LED fade engine of src/mai2io/src/mai2io.c: the game thread's       *)
(* mai2_io_led_gs_update, which starts a fade per LED group under          *)
(* mai2_led_cs, and mai2_io_led_thread_proc, which every 8 ms interpolates *)
(* every fade and sends a board's colours when they changed or a jump was  *)
(* requested.  Frames go out through affine_send_cmd, which drops them     *)
(* while the slot is not connected.                                        *)
(*                                                                         *)
(* One LED group and one colour channel stand for the 8 groups x 3         *)
(* channels of a board: every group and channel runs the same arithmetic   *)
(* and a board is sent when any of them needs it.  GetTickCount64 counts   *)
(* in units of TickMs; the LED thread may run several times per unit.     *)
(* Both threads read the clock before EnterCriticalSection; the locked     *)
(* bodies are single actions.                                              *)
(***************************************************************************)
EXTENDS Naturals

CONSTANTS
    TickMs,     \* milliseconds per clock unit
    Boards,     \* LED boards (the board argument, 0 and 1 on a cabinet)
    Levels,     \* channel values the game commands
    Speeds,     \* speed bytes the game commands (rgb[i*4+3])
    UBResults,  \* what (uint8_t) of an out-of-range float yields on the build
    MaxTime,    \* bound on the clock
    MaxCmds     \* bound on gs_update calls

\* duration = (4095 / speed) * 8 ms, in clock units.
Duration(speed) == IF speed = 0 THEN 0 ELSE ((4095 \div speed) * 8) \div TickMs

MaxDuration == LET ds == {Duration(s) : s \in Speeds}
               IN CHOOSE d \in ds : \A e \in ds : e <= d

(* The float arithmetic is exact when the duration is a power of two (the *)
(* progress is then a short binary fraction), as it is for speed 255.     *)
ASSUME \A s \in Speeds \ {0} : /\ ((4095 \div s) * 8) % TickMs = 0
                                 /\ Duration(s) \in {1, 2, 4, 8, 16, 32, 64}
ASSUME Levels \subseteq 0..255 /\ UBResults \subseteq 0..255

Byte == 0..255

VARIABLES
    now,       \* GetTickCount64() / TickMs
    fades,     \* mai2_led_fades[board][group], one group per board
    force,     \* mai2_led_force_update[board]
    linkUp,    \* affine_send_cmd would write: affine_started and slot connected
    shown,     \* the colour the board last received
    ledPc,     \* the LED thread: before GetTickCount64, or holding its reading
    ledNow,    \* the LED thread's `now`
    gamePc,    \* the game thread inside mai2_io_led_gs_update
    gameNow,   \* the game thread's `now`
    gameCmd,   \* the command being applied: board, colour, speed
    cmds,      \* gs_update calls made
    lost       \* history: a frame to the board was dropped

vars == <<now, fades, force, linkUp, shown, ledPc, ledNow, gamePc, gameNow,
          gameCmd, cmds, lost>>

Fade == [start : Byte, target : Byte, current : Byte,
         startTime : 0..MaxTime, duration : 0..MaxDuration]

Cmd == [board : Boards, level : Levels, speed : Speeds]

\* The locals of a thread outside its call hold no value; 0 stands for it.
NoCmd == CHOOSE c \in Cmd : TRUE

TypeOK ==
    /\ now \in 0..MaxTime /\ ledNow \in 0..MaxTime /\ gameNow \in 0..MaxTime
    /\ fades \in [Boards -> Fade]
    /\ force \in [Boards -> BOOLEAN] /\ linkUp \in [Boards -> BOOLEAN]
    /\ shown \in [Boards -> Byte] /\ lost \in [Boards -> BOOLEAN]
    /\ ledPc \in {"sample", "locked"} /\ gamePc \in {"idle", "apply"}
    /\ gameCmd \in Cmd /\ cmds \in 0..MaxCmds

\* Static storage is zero: every fade is black with duration 0.
Init ==
    /\ now = 0 /\ ledNow = 0 /\ gameNow = 0
    /\ fades = [b \in Boards |-> [start |-> 0, target |-> 0, current |-> 0,
                                  startTime |-> 0, duration |-> 0]]
    /\ force = [b \in Boards |-> FALSE]
    /\ linkUp \in [Boards -> BOOLEAN]
    /\ shown = [b \in Boards |-> 0]
    /\ lost = [b \in Boards |-> FALSE]
    /\ ledPc = "sample" /\ gamePc = "idle"
    /\ gameCmd = NoCmd /\ cmds = 0

(***************************************************************************)
(* The interpolation of the LED thread.                                    *)
(***************************************************************************)

\* Mutated form: target - start taken as a uint8_t, wrapping when it falls.
InterpolateWrapped(s, t, e, d) == s + (((t - s) % 256) * e) \div d

(* (uint8_t)(start + (target - start) * progress) with progress = e / d,  *)
(* 0 <= e < d: the cast truncates toward zero, which is a floor for a     *)
(* rising fade and a ceiling of the distance for a falling one.           *)
Interpolate(s, t, e, d) ==
    IF t >= s THEN s + ((t - s) * e) \div d
              ELSE s - ((s - t) * e + d - 1) \div d

(* The colours a tick at time t may compute.  When t is before start_time *)
(* the uint64 difference now - start_time wraps, progress is about 2^50,  *)
(* and the cast of the out-of-range float is undefined: UBResults.        *)
Outputs(f, t) ==
    IF f.duration = 0 \/ t >= f.startTime + f.duration THEN {f.target}
    ELSE IF t < f.startTime
         THEN IF f.start = f.target THEN {f.start} ELSE UBResults
         ELSE {Interpolate(f.start, f.target, t - f.startTime, f.duration)}

(* affine_io_send_led_buttons(board + 1, payload): the frame reaches the   *)
(* board if the slot is connected and is silently dropped otherwise.       *)
Deliver(b, colour) ==
    /\ shown' = [shown EXCEPT ![b] = IF linkUp[b] THEN colour ELSE @]
    /\ lost' = [lost EXCEPT ![b] = @ \/ ~linkUp[b]]

(***************************************************************************)
(* The LED thread, mai2_io_led_thread_proc.                                *)
(***************************************************************************)

\* now = GetTickCount64(), then EnterCriticalSection(&mai2_led_cs).
LedSample ==
    /\ ledPc = "sample"
    /\ ledNow' = now
    /\ ledPc' = "locked"
    /\ UNCHANGED <<now, fades, force, linkUp, shown, gamePc, gameNow, gameCmd,
                   cmds, lost>>

(* The locked body for every board: compute the output, note whether it  *)
(* changed, store it as current; send if it changed or a jump is forced,  *)
(* and clear the force flag; then Sleep(8).                               *)
LedTick ==
    /\ ledPc = "locked"
    /\ \E out \in [Boards -> UNION {Outputs(fades[b], ledNow) : b \in Boards}] :
         /\ \A b \in Boards : out[b] \in Outputs(fades[b], ledNow)
         /\ LET send(b) == out[b] # fades[b].current \/ force[b] IN
            /\ fades' = [b \in Boards |-> [fades[b] EXCEPT !.current = out[b]]]
            /\ force' = [b \in Boards |-> IF send(b) THEN FALSE ELSE force[b]]
            /\ shown' = [b \in Boards |->
                           IF send(b) /\ linkUp[b] THEN out[b] ELSE shown[b]]
            /\ lost' = [b \in Boards |-> lost[b] \/ (send(b) /\ ~linkUp[b])]
    /\ ledPc' = "sample" /\ ledNow' = 0
    /\ UNCHANGED <<now, linkUp, gamePc, gameNow, gameCmd, cmds>>

(***************************************************************************)
(* The game thread, mai2_io_led_gs_update(board, rgb).                     *)
(***************************************************************************)

(* The capture file is written, then now = GetTickCount64() is read before *)
(* EnterCriticalSection.  A command is issued only while its fade can end *)
(* before the clock bound.                                                 *)
GsSample ==
    /\ gamePc = "idle" /\ cmds < MaxCmds
    /\ \E c \in Cmd :
         /\ now + Duration(c.speed) <= MaxTime
         /\ gameCmd' = c
    /\ gameNow' = now
    /\ gamePc' = "apply"
    /\ cmds' = cmds + 1
    /\ UNCHANGED <<now, fades, force, linkUp, shown, ledPc, ledNow, lost>>

(* Mutated form: a jump updates the fade but neither forces nor sends a    *)
(* frame (send_now dropped).                                              *)
GsApplyNoSendNow ==
    /\ gamePc = "apply"
    /\ LET b == gameCmd.board
           f == fades[b]
           jump == gameCmd.speed = 0
       IN /\ fades' = [fades EXCEPT ![b] =
                         [start |-> f.current, target |-> gameCmd.level,
                          startTime |-> gameNow, duration |-> Duration(gameCmd.speed),
                          current |-> IF jump THEN gameCmd.level ELSE f.current]]
          /\ UNCHANGED <<force, shown, lost>>
    /\ gamePc' = "idle" /\ gameNow' = 0 /\ gameCmd' = NoCmd
    /\ UNCHANGED <<now, linkUp, ledPc, ledNow, cmds>>

(* The locked body: the fade restarts from the current colour at the      *)
(* sampled time; speed 0 jumps (current := target), forces the next tick  *)
(* to send, and sends the board's colours at once.                        *)
GsApply ==
    /\ gamePc = "apply"
    /\ LET b == gameCmd.board
           f == fades[b]
           jump == gameCmd.speed = 0
       IN /\ fades' = [fades EXCEPT ![b] =
                         [start |-> f.current, target |-> gameCmd.level,
                          startTime |-> gameNow, duration |-> Duration(gameCmd.speed),
                          current |-> IF jump THEN gameCmd.level ELSE f.current]]
          /\ IF jump
               THEN /\ force' = [force EXCEPT ![b] = TRUE]
                    /\ Deliver(b, gameCmd.level)
               ELSE UNCHANGED <<force, shown, lost>>
    /\ gamePc' = "idle" /\ gameNow' = 0 /\ gameCmd' = NoCmd
    /\ UNCHANGED <<now, linkUp, ledPc, ledNow, cmds>>

(***************************************************************************)
(* Time and the link.                                                      *)
(***************************************************************************)

Tick ==
    /\ now < MaxTime
    /\ now' = now + 1
    /\ UNCHANGED <<fades, force, linkUp, shown, ledPc, ledNow, gamePc, gameNow,
                   gameCmd, cmds, lost>>

\* The slot connects or disconnects (replug, read or write failure).
Link(b) ==
    /\ linkUp' = [linkUp EXCEPT ![b] = ~@]
    /\ UNCHANGED <<now, fades, force, shown, ledPc, ledNow, gamePc, gameNow,
                   gameCmd, cmds, lost>>

LedThread == LedSample \/ LedTick
GameThread == GsSample \/ GsApply

Next == LedThread \/ GameThread \/ Tick \/ \E b \in Boards : Link(b)

Spec == Init /\ [][Next]_vars

(* The LED thread loops forever and the clock runs; a game call that has  *)
(* read the clock finishes.  The game is not obliged to call again, and   *)
(* the link is environment.                                               *)
FairSpec == Spec /\ WF_vars(LedThread) /\ WF_vars(Tick) /\ WF_vars(GsApply)

(***************************************************************************)
(* Properties.                                                             *)
(***************************************************************************)

(* Spec 4.4 and 8: the interpolated colour stays between the fade's start *)
(* and target; it never leaves that interval, whatever the order in which *)
(* the LED thread and gs_update read the clock and take mai2_led_cs.      *)
CurrentWithinFade ==
    \A b \in Boards :
        LET f == fades[b] IN
        \/ f.start <= f.current /\ f.current <= f.target
        \/ f.target <= f.current /\ f.current <= f.start

(* If no frame to a board is ever dropped, the board ends up showing the  *)
(* colour the game last commanded, for good: after a jump the forced or   *)
(* immediate send, after a fade the sends of the changing ticks.          *)
BoardConverges ==
    \A b \in Boards :
        [](~lost[b]) => <>[](shown[b] = fades[b].target)

=============================================================================
