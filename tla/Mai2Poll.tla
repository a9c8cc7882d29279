------------------------------- MODULE Mai2Poll -------------------------------
(***************************************************************************)
(* mai2_io_poll of src/mai2io/src/mai2io.c, run by the game thread against *)
(* the player-1 slot of AffineDevice: it reads affine_io_get_state(1),     *)
(* maps the bytes to the game's button words and turns the board's coin    *)
(* bit into a one-shot OPBTN_COIN with the latch mai2_affine_coin.         *)
(*                                                                         *)
(* A slot value v of AffineDevice is the pair of bytes buttons0 +          *)
(* 256 * buttons1; the shared region carries buttons1 through the         *)
(* io_status encoding, whose round trip MCAffineFrame checks, so shm holds *)
(* the same pair.  Player 2 only adds TEST/SERVICE and its own button word *)
(* and never touches the coin latch; it is left out.  The "poll state"    *)
(* log lines and their last_* copies are logging only.                    *)
(*                                                                         *)
(* The poll may run in the process that owns the slots (Sinmai.exe, where *)
(* mai2_io_init starts them) or in another one, which skips device init   *)
(* and reads the owner's shared region: started is affine_started as the  *)
(* polling process sees it.                                                *)
(***************************************************************************)
EXTENDS AffineDevice

CONSTANTS
    ShmMapped,  \* affine_shm_map succeeds (CreateFileMapping on the named region)
    MaxCoins    \* cap of the coin counters

VARIABLES
    started,     \* affine_started in the polling process
    opbtn,       \* mai2_opbtn
    p1Btn,       \* mai2_player1_btn
    coinLatch,   \* mai2_affine_coin
    coinEvents,  \* history: polls that reported OPBTN_COIN (capped)
    coinPresses  \* history: coin rising edges the poll may report (capped)

pollVars == <<started, opbtn, p1Btn, coinLatch, coinEvents, coinPresses>>
allVars == <<vars, pollVars>>

\* The bit layout of mai2io.h and of the Affine ext byte.
OPBTN_TEST == 1
OPBTN_SERVICE == 2
OPBTN_COIN == 4
GAMEBTN_SELECT == 256
EXT_SELECT_BIT == 0
EXT_TEST_BIT == 1
EXT_SERVICE_BIT == 2
EXT_COIN_BIT == 3

HasBit(x, i) == (x \div 2^i) % 2 = 1
Buttons0(v) == v % 256
Buttons1(v) == v \div 256
CoinHeld(v) == HasBit(Buttons1(v), EXT_COIN_BIT)

CapAt(n) == IF n < MaxCoins THEN n + 1 ELSE MaxCoins

(* mai2_apply_affine_buttons: GAMEBTN_1..8 are bits 0..7, so the eight     *)
(* tests copy buttons0 bit for bit; ext bit 0 adds GAMEBTN_SELECT.         *)
ApplyAffineButtons(b0, b1) ==
    b0 + (IF HasBit(b1, EXT_SELECT_BIT) THEN GAMEBTN_SELECT ELSE 0)

PollTypeOK ==
    /\ TypeOK
    /\ started \in BOOLEAN
    /\ opbtn \in 0..7 /\ p1Btn \in 0..511
    /\ coinLatch \in BOOLEAN
    /\ coinEvents \in 0..MaxCoins /\ coinPresses \in 0..MaxCoins

(* mai2_io_init: affine_io_init runs only when the module name is         *)
(* Sinmai.exe.  When GetModuleFileNameA fails, filename is uninitialised   *)
(* and the comparison may go either way; both outcomes are here.           *)
Mai2IoInit == started \in BOOLEAN

(* affine_io_get_state(1): the slot's locked state only where the slots    *)
(* run and the slot is connected, otherwise the shared region.             *)
AffineIoGetState == IF started THEN GetState ELSE shm

\* Mutated form: the shared-region fallback dropped.
HaveStateNoShm == started /\ connected

\* affine_io_get_state succeeds: live state, or a mapped shared region.
HaveState == (started /\ connected) \/ ShmMapped

PollInit ==
    /\ Init
    /\ Mai2IoInit
    /\ opbtn = 0 /\ p1Btn = 0 /\ coinLatch = FALSE
    /\ coinEvents = 0 /\ coinPresses = 0

(***************************************************************************)
(* mai2_io_poll, player 1 and the coin latch.                              *)
(***************************************************************************)

\* Mutated form: the latch is never set, so a held coin fires on every poll.
PollNoLatchSet ==
    LET have == HaveState
        st == AffineIoGetState
        coin == have /\ CoinHeld(st)
        fire == coin /\ ~coinLatch
    IN /\ p1Btn' = IF have THEN ApplyAffineButtons(Buttons0(st), Buttons1(st)) ELSE 0
       /\ opbtn' = IF have THEN (IF HasBit(Buttons1(st), EXT_TEST_BIT) THEN OPBTN_TEST ELSE 0)
                              + (IF HasBit(Buttons1(st), EXT_SERVICE_BIT) THEN OPBTN_SERVICE ELSE 0)
                              + (IF fire THEN OPBTN_COIN ELSE 0)
                           ELSE 0
       /\ coinLatch' = coinLatch /\ coin
       /\ coinEvents' = IF fire THEN CapAt(coinEvents) ELSE coinEvents
       /\ UNCHANGED <<vars, started, coinPresses>>

(* The outputs are zeroed and affine_io_get_state(1) is read: the locked   *)
(* decoded state while the slot is connected, otherwise the shared region, *)
(* which is readable whenever it is mapped.  A coin bit seen while the     *)
(* latch is clear reports OPBTN_COIN and sets the latch; a clear coin bit, *)
(* or no state at all, clears it.                                          *)
Poll ==
    LET have == HaveState
        st == AffineIoGetState
        coin == have /\ CoinHeld(st)
        fire == coin /\ ~coinLatch
    IN /\ p1Btn' = IF have THEN ApplyAffineButtons(Buttons0(st), Buttons1(st)) ELSE 0
       /\ opbtn' = IF have THEN (IF HasBit(Buttons1(st), EXT_TEST_BIT) THEN OPBTN_TEST ELSE 0)
                              + (IF HasBit(Buttons1(st), EXT_SERVICE_BIT) THEN OPBTN_SERVICE ELSE 0)
                              + (IF fire THEN OPBTN_COIN ELSE 0)
                           ELSE 0
       /\ coinLatch' = coin
       /\ coinEvents' = IF fire THEN CapAt(coinEvents) ELSE coinEvents
       /\ UNCHANGED <<vars, started, coinPresses>>

(* Every step of the slot, its threads or the board.  A board step that   *)
(* raises the coin input counts a press; so does the slot reconnecting     *)
(* while the coin is held, since the zero state published at the          *)
(* disconnect was a low sample the poll may have seen (spec 8 allows a     *)
(* new event after it).                                                    *)
SlotStep ==
    /\ Next
    /\ coinPresses' = IF \/ ~CoinHeld(phys) /\ CoinHeld(phys')
                         \/ ~connected /\ connected' /\ CoinHeld(phys)
                      THEN CapAt(coinPresses) ELSE coinPresses
    /\ UNCHANGED <<started, opbtn, p1Btn, coinLatch, coinEvents>>

PollNext == SlotStep \/ Poll

PollSpec == PollInit /\ [][PollNext]_allVars

(* The slot's fairness of AffineDevice, and the game calling mai2_io_poll  *)
(* once per frame for as long as it runs.                                  *)
PollFairSpec ==
    PollSpec /\ WF_vars(DevNext) /\ SF_vars(ReadReturnsFrame) /\ WF_allVars(Poll)

(***************************************************************************)
(* Properties.                                                             *)
(***************************************************************************)

(* A coin held on a board that stays plugged in and enabled, once its     *)
(* writes stop timing out, stops being reported: whatever reconnects       *)
(* happen on the way, the poll ends with the latch mai2_affine_coin set    *)
(* for good and OPBTN_COIN clear.  (How many events the press gave before  *)
(* that is CoinEventsMatchPresses.)                                        *)
HeldCoinSettles ==
    <>[](present /\ enabled /\ CoinHeld(phys)) /\ WritesSettle
        => <>[](coinLatch /\ ~HasBit(opbtn, 2))

(* An input held on a board that stays plugged in and enabled (and whose *)
(* writes stop timing out) ends up in the game's button word for good,    *)
(* whether the game polls in the process that runs the slot or in one    *)
(* that reads only the shared region: the slot thread, the publication    *)
(* and affine_io_get_state's fallback all have to work for the poll to    *)
(* report it.                                                              *)
GameSeesStableInput ==
    \A v \in BtnValues :
        <>[](present /\ enabled /\ phys = v) /\ WritesSettle
            => <>[](p1Btn = ApplyAffineButtons(Buttons0(v), Buttons1(v)))

(* Spec 8: a sustained coin signal gives one coin event at its rising    *)
(* edge.  The poll never reports more coins than the board's coin input   *)
(* had rising edges, counting as one a reconnect with the coin held.  A    *)
(* coin released while the board is unplugged must not be reported again *)
(* when affine_try_open republishes dev->buttons0/1 on the next connect.  *)
CoinEventsMatchPresses == coinEvents <= coinPresses

=============================================================================
