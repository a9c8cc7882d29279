--------------------------- MODULE BoardInfoOutcome ---------------------------
(***************************************************************************)
(* What the board-info handshake of a slot promises (spec 4.1 step 4 and  *)
(* 4.3), with no clock and no requests: every connection starts pending;  *)
(* it ends identified only if the board answers validly, failed only if   *)
(* it answers malformed, and otherwise unknown; a valid answer after an   *)
(* "unknown" still identifies the board.  A pending handshake on a        *)
(* connection that stays up ends, and a valid board that stays connected *)
(* is identified.                                                          *)
(***************************************************************************)
CONSTANTS Firmwares   \* how a board answers the board-info request

VARIABLES
    link,      \* the slot is connected
    firmware,  \* how the board on the current connection answers
    outcome    \* "pending", "known", "none" (no firmware info) or "unknown"

vars == <<link, firmware, outcome>>

Outcomes == {"pending", "known", "none", "unknown"}

TypeOK ==
    link \in BOOLEAN /\ firmware \in Firmwares /\ outcome \in Outcomes

\* Before the first connection there is no firmware information.
Init == ~link /\ firmware \in Firmwares /\ outcome = "none"

\* A new board is connected and its handshake starts.
Connect ==
    /\ ~link
    /\ link' = TRUE /\ firmware' \in Firmwares /\ outcome' = "pending"

\* A valid answer identifies the board, also after a give-up.
Identify ==
    /\ link /\ firmware = "valid" /\ outcome \in {"pending", "unknown"}
    /\ outcome' = "known"
    /\ UNCHANGED <<link, firmware>>

\* A malformed answer ends a pending handshake as failed.
Reject ==
    /\ link /\ firmware = "malformed" /\ outcome = "pending"
    /\ outcome' = "none"
    /\ UNCHANGED <<link, firmware>>

\* No usable answer in time: the firmware is reported unknown.
GiveUp ==
    /\ link /\ outcome = "pending"
    /\ outcome' = "unknown"
    /\ UNCHANGED <<link, firmware>>

\* The connection is lost; the outcome is kept until the next connect.
Drop ==
    /\ link
    /\ link' = FALSE
    /\ UNCHANGED <<firmware, outcome>>

Next == Connect \/ Identify \/ Reject \/ GiveUp \/ Drop

Spec == Init /\ [][Next]_vars /\ WF_vars(Identify \/ Reject \/ GiveUp)

=============================================================================
