--------------------------- MODULE MCAffineDevice ---------------------------
(* Instantiates AffineDevice for TLC: one slot, two handle values (enough  *)
(* for one open handle and one leaked), a binary input.                    *)
EXTENDS AffineDevice, TLC

CONSTANTS W1, W2

\* The slot's thread alone: no LED or game thread writes to the port.
NoWriters == {}
\* The LED fade thread (mai2_io_led_thread_proc) writing button colours.
OneWriter == {W1}
\* The LED fade thread and the game thread (mai2_io_led_set_fet_output).
TwoWriters == {W1, W2}

MCBtnValues == {0, 1}
MCHandles == {1, 2}
=============================================================================
