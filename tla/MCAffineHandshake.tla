-------------------------- MODULE MCAffineHandshake --------------------------
(* Instantiates AffineHandshake with a 250 ms clock unit: 500, 1000 and 3000 ms are 2, 4 and 12 units.                  *)
EXTENDS AffineHandshake
MCFirmwares == {"valid", "malformed", "empty", "silent"}
=============================================================================
