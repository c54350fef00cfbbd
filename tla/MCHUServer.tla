----------------------------- MODULE MCHUServer -----------------------------
(* Values of the constants of HUServer for TLC. *)
EXTENDS HUServer, TLC

CONSTANTS c1, c2

OneCaller  == {c1}
TwoCallers == {c1, c2}
Usb        == {"usb"}
Network    == {"network"}
Both       == {"usb", "network"}
Symmetry   == Permutations(Callers)
=============================================================================
