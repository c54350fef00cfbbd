-------------------------- MODULE MCHUTransportUSB --------------------------
(* Values of the constants of HUTransportUSB for TLC. *)
EXTENDS HUTransportUSB

CONSTANTS d1, d2

TwoDevices == {d1, d2}
=============================================================================
