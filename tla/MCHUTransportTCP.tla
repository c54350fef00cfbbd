-------------------------- MODULE MCHUTransportTCP --------------------------
(* Values of the constants of HUTransportTCP for TLC. *)
EXTENDS HUTransportTCP

BothModes == {"accept", "connect"}
=============================================================================
