---------------------------- MODULE MCHUAssembly ----------------------------
(* Values of the constants of HUAssembly for TLC. *)
EXTENDS HUAssembly

CONSTANTS video, audio, control, own, none, null, b1, b2, b3, b4

ThreeChannels == {video, audio, control}
TwoChannels   == {video, audio}
OnlyVideo     == {video}
FourBuffers   == {b1, b2, b3, b4}
=============================================================================
