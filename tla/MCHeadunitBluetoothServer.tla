---------------------- MODULE MCHeadunitBluetoothServer ---------------------
(* Values of the constants of HeadunitBluetoothServer for TLC. *)
EXTENDS HeadunitBluetoothServer

CONSTANTS patient, eager

BothPhones  == {patient, eager}
OnlyPatient == {patient}
=============================================================================
