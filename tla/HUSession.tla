----------------------------- MODULE HUSession ------------------------------
(***************************************************************************)
(* What HUServer (src/hu/hu_aap.cpp) promises the application: a session   *)
(* is connecting while start() runs, up while the HU thread runs, ended    *)
(* when that thread has returned, and down when shutdown() has joined it.  *)
(* DisconnectionOrError() is called in every session that was up, before   *)
(* it has ended and never after.  What is not promised is that the server  *)
(* survives: the process may end, and the HU thread may wait for ever in a *)
(* queueCommand() of its own.                                              *)
(***************************************************************************)
VARIABLES
    phase,     \* "down", "connecting", "up", "ended" or "dead"
    told       \* DisconnectionOrError() was called in this session

vars == <<phase, told>>

Init == phase = "down" /\ told = FALSE

(* start() begins. *)
Begin == phase = "down" /\ phase' = "connecting" /\ UNCHANGED told

(* start() returns 0. *)
Connected == phase = "connecting" /\ phase' = "up" /\ UNCHANGED told

(* start() fails. *)
Abandon == phase = "connecting" /\ phase' = "down" /\ UNCHANGED told

(* The first DisconnectionOrError() of the session. *)
Tell == phase = "up" /\ told' = TRUE /\ UNCHANGED phase

(* The HU thread returns. *)
End == phase = "up" /\ told /\ phase' = "ended" /\ UNCHANGED told

(* shutdown() joins it. *)
Close == phase = "ended" /\ phase' = "down" /\ told' = FALSE

(* The process or the HU thread is gone for good, perhaps as it returns    *)
(* from DisconnectionOrError().                                            *)
Die == phase # "dead" /\ phase' = "dead" /\ told' \in {told, TRUE}

Next == Begin \/ Connected \/ Abandon \/ Tell \/ End \/ Close \/ Die

(* The order of the phases. *)
Safety == Init /\ [][Next]_vars

(* A session whose end was announced ends. *)
Spec == Safety /\ WF_vars(End)
=============================================================================
