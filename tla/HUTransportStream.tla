------------------------- MODULE HUTransportStream --------------------------
(***************************************************************************)
(* What HUServer relies on when it uses a HUTransportStream (the abstract  *)
(* class of src/hu/hu_aap.h) that has an error descriptor: a started       *)
(* stream that loses its phone makes that descriptor readable, unless it   *)
(* had already gone deaf, that is, had failed to ask for more data.        *)
(***************************************************************************)
VARIABLE status     \* "closed", "up", "lost", "deaf" or "signalled"

Init == status = "closed"

(* Start() returns 0; the phone may be gone by then. *)
Open == status = "closed" /\ status' \in {"up", "lost", "deaf", "signalled"}

(* A transfer fails, or the thread that receives gives up. *)
Lose == status \in {"up", "deaf"} /\ status' = "lost"

(* Nothing is asked of the phone any more, and nothing has failed. *)
Deafen == status = "up" /\ status' = "deaf"

(* The error descriptor becomes readable. *)
Signal == status = "lost" /\ status' = "signalled"

(* Stop() begins. *)
Close == status # "closed" /\ status' = "closed"

Next == Open \/ Lose \/ Deafen \/ Signal \/ Close

(* Liveness apart: what a stream may never do.                              *)
Safety == Init /\ [][Next]_status

Spec == Safety /\ WF_status(Signal)
=============================================================================
