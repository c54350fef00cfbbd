----------------------- MODULE HeadunitBluetoothServer ----------------------
(***************************************************************************)
(* HeadunitBluetoothServer (src/hu/headunitbluetoothserver.cpp): phones    *)
(* connect over RFCOMM, are told where to find the head unit and ask for   *)
(* its Wi-Fi network.  The server's slots run one at a time on the thread  *)
(* of the Qt event loop; it keeps one socket, that of the last phone.      *)
(* Messages are their types: 1 SocketInfoRequest, 2 the request for the    *)
(* network, 7 SocketInfoResponse; 0 is any other.                          *)
(***************************************************************************)
EXTENDS Naturals, Sequences

CONSTANTS
    Phones,
    Patient,          \* phones that never have two messages under way
    None,             \* no phone
    MaxMessages       \* bound: messages of one connection

ASSUME PhonesAssumption == Patient \subseteq Phones /\ None \notin Phones
ASSUME BoundAssumption  == MaxMessages \in Nat

VARIABLES
    listening,        \* m_rfcommServer.listen() succeeded
    m_socket,         \* the phone of the socket; None if null or disconnected
    conn,             \* connection of each phone
    wire,             \* messages on their way from it
    torn,             \* the end of its last message is still to come
    garbled,          \* ... and has been so since it connected
    greeted,          \* SocketInfoRequests written to it
    asked,            \* messages it sent, by type
    answered,         \* answers to it, by request
    waiting           \* request whose answer a patient phone awaits; 0: none

phoneVars == <<garbled, asked, waiting>>
vars == <<listening, m_socket, conn, wire, torn, greeted, answered, phoneVars>>

Requests == {1, 2}
Sendable == {1, 2, 7}
Messages == Sendable \union {0}

Init ==
    /\ listening = FALSE
    /\ m_socket = None
    /\ conn = [p \in Phones |-> "off"]
    /\ wire = [p \in Phones |-> <<>>]
    /\ torn = [p \in Phones |-> FALSE]
    /\ garbled = [p \in Phones |-> FALSE]
    /\ greeted = [p \in Phones |-> 0]
    /\ asked = [p \in Phones |-> [r \in Sendable |-> 0]]
    /\ answered = [p \in Phones |-> [r \in Requests |-> 0]]
    /\ waiting = [p \in Phones |-> 0]

(* start() *)
StartServer ==
    /\ ~listening
    /\ listening' \in BOOLEAN
    /\ UNCHANGED <<m_socket, conn, wire, torn, greeted, answered, phoneVars>>

-----------------------------------------------------------------------------
(* The slot onClientConnected() *)

(* Mutant: the socket of the first phone is kept. *)
OnClientConnectedOnce(p) ==
    /\ conn[p] = "pending"
    /\ conn' = [conn EXCEPT ![p] = "on"]
    /\ m_socket' = IF m_socket = None THEN p ELSE m_socket
    /\ greeted' = [greeted EXCEPT ![m_socket'] = @ + 1]
    /\ UNCHANGED <<listening, wire, torn, answered, phoneVars>>

(* The new socket replaces the last; its phone is sent SocketInfoRequest. *)
OnClientConnected(p) ==
    /\ conn[p] = "pending"
    /\ conn' = [conn EXCEPT ![p] = "on"]
    /\ m_socket' = p
    /\ greeted' = [greeted EXCEPT ![p] = @ + 1]
    /\ UNCHANGED <<listening, wire, torn, answered, phoneVars>>

(* nextPendingConnection() returns null: the last socket is forgotten too. *)
OnNullConnected(p) ==
    /\ conn[p] = "pending"
    /\ conn' = [conn EXCEPT ![p] = "off"]
    /\ m_socket' = None
    /\ UNCHANGED <<listening, wire, torn, greeted, answered, phoneVars>>

-----------------------------------------------------------------------------
(* The slot readSocket(): readAll(), and an answer to the first message in *)
(* it; the others are dropped.                                             *)

(* Mutant: case 2 is missing. *)
HandleOnlySocketInfo(p, type) ==
    /\ answered' = IF type = 1
                   THEN [answered EXCEPT ![p][1] = @ + 1] ELSE answered
    /\ waiting' = IF waiting[p] = type /\ type = 1
                  THEN [waiting EXCEPT ![p] = 0] ELSE waiting

(* writeSocketInfoResponse() for 1, writeNetworkInfoMessage() for 2; 7 and *)
(* the unknown ones are logged.                                            *)
Handle(p, type) ==
    /\ answered' = IF type \in Requests
                   THEN [answered EXCEPT ![p][type] = @ + 1] ELSE answered
    /\ waiting' = IF waiting[p] = type THEN [waiting EXCEPT ![p] = 0] ELSE waiting

(* What bytes 2 and 3 of the data can be: the type of the first message,   *)
(* 0 if it is torn before its type, and anything in the end of another.    *)
Types(p, n, part) ==
    IF torn[p] THEN Messages
    ELSE {Head(wire[p])} \union (IF part /\ n = 1 THEN {0} ELSE {})

(* Mutant: the data is read from the socket that is ready. *)
ReadSender(p) ==
    /\ conn[p] = "on"
    /\ \E n \in 1..Len(wire[p]) :
          /\ wire' = [wire EXCEPT ![p] = SubSeq(@, n + 1, Len(@))]
          /\ IF m_socket = None THEN UNCHANGED <<answered, waiting>>
             ELSE Handle(m_socket, Head(wire[p]))
    /\ UNCHANGED <<listening, m_socket, conn, torn, greeted, garbled, asked>>

(* n messages of p arrive together, the last perhaps without its end.  Of  *)
(* a phone that is not the last to connect nothing is read.                *)
ReadSocket(p) ==
    /\ conn[p] = "on"
    /\ \E n \in 0..Len(wire[p]), part \in BOOLEAN :
          /\ n > 0 \/ (torn[p] /\ ~part)
          /\ wire' = [wire EXCEPT ![p] = SubSeq(@, n + 1, Len(@))]
          /\ torn' = [torn EXCEPT ![p] = part]
          /\ garbled' = [garbled EXCEPT ![p] = @ \/ part]
          /\ IF m_socket = p
             THEN \E type \in Types(p, n, part) : Handle(p, type)
             ELSE UNCHANGED <<answered, waiting>>
    /\ UNCHANGED <<listening, m_socket, conn, greeted, asked>>

-----------------------------------------------------------------------------
(* The phones *)

Connects(p) ==
    /\ listening
    /\ conn[p] = "off"
    /\ conn' = [conn EXCEPT ![p] = "pending"]
    /\ UNCHANGED <<listening, m_socket, wire, torn, greeted, answered, phoneVars>>

Sends(p, type) ==
    /\ conn[p] = "on"
    /\ p \in Patient => waiting[p] = 0 /\ wire[p] = <<>>
    /\ asked[p][1] + asked[p][2] + asked[p][7] < MaxMessages
    /\ wire' = [wire EXCEPT ![p] = Append(@, type)]
    /\ asked' = [asked EXCEPT ![p][type] = @ + 1]
    /\ waiting' = IF type \in Requests /\ p \in Patient
                  THEN [waiting EXCEPT ![p] = type] ELSE waiting
    /\ UNCHANGED <<listening, m_socket, conn, torn, greeted, garbled, answered>>

(* A socket that is disconnected gives no more data; the phone may come    *)
(* back on another.                                                        *)
Disconnects(p) ==
    /\ conn[p] = "on"
    /\ conn' = [conn EXCEPT ![p] = "off"]
    /\ m_socket' = IF m_socket = p THEN None ELSE m_socket
    /\ wire' = [wire EXCEPT ![p] = <<>>]
    /\ torn' = [torn EXCEPT ![p] = FALSE]
    /\ garbled' = [garbled EXCEPT ![p] = FALSE]
    /\ greeted' = [greeted EXCEPT ![p] = 0]
    /\ asked' = [asked EXCEPT ![p] = [r \in Sendable |-> 0]]
    /\ answered' = [answered EXCEPT ![p] = [r \in Requests |-> 0]]
    /\ waiting' = [waiting EXCEPT ![p] = 0]
    /\ UNCHANGED listening

-----------------------------------------------------------------------------
Slot(p) == OnClientConnected(p) \/ OnNullConnected(p) \/ ReadSocket(p)

Next ==
    \/ StartServer
    \/ \E p \in Phones :
          \/ Slot(p) \/ Connects(p) \/ Disconnects(p)
          \/ \E type \in Sendable : Sends(p, type)

(* The event loop runs, and what a connected phone sent arrives. *)
Spec == Init /\ [][Next]_vars /\ \A p \in Phones : WF_vars(Slot(p))

-----------------------------------------------------------------------------
(* Type invariant; a phone whose connection was accepted was greeted. *)
TypeOK ==
    /\ listening \in BOOLEAN
    /\ m_socket \in Phones \union {None}
    /\ conn \in [Phones -> {"off", "pending", "on"}]
    /\ wire \in [Phones -> Seq(Messages)]
    /\ torn \in [Phones -> BOOLEAN]
    /\ garbled \in [Phones -> BOOLEAN]
    /\ greeted \in [Phones -> {0, 1}]
    /\ asked \in [Phones -> [Sendable -> 0..MaxMessages]]
    /\ answered \in [Phones -> [Requests -> Nat]]
    /\ waiting \in [Phones -> {0, 1, 2}]
    /\ \A p \in Phones : conn[p] = "on" => greeted[p] = 1

(* A phone gets an answer only to a request of its own and of that kind,   *)
(* whichever phones connect, reconnect and send meanwhile; a phone one of  *)
(* whose messages was torn apart may get others.                           *)
AnswersMatch ==
    \A p \in Phones : conn[p] = "on" /\ ~garbled[p] =>
        \A r \in Requests : answered[p][r] <= asked[p][r]

(* A patient phone is answered, unless another connection has taken the    *)
(* server's only socket, it disconnects, or its message was torn apart.    *)
(* One that sends a request behind another message may wait for ever.      *)
PatientAnswered ==
    \A p \in Patient :
        (m_socket = p /\ waiting[p] # 0)
            ~> (waiting[p] = 0 \/ m_socket # p \/ garbled[p])
=============================================================================
