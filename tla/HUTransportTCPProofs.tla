------------------------ MODULE HUTransportTCPProofs ------------------------
(***************************************************************************)
(* Proofs about HUTransportTCP, for any number of descriptors.  Closing a  *)
(* descriptor twice makes the table disagree with its users only once it   *)
(* has happened in connect mode to a number taken over in between; until   *)
(* then the stream knows its own.                                          *)
(***************************************************************************)
EXTENDS HUTransportTCP, TLAPS

(* The state that Start() goes by fits the point the stream is at. *)
StateInv ==
    /\ pc \in {"none", "start"} => itcp_state \in {"INITIAL", "STOPPED"}
    /\ pc = "down" => itcp_state = "STOPPED"
    /\ pc = "up" => itcp_state = "STARTED"

(* Which descriptors the stream has at each point. *)
PointInv ==
    /\ pc \in {"none", "down", "start", "socket"} => tcp_so_fd = 0 /\ readfd = 0
    /\ pc \in {"listen", "accept", "connect"} => tcp_so_fd # 0 /\ readfd = 0
    /\ pc = "up" => readfd # 0
    /\ pc = "closeSo" => readfd = 0
    /\ pc = "connect" => mode = "connect"
    /\ pc \in {"listen", "accept"} => mode = "accept"
    /\ (mode = "accept" /\ readfd # 0) => readfd # tcp_so_fd

(* Between the two calls of close() in connect mode the number may be      *)
(* another's.                                                              *)
Between == pc = "closeSo" /\ mode = "connect"

TableInv ==
    /\ \A f \in Fds : table[f] = "stream" => f \in {tcp_so_fd, readfd}
    /\ readfd # 0 => table[readfd] = "stream"
    /\ (tcp_so_fd # 0 /\ ~Between) => table[tcp_so_fd] = "stream"
    /\ \A f \in others : table[f] = "other"

(* The inductive invariant.  That Start() returned with a connection is    *)
(* not inductive: it needs the state every earlier stream has left, and    *)
(* that no other thread closes a descriptor of this one.                   *)
StreamInv ==
    /\ TypeOK
    /\ StateInv
    /\ PointInv
    /\ stolen = FALSE => TableInv
    /\ stolen = TRUE => mode = "connect"

-----------------------------------------------------------------------------
LEMMA StreamInitially == Init => StreamInv
  <1> SUFFICES ASSUME Init PROVE StreamInv
    OBVIOUS
  <1>1. TypeOK
    <2>1. /\ tcp_so_fd \in 0..MaxFd /\ readfd \in 0..MaxFd
      BY BoundsAssumption, SMT DEF Init, BoundsAssumption
    <2> QED BY <2>1 DEF Init, TypeOK
  <1>2. StateInv /\ PointInv
    BY DEF Init, StateInv, PointInv
  <1>3. TableInv
    BY DEF Init, TableInv, Fds
  <1>4. stolen = FALSE
    BY DEF Init
  <1> QED BY <1>1, <1>2, <1>3, <1>4 DEF StreamInv

LEMMA CloseReadStep ==
    ASSUME StreamInv, CloseRead
    PROVE  StreamInv'
  <1> USE DEF CloseRead, CloseFd
  <1>1. TypeOK'
    BY BoundsAssumption, SMT DEF StreamInv, TypeOK, Fds, Starting, BoundsAssumption
  <1>2. StateInv' /\ PointInv'
    BY DEF StreamInv, StateInv, PointInv
  <1>3. stolen' = TRUE => mode' = "connect"
    BY SMT DEF StreamInv, TypeOK, TableInv, Fds
  <1>4. ASSUME stolen' = FALSE PROVE TableInv'
    <2>1. stolen = FALSE /\ TableInv
      BY <1>4, SMT DEF StreamInv, TypeOK
    <2>2. /\ table \in [Fds -> {"free", "stream", "other"}]
          /\ others \subseteq Fds /\ others' = others
          /\ readfd' = 0 /\ tcp_so_fd' = tcp_so_fd /\ mode' = mode /\ pc' = "closeSo"
          /\ readfd # 0 => readfd \in Fds /\ tcp_so_fd # 0
      BY BoundsAssumption, SMT DEF StreamInv, TypeOK, Fds, BoundsAssumption
    <2>3. table' = IF readfd = 0 THEN table ELSE [table EXCEPT ![readfd] = "free"]
      OBVIOUS
    <2>4. \A f \in Fds : table'[f] = "stream" => f = tcp_so_fd
      <3>1. 0 \notin Fds
        BY BoundsAssumption, SMT DEF Fds, BoundsAssumption
      <3> QED BY <2>1, <2>2, <2>3, <3>1, SMT DEF TableInv
    <2>5. \A f \in others' : table'[f] = "other"
      BY <2>1, <2>2, <2>3, SMT DEF TableInv
    <2>6. ASSUME tcp_so_fd # 0, mode # "connect" PROVE table'[tcp_so_fd] = "stream"
      <3>1. table[tcp_so_fd] = "stream" /\ tcp_so_fd \in Fds
        BY <2>1, <2>6, BoundsAssumption, SMT
        DEF TableInv, Between, StreamInv, TypeOK, Fds, BoundsAssumption
      <3>2. readfd # 0 => readfd # tcp_so_fd
        BY <2>6, BoundsAssumption DEF StreamInv, PointInv, TypeOK, BoundsAssumption
      <3> QED BY <2>2, <2>3, <3>1, <3>2
    <2> QED BY <2>2, <2>4, <2>5, <2>6 DEF TableInv, Between
  <1> QED BY <1>1, <1>2, <1>3, <1>4 DEF StreamInv

LEMMA CloseSoStep ==
    ASSUME StreamInv, CloseSo
    PROVE  StreamInv'
  <1> USE DEF CloseSo, CloseFd
  <1>1. TypeOK'
    BY BoundsAssumption, SMT DEF StreamInv, TypeOK, PointInv, Fds, Starting, BoundsAssumption
  <1>2. StateInv' /\ PointInv'
    BY SMT DEF StreamInv, TypeOK, StateInv, PointInv
  <1>3. stolen' = TRUE => mode' = "connect"
    BY SMT DEF StreamInv, TypeOK, TableInv, Between, Fds
  <1>4. ASSUME stolen' = FALSE PROVE TableInv'
    <2>1. stolen = FALSE /\ TableInv
      BY <1>4, SMT DEF StreamInv, TypeOK
    <2>2. /\ table \in [Fds -> {"free", "stream", "other"}]
          /\ others \subseteq Fds /\ others' = others
          /\ readfd = 0 /\ readfd' = 0 /\ tcp_so_fd' = 0
          /\ tcp_so_fd # 0 => tcp_so_fd \in Fds
      BY BoundsAssumption, SMT DEF StreamInv, TypeOK, PointInv, Fds, BoundsAssumption
    <2>3. /\ table' = IF tcp_so_fd = 0 THEN table ELSE [table EXCEPT ![tcp_so_fd] = "free"]
          /\ tcp_so_fd # 0 => table[tcp_so_fd] # "other"
      BY <1>4, Zenon
    <2>4. \A f \in Fds : table'[f] # "stream"
      BY <2>1, <2>2, <2>3, BoundsAssumption, SMT DEF TableInv, Fds, BoundsAssumption
    <2>5. \A f \in others' : table'[f] = "other"
      BY <2>1, <2>2, <2>3, SMT DEF TableInv
    <2> QED BY <2>2, <2>4, <2>5 DEF TableInv
  <1> QED BY <1>1, <1>2, <1>3, <1>4 DEF StreamInv

(* The steps that leave every descriptor alone. *)
LEMMA UntouchedStep ==
    ASSUME StreamInv, UNCHANGED <<mode, streamVars, tableVars>>,
           TypeOK', StateInv', PointInv', pc # "closeSo"
    PROVE  StreamInv'
  BY DEF StreamInv, TableInv, Between, streamVars, tableVars

LEMMA NewStreamStep ==
    ASSUME StreamInv, NewStream
    PROVE  StreamInv'
  <1>1. TypeOK' /\ StateInv' /\ PointInv'
    BY SMT DEF NewStream, Deinit, StreamInv, TypeOK, StateInv, PointInv, Starting,
               streamVars, tableVars
  <1> QED BY <1>1, UntouchedStep DEF NewStream

LEMMA StartStep ==
    ASSUME StreamInv, Start
    PROVE  StreamInv'
  <1>1. TypeOK' /\ StateInv' /\ PointInv'
    BY SMT DEF Start, StreamInv, TypeOK, StateInv, PointInv, Starting,
               streamVars, tableVars
  <1> QED BY <1>1, UntouchedStep DEF Start

LEMMA ListenStep ==
    ASSUME StreamInv, Listen
    PROVE  StreamInv'
  <1>1. TypeOK' /\ StateInv' /\ PointInv'
    BY SMT DEF Listen, StreamInv, TypeOK, StateInv, PointInv, Starting,
               streamVars, tableVars
  <1> QED BY <1>1, UntouchedStep DEF Listen

LEMMA StartFailsStep ==
    ASSUME StreamInv, StartFails
    PROVE  StreamInv'
  <1>1. TypeOK' /\ StateInv' /\ PointInv'
    BY SMT DEF StartFails, Deinit, StreamInv, TypeOK, StateInv, PointInv, Starting,
               streamVars, tableVars
  <1> QED BY <1>1, UntouchedStep DEF StartFails

LEMMA StopStep ==
    ASSUME StreamInv, Stop
    PROVE  StreamInv'
  <1>1. TypeOK' /\ StateInv' /\ PointInv'
    BY SMT DEF Stop, Deinit, StreamInv, TypeOK, StateInv, PointInv, Starting,
               streamVars, tableVars
  <1> QED BY <1>1, UntouchedStep DEF Stop

LEMMA SocketStep ==
    ASSUME StreamInv, Socket
    PROVE  StreamInv'
  <1> PICK f \in Fds : /\ Lowest(f)
                       /\ table' = [table EXCEPT ![f] = "stream"]
                       /\ tcp_so_fd' = f
    BY DEF Socket
  <1>1. f # 0 /\ f \in 0..MaxFd /\ table[f] = "free"
    BY BoundsAssumption, SMT DEF Lowest, Free, Fds, BoundsAssumption
  <1>2. TypeOK'
    BY <1>1, SMT DEF Socket, StreamInv, TypeOK, Starting, Fds
  <1>3. StateInv' /\ PointInv'
    BY <1>1, BoundsAssumption, SMT
    DEF Socket, StreamInv, TypeOK, StateInv, PointInv, BoundsAssumption
  <1>4. stolen' = stolen /\ mode' = mode
    BY DEF Socket
  <1>5. ASSUME stolen = FALSE PROVE TableInv'
    BY <1>1, <1>5, SMT DEF Socket, StreamInv, TypeOK, PointInv, TableInv, Between, Fds
  <1> QED BY <1>2, <1>3, <1>4, <1>5 DEF StreamInv

LEMMA AcceptStep ==
    ASSUME StreamInv, Accept
    PROVE  StreamInv'
  <1> PICK f \in Fds : /\ Lowest(f)
                       /\ table' = [table EXCEPT ![f] = "stream"]
                       /\ readfd' = f
    BY DEF Accept
  <1>1. f # 0 /\ f \in 0..MaxFd /\ table[f] = "free"
    BY BoundsAssumption, SMT DEF Lowest, Free, Fds, BoundsAssumption
  <1>2. TypeOK'
    BY <1>1, SMT DEF Accept, StreamInv, TypeOK, PointInv, Starting, Fds
  <1>3. stolen' = stolen /\ mode' = mode /\ mode = "accept" /\ stolen = FALSE
    BY SMT DEF Accept, StreamInv, PointInv, TypeOK
  <1>4. tcp_so_fd' # f
    BY <1>1, <1>3, SMT DEF Accept, StreamInv, PointInv, TableInv, Between
  <1>5. StateInv' /\ PointInv'
    BY <1>1, <1>3, <1>4, SMT DEF Accept, StreamInv, TypeOK, StateInv, PointInv
  <1>6. TableInv'
    BY <1>1, <1>3, SMT DEF Accept, StreamInv, TypeOK, PointInv, TableInv, Between, Fds
  <1> QED BY <1>2, <1>3, <1>5, <1>6 DEF StreamInv

LEMMA ConnectStep ==
    ASSUME StreamInv, Connect
    PROVE  StreamInv'
  <1>1. TypeOK' /\ StateInv' /\ PointInv'
    BY SMT DEF Connect, StreamInv, TypeOK, StateInv, PointInv, Starting, tableVars
  <1>2. stolen' = stolen /\ mode' = mode
    BY DEF Connect, tableVars
  <1>3. ASSUME stolen = FALSE PROVE TableInv'
    <2>1. 0 \notin Fds
      BY BoundsAssumption, SMT DEF Fds, BoundsAssumption
    <2> QED BY <1>3, <2>1, SMT DEF Connect, StreamInv, PointInv, TableInv, Between, tableVars
  <1> QED BY <1>1, <1>2, <1>3 DEF StreamInv

LEMMA OtherOpensStep ==
    ASSUME StreamInv, OtherOpens
    PROVE  StreamInv'
  <1> PICK f \in Fds : /\ Lowest(f)
                       /\ table' = [table EXCEPT ![f] = "other"]
                       /\ others' = others \union {f}
    BY DEF OtherOpens
  <1>1. table[f] = "free"
    BY DEF Lowest, Free
  <1>2. TypeOK'
    BY <1>1, SMT DEF OtherOpens, StreamInv, TypeOK, streamVars
  <1>3. /\ UNCHANGED <<stolen, mode, pc, tcp_so_fd, readfd, itcp_state>>
        /\ StateInv' /\ PointInv'
    BY DEF OtherOpens, StreamInv, StateInv, PointInv, streamVars
  <1>4. ASSUME stolen = FALSE PROVE TableInv'
    BY <1>1, <1>3, <1>4, BoundsAssumption, SMT
    DEF StreamInv, TypeOK, TableInv, Between, Fds, BoundsAssumption
  <1> QED BY <1>2, <1>3, <1>4 DEF StreamInv

LEMMA OtherClosesStep ==
    ASSUME StreamInv, OtherCloses
    PROVE  StreamInv'
  <1> PICK f \in others : /\ table' = [table EXCEPT ![f] = "free"]
                          /\ others' = others \ {f}
    BY DEF OtherCloses
  <1>1. f \in Fds
    BY DEF StreamInv, TypeOK
  <1>2. TypeOK'
    BY <1>1, SMT DEF OtherCloses, StreamInv, TypeOK, streamVars
  <1>3. /\ UNCHANGED <<stolen, mode, pc, tcp_so_fd, readfd, itcp_state>>
        /\ StateInv' /\ PointInv'
    BY DEF OtherCloses, StreamInv, StateInv, PointInv, streamVars
  <1>4. ASSUME stolen = FALSE PROVE TableInv'
    BY <1>1, <1>3, <1>4, BoundsAssumption, SMT
    DEF StreamInv, TypeOK, TableInv, Between, Fds, BoundsAssumption
  <1> QED BY <1>2, <1>3, <1>4 DEF StreamInv

-----------------------------------------------------------------------------
LEMMA StreamAlways == Spec => []StreamInv
  <1>1. ASSUME StreamInv, [Next]_vars PROVE StreamInv'
    <2>1. CASE UNCHANGED vars
      BY <1>1, <2>1 DEF StreamInv, TypeOK, StateInv, PointInv, TableInv, Between, vars,
                        streamVars, tableVars
    <2>2. CASE NewStream
      BY <1>1, <2>2, NewStreamStep
    <2>3. CASE StreamStep
      BY <1>1, <2>3, CloseReadStep, CloseSoStep, StartStep, SocketStep, ListenStep,
         ConnectStep, StartFailsStep DEF StreamStep
    <2>4. CASE Accept
      BY <1>1, <2>4, AcceptStep
    <2>5. CASE Stop
      BY <1>1, <2>5, StopStep
    <2>6. CASE OtherOpens
      BY <1>1, <2>6, OtherOpensStep
    <2>7. CASE OtherCloses
      BY <1>1, <2>7, OtherClosesStep
    <2> QED BY <1>1, <2>1, <2>2, <2>3, <2>4, <2>5, <2>6, <2>7 DEF Next
  <1> QED BY <1>1, StreamInitially, PTL DEF Spec

(* The stream's state and the table of descriptors keep their types. *)
THEOREM StreamTypeCorrect == Spec => []TypeOK
  <1>1. StreamInv => TypeOK
    BY DEF StreamInv
  <1> QED BY <1>1, StreamAlways, PTL

(* itcp_deinit() takes no descriptor of another thread from it in accept   *)
(* mode, in whatever order streams are started, fail, are replaced and     *)
(* stopped.                                                                *)
THEOREM OnlyConnectingSteals == Spec => []StealsOnlyWhenConnecting
  <1>1. StreamInv => StealsOnlyWhenConnecting
    BY DEF StreamInv, TypeOK, StealsOnlyWhenConnecting
  <1> QED BY <1>1, StreamAlways, PTL

(* Start() returns 0 only with a connection, although it trusts a state    *)
(* that all streams of the process share.                                  *)
THEOREM StartedAlwaysConnected == Spec => []StartedIsConnected
  <1>1. StreamInv => StartedIsConnected
    BY DEF StreamInv, TypeOK, PointInv, TableInv, StartedIsConnected
  <1> QED BY <1>1, StreamAlways, PTL

(* Whichever call of Start() failed, and however a stream was replaced,    *)
(* nothing of it stays open.                                               *)
THEOREM NothingLeaks == Spec => []NoLeak
  <1>1. StreamInv => NoLeak
    BY BoundsAssumption, SMT DEF StreamInv, TypeOK, PointInv, TableInv, NoLeak, Fds, BoundsAssumption
  <1> QED BY <1>1, StreamAlways, PTL
=============================================================================
