--------------------------- MODULE HUTransportTCP ---------------------------
(***************************************************************************)
(* HUTransportStreamTCP (src/hu/hu_tcp.cpp) as HUServer uses it: one       *)
(* stream at a time, replaced by startTransport() and stopped by           *)
(* stopTransport().  Descriptors are numbers of the process, the lowest    *)
(* free one first, and another thread of the process opens and closes some *)
(* of its own meanwhile.  itcp_state is a global of the process.           *)
(* HUServer hands a stream no "wifi_direct", so its own streams connect.   *)
(***************************************************************************)
EXTENDS Naturals, FiniteSets

CONSTANTS
    MaxFd,            \* bound: descriptors of the process, 1..MaxFd; 0 is -1
    Modes             \* settings["wifi_direct"]: "accept" if it is "1", else "connect"

ASSUME BoundsAssumption ==
    /\ MaxFd \in Nat \ {0}
    /\ Modes \subseteq {"accept", "connect"}

VARIABLES
    itcp_state,       \* HU_STATE; 0 is INITIAL
    mode,             \* the setting, fixed for the HUServer
    pc,               \* next statement of the thread that uses the stream
    after,            \* where it goes after itcp_deinit()
    tcp_so_fd, readfd,
    table,            \* who opened each descriptor number
    others,           \* numbers the other thread takes for its own
    stolen            \* the stream has closed one of those

streamVars == <<tcp_so_fd, readfd>>
tableVars  == <<table, others, stolen>>
vars == <<itcp_state, mode, pc, after, streamVars, tableVars>>

Fds == 1..MaxFd
Free == {f \in Fds : table[f] = "free"}
Lowest(f) == f \in Free /\ \A g \in Free : f <= g

Starting == {"start", "socket", "listen", "accept", "connect"}

Init ==
    /\ itcp_state = "INITIAL"
    /\ mode \in Modes
    /\ pc = "none"
    /\ after = "none"
    /\ tcp_so_fd = 0
    /\ readfd = 0
    /\ table = [f \in Fds |-> "free"]
    /\ others = {}
    /\ stolen = FALSE

-----------------------------------------------------------------------------
(* itcp_deinit(), entered with pc = "closeRead" *)

Deinit(next) == pc' = "closeRead" /\ after' = next

(* close(fd) on whatever the number now is. *)
CloseFd(fd) ==
    /\ stolen' = (stolen \/ (fd # 0 /\ table[fd] = "other"))
    /\ table' = IF fd = 0 THEN table ELSE [table EXCEPT ![fd] = "free"]
    /\ UNCHANGED others

(* Mutant: the listening socket is closed first and the other one never. *)
CloseReadSwapped ==
    /\ pc = "closeRead"
    /\ CloseFd(tcp_so_fd)
    /\ tcp_so_fd' = 0
    /\ pc' = "closeSo"
    /\ UNCHANGED <<itcp_state, mode, after, readfd>>

CloseRead ==
    /\ pc = "closeRead"
    /\ CloseFd(readfd)
    /\ readfd' = 0
    /\ pc' = "closeSo"
    /\ UNCHANGED <<itcp_state, mode, after, tcp_so_fd>>

(* The second descriptor, which in connect mode is the one just closed;    *)
(* then Stop() or Start() sets the state.                                  *)
CloseSo ==
    /\ pc = "closeSo"
    /\ CloseFd(tcp_so_fd)
    /\ tcp_so_fd' = 0
    /\ pc' = after
    /\ itcp_state' = "STOPPED"
    /\ UNCHANGED <<mode, after, readfd>>

-----------------------------------------------------------------------------
(* HUServer::startTransport() *)

(* A new stream takes the place of the old one, whose destructor calls     *)
(* Stop() unless the state is STOPPED.                                     *)
NewStream ==
    /\ pc \in {"none", "up", "down"}
    /\ IF itcp_state \in {"INITIAL", "STOPPED"} \/ pc = "none"
       THEN pc' = "start" /\ UNCHANGED <<after, itcp_state>>
       ELSE Deinit("start") /\ itcp_state' = "STOPPIN"
    /\ UNCHANGED <<mode, streamVars, tableVars>>

(* Mutant: only the first Start() of the process does anything. *)
StartOnce ==
    /\ pc = "start"
    /\ IF itcp_state # "INITIAL"
       THEN pc' = "up" /\ UNCHANGED itcp_state
       ELSE pc' = "socket" /\ itcp_state' = "STARTIN"
    /\ UNCHANGED <<mode, after, streamVars, tableVars>>

(* Start() of a stream that is taken for started returns 0 at once. *)
Start ==
    /\ pc = "start"
    /\ IF itcp_state = "STARTED"
       THEN pc' = "up" /\ UNCHANGED itcp_state
       ELSE pc' = "socket" /\ itcp_state' = "STARTIN"
    /\ UNCHANGED <<mode, after, streamVars, tableVars>>

Socket ==
    /\ pc = "socket"
    /\ \E f \in Fds :
          /\ Lowest(f)
          /\ table' = [table EXCEPT ![f] = "stream"]
          /\ tcp_so_fd' = f
    /\ pc' = IF mode = "accept" THEN "listen" ELSE "connect"
    /\ UNCHANGED <<itcp_state, mode, after, readfd, others, stolen>>

(* bind() may fail without consequence here; listen() may fail. *)
Listen ==
    /\ pc = "listen"
    /\ pc' = "accept"
    /\ UNCHANGED <<itcp_state, mode, after, streamVars, tableVars>>

(* Mutant: the listening socket is closed once a phone is accepted. *)
AcceptAndClose ==
    /\ pc = "accept"
    /\ \E f \in Fds :
          /\ Lowest(f)
          /\ table' = [table EXCEPT ![f] = "stream", ![tcp_so_fd] = "free"]
          /\ readfd' = f
    /\ itcp_state' = "STARTED"
    /\ pc' = "up"
    /\ UNCHANGED <<mode, after, tcp_so_fd, others, stolen>>

(* A phone connects. *)
Accept ==
    /\ pc = "accept"
    /\ \E f \in Fds :
          /\ Lowest(f)
          /\ table' = [table EXCEPT ![f] = "stream"]
          /\ readfd' = f
    /\ itcp_state' = "STARTED"
    /\ pc' = "up"
    /\ UNCHANGED <<mode, after, tcp_so_fd, others, stolen>>

(* The phone is reached: the socket is the connection. *)
Connect ==
    /\ pc = "connect"
    /\ table[tcp_so_fd] = "stream"
    /\ readfd' = tcp_so_fd
    /\ itcp_state' = "STARTED"
    /\ pc' = "up"
    /\ UNCHANGED <<mode, after, tcp_so_fd, tableVars>>

(* Mutant: it tries again. *)
StartFailsOrRetries ==
    /\ pc \in {"socket", "listen", "accept", "connect"}
    /\ IF pc = "connect" THEN UNCHANGED <<pc, after>> ELSE Deinit("down")
    /\ UNCHANGED <<itcp_state, mode, streamVars, tableVars>>

(* Mutant: the socket is left open. *)
StartFailsOpen ==
    /\ pc \in {"socket", "listen", "accept", "connect"}
    /\ pc' = "down"
    /\ itcp_state' = "STOPPED"
    /\ UNCHANGED <<mode, after, streamVars, tableVars>>

(* Any of these calls fails; after a failed connect() Start() sleeps. *)
StartFails ==
    /\ pc \in {"socket", "listen", "accept", "connect"}
    /\ Deinit("down")
    /\ UNCHANGED <<itcp_state, mode, streamVars, tableVars>>

(* HUServer::stopTransport(): Stop(), and the stream is destroyed. *)
Stop ==
    /\ pc \in {"up", "down"}
    /\ itcp_state' = "STOPPIN"
    /\ Deinit("none")
    /\ UNCHANGED <<mode, streamVars, tableVars>>

-----------------------------------------------------------------------------
(* The other thread *)

OtherOpens ==
    /\ \E f \in Fds :
          /\ Lowest(f)
          /\ table' = [table EXCEPT ![f] = "other"]
          /\ others' = others \union {f}
    /\ UNCHANGED <<itcp_state, mode, pc, after, streamVars, stolen>>

(* It closes a number it takes for its own, whatever that now is. *)
OtherCloses ==
    /\ \E f \in others :
          /\ table' = [table EXCEPT ![f] = "free"]
          /\ others' = others \ {f}
    /\ UNCHANGED <<itcp_state, mode, pc, after, streamVars, stolen>>

-----------------------------------------------------------------------------
StreamStep ==
    \/ CloseRead \/ CloseSo \/ Start \/ Socket \/ Listen
    \/ Connect \/ StartFails

Next == NewStream \/ StreamStep \/ Accept \/ Stop \/ OtherOpens \/ OtherCloses

(* The thread that uses the stream runs, and connect() returns in the end. *)
(* Nobody owes a phone that connects, or a call.                           *)
Fairness == WF_vars(StreamStep /\ pc # "accept")

Spec == Init /\ [][Next]_vars /\ Fairness

-----------------------------------------------------------------------------
(* Type invariant. *)
TypeOK ==
    /\ itcp_state \in {"INITIAL", "STARTIN", "STARTED", "STOPPIN", "STOPPED"}
    /\ mode \in Modes
    /\ pc \in Starting \union {"none", "closeRead", "closeSo", "up", "down"}
    /\ after \in {"none", "start", "down"}
    /\ tcp_so_fd \in 0..MaxFd
    /\ readfd \in 0..MaxFd
    /\ readfd # 0 => tcp_so_fd # 0
    /\ table \in [Fds -> {"free", "stream", "other"}]
    /\ others \subseteq Fds
    /\ stolen \in BOOLEAN

(* When Start() has returned 0, readfd is a descriptor the stream opened,  *)
(* although the state it goes by is shared by all streams; unless a stream *)
(* has closed a descriptor of another thread, which may then close its.    *)
StartedIsConnected ==
    (pc = "up" /\ ~stolen) => readfd # 0 /\ table[readfd] = "stream"

(* Outside Start(), a stopped, failed or replaced stream has left no       *)
(* descriptor open.                                                        *)
NoLeak ==
    (pc \in {"none", "down", "start"} /\ ~stolen) => \A f \in Fds : table[f] # "stream"

(* itcp_deinit() can close a descriptor of another thread only in connect  *)
(* mode, where it closes the same number twice.                            *)
StealsOnlyWhenConnecting == stolen => mode = "connect"

(* In connect mode Start() returns, whether there is a phone or not. *)
StartReturns ==
    (mode = "connect" /\ pc \in Starting) ~> pc \in {"up", "down"}
=============================================================================
