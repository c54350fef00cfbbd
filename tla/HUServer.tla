------------------------------ MODULE HUServer ------------------------------
(***************************************************************************)
(* Lifecycle of one HUServer object (src/hu/hu_aap.cpp, hu_aap.h): the     *)
(* "main" thread of the application, which calls start() and shutdown();   *)
(* the HU thread, which runs mainThread(); the threads of the application  *)
(* that call queueCommand(); and the transport under them.                 *)
(*                                                                         *)
(* The HU thread runs its handlers and the commands synchronously, and     *)
(* stop() sends a message whose failure calls stop() again.  Its call      *)
(* stack is therefore part of the state: hu holds what is left to execute. *)
(***************************************************************************)
EXTENDS Naturals, Sequences, FiniteSets

CONSTANTS
    Callers,              \* threads, other than main and HU, that queue commands
    PipeCapacity,         \* packets the O_DIRECT command pipe holds (16 on Linux)
    MaxPosts,             \* bound: commands queued in one session
    MaxWriteFailures,     \* bound: transport writes that fail in one session
    StackLimit,           \* nested stop() calls that exhaust the HU thread's stack
    MaxSessions,          \* bound: calls of start() that do something
    MaxCallbackOps,       \* bound: calls one command or callback makes to the server
    TransportTypes,       \* settings["transport_type"]: "usb", "network"
    SelectMayFail,        \* select() in mainThread may be interrupted (EINTR)
    RestartNeedsShutdown  \* the application calls shutdown() before it starts again

ASSUME BoundsAssumption ==
    /\ PipeCapacity \in Nat \ {0}
    /\ MaxPosts \in Nat
    /\ MaxWriteFailures \in Nat
    /\ StackLimit \in Nat \ {0}
    /\ MaxSessions \in Nat \ {0}
    /\ MaxCallbackOps \in Nat

ASSUME SwitchesAssumption ==
    /\ TransportTypes \subseteq {"usb", "network"}
    /\ SelectMayFail \in BOOLEAN
    /\ RestartNeedsShutdown \in BOOLEAN

VARIABLES
    iaap_state,           \* HU_STATE
    transport_type,       \* the setting, fixed for the object
    transport,            \* the unique_ptr, and whether its stream is open
    link,                 \* what the phone and the wire have done to the stream
    main,                 \* where the main thread is; "idle": outside HUServer
    resume,               \* where main goes after shutdown(): start() called it through stop()
    owed,                 \* start() has returned 0 and shutdown() not been called since
    hu_thread,            \* std::thread: "none" is not joinable, "finished" is
    hu,                   \* operations the HU thread still has to execute
    hu_thread_quit_flag,
    told,                 \* DisconnectionOrError() was called since the HU thread began
    command_fd,           \* session whose command pipe is open; 0 is fd -1
    pipe,                 \* the commands in the pipe
    caller,               \* session whose write fd a thread in queueCommand() read; 0: not in it
    session,              \* sessions started
    posts, failures,      \* commands queued and writes failed in this session
    stray,                \* a command was written to a descriptor that is not a command pipe
    fate                  \* anything but "running" is the end of the process

setVars     == <<transport_type, session>>
mainVars    == <<main, resume, owed>>
sessionVars == <<setVars, iaap_state, transport, link, mainVars>>
flagVars    == <<hu_thread, hu_thread_quit_flag, told>>
huVars      == <<flagVars, hu>>
pipeVars    == <<command_fd, pipe>>
callVars    == <<caller, posts, stray>>
endVars     == <<failures, fate>>
vars        == <<sessionVars, huVars, pipeVars, callVars, endVars>>

HU_STATE   == {"INITIAL", "STARTIN", "STARTED", "STOPPIN", "STOPPED"}
MainPoints == {"idle", "open", "version", "receive", "pipe", "spawn",
               "queue", "join", "joinUnasked", "release", "stopTransport"}
Starting   == {"open", "version", "receive", "pipe", "spawn"}
Ops        == {"pop", "recv", "write", "stop", "gone", "post", "spin"}
Command    == [cmd : {"user", "bye"}, session : 0..MaxSessions]

Init ==
    /\ iaap_state = "INITIAL"
    /\ transport_type \in TransportTypes
    /\ transport = "none"
    /\ link = "up"
    /\ main = "idle"
    /\ resume = "idle"
    /\ owed = FALSE
    /\ hu_thread = "none"
    /\ hu = <<>>
    /\ hu_thread_quit_flag = FALSE
    /\ told = FALSE
    /\ command_fd = 0
    /\ pipe = <<>>
    /\ caller = [c \in Callers |-> 0]
    /\ session = 0
    /\ posts = 0
    /\ failures = 0
    /\ stray = FALSE
    /\ fate = "running"

-----------------------------------------------------------------------------
(* The main thread: start() *)

(* Mutant: the state is not checked. *)
StartUnchecked ==
    /\ main = "idle"
    /\ RestartNeedsShutdown => ~owed
    /\ session < MaxSessions
    /\ session' = session + 1
    /\ iaap_state' = "STARTIN"
    /\ main' = "open"
    /\ UNCHANGED <<transport, link, resume, owed, transport_type, huVars,
                   pipeVars, callVars, endVars>>

(* start() called by the application; in STARTIN or STARTED it returns 0   *)
(* and changes nothing, a step this module leaves out.                     *)
Start ==
    /\ main = "idle"
    /\ iaap_state \notin {"STARTIN", "STARTED"}
    /\ RestartNeedsShutdown => ~owed
    /\ session < MaxSessions
    /\ session' = session + 1
    /\ iaap_state' = "STARTIN"
    /\ main' = "open"
    /\ UNCHANGED <<transport, link, resume, owed, transport_type, huVars,
                   pipeVars, callVars, endVars>>

(* startTransport() succeeded: a new stream replaces the old one. *)
OpenTransport ==
    /\ main = "open"
    /\ transport' = "open"
    /\ link' = "up"
    /\ main' = "version"
    /\ UNCHANGED <<iaap_state, resume, owed, huVars, pipeVars, callVars,
                   setVars, endVars>>

(* The stream object exists but could not start, or the type is unknown    *)
(* and there is no new object.                                             *)
OpenTransportFails ==
    /\ main = "open"
    /\ transport' \in {transport, "stopped"}
    /\ iaap_state' = "STOPPED"
    /\ main' = "idle"
    /\ UNCHANGED <<link, resume, owed, huVars, pipeVars, callVars, setVars,
                   endVars>>

SendVersion ==
    /\ main = "version"
    /\ main' = "receive"
    /\ UNCHANGED <<iaap_state, transport, link, resume, owed, huVars, pipeVars,
                   callVars, setVars, endVars>>

(* The write fails, stop() runs shutdown(), and start() returns -1. *)
SendVersionFails ==
    /\ main = "version"
    /\ main' = "queue"
    /\ resume' = "idle"
    /\ UNCHANGED <<iaap_state, transport, link, owed, huVars, pipeVars,
                   callVars, setVars, endVars>>

(* The rounds of processReceived(2000) up to AuthComplete. *)
HandshakeCompletes ==
    /\ main = "receive"
    /\ link \in {"up", "lost"}
    /\ iaap_state' = "STARTED"
    /\ main' = "pipe"
    /\ UNCHANGED <<transport, link, resume, owed, huVars, pipeVars, callVars,
                   setVars, endVars>>

(* Mutant: a failed handshake returns without shutdown(). *)
HandshakeFailsUnstopped ==
    /\ main = "receive"
    /\ link \in {"up", "lost"}
    /\ main' = "idle"
    /\ resume' \in {"idle", "queue"}
    /\ UNCHANGED <<iaap_state, transport, link, owed, huVars, pipeVars,
                   callVars, setVars, endVars>>

(* A message or a frame makes processReceived() return an error; a failed  *)
(* write or SSL step has also run stop(), so shutdown() runs twice.        *)
HandshakeFails ==
    /\ main = "receive"
    /\ link \in {"up", "lost"}
    /\ main' = "queue"
    /\ resume' \in {"idle", "queue"}
    /\ UNCHANGED <<iaap_state, transport, link, owed, huVars, pipeVars,
                   callVars, setVars, endVars>>

(* Mutant: the wait for the next packet has no timeout. *)
HandshakeStarvesUntimed ==
    /\ main = "receive"
    /\ link \in {"signalled", "reset"}
    /\ main' = "queue"
    /\ resume' = IF link = "reset" THEN "queue" ELSE "idle"
    /\ UNCHANGED <<iaap_state, transport, link, owed, huVars, pipeVars,
                   callVars, setVars, endVars>>

(* The next packet does not come: select() times out after a second, or    *)
(* finds the error descriptor, or read() fails and runs stop().  While the *)
(* phone sends messages that are taken (they return 0) there is always a   *)
(* next packet and start() waits on; at end of file processReceived()      *)
(* returns 0 and start() calls it for ever.                                *)
HandshakeStarves ==
    /\ main = "receive"
    /\ link \in {"lost", "silent", "signalled", "reset"}
    /\ main' = "queue"
    /\ resume' = IF link = "reset" THEN "queue" ELSE "idle"
    /\ UNCHANGED <<iaap_state, transport, link, owed, huVars, pipeVars,
                   callVars, setVars, endVars>>

(* MessageFilter() calls stop(), which runs shutdown() in STARTIN, and no  *)
(* error is returned: the loop ends as the state has changed, and start()  *)
(* goes on as if the handshake were complete.                              *)
HandshakeStopped ==
    /\ main = "receive"
    /\ link \in {"up", "lost"}
    /\ main' = "queue"
    /\ resume' = "pipe"
    /\ UNCHANGED <<iaap_state, transport, link, owed, huVars, pipeVars,
                   callVars, setVars, endVars>>

CreatePipe ==
    /\ main = "pipe"
    /\ command_fd' = session
    /\ pipe' = <<>>
    /\ posts' = 0
    /\ main' = "spawn"
    /\ UNCHANGED <<iaap_state, transport, link, resume, owed, caller, stray,
                   huVars, setVars, endVars>>

CreatePipeFails ==
    /\ main = "pipe"
    /\ main' = "queue"
    /\ resume' = "idle"
    /\ UNCHANGED <<iaap_state, transport, link, owed, huVars, pipeVars,
                   callVars, setVars, endVars>>

(* Assigning to a std::thread that is still joinable calls std::terminate. *)
Spawn ==
    /\ main = "spawn"
    /\ transport = "open"
    /\ main' = "idle"
    /\ hu_thread_quit_flag' = FALSE
    /\ told' = FALSE
    /\ failures' = 0
    /\ hu' = <<>>
    /\ hu_thread' = "running"
    /\ owed' = TRUE
    /\ fate' = IF hu_thread = "none" THEN fate ELSE "terminated"
    /\ UNCHANGED <<iaap_state, transport, link, resume, pipeVars, callVars,
                   setVars>>

(* MessageFilter() has stopped the transport: the new thread calls         *)
(* GetReadFD() through a null pointer.                                     *)
SpawnStopped ==
    /\ main = "spawn"
    /\ transport # "open"
    /\ fate' = "crashed"
    /\ UNCHANGED <<failures, sessionVars, huVars, pipeVars, callVars>>

-----------------------------------------------------------------------------
(* The main thread: shutdown() *)

Shutdown ==
    /\ main = "idle"
    /\ main' = "queue"
    /\ resume' = "idle"
    /\ owed' = FALSE
    /\ UNCHANGED <<iaap_state, transport, link, huVars, pipeVars, callVars,
                   setVars, endVars>>

(* A joinable thread is sent the command that ends it.  write() blocks     *)
(* while the pipe is full.                                                 *)
QueueBye ==
    /\ main = "queue"
    /\ hu_thread # "none"
    /\ Len(pipe) < PipeCapacity
    /\ pipe' = Append(pipe, [cmd |-> "bye", session |-> command_fd])
    /\ main' = "join"
    /\ UNCHANGED <<iaap_state, transport, link, resume, owed, command_fd,
                   huVars, callVars, setVars, endVars>>

(* The write fails; shutdown() logs it and joins a thread that nobody has  *)
(* told to end.                                                            *)
QueueByeFails ==
    /\ main = "queue"
    /\ hu_thread # "none"
    /\ main' = "joinUnasked"
    /\ UNCHANGED <<iaap_state, transport, link, resume, owed, huVars, pipeVars,
                   callVars, setVars, endVars>>

(* Mutant: the thread is not joined. *)
NothingToJoinUnchecked ==
    /\ main = "queue"
    /\ main' = "release"
    /\ UNCHANGED <<iaap_state, transport, link, resume, owed, huVars, pipeVars,
                   callVars, setVars, endVars>>

NothingToJoin ==
    /\ main = "queue"
    /\ hu_thread = "none"
    /\ main' = "release"
    /\ UNCHANGED <<iaap_state, transport, link, resume, owed, huVars, pipeVars,
                   callVars, setVars, endVars>>

Join ==
    /\ main \in {"join", "joinUnasked"}
    /\ hu_thread = "finished"
    /\ hu_thread' = "none"
    /\ main' = "release"
    /\ UNCHANGED <<iaap_state, transport, link, resume, owed, hu,
                   hu_thread_quit_flag, told, pipeVars, callVars,
                   setVars, endVars>>

(* Both ends of the pipe are closed; commands still in it are lost.  A     *)
(* thread that waits in write() for room in it gets SIGPIPE, which nothing *)
(* ignores, as the last reader goes.                                       *)
Release ==
    /\ main = "release"
    /\ command_fd' = 0
    /\ pipe' = <<>>
    /\ iaap_state' = "STOPPIN"
    /\ main' = "stopTransport"
    /\ \/ fate' = fate
       \/ /\ Len(pipe) = PipeCapacity
          /\ \E c \in Callers : caller[c] # 0 /\ caller[c] = command_fd
          /\ fate' = "killed"
    /\ UNCHANGED <<transport, link, resume, owed, huVars, callVars, setVars,
                   failures>>

(* Mutant: every shutdown() that stop() ran is run again, for ever. *)
StopTransportAgain ==
    /\ main = "stopTransport"
    /\ transport' = "none"
    /\ iaap_state' = "STOPPED"
    /\ main' = resume
    /\ resume' = resume
    /\ UNCHANGED <<link, owed, huVars, pipeVars, callVars, setVars, endVars>>

StopTransport ==
    /\ main = "stopTransport"
    /\ transport' = "none"
    /\ iaap_state' = "STOPPED"
    /\ main' = resume
    /\ resume' = "idle"
    /\ UNCHANGED <<link, owed, huVars, pipeVars, callVars, setVars, endVars>>

-----------------------------------------------------------------------------
(* The HU thread *)

(* The head of the stack is replaced by the operations it calls. *)
Call(ops) == hu' = ops \o Tail(hu)

At(op) == hu_thread = "running" /\ hu # <<>> /\ Head(hu) = op

(* The top of the loop of mainThread(). *)
Looping == hu_thread = "running" /\ hu = <<>> /\ ~hu_thread_quit_flag

HuExit ==
    /\ hu_thread = "running"
    /\ hu = <<>>
    /\ hu_thread_quit_flag
    /\ iaap_state' = "STOPPED"
    /\ hu_thread' = "finished"
    /\ UNCHANGED <<transport, link, hu, hu_thread_quit_flag, told,
                   mainVars, pipeVars, callVars, setVars, endVars>>

(* select() <= 0: the thread returns without a callback or a state change. *)
HuSelectFails ==
    /\ Looping
    /\ SelectMayFail
    /\ hu_thread' = "finished"
    /\ UNCHANGED <<hu, hu_thread_quit_flag, told, sessionVars, pipeVars,
                   callVars, endVars>>

(* Mutant: the loop ends without the callback. *)
HuSelectErrorSilent ==
    /\ Looping
    /\ link = "signalled"
    /\ hu_thread_quit_flag' = TRUE
    /\ told' = told
    /\ UNCHANGED <<hu_thread, hu, sessionVars, pipeVars, callVars, endVars>>

HuSelectError ==
    /\ Looping
    /\ link = "signalled"
    /\ hu_thread_quit_flag' = TRUE
    /\ told' = TRUE
    /\ UNCHANGED <<hu_thread, hu, sessionVars, pipeVars, callVars, endVars>>

AtEnd == link \in {"eof", "reset"}     \* the descriptor stays readable

(* Whether a packet may be ready when select() returns with a command. *)
DataReady == IF AtEnd THEN {TRUE} ELSE IF link = "silent" THEN {FALSE} ELSE BOOLEAN

(* Mutant: a command is run only when there is no data. *)
HuSelectCommandElse ==
    /\ Looping
    /\ link # "signalled"
    /\ pipe # <<>>
    /\ \E data \in DataReady :
          hu' = IF data THEN <<"recv">> ELSE <<"pop">>
    /\ UNCHANGED <<sessionVars, flagVars, pipeVars, callVars, endVars>>

(* A command is ready; one is run, and then at most one message. *)
HuSelectCommand ==
    /\ Looping
    /\ link # "signalled"
    /\ pipe # <<>>
    /\ \E data \in DataReady :
          hu' = IF data THEN <<"pop", "recv">> ELSE <<"pop">>
    /\ UNCHANGED <<sessionVars, flagVars, pipeVars, callVars, endVars>>

HuSelectData ==
    /\ Looping
    /\ link \notin {"signalled", "silent"}
    /\ pipe = <<>>
    /\ hu' = <<"recv">>
    /\ UNCHANGED <<sessionVars, flagVars, pipeVars, callVars, endVars>>

(* What a command or a callback of the application may do with the stream  *)
(* it is given: send a message, stop(), queue another command, any number  *)
(* of times in any order.                                                  *)
AppPrograms ==
    UNION {[1..n -> {"write", "stop", "post"}] : n \in 0..MaxCallbackOps}

(* Mutant: the command forgets to call stop(). *)
ByeProgramOnlySends == <<"write">>

(* The command shutdown() queues. *)
ByeProgram == IF iaap_state = "STARTED" THEN <<"write", "stop">> ELSE <<"stop">>

HuPop ==
    /\ At("pop")
    /\ pipe # <<>>
    /\ pipe' = Tail(pipe)
    /\ \/ Head(pipe).cmd = "bye"  /\ Call(ByeProgram)
       \/ Head(pipe).cmd = "user" /\ \E ops \in AppPrograms : Call(ops)
    /\ UNCHANGED <<command_fd, sessionVars, flagVars, callVars, endVars>>

(* What processReceived() and mainThread() do themselves with what was     *)
(* read: a handler sends none, one or two answers; an error is returned,   *)
(* after which mainThread() calls stop(); on some errors stop() has been   *)
(* called already; the phone's ShutdownRequest is answered, stops and      *)
(* returns an error.                                                       *)
HandlerPrograms ==
    {<<>>, <<"write">>, <<"write", "write">>, <<"stop">>,
     <<"stop", "stop">>, <<"write", "stop", "stop">>}

(* The callbacks of a message run before the rest of its handler. *)
ReceivePrograms ==
    {callback \o handler : callback \in AppPrograms, handler \in HandlerPrograms}

(* At end of file the header read returns 0 and so does processReceived(); *)
(* in the middle of a frame it reads 0 bytes for ever.                     *)
EofPrograms == {<<>>, <<"spin">>}

HuReceive ==
    /\ At("recv")
    /\ \/ link \in {"up", "lost", "silent"} /\ \E ops \in ReceivePrograms : Call(ops)
       \/ link = "signalled" /\ Call(<<"stop">>)
       \/ link = "eof"       /\ \E ops \in EofPrograms : Call(ops)
       \/ link = "reset"     /\ Call(<<"stop", "stop">>)
    /\ UNCHANGED <<sessionVars, flagVars, pipeVars, callVars, endVars>>

(* Mutant: a complete write counts as a short one. *)
HuWriteShort ==
    /\ At("write")
    /\ Call(<<"stop">>)
    /\ UNCHANGED <<sessionVars, flagVars, pipeVars, callVars, endVars>>

(* sendTransportPacket() with retry = 0.  A kernel or libusb may accept    *)
(* bytes the phone never gets, so a write may succeed on a lost link.      *)
HuWrite ==
    /\ At("write")
    /\ Call(<<>>)
    /\ UNCHANGED <<sessionVars, flagVars, pipeVars, callVars, endVars>>

HuWriteFails ==
    /\ At("write")
    /\ failures < MaxWriteFailures
    /\ failures' = failures + 1
    /\ Call(<<"stop">>)
    /\ UNCHANGED <<fate, sessionVars, flagVars, pipeVars, callVars>>

(* stop() calls in progress on the HU thread. *)
StopDepth == Cardinality({i \in 1..Len(hu) : hu[i] = "gone"})

(* stop(): the ShutdownRequest is sent before the flag is set, so a failed *)
(* send enters stop() again in the same state.                             *)
HuStop ==
    /\ At("stop")
    /\ IF iaap_state = "STARTED" THEN Call(<<"write", "gone">>) ELSE Call(<<>>)
    /\ fate' = IF StopDepth >= StackLimit THEN "overflow" ELSE fate
    /\ UNCHANGED <<failures, sessionVars, flagVars, pipeVars, callVars>>

(* Mutant: stop() does not call DisconnectionOrError(). *)
HuGoneSilent ==
    /\ At("gone")
    /\ hu_thread_quit_flag' = TRUE
    /\ told' = told
    /\ Call(<<>>)
    /\ UNCHANGED <<hu_thread, sessionVars, pipeVars, callVars, endVars>>

HuGone ==
    /\ At("gone")
    /\ hu_thread_quit_flag' = TRUE
    /\ told' = TRUE
    /\ Call(<<>>)
    /\ UNCHANGED <<hu_thread, sessionVars, pipeVars, callVars, endVars>>

(* queueCommand() from a command or a callback, on the HU thread itself:   *)
(* on a full pipe write() waits for room that only this thread makes.      *)
(* Beyond MaxPosts the command is not one the application queues.          *)
HuPost ==
    /\ At("post")
    /\ Len(pipe) < PipeCapacity
    /\ Call(<<>>)
    /\ \/ /\ posts < MaxPosts
          /\ posts' = posts + 1
          /\ pipe' = Append(pipe, [cmd |-> "user", session |-> command_fd])
       \/ posts = MaxPosts /\ UNCHANGED <<pipe, posts>>
    /\ UNCHANGED <<command_fd, caller, stray, sessionVars, flagVars, endVars>>

-----------------------------------------------------------------------------
(* The other threads of the application: queueCommand() reads the member   *)
(* command_write_fd and then calls write() on it, without a lock.          *)

CallQueueCommand(c) ==
    /\ caller[c] = 0
    /\ command_fd # 0
    /\ posts < MaxPosts
    /\ posts' = posts + 1
    /\ caller' = [caller EXCEPT ![c] = command_fd]
    /\ UNCHANGED <<stray, sessionVars, huVars, pipeVars, endVars>>

(* Mutant: the packet holds no pointer to a command. *)
WriteCommandNull(c) ==
    /\ caller[c] # 0
    /\ caller[c] = command_fd
    /\ Len(pipe) < PipeCapacity
    /\ pipe' = Append(pipe, [cmd |-> "null", session |-> caller[c]])
    /\ caller' = [caller EXCEPT ![c] = 0]
    /\ UNCHANGED <<command_fd, posts, stray, sessionVars, huVars, endVars>>

(* Mutant: the pipe takes one packet. *)
WriteCommandIfEmpty(c) ==
    /\ caller[c] # 0
    /\ caller[c] = command_fd
    /\ pipe = <<>>
    /\ pipe' = Append(pipe, [cmd |-> "user", session |-> caller[c]])
    /\ caller' = [caller EXCEPT ![c] = 0]
    /\ UNCHANGED <<command_fd, posts, stray, sessionVars, huVars, endVars>>

(* The pipe is still the one the descriptor was read for. *)
WriteCommand(c) ==
    /\ caller[c] # 0
    /\ caller[c] = command_fd
    /\ Len(pipe) < PipeCapacity
    /\ pipe' = Append(pipe, [cmd |-> "user", session |-> caller[c]])
    /\ caller' = [caller EXCEPT ![c] = 0]
    /\ UNCHANGED <<command_fd, posts, stray, sessionVars, huVars, endVars>>

(* shutdown() has closed it: write() returns an error, or the number names *)
(* another descriptor, which may be the pipe of a later session.           *)
WriteClosed(c) ==
    /\ caller[c] # 0
    /\ caller[c] # command_fd
    /\ caller' = [caller EXCEPT ![c] = 0]
    /\ \/ UNCHANGED <<pipe, stray>>
       \/ stray' = TRUE /\ UNCHANGED pipe
       \/ /\ command_fd # 0
          /\ Len(pipe) < PipeCapacity
          /\ pipe' = Append(pipe, [cmd |-> "user", session |-> caller[c]])
          /\ UNCHANGED stray
    /\ UNCHANGED <<command_fd, posts, sessionVars, huVars, endVars>>

-----------------------------------------------------------------------------
(* The phone and the wire.  USB: a failed transfer ends reception and then *)
(* signals the error pipe.  Network: the phone closes or the link resets.  *)
(* On either the phone may fall silent, and over USB reception may end     *)
(* unnoticed, when start_usb_recv() fails: nothing comes any more and no   *)
(* descriptor tells it.                                                    *)

LinkGoesDown ==
    /\ transport = "open"
    /\ link = "up"
    /\ \/ transport_type = "usb"     /\ link' \in {"lost", "silent"}
       \/ transport_type = "network" /\ link' \in {"eof", "reset", "silent"}
    /\ UNCHANGED <<iaap_state, transport, mainVars, huVars, pipeVars, callVars,
                   setVars, endVars>>

LinkSignals ==
    /\ link = "lost"
    /\ link' = "signalled"
    /\ UNCHANGED <<iaap_state, transport, mainVars, huVars, pipeVars, callVars,
                   setVars, endVars>>

-----------------------------------------------------------------------------
MainStep ==
    \/ OpenTransport \/ OpenTransportFails \/ SendVersion \/ SendVersionFails
    \/ HandshakeStarves \/ CreatePipe \/ CreatePipeFails \/ Spawn \/ SpawnStopped
    \/ QueueBye \/ NothingToJoin \/ Join \/ Release \/ StopTransport

HuStep ==
    \/ HuExit \/ HuSelectError \/ HuSelectCommand
    \/ HuPop \/ HuReceive \/ HuWrite \/ HuWriteFails \/ HuStop \/ HuGone \/ HuPost

CallerStep(c) == WriteCommand(c) \/ WriteClosed(c)

(* Steps nobody owes: calls of the application, what the phone and the     *)
(* wire do, and failures.                                                  *)
Environment ==
    \/ Start \/ Shutdown \/ (\E c \in Callers : CallQueueCommand(c))
    \/ HandshakeCompletes \/ HandshakeFails \/ HandshakeStopped \/ QueueByeFails
    \/ HuSelectFails \/ HuSelectData \/ LinkGoesDown \/ LinkSignals

Next ==
    /\ fate = "running"
    /\ \/ MainStep \/ HuStep \/ Environment
       \/ \E c \in Callers : CallerStep(c)

Spec == Init /\ [][Next]_vars

(* A thread that can take its next step eventually takes it: the scheduler *)
(* runs every thread, a write() into a pipe with room returns, and so does *)
(* the select() of receiveTransportPacket() after a second without a       *)
(* packet.  Nobody owes a call, a message, a signal, a failure or a        *)
(* handshake.                                                              *)
Fairness ==
    /\ WF_vars(MainStep /\ fate = "running")
    /\ WF_vars((HuStep \/ (HuSelectData /\ AtEnd)) /\ fate = "running")
    /\ \A c \in Callers : WF_vars(CallerStep(c) /\ fate = "running")

FairSpec == Spec /\ Fairness
-----------------------------------------------------------------------------
(* Type invariant: the values the members and the two stacks can take. *)
TypeOK ==
    /\ iaap_state \in HU_STATE
    /\ transport_type \in TransportTypes
    /\ transport \in {"none", "stopped", "open"}
    /\ link \in {"up", "lost", "silent", "signalled", "eof", "reset"}
    /\ main \in MainPoints
    /\ resume \in {"idle", "queue", "pipe"}
    /\ owed \in BOOLEAN
    /\ hu_thread \in {"none", "running", "finished"}
    /\ hu \in Seq(Ops)
    /\ hu_thread_quit_flag \in BOOLEAN
    /\ told \in BOOLEAN
    /\ command_fd \in 0..MaxSessions
    /\ pipe \in Seq(Command)
    /\ caller \in [Callers -> 0..MaxSessions]
    /\ session \in 0..MaxSessions
    /\ posts \in Nat
    /\ failures \in Nat
    /\ stray \in BOOLEAN
    /\ fate \in {"running", "overflow", "terminated", "crashed", "killed"}

(* While mainThread() runs, what it uses without checking stays: the       *)
(* state is STARTED, the transport is open, so its two descriptors are     *)
(* valid, and the command pipe exists.  start() and shutdown() on the main *)
(* thread never take them away under it.                                   *)
HuThreadOwnsSession ==
    hu_thread = "running" =>
        iaap_state = "STARTED" /\ transport = "open" /\ command_fd # 0

(* However start() failed or shutdown() was reached, when the main thread  *)
(* is outside HUServer and there is no thread to join, the object holds no *)
(* descriptor and no open stream, and another start() is accepted.         *)
StoppedIsClean ==
    (main = "idle" /\ hu_thread = "none") =>
        iaap_state \in {"INITIAL", "STOPPED"} /\ command_fd = 0 /\ transport # "open"

(* stop() and sendTransportPacket() call each other once for each failed   *)
(* write, so only as many failures in a session as the stack has room for  *)
(* nested calls can exhaust it.                                            *)
StackBounded ==
    /\ StopDepth <= failures + 1
    /\ fate = "overflow" => failures >= StackLimit

(* An application that shuts down before it starts again never has start() *)
(* assign to a joinable std::thread.                                       *)
NoTerminate == fate # "terminated"

(* While shutdown() waits in join() after it could queue its command, that *)
(* command is never lost: it is in the pipe, or the HU thread is about to  *)
(* call stop(), or its loop is told to end.  (Whether the thread comes to  *)
(* read it is ShutdownReturns.)                                            *)
JoinedThreadWillEnd ==
    (main = "join" /\ hu_thread = "running") =>
        \/ hu_thread_quit_flag
        \/ \E i \in 1..Len(pipe) : pipe[i].cmd = "bye"
        \/ \E i \in 1..Len(hu) : hu[i] \in {"stop", "gone"}

(* A command queued from any thread goes to the pipe of the session it was *)
(* queued in: never to another descriptor, never to a later session.       *)
CommandsStayInSession ==
    /\ ~stray
    /\ \A i \in 1..Len(pipe) : pipe[i].session = command_fd

(* A failed send "stops Transport & AAP", as sendTransportPacket() logs: it *)
(* ends the session and not the process.                                   *)
SendErrorStops == fate # "overflow"

-----------------------------------------------------------------------------
(* Nobody makes room in the pipe any more: its only reader has ended, or   *)
(* waits itself, in queueCommand() called from a command or a callback.    *)
PipeStuck ==
    /\ Len(pipe) = PipeCapacity
    /\ hu_thread # "running" \/ At("post")

(* Whatever the phone, the callbacks, other threads and the wire do,       *)
(* shutdown() returns once its command was queued, except that it waits    *)
(* for good on a pipe that nobody reads, or that the process has ended.    *)
ShutdownReturns ==
    main = "queue" ~>
        \/ main \in {"idle", "joinUnasked"}
        \/ fate # "running"
        \/ []PipeStuck

(* Once the phone sends nothing more, start() ends its wait for it and     *)
(* returns, through however many runs of shutdown(), unless the process    *)
(* ends.  (A phone that goes on sending messages can hold it for ever.)    *)
StartReturns ==
    (main = "receive" /\ link # "up") ~> (main = "idle" \/ fate # "running")

(* A thread in queueCommand() comes out of it, also when the pipe was      *)
(* full, and when shutdown() closes the pipe meanwhile: only a pipe that   *)
(* nobody reads or the end of the process holds it.                        *)
QueueCommandReturns ==
    \A c \in Callers :
        caller[c] # 0 ~> (caller[c] = 0 \/ fate # "running" \/ []PipeStuck)

(* A loss of the link that the transport has signalled reaches the         *)
(* application while the session lasts, however busy the HU thread is with *)
(* commands, messages and failing writes; only its waiting on the full     *)
(* pipe and the end of the process come between.                           *)
DisconnectReported ==
    (hu_thread = "running" /\ link = "signalled") ~>
        (told \/ fate # "running" \/ []PipeStuck)

(* Queued commands are run, or the session ends, however much data comes;  *)
(* again but for the full pipe and the end of the process.                 *)
QueuedCommandsRun ==
    pipe # <<>> ~>
        \/ pipe = <<>>
        \/ hu_thread_quit_flag
        \/ hu_thread = "none"
        \/ fate # "running"
        \/ []PipeStuck

(* stop() stops the transport, as its comment says. *)
StopStopsTransport ==
    (hu_thread = "running" /\ hu_thread_quit_flag) ~> transport # "open"

-----------------------------------------------------------------------------
(* What the application sees of all this: HUSession. *)
Dead == fate # "running" \/ (hu_thread = "running" /\ PipeStuck)

LivePhase ==
    CASE hu_thread = "running"  -> "up"
      [] hu_thread = "finished" -> "ended"
      [] hu_thread = "none"     -> IF main \in Starting \/ resume = "pipe"
                                   THEN "connecting" ELSE "down"

SessionPhase == IF Dead THEN "dead" ELSE LivePhase

Session == INSTANCE HUSession WITH
    phase <- SessionPhase,
    told  <- hu_thread # "none" /\ told

(* Every session goes through the phases of HUSession, one that was up     *)
(* ends only after DisconnectionOrError(), and one whose end was announced *)
(* ends.                                                                   *)
SessionSpec == Session!Spec

=============================================================================
