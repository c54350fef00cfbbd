--------------------------- MODULE HUTransportUSB ---------------------------
(***************************************************************************)
(* HUTransportStreamUSB (src/hu/hu_usb.cpp): the thread that owns the      *)
(* stream and calls Start(), Write() and Stop() and reads readfd; the USB  *)
(* thread, which runs the libusb callbacks and writes what it receives to  *)
(* the data pipe; and the phone.  Data is counted in units; unit n is the  *)
(* n-th the phone sends.                                                   *)
(***************************************************************************)
EXTENDS Naturals, Sequences, FiniteSets

CONSTANTS
    Devices,          \* what libusb_get_device_list() returns
    PipeCapacity,     \* units the data pipe holds (64 KiB on Linux)
    BufferSize,       \* first size of m_tempReceiveBuffer (16 KiB)
    MaxBuffer,        \* bound: size after which a transfer no longer overflows
    MaxUnits,         \* bound: units the phone sends
    MaxSends          \* bound: Write() transfers in flight

ASSUME BoundsAssumption ==
    /\ PipeCapacity \in Nat \ {0}
    /\ BufferSize \in Nat \ {0}
    /\ MaxBuffer \in Nat
    /\ MaxBuffer >= BufferSize
    /\ MaxUnits \in Nat
    /\ MaxSends \in Nat

VARIABLES
    m_state,          \* HU_STATE
    owner,            \* the next statement of the thread that owns the stream
    libusb,           \* m_usbContext and m_usbDeviceHandle, when not null
    leaked,           \* devices opened while probed and never closed
    probed,           \* devices the loop of Start() is done with, while it runs
    device,           \* the phone on the bus
    fd,               \* the six descriptor members
    pipe,             \* units in the data pipe
    signals,          \* words in the error pipe
    abort,            \* the abort pipe is readable
    usb_thread,       \* usb_recv_thread
    rest,             \* units the callback still has to write
    bufferSize,       \* m_tempReceiveBuffer.size()
    flying,           \* receive transfers submitted and not completed
    done,             \* receive transfers completed, callback not run
    sends,            \* transfers of Write() in flight
    sendsFailed,      \* ... that failed, callback not run
    sent,             \* units the phone has sent
    dropped,          \* those lost by transfers that overflowed
    received          \* units read from readfd

ownerVars  == <<m_state, owner, libusb, leaked, probed>>
fdVars     == <<fd, signals>>
threadVars == <<usb_thread, rest, abort>>
recvVars   == <<bufferSize, flying, done>>
sendVars   == <<sends, sendsFailed>>
dataVars   == <<sent, dropped, received>>
vars == <<ownerVars, device, fdVars, pipe, threadVars, recvVars, sendVars, dataVars>>

HU_STATE == {"INITIAL", "STARTIN", "STARTED", "STOPPIN", "STOPPED"}
Members  == {"readfd", "m_pipeWriteFD", "errorfd", "m_errorWriteFD",
             "abort_read", "abort_write"}
Starting == {"init", "find", "probe", "refind", "claim", "dataPipe",
             "errorPipe", "abortPipe", "spawn", "submit"}
Stopping == {"stop", "closeWrite", "forgetData", "closeError",
             "closeErrorWrite", "forgetError", "abort", "join", "release"}
Present  == {"plain", "accessory", "gone"}

Init ==
    /\ m_state = "INITIAL"
    /\ owner = "new"
    /\ libusb = {}
    /\ leaked = {}
    /\ probed = {}
    /\ device \in Present
    /\ fd = [m \in Members |-> "none"]
    /\ pipe = <<>>
    /\ signals = 0
    /\ abort = FALSE
    /\ usb_thread = "none"
    /\ rest = <<>>
    /\ bufferSize = 0
    /\ flying = 0
    /\ done = <<>>
    /\ sends = 0
    /\ sendsFailed = 0
    /\ sent = 0
    /\ dropped = {}
    /\ received = <<>>

-----------------------------------------------------------------------------
(* Start() *)

Goto(point) == owner' = point

(* What the steps of Start() before the pipes leave alone. *)
Streamless == UNCHANGED <<fdVars, pipe, threadVars, recvVars, sendVars, dataVars>>

Start ==
    /\ owner = "new"
    /\ m_state' = "STARTIN"
    /\ Goto("init")
    /\ UNCHANGED <<libusb, leaked, probed, device>> /\ Streamless

InitLibusb ==
    /\ owner = "init"
    /\ \/ libusb' = {"context"} /\ Goto("find")
       \/ UNCHANGED libusb /\ Goto("stop")
    /\ UNCHANGED <<m_state, leaked, probed, device>> /\ Streamless

(* find_oap_device(), before the devices are probed and after. *)
FindDevice ==
    /\ owner \in {"find", "refind"}
    /\ device = "accessory"
    /\ libusb' = libusb \union {"handle"}
    /\ Goto("claim")
    /\ UNCHANGED <<m_state, leaked, probed, device>> /\ Streamless

(* None is found, or it cannot be opened: the devices on the bus are       *)
(* listed, if that works.                                                  *)
ListDevices ==
    /\ owner = "find"
    /\ owner' \in {"probe", "stop"}
    /\ UNCHANGED <<m_state, libusb, leaked, probed, device>> /\ Streamless

(* A device that cannot be opened, or does not answer the first request    *)
(* and is closed, is passed over.                                          *)
PassOver(d) ==
    /\ owner = "probe"
    /\ d \notin probed
    /\ probed' = probed \union {d}
    /\ UNCHANGED <<m_state, owner, libusb, leaked, device>> /\ Streamless

(* One that refuses a later request is passed over with its handle open:   *)
(* nothing closes it, in this stream or after it.                          *)
Leak(d) ==
    /\ owner = "probe"
    /\ d \notin probed
    /\ probed' = probed \union {d}
    /\ leaked' = leaked \union {d}
    /\ UNCHANGED <<m_state, owner, libusb, device>> /\ Streamless

(* The phone takes them all and leaves the bus to come back as accessory. *)
SwitchDevice(d) ==
    /\ owner = "probe"
    /\ d \notin probed
    /\ device = "plain"
    /\ probed' = {}
    /\ device' = "switching"
    /\ Goto("refind")
    /\ UNCHANGED <<m_state, libusb, leaked>> /\ Streamless

ProbeEnds ==
    /\ owner = "probe"
    /\ probed = Devices
    /\ probed' = {}
    /\ Goto("refind")
    /\ UNCHANGED <<m_state, libusb, leaked, device>> /\ Streamless

NotReconnected ==
    /\ owner = "refind"
    /\ Goto("stop")
    /\ UNCHANGED <<m_state, libusb, leaked, probed, device>> /\ Streamless

(* The interface is claimed and its bulk endpoints are found, or Stop(). *)
ClaimInterface ==
    /\ owner = "claim"
    /\ \/ device = "accessory" /\ Goto("dataPipe")
       \/ Goto("stop")
    /\ UNCHANGED <<m_state, libusb, leaked, probed, device>> /\ Streamless

CreatePipe(at, reader, writer, next) ==
    /\ owner = at
    /\ fd' = [fd EXCEPT ![reader] = "open", ![writer] = "open"]
    /\ Goto(next)
    /\ UNCHANGED <<m_state, libusb, leaked, probed, device, signals, pipe, threadVars,
                   recvVars, sendVars, dataVars>>

CreatePipes ==
    \/ CreatePipe("dataPipe", "readfd", "m_pipeWriteFD", "errorPipe")
    \/ CreatePipe("errorPipe", "errorfd", "m_errorWriteFD", "abortPipe")
    \/ CreatePipe("abortPipe", "abort_read", "abort_write", "spawn")

(* pipe() fails: Start() returns -1 without Stop(). *)
CreatePipeFails ==
    /\ owner \in {"dataPipe", "errorPipe", "abortPipe"}
    /\ Goto("failed")
    /\ UNCHANGED <<m_state, libusb, leaked, probed, device>> /\ Streamless

Spawn ==
    /\ owner = "spawn"
    /\ usb_thread' = "polling"
    /\ Goto("submit")
    /\ UNCHANGED <<m_state, libusb, leaked, probed, device, fdVars, pipe, rest, abort,
                   recvVars, sendVars, dataVars>>

(* start_usb_recv(): libusb refuses when the phone is gone, and may refuse *)
(* otherwise; both callers ignore the result.                              *)
StartUsbRecv ==
    \/ device = "accessory" /\ flying' = flying + 1
    \/ UNCHANGED flying

Submit ==
    /\ owner = "submit"
    /\ bufferSize' = BufferSize
    /\ StartUsbRecv
    /\ m_state' = "STARTED"
    /\ Goto("started")
    /\ UNCHANGED <<libusb, leaked, probed, device, fdVars, pipe, threadVars, done,
                   sendVars, dataVars>>

-----------------------------------------------------------------------------
(* Use of the started stream *)

(* HUServer looks at the error descriptor before it reads. *)
Read ==
    /\ owner = "started"
    /\ signals = 0
    /\ \E n \in 1..Len(pipe) :
          /\ received' = received \o SubSeq(pipe, 1, n)
          /\ pipe' = SubSeq(pipe, n + 1, Len(pipe))
    /\ UNCHANGED <<ownerVars, device, fdVars, threadVars, recvVars, sendVars,
                   sent, dropped>>

(* Write() that submits its transfer; one that cannot changes nothing. *)
Write ==
    /\ owner = "started"
    /\ device = "accessory"
    /\ sends + sendsFailed < MaxSends
    /\ sends' = sends + 1
    /\ UNCHANGED <<ownerVars, device, fdVars, pipe, threadVars, recvVars,
                   sendsFailed, dataVars>>

-----------------------------------------------------------------------------
(* Stop(), called by HUServer or by the destructor *)

Stop ==
    /\ owner \in {"started", "failed"}
    /\ Goto("stop")
    /\ UNCHANGED <<m_state, libusb, leaked, probed, device>> /\ Streamless

(* close(): the member keeps the number until it is set to -1. *)
Closed(member) ==
    [fd EXCEPT ![member] = IF @ = "open" THEN "stale" ELSE @]

Forgotten(members) ==
    [m \in Members |-> IF m \in members THEN "none" ELSE fd[m]]

StopStep(at, next, fds) ==
    /\ owner = at
    /\ fd' = fds
    /\ m_state' = "STOPPIN"
    /\ Goto(next)
    /\ UNCHANGED <<libusb, leaked, probed, device, signals, pipe, recvVars, sendVars, dataVars>>

StopClosesPipes ==
    /\ \/ StopStep("stop", "closeWrite", Closed("readfd"))
       \/ StopStep("closeWrite", "forgetData", Closed("m_pipeWriteFD"))
       \/ StopStep("forgetData", "closeError", Forgotten({"readfd", "m_pipeWriteFD"}))
       \/ StopStep("closeError", "closeErrorWrite", Closed("errorfd"))
       \/ StopStep("closeErrorWrite", "forgetError", Closed("m_errorWriteFD"))
       \/ StopStep("forgetError", "abort", Forgotten({"errorfd", "m_errorWriteFD"}))
    /\ UNCHANGED threadVars

(* Mutant: only the pipes are closed, to make the thread fail. *)
StopAbortsNot ==
    /\ StopStep("abort", "join", fd)
    /\ UNCHANGED threadVars

StopAborts ==
    /\ StopStep("abort", "join", fd)
    /\ abort' = (abort \/ fd["abort_write"] = "open")
    /\ UNCHANGED <<usb_thread, rest>>

(* The thread is joined and the abort pipe closed. *)
StopJoins ==
    /\ usb_thread \in {"none", "finished"}
    /\ StopStep("join", "release", Forgotten({"abort_read", "abort_write"}))
    /\ usb_thread' = "none"
    /\ UNCHANGED <<rest, abort>>

(* Mutant: a stream that never got a thread is left as it is. *)
StopReleasesOnlyStarted ==
    /\ owner = "release"
    /\ libusb' = IF bufferSize = 0 THEN libusb ELSE {}
    /\ m_state' = "STOPPED"
    /\ Goto("stopped")
    /\ UNCHANGED <<leaked, probed, device, fdVars, pipe, threadVars, recvVars, sendVars, dataVars>>

(* The device is reset and closed and the context is freed. *)
StopReleases ==
    /\ owner = "release"
    /\ libusb' = {}
    /\ m_state' = "STOPPED"
    /\ Goto("stopped")
    /\ UNCHANGED <<leaked, probed, device, fdVars, pipe, threadVars, recvVars, sendVars, dataVars>>

(* HUServer destroys the stream and startTransport() makes a new one. *)
NewStream ==
    /\ owner = "stopped"
    /\ m_state' = "INITIAL"
    /\ owner' = "new"
    /\ device' \in Present
    /\ pipe' = <<>>
    /\ signals' = 0
    /\ abort' = FALSE
    /\ rest' = <<>>
    /\ bufferSize' = 0
    /\ flying' = 0
    /\ done' = <<>>
    /\ sends' = 0
    /\ sendsFailed' = 0
    /\ sent' = 0
    /\ dropped' = {}
    /\ received' = <<>>
    /\ UNCHANGED <<libusb, leaked, probed, fd, usb_thread>>

-----------------------------------------------------------------------------
(* The USB thread *)

(* It waits in poll() unless the abort pipe is readable; once woken it     *)
(* runs the callbacks of one or more completed transfers.                  *)
CanHandle == usb_thread = "handling" \/ (usb_thread = "polling" /\ ~abort)

Handled == usb_thread' = "handling"

HandlingEnds ==
    /\ usb_thread = "handling"
    /\ usb_thread' = "polling"
    /\ UNCHANGED <<ownerVars, device, fdVars, pipe, rest, abort, recvVars,
                   sendVars, dataVars>>

(* libusb_callback() of a transfer that completed. *)
HandleCompleted ==
    /\ CanHandle
    /\ done # <<>>
    /\ Head(done).status = "completed"
    /\ usb_thread' = "writing"
    /\ rest' = Head(done).units
    /\ done' = Tail(done)
    /\ UNCHANGED <<ownerVars, device, fdVars, pipe, abort, bufferSize, flying,
                   sendVars, dataVars>>

(* Mutant: the data of a transfer that overflowed is written as well, and  *)
(* the next transfer is then asked for twice.                              *)
HandleOverflowAlso ==
    /\ CanHandle
    /\ done # <<>>
    /\ Head(done).status = "overflow"
    /\ done' = Tail(done)
    /\ bufferSize' = 2 * bufferSize
    /\ StartUsbRecv
    /\ usb_thread' = "writing"
    /\ UNCHANGED <<ownerVars, device, fdVars, pipe, rest, abort, sendVars, dataVars>>

(* libusb_callback() of one that overflowed: its data is not looked at. *)
HandleOverflow ==
    /\ CanHandle
    /\ done # <<>>
    /\ Head(done).status = "overflow"
    /\ done' = Tail(done)
    /\ bufferSize' = 2 * bufferSize
    /\ StartUsbRecv
    /\ Handled
    /\ UNCHANGED <<ownerVars, device, fdVars, pipe, rest, abort, sendVars, dataVars>>

(* Mutant: a failed transfer ends reception and nothing else. *)
HandleErrorSilent ==
    /\ CanHandle
    /\ done # <<>>
    /\ Head(done).status = "error"
    /\ done' = Tail(done)
    /\ Handled
    /\ UNCHANGED <<ownerVars, device, fdVars, pipe, rest, abort, bufferSize,
                   flying, sendVars, dataVars>>

(* libusb_callback() of one that failed. *)
HandleError ==
    /\ CanHandle
    /\ done # <<>>
    /\ Head(done).status = "error"
    /\ done' = Tail(done)
    /\ abort' = TRUE
    /\ Handled
    /\ UNCHANGED <<ownerVars, device, fdVars, pipe, rest, bufferSize, flying,
                   sendVars, dataVars>>

(* libusb_callback_send() of one that failed. *)
HandleSendError ==
    /\ CanHandle
    /\ sendsFailed > 0
    /\ sendsFailed' = sendsFailed - 1
    /\ abort' = TRUE
    /\ Handled
    /\ UNCHANGED <<ownerVars, device, fdVars, pipe, rest, recvVars, sends, dataVars>>

(* Mutant: the buffer is written from its beginning after a partial write. *)
WriteUnitAgain ==
    /\ usb_thread = "writing"
    /\ rest # <<>>
    /\ fd["m_pipeWriteFD"] = "open"
    /\ fd["readfd"] = "open"
    /\ Len(pipe) < PipeCapacity
    /\ pipe' = Append(pipe, Head(rest))
    /\ rest' = SubSeq(rest, 1, Len(rest) - 1)
    /\ UNCHANGED <<ownerVars, device, fdVars, usb_thread, abort, recvVars,
                   sendVars, dataVars>>

(* One unit gets into the pipe; write() blocks while it is full. *)
WriteUnit ==
    /\ usb_thread = "writing"
    /\ rest # <<>>
    /\ fd["m_pipeWriteFD"] = "open"
    /\ fd["readfd"] = "open"
    /\ Len(pipe) < PipeCapacity
    /\ pipe' = Append(pipe, Head(rest))
    /\ rest' = Tail(rest)
    /\ UNCHANGED <<ownerVars, device, fdVars, usb_thread, abort, recvVars,
                   sendVars, dataVars>>

(* The read end is closed, under a blocked write() too, or the descriptor  *)
(* is; a number that is closed but not yet -1 may also be that of another  *)
(* descriptor of the process, which then takes the data.                   *)
WriteFails ==
    /\ usb_thread = "writing"
    /\ rest # <<>>
    /\ fd["readfd"] # "open"
    /\ \/ rest' = <<>> /\ abort' = TRUE /\ Handled
       \/ /\ fd["m_pipeWriteFD"] = "stale"
          /\ rest' = Tail(rest)
          /\ UNCHANGED <<abort, usb_thread>>
    /\ UNCHANGED <<ownerVars, device, fdVars, pipe, recvVars, sendVars, dataVars>>

(* All is written, and the next transfer is asked for. *)
WriteEnds ==
    /\ usb_thread = "writing"
    /\ rest = <<>>
    /\ StartUsbRecv
    /\ Handled
    /\ UNCHANGED <<ownerVars, device, fdVars, pipe, rest, abort, bufferSize,
                   done, sendVars, dataVars>>

(* The loop ends: the abort pipe is readable, or poll() or libusb failed. *)
LoopEnds ==
    /\ usb_thread = "polling"
    /\ usb_thread' = "leaving"
    /\ UNCHANGED <<ownerVars, device, fdVars, pipe, rest, abort, recvVars,
                   sendVars, dataVars>>

(* Mutant: the thread goes back to its loop. *)
ThreadSignalsAgain ==
    /\ usb_thread = "leaving"
    /\ signals' = IF fd["errorfd"] = "open" /\ fd["m_errorWriteFD"] = "open"
                  THEN signals + 1 ELSE signals
    /\ usb_thread' = IF signals = 0 THEN "polling" ELSE "finished"
    /\ UNCHANGED <<ownerVars, device, fd, pipe, rest, abort, recvVars, sendVars, dataVars>>

(* The reader is woken, if Stop() has not closed the pipe. *)
ThreadSignals ==
    /\ usb_thread = "leaving"
    /\ signals' = IF fd["errorfd"] = "open" /\ fd["m_errorWriteFD"] = "open"
                  THEN signals + 1 ELSE signals
    /\ usb_thread' = "finished"
    /\ UNCHANGED <<ownerVars, device, fd, pipe, rest, abort, recvVars, sendVars, dataVars>>

-----------------------------------------------------------------------------
(* The phone and libusb *)

Environment == UNCHANGED <<ownerVars, fdVars, pipe, threadVars, bufferSize, received>>

Comes == device = "switching" /\ device' = "accessory" /\ Environment
         /\ UNCHANGED <<flying, done, sendVars, sent, dropped>>

Leaves == device # "gone" /\ device' = "gone" /\ Environment
          /\ UNCHANGED <<flying, done, sendVars, sent, dropped>>

Completed(status, units) ==
    /\ flying > 0
    /\ flying' = flying - 1
    /\ done' = Append(done, [status |-> status, units |-> units])

(* n units fit in the buffer of the transfer. *)
TransferCompletes ==
    /\ device = "accessory"
    /\ \E n \in 1..bufferSize :
          /\ sent + n <= MaxUnits
          /\ Completed("completed", [i \in 1..n |-> sent + i])
          /\ sent' = sent + n
    /\ Environment
    /\ UNCHANGED <<device, sendVars, dropped>>

(* The phone sends more than was asked for. *)
TransferOverflows ==
    /\ device = "accessory"
    /\ sent < MaxUnits
    /\ 2 * bufferSize <= MaxBuffer
    /\ Completed("overflow", <<>>)
    /\ sent' = sent + 1
    /\ dropped' = dropped \union {sent + 1}
    /\ Environment
    /\ UNCHANGED <<device, sendVars>>

TransferFails ==
    /\ Completed("error", <<>>)
    /\ Environment
    /\ UNCHANGED <<device, sendVars, sent, dropped>>

SendCompletes ==
    /\ sends > 0
    /\ sends' = sends - 1
    /\ \/ device = "accessory" /\ UNCHANGED sendsFailed
       \/ sendsFailed' = sendsFailed + 1
    /\ Environment
    /\ UNCHANGED <<device, flying, done, sent, dropped>>

-----------------------------------------------------------------------------
StartStep ==
    \/ Start \/ InitLibusb \/ FindDevice \/ ListDevices \/ ProbeEnds
    \/ NotReconnected \/ ClaimInterface \/ CreatePipes \/ CreatePipeFails
    \/ Spawn \/ Submit \/ \E d \in Devices : PassOver(d) \/ Leak(d) \/ SwitchDevice(d)

StopSteps == StopClosesPipes \/ StopAborts \/ StopJoins \/ StopReleases

UsbThread ==
    \/ HandlingEnds \/ HandleCompleted \/ HandleOverflow \/ HandleError
    \/ HandleSendError \/ WriteUnit \/ WriteFails \/ WriteEnds \/ ThreadSignals

Phone ==
    Comes \/ Leaves \/ TransferCompletes \/ TransferOverflows \/ TransferFails

Next ==
    \/ StartStep \/ Read \/ Write \/ Stop \/ StopSteps \/ NewStream
    \/ UsbThread \/ LoopEnds \/ SendCompletes \/ Phone

(* The two threads run, one call of libusb handles a bounded number of     *)
(* transfers, the reader reads what is there, poll() sees the abort pipe,  *)
(* and libusb completes a write and the transfers of a phone that is gone. *)
(* Nobody owes a call, data, or an unplugged phone.                        *)
Fairness ==
    /\ WF_vars(StartStep)
    /\ WF_vars(StopSteps)
    /\ WF_vars(UsbThread)
    /\ WF_vars(HandlingEnds)
    /\ WF_vars(LoopEnds /\ abort)
    /\ WF_vars(Read)
    /\ WF_vars(SendCompletes)
    /\ WF_vars(TransferFails /\ device = "gone")

Spec == Init /\ [][Next]_vars /\ Fairness

-----------------------------------------------------------------------------
Units(s) == {s[i] : i \in 1..Len(s)}

(* Type invariant. *)
TypeOK ==
    /\ m_state \in HU_STATE
    /\ owner \in Starting \union Stopping \union {"new", "started", "failed", "stopped"}
    /\ libusb \subseteq {"context", "handle"}
    /\ leaked \subseteq Devices
    /\ probed \subseteq Devices
    /\ device \in Present \union {"switching"}
    /\ fd \in [Members -> {"none", "open", "stale"}]
    /\ pipe \in Seq(1..MaxUnits)
    /\ Len(pipe) <= PipeCapacity
    /\ signals \in {0, 1}
    /\ abort \in BOOLEAN
    /\ usb_thread \in {"none", "polling", "handling", "writing", "leaving", "finished"}
    /\ rest \in Seq(1..MaxUnits)
    /\ bufferSize \in 0..MaxBuffer
    /\ flying \in Nat
    /\ \A i \in 1..Len(done) : done[i].status \in {"completed", "overflow", "error"}
    /\ sends \in 0..MaxSends
    /\ sendsFailed \in 0..MaxSends
    /\ sent \in 0..MaxUnits
    /\ dropped \subseteq 1..MaxUnits
    /\ received \in Seq(1..MaxUnits)

(* As long as the stream is started, what was read, what is in the pipe    *)
(* and what the callback still holds are, in this order, all the phone has *)
(* sent but for the transfers that overflowed and those not handled yet,   *)
(* however the thread, the reader and the full pipe took turns.            *)
StreamInOrder ==
    owner = "started" =>
        LET stream  == received \o pipe \o rest
            pending == UNION {Units(done[i].units) : i \in 1..Len(done)}
        IN /\ \A i \in 2..Len(stream) : stream[i - 1] < stream[i]
           /\ Units(stream) = (1..sent) \ (dropped \union pending)

(* m_tempReceiveBuffer is resized, which moves it, only when no transfer   *)
(* and no callback holds a pointer into it.                                *)
BufferStable ==
    [][bufferSize' # bufferSize /\ bufferSize' # 0
          => flying = 0 /\ rest = <<>>
             /\ \A i \in 1..Len(done) : done[i].units = <<>>]_vars

(* However Start() failed and whenever Stop() was called, a stopped stream *)
(* has no thread, no open or stale descriptor, no context and not the      *)
(* device it used.  The handles in `leaked` are no part of this: they stay *)
(* open.                                                                   *)
StoppedIsClean ==
    owner = "stopped" =>
        /\ m_state = "STOPPED"
        /\ usb_thread = "none"
        /\ libusb = {}
        /\ \A m \in Members : fd[m] = "none"

(* Stop() returns: it wakes a thread blocked on the full pipe before it    *)
(* joins it.                                                               *)
StopReturns == owner = "stop" ~> owner = "stopped"

(* What HUServer sees of the stream. *)
Lost ==
    \/ abort \/ usb_thread = "leaving" \/ sendsFailed > 0
    \/ \E i \in 1..Len(done) : done[i].status = "error"
    \/ device = "gone" /\ (flying > 0 \/ sends > 0)

Deaf == flying = 0 /\ done = <<>> /\ usb_thread # "writing"

Status ==
    CASE owner # "started" -> "closed"
      [] owner = "started" /\ signals > 0 -> "signalled"
      [] owner = "started" /\ signals = 0 /\ Lost -> "lost"
      [] owner = "started" /\ signals = 0 /\ ~Lost /\ Deaf -> "deaf"
      [] OTHER -> "up"

Stream == INSTANCE HUTransportStream WITH status <- Status

(* The stream is one of HUTransportStream: a lost phone is signalled on    *)
(* the error descriptor, except after start_usb_recv() has failed.         *)
StreamSpec == Stream!Spec
=============================================================================
