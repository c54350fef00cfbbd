------------------------ MODULE HUTransportUSBProofs ------------------------
(***************************************************************************)
(* Proofs about HUTransportUSB, for any devices on the bus, any capacity   *)
(* of the pipe, any buffer sizes and any amount of data.                   *)
(***************************************************************************)
EXTENDS HUTransportUSB, SequenceTheorems, TLAPS

USE BoundsAssumption

(* A receive transfer that completed; one that did not holds no data.      *)
Transfers ==
    {t \in [status : {"completed", "overflow", "error"}, units : Seq(1..MaxUnits)] :
        t.status # "completed" => t.units = <<>>}

(* libusb holds one receive transfer at most, in flight or completed, and  *)
(* none while the callback of the last one writes its data.                *)
OneTransfer ==
    /\ \/ flying = 0 /\ done = <<>>
       \/ flying = 1 /\ done = <<>> /\ usb_thread # "writing"
       \/ flying = 0 /\ usb_thread # "writing" /\ \E t \in Transfers : done = <<t>>
    /\ usb_thread # "writing" => rest = <<>>

(* A transfer overflows when the doubled buffer is in bounds.              *)
OverflowFits ==
    done # <<>> /\ Head(done).status = "overflow" => 2 * bufferSize <= MaxBuffer

(* Nothing happens to the stream before start_usb_recv().                  *)
FreshInv ==
    owner \in Starting \union {"new"} =>
        /\ flying = 0 /\ done = <<>> /\ usb_thread # "writing"
        /\ bufferSize = 0 /\ sent = 0 /\ dropped = {}
        /\ rest = <<>> /\ pipe = <<>> /\ received = <<>>

(* The thread lives from Spawn to the join, and signals when it ends.      *)
ThreadInv ==
    /\ owner \in (Starting \ {"submit"}) \union {"new", "release", "stopped"}
          => usb_thread = "none"
    /\ signals # 0 => usb_thread = "finished" \/ owner \in {"release", "stopped"}

(* Which descriptors are open or forgotten where the owner stands.         *)
FdInv ==
    /\ owner \in {"errorPipe", "abortPipe", "spawn", "submit", "started"} =>
         fd["readfd"] = "open" /\ fd["m_pipeWriteFD"] = "open"
    /\ owner \in {"abortPipe", "spawn", "submit", "started"} =>
         fd["errorfd"] = "open" /\ fd["m_errorWriteFD"] = "open"
    /\ owner \in {"closeError", "closeErrorWrite", "forgetError", "abort", "join",
                  "release", "stopped"} =>
         fd["readfd"] = "none" /\ fd["m_pipeWriteFD"] = "none"
    /\ owner \in {"abort", "join", "release", "stopped"} =>
         fd["errorfd"] = "none" /\ fd["m_errorWriteFD"] = "none"
    /\ owner \in {"release", "stopped"} =>
         fd["abort_read"] = "none" /\ fd["abort_write"] = "none"

(* What Stop() leaves.                                                     *)
StopInv == owner = "stopped" => m_state = "STOPPED" /\ libusb = {}

(* The whole stream: what was read, what is in the pipe, what the callback *)
(* holds and what waits for it, are all units sent that were not dropped.  *)
Cat(s, t) == s \o t
Waiting == IF done = <<>> THEN <<>> ELSE Head(done).units
Whole == Cat(Cat(Cat(received, pipe), rest), Waiting)
Data == 1..MaxUnits
Rising(s) == \A i, j \in 1..Len(s) : i < j => s[i] < s[j]

OrderInv ==
    /\ dropped \subseteq 1..sent
    /\ owner = "started" => Rising(Whole) /\ Units(Whole) = (1..sent) \ dropped

(* The type invariant in parts, with what it needs to be inductive.        *)
OwnerTypes ==
    /\ m_state \in HU_STATE
    /\ owner \in Starting \union Stopping \union {"new", "started", "failed", "stopped"}
    /\ libusb \subseteq {"context", "handle"}
    /\ leaked \subseteq Devices
    /\ probed \subseteq Devices
    /\ device \in Present \union {"switching"}
FdTypes == fd \in [Members -> {"none", "open", "stale"}]
ThreadTypes ==
    /\ signals \in {0, 1}
    /\ abort \in BOOLEAN
    /\ usb_thread \in {"none", "polling", "handling", "writing", "leaving", "finished"}
DataTypes ==
    /\ pipe \in Seq(1..MaxUnits)
    /\ Len(pipe) <= PipeCapacity
    /\ rest \in Seq(1..MaxUnits)
    /\ sent \in 0..MaxUnits
    /\ dropped \subseteq 1..MaxUnits
    /\ received \in Seq(1..MaxUnits)
CountTypes ==
    /\ bufferSize \in 0..MaxBuffer
    /\ sends \in Nat
    /\ sendsFailed \in Nat
    /\ sends + sendsFailed <= MaxSends

(* The inductive invariant of the stream.                                  *)
USBInv ==
    /\ OwnerTypes /\ FdTypes /\ ThreadTypes /\ DataTypes /\ CountTypes
    /\ OneTransfer /\ OverflowFits /\ FreshInv /\ ThreadInv /\ FdInv
    /\ StopInv /\ OrderInv

-----------------------------------------------------------------------------
(* The steps by what they touch *)

(* Steps that only move the owner or change the device and the bus.        *)
OwnerMoves ==
    \/ Start \/ InitLibusb \/ FindDevice \/ ListDevices \/ ProbeEnds
    \/ NotReconnected \/ ClaimInterface \/ CreatePipeFails \/ Stop
    \/ \E d \in Devices : PassOver(d) \/ Leak(d) \/ SwitchDevice(d)

LEMMA OwnerMovesOnly ==
    ASSUME OwnerMoves
    PROVE  /\ UNCHANGED <<fd, signals, pipe, usb_thread, rest, abort, bufferSize, flying,
                          done, sends, sendsFailed, sent, dropped, received>>
           /\ owner' \in {"init", "find", "probe", "refind", "claim", "dataPipe",
                         "stop", "failed"}
           /\ owner' \in Starting => owner \in {"new", "init", "find", "probe",
                                               "refind", "claim"}
           /\ owner \notin {"release", "stopped"}
BY Zenon DEF OwnerMoves, Start, InitLibusb, FindDevice, ListDevices, ProbeEnds,
   NotReconnected, ClaimInterface, CreatePipeFails, Stop, PassOver, Leak, SwitchDevice,
   Streamless, Goto, Starting, fdVars, threadVars, recvVars, sendVars, dataVars

(* Steps of the USB thread.                                                *)
ThreadMoves ==
    \/ HandlingEnds \/ HandleCompleted \/ HandleOverflow \/ HandleError
    \/ HandleSendError \/ WriteUnit \/ WriteFails \/ WriteEnds \/ LoopEnds
    \/ ThreadSignals

LEMMA ThreadMovesOnly ==
    ASSUME ThreadMoves
    PROVE  UNCHANGED <<m_state, owner, libusb, leaked, probed, device, fd, sends, sent,
                       dropped, received>>
BY DEF ThreadMoves, HandlingEnds, HandleCompleted, HandleOverflow, HandleError,
   HandleSendError, WriteUnit, WriteFails, WriteEnds, LoopEnds, ThreadSignals,
   StartUsbRecv, ownerVars, fdVars, threadVars, recvVars, sendVars, dataVars

(* Steps of the phone and of libusb.                                       *)
LibMoves ==
    \/ Comes \/ Leaves \/ TransferCompletes \/ TransferOverflows \/ TransferFails
    \/ SendCompletes

LEMMA LibMovesOnly ==
    ASSUME LibMoves
    PROVE  /\ UNCHANGED <<m_state, owner, libusb, leaked, probed, fd, signals, pipe,
                          usb_thread, rest, abort, bufferSize, received>>
           /\ device' \in {device, "accessory", "gone"}
BY DEF LibMoves, Comes, Leaves, TransferCompletes, TransferOverflows, TransferFails,
   SendCompletes, Environment, ownerVars, fdVars, threadVars

(* Steps of Stop().                                                        *)
StopMoves == StopClosesPipes \/ StopAborts \/ StopJoins \/ StopReleases

LEMMA StopMovesOnly ==
    ASSUME StopMoves
    PROVE  /\ UNCHANGED <<leaked, probed, device, signals, pipe, rest, bufferSize, flying,
                          done, sends, sendsFailed, sent, dropped, received>>
           /\ m_state' \in HU_STATE
           /\ owner \in Stopping /\ owner' \in Stopping \union {"stopped"}
           /\ libusb' \subseteq libusb
           /\ usb_thread' \in {usb_thread, "none"}
BY DEF StopMoves, StopClosesPipes, StopAborts, StopJoins, StopReleases, StopStep,
   Goto, HU_STATE, Stopping, fdVars, threadVars, recvVars, sendVars, dataVars

LEMMA Steps ==
    ASSUME [Next]_vars
    PROVE  \/ OwnerMoves \/ CreatePipes \/ Spawn \/ Submit \/ Read \/ Write
           \/ StopMoves \/ NewStream \/ ThreadMoves \/ LibMoves \/ UNCHANGED vars
BY Zenon DEF Next, StartStep, StopSteps, UsbThread, Phone, OwnerMoves, StopMoves,
   ThreadMoves, LibMoves

(* No step of Next.                                                        *)
LEMMA Stutters ==
    ASSUME UNCHANGED vars
    PROVE  UNCHANGED <<m_state, owner, libusb, leaked, probed, device, fd, signals, pipe, abort,
                       usb_thread, rest, bufferSize, flying, done, sends, sendsFailed,
                       sent, dropped, received>>
BY DEF vars, ownerVars, fdVars, threadVars, recvVars, sendVars, dataVars

-----------------------------------------------------------------------------
(* Types *)

(* Start() and Stop() go through their own points only.                    *)
LEMMA OwnerTypesStep ==
    ASSUME OwnerTypes, [Next]_vars
    PROVE  OwnerTypes'
<1> USE DEF OwnerTypes, HU_STATE, Starting, Stopping, Present
<1>1. CASE OwnerMoves
  <2>1. m_state' \in HU_STATE /\ libusb' \subseteq {"context", "handle"}
    BY <1>1 DEF OwnerMoves, Start, InitLibusb, FindDevice, ListDevices, ProbeEnds,
       NotReconnected, ClaimInterface, CreatePipeFails, Stop, PassOver, Leak, SwitchDevice
  <2>2. leaked' \subseteq Devices /\ probed' \subseteq Devices /\ device' \in Present \union {"switching"}
    BY <1>1 DEF OwnerMoves, Start, InitLibusb, FindDevice, ListDevices, ProbeEnds,
       NotReconnected, ClaimInterface, CreatePipeFails, Stop, PassOver, Leak, SwitchDevice
  <2> QED
    BY <1>1, <2>1, <2>2, OwnerMovesOnly
<1>2. CASE CreatePipes \/ Spawn \/ Submit \/ NewStream
  BY <1>2 DEF CreatePipes, CreatePipe, Goto, Spawn, Submit, NewStream
<1>3. CASE Read \/ Write
  BY <1>3 DEF Read, Write, ownerVars
<1>4. CASE StopMoves
  BY <1>4, StopMovesOnly
<1>5. CASE ThreadMoves
  BY <1>5, ThreadMovesOnly
<1>6. CASE LibMoves
  BY <1>6, LibMovesOnly
<1>7. CASE UNCHANGED vars
  BY <1>7, Stutters
<1> QED
  BY Steps, <1>1, <1>2, <1>3, <1>4, <1>5, <1>6, <1>7, Zenon

(* Only Start() and Stop() change the descriptors.                         *)
LEMMA FdTypesStep ==
    ASSUME FdTypes, [Next]_vars
    PROVE  FdTypes'
<1> USE DEF FdTypes, Members
<1>1. CASE OwnerMoves
  BY <1>1, OwnerMovesOnly
<1>2. CASE CreatePipes
  BY <1>2 DEF CreatePipes, CreatePipe
<1>3. CASE Spawn \/ Submit \/ NewStream \/ Read \/ Write
  BY <1>3 DEF Spawn, Submit, NewStream, Read, Write, fdVars
<1>4. CASE StopMoves
  BY <1>4 DEF StopMoves, StopClosesPipes, StopAborts, StopJoins, StopReleases,
     StopStep, Closed, Forgotten, fdVars
<1>5. CASE ThreadMoves
  BY <1>5, ThreadMovesOnly
<1>6. CASE LibMoves
  BY <1>6, LibMovesOnly
<1>7. CASE UNCHANGED vars
  BY <1>7, Stutters
<1> QED
  BY Steps, <1>1, <1>2, <1>3, <1>4, <1>5, <1>6, <1>7, Zenon

(* The thread signals once.                                                *)
LEMMA ThreadTypesStep ==
    ASSUME ThreadTypes, ThreadInv, [Next]_vars
    PROVE  ThreadTypes'
<1> USE DEF ThreadTypes
<1>1. CASE OwnerMoves
  BY <1>1, OwnerMovesOnly
<1>2. CASE CreatePipes \/ Spawn \/ Submit \/ NewStream \/ Read \/ Write
  BY <1>2 DEF CreatePipes, CreatePipe, Spawn, Submit, NewStream, Read, Write,
     fdVars, threadVars
<1>3. CASE StopMoves
  <2>1. abort' \in BOOLEAN
    BY <1>3, Zenon DEF StopMoves, StopClosesPipes, StopAborts, StopJoins, StopReleases,
       threadVars
  <2> QED
    BY <1>3, <2>1, StopMovesOnly
<1>4. CASE ThreadSignals
  BY <1>4 DEF ThreadSignals, ThreadInv
<1>5. CASE ThreadMoves /\ ~ThreadSignals
  BY <1>5 DEF ThreadMoves, HandlingEnds, HandleCompleted, HandleOverflow, HandleError,
     HandleSendError, WriteUnit, WriteFails, WriteEnds, LoopEnds, Handled,
     fdVars, threadVars
<1>6. CASE LibMoves
  BY <1>6, LibMovesOnly
<1>7. CASE UNCHANGED vars
  BY <1>7, Stutters
<1> QED
  BY Steps, <1>1, <1>2, <1>3, <1>4, <1>5, <1>6, <1>7, Zenon

(* The counters stay in their bounds: an overflow is handled once, and a   *)
(* transfer of Write() is in flight or failed.                             *)
LEMMA CountTypesStep ==
    ASSUME CountTypes, OverflowFits, [Next]_vars
    PROVE  CountTypes'
<1> USE DEF CountTypes
<1>1. CASE OwnerMoves
  BY <1>1, OwnerMovesOnly
<1>2. CASE CreatePipes \/ Spawn \/ Submit \/ NewStream \/ Read \/ Write
  BY <1>2 DEF CreatePipes, CreatePipe, Spawn, Submit, NewStream, Read, Write,
     recvVars, sendVars
<1>3. CASE StopMoves
  BY <1>3, StopMovesOnly
<1>4. CASE HandleOverflow
  BY <1>4 DEF HandleOverflow, OverflowFits, sendVars
<1>5. CASE HandleSendError
  BY <1>5 DEF HandleSendError, recvVars
<1>6. CASE ThreadMoves /\ ~HandleOverflow /\ ~HandleSendError
  BY <1>6 DEF ThreadMoves, HandlingEnds, HandleCompleted, HandleError,
     WriteUnit, WriteFails, WriteEnds, LoopEnds, ThreadSignals, recvVars, sendVars
<1>7. CASE SendCompletes
  BY <1>7, LibMovesOnly DEF SendCompletes, LibMoves
<1>8. CASE LibMoves /\ ~SendCompletes
  BY <1>8, LibMovesOnly DEF LibMoves, Comes, Leaves, TransferCompletes,
     TransferOverflows, TransferFails, sendVars
<1>9. CASE UNCHANGED vars
  BY <1>9, Stutters
<1> QED
  BY Steps, <1>1, <1>2, <1>3, <1>4, <1>5, <1>6, <1>7, <1>8, <1>9, Zenon

-----------------------------------------------------------------------------
(* Transfers *)

LEMMA OneDone ==
    ASSUME NEW t \in Transfers
    PROVE  /\ Head(<<t>>) = t /\ Tail(<<t>>) = <<>> /\ Append(<<>>, t) = <<t>>
           /\ <<t>> # <<>> /\ Len(<<t>>) = 1 /\ <<t>>[1] = t
OBVIOUS

(* What completes is a transfer.                                           *)
LEMMA CompletedTransfer ==
    ASSUME CountTypes, DataTypes, NEW n \in 1..bufferSize, sent + n <= MaxUnits
    PROVE  [status |-> "completed", units |-> [i \in 1..n |-> sent + i]] \in Transfers
<1>1. n \in Nat /\ sent \in Nat
  BY DEF CountTypes, DataTypes
<1>2. \A i \in 1..n : sent + i \in 1..MaxUnits
  BY <1>1
<1>3. [i \in 1..n |-> sent + i] \in Seq(1..MaxUnits)
  BY <1>1, <1>2
<1> QED
  BY <1>3 DEF Transfers

LEMMA BareTransfer ==
    ASSUME NEW status \in {"overflow", "error"}
    PROVE  [status |-> status, units |-> <<>>] \in Transfers
BY DEF Transfers

LEMMA Arrives ==
    ASSUME OneTransfer, LibMoves, NEW t \in Transfers,
           flying > 0, flying' = flying - 1, done' = Append(done, t)
    PROVE  OneTransfer'
<1>1. flying = 1 /\ done = <<>> /\ usb_thread # "writing" /\ rest = <<>>
  BY DEF OneTransfer
<1>2. flying' = 0 /\ done' = <<t>>
  BY <1>1, OneDone
<1>3. usb_thread' # "writing" /\ rest' = <<>>
  BY <1>1, LibMovesOnly
<1> QED
  BY <1>2, <1>3, Zenon DEF OneTransfer

(* A transfer is asked for only when none is left and no data is held.     *)
LEMMA OneTransferStep ==
    ASSUME CountTypes, DataTypes, FreshInv, OneTransfer, [Next]_vars
    PROVE  OneTransfer'
<1>1. CASE OwnerMoves
  BY <1>1, OwnerMovesOnly DEF OneTransfer
<1>2. CASE CreatePipes \/ NewStream \/ Read \/ Write
  BY <1>2 DEF CreatePipes, CreatePipe, NewStream, Read, Write, OneTransfer,
     recvVars, threadVars
<1>3. CASE Spawn
  BY <1>3 DEF Spawn, OneTransfer, FreshInv, Starting, recvVars
<1>4. CASE Submit
  BY <1>4 DEF Submit, StartUsbRecv, OneTransfer, FreshInv, Starting, threadVars
<1>5. CASE StopMoves
  <2>1. CASE StopJoins
    BY <2>1, StopMovesOnly DEF StopJoins, OneTransfer, StopMoves
  <2>2. CASE ~StopJoins
    BY <1>5, <2>2, StopMovesOnly DEF StopClosesPipes, StopAborts, StopReleases, StopMoves,
       OneTransfer, threadVars
  <2> QED
    BY <2>1, <2>2
<1>6. CASE HandleCompleted
  <2>1. PICK t \in Transfers : done = <<t>> /\ flying = 0
    BY <1>6 DEF HandleCompleted, OneTransfer
  <2>2. done' = <<>> /\ flying' = 0 /\ usb_thread' = "writing"
    BY <1>6, <2>1, OneDone DEF HandleCompleted
  <2> QED
    BY <2>2 DEF OneTransfer
<1>7. CASE HandleOverflow \/ HandleError
  <2>1. PICK t \in Transfers : done = <<t>> /\ flying = 0 /\ rest = <<>>
    BY <1>7 DEF HandleOverflow, HandleError, CanHandle, OneTransfer
  <2>2. done' = <<>>
    BY <1>7, <2>1, OneDone DEF HandleOverflow, HandleError
  <2>3. usb_thread' = "handling" /\ rest' = <<>> /\ flying' \in {0, 1}
    BY <1>7, <2>1 DEF HandleOverflow, HandleError, StartUsbRecv, Handled, recvVars
  <2> QED
    BY <2>2, <2>3 DEF OneTransfer
<1>8. CASE WriteUnit \/ WriteFails \/ WriteEnds
  BY <1>8 DEF WriteUnit, WriteFails, WriteEnds, StartUsbRecv, Handled, OneTransfer, recvVars
<1>9. CASE HandlingEnds \/ HandleSendError \/ LoopEnds \/ ThreadSignals
  BY <1>9 DEF HandlingEnds, HandleSendError, LoopEnds, ThreadSignals, CanHandle, Handled,
     OneTransfer, recvVars
<1>10. CASE TransferCompletes
  <2>1. PICK n \in 1..bufferSize :
             /\ sent + n <= MaxUnits
             /\ Completed("completed", [i \in 1..n |-> sent + i])
    BY <1>10 DEF TransferCompletes
  <2> DEFINE t == [status |-> "completed", units |-> [i \in 1..n |-> sent + i]]
  <2>2. t \in Transfers
    BY <2>1, CompletedTransfer
  <2>3. flying > 0 /\ flying' = flying - 1 /\ done' = Append(done, t)
    BY <2>1 DEF Completed
  <2> HIDE DEF t
  <2>4. LibMoves
    BY <1>10 DEF LibMoves
  <2> QED
    BY <2>2, <2>3, <2>4, Arrives
<1>11. ASSUME NEW status \in {"overflow", "error"}, Completed(status, <<>>), LibMoves
       PROVE  OneTransfer'
  <2> DEFINE t == [status |-> status, units |-> <<>>]
  <2>1. t \in Transfers
    BY BareTransfer
  <2>2. flying > 0 /\ flying' = flying - 1 /\ done' = Append(done, t)
    BY <1>11 DEF Completed
  <2> HIDE DEF t
  <2> QED
    BY <1>11, <2>1, <2>2, Arrives
<1>12. CASE TransferOverflows \/ TransferFails
  BY <1>11, <1>12 DEF TransferOverflows, TransferFails, LibMoves
<1>13. CASE Comes \/ Leaves \/ SendCompletes
  BY <1>13, LibMovesOnly DEF Comes, Leaves, SendCompletes, LibMoves, OneTransfer
<1>14. CASE UNCHANGED vars
  BY <1>14, Stutters DEF OneTransfer
<1> QED
  BY Steps, <1>1, <1>2, <1>3, <1>4, <1>5, <1>6, <1>7, <1>8, <1>9, <1>10, <1>12, <1>13,
     <1>14, Zenon DEF ThreadMoves, LibMoves

(* The buffer is not doubled while a transfer that overflowed waits.       *)
LEMMA OverflowFitsStep ==
    ASSUME OneTransfer, FreshInv, OverflowFits, [Next]_vars
    PROVE  OverflowFits'
<1> USE DEF OverflowFits
<1>1. CASE OwnerMoves
  BY <1>1, OwnerMovesOnly
<1>2. CASE CreatePipes \/ Spawn \/ NewStream \/ Read \/ Write
  BY <1>2 DEF CreatePipes, CreatePipe, Spawn, NewStream, Read, Write, recvVars
<1>3. CASE Submit
  BY <1>3 DEF Submit, FreshInv, Starting
<1>4. CASE StopMoves
  BY <1>4, StopMovesOnly
<1>5. CASE HandleCompleted \/ HandleOverflow \/ HandleError
  <2>1. done' = <<>>
    BY <1>5, OneDone DEF HandleCompleted, HandleOverflow, HandleError, OneTransfer
  <2> QED
    BY <2>1
<1>6. CASE ThreadMoves /\ ~(HandleCompleted \/ HandleOverflow \/ HandleError)
  BY <1>6 DEF ThreadMoves, HandlingEnds, HandleSendError, WriteUnit, WriteFails, WriteEnds,
     LoopEnds, ThreadSignals, recvVars
<1>7. ASSUME NEW status, NEW units, Completed(status, units), LibMoves,
             status = "overflow" => 2 * bufferSize <= MaxBuffer
      PROVE  OverflowFits'
  <2>1. done = <<>> /\ done' = Append(done, [status |-> status, units |-> units])
    BY <1>7 DEF Completed, OneTransfer
  <2>2. Head(done') = [status |-> status, units |-> units]
    BY <2>1
  <2>3. Head(done').status = status
    BY <2>2
  <2> QED
    BY <1>7, <2>3, LibMovesOnly
<1>8. CASE TransferCompletes \/ TransferOverflows \/ TransferFails
  BY <1>7, <1>8 DEF TransferCompletes, TransferOverflows, TransferFails, LibMoves
<1>9. CASE Comes \/ Leaves \/ SendCompletes
  BY <1>9, LibMovesOnly DEF Comes, Leaves, SendCompletes, LibMoves
<1>10. CASE UNCHANGED vars
  BY <1>10, Stutters
<1> QED
  BY Steps, <1>1, <1>2, <1>3, <1>4, <1>5, <1>6, <1>8, <1>9, <1>10, Zenon
     DEF ThreadMoves, LibMoves
-----------------------------------------------------------------------------
(* The points of the owner *)

LEMMA FreshStep ==
    ASSUME OneTransfer, ThreadInv, FreshInv, [Next]_vars
    PROVE  FreshInv'
<1>1. CASE OwnerMoves
  BY <1>1, OwnerMovesOnly DEF FreshInv, Starting
<1>2. CASE CreatePipes
  BY <1>2 DEF CreatePipes, CreatePipe, FreshInv, Starting, threadVars, recvVars, dataVars
<1>3. CASE Spawn
  BY <1>3 DEF Spawn, FreshInv, Starting, recvVars, dataVars
<1>4. CASE Submit \/ Read \/ Write
  BY <1>4 DEF Submit, Read, Write, Goto, FreshInv, Starting, ownerVars
<1>5. CASE StopMoves
  BY <1>5, StopMovesOnly DEF FreshInv, Starting, Stopping
<1>6. CASE NewStream
  BY <1>6 DEF NewStream, ThreadInv, FreshInv
<1>7. CASE ThreadMoves
  <2>1. owner' = owner /\ UNCHANGED <<sent, dropped, received>>
    BY <1>7, ThreadMovesOnly
  <2>2. SUFFICES ASSUME owner \in Starting \union {"new"}
                 PROVE  FreshInv'
    BY <2>1 DEF FreshInv
  <2>3. HandlingEnds \/ HandleSendError \/ LoopEnds \/ ThreadSignals
    BY <1>7, <2>2 DEF FreshInv, ThreadMoves, HandleCompleted, HandleOverflow, HandleError,
       WriteUnit, WriteFails, WriteEnds
  <2> QED
    BY <2>1, <2>2, <2>3 DEF FreshInv, HandlingEnds, HandleSendError, LoopEnds, ThreadSignals,
       Handled, recvVars
<1>8. CASE LibMoves
  <2>1. owner' = owner /\ UNCHANGED <<usb_thread, bufferSize, rest, pipe, received>>
    BY <1>8, LibMovesOnly
  <2>2. SUFFICES ASSUME owner \in Starting \union {"new"}
                 PROVE  FreshInv'
    BY <2>1 DEF FreshInv
  <2>3. ~(TransferCompletes \/ TransferOverflows \/ TransferFails)
    <3>1. ~(flying > 0)
      BY <2>2 DEF FreshInv
    <3> QED
      BY <3>1, Zenon DEF TransferCompletes, TransferOverflows, TransferFails, Completed
  <2> QED
    BY <1>8, <2>1, <2>2, <2>3 DEF LibMoves, FreshInv, Comes, Leaves, SendCompletes
<1>9. CASE UNCHANGED vars
  BY <1>9, Stutters DEF FreshInv
<1> QED
  BY Steps, <1>1, <1>2, <1>3, <1>4, <1>5, <1>6, <1>7, <1>8, <1>9, Zenon

(* Only Spawn makes a thread, and only the join ends one that signalled.   *)
LEMMA ThreadStep ==
    ASSUME ThreadInv, [Next]_vars
    PROVE  ThreadInv'
<1> USE DEF ThreadInv
<1>1. CASE OwnerMoves
  BY <1>1, OwnerMovesOnly DEF Starting
<1>2. CASE CreatePipes
  BY <1>2 DEF CreatePipes, CreatePipe, Goto, Starting, threadVars
<1>3. CASE Spawn
  BY <1>3 DEF Spawn, Goto, Starting, fdVars
<1>4. CASE Submit \/ Read \/ Write
  BY <1>4 DEF Submit, Read, Write, Goto, Starting, ownerVars, fdVars, threadVars
<1>5. CASE StopClosesPipes \/ StopAborts
  BY <1>5 DEF StopClosesPipes, StopAborts, StopStep, Goto, Starting, threadVars
<1>6. CASE StopJoins \/ StopReleases
  BY <1>6 DEF StopJoins, StopReleases, StopStep, Goto, Starting, fdVars, threadVars
<1>7. CASE NewStream
  BY <1>7 DEF NewStream
<1>8. CASE ThreadSignals
  BY <1>8, ThreadMovesOnly DEF ThreadMoves, ThreadSignals
<1>9. CASE ThreadMoves /\ ~ThreadSignals
  BY <1>9, ThreadMovesOnly DEF ThreadMoves, HandlingEnds, HandleCompleted, HandleOverflow,
     HandleError, HandleSendError, WriteUnit, WriteFails, WriteEnds, LoopEnds, CanHandle,
     fdVars
<1>10. CASE LibMoves
  BY <1>10, LibMovesOnly
<1>11. CASE UNCHANGED vars
  BY <1>11, Stutters
<1> QED
  BY Steps, <1>1, <1>2, <1>3, <1>4, <1>5, <1>6, <1>7, <1>8, <1>9, <1>10, <1>11, Zenon
     DEF StopMoves

(* Each descriptor is open until Stop() closes it, and -1 once it has.     *)
LEMMA FdStep ==
    ASSUME FdTypes, FdInv, [Next]_vars
    PROVE  FdInv'
<1>1. CASE OwnerMoves
  BY <1>1, OwnerMovesOnly DEF FdInv
<1>2. CASE CreatePipes
  BY <1>2 DEF CreatePipes, CreatePipe, Goto, FdTypes, Members, FdInv
<1>3. CASE Spawn \/ Submit \/ Read \/ Write
  BY <1>3 DEF Spawn, Submit, Read, Write, Goto, FdInv, ownerVars, fdVars
<1>4. CASE StopClosesPipes
  BY <1>4 DEF StopClosesPipes, StopStep, Closed, Forgotten, Goto, FdTypes, Members, FdInv
<1>5. CASE StopAborts \/ StopJoins
  BY <1>5 DEF StopAborts, StopJoins, StopStep, Forgotten, Goto, Members, FdInv
<1>6. CASE StopReleases \/ NewStream
  BY <1>6 DEF StopReleases, NewStream, Goto, FdInv, fdVars
<1>7. CASE ThreadMoves
  BY <1>7, ThreadMovesOnly DEF FdInv
<1>8. CASE LibMoves
  BY <1>8, LibMovesOnly DEF FdInv
<1>9. CASE UNCHANGED vars
  BY <1>9, Stutters DEF FdInv
<1> QED
  BY Steps, <1>1, <1>2, <1>3, <1>4, <1>5, <1>6, <1>7, <1>8, <1>9, Zenon DEF StopMoves

LEMMA StopInvStep ==
    ASSUME StopInv, [Next]_vars
    PROVE  StopInv'
<1> USE DEF StopInv
<1>1. CASE OwnerMoves
  BY <1>1, OwnerMovesOnly
<1>2. CASE CreatePipes \/ Spawn \/ Submit \/ NewStream
  BY <1>2 DEF CreatePipes, CreatePipe, Spawn, Submit, NewStream, Goto
<1>3. CASE Read \/ Write
  BY <1>3 DEF Read, Write, ownerVars
<1>4. CASE StopMoves
  BY <1>4 DEF StopMoves, StopClosesPipes, StopAborts, StopJoins, StopReleases, StopStep, Goto
<1>5. CASE ThreadMoves
  BY <1>5, ThreadMovesOnly
<1>6. CASE LibMoves
  BY <1>6, LibMovesOnly
<1>7. CASE UNCHANGED vars
  BY <1>7, Stutters
<1> QED
  BY Steps, <1>1, <1>2, <1>3, <1>4, <1>5, <1>6, <1>7, Zenon
-----------------------------------------------------------------------------
(* Data *)

LEMMA ReadTypes ==
    ASSUME NEW S, NEW r \in Seq(S), NEW p \in Seq(S), NEW n \in 1..Len(p)
    PROVE  /\ r \o SubSeq(p, 1, n) \in Seq(S)
           /\ SubSeq(p, n + 1, Len(p)) \in Seq(S)
           /\ Len(SubSeq(p, n + 1, Len(p))) <= Len(p)
<1>1. Len(p) \in Nat /\ n \in Nat /\ n <= Len(p)
  OBVIOUS
<1>2. SubSeq(p, 1, n) \in Seq(S) /\ SubSeq(p, n + 1, Len(p)) \in Seq(S)
  OBVIOUS
<1>3. Len(SubSeq(p, n + 1, Len(p))) <= Len(p)
  BY <1>1
<1> QED
  BY <1>2, <1>3

(* Reading, writing and receiving move units of the bounded alphabet, and  *)
(* write() blocks while the pipe is full.                                  *)
LEMMA DataTypesStep ==
    ASSUME CountTypes, OneTransfer, DataTypes, [Next]_vars
    PROVE  DataTypes'
<1> USE DEF DataTypes
<1>1. CASE OwnerMoves
  BY <1>1, OwnerMovesOnly
<1>2. CASE CreatePipes \/ Spawn \/ Submit \/ Write
  BY <1>2 DEF CreatePipes, CreatePipe, Spawn, Submit, Write, threadVars, dataVars
<1>13. CASE NewStream
  BY <1>13 DEF NewStream
<1>3. CASE Read
  <2>1. PICK n \in 1..Len(pipe) : /\ received' = received \o SubSeq(pipe, 1, n)
                                  /\ pipe' = SubSeq(pipe, n + 1, Len(pipe))
    BY <1>3 DEF Read
  <2>2. /\ received' \in Seq(1..MaxUnits) /\ pipe' \in Seq(1..MaxUnits)
        /\ Len(pipe') <= Len(pipe)
    BY <2>1, ReadTypes
  <2>3. UNCHANGED <<rest, sent, dropped>>
    BY <1>3 DEF Read, threadVars
  <2> QED
    BY <2>2, <2>3
<1>4. CASE StopMoves
  BY <1>4, StopMovesOnly
<1>5. CASE HandleCompleted
  <2>1. PICK t \in Transfers : done = <<t>>
    BY <1>5 DEF HandleCompleted, OneTransfer
  <2>2. rest' = t.units
    BY <1>5, <2>1, OneDone DEF HandleCompleted
  <2>3. rest' \in Seq(1..MaxUnits)
    BY <2>2 DEF Transfers
  <2> QED
    BY <1>5, <2>3 DEF HandleCompleted, dataVars
<1>6. CASE WriteUnit
  <2>1. Head(rest) \in 1..MaxUnits /\ Tail(rest) \in Seq(1..MaxUnits)
    BY <1>6 DEF WriteUnit
  <2>2. pipe' \in Seq(1..MaxUnits) /\ Len(pipe') <= PipeCapacity
    BY <1>6, <2>1 DEF WriteUnit
  <2> QED
    BY <1>6, <2>1, <2>2 DEF WriteUnit, dataVars
<1>7. CASE WriteFails
  <2>1. rest # <<>> /\ (rest' = <<>> \/ rest' = Tail(rest))
    BY <1>7 DEF WriteFails
  <2>2. Tail(rest) \in Seq(1..MaxUnits) /\ <<>> \in Seq(1..MaxUnits)
    BY <2>1
  <2>3. rest' \in Seq(1..MaxUnits)
    BY <2>1, <2>2, Zenon
  <2> QED
    BY <1>7, <2>3 DEF WriteFails, dataVars
<1>8. CASE ThreadMoves /\ ~HandleCompleted /\ ~WriteUnit /\ ~WriteFails
  BY <1>8 DEF ThreadMoves, HandlingEnds, HandleOverflow, HandleError, HandleSendError,
     WriteEnds, LoopEnds, ThreadSignals, dataVars
<1>9. CASE TransferCompletes
  <2>1. sent' \in 0..MaxUnits
    BY <1>9 DEF TransferCompletes, CountTypes
  <2> QED
    BY <1>9, <2>1, LibMovesOnly DEF TransferCompletes, LibMoves
<1>10. CASE TransferOverflows
  BY <1>10, LibMovesOnly DEF TransferOverflows, LibMoves
<1>11. CASE Comes \/ Leaves \/ TransferFails \/ SendCompletes
  BY <1>11, LibMovesOnly DEF Comes, Leaves, TransferFails, SendCompletes, LibMoves
<1>12. CASE UNCHANGED vars
  BY <1>12, Stutters
<1> QED
  BY Steps, <1>1, <1>2, <1>3, <1>4, <1>5, <1>6, <1>7, <1>8, <1>9, <1>10, <1>11, <1>12,
     <1>13, Zenon DEF ThreadMoves, LibMoves

LEMMA CatSeq ==
    ASSUME NEW S, NEW s \in Seq(S), NEW t \in Seq(S)
    PROVE  Cat(s, t) \in Seq(S)
BY DEF Cat

LEMMA CatAssociative ==
    ASSUME NEW S, NEW r \in Seq(S), NEW p \in Seq(S), NEW b \in Seq(S)
    PROVE  Cat(Cat(r, p), b) = Cat(r, Cat(p, b))
BY DEF Cat

LEMMA CatEmpty ==
    ASSUME NEW S, NEW s \in Seq(S)
    PROVE  Cat(s, <<>>) = s /\ Cat(<<>>, s) = s
BY DEF Cat
LEMMA UnitsCat ==
    ASSUME NEW S, NEW s \in Seq(S), NEW t \in Seq(S)
    PROVE  Units(Cat(s, t)) = Units(s) \union Units(t)
<1>1. PICK n \in Nat, m \in Nat : n = Len(s) /\ m = Len(t)
  OBVIOUS
<1>2. /\ Len(Cat(s, t)) = n + m
      /\ \A i \in 1..n : Cat(s, t)[i] = s[i]
      /\ \A i \in 1..m : Cat(s, t)[n + i] = t[i]
  BY <1>1 DEF Cat
<1>3. \A i \in 1..n : i \in 1..n + m
  BY <1>1
<1>4. \A i \in 1..m : n + i \in 1..n + m
  BY <1>1
<1>5. \A i \in 1..n + m : i \in 1..n \/ \E j \in 1..m : i = n + j
  <2> TAKE i \in 1..n + m
  <2>1. CASE i <= n
    BY <1>1, <2>1
  <2>2. CASE i > n
    <3>1. i - n \in 1..m /\ i = n + (i - n)
      BY <1>1, <2>2
    <3> QED
      BY <3>1
  <2> QED
    BY <1>1, <2>1, <2>2
<1>6. Units(Cat(s, t)) \subseteq Units(s) \union Units(t)
  BY <1>1, <1>2, <1>5 DEF Units
<1>7. Units(s) \union Units(t) \subseteq Units(Cat(s, t))
  BY <1>1, <1>2, <1>3, <1>4 DEF Units
<1> QED
  BY <1>6, <1>7

(* A rising sequence has no unit twice.                                    *)
LEMMA RisingParts ==
    ASSUME NEW s \in Seq(Data), NEW t \in Seq(Data), Rising(Cat(s, t))
    PROVE  Rising(s) /\ Units(s) \intersect Units(t) = {}
<1>1. PICK n \in Nat, m \in Nat : n = Len(s) /\ m = Len(t)
  OBVIOUS
<1>2. /\ Len(Cat(s, t)) = n + m
      /\ \A i \in 1..n : Cat(s, t)[i] = s[i]
      /\ \A i \in 1..m : Cat(s, t)[n + i] = t[i]
  BY <1>1 DEF Cat
<1>3. \A i, j \in 1..n + m : i < j => Cat(s, t)[i] < Cat(s, t)[j]
  BY <1>2 DEF Rising
<1>4. ASSUME NEW i \in 1..n, NEW j \in 1..n, i < j PROVE s[i] < s[j]
  BY <1>1, <1>2, <1>3, <1>4
<1>5. ASSUME NEW i \in 1..n, NEW j \in 1..m PROVE s[i] # t[j]
  <2>1. i \in 1..n + m /\ n + j \in 1..n + m /\ i < n + j
    BY <1>1
  <2>2. s[i] < t[j]
    BY <1>2, <1>3, <2>1
  <2>3. s[i] \in Data /\ t[j] \in Data
    BY <1>1
  <2>4. s[i] \in Nat /\ t[j] \in Nat
    BY <2>3 DEF Data
  <2> QED
    BY <2>2, <2>4
<1> QED
  BY <1>1, <1>4, <1>5 DEF Rising, Units

Following(n, k) == [i \in 1..k |-> n + i]

(* A rising sequence whose units are at most n goes on with n + 1.         *)
LEMMA RisingGrows ==
    ASSUME NEW n \in Nat, NEW k \in Nat,
           NEW s \in Seq(Data), Units(s) \subseteq 1..n, Rising(s),
           NEW t \in Seq(Data), t = Following(n, k)
    PROVE  /\ Rising(Cat(s, t))
           /\ Units(Cat(s, t)) = Units(s) \union (n + 1..n + k)
<1>1. PICK m \in Nat : m = Len(s)
  OBVIOUS
<1>2. Len(t) = k /\ \A i \in 1..k : t[i] = n + i
  BY DEF Following
<1>3. /\ Len(Cat(s, t)) = m + k
      /\ \A i \in 1..m : Cat(s, t)[i] = s[i]
      /\ \A i \in 1..k : Cat(s, t)[m + i] = n + i
  BY <1>1, <1>2 DEF Cat
<1>4. \A i \in 1..m : s[i] \in Nat /\ s[i] <= n
  BY <1>1 DEF Units
<1>5. \A i, j \in 1..m : i < j => s[i] < s[j]
  BY <1>1 DEF Rising
<1> DEFINE w == Cat(s, t)
<1> HIDE DEF w
<1>w. /\ \A i \in 1..m : w[i] = s[i]
      /\ \A i \in 1..k : w[m + i] = n + i
  BY <1>3 DEF w
<1>6. ASSUME NEW i \in 1..m + k, NEW j \in 1..m + k, i < j
      PROVE  w[i] < w[j]
  <2>1. CASE j <= m
    <3>1. i \in 1..m /\ j \in 1..m
      BY <1>6, <2>1
    <3> QED
      BY <1>w, <1>5, <1>6, <3>1
  <2>2. CASE i <= m /\ j > m
    <3>1. i \in 1..m /\ j - m \in 1..k /\ j = m + (j - m)
      BY <2>2
    <3>2. w[j] = n + (j - m)
      BY <1>w, <3>1
    <3>3. w[i] = s[i] /\ s[i] \in Nat /\ s[i] <= n
      BY <1>w, <1>4, <3>1
    <3> QED
      BY <3>1, <3>2, <3>3
  <2>3. CASE i > m
    <3>1. /\ i - m \in 1..k /\ i = m + (i - m)
          /\ j - m \in 1..k /\ j = m + (j - m)
      BY <1>6, <2>3
    <3>2. w[i] = n + (i - m) /\ w[j] = n + (j - m)
      BY <1>w, <3>1
    <3> QED
      BY <1>6, <3>1, <3>2
  <2> QED
    BY <1>6, <2>1, <2>2, <2>3
<1>7. Units(t) = n + 1..n + k
  <2>1. \A i \in 1..k : n + i \in n + 1..n + k
    OBVIOUS
  <2>2. \A u \in n + 1..n + k : u - n \in 1..k /\ u = n + (u - n)
    OBVIOUS
  <2>3. ASSUME NEW u \in n + 1..n + k PROVE u \in Units(t)
    <3>1. u - n \in 1..Len(t) /\ t[u - n] = u
      BY <1>2, <2>2
    <3> QED
      BY <3>1 DEF Units
  <2>4. Units(t) \subseteq n + 1..n + k
    BY <1>2, <2>1 DEF Units
  <2> QED
    BY <2>3, <2>4
<1>8. Rising(Cat(s, t))
  BY <1>3, <1>6 DEF Rising, w
<1> QED
  BY <1>7, <1>8, UnitsCat

(* What read() takes off the pipe goes to the reader.                      *)
LEMMA ReadMoves ==
    ASSUME NEW S, NEW r \in Seq(S), NEW p \in Seq(S), NEW n \in 1..Len(p)
    PROVE  Cat(Cat(r, SubSeq(p, 1, n)), SubSeq(p, n + 1, Len(p))) = Cat(r, p)
<1> DEFINE a == SubSeq(p, 1, n)
           c == SubSeq(p, n + 1, Len(p))
<1>1. 1 \in 1..Len(p) + 1 /\ n \in 0..Len(p) /\ Len(p) \in n..Len(p)
  OBVIOUS
<1>2. Cat(a, c) = p
  BY <1>1, ConcatAdjacentSubSeq, SubSeqFull DEF Cat
<1>3. a \in Seq(S) /\ c \in Seq(S)
  OBVIOUS
<1> HIDE DEF a, c
<1>4. Cat(Cat(r, a), c) = Cat(r, p)
  BY <1>2, <1>3, CatAssociative
<1> QED
  BY <1>4 DEF a, c

(* What write() puts into the pipe is what the callback held first.        *)
LEMMA WriteMoves ==
    ASSUME NEW S, NEW r \in Seq(S), NEW p \in Seq(S), NEW b \in Seq(S), b # <<>>
    PROVE  Cat(Cat(r, Append(p, Head(b))), Tail(b)) = Cat(Cat(r, p), b)
<1> DEFINE a == Append(p, Head(b))
           c == Tail(b)
<1>1. a \in Seq(S) /\ c \in Seq(S)
  <2>1. Head(b) \in S
    OBVIOUS
  <2> QED
    BY <2>1
<1>2. Cat(a, c) = Cat(p, b)
  BY DEF Cat
<1> HIDE DEF a, c
<1>3. Cat(Cat(r, a), c) = Cat(Cat(r, p), b)
  BY <1>1, <1>2, CatAssociative
<1> QED
  BY <1>3 DEF a, c

LEMMA WaitingSeq ==
    ASSUME OneTransfer
    PROVE  Waiting \in Seq(1..MaxUnits)
<1>1. CASE done = <<>>
  BY <1>1 DEF Waiting
<1>2. CASE \E t \in Transfers : done = <<t>>
  <2>1. PICK t \in Transfers : done = <<t>>
    BY <1>2
  <2>2. Waiting = t.units
    BY <2>1, OneDone DEF Waiting
  <2> QED
    BY <2>2 DEF Transfers
<1> QED
  BY <1>1, <1>2 DEF OneTransfer

(* A step that leaves the order of the stream alone.                       *)
LEMMA OrderKept ==
    ASSUME OrderInv, Whole' = Whole, UNCHANGED <<sent, dropped>>,
           owner' = "started" => owner = "started"
    PROVE  OrderInv'
BY DEF OrderInv

LEMMA WholeSame ==
    ASSUME UNCHANGED <<received, pipe, rest, done>>
    PROVE  Whole' = Whole
BY DEF Whole, Waiting

(* What the USB thread does while the stream is started.                   *)
LEMMA OrderThread ==
    ASSUME DataTypes, OneTransfer, FdInv, owner = "started", ThreadMoves
    PROVE  Whole' = Whole
<1>1. received' = received
  BY ThreadMovesOnly
<1>2. received \in Seq(Data) /\ pipe \in Seq(Data) /\ rest \in Seq(Data)
  BY DEF DataTypes, Data
<1>3. Waiting \in Seq(Data)
  BY WaitingSeq DEF Data
<1>4. CASE HandleCompleted
  <2>1. PICK t \in Transfers : done = <<t>>
    BY <1>4 DEF HandleCompleted, OneTransfer
  <2>2. rest = <<>> /\ Waiting = t.units /\ rest' = t.units
    BY <1>4, <2>1, OneDone DEF HandleCompleted, CanHandle, OneTransfer, Waiting
  <2>3. Waiting' = <<>>
    BY <1>4, <2>1, OneDone DEF HandleCompleted, Waiting
  <2>4. pipe' = pipe
    BY <1>4 DEF HandleCompleted
  <2>5. Cat(received, pipe) \in Seq(Data)
    BY <1>2, CatSeq
  <2>6. Cat(Cat(received, pipe), Waiting) \in Seq(Data)
    BY <1>3, <2>5, CatSeq
  <2>7. Whole = Cat(Cat(received, pipe), Waiting)
    BY <2>2, <2>5, CatEmpty DEF Whole
  <2>8. Whole' = Cat(Cat(Cat(received, pipe), Waiting), <<>>)
    BY <1>1, <2>2, <2>3, <2>4 DEF Whole
  <2> QED
    BY <2>6, <2>7, <2>8, CatEmpty
<1>5. CASE HandleOverflow \/ HandleError
  <2>1. PICK t \in Transfers : done = <<t>> /\ t.status # "completed"
    BY <1>5, OneDone DEF HandleOverflow, HandleError, OneTransfer
  <2>2. Waiting = <<>>
    BY <2>1, OneDone DEF Waiting, Transfers
  <2>3. Waiting' = <<>>
    BY <1>5, <2>1, OneDone DEF HandleOverflow, HandleError, Waiting
  <2>4. pipe' = pipe /\ rest' = rest
    BY <1>5 DEF HandleOverflow, HandleError
  <2> QED
    BY <1>1, <2>2, <2>3, <2>4 DEF Whole
<1>6. CASE WriteUnit
  <2>1. rest # <<>> /\ pipe' = Append(pipe, Head(rest)) /\ rest' = Tail(rest)
    BY <1>6 DEF WriteUnit
  <2>2. Waiting' = Waiting
    BY <1>6 DEF WriteUnit, recvVars, Waiting
  <2>3. Cat(Cat(received', pipe'), rest') = Cat(Cat(received, pipe), rest)
    BY <1>1, <1>2, <2>1, WriteMoves
  <2> QED
    BY <2>2, <2>3 DEF Whole
<1>7. CASE WriteFails
  BY <1>7 DEF WriteFails, FdInv
<1>8. CASE HandlingEnds \/ HandleSendError \/ WriteEnds \/ LoopEnds \/ ThreadSignals
  BY <1>1, <1>8, WholeSame DEF HandlingEnds, HandleSendError, WriteEnds, LoopEnds,
     ThreadSignals, recvVars
<1> QED
  BY <1>4, <1>5, <1>6, <1>7, <1>8 DEF ThreadMoves

(* What the phone sends and a transfer takes comes behind the stream.      *)
LEMMA OrderCompletes ==
    ASSUME CountTypes, DataTypes, OneTransfer, OrderInv, TransferCompletes
    PROVE  OrderInv'
<1> DEFINE got == Cat(Cat(received, pipe), rest)
<1>1. PICK n \in 1..bufferSize :
           /\ sent + n <= MaxUnits
           /\ Completed("completed", [i \in 1..n |-> sent + i])
           /\ sent' = sent + n
  BY DEF TransferCompletes
<1> DEFINE units == [i \in 1..n |-> sent + i]
           t     == [status |-> "completed", units |-> units]
<1>2. sent \in Nat /\ n \in Nat 
  BY DEF DataTypes, CountTypes
<1>3. t \in Transfers /\ t.units = units
  BY <1>1, CompletedTransfer
<1>4. units \in Seq(Data)
  BY <1>3 DEF Transfers, Data
<1>5. done = <<>> /\ done' = Append(done, t)
  BY <1>1 DEF Completed, OneTransfer
<1> HIDE DEF t
<1>6. Waiting = <<>> /\ Waiting' = units
  BY <1>3, <1>5, OneDone DEF Waiting
<1>7. UNCHANGED <<owner, received, pipe, rest>> /\ dropped' = dropped
  BY LibMovesOnly DEF LibMoves, TransferCompletes
<1>8. got \in Seq(Data)
  <2>1. received \in Seq(Data) /\ pipe \in Seq(Data) /\ rest \in Seq(Data)
    BY DEF DataTypes, Data
  <2>2. Cat(received, pipe) \in Seq(Data)
    BY <2>1, CatSeq
  <2> QED
    BY <2>1, <2>2, CatSeq
<1>9. Whole = Cat(got, <<>>) /\ Whole' = Cat(got, units)
  BY <1>6, <1>7 DEF Whole
<1>10. dropped' \subseteq 1..sent'
  BY <1>1, <1>2, <1>7 DEF OrderInv
<1>11. ASSUME owner = "started"
       PROVE  Rising(Whole') /\ Units(Whole') = (1..sent') \ dropped'
  <2> HIDE DEF got, units
  <2>1. Rising(got) /\ Units(got) = (1..sent) \ dropped
    BY <1>8, <1>9, <1>11, CatEmpty DEF OrderInv
  <2>2. Units(got) \subseteq 1..sent /\ units = Following(sent, n)
    BY <2>1 DEF units, Following
  <2>3. Rising(Cat(got, units)) /\ Units(Cat(got, units)) = Units(got) \union (sent + 1..sent + n)
    BY <1>2, <1>4, <1>8, <2>1, <2>2, RisingGrows
  <2>4. Units(Whole') = ((1..sent) \ dropped) \union (sent + 1..sent + n)
    BY <1>9, <2>1, <2>3
  <2>5. ((1..sent) \ dropped) \union (sent + 1..sent + n) = (1..sent + n) \ dropped
    BY <1>2 DEF OrderInv
  <2> QED
    BY <1>1, <1>7, <1>9, <2>3, <2>4, <2>5
<1> QED
  BY <1>7, <1>10, <1>11 DEF OrderInv

LEMMA OrderOverflows ==
    ASSUME DataTypes, OneTransfer, OrderInv, TransferOverflows
    PROVE  OrderInv'
<1>1. done = <<>> /\ done' = Append(done, [status |-> "overflow", units |-> <<>>])
  BY DEF TransferOverflows, Completed, OneTransfer
<1>2. Waiting = <<>> /\ Waiting' = <<>>
  BY <1>1 DEF Waiting
<1>3. UNCHANGED <<owner, received, pipe, rest>>
  BY LibMovesOnly DEF LibMoves, TransferOverflows
<1>4. Whole' = Whole
  BY <1>2, <1>3 DEF Whole
<1>5. sent \in Nat /\ sent' = sent + 1 /\ dropped' = dropped \union {sent + 1}
  BY DEF DataTypes, TransferOverflows
<1>6. dropped' \subseteq 1..sent' /\ (1..sent') \ dropped' = (1..sent) \ dropped
  BY <1>5 DEF OrderInv
<1> QED
  BY <1>3, <1>4, <1>6 DEF OrderInv

LEMMA OrderFails ==
    ASSUME OneTransfer, OrderInv, TransferFails
    PROVE  OrderInv'
<1>1. done = <<>> /\ done' = Append(done, [status |-> "error", units |-> <<>>])
  BY DEF TransferFails, Completed, OneTransfer
<1>2. Waiting = <<>> /\ Waiting' = <<>>
  BY <1>1 DEF Waiting
<1>3. UNCHANGED <<owner, received, pipe, rest>> /\ UNCHANGED <<sent, dropped>>
  BY LibMovesOnly DEF LibMoves, TransferFails
<1>4. Whole' = Whole
  BY <1>2, <1>3 DEF Whole
<1> QED
  BY <1>3, <1>4, OrderKept

LEMMA OrderStep ==
    ASSUME CountTypes, DataTypes, OneTransfer, FreshInv, FdInv, OrderInv, [Next]_vars
    PROVE  OrderInv'
<1>1. CASE OwnerMoves
  BY <1>1, OwnerMovesOnly, WholeSame, OrderKept
<1>2. CASE CreatePipes \/ Spawn
  BY <1>2, WholeSame, OrderKept DEF CreatePipes, CreatePipe, Spawn, Goto, threadVars,
     recvVars, dataVars
<1>3. CASE Submit
  <2>1. UNCHANGED <<received, pipe, rest, done, sent, dropped>>
    BY <1>3 DEF Submit, threadVars, dataVars
  <2>2. received = <<>> /\ pipe = <<>> /\ rest = <<>> /\ done = <<>> /\ sent = 0 /\ dropped = {}
    BY <1>3 DEF Submit, FreshInv, Starting
  <2>3. Whole = <<>>
    BY <2>2 DEF Whole, Waiting, Cat
  <2>4. Rising(<<>>) /\ Units(<<>>) = {} /\ (1..0) \ {} = {}
    BY DEF Rising, Units
  <2>5. Whole' = <<>> /\ sent' = 0 /\ dropped' = {}
    BY <2>1, <2>2, <2>3, WholeSame
  <2> QED
    BY <2>4, <2>5 DEF OrderInv
<1>4. CASE Read
  <2>1. PICK n \in 1..Len(pipe) : /\ received' = received \o SubSeq(pipe, 1, n)
                                  /\ pipe' = SubSeq(pipe, n + 1, Len(pipe))
    BY <1>4 DEF Read
  <2>2. Cat(received', pipe') = Cat(received, pipe)
    BY <2>1, ReadMoves DEF DataTypes, Cat
  <2>3. UNCHANGED <<rest, done, sent, dropped, owner>>
    BY <1>4 DEF Read, ownerVars, threadVars, recvVars
  <2>4. Whole' = Whole
    BY <2>2, <2>3 DEF Whole, Waiting
  <2> QED
    BY <2>3, <2>4, OrderKept
<1>5. CASE Write
  BY <1>5, WholeSame, OrderKept DEF Write, ownerVars, threadVars, recvVars, dataVars
<1>6. CASE StopMoves
  BY <1>6, StopMovesOnly, WholeSame, OrderKept DEF Stopping
<1>7. CASE NewStream
  BY <1>7 DEF NewStream, OrderInv
<1>8. CASE ThreadMoves
  BY <1>8, ThreadMovesOnly, OrderThread DEF OrderInv
<1>9. CASE Comes \/ Leaves \/ SendCompletes
  BY <1>9, LibMovesOnly, WholeSame, OrderKept DEF LibMoves, Comes, Leaves, SendCompletes
<1>10. CASE UNCHANGED vars
  BY <1>10, Stutters, WholeSame, OrderKept
<1> QED
  BY Steps, <1>1, <1>2, <1>3, <1>4, <1>5, <1>6, <1>7, <1>8, <1>9, <1>10, OrderCompletes,
     OrderOverflows, OrderFails, Zenon DEF LibMoves
-----------------------------------------------------------------------------
(* The theorems *)

LEMMA USBInit == Init => USBInv
<1> SUFFICES ASSUME Init PROVE USBInv
  OBVIOUS
<1>1. OwnerTypes /\ ThreadTypes
  BY DEF Init, OwnerTypes, ThreadTypes, HU_STATE, Present
<1>2. FdTypes
  BY DEF Init, FdTypes
<1>3. DataTypes /\ CountTypes
  BY DEF Init, DataTypes, CountTypes
<1>4. OneTransfer /\ OverflowFits /\ FreshInv /\ ThreadInv /\ StopInv /\ FdInv
  BY DEF Init, OneTransfer, OverflowFits, FreshInv, ThreadInv, StopInv, FdInv
<1>5. OrderInv
  BY DEF Init, OrderInv
<1> QED
  BY <1>1, <1>2, <1>3, <1>4, <1>5 DEF USBInv

LEMMA USBStep == USBInv /\ [Next]_vars => USBInv'
BY OwnerTypesStep, FdTypesStep, ThreadTypesStep, DataTypesStep, CountTypesStep,
   OneTransferStep, OverflowFitsStep, FreshStep, ThreadStep, FdStep, StopInvStep,
   OrderStep, Zenon DEF USBInv

(* The invariant of a stream from Start() to Stop() and over to the next.  *)
THEOREM USBAlways == Spec => []USBInv
BY USBInit, USBStep, PTL DEF Spec

LEMMA USBTyped == USBInv => TypeOK
<1> SUFFICES ASSUME USBInv PROVE TypeOK
  OBVIOUS
<1>1. ASSUME NEW i \in 1..Len(done)
      PROVE  done[i].status \in {"completed", "overflow", "error"}
  <2>1. PICK t \in Transfers : done = <<t>>
    BY <1>1 DEF USBInv, OneTransfer
  <2>2. done[i] = t
    BY <1>1, <2>1, OneDone
  <2> QED
    BY <2>2 DEF Transfers
<1>2. flying \in Nat
  BY DEF USBInv, OneTransfer
<1>3. sends \in 0..MaxSends /\ sendsFailed \in 0..MaxSends /\ bufferSize \in 0..MaxBuffer
  BY DEF USBInv, CountTypes
<1> QED
  BY <1>1, <1>2, <1>3, Zenon
     DEF USBInv, TypeOK, OwnerTypes, FdTypes, ThreadTypes, DataTypes

(* Type correctness of HUTransportStreamUSB: the error pipe gets one word  *)
(* at most, the data pipe never more than it holds, and the receive buffer *)
(* is not doubled beyond the transfers that overflowed.                    *)
THEOREM USBTypes == Spec => []TypeOK
BY USBAlways, USBTyped, PTL

LEMMA USBOrdered == USBInv => StreamInOrder
<1> SUFFICES ASSUME USBInv, owner = "started"
             PROVE  LET stream  == received \o pipe \o rest
                        pending == UNION {Units(done[i].units) : i \in 1..Len(done)}
                    IN /\ \A i \in 2..Len(stream) : stream[i - 1] < stream[i]
                       /\ Units(stream) = (1..sent) \ (dropped \union pending)
  BY DEF StreamInOrder
<1> DEFINE stream  == received \o pipe \o rest
           pending == UNION {Units(done[i].units) : i \in 1..Len(done)}
<1>1. received \in Seq(Data) /\ pipe \in Seq(Data) /\ rest \in Seq(Data)
  BY DEF USBInv, DataTypes, Data
<1>2. Waiting \in Seq(Data)
  BY WaitingSeq DEF USBInv, Data
<1>3. stream = Cat(Cat(received, pipe), rest)
  BY DEF Cat
<1>4. stream \in Seq(Data)
  <2>1. Cat(received, pipe) \in Seq(Data)
    BY <1>1, CatSeq
  <2> HIDE DEF stream
  <2> QED
    BY <1>1, <1>3, <2>1, CatSeq
<1>5. pending = Units(Waiting)
  <2>1. CASE done = <<>>
    BY <2>1 DEF Waiting, Units
  <2>2. ASSUME NEW t \in Transfers, done = <<t>> PROVE pending = Units(Waiting)
    <3>1. 1..Len(done) = {1} /\ done[1].units = t.units /\ Waiting = t.units
      BY <2>2, OneDone DEF Waiting
    <3> HIDE DEF Waiting
    <3> QED
      BY <3>1, Zenon
  <2> QED
    BY <2>1, <2>2 DEF USBInv, OneTransfer
<1> HIDE DEF stream, pending
<1>6. Whole = Cat(stream, Waiting)
  BY <1>3 DEF Whole
<1>7. /\ Rising(stream) /\ Units(stream) \intersect Units(Waiting) = {}
      /\ Units(Cat(stream, Waiting)) = Units(stream) \union Units(Waiting)
      /\ Units(Cat(stream, Waiting)) = (1..sent) \ dropped
  <2>1. Rising(Cat(stream, Waiting)) /\ Units(Cat(stream, Waiting)) = (1..sent) \ dropped
    BY <1>6 DEF USBInv, OrderInv
  <2>2. Rising(stream) /\ Units(stream) \intersect Units(Waiting) = {}
    BY <1>2, <1>4, <2>1, RisingParts
  <2>3. Units(Cat(stream, Waiting)) = Units(stream) \union Units(Waiting)
    BY <1>2, <1>4, UnitsCat
  <2> QED
    BY <2>1, <2>2, <2>3
<1>8. Units(stream) = (1..sent) \ (dropped \union pending)
  BY <1>5, <1>7
<1>9. ASSUME NEW i \in 2..Len(stream) PROVE stream[i - 1] < stream[i]
  <2>1. i - 1 \in 1..Len(stream) /\ i \in 1..Len(stream) /\ i - 1 < i
    BY <1>4
  <2> QED
    BY <1>7, <2>1 DEF Rising
<1> QED
  BY <1>8, <1>9 DEF stream, pending

(* The reader of a started stream gets what the phone sent, in order and   *)
(* without a gap but for the transfers that overflowed, for every size of  *)
(* the pipe and the buffer: libusb_callback(), which holds the only        *)
(* transfer, and the blocking write() keep the order.                      *)
THEOREM StreamStaysInOrder == Spec => []StreamInOrder
BY USBAlways, USBOrdered, PTL

LEMMA USBClean == USBInv => StoppedIsClean
BY DEF USBInv, StoppedIsClean, StopInv, ThreadInv, FdInv, Members

(* Stop() leaves no thread, descriptor, device or context, wherever in     *)
(* Start() the stream failed: the next Start() begins with nothing.        *)
THEOREM StoppedStaysClean == Spec => []StoppedIsClean
BY USBAlways, USBClean, PTL

(* A step that resizes the buffer finds no transfer that points into it.   *)
LEMMA BufferStep ==
    ASSUME USBInv, [Next]_vars, bufferSize' # bufferSize, bufferSize' # 0
    PROVE  /\ flying = 0 /\ rest = <<>>
           /\ \A i \in 1..Len(done) : done[i].units = <<>>
<1>1. CASE Submit
  BY <1>1 DEF Submit, USBInv, FreshInv, Starting
<1>2. CASE HandleOverflow
  <2>1. PICK t \in Transfers : done = <<t>> /\ t.status # "completed"
    BY <1>2, OneDone DEF HandleOverflow, USBInv, OneTransfer
  <2>2. \A i \in 1..Len(done) : done[i].units = <<>>
    BY <2>1, OneDone DEF Transfers
  <2>3. flying = 0 /\ rest = <<>>
    BY <1>2, <2>1 DEF HandleOverflow, CanHandle, USBInv, OneTransfer
  <2> QED
    BY <2>2, <2>3
<1>3. CASE OwnerMoves
  BY <1>3, OwnerMovesOnly
<1>4. CASE CreatePipes \/ Spawn \/ Read \/ Write \/ NewStream
  BY <1>4 DEF CreatePipes, CreatePipe, Spawn, Read, Write, NewStream, recvVars
<1>5. CASE StopMoves
  BY <1>5, StopMovesOnly
<1>6. CASE ThreadMoves /\ ~HandleOverflow
  BY <1>6 DEF ThreadMoves, HandlingEnds, HandleCompleted, HandleError, HandleSendError,
     WriteUnit, WriteFails, WriteEnds, LoopEnds, ThreadSignals, recvVars
<1>7. CASE LibMoves
  BY <1>7, LibMovesOnly
<1>8. CASE UNCHANGED vars
  BY <1>8, Stutters
<1> QED
  BY Steps, <1>1, <1>2, <1>3, <1>4, <1>5, <1>6, <1>7, <1>8, Zenon

(* m_tempReceiveBuffer never moves under a transfer or a callback that     *)
(* points into it: start_usb_recv() is only called when there is none.     *)
THEOREM BufferStaysPut == Spec => BufferStable
<1>1. USBInv /\ [Next]_vars
        => [bufferSize' # bufferSize /\ bufferSize' # 0
              => flying = 0 /\ rest = <<>>
                 /\ \A i \in 1..Len(done) : done[i].units = <<>>]_vars
  BY BufferStep
<1> QED
  BY <1>1, USBAlways, PTL DEF Spec, BufferStable
-----------------------------------------------------------------------------
(* What HUServer relies on *)

LEMMA StartedSteps ==
    ASSUME [Next]_vars, owner = "started", owner' = "started"
    PROVE  Read \/ Write \/ ThreadMoves \/ LibMoves \/ UNCHANGED vars
<1>1. ~OwnerMoves
  BY OwnerMovesOnly
<1>2. ~CreatePipes /\ ~Spawn /\ ~Submit /\ ~NewStream
  BY DEF CreatePipes, CreatePipe, Spawn, Submit, NewStream
<1>3. ~StopMoves
  BY StopMovesOnly DEF Stopping
<1> QED
  BY Steps, <1>1, <1>2, <1>3, Zenon

(* The error descriptor becomes readable once, when the thread leaves.     *)
LEMMA SignalsStep ==
    ASSUME USBInv, [Next]_vars, owner = "started", owner' = "started"
    PROVE  /\ signals > 0 => signals' > 0
           /\ signals = 0 /\ signals' # 0 => usb_thread = "leaving"
           /\ usb_thread = "leaving" => usb_thread' = "leaving" \/ signals' > 0
<1>1. signals \in {0, 1}
  BY DEF USBInv, ThreadTypes
<1>2. CASE ThreadSignals
  BY <1>1, <1>2 DEF ThreadSignals, USBInv, FdInv
<1>3. CASE ThreadMoves /\ ~ThreadSignals
  BY <1>3 DEF ThreadMoves, HandlingEnds, HandleCompleted, HandleOverflow, HandleError,
     HandleSendError, WriteUnit, WriteFails, WriteEnds, LoopEnds, CanHandle, fdVars
<1>4. CASE Read \/ Write
  BY <1>4 DEF Read, Write, fdVars, threadVars
<1>5. CASE LibMoves
  BY <1>5, LibMovesOnly
<1>6. CASE UNCHANGED vars
  BY <1>6, Stutters
<1> QED
  BY <1>2, <1>3, <1>4, <1>5, <1>6, StartedSteps

(* A loss is not forgotten before it is signalled.                         *)
LEMMA LostStep ==
    ASSUME USBInv, [Next]_vars, owner = "started", owner' = "started", Lost
    PROVE  Lost' \/ signals' > 0
<1>1. CASE usb_thread = "leaving"
  BY <1>1, SignalsStep DEF Lost
<1>2. CASE abort
  <2>1. abort'
    <3>1. CASE ThreadMoves
      BY <1>2, <3>1, Zenon DEF ThreadMoves, HandlingEnds, HandleCompleted, HandleOverflow, HandleError,
         HandleSendError, WriteUnit, WriteFails, WriteEnds, LoopEnds, ThreadSignals
    <3>2. CASE Read \/ Write
      BY <1>2, <3>2, Zenon DEF Read, Write, threadVars
    <3>3. CASE LibMoves
      BY <1>2, <3>3, LibMovesOnly
    <3>4. CASE UNCHANGED vars
      BY <1>2, <3>4, Stutters
    <3> QED
      BY <3>1, <3>2, <3>3, <3>4, StartedSteps
  <2> QED
    BY <2>1 DEF Lost
<1>3. CASE sendsFailed > 0
  <2>1. CASE HandleSendError
    BY <2>1 DEF HandleSendError, Lost
  <2>2. CASE ThreadMoves /\ ~HandleSendError
    BY <1>3, <2>2 DEF ThreadMoves, HandlingEnds, HandleCompleted, HandleOverflow, HandleError,
       WriteUnit, WriteFails, WriteEnds, LoopEnds, ThreadSignals, sendVars, Lost
  <2>3. CASE Read \/ Write
    BY <1>3, <2>3 DEF Read, Write, sendVars, Lost
  <2>4. CASE LibMoves
    BY <1>3, <2>4 DEF LibMoves, Comes, Leaves, TransferCompletes, TransferOverflows,
       TransferFails, SendCompletes, sendVars, Lost, USBInv, CountTypes
  <2>5. CASE UNCHANGED vars
    BY <1>3, <2>5, Stutters DEF Lost
  <2> QED
    BY <2>1, <2>2, <2>3, <2>4, <2>5, StartedSteps
<1>4. CASE \E i \in 1..Len(done) : done[i].status = "error"
  <2>1. PICK t \in Transfers : done = <<t>>
    BY <1>4 DEF USBInv, OneTransfer
  <2>2. t.status = "error" /\ done # <<>> /\ Head(done) = t /\ flying = 0
    BY <1>4, <2>1, OneDone DEF USBInv, OneTransfer
  <2>3. CASE HandleError
    BY <2>3 DEF HandleError, Lost
  <2>4. done' = done => Lost'
    BY <1>4 DEF Lost
  <2>5. CASE ThreadMoves /\ ~HandleError
    BY <2>2, <2>4, <2>5 DEF ThreadMoves, HandlingEnds, HandleCompleted, HandleOverflow,
       HandleSendError, WriteUnit, WriteFails, WriteEnds, LoopEnds, ThreadSignals, recvVars
  <2>6. CASE Read \/ Write
    BY <2>4, <2>6 DEF Read, Write, recvVars
  <2>7. CASE LibMoves
    BY <2>2, <2>4, <2>7 DEF LibMoves, Comes, Leaves, TransferCompletes, TransferOverflows,
       TransferFails, SendCompletes, Completed
  <2>8. CASE UNCHANGED vars
    BY <2>4, <2>8, Stutters
  <2> QED
    BY <2>3, <2>5, <2>6, <2>7, <2>8, StartedSteps
<1>5. CASE device = "gone" /\ flying > 0
  <2>1. flying = 1 /\ done = <<>> /\ usb_thread # "writing"
    BY <1>5 DEF USBInv, OneTransfer
  <2>2. device' = "gone" /\ flying' > 0 => Lost'
    BY DEF Lost
  <2>3. CASE TransferFails
    <3>1. done' = <<[status |-> "error", units |-> <<>>]>>
      BY <2>1, <2>3 DEF TransferFails, Completed
    <3>2. 1 \in 1..Len(done') /\ done'[1].status = "error"
      BY <3>1
    <3> QED
      BY <3>2 DEF Lost
  <2>4. CASE ThreadMoves
    BY <1>5, <2>1, <2>2, <2>4 DEF ThreadMoves, HandlingEnds, HandleCompleted,
       HandleOverflow, HandleError, HandleSendError, WriteUnit, WriteFails, WriteEnds,
       LoopEnds, ThreadSignals, recvVars
  <2>5. CASE Read \/ Write
    BY <1>5, <2>2, <2>5 DEF Read, Write, recvVars
  <2>6. CASE LibMoves /\ ~TransferFails
    BY <1>5, <2>2, <2>6 DEF LibMoves, Comes, Leaves, TransferCompletes, TransferOverflows,
       SendCompletes
  <2>7. CASE UNCHANGED vars
    BY <1>5, <2>2, <2>7, Stutters
  <2> QED
    BY <2>3, <2>4, <2>5, <2>6, <2>7, StartedSteps
<1>6. CASE device = "gone" /\ sends > 0
  <2>1. device' = "gone" /\ sends' > 0 => Lost'
    BY DEF Lost
  <2>2. CASE SendCompletes
    BY <1>6, <2>2 DEF SendCompletes, Lost, USBInv, CountTypes
  <2>3. CASE Read \/ Write
    BY <1>6, <2>1, <2>3 DEF Read, Write, sendVars
  <2>4. CASE ThreadMoves
    BY <1>6, <2>1, <2>4, ThreadMovesOnly
  <2>5. CASE LibMoves /\ ~SendCompletes
    BY <1>6, <2>1, <2>5 DEF LibMoves, Comes, Leaves, TransferCompletes, TransferOverflows,
       TransferFails, sendVars
  <2>6. CASE UNCHANGED vars
    BY <1>6, <2>1, <2>6, Stutters
  <2> QED
    BY <2>2, <2>3, <2>4, <2>5, <2>6, StartedSteps
<1> QED
  BY <1>1, <1>2, <1>3, <1>4, <1>5, <1>6 DEF Lost

(* Once nothing is asked of the phone nothing will be.                     *)
LEMMA DeafStep ==
    ASSUME [Next]_vars, owner = "started", owner' = "started", Deaf
    PROVE  Deaf'
<1> USE DEF Deaf
<1>1. CASE Read \/ Write
  BY <1>1 DEF Read, Write, recvVars, threadVars
<1>2. CASE ThreadMoves
  BY <1>2 DEF ThreadMoves, HandlingEnds, HandleCompleted, HandleOverflow, HandleError,
     HandleSendError, WriteUnit, WriteFails, WriteEnds, LoopEnds, ThreadSignals, Handled,
     recvVars
<1>3. CASE Comes \/ Leaves \/ SendCompletes
  BY <1>3, LibMovesOnly DEF LibMoves, Comes, Leaves, SendCompletes
<1>4. ~(TransferCompletes \/ TransferOverflows \/ TransferFails)
  <2>1. ~(flying > 0)
    OBVIOUS
  <2> QED
    BY <2>1, Zenon DEF TransferCompletes, TransferOverflows, TransferFails, Completed
<1>5. CASE UNCHANGED vars
  BY <1>5, Stutters
<1> QED
  BY <1>1, <1>2, <1>3, <1>4, <1>5, StartedSteps DEF LibMoves

LEMMA StreamStep ==
    ASSUME USBInv, USBInv', [Next]_vars
    PROVE  Stream!Next \/ Status' = Status
<1>1. signals \in {0, 1} /\ signals' \in {0, 1}
  BY DEF USBInv, ThreadTypes
<1>2. CASE owner # "started" \/ owner' # "started"
  BY <1>1, <1>2 DEF Status, Stream!Next, Stream!Open, Stream!Close
<1>3. CASE owner = "started" /\ owner' = "started"
  <2>1. /\ signals > 0 => signals' > 0
        /\ signals = 0 /\ signals' # 0 => Lost
    BY <1>3, SignalsStep DEF Lost
  <2>2. Lost => Lost' \/ signals' > 0
    BY <1>3, LostStep
  <2>3. Deaf => Deaf'
    BY <1>3, DeafStep
  <2> QED
    BY <1>1, <1>3, <2>1, <2>2, <2>3
       DEF Status, Stream!Next, Stream!Lose, Stream!Deafen, Stream!Signal
<1> QED
  BY <1>2, <1>3

(* HUTransportStreamUSB keeps what HUServer relies on but for liveness: a  *)
(* loss is remembered until it is signalled, nothing else is signalled,    *)
(* and a deaf stream never hears again.                                    *)
THEOREM StreamImplemented == Spec => Stream!Safety
<1>1. Init => Stream!Init
  BY DEF Init, Stream!Init, Status
<1>2. USBInv /\ USBInv' /\ [Next]_vars => [Stream!Next]_Status
  BY StreamStep
<1> QED
  BY <1>1, <1>2, USBAlways, PTL DEF Spec, Stream!Safety
=============================================================================
