----------------------------- MODULE HUMessages -----------------------------
(***************************************************************************)
(* What HUServer answers to the messages of the phone: the SSL handshake   *)
(* (src/hu/hu_ssl.cpp) and processMessage() with its handlers              *)
(* (src/hu/hu_aap.cpp), over connections that end and come back while      *)
(* m_ssl and channel_session_id stay.  A message is whole, a send succeeds *)
(* or fails at once (HUAssembly and HUSending look inside), and the ends   *)
(* of mainThread() and of start() are one step (HUServer looks inside).    *)
(* The phone does not wait where it need not, and may go astray in the     *)
(* handshake.                                                              *)
(***************************************************************************)
EXTENDS Integers, Sequences

CONSTANTS
    MediaChannels,      \* output channels that are streamed on
    OtherMessages,      \* messages that need nothing before them
    Filtered,           \* types the application's MessageFilter handles
    MaxOthers,          \* bound: OtherMessages sent in a connection
    MaxStreams,         \* bound: MediaStartRequests sent
    MaxPending,         \* bound: messages on their way to HUServer
    MaxConnections      \* bound: calls of start()

ASSUME BoundsAssumption ==
    /\ MaxOthers \in Nat
    /\ MaxStreams \in Nat
    /\ MaxPending \in Nat \ {0}
    /\ MaxConnections \in Nat

HandshakeTypes ==
    {"VersionResponse", "ServerHello", "PartOfServerHello", "ServerFinished",
     "PartOfServerFinished"}

(* What the phone sends in its turn once the handshake is over. *)
Requests ==
    {"ServiceDiscoveryRequest", "ChannelOpenRequest", "MediaSetupRequest",
     "MediaStartRequest", "MediaStopRequest", "MediaData", "MediaDataWithTimestamp"}

FixedChannels ==
    {"Control", "Sensor", "Touch", "Bluetooth", "PhoneStatus", "Notification",
     "Navigation", "Microphone"}

Channels == MediaChannels \union FixedChannels

ASSUME ChannelsAssumption == MediaChannels \intersect FixedChannels = {}

(* The handshake is over when the phone sends the others. *)
ASSUME OthersAssumption ==
    \A m \in OtherMessages :
        /\ m = [type |-> m.type, chan |-> m.chan, n |-> 0]
        /\ m.type \notin HandshakeTypes \union Requests
        /\ m.chan \in Channels

VARIABLES
    iaap_state,             \* "STARTIN", "STARTED" or "STOPPED"
    ssl,                    \* m_ssl: whose attempt it is, and what it waits for
    channel_session_id,
    cause,                  \* something failed, or someone ended the connection
    inbox, outbox,          \* messages on their way to and from HUServer
    phone,
    streams, connections

huVars   == <<iaap_state, ssl, channel_session_id, cause>>
wireVars == <<inbox, outbox>>
counters == <<streams, connections>>
vars     == <<huVars, wireVars, phone, counters>>

(* A number goes with a message: the session of a stream, the attempt of a *)
(* handshake, or which of the phone's other messages it is; an answer has  *)
(* that of the message it answers.                                         *)
Msg(type, chan, n) == [type |-> type, chan |-> chan, n |-> n]

(* The phone: the step of the handshake it is at (it sends at 0, 2 and 4,  *)
(* waits at 1 and 3, is ready at 5, and has gone astray at 6), the attempt *)
(* it takes part in, how far its channels are, and the answers it waits    *)
(* for.                                                                    *)
NewPhone ==
    [step |-> 0, attempt |-> 0, others |-> 0, waiting |-> {},
     progress |-> [c \in Channels |-> "closed"],
     session |-> [c \in Channels |-> 0]]

Init ==
    /\ iaap_state = "STOPPED"
    /\ ssl = [attempt |-> 0, wants |-> "nothing"]
    /\ channel_session_id = [c \in Channels |-> 0]
    /\ cause = TRUE
    /\ inbox = <<>>
    /\ outbox = <<>>
    /\ phone = NewPhone
    /\ streams = 0
    /\ connections = 0

-----------------------------------------------------------------------------
(* Handlers.  An outcome is what one run of a handler returns, whether     *)
(* stop() was called in it, what it sent, and the state it leaves; a       *)
(* handler is the set of its outcomes.                                     *)

Unchanged ==
    [ret |-> 0, stop |-> FALSE, cause |-> FALSE, out |-> <<>>,
     state |-> iaap_state, ssl |-> ssl, ids |-> channel_session_id]

Failed(o) == [o EXCEPT !.ret = -1, !.cause = TRUE]

(* sendEncodedMessage() with retry 0: a failed write calls stop() and      *)
(* returns 0; a failure of SSL calls stop() and returns -1.                *)
SendEncoded(o, msg) ==
    LET lost == [o EXCEPT !.ret = 0, !.stop = TRUE, !.cause = TRUE]
    IN {[o EXCEPT !.ret = 0, !.out = Append(@, msg)], lost, Failed(lost)}

(* sendUnencodedBlob() and -Message() with retry 0 return the size sent.   *)
Size == 1

SendUnencoded(o, msg) ==
    {[o EXCEPT !.ret = Size, !.out = Append(@, msg)],
     [Failed(o) EXCEPT !.stop = TRUE]}

(* What a callback of the application, or ParseFromArray(), returns.       *)
MayFail(o) == {o, Failed(o)}

-----------------------------------------------------------------------------
(* The handshake. *)

(* Mutant: the size is passed on. *)
sendSSLHandshakePacketSize(o, type) == SendUnencoded(o, Msg(type, "Control", o.ssl.attempt))

sendSSLHandshakePacket(o, type) ==
    {IF r.ret < 0 THEN r ELSE [r EXCEPT !.ret = 0] :
        r \in SendUnencoded(o, Msg(type, "Control", o.ssl.attempt))}

(* Everything of SSL is made anew; what was there is never freed. *)
beginSSLHandshake ==
    LET new == [Unchanged EXCEPT
                   !.ssl = [attempt |-> connections, wants |-> "ServerHello"]]
    IN {Failed(Unchanged)} \union sendSSLHandshakePacket(new, "ClientHello")

handle_VersionResponse ==
    {[o EXCEPT !.stop = @ \/ o.ret # 0] : o \in beginSSLHandshake}

(* Mutant: SSL_is_init_finished() is not asked. *)
handleSSLHandshakeEarly(m) ==
    {IF r.ret < 0 THEN r ELSE [r EXCEPT !.ret = 0, !.state = "STARTED"] :
        r \in SendUnencoded(Unchanged, Msg("AuthComplete", "Control", ssl.attempt))}

(* SSL_is_init_finished() after m: m is what m_ssl waited for last, or     *)
(* m_ssl was finished before, perhaps in an earlier connection.            *)
Finishes(m) ==
    \/ ssl.wants = "ServerFinished" /\ m.type = "ServerFinished"
    \/ ssl.wants = "nothing" /\ ssl.attempt # 0

(* One step of SSL_do_handshake().  If it wants more and has nothing to    *)
(* send, because the message was only a part of what it waited for,        *)
(* BIO_read() in sendSSLHandshakePacket() fails.                           *)
handleSSLHandshake(m) ==
    {Failed(Unchanged)} \union
    CASE ssl.wants = "ServerHello" /\ m.type = "ServerHello" ->
            sendSSLHandshakePacket([Unchanged EXCEPT !.ssl.wants = "ServerFinished"],
                                   "ClientFinished")
      [] Finishes(m) ->
            {IF r.ret < 0 THEN [r EXCEPT !.stop = TRUE]
             ELSE [r EXCEPT !.ret = 0, !.ssl.wants = "nothing", !.state = "STARTED"] :
                r \in SendUnencoded(Unchanged, Msg("AuthComplete", "Control", ssl.attempt))}
      [] OTHER -> {}

-----------------------------------------------------------------------------
(* The handlers of an established session.  Of the callbacks only the      *)
(* results are modelled.                                                   *)

Answer(m, type) == SendEncoded(Unchanged, Msg(type, m.chan, m.n))

handle_ServiceDiscoveryRequest(m) == Answer(m, "ServiceDiscoveryResponse")
handle_PingRequest(m)             == Answer(m, "PingResponse")
handle_NavigationFocusRequest(m)  == Answer(m, "NavigationFocusResponse")
handle_SensorStartRequest(m)      == Answer(m, "SensorStartResponse")
handle_BindingRequest(m)          == Answer(m, "BindingResponse")
handle_MediaSetupRequest(m)       == Answer(m, "MediaSetupResponse")

handle_ShutdownRequest(m) ==
    {[Failed(o) EXCEPT !.stop = TRUE] : o \in Answer(m, "ShutdownResponse")}

(* The sensor channel gets an event of its own after the response. *)
handle_ChannelOpenRequest(m) ==
    UNION {IF o.ret # 0 \/ m.chan # "Sensor" THEN {o}
           ELSE SendEncoded(o, Msg("SensorEvent", "Sensor", 0)) :
              o \in Answer(m, "ChannelOpenResponse")}

(* Mutant: the id of a stream that is still open is kept. *)
handle_MediaStartRequestKept(m) ==
    MayFail([Unchanged EXCEPT !.ids[m.chan] = IF @ = 0 THEN m.n ELSE @])

handle_MediaStartRequest(m) == MayFail([Unchanged EXCEPT !.ids[m.chan] = m.n])

handle_MediaStopRequest(m) == MayFail([Unchanged EXCEPT !.ids[m.chan] = 0])

(* Mutant: the application's error is dropped with the acknowledgement. *)
handle_MediaDataQuiet(m) ==
    {Unchanged} \union SendEncoded(Unchanged, Msg("MediaAck", m.chan, channel_session_id[m.chan]))

handle_MediaData(m) ==
    {Failed(Unchanged)} \union
    SendEncoded(Unchanged, Msg("MediaAck", m.chan, channel_session_id[m.chan]))

handle_MediaDataWithTimestamp(m) == handle_MediaData(m)

handle_MicRequest(m)          == MayFail(Unchanged)
handle_VoiceSessionRequest(m) == {Unchanged}
handle_AudioFocusRequest(m)   == {Unchanged}
handle_VideoFocusRequest(m)   == {Unchanged}
handle_MediaAck(m)            == {Unchanged}
handle_PhoneStatus(m)         == MayFail(Unchanged)
handle_BluetoothAuthData(m)   == MayFail(Unchanged)

handle_StartGenericNotifications(m)   == MayFail(Unchanged)
handle_StopGenericNotifications(m)    == MayFail(Unchanged)
handle_GenericNotificationResponse(m) == MayFail(Unchanged)

handle_BluetoothPairingRequest(m) ==
    {Failed(Unchanged)} \union Answer(m, "BluetoothPairingResponse")

handle_NaviStatus(m)       == MayFail(Unchanged)
handle_NaviTurn(m)         == MayFail(Unchanged)
handle_NaviTurnDistance(m) == MayFail(Unchanged)

-----------------------------------------------------------------------------
(* processMessage() *)

MessageFilter(m) ==
    {Failed(Unchanged)} \union IF m.type \in Filtered THEN {Unchanged} ELSE {}

DispatchInit(m) ==
    CASE m.type = "VersionResponse" -> handle_VersionResponse
      [] m.type \in HandshakeTypes \ {"VersionResponse"} -> handleSSLHandshake(m)
      [] OTHER -> {Unchanged}

(* Messages below 0x8000 are the same on every channel. *)
DispatchControl(m) ==
    CASE m.type = "MediaDataWithTimestamp"  -> handle_MediaDataWithTimestamp(m)
      [] m.type = "MediaData"               -> handle_MediaData(m)
      [] m.type = "ServiceDiscoveryRequest" -> handle_ServiceDiscoveryRequest(m)
      [] m.type = "ChannelOpenRequest"      -> handle_ChannelOpenRequest(m)
      [] m.type = "PingRequest"             -> handle_PingRequest(m)
      [] m.type = "NavigationFocusRequest"  -> handle_NavigationFocusRequest(m)
      [] m.type = "ShutdownRequest"         -> handle_ShutdownRequest(m)
      [] m.type = "VoiceSessionRequest"     -> handle_VoiceSessionRequest(m)
      [] m.type = "AudioFocusRequest"       -> handle_AudioFocusRequest(m)
      [] OTHER -> {Unchanged}

DispatchMedia(m) ==
    CASE m.type = "MediaSetupRequest" -> handle_MediaSetupRequest(m)
      [] m.type = "MediaStartRequest" -> handle_MediaStartRequest(m)
      [] m.type = "MediaStopRequest"  -> handle_MediaStopRequest(m)
      [] m.type = "MediaAck"          -> handle_MediaAck(m)
      [] m.type = "MicRequest"        -> handle_MicRequest(m)
      [] m.type = "VideoFocusRequest" -> handle_VideoFocusRequest(m)
      [] OTHER -> {Unchanged}

(* What the handlers of the navigation channel return is not looked at. *)
DispatchNavigation(m) ==
    LET outcomes == CASE m.type = "NaviStatus"       -> handle_NaviStatus(m)
                      [] m.type = "NaviTurn"         -> handle_NaviTurn(m)
                      [] m.type = "NaviTurnDistance" -> handle_NaviTurnDistance(m)
                      [] OTHER -> {Unchanged}
    IN {[o EXCEPT !.ret = 0, !.cause = FALSE] : o \in outcomes}

ControlTypes ==
    {"MediaDataWithTimestamp", "MediaData", "ServiceDiscoveryRequest",
     "ChannelOpenRequest", "PingRequest", "NavigationFocusRequest",
     "ShutdownRequest", "VoiceSessionRequest", "AudioFocusRequest"}

DispatchChannel(m) ==
    CASE m.type = "SensorStartRequest" /\ m.chan = "Sensor" ->
            handle_SensorStartRequest(m)
      [] m.type = "BindingRequest" /\ m.chan = "Touch" -> handle_BindingRequest(m)
      [] m.type = "BluetoothPairingRequest" /\ m.chan = "Bluetooth" ->
            handle_BluetoothPairingRequest(m)
      [] m.type = "BluetoothAuthData" /\ m.chan = "Bluetooth" ->
            handle_BluetoothAuthData(m)
      [] m.type = "PhoneStatus" /\ m.chan = "PhoneStatus" -> handle_PhoneStatus(m)
      [] m.type = "StartGenericNotifications" /\ m.chan = "Notification" ->
            handle_StartGenericNotifications(m)
      [] m.type = "StopGenericNotifications" /\ m.chan = "Notification" ->
            handle_StopGenericNotifications(m)
      [] m.type = "GenericNotificationResponse" /\ m.chan = "Notification" ->
            handle_GenericNotificationResponse(m)
      [] m.chan \in MediaChannels \union {"Microphone"} -> DispatchMedia(m)
      [] m.chan = "Navigation" -> DispatchNavigation(m)
      [] OTHER -> {Unchanged}

Dispatch(m) == IF m.type \in ControlTypes THEN DispatchControl(m) ELSE DispatchChannel(m)

processMessage(m) ==
    MessageFilter(m) \union
    IF m.type \in Filtered THEN {}
    ELSE IF iaap_state = "STARTIN" THEN DispatchInit(m) ELSE Dispatch(m)

-----------------------------------------------------------------------------
(* Mutant: the transport stays open. *)
EndedOpen == iaap_state' = "STOPPED" /\ UNCHANGED <<wireVars, phone>>

(* stop(), or start() failing, and the application's shutdown(): the       *)
(* transport is closed and what was on it is gone.                         *)
Ended ==
    /\ iaap_state' = "STOPPED"
    /\ inbox' = <<>>
    /\ outbox' = <<>>
    /\ phone' = NewPhone

Process ==
    /\ iaap_state # "STOPPED"
    /\ inbox # <<>>
    /\ \E o \in processMessage(Head(inbox)) :
          /\ ssl' = o.ssl
          /\ channel_session_id' = o.ids
          /\ cause' = (cause \/ o.cause)
          /\ IF o.ret < 0 \/ o.stop THEN Ended
             ELSE /\ iaap_state' = o.state
                  /\ inbox' = Tail(inbox)
                  /\ outbox' = outbox \o o.out
                  /\ UNCHANGED phone
    /\ UNCHANGED counters

(* start() has sent the VersionRequest. *)
Start ==
    /\ iaap_state = "STOPPED"
    /\ connections < MaxConnections
    /\ connections' = connections + 1
    /\ iaap_state' = "STARTIN"
    /\ cause' = FALSE
    /\ UNCHANGED <<ssl, channel_session_id, wireVars, phone, streams>>

(* The link is lost, or the application calls shutdown(). *)
Interrupted ==
    /\ iaap_state # "STOPPED"
    /\ cause' = TRUE
    /\ Ended
    /\ UNCHANGED <<ssl, channel_session_id, counters>>

-----------------------------------------------------------------------------
(* The phone. *)

Answers ==
    [VersionResponse |-> "ClientHello", ServerHello |-> "ClientFinished",
     PartOfServerHello |-> "ClientFinished", ServerFinished |-> "AuthComplete",
     PartOfServerFinished |-> "AuthComplete",
     ServiceDiscoveryRequest |-> "ServiceDiscoveryResponse",
     ChannelOpenRequest |-> "ChannelOpenResponse",
     MediaSetupRequest |-> "MediaSetupResponse",
     MediaData |-> "MediaAck", MediaDataWithTimestamp |-> "MediaAck",
     PingRequest |-> "PingResponse",
     NavigationFocusRequest |-> "NavigationFocusResponse",
     SensorStartRequest |-> "SensorStartResponse",
     BindingRequest |-> "BindingResponse",
     BluetoothPairingRequest |-> "BluetoothPairingResponse",
     ShutdownRequest |-> "ShutdownResponse"]

WaitsOn(chan) == \E w \in phone.waiting : w.chan = chan

(* The phone sends m; the rest of its state is that of next. *)
Sends(m, next) ==
    /\ iaap_state # "STOPPED"
    /\ Len(inbox) < MaxPending
    /\ inbox' = Append(inbox, m)
    /\ phone' = IF m.type \in DOMAIN Answers \ Filtered
                THEN [next EXCEPT !.waiting = @ \union {Msg(Answers[m.type], m.chan, m.n)}]
                ELSE next
    /\ UNCHANGED <<huVars, outbox>>

(* A flight may come in two messages. *)
PhoneHandshake ==
    /\ phone.step \in {0, 2, 4}
    /\ \E type \in CASE phone.step = 0 -> {"VersionResponse"}
                     [] phone.step = 2 -> {"ServerHello", "PartOfServerHello"}
                     [] phone.step = 4 -> {"ServerFinished", "PartOfServerFinished"} :
          Sends(Msg(type, "Control", connections), [phone EXCEPT !.step = @ + 1])
    /\ UNCHANGED counters

(* A message of the handshake that it is not the turn of: from then on     *)
(* nothing is expected of this phone.                                      *)
PhoneStrays ==
    /\ phone.step # 5
    /\ iaap_state # "STOPPED"
    /\ Len(inbox) + Len(outbox) < MaxPending
    /\ \E type \in HandshakeTypes :
          inbox' = Append(inbox, Msg(type, "Control", connections))
    /\ phone' = [phone EXCEPT !.step = 6, !.waiting = {}]
    /\ UNCHANGED <<huVars, outbox, counters>>

(* The requests that must be answered before the next: of the car's        *)
(* services, to open a channel, to set it up.                              *)
PhoneAsks(chan) ==
    /\ phone.step = 5
    /\ ~WaitsOn(chan)
    /\ \/ /\ chan = "Control" /\ phone.progress[chan] = "closed"
          /\ Sends(Msg("ServiceDiscoveryRequest", chan, 0), phone)
       \/ /\ chan \in MediaChannels \union {"Sensor"}
          /\ phone.progress["Control"] = "open" /\ phone.progress[chan] = "closed"
          /\ Sends(Msg("ChannelOpenRequest", chan, 0), phone)
       \/ /\ chan \in MediaChannels /\ phone.progress[chan] = "open"
          /\ Sends(Msg("MediaSetupRequest", chan, 0), phone)
    /\ UNCHANGED counters

PhoneStarts(chan) ==
    /\ phone.progress[chan] = "setup"
    /\ streams < MaxStreams
    /\ streams' = streams + 1
    /\ Sends(Msg("MediaStartRequest", chan, streams'),
             [phone EXCEPT !.progress[chan] = "started", !.session[chan] = streams'])
    /\ UNCHANGED connections

(* max_unacked is 1. *)
PhoneStreams(chan, type) ==
    /\ phone.progress[chan] = "started"
    /\ ~WaitsOn(chan)
    /\ Sends(Msg(type, chan, phone.session[chan]), phone)
    /\ UNCHANGED counters

(* A stream may stop before its last packet is acknowledged. *)
PhoneStops(chan) ==
    /\ phone.progress[chan] = "started"
    /\ Sends(Msg("MediaStopRequest", chan, 0), [phone EXCEPT !.progress[chan] = "setup"])
    /\ UNCHANGED counters

PhoneSendsOther(m) ==
    /\ phone.step = 5
    /\ phone.others < MaxOthers
    /\ Sends([m EXCEPT !.n = phone.others + 1], [phone EXCEPT !.others = @ + 1])
    /\ UNCHANGED counters

(* An answer of HUServer arrives. *)
PhoneReceives ==
    /\ outbox # <<>>
    /\ outbox' = Tail(outbox)
    /\ LET m == Head(outbox)
           rest == [phone EXCEPT !.waiting = @ \ {m}]
       IN phone' =
          IF phone.step = 6 THEN phone
          ELSE CASE m.type = "ClientHello" -> [rest EXCEPT !.step = 2, !.attempt = m.n]
                 [] m.type = "ClientFinished" -> [rest EXCEPT !.step = 4]
                 [] m.type \in {"ServiceDiscoveryResponse", "ChannelOpenResponse"} ->
                       [rest EXCEPT !.progress[m.chan] = "open"]
                 [] m.type = "MediaSetupResponse" -> [rest EXCEPT !.progress[m.chan] = "setup"]
                 [] OTHER -> rest
    /\ UNCHANGED <<huVars, inbox, counters>>

-----------------------------------------------------------------------------
PhoneNext ==
    \/ PhoneHandshake \/ PhoneStrays \/ PhoneReceives
    \/ \E chan \in Channels : PhoneAsks(chan)
    \/ \E chan \in MediaChannels :
          \/ PhoneStarts(chan) \/ PhoneStops(chan)
          \/ \E type \in {"MediaData", "MediaDataWithTimestamp"} : PhoneStreams(chan, type)
    \/ \E m \in OtherMessages : PhoneSendsOther(m)

Next == Process \/ Start \/ Interrupted \/ PhoneNext

Spec == Init /\ [][Next]_vars

-----------------------------------------------------------------------------
(* Type invariant; nothing is on the wire of a stopped server, and it      *)
(* encrypts only in STARTED.                                               *)
TypeOK ==
    /\ iaap_state \in {"STARTIN", "STARTED", "STOPPED"}
    /\ ssl.attempt \in 0..connections
    /\ channel_session_id \in [Channels -> 0..streams]
    /\ cause \in BOOLEAN
    /\ iaap_state = "STOPPED" => inbox = <<>> /\ outbox = <<>>
    /\ \A i \in 1..Len(outbox) :
          \/ iaap_state = "STARTED"
          \/ outbox[i].type \in {"ClientHello", "ClientFinished"}
    /\ phone.step \in 0..6

(* In a session with a phone that keeps to the protocol both sides have    *)
(* finished the handshake of this connection, although m_ssl of the        *)
(* connection before is still there until the version response.  (A phone  *)
(* that goes astray there gets a session with the old one.)                *)
SessionKeys ==
    iaap_state = "STARTED" /\ phone.step # 6 =>
        ssl.attempt = connections /\ phone.attempt = connections /\ phone.step = 5

(* Unless the phone is astray, every answer is to a question it has asked  *)
(* in this connection and not had an answer to, and an acknowledgement     *)
(* carries the session its packet was sent in: over streams that stop      *)
(* before their last packet is acknowledged, and connections lost while    *)
(* streaming.                                                              *)
AnswersAskedFor ==
    phone.step # 6 =>
        \A i \in 1..Len(outbox) :
            /\ outbox[i].type # "SensorEvent" => outbox[i] \in phone.waiting
            /\ \A j \in 1..(i - 1) : outbox[j] # outbox[i]

(* The two do not wait for each other: the message for whose answer the    *)
(* phone waits is still to be handled, or the answer is on its way.  (With *)
(* max_unacked 1 a packet that is not acknowledged stops its stream for    *)
(* ever, and start() has no limit of time for the handshake.)              *)
NothingForgotten ==
    \A w \in phone.waiting :
        \/ \E i \in 1..Len(inbox) :
              /\ inbox[i].type \in DOMAIN Answers
              /\ w = Msg(Answers[inbox[i].type], inbox[i].chan, inbox[i].n)
        \/ \E i \in 1..Len(outbox) : outbox[i] = w

(* The conventions of what the sends return (0, a size, -1) are not mixed  *)
(* up: a connection ends only if a step failed, or the phone or the        *)
(* application ended it.                                                   *)
EndsForCause == iaap_state = "STOPPED" => cause
=============================================================================
