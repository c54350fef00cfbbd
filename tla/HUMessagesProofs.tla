--------------------------- MODULE HUMessagesProofs --------------------------
(***************************************************************************)
(* Proofs about HUMessages, for any media channels, message filter, and    *)
(* number of messages, streams and connections.                            *)
(***************************************************************************)
EXTENDS HUMessages, TLAPS

(* What is on the wire, and the types of the two sides' states. *)
Replies ==
    {"ClientHello", "ClientFinished", "AuthComplete", "ServiceDiscoveryResponse",
     "ChannelOpenResponse", "MediaSetupResponse", "MediaAck", "PingResponse",
     "NavigationFocusResponse", "SensorStartResponse", "BindingResponse",
     "BluetoothPairingResponse", "ShutdownResponse", "SensorEvent"}

Names == HandshakeTypes \union Requests \union Replies
         \union {m.type : m \in OtherMessages}

MsgType == [type : Names, chan : Channels, n : Nat]
SslType == [attempt : Nat, wants : {"nothing", "ServerHello", "ServerFinished"}]
IdsType == [Channels -> Nat]

Steps    == 0..6
Awaited  == SUBSET [type : {Answers[t] : t \in DOMAIN Answers}, chan : Channels, n : Nat]
Progress == [Channels -> {"closed", "open", "setup", "started"}]

PhoneType ==
    [step : Steps, attempt : Nat, others : Nat, waiting : Awaited,
     progress : Progress, session : IdsType]

Rets   == {-1, 0, 1}
Flags  == BOOLEAN
States == {"STARTIN", "STARTED"}
Outs   == Seq(MsgType)

Outcome ==
    [ret : Rets, stop : Flags, cause : Flags, out : Outs, state : States,
     ssl : SslType, ids : IdsType]

(* An outcome that ends the connection says why. *)
Ends(o) == o.ret = -1 \/ o.stop = TRUE
Honest  == {o \in Outcome : Ends(o) => o.cause = TRUE}

(* Messages of HUServer in the handshake. *)
Hello == {"ClientHello", "ClientFinished"}

(* Outcomes of the handlers of an established session. *)
Established ==
    {o \in Honest : /\ o.ssl = ssl
                    /\ o.state = iaap_state
                    /\ \A i \in 1..Len(o.out) : o.out[i].type \notin Hello}

Types ==
    /\ iaap_state \in {"STARTIN", "STARTED", "STOPPED"}
    /\ ssl \in SslType
    /\ channel_session_id \in IdsType
    /\ cause \in BOOLEAN
    /\ inbox \in Seq(MsgType)
    /\ outbox \in Seq(MsgType)
    /\ phone \in PhoneType
    /\ streams \in Nat
    /\ connections \in Nat

(* How the phone's last flight of the handshake begins. *)
Lasts == {"ServerFinished", "PartOfServerFinished"}

(* Both sides hold keys of this connection. *)
Keys == ssl.attempt = connections /\ phone.attempt = connections

(* ... and m_ssl is in the middle of its handshake. *)
Keying == Keys /\ ssl.wants # "nothing"

(* The handshake, message by message.  A filtered one leaves the phone     *)
(* waiting.                                                                *)
Handshake ==
    /\ \A c \in Channels : phone.progress[c] = "closed"
    /\ \/ /\ phone.step = 0 /\ inbox = <<>> /\ outbox = <<>>
       \/ /\ phone.step = 1 /\ outbox = <<>>
          /\ Len(inbox) = 1 /\ inbox[1].type = "VersionResponse"
       \/ /\ phone.step = 1 /\ inbox = <<>> /\ outbox = <<>>
       \/ /\ phone.step = 1 /\ inbox = <<>>
          /\ ssl.attempt = connections /\ ssl.wants # "nothing"
          /\ Len(outbox) = 1
          /\ outbox[1].type = "ClientHello" /\ outbox[1].n = connections
       \/ /\ phone.step = 2 /\ inbox = <<>> /\ outbox = <<>> /\ Keying
       \/ /\ phone.step = 3 /\ outbox = <<>> /\ Keying
          /\ Len(inbox) = 1 /\ inbox[1].type \in {"ServerHello", "PartOfServerHello"}
       \/ /\ phone.step = 3 /\ inbox = <<>> /\ outbox = <<>> /\ Keying
       \/ /\ phone.step = 3 /\ inbox = <<>> /\ Keying
          /\ Len(outbox) = 1 /\ outbox[1].type = "ClientFinished"
       \/ /\ phone.step = 4 /\ inbox = <<>> /\ outbox = <<>> /\ Keying
       \/ /\ phone.step = 5 /\ outbox = <<>> /\ Keying
          /\ \A i \in 1..Len(inbox) : inbox[i].type \notin HandshakeTypes \ Lasts

(* The inductive invariant while the phone keeps to the protocol.          *)
(* SessionKeys is not inductive: that the last message of the handshake    *)
(* meets an m_ssl of this connection, which is not finished yet, holds     *)
(* because the two sides take turns from the version response on.          *)
SessionInv ==
    /\ Types
    /\ iaap_state = "STOPPED" => inbox = <<>> /\ outbox = <<>> /\ phone = NewPhone
    /\ iaap_state = "STARTIN" => Handshake
    /\ iaap_state = "STARTED" =>
          /\ Keys
          /\ phone.step = 5
          /\ \A i \in 1..Len(outbox) : outbox[i].type \notin Hello
    /\ iaap_state = "STOPPED" => cause = TRUE

(* ... and once it is astray, until the connection ends. *)
AstrayInv ==
    /\ Types
    /\ iaap_state # "STOPPED"
    /\ phone.step = 6 /\ phone.waiting = {}
    /\ \A c \in Channels : phone.progress[c] = "closed"
    /\ iaap_state = "STARTIN" => \A i \in 1..Len(outbox) : outbox[i].type \in Hello

Valid == SessionInv \/ AstrayInv

-----------------------------------------------------------------------------
(* What the sends and the callbacks make of an outcome. *)
LEMMA FieldTypes ==
    /\ -1 \in Rets /\ 0 \in Rets /\ Size \in Rets
    /\ TRUE \in Flags /\ FALSE \in Flags
    /\ <<>> \in Outs
    /\ \A s \in Outs, msg \in MsgType : Append(s, msg) \in Outs
  <1>1. -1 \in Rets /\ 0 \in Rets /\ Size \in Rets
    BY SMT DEF Rets, Size
  <1>2. <<>> \in Outs /\ \A s \in Outs, msg \in MsgType : Append(s, msg) \in Outs
    BY SMT DEF Outs
  <1> QED BY <1>1, <1>2 DEF Flags

LEMMA UnchangedOutcome ==
    ASSUME Types, iaap_state # "STOPPED"
    PROVE  Unchanged \in Established
  <1>1. <<>> \in Seq(MsgType) /\ Len(<<>>) = 0
    BY SMT
  <1>2. Unchanged \in Outcome
    <2>1. iaap_state \in States /\ ssl \in SslType /\ channel_session_id \in IdsType
      BY DEF Types, States
    <2> QED BY <2>1, FieldTypes DEF Unchanged, Outcome
  <1>3. /\ Unchanged.ret = 0 /\ Unchanged.stop = FALSE /\ Unchanged.out = <<>>
        /\ Unchanged.ssl = ssl /\ Unchanged.state = iaap_state
    BY DEF Unchanged
  <1>4. ~Ends(Unchanged)
    BY <1>3 DEF Ends
  <1> QED BY <1>1, <1>2, <1>3, <1>4, SMT DEF Established, Honest

LEMMA FailedOutcome ==
    ASSUME NEW o \in Outcome
    PROVE  /\ Failed(o) \in Honest
           /\ Failed(o).ret = -1
           /\ Failed(o).ssl = o.ssl /\ Failed(o).state = o.state
           /\ Failed(o).out = o.out /\ Failed(o).ids = o.ids
           /\ Failed(o).stop = o.stop
  <1> DEFINE f == [o EXCEPT !.ret = -1, !.cause = TRUE]
  <1>1. /\ f \in Outcome /\ f.ret = -1 /\ f.ssl = o.ssl /\ f.state = o.state
        /\ f.out = o.out /\ f.ids = o.ids /\ f.stop = o.stop /\ f.cause = TRUE
    BY FieldTypes, Zenon DEF Outcome
  <1>2. Failed(o) = f
    BY DEF Failed
  <1> HIDE DEF f
  <1> QED BY <1>1, <1>2 DEF Honest

LEMMA MayFailOutcomes ==
    ASSUME NEW o \in Established
    PROVE  MayFail(o) \subseteq Established
  <1>1. o \in Outcome
    BY DEF Established, Honest
  <1>2. Failed(o) \in Established
    BY <1>1, FailedOutcome DEF Established
  <1> QED BY <1>2 DEF MayFail

LEMMA SendEncodedOutcomes ==
    ASSUME NEW o \in Established, NEW msg \in MsgType, msg.type \notin Hello
    PROVE  SendEncoded(o, msg) \subseteq Established
  <1>1. o \in Outcome /\ o.ssl = ssl /\ o.state = iaap_state
        /\ \A i \in 1..Len(o.out) : o.out[i].type \notin Hello
        /\ (Ends(o) => o.cause = TRUE)
    BY DEF Established, Honest
  <1> DEFINE sent == [o EXCEPT !.ret = 0, !.out = Append(o.out, msg)]
             lost == [o EXCEPT !.ret = 0, !.stop = TRUE, !.cause = TRUE]
  <1>2. /\ o.out \in Seq(MsgType)
        /\ Append(o.out, msg) \in Seq(MsgType)
        /\ \A i \in 1..Len(Append(o.out, msg)) : Append(o.out, msg)[i].type \notin Hello
    BY <1>1, SMT DEF Outcome, Outs
  <1>3. /\ sent \in Outcome /\ sent.ssl = ssl /\ sent.state = iaap_state
        /\ sent.out = Append(o.out, msg) /\ sent.ret = 0
        /\ sent.stop = o.stop /\ sent.cause = o.cause
    <2>1. Append(o.out, msg) \in Outs
      BY <1>1, FieldTypes, SMT DEF Outcome
    <2> QED BY <1>1, <2>1, FieldTypes, Zenon DEF Outcome
  <1>4. sent \in Established
    <2>1. Ends(sent) => Ends(o)
      BY <1>3 DEF Ends
    <2> QED BY <1>1, <1>2, <1>3, <2>1 DEF Established, Honest
  <1>5. lost \in Established
    <2>1. lost \in Outcome /\ lost.ssl = ssl /\ lost.state = iaap_state
          /\ lost.out = o.out /\ lost.cause = TRUE
      BY <1>1, FieldTypes, Zenon DEF Outcome
    <2> QED BY <1>1, <2>1 DEF Established, Honest
  <1>6. Failed(lost) \in Established
    BY <1>5, MayFailOutcomes DEF MayFail
  <1> HIDE DEF sent, lost
  <1>7. SendEncoded(o, msg) = {sent, lost, Failed(lost)}
    BY DEF SendEncoded, sent, lost
  <1> QED BY <1>4, <1>5, <1>6, <1>7

(* A send of the handshake: what is sent, or an end with its cause. *)
LEMMA SendUnencodedOutcomes ==
    ASSUME NEW o \in Honest, NEW msg \in MsgType, NEW r \in SendUnencoded(o, msg)
    PROVE  /\ r \in Honest
           /\ r.ret \in {-1, Size}
           /\ r.state = o.state /\ r.ssl = o.ssl /\ r.ids = o.ids
           /\ r.ret # -1 => r.out = Append(o.out, msg) /\ r.stop = o.stop
  <1>1. o \in Outcome /\ (Ends(o) => o.cause = TRUE)
    BY DEF Honest
  <1>2. CASE r = [o EXCEPT !.ret = Size, !.out = Append(o.out, msg)]
    <2>1. Append(o.out, msg) \in Outs
      BY <1>1, FieldTypes, SMT DEF Outcome
    <2>2. /\ r \in Outcome /\ r.ret = Size /\ r.stop = o.stop /\ r.cause = o.cause
          /\ r.state = o.state /\ r.ssl = o.ssl /\ r.ids = o.ids
          /\ r.out = Append(o.out, msg)
      BY <1>1, <1>2, <2>1, FieldTypes, Zenon DEF Outcome
    <2>3. Ends(r) => Ends(o)
      BY <2>2, SMT DEF Ends, Size
    <2> QED BY <1>1, <2>2, <2>3 DEF Honest
  <1>3. CASE r = [Failed(o) EXCEPT !.stop = TRUE]
    <2>1. PICK f \in Outcome : f = Failed(o)
      BY <1>1, FailedOutcome DEF Honest
    <2>2. f.cause = TRUE
      BY <1>1, <2>1, FailedOutcome DEF Honest, Ends
    <2>3. /\ r \in Outcome /\ r.cause = TRUE /\ r.ret = f.ret
          /\ r.state = f.state /\ r.ssl = f.ssl /\ r.ids = f.ids
      BY <1>3, <2>1, <2>2, FieldTypes, Zenon DEF Outcome
    <2>4. /\ r \in Outcome /\ r.cause = TRUE /\ r.ret = -1
          /\ r.state = o.state /\ r.ssl = o.ssl /\ r.ids = o.ids
      BY <1>1, <2>1, <2>3, FailedOutcome
    <2> QED BY <2>4 DEF Honest
  <1> QED BY <1>2, <1>3 DEF SendUnencoded

-----------------------------------------------------------------------------
(* Whatever the handler of an established session, it keeps m_ssl and the  *)
(* state, and ends the session only for a cause.                           *)
LEMMA AnswerOutcomes ==
    ASSUME Types, iaap_state # "STOPPED", NEW m \in MsgType,
           NEW type \in Replies \ Hello
    PROVE  Answer(m, type) \subseteq Established
  <1>1. /\ Msg(type, m.chan, m.n) \in MsgType
        /\ Msg(type, m.chan, m.n).type \notin Hello
    <2>1. type \in Names
      BY DEF Names
    <2> QED BY <2>1, SMT DEF Msg, MsgType
  <1> QED BY <1>1, UnchangedOutcome, SendEncodedOutcomes DEF Answer

LEMMA SimpleHandlers ==
    ASSUME Types, iaap_state # "STOPPED", NEW m \in MsgType
    PROVE  /\ handle_ServiceDiscoveryRequest(m) \subseteq Established
           /\ handle_PingRequest(m) \subseteq Established
           /\ handle_NavigationFocusRequest(m) \subseteq Established
           /\ handle_SensorStartRequest(m) \subseteq Established
           /\ handle_BindingRequest(m) \subseteq Established
           /\ handle_MediaSetupRequest(m) \subseteq Established
           /\ handle_MicRequest(m) \subseteq Established
           /\ handle_VoiceSessionRequest(m) \subseteq Established
           /\ handle_AudioFocusRequest(m) \subseteq Established
           /\ handle_VideoFocusRequest(m) \subseteq Established
           /\ handle_MediaAck(m) \subseteq Established
           /\ handle_PhoneStatus(m) \subseteq Established
           /\ handle_BluetoothAuthData(m) \subseteq Established
           /\ handle_StartGenericNotifications(m) \subseteq Established
           /\ handle_StopGenericNotifications(m) \subseteq Established
           /\ handle_GenericNotificationResponse(m) \subseteq Established
           /\ handle_BluetoothPairingRequest(m) \subseteq Established
           /\ {Unchanged} \subseteq Established
  <1>1. Unchanged \in Established
    BY UnchangedOutcome
  <1>2. MayFail(Unchanged) \subseteq Established /\ Failed(Unchanged) \in Established
    BY <1>1, MayFailOutcomes DEF MayFail
  <1>3. /\ Answer(m, "ServiceDiscoveryResponse") \subseteq Established
        /\ Answer(m, "PingResponse") \subseteq Established
        /\ Answer(m, "NavigationFocusResponse") \subseteq Established
        /\ Answer(m, "SensorStartResponse") \subseteq Established
        /\ Answer(m, "BindingResponse") \subseteq Established
        /\ Answer(m, "MediaSetupResponse") \subseteq Established
        /\ Answer(m, "BluetoothPairingResponse") \subseteq Established
    BY AnswerOutcomes, SMT DEF Replies, Hello
  <1> QED BY <1>1, <1>2, <1>3
      DEF handle_ServiceDiscoveryRequest, handle_PingRequest,
          handle_NavigationFocusRequest, handle_SensorStartRequest,
          handle_BindingRequest, handle_MediaSetupRequest, handle_MicRequest,
          handle_VoiceSessionRequest, handle_AudioFocusRequest,
          handle_VideoFocusRequest, handle_MediaAck, handle_PhoneStatus,
          handle_BluetoothAuthData, handle_StartGenericNotifications,
          handle_StopGenericNotifications, handle_GenericNotificationResponse,
          handle_BluetoothPairingRequest

LEMMA ShutdownHandler ==
    ASSUME Types, iaap_state # "STOPPED", NEW m \in MsgType
    PROVE  handle_ShutdownRequest(m) \subseteq Established
  <1> SUFFICES ASSUME NEW o \in Answer(m, "ShutdownResponse")
               PROVE  [Failed(o) EXCEPT !.stop = TRUE] \in Established
    BY DEF handle_ShutdownRequest
  <1> DEFINE r == [Failed(o) EXCEPT !.stop = TRUE]
  <1>1. o \in Established
    BY AnswerOutcomes, SMT DEF Replies, Hello
  <1>2. Failed(o) \in Established
    BY <1>1, MayFailOutcomes DEF MayFail
  <1>f. PICK f : f = Failed(o)
    OBVIOUS
  <1>3. f \in Outcome /\ f.cause = TRUE
    BY <1>1, <1>f, FailedOutcome DEF Established, Honest, Ends
  <1>4. /\ r \in Outcome /\ r.cause = TRUE /\ r.ssl = f.ssl
        /\ r.state = f.state /\ r.out = f.out
    BY <1>3, <1>f, FieldTypes, Zenon DEF Outcome
  <1> HIDE DEF r
  <1> QED BY <1>2, <1>4, <1>f DEF Established, Honest, r

LEMMA ChannelOpenHandler ==
    ASSUME Types, iaap_state # "STOPPED", NEW m \in MsgType
    PROVE  handle_ChannelOpenRequest(m) \subseteq Established
  <1> DEFINE event == Msg("SensorEvent", "Sensor", 0)
  <1>1. Answer(m, "ChannelOpenResponse") \subseteq Established
    BY AnswerOutcomes, SMT DEF Replies, Hello
  <1>2. event \in MsgType /\ event.type \notin Hello
    <2>1. "Sensor" \in Channels
      BY DEF Channels, FixedChannels
    <2>2. "SensorEvent" \in Names
      BY DEF Names, Replies
    <2> QED BY <2>1, <2>2, SMT DEF Msg, MsgType, Hello
  <1> HIDE DEF event
  <1>3. \A o \in Answer(m, "ChannelOpenResponse") :
            {o} \subseteq Established /\ SendEncoded(o, event) \subseteq Established
    BY <1>1, <1>2, SendEncodedOutcomes
  <1> QED BY <1>3, Zenon DEF handle_ChannelOpenRequest, event

LEMMA StreamHandlers ==
    ASSUME Types, iaap_state # "STOPPED", NEW m \in MsgType
    PROVE  /\ handle_MediaStartRequest(m) \subseteq Established
           /\ handle_MediaStopRequest(m) \subseteq Established
           /\ handle_MediaData(m) \subseteq Established
           /\ handle_MediaDataWithTimestamp(m) \subseteq Established
  <1>1. Unchanged \in Established /\ Unchanged \in Outcome
    BY UnchangedOutcome DEF Established, Honest
  <1>2. m.chan \in Channels /\ m.n \in Nat /\ channel_session_id[m.chan] \in Nat
    BY SMT DEF MsgType, Types, IdsType
  <1>3. ASSUME NEW n \in Nat
        PROVE  [Unchanged EXCEPT !.ids[m.chan] = n] \in Established
    <2> DEFINE r == [Unchanged EXCEPT !.ids = [@ EXCEPT ![m.chan] = n]]
    <2>1. [Unchanged.ids EXCEPT ![m.chan] = n] \in IdsType
      BY <1>1, <1>2, SMT DEF Outcome, IdsType
    <2>2. /\ r \in Outcome /\ r.ret = Unchanged.ret /\ r.stop = Unchanged.stop
          /\ r.cause = Unchanged.cause /\ r.out = Unchanged.out
          /\ r.ssl = Unchanged.ssl /\ r.state = Unchanged.state
      BY <1>1, <2>1, SMT DEF Outcome
    <2>3. r = [Unchanged EXCEPT !.ids[m.chan] = n]
      OBVIOUS
    <2> HIDE DEF r
    <2>4. r \in Established
      BY <1>1, <2>2 DEF Established, Honest, Ends
    <2> QED BY <2>3, <2>4
  <1>4. /\ handle_MediaStartRequest(m) \subseteq Established
        /\ handle_MediaStopRequest(m) \subseteq Established
    BY <1>2, <1>3, MayFailOutcomes DEF handle_MediaStartRequest, handle_MediaStopRequest
  <1>5. Failed(Unchanged) \in Established
    BY <1>1, MayFailOutcomes DEF MayFail
  <1>6. ASSUME NEW n \in Nat
        PROVE  Msg("MediaAck", m.chan, n) \in MsgType
               /\ Msg("MediaAck", m.chan, n).type \notin Hello
    <2>1. "MediaAck" \in Names
      BY DEF Names, Replies
    <2> QED BY <1>2, <2>1, SMT DEF Msg, MsgType, Hello
  <1> QED BY <1>1, <1>2, <1>4, <1>5, <1>6, SendEncodedOutcomes
      DEF handle_MediaData, handle_MediaDataWithTimestamp

LEMMA NavigationHandlers ==
    ASSUME Types, iaap_state # "STOPPED", NEW m \in MsgType
    PROVE  DispatchNavigation(m) \subseteq Established
  <1> DEFINE outcomes == CASE m.type = "NaviStatus"       -> handle_NaviStatus(m)
                           [] m.type = "NaviTurn"         -> handle_NaviTurn(m)
                           [] m.type = "NaviTurnDistance" -> handle_NaviTurnDistance(m)
                           [] OTHER -> {Unchanged}
  <1>1. outcomes \subseteq MayFail(Unchanged)
    BY DEF handle_NaviStatus, handle_NaviTurn, handle_NaviTurnDistance, MayFail
  <1>2. Unchanged \in Established /\ Unchanged \in Outcome /\ Unchanged.stop = FALSE
    BY UnchangedOutcome DEF Established, Honest, Unchanged
  <1>3. ASSUME NEW o \in MayFail(Unchanged)
        PROVE  [o EXCEPT !.ret = 0, !.cause = FALSE] \in Established
    <2> DEFINE r == [o EXCEPT !.ret = 0, !.cause = FALSE]
    <2>1. o \in Established /\ o \in Outcome /\ o.stop = FALSE
      BY <1>2, <1>3, MayFailOutcomes, FailedOutcome DEF MayFail, Established, Honest
    <2>2. /\ r \in Outcome /\ r.ret = 0 /\ r.stop = o.stop /\ r.out = o.out
          /\ r.ssl = o.ssl /\ r.state = o.state
      BY <2>1, FieldTypes, Zenon DEF Outcome
    <2> HIDE DEF r
    <2>3. ~Ends(r)
      BY <2>1, <2>2 DEF Ends
    <2> QED BY <2>1, <2>2, <2>3 DEF Established, Honest, r
  <1>4. DispatchNavigation(m) = {[o EXCEPT !.ret = 0, !.cause = FALSE] : o \in outcomes}
    BY DEF DispatchNavigation
  <1> HIDE DEF outcomes
  <1> QED BY <1>1, <1>3, <1>4

LEMMA DispatchOutcomes ==
    ASSUME Types, iaap_state # "STOPPED", NEW m \in MsgType
    PROVE  Dispatch(m) \subseteq Established
  <1>1. DispatchControl(m) \subseteq Established
    BY SimpleHandlers, ShutdownHandler, ChannelOpenHandler, StreamHandlers, Zenon
    DEF DispatchControl
  <1>2. DispatchMedia(m) \subseteq Established
    BY SimpleHandlers, StreamHandlers, Zenon DEF DispatchMedia
  <1>3. DispatchChannel(m) \subseteq Established
    BY <1>2, NavigationHandlers, SimpleHandlers, Zenon DEF DispatchChannel
  <1> QED BY <1>1, <1>3 DEF Dispatch

-----------------------------------------------------------------------------
(* The handlers of the handshake: an end with its cause, or the next       *)
(* message and what m_ssl waits for then.                                  *)
LEMMA PacketOutcomes ==
    ASSUME NEW o \in Honest, NEW type \in Hello, NEW r \in sendSSLHandshakePacket(o, type)
    PROVE  /\ r \in Honest
           /\ r.ret \in {-1, 0}
           /\ r.state = o.state /\ r.ssl = o.ssl /\ r.ids = o.ids
           /\ r.ret # -1 =>
                 r.out = Append(o.out, Msg(type, "Control", o.ssl.attempt))
  <1> DEFINE msg == Msg(type, "Control", o.ssl.attempt)
  <1> PICK s \in SendUnencoded(o, msg) :
            r = IF s.ret < 0 THEN s ELSE [s EXCEPT !.ret = 0]
    BY DEF sendSSLHandshakePacket
  <1>1. msg \in MsgType
    <2>1. type \in Names /\ "Control" \in Channels
      BY DEF Names, Replies, Hello, Channels, FixedChannels
    <2>2. o.ssl.attempt \in Nat
      BY SMT DEF Honest, Outcome, SslType
    <2> QED BY <2>1, <2>2, SMT DEF Msg, MsgType
  <1> HIDE DEF msg
  <1>2. /\ s \in Honest /\ s \in Outcome /\ s.ret \in {-1, 1}
        /\ s.state = o.state /\ s.ssl = o.ssl /\ s.ids = o.ids
        /\ s.ret # -1 => s.out = Append(o.out, msg)
    BY <1>1, SendUnencodedOutcomes DEF Size, Honest
  <1>3. CASE s.ret = -1
    <2>1. r = s
      BY <1>3, SMT
    <2> QED BY <1>2, <1>3, <2>1
  <1>4. CASE s.ret = 1
    <2>1. r = [s EXCEPT !.ret = 0]
      BY <1>4, SMT
    <2>2. /\ r \in Outcome /\ r.ret = 0 /\ r.stop = s.stop /\ r.cause = s.cause
          /\ r.state = s.state /\ r.ssl = s.ssl /\ r.ids = s.ids /\ r.out = s.out
      BY <1>2, <2>1, FieldTypes, Zenon DEF Outcome
    <2>3. Ends(r) => Ends(s)
      BY <2>2, SMT DEF Ends
    <2>4. r \in Honest
      BY <1>2, <2>2, <2>3 DEF Honest
    <2>5. s.ret # -1
      BY <1>4, SMT
    <2> QED BY <1>2, <2>2, <2>4, <2>5 DEF msg
  <1> QED BY <1>2, <1>3, <1>4

(* Unchanged with another m_ssl. *)
LEMMA OtherSsl ==
    ASSUME Types, iaap_state # "STOPPED", NEW new \in SslType, NEW o,
           o = [Unchanged EXCEPT !.ssl = new]
    PROVE  /\ o \in Honest /\ o.ssl = new /\ o.state = iaap_state
           /\ o.ids = channel_session_id /\ o.out = <<>>
  <1>1. Unchanged \in Outcome
    BY UnchangedOutcome DEF Established, Honest
  <1>2. /\ o \in Outcome /\ o.ssl = new /\ o.state = Unchanged.state
        /\ o.ids = Unchanged.ids /\ o.out = Unchanged.out
        /\ o.ret = Unchanged.ret /\ o.stop = Unchanged.stop
    BY <1>1, Zenon DEF Outcome
  <1>3. /\ Unchanged.ret = 0 /\ Unchanged.stop = FALSE /\ Unchanged.out = <<>>
        /\ Unchanged.ids = channel_session_id /\ Unchanged.state = iaap_state
    BY DEF Unchanged
  <1>4. ~Ends(o)
    BY <1>2, <1>3 DEF Ends
  <1> QED BY <1>2, <1>3, <1>4 DEF Honest

LEMMA FailedUnchanged ==
    ASSUME Types, iaap_state # "STOPPED"
    PROVE  /\ Failed(Unchanged) \in Honest /\ Failed(Unchanged).ret = -1
           /\ Failed(Unchanged).ssl = ssl
           /\ Failed(Unchanged).ids = channel_session_id
  <1>1. Unchanged.ssl = ssl /\ Unchanged.ids = channel_session_id
    BY DEF Unchanged
  <1> QED BY <1>1, UnchangedOutcome, FailedOutcome DEF Established, Honest

LEMMA VersionOutcomes ==
    ASSUME Types, iaap_state # "STOPPED", NEW r \in handle_VersionResponse
    PROVE  /\ r \in Honest
           /\ r.ssl.attempt \in {ssl.attempt, connections}
           /\ r.ids = channel_session_id
           /\ ~Ends(r) =>
                 /\ r.state = iaap_state
                 /\ r.ssl.attempt = connections /\ r.ssl.wants = "ServerHello"
                 /\ r.out = <<Msg("ClientHello", "Control", connections)>>
  <1> PICK o \in beginSSLHandshake : r = [o EXCEPT !.stop = o.stop \/ o.ret # 0]
    BY DEF handle_VersionResponse
  <1>1. /\ o \in Honest /\ o \in Outcome /\ o.ret \in {-1, 0}
        /\ o.ssl.attempt \in {ssl.attempt, connections}
        /\ o.ids = channel_session_id
        /\ o.ret # -1 =>
              /\ o.state = iaap_state
              /\ o.ssl.attempt = connections /\ o.ssl.wants = "ServerHello"
              /\ o.out = <<Msg("ClientHello", "Control", connections)>>
    <2>1. CASE o = Failed(Unchanged)
      BY <2>1, FailedUnchanged DEF Honest
    <2> PICK ssl1 : ssl1 = [attempt |-> connections, wants |-> "ServerHello"]
      OBVIOUS
    <2> PICK new : new = [Unchanged EXCEPT !.ssl = ssl1]
      OBVIOUS
    <2>2. CASE o \in sendSSLHandshakePacket(new, "ClientHello")
      <3>1. ssl1 \in SslType /\ ssl1.attempt = connections /\ ssl1.wants = "ServerHello"
        BY SMT DEF Types, SslType
      <3>2. /\ new \in Honest /\ new.ssl = ssl1 /\ new.state = iaap_state
            /\ new.ids = channel_session_id /\ new.out = <<>>
        BY <3>1, OtherSsl
      <3>3. "ClientHello" \in Hello
        BY DEF Hello
      <3>4. Append(<<>>, Msg("ClientHello", "Control", connections))
              = <<Msg("ClientHello", "Control", connections)>>
        BY SMT
      <3>5. /\ o \in Honest /\ o.ret \in {-1, 0} /\ o.state = new.state /\ o.ssl = new.ssl
            /\ o.ids = new.ids
            /\ o.ret # -1 => o.out = Append(new.out, Msg("ClientHello", "Control", new.ssl.attempt))
        BY <2>2, <3>2, <3>3, PacketOutcomes
      <3>6. o \in Outcome
        BY <3>5 DEF Honest
      <3> QED BY <3>1, <3>2, <3>4, <3>5, <3>6
    <2> QED BY <2>1, <2>2 DEF beginSSLHandshake
  <1>2. PICK stop \in Flags : stop = (o.stop \/ o.ret # 0)
    BY Zenon DEF Flags
  <1>3. r = [o EXCEPT !.stop = stop]
    BY <1>2
  <1>4. /\ r \in Outcome /\ r.ret = o.ret /\ r.stop = stop /\ r.cause = o.cause
        /\ r.state = o.state /\ r.ssl = o.ssl /\ r.out = o.out /\ r.ids = o.ids
    BY <1>1, <1>3, Zenon DEF Outcome
  <1>5. stop = TRUE => o.stop = TRUE \/ o.ret # 0
    <2>1. o.stop \in BOOLEAN
      BY <1>1, Zenon DEF Outcome, Flags
    <2> QED BY <1>2, <2>1, Zenon
  <1>6. Ends(r) => Ends(o)
    BY <1>1, <1>4, <1>5 DEF Ends
  <1>7. r \in Honest
    BY <1>1, <1>4, <1>6 DEF Honest
  <1> QED BY <1>1, <1>4, <1>7 DEF Ends

LEMMA HandshakeOutcomes ==
    ASSUME Types, iaap_state # "STOPPED",
           NEW m \in MsgType, NEW r \in handleSSLHandshake(m)
    PROVE  /\ r \in Honest
           /\ r.ssl.attempt = ssl.attempt
           /\ r.ids = channel_session_id
           /\ ~Ends(r) =>
                 /\ \/ /\ m.type = "ServerHello" /\ r.state = iaap_state
                       /\ r.ssl.wants = "ServerFinished"
                       /\ r.out = <<Msg("ClientFinished", "Control", ssl.attempt)>>
                    \/ /\ Finishes(m) /\ r.state = "STARTED"
                       /\ r.out = <<Msg("AuthComplete", "Control", ssl.attempt)>>
  <1>1. CASE r = Failed(Unchanged)
    BY <1>1, FailedUnchanged DEF Ends
  <1>2. ssl \in SslType /\ ssl.attempt \in Nat
    BY SMT DEF Types, SslType
  <1> PICK more : more = [Unchanged EXCEPT !.ssl.wants = "ServerFinished"]
    OBVIOUS
  <1>3. CASE m.type = "ServerHello" /\ r \in sendSSLHandshakePacket(more, "ClientFinished")
    <2> PICK new : new = [ssl EXCEPT !.wants = "ServerFinished"]
      OBVIOUS
    <2>1. new \in SslType /\ new.attempt = ssl.attempt /\ new.wants = "ServerFinished"
      BY <1>2, SMT DEF SslType
    <2>2. more = [Unchanged EXCEPT !.ssl = new]
      <3>1. Unchanged.ssl = ssl
        BY DEF Unchanged
      <3> QED BY <3>1
    <2>3. /\ more \in Honest /\ more.ssl = new /\ more.state = iaap_state
          /\ more.ids = channel_session_id /\ more.out = <<>>
      BY <2>1, <2>2, OtherSsl
    <2>4. "ClientFinished" \in Hello
      BY DEF Hello
    <2>5. Append(<<>>, Msg("ClientFinished", "Control", ssl.attempt))
            = <<Msg("ClientFinished", "Control", ssl.attempt)>>
      BY SMT
    <2>6. /\ r \in Honest /\ r.state = more.state /\ r.ssl = more.ssl /\ r.ids = more.ids
          /\ r.ret # -1 => r.out = Append(more.out, Msg("ClientFinished", "Control", more.ssl.attempt))
      BY <1>3, <2>3, <2>4, PacketOutcomes
    <2>7. /\ r.ssl.attempt = ssl.attempt /\ r.ssl.wants = "ServerFinished"
          /\ r.state = iaap_state /\ r.ids = channel_session_id
      BY <2>1, <2>3, <2>6
    <2>8. r.ret # -1 => r.out = <<Msg("ClientFinished", "Control", ssl.attempt)>>
      BY <2>1, <2>3, <2>5, <2>6
    <2> QED BY <1>3, <2>6, <2>7, <2>8 DEF Ends
  <1> DEFINE msg  == Msg("AuthComplete", "Control", ssl.attempt)
             goesOn == sendSSLHandshakePacket(more, "ClientFinished")
             done == {IF s.ret < 0 THEN [s EXCEPT !.stop = TRUE]
                      ELSE [s EXCEPT !.ret = 0, !.ssl.wants = "nothing",
                                     !.state = "STARTED"] :
                         s \in SendUnencoded(Unchanged, msg)}
  <1>4. CASE Finishes(m) /\ r \in done
    <2>1. PICK s \in SendUnencoded(Unchanged, msg) :
                r = IF s.ret < 0 THEN [s EXCEPT !.stop = TRUE]
                    ELSE [s EXCEPT !.ret = 0, !.ssl.wants = "nothing", !.state = "STARTED"]
      BY <1>4
    <2>2. msg \in MsgType
      <3>1. "AuthComplete" \in Names /\ "Control" \in Channels
        BY DEF Names, Replies, Channels, FixedChannels
      <3> QED BY <1>2, <3>1, SMT DEF Msg, MsgType
    <2> HIDE DEF msg, done, goesOn
    <2>3. /\ Unchanged \in Honest /\ Unchanged.ssl = ssl /\ Unchanged.out = <<>>
          /\ Unchanged.stop = FALSE /\ Unchanged.ids = channel_session_id
      BY UnchangedOutcome DEF Established, Unchanged
    <2>4. /\ s \in Honest /\ s \in Outcome /\ s.ret \in {-1, 1} /\ s.ssl = ssl
          /\ s.ids = channel_session_id
          /\ s.ret # -1 => s.out = Append(<<>>, msg) /\ s.stop = FALSE
      <3>1. /\ s \in Honest /\ s.ret \in {-1, Size} /\ s.ssl = Unchanged.ssl
            /\ s.ids = Unchanged.ids
            /\ s.ret # -1 => s.out = Append(Unchanged.out, msg) /\ s.stop = Unchanged.stop
        BY <2>1, <2>2, <2>3, SendUnencodedOutcomes
      <3>2. s \in Outcome
        BY <3>1 DEF Honest
      <3> QED BY <2>3, <3>1, <3>2, Zenon DEF Size
    <2>5. CASE s.ret = -1
      <3>1. r = [s EXCEPT !.stop = TRUE]
        BY <2>1, <2>5, SMT
      <3>2. /\ r \in Outcome /\ r.ret = -1 /\ r.cause = s.cause
            /\ r.ssl = s.ssl /\ r.ids = s.ids
        BY <2>4, <2>5, <3>1, FieldTypes, Zenon DEF Outcome
      <3> QED BY <2>4, <2>5, <3>2 DEF Honest, Ends
    <2>6. CASE s.ret = 1
      <3> PICK new : new = [ssl EXCEPT !.wants = "nothing"]
        OBVIOUS
      <3>1. r = [s EXCEPT !.ret = 0, !.ssl = new, !.state = "STARTED"]
        <4>1. r = [s EXCEPT !.ret = 0, !.ssl.wants = "nothing", !.state = "STARTED"]
          BY <2>1, <2>6, SMT
        <4> QED BY <2>4, <4>1
      <3>2. new \in SslType /\ new.attempt = ssl.attempt
        BY <1>2, SMT DEF SslType
      <3>3. "STARTED" \in States
        BY DEF States
      <3>4. /\ r \in Outcome /\ r.ret = 0 /\ r.stop = s.stop /\ r.ssl = new
            /\ r.state = "STARTED" /\ r.out = s.out /\ r.ids = s.ids
        BY <2>4, <3>1, <3>2, <3>3, FieldTypes, Zenon DEF Outcome
      <3>5. s.ret # -1
        BY <2>6, SMT
      <3>6. ~Ends(r)
        BY <2>4, <3>4, <3>5 DEF Ends
      <3>7. Append(<<>>, msg) = <<msg>>
        BY SMT
      <3> QED BY <1>4, <2>4, <3>2, <3>4, <3>5, <3>6, <3>7 DEF Honest, msg
    <2> QED BY <2>4, <2>5, <2>6
  <1> HIDE DEF msg
  <1>5. r \in {Failed(Unchanged)} \union
              CASE ssl.wants = "ServerHello" /\ m.type = "ServerHello" -> goesOn
                [] Finishes(m) -> done
                [] OTHER -> {}
    BY DEF handleSSLHandshake, msg
  <1> HIDE DEF done, goesOn
  <1>6. \/ r = Failed(Unchanged)
        \/ m.type = "ServerHello" /\ r \in goesOn
        \/ Finishes(m) /\ r \in done
    <2>1. ~(ssl.wants = "ServerHello" /\ Finishes(m))
      BY DEF Finishes
    <2> QED BY <1>5, <2>1
  <1> QED BY <1>1, <1>3, <1>4, <1>6 DEF goesOn

-----------------------------------------------------------------------------
(* processMessage() during the handshake and after it. *)
LEMMA FilterOutcomes ==
    ASSUME Types, iaap_state # "STOPPED", NEW m \in MsgType
    PROVE  MessageFilter(m) \subseteq Established
  <1>1. Unchanged \in Established /\ Failed(Unchanged) \in Established
    BY UnchangedOutcome, MayFailOutcomes DEF MayFail
  <1> QED BY <1>1 DEF MessageFilter

LEMMA StartedOutcomes ==
    ASSUME Types, iaap_state = "STARTED", NEW m \in MsgType
    PROVE  processMessage(m) \subseteq Established
  <1>1. iaap_state # "STOPPED" /\ iaap_state # "STARTIN"
    OBVIOUS
  <1>2. MessageFilter(m) \subseteq Established /\ Dispatch(m) \subseteq Established
    BY <1>1, FilterOutcomes, DispatchOutcomes
  <1> QED BY <1>1, <1>2 DEF processMessage

(* Either nothing happens, because the filter took the message or it is    *)
(* not of the handshake, or it is one of the three turns of HUServer.      *)
LEMMA StartinOutcomes ==
    ASSUME Types, iaap_state = "STARTIN", NEW m \in MsgType, NEW o \in processMessage(m)
    PROVE  /\ o \in Honest
           /\ o.ssl.attempt \in {ssl.attempt, connections}
           /\ o.ids = channel_session_id
           /\ ~Ends(o) =>
                 \/ /\ m.type \in HandshakeTypes => m.type \in Filtered
                    /\ o.ssl = ssl /\ o.state = "STARTIN" /\ o.out = <<>>
                 \/ /\ m.type = "VersionResponse"
                    /\ o.ssl.attempt = connections /\ o.ssl.wants = "ServerHello"
                    /\ o.state = "STARTIN"
                    /\ o.out = <<Msg("ClientHello", "Control", connections)>>
                 \/ /\ m.type = "ServerHello"
                    /\ o.ssl.attempt = ssl.attempt /\ o.ssl.wants = "ServerFinished"
                    /\ o.state = "STARTIN"
                    /\ o.out = <<Msg("ClientFinished", "Control", ssl.attempt)>>
                 \/ /\ Finishes(m) /\ m.type \in HandshakeTypes \ {"VersionResponse"}
                    /\ o.ssl.attempt = ssl.attempt /\ o.state = "STARTED"
                    /\ o.out = <<Msg("AuthComplete", "Control", ssl.attempt)>>
  <1>1. iaap_state # "STOPPED"
    OBVIOUS
  <1>2. /\ Unchanged \in Honest /\ Unchanged.ssl = ssl /\ Unchanged.state = "STARTIN"
        /\ Unchanged.out = <<>> /\ Unchanged.ids = channel_session_id
    BY <1>1, UnchangedOutcome DEF Established, Unchanged
  <1>3. /\ Failed(Unchanged) \in Honest /\ Failed(Unchanged).ret = -1
        /\ Failed(Unchanged).ssl = ssl /\ Failed(Unchanged).ids = channel_session_id
    BY <1>1, FailedUnchanged
  <1>4. CASE o \in MessageFilter(m)
    <2>1. o = Failed(Unchanged) \/ (m.type \in Filtered /\ o = Unchanged)
      BY <1>4 DEF MessageFilter
    <2> QED BY <1>2, <1>3, <2>1 DEF Ends
  <1>5. CASE o \in DispatchInit(m)
    <2>1. CASE m.type = "VersionResponse"
      <3>1. o \in handle_VersionResponse
        BY <1>5, <2>1 DEF DispatchInit
      <3>2. /\ o \in Honest
            /\ o.ssl.attempt \in {ssl.attempt, connections}
            /\ o.ids = channel_session_id
            /\ ~Ends(o) =>
                  /\ o.state = iaap_state
                  /\ o.ssl.attempt = connections /\ o.ssl.wants = "ServerHello"
                  /\ o.out = <<Msg("ClientHello", "Control", connections)>>
        BY <1>1, <3>1, VersionOutcomes
      <3> QED BY <2>1, <3>2
    <2>2. CASE m.type \in HandshakeTypes \ {"VersionResponse"}
      <3>1. o \in handleSSLHandshake(m)
        BY <1>5, <2>2, SMT DEF DispatchInit
      <3>2. /\ o \in Honest
            /\ o.ssl.attempt = ssl.attempt
            /\ o.ids = channel_session_id
            /\ ~Ends(o) =>
                  \/ /\ m.type = "ServerHello" /\ o.state = iaap_state
                     /\ o.ssl.wants = "ServerFinished"
                     /\ o.out = <<Msg("ClientFinished", "Control", ssl.attempt)>>
                  \/ /\ Finishes(m) /\ o.state = "STARTED"
                     /\ o.out = <<Msg("AuthComplete", "Control", ssl.attempt)>>
        BY <1>1, <3>1, HandshakeOutcomes
      <3> QED BY <2>2, <3>2
    <2>3. CASE m.type \notin HandshakeTypes
      <3>1. o = Unchanged
        BY <1>5, <2>3, SMT DEF DispatchInit, HandshakeTypes
      <3> QED BY <1>2, <2>3, <3>1
    <2>4. \/ m.type = "VersionResponse" \/ m.type \notin HandshakeTypes
          \/ m.type \in HandshakeTypes \ {"VersionResponse"}
      OBVIOUS
    <2> QED BY <2>1, <2>2, <2>3, <2>4
  <1> QED BY <1>4, <1>5 DEF processMessage

-----------------------------------------------------------------------------
LEMMA NewPhoneType == NewPhone \in PhoneType
  <1>1. 0 \in Steps /\ {} \in Awaited
    BY SMT DEF Steps, Awaited
  <1>2. /\ [c \in Channels |-> "closed"] \in Progress
        /\ [c \in Channels |-> 0] \in IdsType
    BY SMT DEF Progress, IdsType
  <1> QED BY <1>1, <1>2, SMT DEF NewPhone, PhoneType

LEMMA SessionInitially == Init => SessionInv
  <1> SUFFICES ASSUME Init PROVE SessionInv
    OBVIOUS
  <1>1. /\ ssl \in SslType /\ channel_session_id \in IdsType
    BY SMT DEF Init, SslType, IdsType
  <1>2. <<>> \in Seq(MsgType)
    BY SMT
  <1>3. Types
    BY <1>1, <1>2, NewPhoneType DEF Init, Types
  <1> QED BY <1>3 DEF Init, SessionInv

(* The end of a connection, whoever makes it. *)
LEMMA EndedStep ==
    ASSUME Types, Ended, cause' = TRUE, ssl' \in SslType,
           channel_session_id' \in IdsType, UNCHANGED counters
    PROVE  SessionInv'
  <1>1. <<>> \in Seq(MsgType)
    BY SMT
  <1>2. Types'
    BY <1>1, NewPhoneType DEF Ended, Types, counters
  <1> QED BY <1>2 DEF Ended, SessionInv

(* A message is handled: the connection ends, or it goes on. *)
LEMMA ProcessCases ==
    ASSUME Types, Process
    PROVE  /\ inbox # <<>> /\ iaap_state # "STOPPED" /\ Types'
           /\ inbox[1] \in MsgType /\ Len(inbox) >= 1
           /\ Len(Tail(inbox)) = Len(inbox) - 1
           /\ \A i \in 1..Len(Tail(inbox)) : Tail(inbox)[i] = inbox[i + 1]
           /\ UNCHANGED <<streams, connections>>
           /\ \E o \in processMessage(inbox[1]) :
                 /\ o \in Honest
                 /\ ssl' = o.ssl /\ channel_session_id' = o.ids
                 /\ o.out \in Seq(MsgType) /\ o.state \in {"STARTIN", "STARTED"}
                 /\ \/ Ended /\ SessionInv'
                    \/ /\ ~Ends(o)
                       /\ iaap_state' = o.state /\ inbox' = Tail(inbox)
                       /\ outbox' = outbox \o o.out /\ phone' = phone
  <1> DEFINE m == inbox[1]
  <1>1. /\ inbox # <<>> /\ iaap_state # "STOPPED" /\ UNCHANGED counters
        /\ m = Head(inbox) /\ m \in MsgType /\ Len(inbox) >= 1
        /\ Tail(inbox) \in Seq(MsgType) /\ Len(Tail(inbox)) = Len(inbox) - 1
        /\ \A i \in 1..Len(Tail(inbox)) : Tail(inbox)[i] = inbox[i + 1]
    BY SMT DEF Process, Types
  <1>2. PICK o \in processMessage(m) :
          /\ ssl' = o.ssl
          /\ channel_session_id' = o.ids
          /\ cause' = (cause \/ o.cause)
          /\ IF o.ret < 0 \/ o.stop THEN Ended
             ELSE /\ iaap_state' = o.state
                  /\ inbox' = Tail(inbox)
                  /\ outbox' = outbox \o o.out
                  /\ UNCHANGED phone
    BY <1>1 DEF Process
  <1> HIDE DEF m
  <1>3. iaap_state \in {"STARTIN", "STARTED"}
    BY <1>1 DEF Types
  <1>4. o \in Honest
    BY <1>1, <1>2, <1>3, StartedOutcomes, StartinOutcomes DEF Established
  <1>5. /\ o \in Outcome /\ (Ends(o) => o.cause = TRUE)
        /\ o.ssl \in SslType /\ o.ids \in IdsType /\ o.out \in Seq(MsgType)
        /\ o.state \in {"STARTIN", "STARTED"} /\ o.ret \in {-1, 0, 1}
    <2>1. o \in Outcome /\ (Ends(o) => o.cause = TRUE)
      BY <1>4 DEF Honest
    <2> QED BY <2>1, SMT DEF Outcome, States, Rets, Outs
  <1>6. o.stop \in BOOLEAN /\ o.cause \in BOOLEAN
    BY <1>5, Zenon DEF Outcome, Flags
  <1>7. o.ret < 0 <=> o.ret = -1
    BY <1>5, SMT
  <1>8. cause' \in BOOLEAN
    BY <1>2, Zenon
  <1>9. CASE Ends(o)
    <2>1. o.ret < 0 \/ o.stop
      BY <1>7, <1>9, Zenon DEF Ends
    <2>2. Ended
      BY <1>2, <2>1, Zenon
    <2>3. cause' = TRUE
      BY <1>2, <1>5, <1>9, Zenon
    <2>4. SessionInv'
      BY <1>1, <1>2, <1>5, <2>2, <2>3, EndedStep
    <2>5. Types'
      BY <2>4 DEF SessionInv
    <2> QED BY <1>1, <1>2, <1>4, <1>5, <2>2, <2>4, <2>5 DEF counters, m
  <1>10. CASE ~Ends(o)
    <2>1. ~(o.ret < 0 \/ o.stop)
      BY <1>6, <1>7, <1>10, Zenon DEF Ends
    <2>2. /\ iaap_state' = o.state /\ inbox' = Tail(inbox)
          /\ outbox' = outbox \o o.out /\ phone' = phone
      BY <1>2, <2>1, Zenon
    <2>3. Types'
      <3>1. outbox' \in Seq(MsgType)
        BY <1>1, <1>5, <2>2, SMT DEF Types
      <3>2. iaap_state' \in {"STARTIN", "STARTED", "STOPPED"}
        BY <1>5, <2>2
      <3> QED BY <1>1, <1>2, <1>5, <1>8, <2>2, <3>1, <3>2 DEF Types, counters
    <2> QED BY <1>1, <1>2, <1>4, <1>5, <1>10, <2>2, <2>3 DEF counters, m
  <1> QED BY <1>9, <1>10

LEMMA ProcessStep ==
    ASSUME SessionInv, Process
    PROVE  SessionInv'
  <1> DEFINE m == inbox[1]
  <1>1. /\ Types /\ Types' /\ iaap_state # "STOPPED"
        /\ m \in MsgType /\ Len(inbox) >= 1
        /\ Len(Tail(inbox)) = Len(inbox) - 1
        /\ \A i \in 1..Len(Tail(inbox)) : Tail(inbox)[i] = inbox[i + 1]
        /\ connections' = connections
    BY ProcessCases DEF SessionInv
  <1>2. PICK o \in processMessage(m) :
          /\ ssl' = o.ssl
          /\ o.out \in Seq(MsgType) /\ o.state \in {"STARTIN", "STARTED"}
          /\ \/ SessionInv'
             \/ /\ ~Ends(o)
                /\ iaap_state' = o.state /\ inbox' = Tail(inbox)
                /\ outbox' = outbox \o o.out /\ phone' = phone
    BY <1>1, ProcessCases
  <1> HIDE DEF m
  <1>3. iaap_state \in {"STARTIN", "STARTED"}
    BY <1>1 DEF Types
  <1>4. CASE /\ ~Ends(o)
             /\ iaap_state' = o.state /\ inbox' = Tail(inbox)
             /\ outbox' = outbox \o o.out /\ phone' = phone
    <2>2. /\ iaap_state' = o.state /\ inbox' = Tail(inbox)
          /\ outbox' = outbox \o o.out /\ phone' = phone
      BY <1>4
    <2>3. Types'
      BY <1>1
    <2>4. iaap_state' # "STOPPED" /\ connections' = connections /\ ssl' = o.ssl
      BY <1>1, <1>2, <2>2
    <2>5. CASE iaap_state = "STARTED"
      <3>1. o \in Established
        BY <1>1, <1>2, <2>5, StartedOutcomes
      <3>2. o.ssl = ssl /\ o.state = "STARTED"
            /\ \A i \in 1..Len(o.out) : o.out[i].type \notin Hello
        BY <2>5, <3>1 DEF Established
      <3>3. Keys /\ phone.step = 5 /\ \A i \in 1..Len(outbox) : outbox[i].type \notin Hello
        BY <2>5 DEF SessionInv
      <3>4. \A i \in 1..Len(outbox') : outbox'[i].type \notin Hello
        BY <1>1, <1>2, <2>2, <3>2, <3>3, SMT DEF Types
      <3> QED BY <2>2, <2>3, <2>4, <3>2, <3>3, <3>4 DEF SessionInv, Keys
    <2>6. CASE iaap_state = "STARTIN"
      <3>1. Handshake
        BY <2>6 DEF SessionInv
      <3>2. CASE o.ssl = ssl /\ o.state = "STARTIN" /\ o.out = <<>>
        <4>1. outbox' = outbox /\ ssl' = ssl
          BY <1>1, <2>2, <2>4, <3>2, SMT DEF Types
        <4>2. CASE phone.step = 5
          <5>1. \A i \in 1..Len(inbox') : inbox'[i].type \notin HandshakeTypes \ Lasts
            BY <1>1, <2>2, <3>1, <4>2, SMT DEF Handshake
          <5>2. outbox = <<>> /\ Keying /\ \A c \in Channels : phone.progress[c] = "closed"
            BY <1>1, <3>1, <4>2 DEF Handshake
          <5>3. Handshake'
            BY <2>2, <2>4, <4>1, <4>2, <5>1, <5>2 DEF Handshake, Keying, Keys
          <5> QED BY <2>2, <2>3, <3>2, <5>3 DEF SessionInv
        <4>3. CASE phone.step # 5
          <5>1. /\ Len(inbox) = 1 /\ outbox = <<>>
                /\ \A c \in Channels : phone.progress[c] = "closed"
                /\ phone.step = 1 \/ (phone.step = 3 /\ Keying)
            BY <1>1, <3>1, <4>3, SMT DEF Handshake
          <5>2. inbox' = <<>>
            BY <1>1, <2>2, <5>1, SMT DEF Types
          <5>3. Handshake'
            BY <2>2, <2>4, <4>1, <5>1, <5>2 DEF Handshake, Keying, Keys
          <5> QED BY <2>2, <2>3, <3>2, <5>3 DEF SessionInv
        <4> QED BY <4>2, <4>3
      <3>3. CASE /\ m.type = "VersionResponse"
                 /\ o.ssl.attempt = connections /\ o.ssl.wants = "ServerHello"
                 /\ o.state = "STARTIN"
                 /\ o.out = <<Msg("ClientHello", "Control", connections)>>
        <4>1. /\ Len(inbox) = 1 /\ outbox = <<>> /\ phone.step = 1
              /\ \A c \in Channels : phone.progress[c] = "closed"
          BY <1>1, <3>1, <3>3, SMT DEF Handshake, HandshakeTypes, Lasts, m
        <4>2. inbox' = <<>>
          BY <1>1, <2>2, <4>1, SMT DEF Types
        <4>3. outbox' = <<Msg("ClientHello", "Control", connections)>>
          BY <1>2, <2>2, <3>3, <4>1, SMT
        <4>4. /\ Len(outbox') = 1 /\ outbox'[1].type = "ClientHello"
              /\ outbox'[1].n = connections
          BY <4>3, SMT DEF Msg
        <4>5. Handshake'
          <5>1. ssl'.attempt = connections' /\ ssl'.wants # "nothing"
            BY <2>4, <3>3
          <5> QED BY <2>2, <2>4, <4>1, <4>2, <4>4, <5>1 DEF Handshake
        <4> QED BY <2>2, <2>3, <3>3, <4>5 DEF SessionInv
      <3>4. CASE /\ m.type = "ServerHello"
                 /\ o.ssl.attempt = ssl.attempt /\ o.ssl.wants = "ServerFinished"
                 /\ o.state = "STARTIN"
                 /\ o.out = <<Msg("ClientFinished", "Control", ssl.attempt)>>
        <4>1. /\ Len(inbox) = 1 /\ outbox = <<>> /\ phone.step = 3 /\ Keying
              /\ \A c \in Channels : phone.progress[c] = "closed"
          BY <1>1, <3>1, <3>4, SMT DEF Handshake, HandshakeTypes, Lasts, m
        <4>2. inbox' = <<>>
          BY <1>1, <2>2, <4>1, SMT DEF Types
        <4>3. outbox' = <<Msg("ClientFinished", "Control", ssl.attempt)>>
          BY <1>2, <2>2, <3>4, <4>1, SMT
        <4>4. Len(outbox') = 1 /\ outbox'[1].type = "ClientFinished"
          BY <4>3, SMT DEF Msg
        <4>5. Handshake'
          <5>1. Keying'
            BY <2>2, <2>4, <3>4, <4>1 DEF Keying, Keys
          <5> QED BY <2>2, <4>1, <4>2, <4>4, <5>1 DEF Handshake
        <4> QED BY <2>2, <2>3, <3>4, <4>5 DEF SessionInv
      <3>5. CASE /\ Finishes(m) /\ m.type \in HandshakeTypes \ {"VersionResponse"}
                 /\ o.ssl.attempt = ssl.attempt /\ o.state = "STARTED"
                 /\ o.out = <<Msg("AuthComplete", "Control", ssl.attempt)>>
        <4>1. outbox = <<>> /\ phone.step = 5 /\ Keying
          BY <1>1, <3>1, <3>5, SMT DEF Handshake, Keying, Finishes, m
        <4>2. outbox' = <<Msg("AuthComplete", "Control", ssl.attempt)>>
          BY <1>2, <2>2, <3>5, <4>1, SMT
        <4>3. \A i \in 1..Len(outbox') : outbox'[i].type \notin Hello
          BY <4>2, SMT DEF Msg, Hello
        <4> QED BY <2>2, <2>3, <2>4, <3>5, <4>1, <4>3 DEF SessionInv, Keying, Keys
      <3> QED BY <1>1, <1>2, <1>4, <2>6, <3>2, <3>3, <3>4, <3>5, StartinOutcomes
    <2> QED BY <1>3, <2>5, <2>6
  <1> QED BY <1>2, <1>4

LEMMA StartStep ==
    ASSUME SessionInv, Start
    PROVE  SessionInv'
  <1>1. /\ inbox = <<>> /\ outbox = <<>> /\ phone = NewPhone
        /\ UNCHANGED <<ssl, channel_session_id, inbox, outbox, phone, streams>>
        /\ iaap_state' = "STARTIN" /\ cause' = FALSE /\ connections' = connections + 1
    BY DEF SessionInv, Start, wireVars
  <1>2. connections' \in Nat
    BY <1>1, SMT DEF SessionInv, Types
  <1>3. Types'
    BY <1>1, <1>2 DEF SessionInv, Types
  <1>4. phone'.step = 0 /\ \A c \in Channels : phone'.progress[c] = "closed"
    BY <1>1, SMT DEF NewPhone
  <1>5. Handshake'
    BY <1>1, <1>4 DEF Handshake
  <1> QED BY <1>1, <1>3, <1>5 DEF SessionInv

LEMMA InterruptedStep ==
    ASSUME Types, Interrupted
    PROVE  SessionInv'
  BY EndedStep DEF Interrupted, Types

-----------------------------------------------------------------------------
(* The steps of the phone. *)
LEMMA SendsEffect ==
    ASSUME NEW m \in MsgType, NEW next \in PhoneType, Sends(m, next)
    PROVE  /\ iaap_state # "STOPPED"
           /\ inbox' = Append(inbox, m)
           /\ UNCHANGED <<iaap_state, ssl, channel_session_id, cause, outbox>>
           /\ phone' \in PhoneType
           /\ phone'.step = next.step /\ phone'.attempt = next.attempt
           /\ phone'.progress = next.progress
  <1>1. /\ iaap_state # "STOPPED"
        /\ inbox' = Append(inbox, m)
        /\ UNCHANGED <<iaap_state, ssl, channel_session_id, cause, outbox>>
    BY DEF Sends, huVars
  <1>2. CASE m.type \in DOMAIN Answers \ Filtered
    <2> DEFINE w  == next.waiting \union {Msg(Answers[m.type], m.chan, m.n)}
               aw == [type : {Answers[t] : t \in DOMAIN Answers}, chan : Channels, n : Nat]
    <2>1. Msg(Answers[m.type], m.chan, m.n) \in aw
      <3>1. m.chan \in Channels /\ m.n \in Nat
        BY SMT DEF MsgType
      <3>2. Answers[m.type] \in {Answers[t] : t \in DOMAIN Answers}
        BY <1>2
      <3> QED BY <3>1, <3>2, Zenon DEF Msg
    <2>2. next.waiting \in Awaited
      BY Zenon DEF PhoneType
    <2>3. w \in Awaited
      BY <2>1, <2>2 DEF Awaited
    <2>4. phone' = [next EXCEPT !.waiting = w]
      BY <1>2 DEF Sends
    <2> HIDE DEF w, aw
    <2>5. /\ phone' \in PhoneType
          /\ phone'.step = next.step /\ phone'.attempt = next.attempt
          /\ phone'.progress = next.progress
      BY <2>3, <2>4, Zenon DEF PhoneType
    <2> QED BY <1>1, <2>5
  <1>3. CASE m.type \notin DOMAIN Answers \ Filtered
    <2>1. phone' = next
      BY <1>3 DEF Sends
    <2> QED BY <1>1, <2>1
  <1> QED BY <1>2, <1>3

(* A message that is not of the handshake is sent after it. *)
LEMMA OtherSent ==
    ASSUME SessionInv, NEW m \in MsgType, m.type \notin HandshakeTypes,
           NEW next \in PhoneType,
           next.step = phone.step, next.attempt = phone.attempt,
           iaap_state = "STARTIN" => phone.step = 5 /\ next.progress = phone.progress,
           Sends(m, next), streams' \in Nat, connections' = connections
    PROVE  SessionInv'
  <1>1. /\ iaap_state # "STOPPED"
        /\ inbox' = Append(inbox, m)
        /\ UNCHANGED <<iaap_state, ssl, channel_session_id, cause, outbox>>
        /\ phone' \in PhoneType
        /\ phone'.step = phone.step /\ phone'.attempt = phone.attempt
        /\ phone'.progress = next.progress
    BY SendsEffect
  <1>2. Types'
    <2>1. inbox' \in Seq(MsgType)
      BY <1>1, SMT DEF SessionInv, Types
    <2> QED BY <1>1, <2>1 DEF SessionInv, Types
  <1>3. ASSUME iaap_state = "STARTIN" PROVE Handshake'
    <2>1. /\ phone.step = 5 /\ outbox = <<>> /\ Keying /\ next.progress = phone.progress
          /\ \A c \in Channels : phone.progress[c] = "closed"
          /\ \A i \in 1..Len(inbox) : inbox[i].type \notin HandshakeTypes \ Lasts
      BY <1>3, SMT DEF SessionInv, Handshake
    <2>2. \A i \in 1..Len(inbox') : inbox'[i].type \notin HandshakeTypes \ Lasts
      BY <1>1, <2>1, SMT DEF SessionInv, Types
    <2> QED BY <1>1, <2>1, <2>2 DEF Handshake, Keying, Keys
  <1> QED BY <1>1, <1>2, <1>3 DEF SessionInv, Keys

LEMMA PhoneHandshakeStep ==
    ASSUME SessionInv, PhoneHandshake
    PROVE  SessionInv'
  <1>1. PICK type \in CASE phone.step = 0 -> {"VersionResponse"}
                         [] phone.step = 2 -> {"ServerHello", "PartOfServerHello"}
                         [] phone.step = 4 -> {"ServerFinished", "PartOfServerFinished"} :
          Sends(Msg(type, "Control", connections), [phone EXCEPT !.step = @ + 1])
    BY DEF PhoneHandshake
  <1>2. \/ phone.step = 0 /\ type = "VersionResponse"
        \/ phone.step = 2 /\ type \in {"ServerHello", "PartOfServerHello"}
        \/ phone.step = 4 /\ type \in Lasts
    BY <1>1, SMT DEF PhoneHandshake, Lasts
  <1> DEFINE m    == Msg(type, "Control", connections)
             next == [phone EXCEPT !.step = phone.step + 1]
  <1>3. m \in MsgType /\ m.type = type
    <2>1. type \in Names /\ "Control" \in Channels
      BY <1>2 DEF Names, HandshakeTypes, Lasts, Channels, FixedChannels
    <2> QED BY <2>1, SMT DEF Msg, MsgType, SessionInv, Types
  <1>4. /\ next \in PhoneType /\ next.step = phone.step + 1
        /\ next.attempt = phone.attempt /\ next.progress = phone.progress
    <2>1. phone.step + 1 \in Steps /\ phone \in PhoneType
      BY <1>2, SMT DEF Steps, SessionInv, Types
    <2> QED BY <2>1, Zenon DEF PhoneType
  <1>5. Sends(m, next)
    BY <1>1
  <1> HIDE DEF m, next
  <1>6. /\ iaap_state # "STOPPED"
        /\ inbox' = Append(inbox, m)
        /\ UNCHANGED <<iaap_state, ssl, channel_session_id, cause, outbox>>
        /\ phone' \in PhoneType
        /\ phone'.step = phone.step + 1 /\ phone'.attempt = phone.attempt
        /\ phone'.progress = phone.progress
    BY <1>3, <1>4, <1>5, SendsEffect
  <1>7. UNCHANGED <<streams, connections>>
    BY DEF PhoneHandshake, counters
  <1>8. Types'
    <2>1. inbox' \in Seq(MsgType)
      BY <1>3, <1>6, SMT DEF SessionInv, Types
    <2> QED BY <1>6, <1>7, <2>1 DEF SessionInv, Types
  <1>9. iaap_state = "STARTIN"
    BY <1>2, <1>6, SMT DEF SessionInv, Types
  <1>10. /\ Handshake /\ inbox = <<>> /\ outbox = <<>>
         /\ phone.step # 0 => Keying
    BY <1>2, <1>9, SMT DEF SessionInv, Handshake
  <1>11. Len(inbox') = 1 /\ inbox'[1].type = type
    BY <1>3, <1>6, <1>10, SMT
  <1>12. \A c \in Channels : phone'.progress[c] = "closed"
    BY <1>6, <1>10 DEF Handshake
  <1>13. phone.step # 0 => Keying'
    BY <1>6, <1>7, <1>10 DEF Keying, Keys
  <1>14. Handshake'
    <2>1. CASE phone.step = 0 /\ type = "VersionResponse"
      <3>1. phone'.step = 1
        BY <1>6, <2>1, SMT
      <3> QED BY <1>6, <1>10, <1>11, <1>12, <2>1, <3>1 DEF Handshake
    <2>2. CASE phone.step = 2 /\ type \in {"ServerHello", "PartOfServerHello"}
      <3>1. phone'.step = 3 /\ Keying'
        BY <1>6, <1>13, <2>2, SMT
      <3> QED BY <1>6, <1>10, <1>11, <1>12, <2>2, <3>1 DEF Handshake
    <2>3. CASE phone.step = 4 /\ type \in Lasts
      <3>1. phone'.step = 5 /\ Keying'
        BY <1>6, <1>13, <2>3, SMT
      <3>2. \A i \in 1..Len(inbox') : inbox'[i].type \notin HandshakeTypes \ Lasts
        BY <1>11, <2>3, SMT
      <3> QED BY <1>6, <1>10, <1>12, <3>1, <3>2 DEF Handshake
    <2> QED BY <1>2, <2>1, <2>2, <2>3
  <1> QED BY <1>6, <1>8, <1>9, <1>14 DEF SessionInv

LEMMA MessageTypes ==
    ASSUME NEW type \in Requests, NEW chan \in Channels, NEW n \in Nat
    PROVE  /\ Msg(type, chan, n) \in MsgType
           /\ Msg(type, chan, n).type \notin HandshakeTypes
  <1>1. type \in Names /\ type \notin HandshakeTypes
    BY SMT DEF Names, Requests, HandshakeTypes
  <1> QED BY <1>1, SMT DEF Msg, MsgType

LEMMA PhoneAsksStep ==
    ASSUME SessionInv, NEW chan \in Channels, PhoneAsks(chan)
    PROVE  SessionInv'
  <1>1. PICK type \in Requests : Sends(Msg(type, chan, 0), phone)
    BY SMT DEF PhoneAsks, Requests
  <1>2. /\ phone.step = 5 /\ phone \in PhoneType
        /\ streams' \in Nat /\ connections' = connections
    BY DEF PhoneAsks, SessionInv, Types, counters
  <1> QED BY <1>1, <1>2, MessageTypes, OtherSent

LEMMA PhoneStartsStep ==
    ASSUME SessionInv, NEW chan \in MediaChannels, PhoneStarts(chan)
    PROVE  SessionInv'
  <1>1. chan \in Channels /\ phone \in PhoneType
        /\ phone.progress \in Progress /\ phone.session \in IdsType
        /\ streams' \in Nat /\ streams' = streams + 1 /\ connections' = connections
    BY SMT DEF Channels, SessionInv, Types, PhoneType, PhoneStarts
  <1> DEFINE progress == [phone.progress EXCEPT ![chan] = "started"]
             session  == [phone.session EXCEPT ![chan] = streams']
             next     == [phone EXCEPT !.progress = progress, !.session = session]
  <1>2. progress \in Progress /\ session \in IdsType
    BY <1>1, SMT DEF Progress, IdsType
  <1>3. Sends(Msg("MediaStartRequest", chan, streams'), next)
    BY DEF PhoneStarts
  <1> HIDE DEF progress, session
  <1>4. next \in PhoneType /\ next.step = phone.step /\ next.attempt = phone.attempt
    BY <1>1, <1>2, Zenon DEF PhoneType
  <1>5. iaap_state # "STARTIN"
    BY <1>1 DEF SessionInv, Handshake, PhoneStarts
  <1>6. "MediaStartRequest" \in Requests
    BY DEF Requests
  <1> HIDE DEF next
  <1> QED BY <1>1, <1>3, <1>4, <1>5, <1>6, MessageTypes, OtherSent

LEMMA PhoneStreamsStep ==
    ASSUME SessionInv, NEW chan \in MediaChannels,
           NEW type \in {"MediaData", "MediaDataWithTimestamp"}, PhoneStreams(chan, type)
    PROVE  SessionInv'
  <1>1. /\ chan \in Channels /\ type \in Requests
        /\ phone \in PhoneType /\ phone.session[chan] \in Nat
        /\ streams' \in Nat /\ connections' = connections
    BY SMT DEF Channels, Requests, SessionInv, Types, PhoneType, IdsType, PhoneStreams, counters
  <1>2. Sends(Msg(type, chan, phone.session[chan]), phone)
    BY DEF PhoneStreams
  <1>3. iaap_state # "STARTIN"
    BY <1>1 DEF SessionInv, Handshake, PhoneStreams
  <1> QED BY <1>1, <1>2, <1>3, MessageTypes, OtherSent

LEMMA PhoneStopsStep ==
    ASSUME SessionInv, NEW chan \in MediaChannels, PhoneStops(chan)
    PROVE  SessionInv'
  <1>1. /\ chan \in Channels /\ phone \in PhoneType /\ phone.progress \in Progress
        /\ streams' \in Nat /\ connections' = connections
    BY SMT DEF Channels, SessionInv, Types, PhoneType, PhoneStops, counters
  <1> DEFINE progress == [phone.progress EXCEPT ![chan] = "setup"]
             next     == [phone EXCEPT !.progress = progress]
  <1>2. progress \in Progress
    BY <1>1, SMT DEF Progress
  <1>3. Sends(Msg("MediaStopRequest", chan, 0), next)
    BY DEF PhoneStops
  <1> HIDE DEF progress
  <1>4. next \in PhoneType /\ next.step = phone.step /\ next.attempt = phone.attempt
    BY <1>1, <1>2, Zenon DEF PhoneType
  <1>5. iaap_state # "STARTIN"
    BY <1>1 DEF SessionInv, Handshake, PhoneStops
  <1>6. "MediaStopRequest" \in Requests
    BY DEF Requests
  <1> HIDE DEF next
  <1> QED BY <1>1, <1>3, <1>4, <1>5, <1>6, MessageTypes, OtherSent

(* The phone's other messages, numbered. *)
LEMMA OtherMessage ==
    ASSUME NEW m \in OtherMessages, NEW k \in Nat
    PROVE  /\ [m EXCEPT !.n = k] \in MsgType
           /\ [m EXCEPT !.n = k].type = m.type /\ [m EXCEPT !.n = k].n = k
           /\ [m EXCEPT !.n = k].chan = m.chan
           /\ m.type \notin HandshakeTypes /\ m.type \notin Requests
  <1>1. m = [type |-> m.type, chan |-> m.chan, n |-> 0] /\ m.chan \in Channels
        /\ m.type \notin HandshakeTypes \union Requests
    BY OthersAssumption DEF OthersAssumption
  <1>2. m.type \in Names
    BY DEF Names
  <1>3. m \in MsgType
    <2>1. [type |-> m.type, chan |-> m.chan, n |-> 0] \in MsgType
      BY <1>1, <1>2, SMT DEF MsgType
    <2> QED BY <1>1, <2>1
  <1>4. /\ [m EXCEPT !.n = k] \in MsgType
        /\ [m EXCEPT !.n = k].type = m.type /\ [m EXCEPT !.n = k].n = k
        /\ [m EXCEPT !.n = k].chan = m.chan
    BY <1>3, SMT DEF MsgType
  <1> QED BY <1>1, <1>4

LEMMA PhoneSendsOtherStep ==
    ASSUME SessionInv, NEW m \in OtherMessages, PhoneSendsOther(m)
    PROVE  SessionInv'
  <1>1. PICK k : k = phone.others + 1
    OBVIOUS
  <1>2. /\ phone \in PhoneType /\ phone.step = 5 /\ k \in Nat
        /\ streams' \in Nat /\ connections' = connections
    BY <1>1, SMT DEF PhoneSendsOther, SessionInv, Types, PhoneType, counters
  <1> DEFINE next == [phone EXCEPT !.others = k]
             said == [m EXCEPT !.n = k]
  <1>5. said \in MsgType /\ said.type \notin HandshakeTypes
    BY <1>2, OtherMessage
  <1>3. Sends(said, next)
    BY <1>1 DEF PhoneSendsOther
  <1>4. /\ next \in PhoneType /\ next.step = phone.step /\ next.attempt = phone.attempt
        /\ next.progress = phone.progress
    BY <1>2, Zenon DEF PhoneType
  <1> HIDE DEF next, said
  <1> QED BY <1>2, <1>3, <1>4, <1>5, OtherSent

(* An answer of the handshake arrives only in the handshake. *)
LEMMA NotAstray ==
    ASSUME SessionInv
    PROVE  phone.step # 6
  <1>1. CASE iaap_state = "STOPPED"
    BY <1>1, SMT DEF SessionInv, NewPhone
  <1>2. CASE iaap_state = "STARTIN"
    BY <1>2, SMT DEF SessionInv, Handshake
  <1>3. CASE iaap_state = "STARTED"
    BY <1>3, SMT DEF SessionInv
  <1> QED BY <1>1, <1>2, <1>3 DEF SessionInv, Types

LEMMA PhoneReceivesStep ==
    ASSUME SessionInv, PhoneReceives
    PROVE  SessionInv'
  <1> DEFINE m       == Head(outbox)
             waiting == phone.waiting \ {m}
             rest    == [phone EXCEPT !.waiting = waiting]
  <1>1. /\ outbox # <<>> /\ outbox' = Tail(outbox)
        /\ UNCHANGED <<iaap_state, ssl, channel_session_id, cause, inbox, streams, connections>>
    BY DEF PhoneReceives, huVars, counters
  <1>2. /\ outbox \in Seq(MsgType) /\ outbox' \in Seq(MsgType)
        /\ m \in MsgType /\ m = outbox[1] /\ Len(outbox) > 0
        /\ Len(outbox') = Len(outbox) - 1
        /\ \A i \in 1..Len(outbox') : outbox'[i] = outbox[i + 1] /\ i + 1 \in 1..Len(outbox)
    BY <1>1, SMT DEF SessionInv, Types
  <1>3. phone \in PhoneType /\ iaap_state # "STOPPED"
    BY <1>1 DEF SessionInv, Types
  <1>4. waiting \in Awaited
    <2>1. phone.waiting \in Awaited
      BY <1>3, Zenon DEF PhoneType
    <2> QED BY <2>1 DEF Awaited
  <1>5. phone' =
          CASE m.type = "ClientHello" -> [rest EXCEPT !.step = 2, !.attempt = m.n]
            [] m.type = "ClientFinished" -> [rest EXCEPT !.step = 4]
            [] m.type \in {"ServiceDiscoveryResponse", "ChannelOpenResponse"} ->
                  [rest EXCEPT !.progress[m.chan] = "open"]
            [] m.type = "MediaSetupResponse" -> [rest EXCEPT !.progress[m.chan] = "setup"]
            [] OTHER -> rest
    BY <1>3, NotAstray, Zenon DEF PhoneReceives
  <1>6. /\ m.chan \in Channels /\ m.n \in Nat
    BY <1>2, SMT DEF MsgType
  <1> HIDE DEF m, waiting
  <1>7. /\ rest \in PhoneType /\ rest.step = phone.step /\ rest.attempt = phone.attempt
        /\ rest.progress = phone.progress
    BY <1>3, <1>4, Zenon DEF PhoneType
  <1> HIDE DEF rest
  <1>8. 2 \in Steps /\ 4 \in Steps
    BY SMT DEF Steps
  <1>9. CASE m.type = "ClientHello"
    <2>1. phone' = [rest EXCEPT !.step = 2, !.attempt = m.n]
      BY <1>5, <1>9, SMT
    <2>2. /\ phone' \in PhoneType /\ phone'.step = 2 /\ phone'.attempt = m.n
          /\ phone'.progress = phone.progress
      BY <1>6, <1>7, <1>8, <2>1, Zenon DEF PhoneType
    <2>3. iaap_state = "STARTIN"
      BY <1>2, <1>3, <1>9, SMT DEF SessionInv, Types, Hello
    <2>4. /\ inbox = <<>> /\ Len(outbox) = 1 /\ ssl.attempt = connections /\ ssl.wants # "nothing"
          /\ m.n = connections /\ \A c \in Channels : phone.progress[c] = "closed"
      BY <1>2, <1>9, <2>3, SMT DEF SessionInv, Handshake
    <2>5. outbox' = <<>> /\ inbox' = <<>>
      BY <1>1, <1>2, <2>4, SMT
    <2>6. Keying' /\ \A c \in Channels : phone'.progress[c] = "closed"
      BY <1>1, <2>2, <2>4 DEF Keying, Keys
    <2>7. Handshake'
      BY <2>2, <2>5, <2>6 DEF Handshake
    <2>8. Types'
      BY <1>1, <1>2, <2>2 DEF SessionInv, Types
    <2> QED BY <1>1, <2>3, <2>7, <2>8 DEF SessionInv
  <1>10. CASE m.type = "ClientFinished"
    <2>1. phone' = [rest EXCEPT !.step = 4]
      BY <1>5, <1>10, SMT
    <2>2. /\ phone' \in PhoneType /\ phone'.step = 4 /\ phone'.attempt = phone.attempt
          /\ phone'.progress = phone.progress
      BY <1>7, <1>8, <2>1, Zenon DEF PhoneType
    <2>3. iaap_state = "STARTIN"
      BY <1>2, <1>3, <1>10, SMT DEF SessionInv, Types, Hello
    <2>4. /\ inbox = <<>> /\ Len(outbox) = 1 /\ Keying
          /\ \A c \in Channels : phone.progress[c] = "closed"
      BY <1>2, <1>10, <2>3, SMT DEF SessionInv, Handshake
    <2>5. outbox' = <<>> /\ inbox' = <<>>
      BY <1>1, <1>2, <2>4, SMT
    <2>6. Keying' /\ \A c \in Channels : phone'.progress[c] = "closed"
      BY <1>1, <2>2, <2>4 DEF Keying, Keys
    <2>7. Handshake'
      BY <2>2, <2>5, <2>6 DEF Handshake
    <2>8. Types'
      BY <1>1, <1>2, <2>2 DEF SessionInv, Types
    <2> QED BY <1>1, <2>3, <2>7, <2>8 DEF SessionInv
  <1>11. CASE m.type \notin Hello
    <2>1. iaap_state = "STARTED"
      <3>1. ASSUME iaap_state = "STARTIN" PROVE FALSE
        BY <1>2, <1>11, <3>1, SMT DEF SessionInv, Handshake, Hello
      <3> QED BY <1>3, <3>1 DEF SessionInv, Types
    <2>2. \/ phone' = rest
          \/ phone' = [rest EXCEPT !.progress[m.chan] = "open"]
          \/ phone' = [rest EXCEPT !.progress[m.chan] = "setup"]
      BY <1>5, <1>11, SMT DEF Hello
    <2> DEFINE open  == [rest.progress EXCEPT ![m.chan] = "open"]
               setup == [rest.progress EXCEPT ![m.chan] = "setup"]
    <2>3. open \in Progress /\ setup \in Progress
      <3>1. rest.progress \in Progress
        BY <1>7, Zenon DEF PhoneType
      <3> QED BY <1>6, <3>1, SMT DEF Progress
    <2>4. \/ phone' = rest
          \/ phone' = [rest EXCEPT !.progress = open]
          \/ phone' = [rest EXCEPT !.progress = setup]
      BY <2>2
    <2> HIDE DEF open, setup
    <2>5. phone' \in PhoneType /\ phone'.step = phone.step /\ phone'.attempt = phone.attempt
      <3>1. CASE phone' = rest
        BY <1>7, <3>1
      <3>2. CASE phone' = [rest EXCEPT !.progress = open]
        BY <1>7, <2>3, <3>2, Zenon DEF PhoneType
      <3>3. CASE phone' = [rest EXCEPT !.progress = setup]
        BY <1>7, <2>3, <3>3, Zenon DEF PhoneType
      <3> QED BY <2>4, <3>1, <3>2, <3>3
    <2>6. Types'
      BY <1>1, <1>2, <2>5 DEF SessionInv, Types
    <2>7. \A i \in 1..Len(outbox') : outbox'[i].type \notin Hello
      BY <1>2, <2>1 DEF SessionInv
    <2> QED BY <1>1, <2>1, <2>5, <2>6, <2>7 DEF SessionInv, Keys
  <1> QED BY <1>9, <1>10, <1>11 DEF Hello

-----------------------------------------------------------------------------
(* A phone that goes astray, and what is left of its connection. *)
LEMMA StraysStep ==
    ASSUME Valid, PhoneStrays
    PROVE  AstrayInv' /\ UNCHANGED <<ssl, channel_session_id, streams, connections>>
  <1>1. PICK type \in HandshakeTypes : inbox' = Append(inbox, Msg(type, "Control", connections))
    BY DEF PhoneStrays
  <1>2. /\ phone.step # 5 /\ iaap_state # "STOPPED"
        /\ phone' = [phone EXCEPT !.step = 6, !.waiting = {}]
        /\ UNCHANGED <<iaap_state, ssl, channel_session_id, cause, outbox, streams, connections>>
    BY DEF PhoneStrays, huVars, counters
  <1>3. Types
    BY DEF Valid, SessionInv, AstrayInv
  <1>4. inbox' \in Seq(MsgType)
    <2>1. type \in Names /\ "Control" \in Channels
      BY DEF Names, Channels, FixedChannels
    <2>2. Msg(type, "Control", connections) \in MsgType
      BY <1>3, <2>1, SMT DEF Msg, MsgType, Types
    <2> QED BY <1>1, <1>3, <2>2, SMT DEF Types
  <1>5. /\ phone' \in PhoneType /\ phone'.step = 6 /\ phone'.waiting = {}
        /\ phone'.progress = phone.progress
    <2>1. 6 \in Steps /\ {} \in Awaited
      BY SMT DEF Steps, Awaited
    <2> QED BY <1>2, <1>3, <2>1, Zenon DEF PhoneType, Types
  <1>6. Types'
    BY <1>2, <1>3, <1>4, <1>5 DEF Types
  <1>7. /\ \A c \in Channels : phone.progress[c] = "closed"
        /\ iaap_state = "STARTIN" => \A i \in 1..Len(outbox) : outbox[i].type \in Hello
    <2>1. CASE SessionInv
      <3>1. iaap_state = "STARTIN" /\ Handshake
        BY <1>2, <2>1 DEF SessionInv, Types
      <3>2. \A i \in 1..Len(outbox) : outbox[i].type \in Hello
        BY <1>3, <3>1, SMT DEF Handshake, Hello, Types
      <3> QED BY <3>1, <3>2 DEF Handshake
    <2>2. CASE AstrayInv
      BY <2>2 DEF AstrayInv
    <2> QED BY <2>1, <2>2 DEF Valid
  <1> QED BY <1>2, <1>5, <1>6, <1>7 DEF AstrayInv

LEMMA AstrayProcess ==
    ASSUME AstrayInv, Process
    PROVE  Valid'
  <1>1. Types /\ Types' /\ iaap_state # "STOPPED" /\ inbox[1] \in MsgType
    BY ProcessCases DEF AstrayInv
  <1>2. PICK o \in processMessage(inbox[1]) :
          /\ o.out \in Seq(MsgType) /\ o.state \in {"STARTIN", "STARTED"}
          /\ \/ SessionInv'
             \/ /\ ~Ends(o)
                /\ iaap_state' = o.state
                /\ outbox' = outbox \o o.out /\ phone' = phone
    BY <1>1, ProcessCases
  <1>3. CASE /\ ~Ends(o)
             /\ iaap_state' = o.state
             /\ outbox' = outbox \o o.out /\ phone' = phone
    <2>1. ASSUME iaap_state' = "STARTIN"
          PROVE  \A i \in 1..Len(outbox') : outbox'[i].type \in Hello
      <3>1. iaap_state = "STARTIN"
        <4>1. ASSUME iaap_state = "STARTED" PROVE FALSE
          <5>1. o \in Established
            BY <1>1, <4>1, StartedOutcomes
          <5> QED BY <1>3, <2>1, <4>1, <5>1 DEF Established
        <4> QED BY <1>1, <4>1 DEF Types
      <3>2. \/ o.out = <<>>
            \/ o.out = <<Msg("ClientHello", "Control", connections)>>
            \/ o.out = <<Msg("ClientFinished", "Control", ssl.attempt)>>
        BY <1>1, <1>3, <2>1, <3>1, StartinOutcomes
      <3>3. \A i \in 1..Len(o.out) : o.out[i].type \in Hello
        BY <3>2, SMT DEF Msg, Hello
      <3>4. \A i \in 1..Len(outbox) : outbox[i].type \in Hello
        BY <3>1 DEF AstrayInv
      <3> QED BY <1>1, <1>2, <1>3, <3>3, <3>4, SMT DEF Types
    <2>2. iaap_state' # "STOPPED"
      BY <1>2, <1>3
    <2> QED BY <1>1, <1>3, <2>1, <2>2 DEF AstrayInv, Valid
  <1> QED BY <1>2, <1>3 DEF Valid

(* What an astray phone may still do. *)
LEMMA AstrayPhone ==
    ASSUME AstrayInv, PhoneNext
    PROVE  PhoneStrays \/ PhoneReceives
  <1>1. /\ phone.step = 6
        /\ \A c \in Channels : phone.progress[c] = "closed"
    BY DEF AstrayInv
  <1>2. ~PhoneHandshake /\ \A m \in OtherMessages : ~PhoneSendsOther(m)
    BY <1>1, SMT DEF PhoneHandshake, PhoneSendsOther
  <1>3. \A chan \in Channels : ~PhoneAsks(chan)
    BY <1>1, SMT DEF PhoneAsks
  <1>4. \A chan \in MediaChannels :
           /\ ~PhoneStarts(chan) /\ ~PhoneStops(chan)
           /\ \A type : ~PhoneStreams(chan, type)
    BY <1>1, SMT DEF Channels, PhoneStarts, PhoneStops, PhoneStreams
  <1> QED BY <1>2, <1>3, <1>4 DEF PhoneNext

LEMMA AstrayReceives ==
    ASSUME AstrayInv, PhoneReceives
    PROVE  AstrayInv'
  <1>1. /\ outbox # <<>> /\ outbox' = Tail(outbox)
        /\ UNCHANGED <<iaap_state, ssl, channel_session_id, cause, inbox, streams, connections>>
    BY DEF PhoneReceives, huVars, counters
  <1>2. phone' = phone
    BY DEF PhoneReceives, AstrayInv
  <1>3. /\ outbox' \in Seq(MsgType)
        /\ \A i \in 1..Len(outbox') : outbox'[i] = outbox[i + 1] /\ i + 1 \in 1..Len(outbox)
    BY <1>1, SMT DEF AstrayInv, Types
  <1>4. Types'
    BY <1>1, <1>2, <1>3 DEF AstrayInv, Types
  <1> QED BY <1>1, <1>2, <1>3, <1>4 DEF AstrayInv

LEMMA AstrayStep ==
    ASSUME AstrayInv, [Next]_vars
    PROVE  Valid'
  <1>1. Types /\ iaap_state # "STOPPED"
    BY DEF AstrayInv
  <1>2. CASE Interrupted
    BY <1>1, <1>2, InterruptedStep DEF Valid
  <1>3. CASE PhoneNext
    BY <1>3, AstrayPhone, AstrayReceives, StraysStep DEF Valid
  <1>4. CASE UNCHANGED vars
    BY <1>4 DEF vars, huVars, wireVars, counters, AstrayInv, Types, Valid
  <1> QED BY <1>1, <1>2, <1>3, <1>4, AstrayProcess DEF Next, Start

LEMMA SessionStep ==
    ASSUME SessionInv, [Next]_vars
    PROVE  SessionInv' \/ (PhoneStrays /\ AstrayInv')
  <1>1. CASE Process
    BY <1>1, ProcessStep
  <1>2. CASE Start
    BY <1>2, StartStep
  <1>3. CASE Interrupted
    BY <1>3, InterruptedStep DEF SessionInv
  <1>4. CASE PhoneNext
    BY <1>4, PhoneHandshakeStep, PhoneReceivesStep, PhoneAsksStep, PhoneStartsStep,
       PhoneStopsStep, PhoneStreamsStep, PhoneSendsOtherStep, StraysStep
    DEF PhoneNext, Valid
  <1>5. CASE UNCHANGED vars
    BY <1>5 DEF vars, huVars, wireVars, counters, SessionInv, Types, Handshake, Keying, Keys
  <1> QED BY <1>1, <1>2, <1>3, <1>4, <1>5 DEF Next

LEMMA ValidAlways == Spec => []Valid
  <1>1. Init => Valid
    BY SessionInitially DEF Valid
  <1>2. Valid /\ [Next]_vars => Valid'
    BY SessionStep, AstrayStep DEF Valid
  <1> QED BY <1>1, <1>2, PTL DEF Spec

(* Over any number of connections, whatever was left of the one before and *)
(* wherever in the handshake it was lost: a session established with a     *)
(* phone that keeps to the protocol has the keys of its own handshake, on  *)
(* both sides, although the handlers take whatever a finished m_ssl takes. *)
THEOREM SessionKeysAlways == Spec => []SessionKeys
  <1>1. Valid => SessionKeys
    BY DEF Valid, SessionInv, AstrayInv, SessionKeys, Keys
  <1> QED BY <1>1, ValidAlways, PTL

(* Whatever its handlers return, 0, a size or -1, and whatever the phone   *)
(* sends in the handshake: HUServer ends a connection only if a step       *)
(* failed or someone asked for the end.                                    *)
THEOREM EndsOnlyForCause == Spec => []EndsForCause
  <1>1. Valid => EndsForCause
    BY DEF Valid, SessionInv, AstrayInv, EndsForCause
  <1> QED BY <1>1, ValidAlways, PTL

-----------------------------------------------------------------------------
(* What the handlers of an established session answer, and what they make  *)
(* of the sessions of the streams.                                         *)

Kept == {o \in Established : o.ids = channel_session_id}

Sent(o, type, chan) ==
    \E i \in 1..Len(o.out) : o.out[i].type = type /\ o.out[i].chan = chan

(* The answer, or the end of the connection. *)
Replied(type, chan) == {o \in Kept : Ends(o) \/ Sent(o, type, chan)}

(* Only the stream that m starts or stops gets another session. *)
Sessions(m) ==
    {o \in Outcome : \A c \in Channels :
        \/ o.ids[c] = channel_session_id[c]
        \/ m.type = "MediaStopRequest" /\ c = m.chan /\ o.ids[c] = 0
        \/ m.type = "MediaStartRequest" /\ c = m.chan /\ o.ids[c] = m.n}

LEMMA UnchangedKept ==
    ASSUME Types, iaap_state # "STOPPED"
    PROVE  Unchanged \in Kept
  <1>1. Unchanged.ids = channel_session_id
    BY DEF Unchanged
  <1> QED BY <1>1, UnchangedOutcome DEF Kept

LEMMA FailedKept ==
    ASSUME NEW o \in Kept
    PROVE  Failed(o) \in Kept /\ Ends(Failed(o))
  <1>1. o \in Established /\ o \in Outcome /\ o.ids = channel_session_id
    BY DEF Kept, Established, Honest
  <1>2. Failed(o) \in Established
    BY <1>1, MayFailOutcomes DEF MayFail
  <1> QED BY <1>1, <1>2, FailedOutcome DEF Kept, Ends

LEMMA SendEncodedKept ==
    ASSUME NEW o \in Kept, NEW msg \in MsgType, msg.type \notin Hello,
           NEW r \in SendEncoded(o, msg)
    PROVE  /\ r \in Kept
           /\ Ends(r) \/ r.out = Append(o.out, msg)
           /\ o.stop = TRUE => r.stop = TRUE
  <1>1. o \in Established /\ o \in Outcome /\ o.ids = channel_session_id
    BY DEF Kept, Established, Honest
  <1>2. r \in Established
    BY <1>1, SendEncodedOutcomes
  <1>3. CASE r = [o EXCEPT !.ret = 0, !.out = Append(o.out, msg)]
    <2>1. r.ids = o.ids /\ r.out = Append(o.out, msg) /\ r.stop = o.stop
      BY <1>1, <1>3, Zenon DEF Outcome
    <2> QED BY <1>1, <1>2, <2>1 DEF Kept
  <1> DEFINE lost == [o EXCEPT !.ret = 0, !.stop = TRUE, !.cause = TRUE]
  <1>4. lost \in Outcome /\ lost.ids = o.ids /\ lost.stop = TRUE
    BY <1>1, FieldTypes, Zenon DEF Outcome
  <1>5. SendEncoded(o, msg) =
          {[o EXCEPT !.ret = 0, !.out = Append(o.out, msg)], lost, Failed(lost)}
    BY DEF SendEncoded
  <1> HIDE DEF lost
  <1>6. CASE r = lost
    BY <1>1, <1>2, <1>4, <1>6 DEF Kept, Ends
  <1>7. CASE r = Failed(lost)
    BY <1>1, <1>2, <1>4, <1>7, FailedOutcome DEF Kept, Ends
  <1> QED BY <1>3, <1>5, <1>6, <1>7

LEMMA AnswerReplied ==
    ASSUME Types, iaap_state # "STOPPED", NEW m \in MsgType,
           NEW type \in Replies \ Hello
    PROVE  Answer(m, type) \subseteq Replied(type, m.chan)
  <1> DEFINE msg == Msg(type, m.chan, m.n)
  <1>1. msg \in MsgType /\ msg.type = type /\ msg.chan = m.chan
    <2>1. type \in Names
      BY DEF Names
    <2> QED BY <2>1, SMT DEF Msg, MsgType
  <1>2. Answer(m, type) = SendEncoded(Unchanged, msg)
    BY DEF Answer
  <1> HIDE DEF msg
  <1>3. Unchanged \in Kept /\ Unchanged.out = <<>>
    BY UnchangedKept DEF Unchanged
  <1> SUFFICES ASSUME NEW r \in SendEncoded(Unchanged, msg)
               PROVE  r \in Replied(type, m.chan)
    BY <1>2
  <1>4. r \in Kept /\ (Ends(r) \/ r.out = Append(<<>>, msg))
    BY <1>1, <1>3, SendEncodedKept
  <1>5. r.out = Append(<<>>, msg) => 1 \in 1..Len(r.out) /\ r.out[1] = msg
    BY SMT
  <1> QED BY <1>1, <1>4, <1>5, Zenon DEF Replied, Sent

LEMMA HandlersReply ==
    ASSUME Types, iaap_state # "STOPPED", NEW m \in MsgType
    PROVE  /\ handle_ServiceDiscoveryRequest(m)
                \subseteq Replied("ServiceDiscoveryResponse", m.chan)
           /\ handle_PingRequest(m) \subseteq Replied("PingResponse", m.chan)
           /\ handle_NavigationFocusRequest(m)
                \subseteq Replied("NavigationFocusResponse", m.chan)
           /\ handle_SensorStartRequest(m) \subseteq Replied("SensorStartResponse", m.chan)
           /\ handle_BindingRequest(m) \subseteq Replied("BindingResponse", m.chan)
           /\ handle_MediaSetupRequest(m) \subseteq Replied("MediaSetupResponse", m.chan)
           /\ handle_BluetoothPairingRequest(m)
                \subseteq Replied("BluetoothPairingResponse", m.chan)
  <1>1. Failed(Unchanged) \in Kept /\ Ends(Failed(Unchanged))
    BY UnchangedKept, FailedKept
  <1>2. Failed(Unchanged) \in Replied("BluetoothPairingResponse", m.chan)
    BY <1>1 DEF Replied
  <1>3. /\ Answer(m, "ServiceDiscoveryResponse")
             \subseteq Replied("ServiceDiscoveryResponse", m.chan)
        /\ Answer(m, "PingResponse") \subseteq Replied("PingResponse", m.chan)
        /\ Answer(m, "NavigationFocusResponse")
             \subseteq Replied("NavigationFocusResponse", m.chan)
        /\ Answer(m, "SensorStartResponse") \subseteq Replied("SensorStartResponse", m.chan)
        /\ Answer(m, "BindingResponse") \subseteq Replied("BindingResponse", m.chan)
        /\ Answer(m, "MediaSetupResponse") \subseteq Replied("MediaSetupResponse", m.chan)
        /\ Answer(m, "BluetoothPairingResponse")
             \subseteq Replied("BluetoothPairingResponse", m.chan)
    BY AnswerReplied, SMT DEF Replies, Hello
  <1> QED BY <1>2, <1>3
      DEF handle_ServiceDiscoveryRequest, handle_PingRequest,
          handle_NavigationFocusRequest, handle_SensorStartRequest,
          handle_BindingRequest, handle_MediaSetupRequest,
          handle_BluetoothPairingRequest

(* The session ends with the shutdown response. *)
LEMMA ShutdownReplies ==
    ASSUME Types, iaap_state # "STOPPED", NEW m \in MsgType
    PROVE  handle_ShutdownRequest(m) \subseteq Replied("ShutdownResponse", m.chan)
  <1> SUFFICES ASSUME NEW o \in Answer(m, "ShutdownResponse"), NEW r,
                      r = [Failed(o) EXCEPT !.stop = TRUE]
               PROVE  r \in Replied("ShutdownResponse", m.chan)
    BY DEF handle_ShutdownRequest
  <1>1. o \in Kept
    BY AnswerReplied, SMT DEF Replies, Hello, Replied
  <1>f. PICK f : f = Failed(o)
    OBVIOUS
  <1>2. f \in Kept
    BY <1>1, <1>f, FailedKept
  <1>3. f \in Outcome /\ f.ids = channel_session_id
    BY <1>2 DEF Kept, Established, Honest
  <1>4. r.ids = f.ids /\ r.stop = TRUE
    BY <1>3, <1>f, Zenon DEF Outcome
  <1>5. r \in Established
    BY ShutdownHandler DEF handle_ShutdownRequest
  <1> QED BY <1>3, <1>4, <1>5 DEF Replied, Kept, Ends

(* The event of the sensor channel comes after the response. *)
LEMMA ChannelOpenReplies ==
    ASSUME Types, iaap_state # "STOPPED", NEW m \in MsgType
    PROVE  handle_ChannelOpenRequest(m) \subseteq Replied("ChannelOpenResponse", m.chan)
  <1> DEFINE event == Msg("SensorEvent", "Sensor", 0)
  <1>1. event \in MsgType /\ event.type \notin Hello
    <2>1. "Sensor" \in Channels
      BY DEF Channels, FixedChannels
    <2>2. "SensorEvent" \in Names
      BY DEF Names, Replies
    <2> QED BY <2>1, <2>2, SMT DEF Msg, MsgType, Hello
  <1> HIDE DEF event
  <1>2. Answer(m, "ChannelOpenResponse") \subseteq Replied("ChannelOpenResponse", m.chan)
    BY AnswerReplied, SMT DEF Replies, Hello
  <1>3. ASSUME NEW o \in Replied("ChannelOpenResponse", m.chan), o.ret = 0,
               NEW r \in SendEncoded(o, event)
        PROVE  r \in Replied("ChannelOpenResponse", m.chan)
    <2>1. o \in Kept /\ (Ends(o) \/ Sent(o, "ChannelOpenResponse", m.chan))
      BY DEF Replied
    <2>2. r \in Kept /\ (Ends(r) \/ r.out = Append(o.out, event))
          /\ (o.stop = TRUE => r.stop = TRUE)
      BY <1>1, <2>1, SendEncodedKept
    <2>3. CASE Ends(o)
      <3>1. o.stop = TRUE
        BY <1>3, <2>3, SMT DEF Ends
      <3> QED BY <2>2, <3>1 DEF Ends, Replied
    <2>4. CASE Sent(o, "ChannelOpenResponse", m.chan) /\ r.out = Append(o.out, event)
      <3>1. PICK i \in 1..Len(o.out) :
               o.out[i].type = "ChannelOpenResponse" /\ o.out[i].chan = m.chan
        BY <2>4, Zenon DEF Sent
      <3>2. o.out \in Seq(MsgType)
        BY <2>1, Zenon DEF Kept, Established, Honest, Outcome, Outs
      <3>3. i \in 1..Len(r.out) /\ r.out[i] = o.out[i]
        BY <1>1, <2>4, <3>1, <3>2, SMT
      <3>4. r.out[i].type = "ChannelOpenResponse" /\ r.out[i].chan = m.chan
        BY <3>1, <3>3
      <3> QED BY <2>2, <3>3, <3>4, Zenon DEF Replied, Sent
    <2> QED BY <2>1, <2>2, <2>3, <2>4 DEF Replied
  <1>4. \A o \in Answer(m, "ChannelOpenResponse") :
            (IF o.ret # 0 \/ m.chan # "Sensor" THEN {o} ELSE SendEncoded(o, event))
                \subseteq Replied("ChannelOpenResponse", m.chan)
    BY <1>2, <1>3, Zenon
  <1> QED BY <1>4, Zenon DEF handle_ChannelOpenRequest, event

LEMMA MediaDataReplies ==
    ASSUME Types, iaap_state # "STOPPED", NEW m \in MsgType
    PROVE  /\ handle_MediaData(m) \subseteq Replied("MediaAck", m.chan)
           /\ handle_MediaDataWithTimestamp(m) \subseteq Replied("MediaAck", m.chan)
  <1> DEFINE msg == Msg("MediaAck", m.chan, channel_session_id[m.chan])
  <1>1. msg \in MsgType /\ msg.type = "MediaAck" /\ msg.chan = m.chan
        /\ msg.type \notin Hello
    <2>1. "MediaAck" \in Names
      BY DEF Names, Replies
    <2>2. m.chan \in Channels /\ channel_session_id[m.chan] \in Nat
      BY SMT DEF MsgType, Types, IdsType
    <2> QED BY <2>1, <2>2, SMT DEF Msg, MsgType, Hello
  <1> HIDE DEF msg
  <1>2. Unchanged \in Kept /\ Unchanged.out = <<>>
    BY UnchangedKept DEF Unchanged
  <1>3. ASSUME NEW r \in SendEncoded(Unchanged, msg)
        PROVE  r \in Replied("MediaAck", m.chan)
    <2>1. r \in Kept /\ (Ends(r) \/ r.out = Append(<<>>, msg))
      BY <1>1, <1>2, SendEncodedKept
    <2>2. r.out = Append(<<>>, msg) => 1 \in 1..Len(r.out) /\ r.out[1] = msg
      BY SMT
    <2> QED BY <1>1, <2>1, <2>2, Zenon DEF Replied, Sent
  <1>4. Failed(Unchanged) \in Replied("MediaAck", m.chan)
    BY <1>2, FailedKept DEF Replied
  <1> QED BY <1>3, <1>4 DEF handle_MediaData, handle_MediaDataWithTimestamp, msg

(* A message that asks for an answer, on a channel whose handler knows it. *)
Routed(m) ==
    /\ m.type \in HandshakeTypes => m.chan = "Control"
    /\ m.type = "SensorStartRequest" => m.chan = "Sensor"
    /\ m.type = "BindingRequest" => m.chan = "Touch"
    /\ m.type = "BluetoothPairingRequest" => m.chan = "Bluetooth"
    /\ m.type = "MediaSetupRequest" => m.chan \in MediaChannels

Questions == DOMAIN Answers \ HandshakeTypes

LEMMA AnswerTypes ==
    /\ Answers["VersionResponse"] = "ClientHello"
    /\ Answers["ServerHello"] = "ClientFinished"
    /\ Answers["PartOfServerHello"] = "ClientFinished"
    /\ Answers["ServerFinished"] = "AuthComplete"
    /\ Answers["PartOfServerFinished"] = "AuthComplete"
    /\ Answers["ServiceDiscoveryRequest"] = "ServiceDiscoveryResponse"
    /\ Answers["ChannelOpenRequest"] = "ChannelOpenResponse"
    /\ Answers["MediaSetupRequest"] = "MediaSetupResponse"
    /\ Answers["MediaData"] = "MediaAck"
    /\ Answers["MediaDataWithTimestamp"] = "MediaAck"
    /\ Answers["PingRequest"] = "PingResponse"
    /\ Answers["NavigationFocusRequest"] = "NavigationFocusResponse"
    /\ Answers["SensorStartRequest"] = "SensorStartResponse"
    /\ Answers["BindingRequest"] = "BindingResponse"
    /\ Answers["BluetoothPairingRequest"] = "BluetoothPairingResponse"
    /\ Answers["ShutdownRequest"] = "ShutdownResponse"
  BY DEF Answers

(* Every question gets its answer, or ends the connection. *)
LEMMA DispatchReplies ==
    ASSUME Types, iaap_state # "STOPPED",
           NEW m \in MsgType, Routed(m), m.type \in Questions,
           NEW o \in Dispatch(m)
    PROVE  Ends(o) \/ Sent(o, Answers[m.type], m.chan)
  <1>1. m.chan \in {"Sensor", "Touch", "Bluetooth", "PhoneStatus", "Notification",
                    "Navigation"} => m.chan \notin MediaChannels
    BY ChannelsAssumption DEF ChannelsAssumption, FixedChannels
  <1>2. CASE m.type \in ControlTypes
    <2>1. Dispatch(m) = DispatchControl(m)
      BY <1>2 DEF Dispatch
    <2>2. o \in Replied(Answers[m.type], m.chan)
      <3>1. CASE m.type \in {"MediaDataWithTimestamp", "MediaData"}
        <4>1. Answers[m.type] = "MediaAck"
          BY <3>1, AnswerTypes
        <4>2. o \in handle_MediaDataWithTimestamp(m) \/ o \in handle_MediaData(m)
          BY <2>1, <3>1, SMT DEF DispatchControl
        <4> QED BY <4>1, <4>2, MediaDataReplies
      <3>2. CASE m.type = "ServiceDiscoveryRequest"
        <4>1. Answers[m.type] = "ServiceDiscoveryResponse"
          BY <3>2, AnswerTypes
        <4>2. o \in handle_ServiceDiscoveryRequest(m)
          BY <2>1, <3>2, SMT DEF DispatchControl
        <4> QED BY <4>1, <4>2, HandlersReply
      <3>3. CASE m.type = "ChannelOpenRequest"
        <4>1. Answers[m.type] = "ChannelOpenResponse"
          BY <3>3, AnswerTypes
        <4>2. o \in handle_ChannelOpenRequest(m)
          BY <2>1, <3>3, SMT DEF DispatchControl
        <4> QED BY <4>1, <4>2, ChannelOpenReplies
      <3>4. CASE m.type = "PingRequest"
        <4>1. Answers[m.type] = "PingResponse"
          BY <3>4, AnswerTypes
        <4>2. o \in handle_PingRequest(m)
          BY <2>1, <3>4, SMT DEF DispatchControl
        <4> QED BY <4>1, <4>2, HandlersReply
      <3>5. CASE m.type = "NavigationFocusRequest"
        <4>1. Answers[m.type] = "NavigationFocusResponse"
          BY <3>5, AnswerTypes
        <4>2. o \in handle_NavigationFocusRequest(m)
          BY <2>1, <3>5, SMT DEF DispatchControl
        <4> QED BY <4>1, <4>2, HandlersReply
      <3>6. CASE m.type = "ShutdownRequest"
        <4>1. Answers[m.type] = "ShutdownResponse"
          BY <3>6, AnswerTypes
        <4>2. o \in handle_ShutdownRequest(m)
          BY <2>1, <3>6, SMT DEF DispatchControl
        <4> QED BY <4>1, <4>2, ShutdownReplies
      <3>7. m.type \notin {"VoiceSessionRequest", "AudioFocusRequest"}
        BY SMT DEF Questions, Answers
      <3> QED BY <1>2, <3>1, <3>2, <3>3, <3>4, <3>5, <3>6, <3>7 DEF ControlTypes
    <2> QED BY <2>2 DEF Replied
  <1>3. CASE m.type \notin ControlTypes
    <2>1. o \in DispatchChannel(m)
      BY <1>3 DEF Dispatch
    <2>2. o \in Replied(Answers[m.type], m.chan)
      <3>1. CASE m.type = "SensorStartRequest"
        <4>1. Answers[m.type] = "SensorStartResponse"
          BY <3>1, AnswerTypes
        <4>2. m.chan = "Sensor"
          BY <3>1 DEF Routed
        <4>3. o \in handle_SensorStartRequest(m)
          BY <1>1, <2>1, <3>1, <4>2, SMT DEF DispatchChannel
        <4> QED BY <4>1, <4>3, HandlersReply
      <3>2. CASE m.type = "BindingRequest"
        <4>1. Answers[m.type] = "BindingResponse"
          BY <3>2, AnswerTypes
        <4>2. m.chan = "Touch"
          BY <3>2 DEF Routed
        <4>3. o \in handle_BindingRequest(m)
          BY <1>1, <2>1, <3>2, <4>2, SMT DEF DispatchChannel
        <4> QED BY <4>1, <4>3, HandlersReply
      <3>3. CASE m.type = "BluetoothPairingRequest"
        <4>1. Answers[m.type] = "BluetoothPairingResponse"
          BY <3>3, AnswerTypes
        <4>2. m.chan = "Bluetooth"
          BY <3>3 DEF Routed
        <4>3. o \in handle_BluetoothPairingRequest(m)
          BY <1>1, <2>1, <3>3, <4>2, SMT DEF DispatchChannel
        <4> QED BY <4>1, <4>3, HandlersReply
      <3>4. CASE m.type = "MediaSetupRequest"
        <4>1. Answers[m.type] = "MediaSetupResponse"
          BY <3>4, AnswerTypes
        <4>2. m.chan \in MediaChannels
          BY <3>4 DEF Routed
        <4>3. o \in DispatchMedia(m)
          BY <1>1, <2>1, <3>4, <4>2, SMT DEF DispatchChannel
        <4>4. o \in handle_MediaSetupRequest(m)
          BY <3>4, <4>3, SMT DEF DispatchMedia
        <4> QED BY <4>1, <4>4, HandlersReply
      <3>5. m.type \in {"SensorStartRequest", "BindingRequest", "BluetoothPairingRequest",
                        "MediaSetupRequest"}
        BY <1>3, SMT DEF Questions, Answers, ControlTypes, HandshakeTypes
      <3> QED BY <3>1, <3>2, <3>3, <3>4, <3>5
    <2> QED BY <2>2 DEF Replied
  <1> QED BY <1>2, <1>3

LEMMA ProcessReplies ==
    ASSUME Types, NEW m \in MsgType, Routed(m), m.type \in DOMAIN Answers \ Filtered,
           \/ /\ iaap_state = "STARTIN" /\ m.type \in HandshakeTypes
              /\ m.type = "VersionResponse" \/ ssl.wants # "nothing"
           \/ iaap_state = "STARTED" /\ m.type \notin HandshakeTypes,
           NEW o \in processMessage(m)
    PROVE  Ends(o) \/ Sent(o, Answers[m.type], m.chan)
  <1>1. CASE /\ iaap_state = "STARTIN" /\ m.type \in HandshakeTypes
             /\ m.type = "VersionResponse" \/ ssl.wants # "nothing"
    <2>1. m.chan = "Control"
      BY <1>1 DEF Routed
    <2>2. ASSUME NEW type, NEW n, o.out = <<Msg(type, "Control", n)>>
          PROVE  Sent(o, type, m.chan)
      <3>1. 1 \in 1..Len(o.out) /\ o.out[1] = Msg(type, "Control", n)
        BY <2>2, SMT
      <3>2. o.out[1].type = type /\ o.out[1].chan = m.chan
        BY <2>1, <3>1, SMT DEF Msg
      <3> QED BY <3>1, <3>2, Zenon DEF Sent
    <2>3. \/ Ends(o)
          \/ m.type = "VersionResponse" /\ Sent(o, "ClientHello", m.chan)
          \/ m.type = "ServerHello" /\ Sent(o, "ClientFinished", m.chan)
          \/ m.type = "ServerFinished" /\ Sent(o, "AuthComplete", m.chan)
      <3>1. Finishes(m) /\ m.type \in HandshakeTypes \ {"VersionResponse"}
               => m.type = "ServerFinished"
        BY <1>1, SMT DEF Finishes
      <3> QED BY <1>1, <2>2, <3>1, StartinOutcomes
    <2> QED BY <2>3, AnswerTypes
  <1>2. CASE iaap_state = "STARTED" /\ m.type \notin HandshakeTypes
    <2>1. iaap_state # "STOPPED" /\ iaap_state # "STARTIN" /\ m.type \in Questions
      BY <1>2 DEF Questions
    <2>2. CASE o \in MessageFilter(m)
      <3>1. o = Failed(Unchanged)
        BY <2>2 DEF MessageFilter
      <3> QED BY <2>1, <3>1, FailedUnchanged DEF Ends
    <2>3. CASE o \in Dispatch(m)
      BY <2>1, <2>3, DispatchReplies
    <2> QED BY <2>1, <2>2, <2>3 DEF processMessage
  <1> QED BY <1>1, <1>2

-----------------------------------------------------------------------------
(* Whatever the message, a stream keeps its session, loses it, or gets     *)
(* that of the message; m_ssl stays, or is made anew.                      *)
LEMMA StreamSessions ==
    ASSUME Types, iaap_state # "STOPPED", NEW m \in MsgType
    PROVE  /\ m.type = "MediaStartRequest" => handle_MediaStartRequest(m) \subseteq Sessions(m)
           /\ m.type = "MediaStopRequest" => handle_MediaStopRequest(m) \subseteq Sessions(m)
  <1>1. Unchanged \in Outcome /\ Unchanged.ids = channel_session_id
    BY UnchangedOutcome DEF Established, Honest, Unchanged
  <1>2. /\ m.chan \in Channels /\ m.n \in Nat /\ 0 \in Nat
        /\ channel_session_id \in [Channels -> Nat]
    BY SMT DEF MsgType, Types, IdsType
  <1>3. ASSUME NEW n \in Nat, NEW o, o = [Unchanged EXCEPT !.ids[m.chan] = n],
               \/ m.type = "MediaStopRequest" /\ n = 0
               \/ m.type = "MediaStartRequest" /\ n = m.n
        PROVE  MayFail(o) \subseteq Sessions(m)
    <2> DEFINE ids == [channel_session_id EXCEPT ![m.chan] = n]
    <2>1. ids \in IdsType
      BY <1>2, SMT DEF IdsType
    <2>2. \A c \in Channels : ids[c] = IF c = m.chan THEN n ELSE channel_session_id[c]
      BY <1>2, SMT
    <2>3. o = [Unchanged EXCEPT !.ids = ids]
      BY <1>1, <1>3
    <2> HIDE DEF ids
    <2>4. o \in Outcome /\ o.ids = ids
      BY <1>1, <2>1, <2>3, Zenon DEF Outcome
    <2>5. Failed(o) \in Outcome /\ Failed(o).ids = ids
      BY <2>4, FailedOutcome DEF Honest
    <2> QED BY <1>3, <2>2, <2>4, <2>5 DEF MayFail, Sessions
  <1> QED BY <1>2, <1>3 DEF handle_MediaStartRequest, handle_MediaStopRequest

LEMMA KeptSessions ==
    ASSUME NEW m \in MsgType
    PROVE  /\ Kept \subseteq Sessions(m)
           /\ \A type, chan : Replied(type, chan) \subseteq Sessions(m)
  BY DEF Kept, Replied, Sessions, Established, Honest

LEMMA CallbackSessions ==
    ASSUME Types, iaap_state # "STOPPED", NEW m \in MsgType
    PROVE  /\ MayFail(Unchanged) \subseteq Sessions(m)
           /\ {Unchanged} \subseteq Sessions(m)
           /\ DispatchNavigation(m) \subseteq Sessions(m)
  <1>1. Unchanged \in Kept /\ Failed(Unchanged) \in Kept
    BY UnchangedKept, FailedKept
  <1>2. MayFail(Unchanged) \subseteq Kept
    BY <1>1 DEF MayFail
  <1>3. ASSUME NEW o \in MayFail(Unchanged), NEW r,
               r = [o EXCEPT !.ret = 0, !.cause = FALSE]
        PROVE  r \in Sessions(m)
    <2>1. o \in Outcome /\ o \in Sessions(m)
      BY <1>2, KeptSessions DEF Kept, Established, Honest
    <2>2. r \in Outcome /\ r.ids = o.ids
      BY <1>3, <2>1, FieldTypes, Zenon DEF Outcome
    <2> QED BY <2>1, <2>2 DEF Sessions
  <1> DEFINE outcomes == CASE m.type = "NaviStatus"       -> handle_NaviStatus(m)
                           [] m.type = "NaviTurn"         -> handle_NaviTurn(m)
                           [] m.type = "NaviTurnDistance" -> handle_NaviTurnDistance(m)
                           [] OTHER -> {Unchanged}
  <1>4. outcomes \subseteq MayFail(Unchanged)
    BY DEF handle_NaviStatus, handle_NaviTurn, handle_NaviTurnDistance, MayFail
  <1>5. DispatchNavigation(m) = {[o EXCEPT !.ret = 0, !.cause = FALSE] : o \in outcomes}
    BY DEF DispatchNavigation
  <1> HIDE DEF outcomes
  <1>6. DispatchNavigation(m) \subseteq Sessions(m)
    BY <1>3, <1>4, <1>5
  <1> QED BY <1>1, <1>2, <1>6, KeptSessions

LEMMA DispatchSessions ==
    ASSUME Types, iaap_state # "STOPPED", NEW m \in MsgType
    PROVE  Dispatch(m) \subseteq Sessions(m)
  <1>1. DispatchControl(m) \subseteq Sessions(m)
    <2>1. /\ handle_VoiceSessionRequest(m) \subseteq Sessions(m)
          /\ handle_AudioFocusRequest(m) \subseteq Sessions(m)
      BY CallbackSessions DEF handle_VoiceSessionRequest, handle_AudioFocusRequest
    <2>2. /\ handle_MediaDataWithTimestamp(m) \subseteq Sessions(m)
          /\ handle_MediaData(m) \subseteq Sessions(m)
      BY MediaDataReplies, KeptSessions
    <2>3. /\ handle_ServiceDiscoveryRequest(m) \subseteq Sessions(m)
          /\ handle_PingRequest(m) \subseteq Sessions(m)
          /\ handle_NavigationFocusRequest(m) \subseteq Sessions(m)
      BY HandlersReply, KeptSessions
    <2>4. /\ handle_ChannelOpenRequest(m) \subseteq Sessions(m)
          /\ handle_ShutdownRequest(m) \subseteq Sessions(m)
      BY ChannelOpenReplies, ShutdownReplies, KeptSessions
    <2> QED BY <2>1, <2>2, <2>3, <2>4, CallbackSessions, Zenon DEF DispatchControl
  <1>2. DispatchMedia(m) \subseteq Sessions(m)
    <2>1. handle_MediaSetupRequest(m) \subseteq Sessions(m)
      BY HandlersReply, KeptSessions
    <2>2. /\ handle_MediaAck(m) \subseteq Sessions(m)
          /\ handle_MicRequest(m) \subseteq Sessions(m)
          /\ handle_VideoFocusRequest(m) \subseteq Sessions(m)
      BY CallbackSessions DEF handle_MediaAck, handle_MicRequest, handle_VideoFocusRequest
    <2> QED BY <2>1, <2>2, CallbackSessions, StreamSessions, Zenon DEF DispatchMedia
  <1>3. DispatchChannel(m) \subseteq Sessions(m)
    <2>1. /\ handle_SensorStartRequest(m) \subseteq Sessions(m)
          /\ handle_BindingRequest(m) \subseteq Sessions(m)
          /\ handle_BluetoothPairingRequest(m) \subseteq Sessions(m)
      BY HandlersReply, KeptSessions
    <2>2. /\ handle_BluetoothAuthData(m) \subseteq Sessions(m)
          /\ handle_PhoneStatus(m) \subseteq Sessions(m)
          /\ handle_StartGenericNotifications(m) \subseteq Sessions(m)
          /\ handle_StopGenericNotifications(m) \subseteq Sessions(m)
          /\ handle_GenericNotificationResponse(m) \subseteq Sessions(m)
      BY CallbackSessions
      DEF handle_BluetoothAuthData, handle_PhoneStatus, handle_StartGenericNotifications,
          handle_StopGenericNotifications, handle_GenericNotificationResponse
    <2> QED BY <1>2, <2>1, <2>2, CallbackSessions, Zenon DEF DispatchChannel
  <1> QED BY <1>1, <1>3 DEF Dispatch

LEMMA ProcessSessions ==
    ASSUME Types, iaap_state # "STOPPED", NEW m \in MsgType, NEW o \in processMessage(m)
    PROVE  /\ o \in Sessions(m)
           /\ o.ssl.attempt \in {ssl.attempt, connections}
  <1>1. CASE iaap_state = "STARTIN"
    BY <1>1, StartinOutcomes DEF Sessions, Honest
  <1>2. CASE iaap_state # "STARTIN"
    <2>1. iaap_state = "STARTED"
      BY <1>2 DEF Types
    <2>2. o \in Established
      BY <2>1, StartedOutcomes
    <2>3. MessageFilter(m) \subseteq Sessions(m)
      <3>1. MessageFilter(m) \subseteq MayFail(Unchanged)
        BY DEF MessageFilter, MayFail
      <3> QED BY <3>1, CallbackSessions
    <2>4. o \in Sessions(m)
      BY <1>2, <2>3, DispatchSessions DEF processMessage
    <2> QED BY <2>2, <2>4 DEF Established
  <1> QED BY <1>1, <1>2

-----------------------------------------------------------------------------
(* A step of HUServer, and a message of the phone after the handshake.     *)
Question(m) == Msg(Answers[m.type], m.chan, m.n)

Speaks(m, next) ==
    /\ m \in MsgType /\ next \in PhoneType
    /\ Sends(m, next)
    /\ m.type \notin HandshakeTypes
    /\ \/ Routed(m)
       \/ \E other \in OtherMessages : m.type = other.type /\ m.chan = other.chan
    /\ m.type = "MediaStartRequest" => m.n <= streams'
    /\ phone.step = 5 /\ next.step = 5
    /\ next.waiting = phone.waiting
    /\ UNCHANGED connections
    /\ streams' \in {streams, streams + 1}

LEMMA AsksSpeaks ==
    ASSUME SessionInv, NEW chan \in Channels, PhoneAsks(chan)
    PROVE  \E m, next : Speaks(m, next)
  <1>1. /\ phone.step = 5 /\ phone \in PhoneType
        /\ UNCHANGED <<streams, connections>>
    BY DEF PhoneAsks, SessionInv, Types, counters
  <1>2. PICK type \in {"ServiceDiscoveryRequest", "ChannelOpenRequest", "MediaSetupRequest"} :
          /\ Sends(Msg(type, chan, 0), phone)
          /\ type = "MediaSetupRequest" => chan \in MediaChannels
    BY SMT DEF PhoneAsks
  <1> DEFINE m == Msg(type, chan, 0)
  <1>3. m \in MsgType /\ m.type = type /\ m.chan = chan /\ m.type \notin HandshakeTypes
    <2>1. type \in Requests
      BY DEF Requests
    <2> QED BY <2>1, MessageTypes, SMT DEF Msg
  <1> HIDE DEF m
  <1>4. Routed(m) /\ m.type # "MediaStartRequest"
    BY <1>2, <1>3, SMT DEF Routed
  <1>5. Sends(m, phone)
    BY <1>2 DEF m
  <1> QED BY <1>1, <1>3, <1>4, <1>5 DEF Speaks

LEMMA StartsSpeaks ==
    ASSUME SessionInv, NEW chan \in MediaChannels, PhoneStarts(chan)
    PROVE  \E m, next : Speaks(m, next)
  <1>1. chan \in Channels /\ phone \in PhoneType
        /\ phone.progress \in Progress /\ phone.session \in IdsType
        /\ streams' \in Nat /\ streams' = streams + 1 /\ connections' = connections
    BY SMT DEF Channels, SessionInv, Types, PhoneType, PhoneStarts
  <1> DEFINE progress == [phone.progress EXCEPT ![chan] = "started"]
             session  == [phone.session EXCEPT ![chan] = streams']
             next     == [phone EXCEPT !.progress = progress, !.session = session]
             m        == Msg("MediaStartRequest", chan, streams')
  <1>2. progress \in Progress /\ session \in IdsType
    BY <1>1, SMT DEF Progress, IdsType
  <1>3. Sends(m, next)
    BY DEF PhoneStarts
  <1> HIDE DEF progress, session
  <1>4. next \in PhoneType /\ next.step = phone.step /\ next.waiting = phone.waiting
    BY <1>1, <1>2, Zenon DEF PhoneType
  <1>5. m \in MsgType /\ m.type = "MediaStartRequest" /\ m.n = streams'
        /\ m.type \notin HandshakeTypes
    <2>1. "MediaStartRequest" \in Requests
      BY DEF Requests
    <2> QED BY <1>1, <2>1, MessageTypes, SMT DEF Msg
  <1> HIDE DEF next, m
  <1>6. Routed(m) /\ m.n <= streams'
    BY <1>1, <1>5, SMT DEF Routed
  <1>7. iaap_state = "STARTED"
    BY <1>1, <1>3 DEF SessionInv, Handshake, PhoneStarts, Types, Sends
  <1>8. phone.step = 5
    BY <1>7 DEF SessionInv
  <1> QED BY <1>1, <1>3, <1>4, <1>5, <1>6, <1>8 DEF Speaks

LEMMA StreamsSpeaks ==
    ASSUME SessionInv, NEW chan \in MediaChannels,
           NEW type \in {"MediaData", "MediaDataWithTimestamp"}, PhoneStreams(chan, type)
    PROVE  \E m, next : Speaks(m, next)
  <1>1. /\ chan \in Channels /\ type \in Requests
        /\ phone \in PhoneType /\ phone.session[chan] \in Nat
        /\ UNCHANGED <<streams, connections>>
    BY SMT DEF Channels, Requests, SessionInv, Types, PhoneType, IdsType, PhoneStreams, counters
  <1> DEFINE m == Msg(type, chan, phone.session[chan])
  <1>2. Sends(m, phone)
    BY DEF PhoneStreams
  <1>3. m \in MsgType /\ m.type = type /\ m.type \notin HandshakeTypes
    BY <1>1, MessageTypes, SMT DEF Msg
  <1> HIDE DEF m
  <1>4. Routed(m) /\ m.type # "MediaStartRequest"
    BY <1>3, SMT DEF Routed
  <1>5. iaap_state = "STARTED"
    BY <1>1, <1>2 DEF SessionInv, Handshake, PhoneStreams, Types, Sends
  <1>6. phone.step = 5
    BY <1>5 DEF SessionInv
  <1> QED BY <1>1, <1>2, <1>3, <1>4, <1>6 DEF Speaks

LEMMA StopsSpeaks ==
    ASSUME SessionInv, NEW chan \in MediaChannels, PhoneStops(chan)
    PROVE  \E m, next : Speaks(m, next)
  <1>1. /\ chan \in Channels /\ phone \in PhoneType /\ phone.progress \in Progress
        /\ UNCHANGED <<streams, connections>>
    BY SMT DEF Channels, SessionInv, Types, PhoneType, PhoneStops, counters
  <1> DEFINE progress == [phone.progress EXCEPT ![chan] = "setup"]
             next     == [phone EXCEPT !.progress = progress]
             m        == Msg("MediaStopRequest", chan, 0)
  <1>2. progress \in Progress
    BY <1>1, SMT DEF Progress
  <1>3. Sends(m, next)
    BY DEF PhoneStops
  <1> HIDE DEF progress
  <1>4. next \in PhoneType /\ next.step = phone.step /\ next.waiting = phone.waiting
    BY <1>1, <1>2, Zenon DEF PhoneType
  <1>5. m \in MsgType /\ m.type = "MediaStopRequest" /\ m.type \notin HandshakeTypes
    <2>1. "MediaStopRequest" \in Requests
      BY DEF Requests
    <2> QED BY <1>1, <2>1, MessageTypes, SMT DEF Msg
  <1> HIDE DEF next, m
  <1>6. Routed(m) /\ m.type # "MediaStartRequest"
    BY <1>5, SMT DEF Routed
  <1>7. iaap_state = "STARTED"
    BY <1>1, <1>3 DEF SessionInv, Handshake, PhoneStops, Types, Sends
  <1>8. phone.step = 5
    BY <1>7 DEF SessionInv
  <1> QED BY <1>1, <1>3, <1>4, <1>5, <1>6, <1>8 DEF Speaks

LEMMA OtherSpeaks ==
    ASSUME SessionInv, NEW m \in OtherMessages, PhoneSendsOther(m)
    PROVE  \E said, next : Speaks(said, next)
  <1>1. PICK k : k = phone.others + 1
    OBVIOUS
  <1>2. /\ phone \in PhoneType /\ phone.step = 5 /\ k \in Nat
        /\ UNCHANGED <<streams, connections>>
    BY <1>1, SMT DEF PhoneSendsOther, SessionInv, Types, PhoneType, counters
  <1> DEFINE next == [phone EXCEPT !.others = k]
             said == [m EXCEPT !.n = k]
  <1>3. Sends(said, next)
    BY <1>1 DEF PhoneSendsOther
  <1>4. next \in PhoneType /\ next.step = phone.step /\ next.waiting = phone.waiting
    BY <1>2, Zenon DEF PhoneType
  <1>5. /\ said \in MsgType /\ said.type = m.type /\ said.chan = m.chan
        /\ m.type \notin HandshakeTypes /\ m.type \notin Requests
    BY <1>2, OtherMessage
  <1>6. m.type # "MediaStartRequest"
    BY <1>5 DEF Requests
  <1> HIDE DEF next, said
  <1>7. Speaks(said, next)
    BY <1>2, <1>3, <1>4, <1>5, <1>6 DEF Speaks
  <1> QED BY <1>7

LEMMA PhoneSpeaks ==
    ASSUME SessionInv, PhoneNext
    PROVE  \/ PhoneHandshake \/ PhoneStrays \/ PhoneReceives
           \/ \E m, next : Speaks(m, next)
  BY AsksSpeaks, StartsSpeaks, StreamsSpeaks, StopsSpeaks, OtherSpeaks DEF PhoneNext

-----------------------------------------------------------------------------
(* The bounds of the type invariant, and what they rest on: a session      *)
(* comes from a MediaStartRequest, a handshake from a call of start().     *)
BoundInv ==
    /\ ssl.attempt <= connections
    /\ \A c \in Channels : channel_session_id[c] <= streams
    /\ \A i \in 1..Len(inbox) :
          inbox[i].type = "MediaStartRequest" => inbox[i].n <= streams

LEMMA SpeaksEffect ==
    ASSUME Types, NEW m, NEW next, Speaks(m, next)
    PROVE  /\ iaap_state # "STOPPED"
           /\ Len(inbox') = Len(inbox) + 1 /\ inbox'[Len(inbox')] = m
           /\ \A i \in 1..Len(inbox) : inbox'[i] = inbox[i]
           /\ UNCHANGED <<iaap_state, ssl, channel_session_id, outbox, connections>>
           /\ phone'.step = 5
           /\ \A w \in phone'.waiting :
                 \/ w \in phone.waiting
                 \/ /\ m.type \in DOMAIN Answers \ Filtered
                    /\ w = Question(m)
  <1>1. /\ m \in MsgType /\ next \in PhoneType /\ Sends(m, next) /\ next.step = 5
        /\ next.waiting = phone.waiting /\ connections' = connections
    BY DEF Speaks
  <1>2. /\ iaap_state # "STOPPED"
        /\ inbox' = Append(inbox, m)
        /\ UNCHANGED <<iaap_state, ssl, channel_session_id, outbox>>
        /\ phone'.step = 5
    BY <1>1, SendsEffect
  <1>3. /\ Len(inbox') = Len(inbox) + 1 /\ inbox'[Len(inbox')] = m
        /\ \A i \in 1..Len(inbox) : inbox'[i] = inbox[i]
    BY <1>2, SMT DEF Types
  <1>4. CASE m.type \in DOMAIN Answers \ Filtered
    <2> DEFINE waiting  == phone.waiting \union {Question(m)}
    <2>1. phone' = [next EXCEPT !.waiting = waiting]
      BY <1>1, <1>4 DEF Sends, Question
    <2> HIDE DEF waiting
    <2>3. phone'.waiting = waiting
      BY <1>1, <2>1, Zenon DEF PhoneType
    <2>4. \A w \in phone'.waiting : w \in phone.waiting \/ w = Question(m)
      BY <2>3 DEF waiting
    <2> QED BY <1>1, <1>2, <1>3, <1>4, <2>4
  <1>5. CASE m.type \notin DOMAIN Answers \ Filtered
    <2>1. phone' = next
      BY <1>5, <1>1 DEF Sends
    <2> QED BY <1>1, <1>2, <1>3, <2>1
  <1> QED BY <1>4, <1>5

LEMMA BoundsKept ==
    ASSUME Valid, BoundInv, Next
    PROVE  BoundInv'
  <1>1. Types
    BY DEF Valid, SessionInv, AstrayInv
  <1>2. CASE Process
    <2>1. /\ inbox # <<>> /\ iaap_state # "STOPPED" /\ inbox[1] \in MsgType
          /\ UNCHANGED <<streams, connections>>
      BY <1>1, <1>2, ProcessCases
    <2>2. PICK o \in processMessage(inbox[1]) :
             /\ ssl' = o.ssl /\ channel_session_id' = o.ids
             /\ \/ Ended
                \/ inbox' = Tail(inbox)
      BY <1>1, <1>2, ProcessCases
    <2>3. /\ o \in Sessions(inbox[1])
          /\ o.ssl.attempt \in {ssl.attempt, connections}
      BY <1>1, <2>1, ProcessSessions
    <2>4. ssl'.attempt <= connections'
      BY <1>1, <2>1, <2>2, <2>3, SMT DEF BoundInv, Types, SslType
    <2>5. \A c \in Channels : channel_session_id'[c] <= streams'
      <3> SUFFICES ASSUME NEW c \in Channels PROVE o.ids[c] <= streams
        BY <2>1, <2>2
      <3>1. \/ o.ids[c] = channel_session_id[c] \/ o.ids[c] = 0
            \/ inbox[1].type = "MediaStartRequest" /\ o.ids[c] = inbox[1].n
        BY <2>3 DEF Sessions
      <3>2. channel_session_id[c] <= streams
        BY DEF BoundInv
      <3>3. inbox[1].type = "MediaStartRequest" => inbox[1].n <= streams
        BY <1>1, <2>1, SMT DEF BoundInv, Types
      <3>4. 0 <= streams
        BY <1>1, SMT DEF Types
      <3> QED BY <3>1, <3>2, <3>3, <3>4
    <2>6. \A i \in 1..Len(inbox') :
             inbox'[i].type = "MediaStartRequest" => inbox'[i].n <= streams'
      <3>1. CASE Ended
        BY <3>1, SMT DEF Ended
      <3>2. CASE inbox' = Tail(inbox)
        <4>1. \A i \in 1..Len(inbox') : i + 1 \in 1..Len(inbox) /\ inbox'[i] = inbox[i + 1]
          BY <1>1, <2>1, <3>2, SMT DEF Types
        <4> QED BY <2>1, <4>1 DEF BoundInv
      <3> QED BY <2>2, <3>1, <3>2
    <2> QED BY <2>4, <2>5, <2>6 DEF BoundInv
  <1>3. CASE Start
    <2>1. UNCHANGED <<ssl, channel_session_id, inbox, streams>> /\ connections' = connections + 1
      BY <1>3 DEF Start, wireVars
    <2>2. ssl'.attempt <= connections'
      BY <1>1, <2>1, SMT DEF BoundInv, Types, SslType
    <2> QED BY <2>1, <2>2 DEF BoundInv
  <1>4. CASE Interrupted
    <2>1. /\ UNCHANGED <<ssl, channel_session_id, streams, connections>> /\ inbox' = <<>>
      BY <1>4 DEF Interrupted, Ended, counters
    <2>2. Len(inbox') = 0
      BY <2>1, SMT
    <2>3. \A i \in 1..Len(inbox') :
             inbox'[i].type = "MediaStartRequest" => inbox'[i].n <= streams'
      BY <2>2, SMT
    <2> QED BY <2>1, <2>3 DEF BoundInv
  <1>5. CASE PhoneHandshake \/ PhoneStrays
    <2>1. PICK type \in HandshakeTypes :
             inbox' = Append(inbox, Msg(type, "Control", connections))
      <3>1. CASE PhoneHandshake
        BY <3>1, SMT DEF PhoneHandshake, HandshakeTypes, Sends
      <3>2. CASE PhoneStrays
        BY <3>2 DEF PhoneStrays
      <3> QED BY <1>5, <3>1, <3>2
    <2>2. UNCHANGED <<ssl, channel_session_id, streams, connections>>
      BY <1>5 DEF Sends, PhoneHandshake, PhoneStrays, huVars, counters
    <2>3. Msg(type, "Control", connections).type # "MediaStartRequest"
      BY SMT DEF Msg, HandshakeTypes
    <2>4. \A i \in 1..Len(inbox') :
             \/ i \in 1..Len(inbox) /\ inbox'[i] = inbox[i]
             \/ inbox'[i] = Msg(type, "Control", connections)
      BY <1>1, <2>1, SMT DEF Types
    <2> QED BY <2>2, <2>3, <2>4 DEF BoundInv
  <1>6. CASE PhoneReceives
    <2>1. UNCHANGED <<ssl, channel_session_id, inbox, streams, connections>>
      BY <1>6 DEF PhoneReceives, huVars, counters
    <2> QED BY <2>1 DEF BoundInv
  <1>7. ASSUME NEW m, NEW next, Speaks(m, next)
        PROVE  BoundInv'
    <2>1. /\ Len(inbox') = Len(inbox) + 1 /\ inbox'[Len(inbox')] = m
          /\ \A i \in 1..Len(inbox) : inbox'[i] = inbox[i]
          /\ UNCHANGED <<ssl, channel_session_id, connections>>
      BY <1>1, <1>7, SpeaksEffect
    <2>2. /\ m.type = "MediaStartRequest" => m.n <= streams'
          /\ streams' \in {streams, streams + 1}
      BY <1>7 DEF Speaks
    <2>3. \A i \in 1..Len(inbox') :
             inbox'[i].type = "MediaStartRequest" => inbox'[i].n <= streams'
      <3> SUFFICES ASSUME NEW i \in 1..Len(inbox'), inbox'[i].type = "MediaStartRequest"
                   PROVE  inbox'[i].n <= streams'
        OBVIOUS
      <3>1. i \in 1..Len(inbox) \/ i = Len(inbox')
        BY <1>1, <2>1, SMT DEF Types
      <3>2. CASE i \in 1..Len(inbox)
        <4>1. inbox'[i] = inbox[i]
          BY <2>1, <3>2
        <4>2. inbox[i].n <= streams
          BY <3>2, <4>1 DEF BoundInv
        <4>3. inbox[i] \in MsgType
          BY <1>1, <3>2, SMT DEF Types
        <4>4. inbox[i].n \in Nat
          BY <4>3, SMT DEF MsgType
        <4> QED BY <1>1, <2>2, <4>1, <4>2, <4>4, SMT DEF Types
      <3> QED BY <2>1, <2>2, <3>1, <3>2
    <2>4. \A c \in Channels : channel_session_id'[c] <= streams'
      <3> SUFFICES ASSUME NEW c \in Channels PROVE channel_session_id[c] <= streams'
        BY <2>1
      <3>1. channel_session_id[c] \in Nat /\ channel_session_id[c] <= streams
        BY <1>1, SMT DEF Types, IdsType, BoundInv
      <3> QED BY <1>1, <2>2, <3>1, SMT DEF Types
    <2> QED BY <2>1, <2>3, <2>4 DEF BoundInv
  <1>8. CASE PhoneNext
    <2>1. CASE SessionInv
      BY <1>5, <1>6, <1>7, <1>8, <2>1, PhoneSpeaks
    <2>2. CASE AstrayInv
      BY <1>5, <1>6, <1>8, <2>2, AstrayPhone
    <2> QED BY <2>1, <2>2 DEF Valid
  <1> QED BY <1>2, <1>3, <1>4, <1>8 DEF Next

LEMMA BoundsAlways == Spec => []BoundInv
  <1>1. Init => BoundInv
    <2> SUFFICES ASSUME Init PROVE BoundInv
      OBVIOUS
    <2>1. /\ ssl.attempt <= connections
          /\ \A c \in Channels : channel_session_id[c] <= streams
      BY SMT DEF Init
    <2>2. \A i \in 1..Len(inbox) :
             inbox[i].type = "MediaStartRequest" => inbox[i].n <= streams
      BY SMT DEF Init
    <2> QED BY <2>1, <2>2 DEF BoundInv
  <1>2. Valid /\ BoundInv /\ [Next]_vars => BoundInv'
    BY BoundsKept DEF vars, huVars, wireVars, counters, BoundInv
  <1> QED BY <1>1, <1>2, ValidAlways, PTL DEF Spec

(* Over any number of connections the state has its types: a session that  *)
(* is kept was one of a MediaStartRequest, nothing is on the wire of a     *)
(* stopped server, and during the handshake it sends nothing else.         *)
THEOREM MessageTypesAlways == Spec => []TypeOK
  <1>1. Valid /\ BoundInv => TypeOK
    <2> SUFFICES ASSUME Valid, BoundInv PROVE TypeOK
      OBVIOUS
    <2>1. Types
      BY DEF Valid, SessionInv, AstrayInv
    <2>2. ssl.attempt \in 0..connections
      BY <2>1, SMT DEF Types, SslType, BoundInv
    <2>3. channel_session_id \in [Channels -> 0..streams]
      <3>1. \A c \in Channels : channel_session_id[c] \in 0..streams
        BY <2>1, SMT DEF Types, IdsType, BoundInv
      <3> QED BY <2>1, <3>1, SMT DEF Types, IdsType
    <2>4. \A i \in 1..Len(outbox) :
             iaap_state = "STARTED" \/ outbox[i].type \in {"ClientHello", "ClientFinished"}
      <3>1. CASE iaap_state = "STOPPED"
        BY <3>1, SMT DEF Valid, SessionInv, AstrayInv
      <3>2. CASE iaap_state = "STARTIN"
        <4>1. CASE SessionInv
          BY <2>1, <3>2, <4>1, SMT DEF SessionInv, Handshake, Types
        <4>2. CASE AstrayInv
          BY <3>2, <4>2 DEF AstrayInv, Hello
        <4> QED BY <4>1, <4>2 DEF Valid
      <3> QED BY <2>1, <3>1, <3>2 DEF Types
    <2>5. phone.step \in 0..6
      BY <2>1, Zenon DEF Types, PhoneType, Steps
    <2>6. iaap_state = "STOPPED" => inbox = <<>> /\ outbox = <<>>
      BY DEF Valid, SessionInv, AstrayInv
    <2> QED BY <2>1, <2>2, <2>3, <2>4, <2>5, <2>6 DEF TypeOK, Types
  <1> QED BY <1>1, ValidAlways, BoundsAlways, PTL

-----------------------------------------------------------------------------
(* Why every answer is to a question, and an acknowledgement of the        *)
(* session its packet was sent in.                                         *)

Packets == {"MediaData", "MediaDataWithTimestamp"}

(* HUServer will answer m, with this number. *)
Pending(m) == m.type \in DOMAIN Answers \ Filtered

Said(m) ==
    CASE m.type \in Packets -> channel_session_id[m.chan]
      [] m.type = "VersionResponse" -> connections
      [] m.type \in HandshakeTypes \ {"VersionResponse"} -> ssl.attempt
      [] OTHER -> m.n

(* What it may say to m: nothing, the answer, and an event after it. *)
Says(m, out) ==
    \A k \in 1..Len(out) :
        \/ /\ k = 1 /\ m.type \in DOMAIN Answers
           /\ out[1] = Msg(Answers[m.type], m.chan, Said(m))
        \/ /\ k = 2 /\ out[2].type = "SensorEvent"
           /\ m.type = "ChannelOpenRequest" /\ m.chan = "Sensor"

Spoken(m) == {o \in Outcome : Ends(o) \/ Says(m, o.out)}

LEMMA AnswerFacts ==
    /\ \A type \in DOMAIN Answers :
          /\ Answers[type] # "SensorEvent"
          /\ Answers[type] = "MediaAck" => type \in Packets
    /\ DOMAIN Answers = HandshakeTypes \union
          {"ServiceDiscoveryRequest", "ChannelOpenRequest", "MediaSetupRequest",
           "MediaData", "MediaDataWithTimestamp", "PingRequest",
           "NavigationFocusRequest", "SensorStartRequest", "BindingRequest",
           "BluetoothPairingRequest", "ShutdownRequest"}
  <1>1. DOMAIN Answers = HandshakeTypes \union
          {"ServiceDiscoveryRequest", "ChannelOpenRequest", "MediaSetupRequest",
           "MediaData", "MediaDataWithTimestamp", "PingRequest",
           "NavigationFocusRequest", "SensorStartRequest", "BindingRequest",
           "BluetoothPairingRequest", "ShutdownRequest"}
    BY DEF Answers, HandshakeTypes
  <1>2. \A type \in DOMAIN Answers :
           /\ Answers[type] # "SensorEvent"
           /\ Answers[type] = "MediaAck" => type \in Packets
    BY DEF Answers, Packets
  <1> QED BY <1>1, <1>2

LEMMA SilentSpoken ==
    ASSUME NEW m, NEW o \in Outcome, o.out = <<>>
    PROVE  o \in Spoken(m) /\ Failed(o) \in Spoken(m) /\ MayFail(o) \subseteq Spoken(m)
  <1>1. \A k \in 1..Len(o.out) : FALSE
    BY SMT
  <1>2. o \in Spoken(m)
    BY <1>1 DEF Spoken, Says
  <1>3. Failed(o) \in Spoken(m)
    BY FailedOutcome DEF Spoken, Honest, Ends
  <1> QED BY <1>2, <1>3 DEF MayFail

(* One message, an answer. *)
LEMMA OneSaid ==
    ASSUME NEW m \in MsgType, m.type \in DOMAIN Answers,
           NEW msg, msg = Msg(Answers[m.type], m.chan, Said(m)),
           NEW r \in Kept, Ends(r) \/ r.out = Append(<<>>, msg)
    PROVE  r \in Spoken(m)
  <1>1. r \in Outcome
    BY DEF Kept, Established, Honest
  <1>2. ASSUME r.out = Append(<<>>, msg) PROVE Says(m, r.out)
    <2>1. \A k \in 1..Len(r.out) : k = 1
      BY <1>2, SMT
    <2>2. r.out[1] = msg
      BY <1>2, SMT
    <2> QED BY <2>1, <2>2 DEF Says
  <1> QED BY <1>1, <1>2 DEF Spoken

LEMMA AnswerSaid ==
    ASSUME Types, iaap_state # "STOPPED", NEW m \in MsgType,
           NEW type \in Replies \ Hello, NEW r \in Answer(m, type)
    PROVE  /\ r \in Kept
           /\ Ends(r) \/ r.out = Append(<<>>, Msg(type, m.chan, m.n))
  <1> DEFINE msg == Msg(type, m.chan, m.n)
  <1>1. msg \in MsgType /\ msg.type \notin Hello
    <2>1. type \in Names
      BY DEF Names
    <2> QED BY <2>1, SMT DEF Msg, MsgType
  <1>2. Answer(m, type) = SendEncoded(Unchanged, msg)
    BY DEF Answer
  <1> HIDE DEF msg
  <1>3. Unchanged \in Kept /\ Unchanged.out = <<>>
    BY UnchangedKept DEF Unchanged
  <1>4. r \in Kept /\ (Ends(r) \/ r.out = Append(<<>>, msg))
    BY <1>1, <1>2, <1>3, SendEncodedKept
  <1> QED BY <1>4 DEF msg

LEMMA AnswerSpoken ==
    ASSUME Types, iaap_state # "STOPPED", NEW m \in MsgType,
           NEW type \in Replies \ Hello, m.type \notin HandshakeTypes \union Packets,
           m.type \in DOMAIN Answers, Answers[m.type] = type
    PROVE  Answer(m, type) \subseteq Spoken(m)
  <1> SUFFICES ASSUME NEW r \in Answer(m, type) PROVE r \in Spoken(m)
    OBVIOUS
  <1> DEFINE msg == Msg(type, m.chan, m.n)
  <1>1. msg = Msg(Answers[m.type], m.chan, Said(m))
    BY DEF Said, HandshakeTypes
  <1>2. r \in Kept /\ (Ends(r) \/ r.out = Append(<<>>, msg))
    BY AnswerSaid
  <1> HIDE DEF msg
  <1> QED BY <1>1, <1>2, OneSaid

LEMMA HandlersSpoken ==
    ASSUME Types, iaap_state # "STOPPED", NEW m \in MsgType
    PROVE  /\ m.type = "ServiceDiscoveryRequest" =>
                handle_ServiceDiscoveryRequest(m) \subseteq Spoken(m)
           /\ m.type = "PingRequest" => handle_PingRequest(m) \subseteq Spoken(m)
           /\ m.type = "NavigationFocusRequest" =>
                handle_NavigationFocusRequest(m) \subseteq Spoken(m)
           /\ m.type = "SensorStartRequest" =>
                handle_SensorStartRequest(m) \subseteq Spoken(m)
           /\ m.type = "BindingRequest" => handle_BindingRequest(m) \subseteq Spoken(m)
           /\ m.type = "MediaSetupRequest" =>
                handle_MediaSetupRequest(m) \subseteq Spoken(m)
           /\ m.type = "BluetoothPairingRequest" =>
                handle_BluetoothPairingRequest(m) \subseteq Spoken(m)
           /\ handle_ShutdownRequest(m) \subseteq Spoken(m)
  <1>1. ASSUME NEW type \in Replies \ Hello, m.type \notin HandshakeTypes \union Packets,
               m.type \in DOMAIN Answers, Answers[m.type] = type
        PROVE  Answer(m, type) \subseteq Spoken(m)
    BY <1>1, AnswerSpoken
  <1>2. {"ServiceDiscoveryResponse", "PingResponse", "NavigationFocusResponse",
         "SensorStartResponse", "BindingResponse", "MediaSetupResponse",
         "BluetoothPairingResponse", "ShutdownResponse"}
           \subseteq Replies \ Hello
    BY SMT DEF Replies, Hello
  <1>3. Unchanged \in Outcome /\ Unchanged.out = <<>>
    BY UnchangedOutcome DEF Established, Honest, Unchanged
  <1>4. Failed(Unchanged) \in Spoken(m)
    BY <1>3, SilentSpoken
  <1>5. m.type = "ServiceDiscoveryRequest" =>
          handle_ServiceDiscoveryRequest(m) \subseteq Spoken(m)
    BY <1>1, <1>2, AnswerTypes, AnswerFacts DEF HandshakeTypes, Packets, handle_ServiceDiscoveryRequest
  <1>6. m.type = "PingRequest" => handle_PingRequest(m) \subseteq Spoken(m)
    BY <1>1, <1>2, AnswerTypes, AnswerFacts DEF HandshakeTypes, Packets, handle_PingRequest
  <1>7. m.type = "NavigationFocusRequest" =>
          handle_NavigationFocusRequest(m) \subseteq Spoken(m)
    BY <1>1, <1>2, AnswerTypes, AnswerFacts DEF HandshakeTypes, Packets, handle_NavigationFocusRequest
  <1>8. m.type = "SensorStartRequest" => handle_SensorStartRequest(m) \subseteq Spoken(m)
    BY <1>1, <1>2, AnswerTypes, AnswerFacts DEF HandshakeTypes, Packets, handle_SensorStartRequest
  <1>9. m.type = "BindingRequest" => handle_BindingRequest(m) \subseteq Spoken(m)
    BY <1>1, <1>2, AnswerTypes, AnswerFacts DEF HandshakeTypes, Packets, handle_BindingRequest
  <1>10. m.type = "MediaSetupRequest" => handle_MediaSetupRequest(m) \subseteq Spoken(m)
    BY <1>1, <1>2, AnswerTypes, AnswerFacts DEF HandshakeTypes, Packets, handle_MediaSetupRequest
  <1>11. m.type = "BluetoothPairingRequest" =>
           handle_BluetoothPairingRequest(m) \subseteq Spoken(m)
    BY <1>1, <1>2, <1>4, AnswerTypes, AnswerFacts DEF HandshakeTypes, Packets, handle_BluetoothPairingRequest
  <1>12. handle_ShutdownRequest(m) \subseteq Spoken(m)
    <2> SUFFICES ASSUME NEW o \in Answer(m, "ShutdownResponse"), NEW r,
                        r = [Failed(o) EXCEPT !.stop = TRUE]
                 PROVE  r \in Spoken(m)
      BY DEF handle_ShutdownRequest
    <2>1. o \in Kept
      BY <1>2, AnswerSaid
    <2>f. PICK f : f = Failed(o)
      OBVIOUS
    <2>2. f \in Outcome
      BY <2>1, <2>f, FailedKept DEF Kept, Established, Honest
    <2>3. r.stop = TRUE /\ r \in Outcome
      BY <2>2, <2>f, FieldTypes, Zenon DEF Outcome
    <2> QED BY <2>3 DEF Spoken, Ends
  <1> QED BY <1>5, <1>6, <1>7, <1>8, <1>9, <1>10, <1>11, <1>12

LEMMA ChannelOpenSpoken ==
    ASSUME Types, iaap_state # "STOPPED", NEW m \in MsgType, m.type = "ChannelOpenRequest"
    PROVE  handle_ChannelOpenRequest(m) \subseteq Spoken(m)
  <1> DEFINE event == Msg("SensorEvent", "Sensor", 0)
             msg   == Msg("ChannelOpenResponse", m.chan, m.n)
  <1>1. event \in MsgType /\ event.type \notin Hello /\ event.type = "SensorEvent"
    <2>1. "Sensor" \in Channels
      BY DEF Channels, FixedChannels
    <2>2. "SensorEvent" \in Names
      BY DEF Names, Replies
    <2> QED BY <2>1, <2>2, SMT DEF Msg, MsgType, Hello
  <1>2. "ChannelOpenResponse" \in Replies \ Hello
    BY SMT DEF Replies, Hello
  <1>3. msg = Msg(Answers[m.type], m.chan, Said(m)) /\ m.type \in DOMAIN Answers
    BY AnswerTypes, AnswerFacts DEF Said, Packets, HandshakeTypes
  <1>4. ASSUME NEW o \in Answer(m, "ChannelOpenResponse")
        PROVE  o \in Kept /\ (Ends(o) \/ o.out = Append(<<>>, msg))
    BY <1>2, AnswerSaid
  <1> HIDE DEF event, msg
  <1>5. ASSUME NEW o \in Answer(m, "ChannelOpenResponse"), o.ret = 0, m.chan = "Sensor",
               NEW r \in SendEncoded(o, event)
        PROVE  r \in Spoken(m)
    <2>1. /\ r \in Kept /\ (Ends(r) \/ r.out = Append(o.out, event))
          /\ o.stop = TRUE => r.stop = TRUE
      BY <1>1, <1>4, SendEncodedKept
    <2>2. r \in Outcome
      BY <2>1 DEF Kept, Established, Honest
    <2>3. CASE Ends(r)
      BY <2>2, <2>3 DEF Spoken
    <2>4. CASE ~Ends(r)
      <3>1. ~Ends(o)
        <4>1. o.ret # -1
          BY <1>5, SMT
        <4> QED BY <2>1, <2>4, <4>1 DEF Ends
      <3>2. r.out = Append(Append(<<>>, msg), event)
        BY <1>4, <2>1, <2>4, <3>1
      <3>3. /\ \A k \in 1..Len(r.out) : k = 1 \/ k = 2
            /\ r.out[1] = msg /\ r.out[2] = event
        BY <3>2, SMT
      <3>4. Says(m, r.out)
        BY <1>1, <1>3, <1>5, <3>3 DEF Says
      <3> QED BY <2>2, <3>4 DEF Spoken
    <2> QED BY <2>3, <2>4
  <1>6. ASSUME NEW o \in Answer(m, "ChannelOpenResponse")
        PROVE  o \in Spoken(m)
    BY <1>3, <1>4, OneSaid
  <1>7. \A o \in Answer(m, "ChannelOpenResponse") :
            (IF o.ret # 0 \/ m.chan # "Sensor" THEN {o} ELSE SendEncoded(o, event))
                \subseteq Spoken(m)
    BY <1>5, <1>6, Zenon
  <1> QED BY <1>7, Zenon DEF handle_ChannelOpenRequest, event

LEMMA MediaDataSpoken ==
    ASSUME Types, iaap_state # "STOPPED", NEW m \in MsgType
    PROVE  /\ m.type = "MediaData" => handle_MediaData(m) \subseteq Spoken(m)
           /\ m.type = "MediaDataWithTimestamp" =>
                handle_MediaDataWithTimestamp(m) \subseteq Spoken(m)
  <1> SUFFICES ASSUME m.type \in Packets
               PROVE  handle_MediaData(m) \subseteq Spoken(m)
    BY DEF Packets, handle_MediaDataWithTimestamp
  <1> DEFINE msg == Msg("MediaAck", m.chan, channel_session_id[m.chan])
  <1>1. msg \in MsgType /\ msg.type \notin Hello /\ msg.n = channel_session_id[m.chan]
    <2>1. "MediaAck" \in Names
      BY DEF Names, Replies
    <2>2. m.chan \in Channels /\ channel_session_id[m.chan] \in Nat
      BY SMT DEF MsgType, Types, IdsType
    <2> QED BY <2>1, <2>2, SMT DEF Msg, MsgType, Hello
  <1>2. msg = Msg(Answers[m.type], m.chan, Said(m)) /\ m.type \in DOMAIN Answers
    <2>1. Answers[m.type] = "MediaAck" /\ m.type \in DOMAIN Answers
      BY AnswerTypes, AnswerFacts DEF Packets
    <2>2. Said(m) = channel_session_id[m.chan]
      BY DEF Said, Packets, HandshakeTypes
    <2> QED BY <2>1, <2>2
  <1> HIDE DEF msg
  <1>3. Unchanged \in Kept /\ Unchanged.out = <<>> /\ Unchanged \in Outcome
    BY UnchangedKept DEF Unchanged, Kept, Established, Honest
  <1>4. ASSUME NEW r \in SendEncoded(Unchanged, msg)
        PROVE  r \in Spoken(m)
    <2>1. r \in Kept /\ (Ends(r) \/ r.out = Append(<<>>, msg))
      BY <1>1, <1>3, SendEncodedKept
    <2> QED BY <1>1, <1>2, <2>1, OneSaid
  <1>5. Failed(Unchanged) \in Spoken(m)
    BY <1>3, SilentSpoken
  <1> QED BY <1>4, <1>5 DEF handle_MediaData, msg

LEMMA SilentHandlers ==
    ASSUME Types, iaap_state # "STOPPED", NEW m \in MsgType
    PROVE  /\ MayFail(Unchanged) \subseteq Spoken(m)
           /\ {Unchanged} \subseteq Spoken(m)
           /\ DispatchNavigation(m) \subseteq Spoken(m)
           /\ handle_MediaStartRequest(m) \subseteq Spoken(m)
           /\ handle_MediaStopRequest(m) \subseteq Spoken(m)
  <1>1. /\ Unchanged \in Outcome /\ Unchanged.out = <<>>
        /\ Unchanged.ids = channel_session_id
    BY UnchangedOutcome DEF Established, Honest, Unchanged
  <1>2. MayFail(Unchanged) \subseteq Spoken(m) /\ Unchanged \in Spoken(m)
    BY <1>1, SilentSpoken DEF MayFail
  <1>3. ASSUME NEW o \in MayFail(Unchanged), NEW r,
               r = [o EXCEPT !.ret = 0, !.cause = FALSE]
        PROVE  r \in Spoken(m)
    <2>1. o \in Outcome /\ o.out = <<>>
      <3>1. Failed(Unchanged) \in Outcome /\ Failed(Unchanged).out = <<>>
        BY <1>1, FailedOutcome DEF Honest
      <3> QED BY <1>1, <1>3, <3>1 DEF MayFail
    <2>2. r \in Outcome /\ r.out = <<>>
      BY <1>3, <2>1, FieldTypes, Zenon DEF Outcome
    <2> QED BY <2>2, SilentSpoken
  <1> DEFINE outcomes == CASE m.type = "NaviStatus"       -> handle_NaviStatus(m)
                           [] m.type = "NaviTurn"         -> handle_NaviTurn(m)
                           [] m.type = "NaviTurnDistance" -> handle_NaviTurnDistance(m)
                           [] OTHER -> {Unchanged}
  <1>4. outcomes \subseteq MayFail(Unchanged)
    BY DEF handle_NaviStatus, handle_NaviTurn, handle_NaviTurnDistance, MayFail
  <1>5. DispatchNavigation(m) = {[o EXCEPT !.ret = 0, !.cause = FALSE] : o \in outcomes}
    BY DEF DispatchNavigation
  <1> HIDE DEF outcomes
  <1>6. DispatchNavigation(m) \subseteq Spoken(m)
    BY <1>3, <1>4, <1>5
  <1>7. ASSUME NEW n \in Nat, NEW o, o = [Unchanged EXCEPT !.ids[m.chan] = n]
        PROVE  MayFail(o) \subseteq Spoken(m)
    <2> DEFINE ids == [channel_session_id EXCEPT ![m.chan] = n]
    <2>1. ids \in IdsType
      BY SMT DEF IdsType, Types, MsgType
    <2>2. o = [Unchanged EXCEPT !.ids = ids]
      BY <1>1, <1>7
    <2> HIDE DEF ids
    <2>3. o \in Outcome /\ o.out = <<>>
      BY <1>1, <2>1, <2>2, Zenon DEF Outcome
    <2> QED BY <2>3, SilentSpoken
  <1>8. m.n \in Nat /\ 0 \in Nat
    BY SMT DEF MsgType
  <1>9. handle_MediaStartRequest(m) \subseteq Spoken(m)
    BY <1>7, <1>8 DEF handle_MediaStartRequest
  <1>10. handle_MediaStopRequest(m) \subseteq Spoken(m)
    BY <1>7, <1>8 DEF handle_MediaStopRequest
  <1> QED BY <1>2, <1>6, <1>9, <1>10

LEMMA DispatchSpoken ==
    ASSUME Types, iaap_state # "STOPPED", NEW m \in MsgType
    PROVE  Dispatch(m) \subseteq Spoken(m)
  <1>1. DispatchControl(m) \subseteq Spoken(m)
    <2>1. /\ handle_VoiceSessionRequest(m) \subseteq Spoken(m)
          /\ handle_AudioFocusRequest(m) \subseteq Spoken(m)
      BY SilentHandlers DEF handle_VoiceSessionRequest, handle_AudioFocusRequest
    <2>2. m.type = "ChannelOpenRequest" => handle_ChannelOpenRequest(m) \subseteq Spoken(m)
      BY ChannelOpenSpoken
    <2> QED BY <2>1, <2>2, MediaDataSpoken, HandlersSpoken, SilentHandlers, Zenon
            DEF DispatchControl
  <1>2. DispatchMedia(m) \subseteq Spoken(m)
    <2>1. /\ handle_MediaAck(m) \subseteq Spoken(m)
          /\ handle_MicRequest(m) \subseteq Spoken(m)
          /\ handle_VideoFocusRequest(m) \subseteq Spoken(m)
      BY SilentHandlers DEF handle_MediaAck, handle_MicRequest, handle_VideoFocusRequest
    <2> QED BY <2>1, HandlersSpoken, SilentHandlers, Zenon DEF DispatchMedia
  <1>3. DispatchChannel(m) \subseteq Spoken(m)
    <2>1. /\ handle_BluetoothAuthData(m) \subseteq Spoken(m)
          /\ handle_PhoneStatus(m) \subseteq Spoken(m)
          /\ handle_StartGenericNotifications(m) \subseteq Spoken(m)
          /\ handle_StopGenericNotifications(m) \subseteq Spoken(m)
          /\ handle_GenericNotificationResponse(m) \subseteq Spoken(m)
      BY SilentHandlers
      DEF handle_BluetoothAuthData, handle_PhoneStatus, handle_StartGenericNotifications,
          handle_StopGenericNotifications, handle_GenericNotificationResponse
    <2> QED BY <1>2, <2>1, HandlersSpoken, SilentHandlers, Zenon DEF DispatchChannel
  <1> QED BY <1>1, <1>3 DEF Dispatch

(* What is filtered is not answered. *)
LEMMA ProcessSpoken ==
    ASSUME Types, iaap_state # "STOPPED", NEW m \in MsgType,
           m.type \in HandshakeTypes =>
               /\ m.chan = "Control"
               /\ iaap_state = "STARTIN" /\ m.type # "VersionResponse" => ssl.wants # "nothing",
           NEW o \in processMessage(m), ~Ends(o)
    PROVE  Says(m, o.out) /\ (m.type \notin Filtered \/ o.out = <<>>)
  <1>1. /\ Unchanged \in Spoken(m) /\ Unchanged.out = <<>>
        /\ Ends(Failed(Unchanged))
    BY SilentHandlers, FailedUnchanged DEF Unchanged, Ends
  <1>2. CASE o \in MessageFilter(m)
    <2>1. o = Unchanged
      BY <1>1, <1>2 DEF MessageFilter
    <2> QED BY <1>1, <2>1 DEF Spoken
  <1>3. CASE m.type \notin Filtered /\ iaap_state # "STARTIN" /\ o \in Dispatch(m)
    BY <1>3, DispatchSpoken DEF Spoken
  <1>4. CASE m.type \notin Filtered /\ iaap_state = "STARTIN"
    <2>1. ASSUME NEW type, NEW n, o.out = <<Msg(type, "Control", n)>>,
                 m.type \in HandshakeTypes, Answers[m.type] = type, n = Said(m)
          PROVE  Says(m, o.out)
      <3>1. /\ \A k \in 1..Len(o.out) : k = 1
            /\ o.out[1] = Msg(type, "Control", n)
        BY <2>1, SMT
      <3>2. m.type \in DOMAIN Answers
        BY <2>1, AnswerFacts
      <3> QED BY <2>1, <3>1, <3>2 DEF Says
    <2>s. /\ m.type = "VersionResponse" => Said(m) = connections
          /\ m.type \in {"ServerHello", "ServerFinished"} => Said(m) = ssl.attempt
      BY DEF Said, Packets, HandshakeTypes
    <2>2. CASE o.out = <<>>
      <3>1. \A k \in 1..Len(o.out) : FALSE
        BY <2>2, SMT
      <3> QED BY <1>4, <3>1 DEF Says
    <2>3. CASE m.type = "VersionResponse"
               /\ o.out = <<Msg("ClientHello", "Control", connections)>>
      BY <1>4, <2>1, <2>s, <2>3, AnswerTypes DEF HandshakeTypes
    <2>4. CASE m.type = "ServerHello"
               /\ o.out = <<Msg("ClientFinished", "Control", ssl.attempt)>>
      BY <1>4, <2>1, <2>s, <2>4, AnswerTypes DEF HandshakeTypes
    <2>5. CASE m.type = "ServerFinished"
               /\ o.out = <<Msg("AuthComplete", "Control", ssl.attempt)>>
      BY <1>4, <2>1, <2>s, <2>5, AnswerTypes DEF HandshakeTypes
    <2>6. Finishes(m) /\ m.type \in HandshakeTypes \ {"VersionResponse"}
             => m.type = "ServerFinished"
      BY <1>4, SMT DEF Finishes
    <2> QED BY <1>4, <2>2, <2>3, <2>4, <2>5, <2>6, StartinOutcomes
  <1> QED BY <1>2, <1>3, <1>4 DEF processMessage

(* A stream that is started gets its session. *)
LEMMA DispatchStart ==
    ASSUME Types, iaap_state = "STARTED", NEW m \in MsgType,
           m.type = "MediaStartRequest", m.type \notin Filtered,
           m.chan \in MediaChannels, NEW o \in processMessage(m), ~Ends(o)
    PROVE  o.ids[m.chan] = m.n
  <1>1. iaap_state # "STOPPED" /\ iaap_state # "STARTIN"
    OBVIOUS
  <1>2. Ends(Failed(Unchanged)) /\ m.n \in Nat /\ m.chan \in Channels
    BY <1>1, FailedUnchanged, SMT DEF Ends, MsgType
  <1>3. o \in Dispatch(m)
    BY <1>1, <1>2 DEF processMessage, MessageFilter
  <1>4. m.type \notin ControlTypes
    BY SMT DEF ControlTypes
  <1>5. o \in DispatchMedia(m)
    <2>1. m.chan \notin {"Sensor", "Touch", "Bluetooth", "PhoneStatus", "Notification",
                       "Navigation"}
      BY ChannelsAssumption DEF ChannelsAssumption, FixedChannels
    <2>2. o \in DispatchChannel(m)
      BY <1>3, <1>4 DEF Dispatch
    <2> QED BY <2>1, <2>2, SMT DEF DispatchChannel
  <1>6. o \in handle_MediaStartRequest(m)
    BY <1>5, SMT DEF DispatchMedia
  <1> DEFINE ids == [channel_session_id EXCEPT ![m.chan] = m.n]
             new == [Unchanged EXCEPT !.ids = ids]
  <1>7. Unchanged \in Outcome /\ Unchanged.ids = channel_session_id
    BY <1>1, UnchangedOutcome DEF Established, Honest, Unchanged
  <1>8. o = new \/ o = Failed(new)
    BY <1>6, <1>7 DEF handle_MediaStartRequest, MayFail
  <1>9. ids \in IdsType /\ ids[m.chan] = m.n
    BY <1>2, SMT DEF Types, IdsType
  <1> HIDE DEF ids
  <1>10. new \in Outcome /\ new.ids = ids
    BY <1>7, <1>9, Zenon DEF Outcome
  <1> HIDE DEF new
  <1>11. Ends(Failed(new))
    BY <1>10, FailedOutcome DEF Ends
  <1> QED BY <1>8, <1>9, <1>10, <1>11

-----------------------------------------------------------------------------
(* The answers to OtherMessages, and those that open a channel.            *)
OtherAnswers ==
    {"PingResponse", "NavigationFocusResponse", "SensorStartResponse",
     "BindingResponse", "BluetoothPairingResponse", "ShutdownResponse"}

Opening == {"ServiceDiscoveryResponse", "ChannelOpenResponse", "MediaSetupResponse"}

LEMMA AnswerKinds ==
    /\ OtherAnswers \intersect Opening = {}
    /\ \A type \in DOMAIN Answers :
          /\ Answers[type] \in OtherAnswers <=> type \notin Requests \union HandshakeTypes
          /\ type \in HandshakeTypes => Answers[type] \notin Opening
          /\ Answers[type] = "ChannelOpenResponse" => type = "ChannelOpenRequest"
  <1>1. OtherAnswers \intersect Opening = {}
    BY DEF OtherAnswers, Opening
  <1> SUFFICES ASSUME NEW type \in DOMAIN Answers
               PROVE  /\ Answers[type] \in OtherAnswers
                            <=> type \notin Requests \union HandshakeTypes
                      /\ type \in HandshakeTypes => Answers[type] \notin Opening
                      /\ Answers[type] = "ChannelOpenResponse" => type = "ChannelOpenRequest"
    BY <1>1
  <1>2. type \in HandshakeTypes \union
          {"ServiceDiscoveryRequest", "ChannelOpenRequest", "MediaSetupRequest",
           "MediaData", "MediaDataWithTimestamp", "PingRequest",
           "NavigationFocusRequest", "SensorStartRequest", "BindingRequest",
           "BluetoothPairingRequest", "ShutdownRequest"}
    BY AnswerFacts
  <1> QED BY <1>2, AnswerTypes DEF OtherAnswers, Opening, Requests, HandshakeTypes

(* The inductive invariant.  What is still to be answered the phone waits  *)
(* for, and so it does for what is answered.                               *)

Asking == \A i \in 1..Len(inbox) : Pending(inbox[i]) => Question(inbox[i]) \in phone.waiting

Answering ==
    \A i \in 1..Len(outbox) :
        outbox[i].type # "SensorEvent" => outbox[i] \in phone.waiting

(* Of what is pending, what is answered, and both, no two are about the    *)
(* same question.                                                          *)
Alone ==
    /\ \A i, j \in 1..Len(inbox) :
          i # j /\ Pending(inbox[i]) /\ Pending(inbox[j]) =>
              Question(inbox[i]) # Question(inbox[j])
    /\ \A i \in 1..Len(inbox), j \in 1..Len(outbox) :
          Pending(inbox[i]) => outbox[j] # Question(inbox[i])
    /\ \A i, j \in 1..Len(outbox) : i # j => outbox[i] # outbox[j]

(* The event of the sensor channel comes once, when it is opened. *)
Greeted ==
    /\ \A i \in 1..Len(outbox) : outbox[i].type = "SensorEvent" =>
          \/ phone.progress["Sensor"] = "open"
          \/ \E j \in 1..Len(outbox) :
                outbox[j].type = "ChannelOpenResponse" /\ outbox[j].chan = "Sensor"
    /\ \A w \in phone.waiting :
          w.chan = "Sensor" /\ w.type \in Opening =>
              w.type = "ChannelOpenResponse" /\ phone.progress["Sensor"] = "closed"

(* After the first k messages of inbox the session of c will be n. *)
SetsSession(m, c) == m.type \in {"MediaStartRequest", "MediaStopRequest"} /\ m.chan = c

LeadsTo(c, k, n) ==
    \/ n = channel_session_id[c] /\ \A i \in 1..k : ~SetsSession(inbox[i], c)
    \/ \E s \in 1..k :
          /\ inbox[s].type = "MediaStartRequest" /\ inbox[s].chan = c /\ inbox[s].n = n
          /\ \A i \in (s + 1)..k : ~SetsSession(inbox[i], c)

(* Each packet will find the session it was sent in, and the next one too. *)
Playing ==
    /\ iaap_state = "STARTIN" =>
          \A i \in 1..Len(inbox) : inbox[i].type \notin {"MediaStartRequest"} \union Packets
    /\ \A i \in 1..Len(inbox) :
          inbox[i].type = "MediaStartRequest" => inbox[i].chan \in MediaChannels
    /\ \A i \in 1..Len(inbox) :
          inbox[i].type \in Packets => LeadsTo(inbox[i].chan, i - 1, inbox[i].n)
    /\ \A c \in MediaChannels :
          phone.progress[c] = "started" => LeadsTo(c, Len(inbox), phone.session[c])

(* The numbers of the other messages of the phone go up. *)
Numbered ==
    \A w \in phone.waiting :
        /\ w.type \in OtherAnswers => w.n <= phone.others
        /\ w.type \in Opening => w.n = 0

OnControl ==
    \A i \in 1..Len(inbox) : inbox[i].type \in HandshakeTypes =>
        inbox[i].chan = "Control" /\ inbox[i].n = connections

AskInv == Asking /\ Answering /\ Alone /\ Greeted /\ Playing /\ Numbered /\ OnControl

LEMMA QuietAsks ==
    ASSUME inbox' = <<>>, outbox' = <<>>, phone' = NewPhone
    PROVE  AskInv'
  <1>1. /\ \A i \in 1..Len(inbox') : FALSE
        /\ \A i \in 1..Len(outbox') : FALSE
    BY SMT
  <1>2. phone'.waiting = {} /\ \A c \in Channels : phone'.progress[c] = "closed"
    BY SMT DEF NewPhone
  <1>3. Asking' /\ Answering' /\ Alone' /\ Numbered' /\ OnControl'
    BY <1>1, <1>2 DEF Asking, Answering, Alone, Numbered, OnControl
  <1>4. Greeted'
    BY <1>1, <1>2 DEF Greeted
  <1>5. Playing'
    <2>1. MediaChannels \subseteq Channels
      BY DEF Channels
    <2> QED BY <1>1, <1>2, <2>1 DEF Playing
  <1> QED BY <1>3, <1>4, <1>5 DEF AskInv

(* HUServer takes a message from inbox, and the phone adds one. *)
LEMMA LeadsToTail ==
    ASSUME inbox \in Seq(MsgType), inbox # <<>>, inbox' = Tail(inbox), NEW c, NEW n,
           ~SetsSession(inbox[1], c) => channel_session_id'[c] = channel_session_id[c],
           inbox[1].type = "MediaStartRequest" /\ inbox[1].chan = c =>
               channel_session_id'[c] = inbox[1].n,
           NEW k \in 1..Len(inbox), LeadsTo(c, k, n)
    PROVE  LeadsTo(c, k - 1, n)'
  <1>1. /\ \A i \in 1..(k - 1) : i + 1 \in 2..k /\ inbox'[i] = inbox[i + 1]
        /\ \A i \in 2..k : i - 1 \in 1..(k - 1) /\ inbox'[i - 1] = inbox[i] /\ i \in 1..k
        /\ 1 \in 1..k /\ \A i \in 1..k : i = 1 \/ i \in 2..k
    BY SMT
  <1>2. CASE n = channel_session_id[c] /\ \A i \in 1..k : ~SetsSession(inbox[i], c)
    <2>1. n = channel_session_id'[c]
      BY <1>1, <1>2
    <2>2. \A i \in 1..(k - 1) : ~SetsSession(inbox'[i], c)
      BY <1>1, <1>2
    <2> QED BY <2>1, <2>2 DEF LeadsTo, SetsSession
  <1>3. ASSUME NEW s \in 1..k,
               inbox[s].type = "MediaStartRequest" /\ inbox[s].chan = c /\ inbox[s].n = n,
               \A i \in (s + 1)..k : ~SetsSession(inbox[i], c)
        PROVE  LeadsTo(c, k - 1, n)'
    <2>1. CASE s = 1
      <3>1. n = channel_session_id'[c]
        BY <1>3, <2>1
      <3>2. \A i \in 2..k : ~SetsSession(inbox[i], c)
        BY <1>3, <2>1, SMT
      <3>3. \A i \in 1..(k - 1) : ~SetsSession(inbox'[i], c)
        BY <1>1, <3>2
      <3> QED BY <3>1, <3>3 DEF LeadsTo, SetsSession
    <2>2. CASE s \in 2..k
      <3>1. /\ s - 1 \in 1..(k - 1) /\ inbox'[s - 1] = inbox[s]
        BY <1>1, <2>2
      <3>2. \A i \in ((s - 1) + 1)..(k - 1) : i + 1 \in (s + 1)..k /\ i \in 1..(k - 1)
        BY <2>2, SMT
      <3>3. \A i \in ((s - 1) + 1)..(k - 1) : ~SetsSession(inbox'[i], c)
        BY <1>1, <1>3, <3>2
      <3> QED BY <1>3, <3>1, <3>3 DEF LeadsTo, SetsSession
    <2> QED BY <1>1, <2>1, <2>2
  <1> QED BY <1>2, <1>3 DEF LeadsTo

LEMMA LeadsToAppend ==
    ASSUME inbox \in Seq(MsgType), NEW m \in MsgType, inbox' = Append(inbox, m),
           NEW c, NEW n, channel_session_id' = channel_session_id
    PROVE  /\ \A k \in 0..Len(inbox) : LeadsTo(c, k, n) => LeadsTo(c, k, n)'
           /\ LeadsTo(c, Len(inbox), n) /\ ~SetsSession(m, c) => LeadsTo(c, Len(inbox), n)'
           /\ m.type = "MediaStartRequest" /\ m.chan = c /\ m.n = n =>
                 LeadsTo(c, Len(inbox), n)'
  <1>k. PICK k \in Nat : k = Len(inbox)
    BY SMT
  <1>1. /\ \A i \in 1..k : inbox'[i] = inbox[i]
        /\ inbox'[k + 1] = m /\ Len(inbox') = k + 1
        /\ k + 1 \in 1..(k + 1) /\ \A i \in ((k + 1) + 1)..(k + 1) : FALSE
    BY <1>k, SMT
  <1>2. ASSUME NEW l \in 0..k, LeadsTo(c, l, n)
        PROVE  LeadsTo(c, l, n)'
    <2>1. \A i \in 1..l : inbox'[i] = inbox[i]
      BY <1>1, SMT
    <2>2. \A s \in 1..l : \A i \in (s + 1)..l : i \in 1..l
      BY SMT
    <2>3. CASE n = channel_session_id[c] /\ \A i \in 1..l : ~SetsSession(inbox[i], c)
      <3>1. \A i \in 1..l : ~SetsSession(inbox'[i], c)
        BY <2>1, <2>3
      <3> QED BY <2>3, <3>1 DEF LeadsTo, SetsSession
    <2>4. ASSUME NEW s \in 1..l,
                 inbox[s].type = "MediaStartRequest" /\ inbox[s].chan = c /\ inbox[s].n = n,
                 \A i \in (s + 1)..l : ~SetsSession(inbox[i], c)
          PROVE  LeadsTo(c, l, n)'
      <3>1. \A i \in (s + 1)..l : ~SetsSession(inbox'[i], c)
        BY <2>1, <2>2, <2>4
      <3> QED BY <2>1, <2>4, <3>1 DEF LeadsTo, SetsSession
    <2> QED BY <1>2, <2>3, <2>4 DEF LeadsTo
  <1>3. ASSUME LeadsTo(c, k, n), ~SetsSession(m, c)
        PROVE  LeadsTo(c, k + 1, n)'
    <2>1. CASE n = channel_session_id[c] /\ \A i \in 1..k : ~SetsSession(inbox[i], c)
      <3>1. \A i \in 1..(k + 1) : i \in 1..k \/ i = k + 1
        BY SMT
      <3>2. \A i \in 1..(k + 1) : ~SetsSession(inbox'[i], c)
        BY <1>1, <1>3, <2>1, <3>1
      <3> QED BY <2>1, <3>2 DEF LeadsTo, SetsSession
    <2>2. ASSUME NEW s \in 1..k,
                 inbox[s].type = "MediaStartRequest" /\ inbox[s].chan = c /\ inbox[s].n = n,
                 \A i \in (s + 1)..k : ~SetsSession(inbox[i], c)
          PROVE  LeadsTo(c, k + 1, n)'
      <3>1. /\ s \in 1..(k + 1)
            /\ \A i \in (s + 1)..(k + 1) : (i \in (s + 1)..k /\ i \in 1..k) \/ i = k + 1
        BY SMT
      <3>2. \A i \in (s + 1)..(k + 1) : ~SetsSession(inbox'[i], c)
        BY <1>1, <1>3, <2>2, <3>1
      <3> QED BY <1>1, <2>2, <3>1, <3>2 DEF LeadsTo, SetsSession
    <2> QED BY <1>3, <2>1, <2>2 DEF LeadsTo
  <1>4. ASSUME m.type = "MediaStartRequest", m.chan = c, m.n = n
        PROVE  LeadsTo(c, k + 1, n)'
    BY <1>1, <1>4 DEF LeadsTo
  <1>5. LeadsTo(c, k + 1, n)' <=> LeadsTo(c, Len(inbox), n)'
    BY <1>1 DEF LeadsTo
  <1> QED BY <1>k, <1>2, <1>3, <1>4, <1>5

LEMMA ProcessPlaying ==
    ASSUME SessionInv, Playing, "MediaStartRequest" \notin Filtered,
           iaap_state # "STOPPED", inbox # <<>>, inbox[1] \in MsgType,
           NEW o \in processMessage(inbox[1]), ~Ends(o),
           channel_session_id' = o.ids, iaap_state' = o.state,
           inbox' = Tail(inbox), phone' = phone
    PROVE  Playing'
  <1>1. Types /\ inbox \in Seq(MsgType)
    BY DEF SessionInv, Types
  <1>2. /\ \A i \in 1..Len(inbox') : /\ i + 1 \in 1..Len(inbox) /\ i + 1 \in 2..Len(inbox)
                                     /\ inbox'[i] = inbox[i + 1] /\ i = (i + 1) - 1
        /\ Len(inbox) \in 1..Len(inbox) /\ 1 \in 1..Len(inbox)
        /\ Len(inbox') = Len(inbox) - 1
    BY <1>1, SMT
  <1>3. CASE iaap_state = "STARTIN"
    <2>1. \A i \in 1..Len(inbox') :
             inbox'[i].type \notin {"MediaStartRequest"} \union Packets
      BY <1>2, <1>3 DEF Playing
    <2>2. \A c \in MediaChannels : phone.progress[c] # "started"
      BY <1>3 DEF SessionInv, Handshake, Channels
    <2> QED BY <2>1, <2>2 DEF Playing
  <1>4. CASE iaap_state = "STARTED"
    <2>1. o \in Sessions(inbox[1])
      BY <1>1, ProcessSessions
    <2>2. ASSUME NEW c \in Channels, NEW n, NEW k \in 1..Len(inbox), LeadsTo(c, k, n)
          PROVE  LeadsTo(c, k - 1, n)'
      <3>1. ~SetsSession(inbox[1], c) => channel_session_id'[c] = channel_session_id[c]
        BY <2>1 DEF Sessions, SetsSession
      <3>2. inbox[1].type = "MediaStartRequest" /\ inbox[1].chan = c =>
               channel_session_id'[c] = inbox[1].n
        <4> SUFFICES ASSUME inbox[1].type = "MediaStartRequest", inbox[1].chan = c
                     PROVE  o.ids[inbox[1].chan] = inbox[1].n
          OBVIOUS
        <4>1. inbox[1].chan \in MediaChannels
          BY <1>2 DEF Playing
        <4> QED BY <1>1, <1>4, <4>1, DispatchStart
      <3> QED BY <1>1, <2>2, <3>1, <3>2, LeadsToTail
    <2>3. o.state = "STARTED"
      BY <1>1, <1>4, StartedOutcomes DEF Established
    <2>4. ASSUME NEW i \in 1..Len(inbox'), inbox'[i].type \in Packets,
                 NEW c, NEW n, c = inbox'[i].chan, n = inbox'[i].n
          PROVE  LeadsTo(c, i - 1, n)'
      <3>1. LeadsTo(inbox[i + 1].chan, (i + 1) - 1, inbox[i + 1].n)
        BY <1>2, <2>4 DEF Playing
      <3>2. LeadsTo(c, i, n)
        BY <1>2, <2>4, <3>1
      <3>3. i \in 1..Len(inbox)
        BY <1>2, SMT
      <3>4. c \in Channels
        <4>1. inbox'[i] \in MsgType
          BY <1>1, <1>2, SMT
        <4> QED BY <2>4, <4>1, SMT DEF MsgType
      <3> QED BY <2>2, <3>2, <3>3, <3>4
    <2>5. ASSUME NEW c \in MediaChannels, phone'.progress[c] = "started",
                 NEW n, n = phone.session[c]
          PROVE  LeadsTo(c, Len(inbox), n)'
      <3>k. PICK k \in 1..Len(inbox) : k = Len(inbox)
        BY <1>2
      <3>1. LeadsTo(c, k, n)
        BY <2>5, <3>k DEF Playing
      <3>2. LeadsTo(c, k - 1, n)'
        BY <2>2, <3>1 DEF Channels
      <3>3. k - 1 = Len(inbox')
        BY <1>2, <3>k
      <3> QED BY <3>2, <3>3 DEF LeadsTo
    <2>6. \A i \in 1..Len(inbox') : inbox'[i].type \in Packets =>
             LeadsTo(inbox[i].chan, i - 1, inbox[i].n)'
      BY <2>4
    <2>7. \A c \in MediaChannels : phone'.progress[c] = "started" =>
             LeadsTo(c, Len(inbox), phone.session[c])'
      BY <1>2, <2>5
    <2> QED BY <1>2, <2>3, <2>6, <2>7 DEF Playing
  <1> QED BY <1>1, <1>3, <1>4 DEF Types

(* What HUServer says to m answers a question the phone waits on, with the *)
(* session it asked in, and that only m was about.                         *)
LEMMA NoEvent ==
    ASSUME Types, AskInv, NEW m, inbox # <<>>, m = inbox[1], Pending(m),
           m.type = "ChannelOpenRequest", m.chan = "Sensor"
    PROVE  \A j \in 1..Len(outbox) : outbox[j].type # "SensorEvent"
  <1>1. 1 \in 1..Len(inbox)
    BY SMT DEF Types
  <1>2. Answers[m.type] = "ChannelOpenResponse"
    BY AnswerTypes
  <1>3. Question(m) \in phone.waiting
    BY <1>1 DEF AskInv, Asking
  <1>4. Question(m).type = "ChannelOpenResponse" /\ Question(m).chan = "Sensor"
    BY <1>2 DEF Question, Msg
  <1>5. phone.progress["Sensor"] = "closed"
    BY <1>3, <1>4 DEF AskInv, Greeted, Opening
  <1>6. ASSUME NEW j \in 1..Len(outbox),
               outbox[j].type = "ChannelOpenResponse", outbox[j].chan = "Sensor"
        PROVE  FALSE
    <2>1. outbox[j] \in phone.waiting
      BY <1>6 DEF AskInv, Answering
    <2>2. outbox[j].n = 0 /\ Question(m).n = 0
      BY <1>3, <1>4, <1>6, <2>1 DEF AskInv, Numbered, Opening
    <2>3. outbox[j] \in MsgType
      BY SMT DEF Types
    <2>4. outbox[j] = [type |-> outbox[j].type, chan |-> outbox[j].chan, n |-> outbox[j].n]
      BY <2>3, SMT DEF MsgType
    <2>5. Question(m) = [type |-> Question(m).type, chan |-> Question(m).chan,
                         n |-> Question(m).n]
      BY DEF Question, Msg
    <2>6. outbox[j] = Question(m)
      BY <1>4, <1>6, <2>2, <2>4, <2>5
    <2> QED BY <1>1, <2>6 DEF AskInv, Alone
  <1> QED BY <1>5, <1>6 DEF AskInv, Greeted

(* A message of the handshake is of this connection, and so is m_ssl. *)
LEMMA HandshakeTurn ==
    ASSUME SessionInv, iaap_state # "STOPPED", inbox # <<>>,
           inbox[1].type \in HandshakeTypes \ {"VersionResponse"}
    PROVE  ssl.attempt = connections /\ (iaap_state = "STARTIN" => ssl.wants # "nothing")
  <1>1. CASE iaap_state = "STARTIN"
    <2>1. Handshake
      BY <1>1 DEF SessionInv
    <2> QED BY <2>1, SMT DEF Handshake, Keying, Keys
  <1>2. CASE iaap_state = "STARTED"
    BY <1>2 DEF SessionInv, Keys
  <1> QED BY <1>1, <1>2 DEF SessionInv, Types

(* HUServer answers with the number of the question. *)
LEMMA SaidAsked ==
    ASSUME SessionInv, AskInv, iaap_state # "STOPPED", inbox # <<>>,
           NEW m, m = inbox[1]
    PROVE  Said(m) = m.n
  <1>1. 1 \in 1..Len(inbox) /\ 0 = 1 - 1 /\ \A i \in 1..0 : FALSE
    BY SMT DEF SessionInv, Types
  <1>2. CASE m.type \in Packets
    <2>1. LeadsTo(m.chan, 0, m.n)
      BY <1>1, <1>2 DEF AskInv, Playing
    <2> QED BY <1>1, <1>2, <2>1 DEF LeadsTo, Said, Packets, HandshakeTypes
  <1>3. CASE m.type \in HandshakeTypes
    <2>1. m.n = connections
      BY <1>1, <1>3 DEF AskInv, OnControl
    <2>2. m.type # "VersionResponse" => ssl.attempt = connections
      BY <1>3, HandshakeTurn
    <2> QED BY <1>3, <2>1, <2>2 DEF Said, Packets, HandshakeTypes
  <1>4. CASE m.type \notin Packets \union HandshakeTypes
    BY <1>4 DEF Said, HandshakeTypes
  <1> QED BY <1>2, <1>3, <1>4

LEMMA ProcessAsks ==
    ASSUME SessionInv, AskInv, "MediaStartRequest" \notin Filtered, Process
    PROVE  AskInv'
  <1>1. PICK m \in MsgType :
          /\ m = inbox[1] /\ inbox # <<>> /\ iaap_state # "STOPPED" /\ Types
          /\ UNCHANGED connections
    BY ProcessCases DEF SessionInv
  <1>2. PICK o \in processMessage(m) :
          /\ channel_session_id' = o.ids /\ o.out \in Seq(MsgType)
          /\ \/ Ended
             \/ /\ ~Ends(o)
                /\ iaap_state' = o.state /\ inbox' = Tail(inbox)
                /\ outbox' = outbox \o o.out /\ phone' = phone
    BY <1>1, ProcessCases
  <1>3. CASE Ended
    BY <1>3, QuietAsks DEF Ended
  <1> SUFFICES ASSUME ~Ends(o), iaap_state' = o.state, inbox' = Tail(inbox),
                      outbox' = outbox \o o.out, phone' = phone
               PROVE  AskInv'
    BY <1>2, <1>3
  <1>4. /\ 1 \in 1..Len(inbox) /\ 0 = 1 - 1
        /\ \A i \in 1..Len(inbox') : i + 1 \in 1..Len(inbox) /\ i + 1 # 1
                                     /\ inbox'[i] = inbox[i + 1]
        /\ \A i, j \in 1..Len(inbox') : i # j => i + 1 # j + 1
    BY <1>1, SMT DEF Types
  <1>5. PICK l \in Nat : l = Len(outbox)
    BY <1>1, SMT DEF Types
  <1>6. Says(m, o.out) /\ (m.type \notin Filtered \/ o.out = <<>>)
    BY <1>1, <1>4, HandshakeTurn, ProcessSpoken DEF AskInv, OnControl
  <1>q. Question(m) = Msg(Answers[m.type], m.chan, Said(m))
    BY <1>1, SaidAsked DEF Question
  <1> DEFINE Old(j) == j \in 1..l /\ outbox'[j] = outbox[j]
             New(j) == j = l + 1 /\ Pending(m) /\ outbox'[j] = Question(m)
             Event(j) == /\ j = l + 2 /\ outbox'[j].type = "SensorEvent" /\ Pending(m)
                         /\ m.type = "ChannelOpenRequest" /\ m.chan = "Sensor"
                         /\ New(l + 1) /\ l + 1 \in 1..Len(outbox')
  <1>7. /\ \A j \in 1..l : j \in 1..Len(outbox') /\ outbox'[j] = outbox[j] /\ j # l + 1 /\ j # l + 2
        /\ \A k \in 1..Len(o.out) : l + k \in 1..Len(outbox') /\ outbox'[l + k] = o.out[k]
        /\ \A j \in 1..Len(outbox') : j \in 1..l \/ \E k \in 1..Len(o.out) : j = l + k
        /\ l + 1 # l + 2
    <2>1. outbox \in Seq(MsgType) /\ o.out \in Seq(MsgType) /\ l = Len(outbox)
      BY <1>1, <1>2, <1>5 DEF Types
    <2>2. \A j \in 1..l : j \in 1..Len(outbox') /\ outbox'[j] = outbox[j]
      BY <2>1, SMT
    <2>3. \A k \in 1..Len(o.out) : l + k \in 1..Len(outbox') /\ outbox'[l + k] = o.out[k]
      BY <2>1, SMT
    <2>4. ASSUME NEW j \in 1..Len(outbox'), j \notin 1..l
          PROVE  \E k \in 1..Len(o.out) : j = l + k
      <3>1. j - l \in 1..Len(o.out) /\ j = l + (j - l)
        BY <2>1, <2>4, SMT
      <3> QED BY <3>1
    <2>5. \A j \in 1..l : j # l + 1 /\ j # l + 2
      BY SMT
    <2>6. l + 1 # l + 2
      BY SMT
    <2> QED BY <2>2, <2>3, <2>4, <2>5, <2>6
  <1>8. \A j \in 1..Len(outbox') : Old(j) \/ New(j) \/ Event(j)
    <2>1. ASSUME NEW k \in 1..Len(o.out), k = 1
          PROVE  New(l + k)
      <3>1. m.type \in DOMAIN Answers
        BY <1>6, <2>1, SMT DEF Says
      <3>2. m.type \notin Filtered
        BY <1>6, <2>1, SMT
      <3>3. o.out[1] = Question(m)
        <4>1. o.out[1] = Msg(Answers[m.type], m.chan, Said(m))
          BY <1>6, <2>1, SMT DEF Says
        <4> QED BY <1>q, <4>1
      <3> QED BY <1>7, <2>1, <3>1, <3>2, <3>3 DEF Pending
    <2>2. ASSUME NEW k \in 1..Len(o.out), k = 2
          PROVE  Event(l + k)
      <3>1. 1 \in 1..Len(o.out)
        BY <1>2, <2>2, SMT
      <3>2. New(l + 1) /\ l + 1 \in 1..Len(outbox')
        BY <1>7, <2>1, <3>1
      <3>3. o.out[2].type = "SensorEvent" /\ m.type = "ChannelOpenRequest" /\ m.chan = "Sensor"
        BY <1>6, <2>2, SMT DEF Says
      <3> QED BY <1>7, <2>2, <3>2, <3>3
    <2>3. \A k \in 1..Len(o.out) : k = 1 \/ k = 2
      BY <1>6 DEF Says
    <2> SUFFICES ASSUME NEW j \in 1..Len(outbox'), j \notin 1..l
                 PROVE  New(j) \/ Event(j)
      BY <1>7
    <2>4. PICK k \in 1..Len(o.out) : j = l + k
      BY <1>7
    <2> HIDE DEF New, Event
    <2> QED BY <2>1, <2>2, <2>3, <2>4
  <1>9. /\ \A j \in 1..l : outbox[j].type # "SensorEvent" \/ \A k \in 1..Len(outbox') : ~Event(k)
    BY <1>1, <1>5, NoEvent
  <1>10. \A j \in 1..Len(outbox') : New(j) =>
            outbox'[j].type # "SensorEvent" /\ outbox'[j].type = Answers[m.type]
            /\ outbox'[j].chan = m.chan /\ m.type \in DOMAIN Answers
    <2>1. Question(m).type = Answers[m.type] /\ Question(m).chan = m.chan
      BY DEF Question, Msg
    <2> QED BY <2>1, AnswerFacts DEF Pending
  <1>11. \A i \in 1..Len(inbox') : Pending(inbox'[i]) =>
            /\ Pending(inbox[i + 1]) /\ inbox'[i].type \in DOMAIN Answers
            /\ Pending(m) => Question(inbox'[i]) # Question(m)
    <2> SUFFICES ASSUME NEW i \in 1..Len(inbox'), Pending(inbox'[i])
                 PROVE  /\ Pending(inbox[i + 1]) /\ inbox'[i].type \in DOMAIN Answers
                        /\ Pending(m) => Question(inbox'[i]) # Question(m)
      OBVIOUS
    <2>1. /\ i + 1 \in 1..Len(inbox) /\ i + 1 # 1 /\ inbox'[i] = inbox[i + 1]
          /\ 1 \in 1..Len(inbox) /\ m = inbox[1]
      BY <1>1, <1>4
    <2>2. \A j, k \in 1..Len(inbox) :
             j # k /\ Pending(inbox[j]) /\ Pending(inbox[k]) =>
                 Question(inbox[j]) # Question(inbox[k])
      BY DEF AskInv, Alone
    <2>3. Pending(inbox[i + 1])
      BY <2>1
    <2> QED BY <2>1, <2>2, <2>3 DEF Pending
  <1>12. Asking'
    BY <1>4 DEF AskInv, Asking, Pending, Question
  <1>13. Answering'
    <2> SUFFICES ASSUME NEW j \in 1..Len(outbox'), outbox'[j].type # "SensorEvent"
                 PROVE  outbox'[j] \in phone.waiting
      BY DEF Answering
    <2>1. CASE Old(j)
      BY <1>5, <2>1 DEF AskInv, Answering
    <2>2. CASE New(j)
      BY <1>1, <1>4, <2>2 DEF AskInv, Asking
    <2> QED BY <1>8, <2>1, <2>2
  <1>14. Alone'
    <2>1. ASSUME NEW i \in 1..Len(inbox'), NEW j \in 1..Len(inbox'), i # j,
                 Pending(inbox'[i]), Pending(inbox'[j])
          PROVE  Question(inbox'[i]) # Question(inbox'[j])
      BY <1>4, <2>1 DEF AskInv, Alone
    <2>2. ASSUME NEW i \in 1..Len(inbox'), NEW j \in 1..Len(outbox'), Pending(inbox'[i])
          PROVE  outbox'[j] # Question(inbox'[i])
      <3>1. CASE Old(j)
        BY <1>4, <1>5, <2>2, <3>1 DEF AskInv, Alone
      <3>2. CASE New(j)
        BY <1>11, <2>2, <3>2
      <3>3. CASE Event(j)
        <4>1. Question(inbox'[i]).type = Answers[inbox'[i].type]
          BY DEF Question, Msg
        <4> QED BY <1>11, <2>2, <3>3, <4>1, AnswerFacts
      <3> QED BY <1>8, <3>1, <3>2, <3>3
    <2>3. ASSUME NEW i \in 1..Len(outbox'), NEW j \in 1..Len(outbox'), i # j
          PROVE  outbox'[i] # outbox'[j]
      <3>1. ASSUME NEW a \in 1..Len(outbox'), NEW b \in 1..Len(outbox'), Old(a), New(b)
            PROVE  outbox'[a] # outbox'[b]
        BY <1>1, <1>4, <1>5, <3>1 DEF AskInv, Alone
      <3>2. ASSUME NEW a \in 1..Len(outbox'), NEW b \in 1..Len(outbox'),
                   Old(a) \/ New(a), Event(b)
            PROVE  outbox'[a] # outbox'[b]
        BY <1>9, <1>10, <3>2
      <3>3. CASE Old(i) /\ Old(j)
        BY <1>5, <2>3, <3>3 DEF AskInv, Alone
      <3>4. ~(New(i) /\ New(j)) /\ ~(Event(i) /\ Event(j))
        BY <2>3
      <3>5. Old(i) \/ New(i) \/ Event(i)
        BY <1>8
      <3>6. Old(j) \/ New(j) \/ Event(j)
        BY <1>8
      <3> HIDE DEF Old, New, Event
      <3>7. CASE Event(i)
        BY <3>2, <3>4, <3>6, <3>7
      <3>8. CASE Event(j)
        BY <3>2, <3>4, <3>5, <3>8
      <3> QED BY <3>1, <3>3, <3>4, <3>5, <3>6, <3>7, <3>8
    <2>4. \A i, j \in 1..Len(inbox') :
             i # j /\ Pending(inbox'[i]) /\ Pending(inbox'[j]) =>
                 Question(inbox'[i]) # Question(inbox'[j])
      BY <2>1
    <2>5. \A i \in 1..Len(inbox'), j \in 1..Len(outbox') :
             Pending(inbox'[i]) => outbox'[j] # Question(inbox'[i])
      BY <2>2
    <2>6. \A i, j \in 1..Len(outbox') : i # j => outbox'[i] # outbox'[j]
      BY <2>3
    <2> HIDE DEF Old, New, Event
    <2> QED BY ONLY <2>4, <2>5, <2>6 DEF Alone, Pending, Question
  <1>15. Greeted'
    <2>1. ASSUME NEW j \in 1..Len(outbox'), outbox'[j].type = "SensorEvent"
          PROVE  \/ phone.progress["Sensor"] = "open"
                 \/ \E k \in 1..Len(outbox') :
                       outbox'[k].type = "ChannelOpenResponse" /\ outbox'[k].chan = "Sensor"
      <3>1. CASE Old(j)
        <4>1. \/ phone.progress["Sensor"] = "open"
              \/ \E k \in 1..l :
                    outbox[k].type = "ChannelOpenResponse" /\ outbox[k].chan = "Sensor"
          BY <1>5, <2>1, <3>1 DEF AskInv, Greeted
        <4> QED BY <1>7, <4>1
      <3>2. CASE Event(j)
        BY <1>10, <3>2, AnswerTypes
      <3> QED BY <1>8, <1>10, <2>1, <3>1, <3>2
    <2>2. \A w \in phone.waiting :
             w.chan = "Sensor" /\ w.type \in Opening =>
                 w.type = "ChannelOpenResponse" /\ phone.progress["Sensor"] = "closed"
      BY DEF AskInv, Greeted
    <2> QED BY <2>1, <2>2 DEF Greeted
  <1>16. Playing'
    BY <1>1, <1>2, ProcessPlaying DEF AskInv
  <1>17. Numbered' /\ OnControl'
    BY <1>1, <1>4 DEF AskInv, Numbered, OnControl
  <1> QED BY <1>12, <1>13, <1>14, <1>15, <1>16, <1>17 DEF AskInv

(* Nothing like m is under way. *)
Fresh(m) ==
    \/ inbox = <<>> /\ outbox = <<>>
    \/ Question(m) \notin phone.waiting

(* The phone sends m: what that makes of its questions, its channels and   *)
(* its streams.                                                            *)
Utters(m) ==
    /\ m \in MsgType /\ inbox' = Append(inbox, m)
    /\ UNCHANGED <<iaap_state, channel_session_id, outbox, connections>>
    /\ m.type \in HandshakeTypes => m.chan = "Control" /\ m.n = connections
    /\ Pending(m) => Fresh(m)
    /\ Pending(m) /\ Answers[m.type] \in Opening => m.n = 0
    /\ Pending(m) /\ Answers[m.type] \in OtherAnswers => m.n <= phone'.others
    /\ Pending(m) /\ m.chan = "Sensor" /\ Answers[m.type] \in Opening =>
          m.type = "ChannelOpenRequest" /\ phone.progress["Sensor"] = "closed"
    /\ phone'.waiting = phone.waiting \union {q \in {Question(m)} : Pending(m)}
    /\ phone'.others \in {phone.others, phone.others + 1}
    /\ phone'.progress["Sensor"] = phone.progress["Sensor"]
    /\ m.type \in {"MediaStartRequest"} \union Packets =>
          iaap_state # "STARTIN" /\ m.chan \in MediaChannels
    /\ m.type \in Packets => phone.progress[m.chan] = "started" /\ m.n = phone.session[m.chan]
    /\ \A c \in MediaChannels : phone'.progress[c] = "started" =>
          \/ m.type = "MediaStartRequest" /\ m.chan = c /\ m.n = phone'.session[c]
          \/ /\ ~SetsSession(m, c)
             /\ phone.progress[c] = "started" /\ phone'.session[c] = phone.session[c]

LEMMA UttersPlaying ==
    ASSUME Types, Playing, NEW m, Utters(m)
    PROVE  Playing'
  <1>1. PICK l \in Nat : l = Len(inbox)
    BY SMT DEF Types
  <1>2. /\ m \in MsgType /\ inbox' = Append(inbox, m) /\ inbox \in Seq(MsgType)
        /\ iaap_state' = iaap_state /\ channel_session_id' = channel_session_id
    BY DEF Utters, Types
  <1>3. /\ \A i \in 1..Len(inbox') : \/ i \in 1..l /\ inbox'[i] = inbox[i] /\ i - 1 \in 0..l
                                     \/ i = l + 1 /\ inbox'[i] = m
        /\ Len(inbox') = l + 1 /\ (l + 1) - 1 = l /\ l \in 0..l
    BY <1>1, <1>2, SMT
  <1>4. iaap_state' = "STARTIN" => \A i \in 1..Len(inbox') :
           inbox'[i].type \notin {"MediaStartRequest"} \union Packets
    BY <1>1, <1>2, <1>3 DEF Playing, Utters
  <1>5. \A i \in 1..Len(inbox') :
           inbox'[i].type = "MediaStartRequest" => inbox'[i].chan \in MediaChannels
    BY <1>1, <1>2, <1>3 DEF Playing, Utters
  <1>6. ASSUME NEW i \in 1..Len(inbox'), inbox'[i].type \in Packets,
               NEW c, NEW n, c = inbox'[i].chan, n = inbox'[i].n
        PROVE  LeadsTo(c, i - 1, n)'
    <2>1. i - 1 \in 0..l /\ LeadsTo(c, i - 1, n)
      <3>1. CASE i \in 1..l /\ inbox'[i] = inbox[i] /\ i - 1 \in 0..l
        BY <1>1, <1>6, <3>1 DEF Playing
      <3>2. CASE i = l + 1 /\ inbox'[i] = m
        <4>1. c \in MediaChannels /\ phone.progress[c] = "started" /\ n = phone.session[c]
          BY <1>6, <3>2 DEF Utters
        <4>2. LeadsTo(c, l, n)
          BY <1>1, <4>1 DEF Playing
        <4> QED BY <1>3, <3>2, <4>2
      <3> QED BY <1>3, <3>1, <3>2
    <2> QED BY <1>1, <1>2, <2>1, LeadsToAppend
  <1>7. ASSUME NEW c \in MediaChannels, phone'.progress[c] = "started",
               NEW n, n = phone'.session[c]
        PROVE  LeadsTo(c, Len(inbox), n)'
    <2>1. CASE m.type = "MediaStartRequest" /\ m.chan = c /\ m.n = n
      BY <1>2, <2>1, LeadsToAppend
    <2>2. CASE ~SetsSession(m, c) /\ phone.progress[c] = "started" /\ n = phone.session[c]
      <3>1. LeadsTo(c, Len(inbox), n)
        BY <2>2 DEF Playing
      <3> QED BY <1>2, <2>2, <3>1, LeadsToAppend
    <2> QED BY <1>7, <2>1, <2>2 DEF Utters
  <1>8. \A i \in 1..Len(inbox') : inbox'[i].type \in Packets =>
           LeadsTo(inbox[i].chan, i - 1, inbox[i].n)'
    BY <1>6
  <1>9. \A c \in MediaChannels : phone'.progress[c] = "started" =>
           LeadsTo(c, Len(inbox), phone.session[c])'
    BY <1>7
  <1> QED BY <1>4, <1>5, <1>8, <1>9 DEF Playing

LEMMA UttersAsks ==
    ASSUME Types, AskInv, NEW m, Utters(m)
    PROVE  AskInv'
  <1>1. PICK l \in Nat : l = Len(inbox)
    BY SMT DEF Types
  <1>2. /\ m \in MsgType /\ inbox' = Append(inbox, m) /\ inbox \in Seq(MsgType)
        /\ outbox' = outbox
    BY DEF Utters, Types
  <1> DEFINE Old(i) == i \in 1..l /\ inbox'[i] = inbox[i]
             New(i) == i = l + 1 /\ inbox'[i] = m
  <1>3. \A i \in 1..Len(inbox') : Old(i) \/ New(i)
    BY <1>1, <1>2, SMT
  <1>4. /\ phone.waiting \subseteq phone'.waiting
        /\ Pending(m) => Question(m) \in phone'.waiting
        /\ \A w \in phone'.waiting : w \in phone.waiting \/ (Pending(m) /\ w = Question(m))
    BY DEF Utters
  <1>5. ASSUME Pending(m)
        PROVE  /\ \A i \in 1..l : Pending(inbox[i]) => Question(inbox[i]) # Question(m)
               /\ \A j \in 1..Len(outbox) : outbox[j] # Question(m)
    <2>1. CASE inbox = <<>> /\ outbox = <<>>
      <3>1. \A i \in 1..l : FALSE
        BY <1>1, <2>1, SMT
      <3>2. \A j \in 1..Len(outbox) : FALSE
        BY <2>1, SMT
      <3> QED BY <3>1, <3>2
    <2>2. CASE Question(m) \notin phone.waiting
      <3>1. \A i \in 1..l : Pending(inbox[i]) => Question(inbox[i]) # Question(m)
        BY <1>1, <2>2 DEF AskInv, Asking
      <3>2. Question(m).type # "SensorEvent"
        BY <1>5, AnswerFacts DEF Question, Msg, Pending
      <3> QED BY <2>2, <3>1, <3>2 DEF AskInv, Answering
    <2> QED BY <1>5, <2>1, <2>2 DEF Utters, Fresh
  <1>6. Asking'
    <2>1. ASSUME NEW i \in 1..Len(inbox'), Pending(inbox'[i])
          PROVE  Question(inbox'[i]) \in phone'.waiting
      BY <1>1, <1>3, <1>4, <2>1 DEF AskInv, Asking
    <2> QED BY <2>1 DEF Asking, Pending, Question
  <1>7. Answering'
    BY <1>2, <1>4 DEF AskInv, Answering
  <1>8. Alone'
    <2>1. ASSUME NEW i \in 1..Len(inbox'), NEW j \in 1..Len(inbox'), i # j,
                 Pending(inbox'[i]), Pending(inbox'[j])
          PROVE  Question(inbox'[i]) # Question(inbox'[j])
      <3>1. CASE Old(i) /\ Old(j)
        BY <1>1, <2>1, <3>1 DEF AskInv, Alone
      <3>2. CASE Old(i) /\ New(j)
        BY <1>5, <2>1, <3>2
      <3>3. CASE New(i) /\ Old(j)
        BY <1>5, <2>1, <3>3
      <3>4. ~(New(i) /\ New(j))
        BY <2>1
      <3> QED BY <1>3, <3>1, <3>2, <3>3, <3>4
    <2>2. ASSUME NEW i \in 1..Len(inbox'), NEW j \in 1..Len(outbox'), Pending(inbox'[i])
          PROVE  outbox'[j] # Question(inbox'[i])
      <3>1. CASE Old(i)
        BY <1>1, <1>2, <2>2, <3>1 DEF AskInv, Alone
      <3>2. CASE New(i)
        BY <1>2, <1>5, <2>2, <3>2
      <3> QED BY <1>3, <3>1, <3>2
    <2>3. \A i, j \in 1..Len(outbox') : i # j => outbox'[i] # outbox'[j]
      BY <1>2 DEF AskInv, Alone
    <2>4. \A i, j \in 1..Len(inbox') :
             i # j /\ Pending(inbox'[i]) /\ Pending(inbox'[j]) =>
                 Question(inbox'[i]) # Question(inbox'[j])
      BY <2>1
    <2>5. \A i \in 1..Len(inbox'), j \in 1..Len(outbox') :
             Pending(inbox'[i]) => outbox'[j] # Question(inbox'[i])
      BY <2>2
    <2> HIDE DEF Old, New
    <2> QED BY ONLY <2>3, <2>4, <2>5 DEF Alone, Pending, Question
  <1>9. Greeted'
    <2>1. phone'.progress["Sensor"] = phone.progress["Sensor"]
      BY DEF Utters
    <2>2. Pending(m) /\ Question(m).chan = "Sensor" /\ Question(m).type \in Opening =>
             Question(m).type = "ChannelOpenResponse" /\ phone.progress["Sensor"] = "closed"
      BY AnswerTypes DEF Utters, Question, Msg
    <2> QED BY <1>2, <1>4, <2>1, <2>2 DEF AskInv, Greeted
  <1>10. Numbered'
    <2>1. ASSUME NEW w \in phone.waiting, w.type \in OtherAnswers
          PROVE  w.n <= phone'.others
      <3>1. w.n <= phone.others
        BY <2>1 DEF AskInv, Numbered
      <3>2. phone.others \in Nat /\ phone.waiting \in Awaited
        BY Zenon DEF Types, PhoneType
      <3>3. w.n \in Nat
        BY <3>2, SMT DEF Awaited
      <3>4. phone'.others \in {phone.others, phone.others + 1}
        BY DEF Utters
      <3> QED BY <3>1, <3>2, <3>3, <3>4, SMT
    <2>2. Question(m).type = Answers[m.type] /\ Question(m).n = m.n
      BY DEF Question, Msg
    <2> QED BY <1>4, <2>1, <2>2 DEF AskInv, Numbered, Utters
  <1>11. OnControl'
    BY <1>1, <1>3 DEF AskInv, OnControl, Utters
  <1>12. Playing'
    BY UttersPlaying DEF AskInv
  <1> QED BY <1>6, <1>7, <1>8, <1>9, <1>10, <1>11, <1>12 DEF AskInv

LEMMA SendsFields ==
    ASSUME NEW m \in MsgType, NEW next \in PhoneType, Sends(m, next)
    PROVE  /\ inbox' = Append(inbox, m)
           /\ UNCHANGED <<iaap_state, channel_session_id, outbox>>
           /\ phone'.waiting = next.waiting \union {q \in {Question(m)} : Pending(m)}
           /\ phone'.progress = next.progress /\ phone'.session = next.session
           /\ phone'.others = next.others
  <1>1. /\ inbox' = Append(inbox, m)
        /\ UNCHANGED <<iaap_state, channel_session_id, outbox>>
    BY DEF Sends, huVars
  <1>2. CASE Pending(m)
    <2> DEFINE waiting == next.waiting \union {Question(m)}
    <2>1. phone' = [next EXCEPT !.waiting = waiting]
      BY <1>2 DEF Sends, Pending, Question
    <2>2. waiting = next.waiting \union {q \in {Question(m)} : Pending(m)}
      BY <1>2
    <2> HIDE DEF waiting
    <2>3. /\ phone'.waiting = waiting
          /\ phone'.progress = next.progress /\ phone'.session = next.session
          /\ phone'.others = next.others
      BY <2>1, Zenon DEF PhoneType
    <2> QED BY <1>1, <2>2, <2>3
  <1>3. CASE ~Pending(m)
    <2>1. phone' = next
      BY <1>3 DEF Sends, Pending
    <2>2. next.waiting = next.waiting \union {q \in {Question(m)} : Pending(m)}
      BY <1>3
    <2> QED BY <1>1, <2>1, <2>2
  <1> QED BY <1>2, <1>3

(* A message that does not start or stop a stream. *)
LEMMA SteadyUtters ==
    ASSUME NEW m \in MsgType, NEW next \in PhoneType, Sends(m, next),
           next.waiting = phone.waiting, next.progress = phone.progress,
           next.session = phone.session, connections' = connections,
           m.type \notin {"MediaStartRequest", "MediaStopRequest"},
           m.type \in HandshakeTypes => m.chan = "Control" /\ m.n = connections,
           Pending(m) => Fresh(m),
           Pending(m) /\ Answers[m.type] \in Opening => m.n = 0,
           Pending(m) /\ Answers[m.type] \in OtherAnswers => m.n <= next.others,
           Pending(m) /\ m.chan = "Sensor" /\ Answers[m.type] \in Opening =>
               m.type = "ChannelOpenRequest" /\ phone.progress["Sensor"] = "closed",
           next.others \in {phone.others, phone.others + 1},
           m.type \in Packets =>
               /\ iaap_state # "STARTIN" /\ m.chan \in MediaChannels
               /\ phone.progress[m.chan] = "started" /\ m.n = phone.session[m.chan]
    PROVE  Utters(m)
  <1>1. \A c : ~SetsSession(m, c)
    BY DEF SetsSession
  <1> QED BY <1>1, SendsFields DEF Utters

LEMMA HandshakeUtters ==
    ASSUME SessionInv, AskInv, PhoneHandshake
    PROVE  \E m : Utters(m)
  <1>1. Types /\ iaap_state \in {"STARTIN", "STARTED"} /\ phone.step \in {0, 2, 4}
    BY SMT DEF SessionInv, PhoneHandshake, Sends, Types
  <1>2. phone.step # 5
    BY <1>1, SMT
  <1>3. iaap_state = "STARTIN" /\ Handshake
    BY <1>1, <1>2 DEF SessionInv
  <1>4. PICK type \in CASE phone.step = 0 -> {"VersionResponse"}
                         [] phone.step = 2 -> {"ServerHello", "PartOfServerHello"}
                         [] phone.step = 4 -> {"ServerFinished", "PartOfServerFinished"} :
          Sends(Msg(type, "Control", connections), [phone EXCEPT !.step = @ + 1])
    BY DEF PhoneHandshake
  <1>5. type \in HandshakeTypes
    BY <1>1, <1>4, SMT DEF HandshakeTypes
  <1> DEFINE m    == Msg(type, "Control", connections)
             next == [phone EXCEPT !.step = phone.step + 1]
  <1>6. m \in MsgType /\ m.type = type /\ m.chan = "Control" /\ m.n = connections
    <2>1. type \in Names /\ "Control" \in Channels
      BY <1>5 DEF Names, Channels, FixedChannels
    <2> QED BY <1>1, <2>1, SMT DEF Msg, MsgType, Types
  <1>7. /\ next \in PhoneType /\ next.waiting = phone.waiting
        /\ next.progress = phone.progress /\ next.session = phone.session
        /\ next.others = phone.others
    <2>1. phone.step + 1 \in Steps /\ phone \in PhoneType
      BY <1>1, SMT DEF Steps, Types
    <2> QED BY <2>1, Zenon DEF PhoneType
  <1>8. Sends(m, next)
    BY <1>4
  <1> HIDE DEF m, next
  <1>9. inbox = <<>> /\ outbox = <<>>
    BY <1>1, <1>2, <1>3, SMT DEF Handshake
  <1>10. m.type \notin {"MediaStartRequest", "MediaStopRequest"} \union Packets
    BY <1>5, <1>6, SMT DEF HandshakeTypes, Packets
  <1>11. Pending(m) => Answers[m.type] \notin Opening \union OtherAnswers
    BY <1>5, <1>6, AnswerKinds DEF Pending
  <1>12. connections' = connections
    BY DEF PhoneHandshake, counters
  <1>13. Utters(m)
    BY <1>5, <1>6, <1>7, <1>8, <1>9, <1>10, <1>11, <1>12, SteadyUtters DEF Fresh
  <1> QED BY <1>13

LEMMA AsksUtters ==
    ASSUME SessionInv, NEW chan \in Channels, PhoneAsks(chan)
    PROVE  \E m : Utters(m)
  <1>1. phone \in PhoneType /\ ~WaitsOn(chan) /\ connections' = connections
    BY DEF PhoneAsks, SessionInv, Types, counters
  <1>2. PICK type \in {"ServiceDiscoveryRequest", "ChannelOpenRequest", "MediaSetupRequest"} :
          /\ Sends(Msg(type, chan, 0), phone)
          /\ \/ type = "ServiceDiscoveryRequest" /\ chan = "Control"
             \/ type = "ChannelOpenRequest" /\ phone.progress[chan] = "closed"
             \/ type = "MediaSetupRequest" /\ chan \in MediaChannels
    BY SMT DEF PhoneAsks
  <1> DEFINE m == Msg(type, chan, 0)
  <1>3. /\ m \in MsgType /\ m.type = type /\ m.chan = chan /\ m.n = 0
        /\ m.type \notin HandshakeTypes /\ m.type \in Requests
        /\ m.type \notin {"MediaStartRequest", "MediaStopRequest"} \union Packets
    <2>1. type \in Requests /\ type \notin {"MediaStartRequest", "MediaStopRequest"} \union Packets
      BY DEF Requests, Packets
    <2> QED BY <2>1, MessageTypes, SMT DEF Msg
  <1>4. Sends(m, phone)
    BY <1>2
  <1> HIDE DEF m
  <1>5. Fresh(m)
    <2>1. Question(m).chan = chan
      BY <1>3 DEF Question, Msg
    <2> QED BY <1>1, <2>1 DEF WaitsOn, Fresh
  <1>o. Pending(m) => Answers[m.type] \notin OtherAnswers
    BY <1>3, AnswerKinds DEF Pending
  <1>6. m.chan = "Sensor" =>
           m.type = "ChannelOpenRequest" /\ phone.progress["Sensor"] = "closed"
    <2>1. "Sensor" \notin MediaChannels
      BY ChannelsAssumption DEF ChannelsAssumption, FixedChannels
    <2> QED BY <1>2, <1>3, <2>1
  <1>7. Utters(m)
    BY <1>1, <1>3, <1>4, <1>5, <1>o, <1>6, SteadyUtters
  <1> QED BY <1>7

LEMMA StreamsUtters ==
    ASSUME SessionInv, NEW chan \in MediaChannels,
           NEW type \in Packets, PhoneStreams(chan, type)
    PROVE  \E m : Utters(m)
  <1>1. /\ chan \in Channels /\ type \in Requests
        /\ phone \in PhoneType /\ phone.session[chan] \in Nat
        /\ phone.progress[chan] = "started" /\ ~WaitsOn(chan)
        /\ connections' = connections
    BY SMT DEF Channels, Requests, Packets, SessionInv, Types, PhoneType, IdsType,
               PhoneStreams, counters
  <1> DEFINE m == Msg(type, chan, phone.session[chan])
  <1>2. Sends(m, phone)
    BY DEF PhoneStreams
  <1>3. /\ m \in MsgType /\ m.type = type /\ m.chan = chan /\ m.n = phone.session[chan]
        /\ m.type \notin HandshakeTypes /\ m.type \in Requests
        /\ m.type \notin {"MediaStartRequest", "MediaStopRequest"}
    <2>1. type \notin {"MediaStartRequest", "MediaStopRequest"}
      BY DEF Packets
    <2> QED BY <1>1, <2>1, MessageTypes, SMT DEF Msg
  <1> HIDE DEF m
  <1>4. iaap_state # "STARTIN"
    BY <1>1 DEF SessionInv, Handshake
  <1>5. Fresh(m)
    <2>1. Question(m).chan = chan
      BY <1>3 DEF Question, Msg
    <2> QED BY <1>1, <2>1 DEF WaitsOn, Fresh
  <1>o. Pending(m) => Answers[m.type] \notin OtherAnswers
    BY <1>3, AnswerKinds DEF Pending
  <1>6. m.chan # "Sensor" /\ Answers[m.type] \notin Opening
    <2>1. Answers[m.type] = "MediaAck"
      BY <1>3, AnswerTypes DEF Packets
    <2> QED BY <1>3, <2>1, ChannelsAssumption DEF ChannelsAssumption, FixedChannels, Opening
  <1>7. Utters(m)
    BY <1>1, <1>2, <1>3, <1>4, <1>5, <1>o, <1>6, SteadyUtters
  <1> QED BY <1>7

(* The phone waits for no answer with the next number. *)
LEMMA OtherUtters ==
    ASSUME SessionInv, AskInv, NEW other \in OtherMessages, PhoneSendsOther(other)
    PROVE  \E m : Utters(m)
  <1>1. PICK k : k = phone.others + 1
    OBVIOUS
  <1>2. /\ phone \in PhoneType /\ phone.others \in Nat /\ k \in Nat
        /\ connections' = connections
    <2>1. phone \in PhoneType /\ connections' = connections
      BY DEF SessionInv, Types, PhoneSendsOther, counters
    <2>2. phone.others \in Nat
      BY <2>1, Zenon DEF PhoneType
    <2> QED BY <1>1, <2>1, <2>2, SMT
  <1> DEFINE next == [phone EXCEPT !.others = k]
             m    == [other EXCEPT !.n = k]
  <1>3. Sends(m, next)
    BY <1>1 DEF PhoneSendsOther
  <1>4. /\ next \in PhoneType /\ next.waiting = phone.waiting
        /\ next.progress = phone.progress /\ next.session = phone.session
        /\ next.others = k
    BY <1>2, Zenon DEF PhoneType
  <1>5. /\ m \in MsgType /\ m.n = k
        /\ m.type \notin HandshakeTypes /\ m.type \notin Requests
    BY <1>2, OtherMessage
  <1> HIDE DEF next, m
  <1>6. Pending(m) => Answers[m.type] \in OtherAnswers
    BY <1>5, AnswerKinds DEF Pending
  <1>7. Pending(m) => Fresh(m) /\ Answers[m.type] \notin Opening
    <2> SUFFICES ASSUME Pending(m), Question(m) \in phone.waiting PROVE FALSE
      BY <1>6, AnswerKinds DEF Fresh
    <2>1. Question(m).type \in OtherAnswers /\ Question(m).n = k
      BY <1>5, <1>6 DEF Question, Msg
    <2>2. k <= phone.others
      BY <2>1 DEF AskInv, Numbered
    <2> QED BY <1>1, <1>2, <2>2, SMT
  <1>8. m.type \notin {"MediaStartRequest", "MediaStopRequest"} \union Packets
    BY <1>5 DEF Requests, Packets
  <1>9. m.n <= next.others /\ next.others \in {phone.others, phone.others + 1}
    BY <1>1, <1>2, <1>4, <1>5, SMT
  <1>10. Utters(m)
    BY <1>2, <1>3, <1>4, <1>5, <1>7, <1>8, <1>9, SteadyUtters
  <1> QED BY <1>10

LEMMA StartsUtters ==
    ASSUME SessionInv, NEW chan \in MediaChannels, PhoneStarts(chan)
    PROVE  \E m : Utters(m)
  <1>1. chan \in Channels /\ phone \in PhoneType
        /\ phone.progress \in Progress /\ phone.session \in IdsType
        /\ phone.progress[chan] = "setup" /\ streams' \in Nat
        /\ connections' = connections
    BY SMT DEF Channels, SessionInv, Types, PhoneType, PhoneStarts
  <1> DEFINE progress == [phone.progress EXCEPT ![chan] = "started"]
             session  == [phone.session EXCEPT ![chan] = streams']
             next     == [phone EXCEPT !.progress = progress, !.session = session]
             m        == Msg("MediaStartRequest", chan, streams')
  <1>2. /\ progress \in Progress /\ session \in IdsType
        /\ \A c \in Channels \ {chan} :
              progress[c] = phone.progress[c] /\ session[c] = phone.session[c]
        /\ session[chan] = streams'
    BY <1>1, SMT DEF Progress, IdsType
  <1>3. Sends(m, next)
    BY DEF PhoneStarts
  <1> HIDE DEF progress, session
  <1>4. /\ next \in PhoneType /\ next.waiting = phone.waiting
        /\ next.progress = progress /\ next.session = session
        /\ next.others = phone.others
    BY <1>1, <1>2, Zenon DEF PhoneType
  <1>5. /\ m \in MsgType /\ m.type = "MediaStartRequest" /\ m.chan = chan /\ m.n = streams'
        /\ m.type \notin HandshakeTypes /\ m.type \in Requests
    <2>1. "MediaStartRequest" \in Requests
      BY DEF Requests
    <2> QED BY <1>1, <2>1, MessageTypes, SMT DEF Msg
  <1> HIDE DEF next, m
  <1>6. iaap_state # "STARTIN"
    BY <1>1 DEF SessionInv, Handshake
  <1>7. ~Pending(m) /\ m.type \notin Packets
    <2>1. "MediaStartRequest" \notin DOMAIN Answers
      BY AnswerFacts, SMT DEF HandshakeTypes
    <2> QED BY <1>5, <2>1 DEF Pending, Packets
  <1>8. "Sensor" \in Channels \ {chan}
    BY ChannelsAssumption DEF ChannelsAssumption, Channels, FixedChannels
  <1>9. \A c \in MediaChannels : phone'.progress[c] = "started" =>
          \/ m.type = "MediaStartRequest" /\ m.chan = c /\ m.n = phone'.session[c]
          \/ /\ ~SetsSession(m, c)
             /\ phone.progress[c] = "started" /\ phone'.session[c] = phone.session[c]
    BY <1>2, <1>3, <1>4, <1>5, SendsFields DEF SetsSession, Channels
  <1>10. Utters(m)
    BY <1>1, <1>2, <1>3, <1>4, <1>5, <1>6, <1>7, <1>8, <1>9, SendsFields DEF Utters
  <1> QED BY <1>10

LEMMA StopsUtters ==
    ASSUME SessionInv, NEW chan \in MediaChannels, PhoneStops(chan)
    PROVE  \E m : Utters(m)
  <1>1. /\ chan \in Channels /\ phone \in PhoneType /\ phone.progress \in Progress
        /\ connections' = connections
    BY SMT DEF Channels, SessionInv, Types, PhoneType, PhoneStops, counters
  <1> DEFINE progress == [phone.progress EXCEPT ![chan] = "setup"]
             next     == [phone EXCEPT !.progress = progress]
             m        == Msg("MediaStopRequest", chan, 0)
  <1>2. /\ progress \in Progress /\ progress[chan] = "setup"
        /\ \A c \in Channels \ {chan} : progress[c] = phone.progress[c]
    BY <1>1, SMT DEF Progress
  <1>3. Sends(m, next)
    BY DEF PhoneStops
  <1> HIDE DEF progress
  <1>4. /\ next \in PhoneType /\ next.waiting = phone.waiting
        /\ next.progress = progress /\ next.session = phone.session
        /\ next.others = phone.others
    BY <1>1, <1>2, Zenon DEF PhoneType
  <1>5. /\ m \in MsgType /\ m.type = "MediaStopRequest" /\ m.chan = chan
        /\ m.type \notin HandshakeTypes /\ m.type \in Requests
    <2>1. "MediaStopRequest" \in Requests
      BY DEF Requests
    <2> QED BY <1>1, <2>1, MessageTypes, SMT DEF Msg
  <1> HIDE DEF next, m
  <1>6. ~Pending(m) /\ m.type \notin {"MediaStartRequest"} \union Packets
    <2>1. "MediaStopRequest" \notin DOMAIN Answers
      BY AnswerFacts, SMT DEF HandshakeTypes
    <2> QED BY <1>5, <2>1 DEF Pending, Packets
  <1>7. "Sensor" \in Channels \ {chan}
    BY ChannelsAssumption DEF ChannelsAssumption, Channels, FixedChannels
  <1>8. \A c \in MediaChannels : phone'.progress[c] = "started" =>
             /\ ~SetsSession(m, c)
             /\ phone.progress[c] = "started" /\ phone'.session[c] = phone.session[c]
    BY <1>2, <1>3, <1>4, <1>5, SendsFields DEF SetsSession, Channels
  <1>9. Utters(m)
    BY <1>1, <1>2, <1>3, <1>4, <1>5, <1>6, <1>7, <1>8, SendsFields DEF Utters
  <1> QED BY <1>9

LEMMA ReceivesEffect ==
    ASSUME Types, PhoneReceives, phone.step # 6, NEW m, m = Head(outbox)
    PROVE  /\ phone'.waiting = phone.waiting \ {m}
           /\ phone'.session = phone.session /\ phone'.others = phone.others
           /\ \A c \in Channels :
                 \/ phone'.progress[c] = phone.progress[c] /\ (m.type \notin Opening \/ m.chan # c)
                 \/ /\ m.type \in Opening /\ m.chan = c
                    /\ phone'.progress[c] = IF m.type = "MediaSetupResponse"
                                            THEN "setup" ELSE "open"
  <1> DEFINE waiting == phone.waiting \ {m}
             rest    == [phone EXCEPT !.waiting = waiting]
  <1>1. m.chan \in Channels /\ phone \in PhoneType
    <2>1. m \in MsgType
      BY SMT DEF Types, PhoneReceives
    <2> QED BY <2>1, SMT DEF MsgType, Types
  <1>2. phone' =
          CASE m.type = "ClientHello" -> [rest EXCEPT !.step = 2, !.attempt = m.n]
            [] m.type = "ClientFinished" -> [rest EXCEPT !.step = 4]
            [] m.type \in {"ServiceDiscoveryResponse", "ChannelOpenResponse"} ->
                  [rest EXCEPT !.progress[m.chan] = "open"]
            [] m.type = "MediaSetupResponse" -> [rest EXCEPT !.progress[m.chan] = "setup"]
            [] OTHER -> rest
    BY Zenon DEF PhoneReceives
  <1>3. waiting \in Awaited
    <2>1. phone.waiting \in Awaited
      BY <1>1, Zenon DEF PhoneType
    <2> QED BY <2>1 DEF Awaited
  <1> HIDE DEF waiting
  <1>4. /\ rest \in PhoneType /\ rest.waiting = waiting /\ rest.progress = phone.progress
        /\ rest.session = phone.session /\ rest.others = phone.others
    BY <1>1, <1>3, Zenon DEF PhoneType
  <1> HIDE DEF rest
  <1> DEFINE open  == [rest.progress EXCEPT ![m.chan] = "open"]
             setup == [rest.progress EXCEPT ![m.chan] = "setup"]
  <1>5. \/ m.type \notin Opening /\ phone' = [rest EXCEPT !.step = 2, !.attempt = m.n]
        \/ m.type \notin Opening /\ phone' = [rest EXCEPT !.step = 4]
        \/ /\ m.type \in Opening /\ m.type # "MediaSetupResponse"
           /\ phone' = [rest EXCEPT !.progress = open]
        \/ /\ m.type \in Opening /\ m.type = "MediaSetupResponse"
           /\ phone' = [rest EXCEPT !.progress = setup]
        \/ m.type \notin Opening /\ phone' = rest
    BY <1>2, SMT DEF Opening
  <1>6. /\ open[m.chan] = "open" /\ setup[m.chan] = "setup"
        /\ \A c \in Channels \ {m.chan} :
              open[c] = phone.progress[c] /\ setup[c] = phone.progress[c]
    <2>1. phone.progress \in Progress
      BY <1>1, Zenon DEF PhoneType
    <2> QED BY <1>1, <1>4, <2>1, SMT DEF Progress
  <1> HIDE DEF open, setup
  <1>7. /\ phone'.waiting = waiting /\ phone'.session = rest.session
        /\ phone'.others = rest.others
        /\ \/ m.type \notin Opening /\ phone'.progress = rest.progress
           \/ /\ m.type \in Opening /\ m.type # "MediaSetupResponse"
              /\ phone'.progress = open
           \/ /\ m.type \in Opening /\ m.type = "MediaSetupResponse"
              /\ phone'.progress = setup
    BY <1>4, <1>5, Zenon DEF PhoneType
  <1> QED BY <1>4, <1>6, <1>7 DEF waiting

LEMMA ReceivesAsks ==
    ASSUME SessionInv, AskInv, PhoneReceives
    PROVE  AskInv'
  <1>m. PICK m : m = Head(outbox)
    OBVIOUS
  <1>1. /\ Types /\ outbox # <<>> /\ outbox' = Tail(outbox)
        /\ UNCHANGED <<iaap_state, channel_session_id, inbox, connections>>
    BY DEF PhoneReceives, huVars, counters, SessionInv
  <1>2. /\ m = outbox[1] /\ 1 \in 1..Len(outbox)
        /\ \A i \in 1..Len(outbox') : /\ i + 1 \in 1..Len(outbox) /\ i + 1 # 1
                                      /\ outbox'[i] = outbox[i + 1]
        /\ \A i, j \in 1..Len(outbox') : i # j => i + 1 # j + 1
        /\ \A i \in 1..Len(outbox) : i = 1 \/ (i - 1 \in 1..Len(outbox')
                                               /\ outbox'[i - 1] = outbox[i])
    BY <1>m, <1>1, SMT DEF Types
  <1>3. /\ phone'.waiting = phone.waiting \ {m}
        /\ phone'.session = phone.session /\ phone'.others = phone.others
        /\ \A c \in Channels :
              \/ phone'.progress[c] = phone.progress[c] /\ (m.type \notin Opening \/ m.chan # c)
              \/ /\ m.type \in Opening /\ m.chan = c
                 /\ phone'.progress[c] = IF m.type = "MediaSetupResponse"
                                         THEN "setup" ELSE "open"
    BY <1>m, <1>1, NotAstray, ReceivesEffect
  <1>4. m.chan = "Sensor" /\ m.type \in Opening =>
           m.type = "ChannelOpenResponse" /\ phone.progress["Sensor"] = "closed"
    BY <1>2 DEF AskInv, Answering, Greeted, Opening
  <1>5. Asking'
    <2> SUFFICES ASSUME NEW i \in 1..Len(inbox), Pending(inbox[i])
                 PROVE  Question(inbox[i]) \in phone'.waiting
      BY <1>1 DEF Asking, Pending, Question
    <2>1. m # Question(inbox[i]) /\ Question(inbox[i]) \in phone.waiting
      BY <1>2 DEF AskInv, Asking, Alone
    <2> QED BY <1>3, <2>1
  <1>6. Answering'
    <2> SUFFICES ASSUME NEW i \in 1..Len(outbox'), outbox'[i].type # "SensorEvent"
                 PROVE  outbox'[i] \in phone'.waiting
      BY DEF Answering
    <2>1. /\ i + 1 \in 1..Len(outbox) /\ i + 1 # 1 /\ outbox'[i] = outbox[i + 1]
      BY <1>2
    <2>2. outbox[i + 1] # m /\ outbox[i + 1] \in phone.waiting
      BY <1>2, <2>1 DEF AskInv, Alone, Answering
    <2> QED BY <1>3, <2>1, <2>2
  <1>7. Alone'
    BY <1>1, <1>2 DEF AskInv, Alone, Pending, Question
  <1>8. Greeted'
    <2>s. "Sensor" \in Channels
      BY DEF Channels, FixedChannels
    <2>1. ASSUME NEW i \in 1..Len(outbox'), outbox'[i].type = "SensorEvent"
          PROVE  \/ phone'.progress["Sensor"] = "open"
                 \/ \E j \in 1..Len(outbox') :
                       outbox'[j].type = "ChannelOpenResponse" /\ outbox'[j].chan = "Sensor"
      <3>1. CASE phone.progress["Sensor"] = "open"
        BY <1>3, <1>4, <2>s, <3>1
      <3>2. ASSUME NEW j \in 1..Len(outbox),
                   outbox[j].type = "ChannelOpenResponse" /\ outbox[j].chan = "Sensor"
            PROVE  \/ phone'.progress["Sensor"] = "open"
                   \/ \E k \in 1..Len(outbox') :
                         outbox'[k].type = "ChannelOpenResponse" /\ outbox'[k].chan = "Sensor"
        <4>1. CASE j = 1
          BY <1>2, <1>3, <2>s, <3>2, <4>1 DEF Opening
        <4>2. CASE j # 1
          BY <1>2, <3>2, <4>2
        <4> QED BY <4>1, <4>2
      <3>3. i + 1 \in 1..Len(outbox) /\ outbox[i + 1].type = "SensorEvent"
        BY <1>2, <2>1
      <3>4. \/ phone.progress["Sensor"] = "open"
            \/ \E j \in 1..Len(outbox) :
                  outbox[j].type = "ChannelOpenResponse" /\ outbox[j].chan = "Sensor"
        BY <3>3 DEF AskInv, Greeted
      <3> QED BY <3>1, <3>2, <3>4
    <2>2. ASSUME NEW w \in phone'.waiting, w.chan = "Sensor", w.type \in Opening
          PROVE  w.type = "ChannelOpenResponse" /\ phone'.progress["Sensor"] = "closed"
      <3>1. w \in phone.waiting /\ w # m
        BY <1>3
      <3>2. w.type = "ChannelOpenResponse" /\ phone.progress["Sensor"] = "closed"
        BY <2>2, <3>1 DEF AskInv, Greeted
      <3>3. ASSUME m.chan = "Sensor", m.type \in Opening PROVE FALSE
        <4>1. m \in phone.waiting
          BY <1>2, <3>3 DEF AskInv, Answering, Opening
        <4>2. m.n = 0 /\ w.n = 0 /\ m.type = w.type /\ m.chan = w.chan
          BY <1>4, <2>2, <3>1, <3>2, <3>3, <4>1 DEF AskInv, Numbered
        <4>3. phone.waiting \in Awaited
          BY <1>1, Zenon DEF Types, PhoneType
        <4>4. /\ m = [type |-> m.type, chan |-> m.chan, n |-> m.n]
              /\ w = [type |-> w.type, chan |-> w.chan, n |-> w.n]
          BY <3>1, <4>1, <4>3, SMT DEF Awaited
        <4> QED BY <3>1, <4>2, <4>4
      <3> QED BY <1>3, <2>s, <3>2, <3>3
    <2> QED BY <2>1, <2>2 DEF Greeted
  <1>9. Playing'
    <2>1. \A c \in MediaChannels :
             phone'.progress[c] = "started" => phone.progress[c] = "started"
      BY <1>3 DEF Channels
    <2>2. ASSUME NEW i \in 1..Len(inbox), inbox[i].type \in Packets
          PROVE  LeadsTo(inbox[i].chan, i - 1, inbox[i].n)'
      BY <1>1, <2>2 DEF AskInv, Playing, LeadsTo, SetsSession
    <2>3. ASSUME NEW c \in MediaChannels, phone'.progress[c] = "started"
          PROVE  LeadsTo(c, Len(inbox), phone.session[c])'
      <3>1. LeadsTo(c, Len(inbox), phone.session[c])
        BY <2>1, <2>3 DEF AskInv, Playing
      <3> QED BY <1>1, <1>3, <3>1 DEF LeadsTo, SetsSession
    <2> QED BY <1>1, <2>2, <2>3 DEF AskInv, Playing
  <1>10. Numbered' /\ OnControl'
    BY <1>1, <1>3 DEF AskInv, Numbered, OnControl
  <1> QED BY <1>5, <1>6, <1>7, <1>8, <1>9, <1>10 DEF AskInv

(* A phone that has gone astray is forgotten with its connection. *)
LEMMA AstrayEnds ==
    ASSUME AstrayInv, [Next]_vars, SessionInv'
    PROVE  Ended
  <1>1. phone'.step # 6
    <2>1. CASE iaap_state' = "STOPPED"
      BY <2>1, SMT DEF SessionInv, NewPhone
    <2>2. CASE iaap_state' = "STARTIN"
      BY <2>2, SMT DEF SessionInv, Handshake
    <2>3. CASE iaap_state' = "STARTED"
      BY <2>3, SMT DEF SessionInv
    <2> QED BY <2>1, <2>2, <2>3 DEF SessionInv, Types
  <1>2. Types /\ iaap_state # "STOPPED" /\ phone.step = 6
    BY DEF AstrayInv
  <1>3. CASE Process
    BY <1>1, <1>2, <1>3, ProcessCases
  <1>4. CASE PhoneNext
    <2>1. CASE PhoneStrays
      <3>1. AstrayInv'
        BY <2>1, StraysStep DEF Valid
      <3> QED BY <1>1, <3>1 DEF AstrayInv
    <2>2. CASE PhoneReceives
      <3>1. AstrayInv'
        BY <2>2, AstrayReceives
      <3> QED BY <1>1, <3>1 DEF AstrayInv
    <2> QED BY <1>4, <2>1, <2>2, AstrayPhone
  <1>5. CASE UNCHANGED vars
    BY <1>1, <1>2, <1>5 DEF vars
  <1> QED BY <1>2, <1>3, <1>4, <1>5 DEF Next, Start, Interrupted

LEMMA AsksStep ==
    ASSUME SessionInv, AskInv, "MediaStartRequest" \notin Filtered,
           [Next]_vars, ~PhoneStrays
    PROVE  AskInv'
  <1>t. Types
    BY DEF SessionInv
  <1>1. CASE Process
    BY <1>1, ProcessAsks
  <1>2. CASE Start
    <2>1. inbox' = <<>> /\ outbox' = <<>> /\ phone' = NewPhone
      BY <1>2 DEF Start, wireVars, SessionInv
    <2> QED BY <2>1, QuietAsks
  <1>3. CASE Interrupted
    BY <1>3, QuietAsks DEF Interrupted, Ended
  <1>4. CASE PhoneNext
    <2>1. CASE PhoneReceives
      BY <2>1, ReceivesAsks
    <2>2. CASE PhoneHandshake
      BY <1>t, <2>2, HandshakeUtters, UttersAsks
    <2>3. ASSUME NEW chan \in Channels, PhoneAsks(chan) PROVE AskInv'
      BY <1>t, <2>3, AsksUtters, UttersAsks
    <2>4. ASSUME NEW chan \in MediaChannels, PhoneStarts(chan) PROVE AskInv'
      BY <1>t, <2>4, StartsUtters, UttersAsks
    <2>5. ASSUME NEW chan \in MediaChannels, PhoneStops(chan) PROVE AskInv'
      BY <1>t, <2>5, StopsUtters, UttersAsks
    <2>6. ASSUME NEW chan \in MediaChannels, NEW type \in Packets, PhoneStreams(chan, type)
          PROVE  AskInv'
      BY <1>t, <2>6, StreamsUtters, UttersAsks
    <2>7. ASSUME NEW other \in OtherMessages, PhoneSendsOther(other) PROVE AskInv'
      BY <1>t, <2>7, OtherUtters, UttersAsks
    <2> QED BY <1>4, <2>1, <2>2, <2>3, <2>4, <2>5, <2>6, <2>7 DEF PhoneNext, Packets
  <1>5. CASE UNCHANGED vars
    <2>1. UNCHANGED <<iaap_state, channel_session_id, inbox, outbox, phone, connections>>
      BY <1>5 DEF vars, huVars, wireVars, counters
    <2>2. Asking' /\ Answering' /\ Alone' /\ Greeted' /\ Numbered' /\ OnControl'
      BY <2>1 DEF AskInv, Asking, Answering, Alone, Greeted, Numbered, OnControl, Pending,
                  Question
    <2>3. \A c, k, n : LeadsTo(c, k, n) => LeadsTo(c, k, n)'
      BY <2>1 DEF LeadsTo, SetsSession
    <2>4. Playing'
      BY <2>1, <2>3 DEF AskInv, Playing
    <2> QED BY <2>2, <2>4 DEF AskInv
  <1> QED BY <1>1, <1>2, <1>3, <1>4, <1>5 DEF Next

LEMMA StraysAstray ==
    ASSUME SessionInv, PhoneStrays
    PROVE  ~SessionInv'
  <1>1. AstrayInv'
    BY StraysStep DEF Valid
  <1>2. phone'.step = 6 /\ iaap_state' # "STOPPED"
    BY <1>1 DEF AstrayInv
  <1>3. CASE iaap_state' = "STARTIN"
    BY <1>2, <1>3, SMT DEF SessionInv, Handshake
  <1>4. CASE iaap_state' = "STARTED"
    BY <1>2, <1>4, SMT DEF SessionInv
  <1> QED BY <1>2, <1>3, <1>4 DEF SessionInv, Types

LEMMA AsksAlways ==
    ASSUME "MediaStartRequest" \notin Filtered
    PROVE  Spec => [](SessionInv => AskInv)
  <1>1. Init => AskInv
    <2> SUFFICES ASSUME Init PROVE AskInv
      OBVIOUS
    <2>1. /\ \A i \in 1..Len(inbox) : FALSE
          /\ \A i \in 1..Len(outbox) : FALSE
      BY SMT DEF Init
    <2>2. phone.waiting = {} /\ \A c \in Channels : phone.progress[c] = "closed"
      BY SMT DEF Init, NewPhone
    <2>3. MediaChannels \subseteq Channels
      BY DEF Channels
    <2> QED BY <2>1, <2>2, <2>3
            DEF AskInv, Asking, Answering, Alone, Greeted, Playing, Numbered, OnControl
  <1>2. Valid /\ (SessionInv => AskInv) /\ [Next]_vars => (SessionInv => AskInv)'
    <2> SUFFICES ASSUME Valid, SessionInv => AskInv, [Next]_vars, SessionInv'
                 PROVE  AskInv'
      OBVIOUS
    <2>1. CASE SessionInv
      BY <2>1, AsksStep, StraysAstray
    <2>2. CASE AstrayInv
      BY <2>2, AstrayEnds, QuietAsks DEF Ended
    <2> QED BY <2>1, <2>2 DEF Valid
  <1> QED BY <1>1, <1>2, ValidAlways, PTL DEF Spec

(* If the filter of the application leaves HUServer the starts of streams, *)
(* a phone that keeps to the protocol gets every answer for a question     *)
(* that it asked and that was not answered, however many it asks without   *)
(* waiting, and every acknowledgement with the session its packet was sent *)
(* in, over any number of streams and connections.                         *)
THEOREM AnswersOnlyAsked ==
    ASSUME "MediaStartRequest" \notin Filtered
    PROVE  Spec => []AnswersAskedFor
  <1>1. Valid /\ (SessionInv => AskInv) => AnswersAskedFor
    <2>1. AstrayInv => AnswersAskedFor
      BY DEF AstrayInv, AnswersAskedFor
    <2> SUFFICES ASSUME Types, AskInv, NEW i \in 1..Len(outbox)
                 PROVE  /\ outbox[i].type # "SensorEvent" => outbox[i] \in phone.waiting
                        /\ \A j \in 1..(i - 1) : outbox[j] # outbox[i]
      BY <2>1 DEF Valid, SessionInv, AnswersAskedFor
    <2>2. \A j \in 1..(i - 1) : j \in 1..Len(outbox) /\ j # i
      BY SMT DEF Types
    <2> QED BY <2>2 DEF AskInv, Answering, Alone
  <1> QED BY <1>1, ValidAlways, AsksAlways, PTL

-----------------------------------------------------------------------------
(* Why nothing the phone waits for is forgotten.  A handler that does not  *)
(* know a message returns 0 and says nothing: the handlers of the          *)
(* handshake must meet only messages of the handshake, and those of the    *)
(* session only others, although the phone goes on without waiting once    *)
(* its part of the handshake is done.                                      *)

Asks(m, w) == Pending(m) /\ Question(m) = w

Known == \A i \in 1..Len(inbox) : Routed(inbox[i])

InTurn ==
    /\ iaap_state = "STARTIN" /\ phone.step = 5 =>
          /\ inbox # <<>> /\ inbox[1].type \in Lasts
          /\ \A i \in 2..Len(inbox) : inbox[i].type \notin HandshakeTypes
    /\ iaap_state = "STARTED" =>
          \A i \in 1..Len(inbox) : inbox[i].type \notin HandshakeTypes

Asked(w)    == \E i \in 1..Len(inbox) : Asks(inbox[i], w)
Answered(w) == \E i \in 1..Len(outbox) : outbox[i] = w
Heard       == \A w \in phone.waiting : Asked(w) \/ Answered(w)

WaitInv == Known /\ InTurn /\ Heard

LEMMA EndedWaits ==
    ASSUME Ended
    PROVE  WaitInv'
  <1>1. Len(inbox') = 0 /\ iaap_state' = "STOPPED" /\ phone'.waiting = {}
    BY SMT DEF Ended, NewPhone
  <1>2. Known'
    BY <1>1, SMT DEF Known
  <1> QED BY <1>1, <1>2 DEF WaitInv, InTurn, Heard

LEMMA SpeaksWaits ==
    ASSUME SessionInv, WaitInv, \A other \in OtherMessages : Routed(other),
           NEW m, NEW next, Speaks(m, next)
    PROVE  WaitInv'
  <1>1. Types
    BY DEF SessionInv
  <1>2. /\ Len(inbox') = Len(inbox) + 1 /\ inbox'[Len(inbox')] = m
        /\ \A i \in 1..Len(inbox) : inbox'[i] = inbox[i]
        /\ UNCHANGED <<iaap_state, outbox>>
        /\ phone'.step = 5
        /\ \A w \in phone'.waiting :
              \/ w \in phone.waiting
              \/ Pending(m) /\ Question(m) = w
    BY <1>1, SpeaksEffect DEF Pending
  <1>3. Routed(m) /\ m.type \notin HandshakeTypes /\ phone.step = 5
    BY DEF Speaks, Routed
  <1>4. \A i \in 1..Len(inbox') : i \in 1..Len(inbox) \/ i = Len(inbox')
    BY <1>1, <1>2, SMT DEF Types
  <1>5. \A i \in 1..Len(inbox) : i \in 1..Len(inbox') /\ Len(inbox') \in 1..Len(inbox')
    BY <1>1, <1>2, SMT DEF Types
  <1>6. Known'
    BY <1>2, <1>3, <1>4 DEF Known, WaitInv, Routed
  <1>7. InTurn'
    <2>1. CASE iaap_state = "STARTIN"
      <3>1. /\ inbox # <<>> /\ inbox[1].type \in Lasts
            /\ \A i \in 2..Len(inbox) : inbox[i].type \notin HandshakeTypes
        BY <1>3, <2>1 DEF WaitInv, InTurn
      <3>2. 1 \in 1..Len(inbox) /\ inbox' # <<>>
        BY <1>1, <1>2, <3>1, SMT DEF Types
      <3>3. \A i \in 2..Len(inbox') : i \in 2..Len(inbox) \/ i = Len(inbox')
        BY <1>1, <1>2, SMT DEF Types
      <3>4. \A i \in 2..Len(inbox) : i \in 1..Len(inbox)
        BY <1>1, SMT DEF Types
      <3>5. \A i \in 2..Len(inbox') : inbox'[i].type \notin HandshakeTypes
        BY <1>2, <1>3, <3>1, <3>3, <3>4
      <3> QED BY <1>2, <2>1, <3>1, <3>2, <3>5 DEF InTurn
    <2>2. CASE iaap_state = "STARTED"
      BY <1>2, <1>3, <1>4, <2>2 DEF WaitInv, InTurn
    <2> QED BY <1>1, <1>2, <2>1, <2>2 DEF InTurn, Types
  <1>8. Len(inbox') \in 1..Len(inbox')
    BY <1>1, <1>2, SMT DEF Types
  <1>9. Heard'
    <2> SUFFICES ASSUME NEW w \in phone'.waiting
                 PROVE  Asked(w)' \/ Answered(w)'
      BY DEF Heard
    <2>1. CASE w \in phone.waiting
      <3>1. Asked(w) \/ Answered(w)
        BY <2>1 DEF WaitInv, Heard
      <3>2. Asked(w) => Asked(w)'
        BY <1>2, <1>5 DEF Asked, Asks, Pending, Question
      <3>3. Answered(w) => Answered(w)'
        BY <1>2 DEF Answered
      <3> QED BY <3>1, <3>2, <3>3
    <2>2. CASE Pending(m) /\ Question(m) = w
      BY <1>2, <1>8, <2>2 DEF Asked, Asks, Pending, Question
    <2> QED BY <1>2, <2>1, <2>2
  <1> QED BY <1>6, <1>7, <1>9 DEF WaitInv

LEMMA ProcessWaits ==
    ASSUME SessionInv, AskInv, WaitInv, Lasts \intersect Filtered = {}, Process
    PROVE  WaitInv'
  <1>1. /\ inbox # <<>> /\ iaap_state # "STOPPED" /\ Types /\ inbox[1] \in MsgType
        /\ Len(inbox) >= 1
    BY ProcessCases DEF SessionInv
  <1>2. PICK o \in processMessage(inbox[1]) :
           /\ o.out \in Seq(MsgType) /\ o.state \in {"STARTIN", "STARTED"}
           /\ \/ Ended
              \/ /\ ~Ends(o)
                 /\ iaap_state' = o.state /\ inbox' = Tail(inbox)
                 /\ outbox' = outbox \o o.out /\ phone' = phone
    BY <1>1, ProcessCases
  <1>3. CASE Ended
    BY <1>3, EndedWaits
  <1>4. CASE /\ ~Ends(o)
             /\ iaap_state' = o.state /\ inbox' = Tail(inbox)
             /\ outbox' = outbox \o o.out /\ phone' = phone
    <2>1. \A i \in 1..Len(inbox') : i + 1 \in 2..Len(inbox) /\ inbox'[i] = inbox[i + 1]
      BY <1>1, <1>4, SMT DEF Types
    <2>2. \A i \in 2..Len(inbox) : i - 1 \in 1..Len(inbox') /\ inbox'[i - 1] = inbox[i]
      BY <1>1, <1>4, SMT DEF Types
    <2>3. 1 \in 1..Len(inbox) /\ \A i \in 2..Len(inbox) : i \in 1..Len(inbox)
      BY <1>1, SMT DEF Types
    <2>4. \/ iaap_state = "STARTIN" /\ inbox[1].type \in HandshakeTypes
          \/ iaap_state = "STARTED" /\ inbox[1].type \notin HandshakeTypes
      <3>1. CASE iaap_state = "STARTIN"
        <4>1. CASE phone.step = 5
          BY <3>1, <4>1 DEF WaitInv, InTurn, HandshakeTypes, Lasts
        <4>2. CASE phone.step # 5
          <5>1. Handshake
            BY <3>1 DEF SessionInv
          <5> QED BY <1>1, <3>1, <4>2, <5>1 DEF Handshake, HandshakeTypes
        <4> QED BY <4>1, <4>2
      <3>2. CASE iaap_state = "STARTED"
        BY <2>3, <3>2 DEF WaitInv, InTurn
      <3> QED BY <1>1, <3>1, <3>2 DEF Types
    <2>5. Known'
      <3>1. \A i \in 1..Len(inbox') : Routed(inbox[i + 1])
        BY <2>1, <2>3 DEF Known, WaitInv
      <3> QED BY <2>1, <3>1 DEF Known, Routed
    <2>6. InTurn'
      <3>1. CASE iaap_state = "STARTIN" /\ phone.step = 5
        <4>1. /\ inbox[1].type \in Lasts
              /\ \A i \in 2..Len(inbox) : inbox[i].type \notin HandshakeTypes
          BY <3>1 DEF WaitInv, InTurn
        <4>2. o.state = "STARTED"
          BY <1>1, <1>4, <3>1, <4>1, StartinOutcomes DEF HandshakeTypes, Lasts
        <4>3. \A i \in 1..Len(inbox') : inbox'[i].type \notin HandshakeTypes
          BY <2>1, <4>1
        <4> QED BY <1>4, <4>2, <4>3 DEF InTurn
      <3>2. CASE iaap_state = "STARTIN" /\ phone.step # 5
        <4>1. inbox[1].type \in {"VersionResponse", "ServerHello", "PartOfServerHello"}
          <5>1. Handshake
            BY <3>2 DEF SessionInv
          <5> QED BY <1>1, <3>2, <5>1 DEF Handshake
        <4>2. ~(Finishes(inbox[1]) /\ inbox[1].type # "VersionResponse")
          BY <1>1, <2>4, <3>2, <4>1, HandshakeTurn DEF Finishes
        <4>3. o.state = "STARTIN"
          BY <1>1, <1>4, <3>2, <4>2, StartinOutcomes
        <4> QED BY <1>4, <3>2, <4>3 DEF InTurn
      <3>3. CASE iaap_state = "STARTED"
        <4>1. \A i \in 1..Len(inbox) : inbox[i].type \notin HandshakeTypes
          BY <3>3 DEF WaitInv, InTurn
        <4>2. \A i \in 1..Len(inbox') : inbox'[i].type \notin HandshakeTypes
          BY <2>1, <2>3, <4>1
        <4>3. phone.step = 5 /\ o.state = "STARTED"
          BY <1>1, <1>2, <3>3, StartedOutcomes DEF SessionInv, Established
        <4> QED BY <1>4, <4>2, <4>3 DEF InTurn
      <3> QED BY <1>1, <3>1, <3>2, <3>3 DEF Types
    <2>7. Heard'
      <3> SUFFICES ASSUME NEW w \in phone.waiting
                   PROVE  Asked(w)' \/ Answered(w)'
        BY <1>4 DEF Heard
      <3>1. Answered(w) => Answered(w)'
        <4>1. \A i \in 1..Len(outbox) : i \in 1..Len(outbox') /\ outbox'[i] = outbox[i]
          BY <1>1, <1>2, <1>4, SMT DEF Types
        <4> QED BY <4>1 DEF Answered
      <3>2. ASSUME NEW i \in 1..Len(inbox), Asks(inbox[i], w)
            PROVE  Asked(w)' \/ Answered(w)'
        <4>1. CASE i \in 2..Len(inbox)
          BY <2>2, <3>2, <4>1 DEF Asked, Asks, Pending, Question
        <4>2. CASE i = 1
          <5>1. Pending(inbox[1]) /\ Question(inbox[1]) = w /\ Routed(inbox[1])
            BY <2>3, <3>2, <4>2 DEF Asks, WaitInv, Known
          <5>2. iaap_state = "STARTIN" /\ inbox[1].type # "VersionResponse" =>
                   ssl.wants # "nothing"
            BY <1>1, <2>4, HandshakeTurn
          <5>3. Sent(o, Answers[inbox[1].type], inbox[1].chan)
            BY <1>1, <1>2, <1>4, <2>4, <5>1, <5>2, ProcessReplies DEF Pending
          <5>4. PICK k \in 1..Len(o.out) : o.out[k].type = Answers[inbox[1].type]
            BY <5>3 DEF Sent
          <5>5. Says(inbox[1], o.out)
            BY <1>1, <1>2, <1>4, <5>1, <5>2, ProcessSpoken DEF Routed
          <5>6. 1 \in 1..Len(o.out)
            BY <1>2, <5>4, SMT
          <5>7. o.out[1] = Msg(Answers[inbox[1].type], inbox[1].chan, Said(inbox[1]))
            BY <5>5, <5>6 DEF Says
          <5>8. o.out[1] = w
            BY <1>1, <5>1, <5>7, SaidAsked DEF Question
          <5>9. Len(outbox) + 1 \in 1..Len(outbox') /\ outbox'[Len(outbox) + 1] = o.out[1]
            BY <1>1, <1>2, <1>4, <5>6, SMT DEF Types
          <5> QED BY <5>8, <5>9 DEF Answered
        <4>3. i \in 2..Len(inbox) \/ i = 1
          BY <1>1, SMT DEF Types
        <4> QED BY <4>1, <4>2, <4>3
      <3>3. Asked(w) \/ Answered(w)
        BY DEF WaitInv, Heard
      <3> QED BY <3>1, <3>2, <3>3 DEF Asked
    <2> QED BY <2>5, <2>6, <2>7 DEF WaitInv
  <1> QED BY <1>2, <1>3, <1>4

LEMMA HandshakeWaits ==
    ASSUME SessionInv, WaitInv, PhoneHandshake
    PROVE  WaitInv'
  <1>1. Types /\ iaap_state # "STOPPED" /\ iaap_state \in {"STARTIN", "STARTED"}
    BY SMT DEF SessionInv, PhoneHandshake, Sends, Types
  <1>2. phone.step \in {0, 2, 4} /\ phone.step # 5
    BY SMT DEF PhoneHandshake
  <1>3. iaap_state = "STARTIN" /\ Handshake /\ inbox = <<>> /\ outbox = <<>>
    BY <1>1, <1>2, SMT DEF SessionInv, Handshake
  <1>4. PICK type \in CASE phone.step = 0 -> {"VersionResponse"}
                         [] phone.step = 2 -> {"ServerHello", "PartOfServerHello"}
                         [] phone.step = 4 -> {"ServerFinished", "PartOfServerFinished"} :
          Sends(Msg(type, "Control", connections), [phone EXCEPT !.step = @ + 1])
    BY DEF PhoneHandshake
  <1>5. \/ phone.step = 4 /\ type \in Lasts
        \/ phone.step # 4 /\ type \in {"VersionResponse", "ServerHello", "PartOfServerHello"}
    BY <1>2, <1>4, SMT DEF Lasts
  <1> DEFINE m    == Msg(type, "Control", connections)
             next == [phone EXCEPT !.step = phone.step + 1]
  <1>6. /\ m \in MsgType /\ m.type = type /\ m.chan = "Control"
        /\ type \in HandshakeTypes
    <2>1. type \in Names /\ "Control" \in Channels /\ type \in HandshakeTypes
      BY <1>5 DEF Names, HandshakeTypes, Channels, FixedChannels, Lasts
    <2> QED BY <1>1, <2>1, SMT DEF Msg, MsgType, Types
  <1>7. /\ next \in PhoneType /\ next.step = phone.step + 1
        /\ next.waiting = phone.waiting
    <2>1. phone.step + 1 \in Steps /\ phone \in PhoneType
      BY <1>1, <1>2, SMT DEF Steps, Types
    <2> QED BY <2>1, Zenon DEF PhoneType
  <1>8. Sends(m, next)
    BY <1>4
  <1> HIDE DEF m, next
  <1>9. /\ inbox' = Append(inbox, m) /\ UNCHANGED <<iaap_state, outbox>>
        /\ phone'.step = phone.step + 1
    BY <1>6, <1>7, <1>8, SendsEffect
  <1>10. Len(inbox') = 1 /\ inbox'[1] = m
    BY <1>3, <1>6, <1>9, SMT
  <1>11. Known'
    <2>1. Routed(m)
      BY <1>6, SMT DEF Routed, HandshakeTypes
    <2>2. \A i \in 1..Len(inbox') : inbox'[i] = m
      BY <1>10, SMT
    <2> QED BY <2>1, <2>2 DEF Known, Routed
  <1>12. InTurn'
    <2>1. phone'.step = 5 => inbox'[1].type \in Lasts
      BY <1>2, <1>5, <1>6, <1>9, <1>10, SMT
    <2>2. inbox' # <<>> /\ \A i \in 2..Len(inbox') : inbox'[i].type \notin HandshakeTypes
      BY <1>10, SMT
    <2> QED BY <1>3, <1>9, <2>1, <2>2 DEF InTurn
  <1>13. Heard'
    <2>1. phone.waiting = {}
      <3> SUFFICES ASSUME NEW w \in phone.waiting PROVE FALSE
        OBVIOUS
      <3>1. Asked(w) \/ Answered(w)
        BY DEF WaitInv, Heard
      <3> QED BY <1>3, <3>1, SMT DEF Asked, Answered
    <2>2. \A w \in phone'.waiting : Pending(m) /\ w = Question(m)
      BY <1>6, <1>7, <1>8, <2>1, SendsFields
    <2>3. 1 \in 1..Len(inbox')
      BY <1>10, SMT
    <2> QED BY <1>10, <2>2, <2>3 DEF Heard, Asked, Asks, Pending, Question
  <1> QED BY <1>11, <1>12, <1>13 DEF WaitInv

(* What HUServer sends in the handshake does not make the phone ready. *)
LEMMA ReceivesEarly ==
    ASSUME Types, Handshake, PhoneReceives
    PROVE  phone'.step # 5
  <1> DEFINE m    == Head(outbox)
             rest == [phone EXCEPT !.waiting = @ \ {m}]
  <1>1. /\ outbox # <<>> /\ phone.step \in {1, 3} /\ phone.step # 5 /\ phone.step # 6
        /\ outbox[1].type \in Hello /\ m = outbox[1]
    BY SMT DEF PhoneReceives, Handshake, Hello, Types
  <1>2. \/ phone' = [rest EXCEPT !.step = 2, !.attempt = m.n]
        \/ phone' = [rest EXCEPT !.step = 4]
    BY <1>1, SMT DEF PhoneReceives, Hello
  <1>3. phone'.step \in {2, 4}
    BY <1>2, Zenon DEF PhoneType, Types
  <1> QED BY <1>3, SMT

LEMMA ReceivesWaits ==
    ASSUME SessionInv, WaitInv, PhoneReceives
    PROVE  WaitInv'
  <1>m. PICK m : m = Head(outbox)
    OBVIOUS
  <1>1. /\ outbox # <<>> /\ outbox' = Tail(outbox) /\ Types
        /\ UNCHANGED <<iaap_state, inbox>>
    BY DEF PhoneReceives, huVars, SessionInv
  <1>2. /\ m = outbox[1]
        /\ \A i \in 1..Len(outbox) : i = 1 \/ (i - 1 \in 1..Len(outbox')
                                               /\ outbox'[i - 1] = outbox[i])
    BY <1>m, <1>1, SMT DEF Types
  <1>3. phone'.waiting = phone.waiting \ {m}
    BY <1>m, <1>1, NotAstray, ReceivesEffect
  <1>4. Known'
    BY <1>1 DEF WaitInv, Known, Routed
  <1>5. InTurn'
    <2>1. CASE iaap_state = "STARTIN"
      <3>1. Handshake
        BY <2>1 DEF SessionInv
      <3>2. phone'.step # 5
        BY <1>1, <3>1, ReceivesEarly
      <3> QED BY <1>1, <2>1, <3>2 DEF InTurn
    <2>2. CASE iaap_state # "STARTIN"
      BY <1>1, <2>2 DEF InTurn, WaitInv
    <2> QED BY <2>1, <2>2
  <1>6. Heard'
    <2> SUFFICES ASSUME NEW w \in phone'.waiting
                 PROVE  Asked(w)' \/ Answered(w)'
      BY DEF Heard
    <2>1. w \in phone.waiting /\ w # m
      BY <1>3
    <2>2. Asked(w) \/ Answered(w)
      BY <2>1 DEF WaitInv, Heard
    <2>3. Asked(w) => Asked(w)'
      BY <1>1 DEF Asked, Asks, Pending, Question
    <2>4. Answered(w) => Answered(w)'
      BY <1>2, <2>1 DEF Answered
    <2> QED BY <2>2, <2>3, <2>4
  <1> QED BY <1>4, <1>5, <1>6 DEF WaitInv

LEMMA StartWaits ==
    ASSUME SessionInv, WaitInv, Start
    PROVE  WaitInv'
  <1>1. /\ UNCHANGED <<inbox, outbox, phone>> /\ iaap_state' = "STARTIN"
        /\ phone = NewPhone
    BY DEF Start, wireVars, SessionInv
  <1>2. phone'.step # 5
    BY <1>1, SMT DEF NewPhone
  <1>3. \A w : (Asked(w) => Asked(w)') /\ (Answered(w) => Answered(w)')
    BY <1>1 DEF Asked, Asks, Answered, Pending, Question
  <1> QED BY <1>1, <1>2, <1>3 DEF WaitInv, Known, Routed, InTurn, Heard

LEMMA WaitsStep ==
    ASSUME SessionInv, AskInv, WaitInv, Lasts \intersect Filtered = {},
           \A other \in OtherMessages : Routed(other),
           [Next]_vars, ~PhoneStrays
    PROVE  WaitInv'
  <1>1. CASE Process
    BY <1>1, ProcessWaits
  <1>2. CASE Start
    BY <1>2, StartWaits
  <1>3. CASE Interrupted
    BY <1>3, EndedWaits DEF Interrupted
  <1>4. CASE PhoneNext
    BY <1>4, PhoneSpeaks, HandshakeWaits, ReceivesWaits, SpeaksWaits
  <1>5. CASE UNCHANGED vars
    <2>1. UNCHANGED <<iaap_state, inbox, outbox, phone>>
      BY <1>5 DEF vars, huVars, wireVars
    <2>2. \A w : (Asked(w) => Asked(w)') /\ (Answered(w) => Answered(w)')
      BY <2>1 DEF Asked, Asks, Answered, Pending, Question
    <2> QED BY <2>1, <2>2 DEF WaitInv, Known, Routed, InTurn, Heard
  <1> QED BY <1>1, <1>2, <1>3, <1>4, <1>5 DEF Next

LEMMA WaitsAlways ==
    ASSUME Lasts \intersect Filtered = {}, "MediaStartRequest" \notin Filtered,
           \A other \in OtherMessages : Routed(other)
    PROVE  Spec => [](SessionInv => WaitInv)
  <1>1. Init => WaitInv
    <2> SUFFICES ASSUME Init PROVE WaitInv
      OBVIOUS
    <2>1. Len(inbox) = 0 /\ iaap_state = "STOPPED" /\ phone.waiting = {}
      BY SMT DEF Init, NewPhone
    <2>2. Known
      BY <2>1, SMT DEF Known
    <2> QED BY <2>1, <2>2 DEF WaitInv, InTurn, Heard
  <1>2. Valid /\ (SessionInv => AskInv) /\ (SessionInv => WaitInv) /\ [Next]_vars
           => (SessionInv => WaitInv)'
    <2> SUFFICES ASSUME Valid, SessionInv => AskInv, SessionInv => WaitInv,
                        [Next]_vars, SessionInv'
                 PROVE  WaitInv'
      OBVIOUS
    <2>1. CASE SessionInv
      BY <2>1, WaitsStep, StraysAstray
    <2>2. CASE AstrayInv
      BY <2>2, AstrayEnds, EndedWaits
    <2> QED BY <2>1, <2>2 DEF Valid
  <1> QED BY <1>1, <1>2, ValidAlways, AsksAlways, PTL DEF Spec

(* If the filter of the application leaves HUServer the end of the         *)
(* handshake and the starts of streams, and the phone asks on the channels *)
(* it was told of, HUServer never forgets a question: whatever the phone   *)
(* waits for is still to be handled, or answered and on its way, however   *)
(* much the phone sends without waiting.                                   *)
THEOREM NeverForgotten ==
    ASSUME Lasts \intersect Filtered = {}, "MediaStartRequest" \notin Filtered,
           \A other \in OtherMessages : Routed(other)
    PROVE  Spec => []NothingForgotten
  <1>1. ASSUME Valid, SessionInv => WaitInv
        PROVE  NothingForgotten
    <2>1. CASE SessionInv
      <3>1. WaitInv
        BY <1>1, <2>1
      <3> QED BY <3>1 DEF WaitInv, Heard, Asked, Asks, Answered, NothingForgotten,
                          Pending, Question
    <2>2. CASE AstrayInv
      BY <2>2 DEF AstrayInv, NothingForgotten
    <2> QED BY <1>1, <2>1, <2>2 DEF Valid
  <1>2. Valid /\ (SessionInv => WaitInv) => NothingForgotten
    BY <1>1
  <1> QED BY <1>2, ValidAlways, WaitsAlways, PTL
=============================================================================
