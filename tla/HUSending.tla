------------------------------ MODULE HUSending -----------------------------
(***************************************************************************)
(* How HUServer (src/hu/hu_aap.cpp) cuts messages into frames: the loops   *)
(* of sendEncoded() and sendUnencoded(), sendTransportPacket(), and the    *)
(* stop() they call when a step fails, which sends a ShutdownRequest by    *)
(* the same way before they go on.  Lengths are in bytes.  The phone puts  *)
(* the frames together again and accepts TLS records only in sequence.     *)
(***************************************************************************)
EXTENDS Integers, Sequences

CONSTANTS
    MAX_FRAME_PAYLOAD_SIZE,
    MAX_FRAME_SIZE,     \* size of enc_buf
    TlsOverhead,        \* what encryption adds to a record
    Lengths,            \* lengths of the messages the callers send
    MaxMessages,        \* bound: messages sent
    MaxFailures         \* bound: calls that fail

ASSUME SizesAssumption ==
    /\ MAX_FRAME_PAYLOAD_SIZE \in Nat \ {0}
    /\ MAX_FRAME_SIZE \in Nat
    /\ TlsOverhead \in Nat
    /\ MAX_FRAME_PAYLOAD_SIZE + TlsOverhead + 8 <= MAX_FRAME_SIZE
    /\ Lengths \subseteq Nat \ {0, 1}

ASSUME BoundsAssumption == MaxMessages \in Nat /\ MaxFailures \in Nat

VARIABLES
    iaap_state,         \* "STARTIN", "STARTED" or "STOPPED"
    stack,              \* send calls in progress, the innermost first
    messages,           \* messages sent so far; 0 is a ShutdownRequest
    failures,
    bio,                \* bytes in m_sslReadBio
    results,            \* what the calls of the handlers returned
    lost,               \* the phone has missed bytes: it understands no more
    partial,            \* what it has of a message not complete
    delivered           \* messages it has put together

phoneVars == <<lost, partial, delivered>>
vars == <<iaap_state, stack, messages, failures, bio, results, phoneVars>>

None == [msg |-> -1, size |-> 0, total |-> 0]

Init ==
    /\ iaap_state = "STARTIN"
    /\ stack = <<>>
    /\ messages = 0
    /\ failures = 0
    /\ bio = 0
    /\ results = {}
    /\ lost = FALSE
    /\ partial = None
    /\ delivered = {}

-----------------------------------------------------------------------------
(* One send call: its message, the start of the next fragment (-1: it      *)
(* returns), and what it returns.                                          *)
NewCall(msg, len, retry, encoded) ==
    [msg |-> msg, len |-> len, retry |-> retry, encoded |-> encoded,
     frag_start |-> 0, ret |-> 0]

Top == Head(stack)
Sending == stack # <<>> /\ Top.frag_start \in 0..(Top.len - 1)

IsFirst == Top.frag_start = 0

(* Mutant: the boundary is taken for the middle of a message. *)
IsLastStrict == Top.frag_start + MAX_FRAME_PAYLOAD_SIZE > Top.len

IsLast == Top.frag_start + MAX_FRAME_PAYLOAD_SIZE >= Top.len

(* Mutant: fragments are as long as the buffer they are encrypted into. *)
CurLenBuffer == IF IsLast THEN Top.len - Top.frag_start ELSE MAX_FRAME_SIZE

CurLen == IF IsLast THEN Top.len - Top.frag_start ELSE MAX_FRAME_PAYLOAD_SIZE

(* The first frame of several also holds the total length. *)
HeaderSize == IF IsFirst /\ ~IsLast THEN 8 ELSE 4

(* Mutant: the loop stays at its fragment. *)
AdvancedNever == Top

Advanced  == [Top EXCEPT !.frag_start = @ + MAX_FRAME_PAYLOAD_SIZE]
Return(r) == [Top EXCEPT !.frag_start = -1, !.ret = r]

(* stop(): in STARTED it sends a ShutdownRequest under the call, in        *)
(* STARTIN it is shutdown().                                               *)
Stop(call) ==
    /\ stack' = IF iaap_state = "STARTED"
                THEN <<NewCall(0, 4, 0, TRUE), call>> \o Tail(stack)
                ELSE <<call>> \o Tail(stack)
    /\ iaap_state' = IF iaap_state = "STARTIN" THEN "STOPPED" ELSE iaap_state

Fail == failures < MaxFailures /\ failures' = failures + 1

-----------------------------------------------------------------------------
(* A handler or the application calls sendEncodedMessage() or another of   *)
(* the functions that serialise into temp_assembly_buffer and send it.     *)

Call(len, retry, encoded) ==
    /\ stack = <<>>
    /\ messages < MaxMessages
    /\ messages' = messages + 1
    /\ stack' = <<NewCall(messages', len, retry, encoded)>>
    /\ UNCHANGED <<iaap_state, failures, bio, results, phoneVars>>

(* Mutant: the state is not checked. *)
SendEncodedAlways(len, retry) == Call(len, retry, TRUE)

(* A call in another state returns -1 and changes nothing. *)
SendEncoded(len, retry) == iaap_state = "STARTED" /\ Call(len, retry, TRUE)

SendUnencoded(len, retry) ==
    iaap_state \in {"STARTIN", "STARTED"} /\ Call(len, retry, FALSE)

(* The phone gets the frame of the top call. *)
PhoneReceives ==
    LET had   == IF IsFirst THEN [None EXCEPT !.msg = Top.msg,
                                  !.total = IF IsLast THEN CurLen ELSE Top.len]
                 ELSE partial
        fits  == had.msg = Top.msg /\ had.size = Top.frag_start
        whole == [had EXCEPT !.size = IF fits THEN @ + CurLen ELSE -1]
    IN IF lost THEN UNCHANGED phoneVars
       ELSE IF IsLast
       THEN /\ delivered' = delivered \union {[whole EXCEPT !.msg = Top.msg]}
            /\ partial' = None
            /\ UNCHANGED lost
       ELSE partial' = whole /\ UNCHANGED <<lost, delivered>>

(* SSL_write() makes one record; BIO_read() takes what fits in enc_buf. *)
InBio    == bio + CurLen + TlsOverhead
FromBio  == IF InBio <= MAX_FRAME_SIZE - HeaderSize
            THEN InBio ELSE MAX_FRAME_SIZE - HeaderSize

Encrypt == bio' = IF Top.encoded THEN InBio - FromBio ELSE bio

(* A frame is written: with retry 0 sendEncoded() goes on, otherwise it    *)
(* returns the size of the frame; sendUnencoded() always does.             *)
SendFrame ==
    /\ Sending
    /\ Encrypt
    /\ PhoneReceives
    /\ stack' = <<IF Top.encoded /\ Top.retry = 0 THEN Advanced
                  ELSE Return(HeaderSize + CurLen)>> \o Tail(stack)
    /\ UNCHANGED <<iaap_state, messages, failures, results>>

(* transport->Write() fails or is short.  With retry 0 stop() is called;   *)
(* sendEncoded() then ignores the result and goes on.                      *)
WriteFails ==
    /\ Sending
    /\ Fail
    /\ Encrypt
    /\ lost' = TRUE
    /\ LET call == IF Top.encoded /\ Top.retry = 0 THEN Advanced ELSE Return(-1)
       IN IF Top.retry = 0 THEN Stop(call)
          ELSE stack' = <<call>> \o Tail(stack) /\ UNCHANGED iaap_state
    /\ UNCHANGED <<messages, results, partial, delivered>>

(* Mutant: the error is kept, and the loop goes on to the next fragment. *)
SslFailsAndGoesOn ==
    /\ Sending
    /\ Top.encoded
    /\ Fail
    /\ lost' \in {lost, TRUE}
    /\ Stop([Advanced EXCEPT !.ret = -1])
    /\ UNCHANGED <<messages, bio, results, partial, delivered>>

(* SSL_write() fails, or BIO_read() after it, which loses the record. *)
SslFails ==
    /\ Sending
    /\ Top.encoded
    /\ Fail
    /\ lost' \in {lost, TRUE}
    /\ Stop(Return(-1))
    /\ UNCHANGED <<messages, bio, results, partial, delivered>>

(* The innermost call returns: to stop(), or to the handler. *)
CallReturns ==
    /\ stack # <<>>
    /\ ~Sending
    /\ stack' = Tail(stack)
    /\ results' = IF Tail(stack) # <<>> THEN results
                  ELSE results \union {[msg |-> Top.msg, ret |-> Top.ret]}
    /\ UNCHANGED <<iaap_state, messages, failures, bio, phoneVars>>

(* AuthComplete was sent: handleSSLHandshake() sets the state. *)
HandshakeDone ==
    /\ stack = <<>>
    /\ iaap_state = "STARTIN"
    /\ iaap_state' = "STARTED"
    /\ UNCHANGED <<stack, messages, failures, bio, results, phoneVars>>

-----------------------------------------------------------------------------
Step == SendFrame \/ WriteFails \/ SslFails \/ CallReturns

Next ==
    \/ Step \/ HandshakeDone
    \/ \E len \in Lengths, retry \in {0, 1} :
          SendEncoded(len, retry) \/ SendUnencoded(len, retry)

Spec == Init /\ [][Next]_vars /\ WF_vars(Step)

-----------------------------------------------------------------------------
(* Type invariant; what is encrypted is sent in an established session,    *)
(* and there is one call under another for each failure.                   *)
TypeOK ==
    /\ iaap_state \in {"STARTIN", "STARTED", "STOPPED"}
    /\ \A i \in 1..Len(stack) :
          /\ stack[i].msg \in 0..MaxMessages
          /\ stack[i].encoded => iaap_state = "STARTED"
          /\ stack[i].frag_start \in Int
    /\ Len(stack) <= failures + 1
    /\ messages \in 0..MaxMessages
    /\ failures \in 0..MaxFailures
    /\ bio \in Nat
    /\ \A r \in results : r.msg \in 1..MaxMessages
    /\ lost \in BOOLEAN
    /\ partial.msg \in -1..MaxMessages

(* What a call in progress or just returned sends, by message. *)
LengthOf(msg) == {stack[i].len : i \in {j \in 1..Len(stack) : stack[j].msg = msg}}

(* Every message the phone puts together has all its bytes in their order, *)
(* as many as its first frame announced, although the SSL step of a later  *)
(* fragment may fail, which ends the message and sends a ShutdownRequest   *)
(* after its first fragments, and frames may be encrypted or not.  After a *)
(* write that failed the phone puts nothing together any more.             *)
MessagesWhole ==
    \A m \in delivered : m.size = m.total /\ \A len \in LengthOf(m.msg) : m.size = len

(* A record fits in enc_buf with its header, so that no bytes of it are    *)
(* left for the next frame.                                                *)
FramesFit == bio = 0

(* A call that returned 0 has delivered its message, unless a step failed; *)
(* with retry set, or not encoded, a call returns the size of the first    *)
(* frame, and a longer message is never complete.                          *)
ZeroMeansDelivered ==
    \A r \in results :
        r.ret = 0 => lost \/ \E m \in delivered : m.msg = r.msg

(* Once its steps have stopped failing a send returns, however many calls  *)
(* of stop() the failures before have put on the stack.  While every write *)
(* fails it does not: then each stop() fails in its turn.                  *)
SendReturns ==
    <>[][~(WriteFails \/ SslFails)]_vars => (stack # <<>> ~> stack = <<>>)
=============================================================================
