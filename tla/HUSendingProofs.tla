-------------------------- MODULE HUSendingProofs ---------------------------
(* Proofs of the safety properties of HUSending for all sizes under        *)
(* SizesAssumption, all lengths and any number of messages and failures.   *)
EXTENDS HUSending, SequenceTheorems, TLAPS

CallType ==
    [msg : 0..MaxMessages, len : Nat \ {0}, retry : {0, 1}, encoded : BOOLEAN,
     frag_start : Int, ret : Int]

PartType == [msg : -1..MaxMessages, size : Int, total : Int]

IsSending(call) == call.frag_start \in 0..(call.len - 1)

Types ==
    /\ iaap_state \in {"STARTIN", "STARTED", "STOPPED"}
    /\ stack \in Seq(CallType)
    /\ messages \in 0..MaxMessages
    /\ failures \in 0..MaxFailures
    /\ results \subseteq [msg : 1..MaxMessages, ret : Int]
    /\ lost \in BOOLEAN
    /\ partial \in PartType
    /\ delivered \subseteq PartType

(* What holds of one call, the i-th of n.  Only the outermost is of a      *)
(* message of the callers, and only a call that failed or returned the     *)
(* size of a frame has a result other than 0.                              *)
CallInv(call, i, n) ==
    /\ call.encoded = TRUE => iaap_state = "STARTED"
    /\ call.msg <= messages
    /\ call.msg = 0 <=> i < n
    /\ call.msg = 0 => call.len = 4
    /\ call.frag_start >= -1
    /\ call.ret = 0 <=> call.frag_start # -1

StackInv ==
    /\ Len(stack) <= failures + 1
    /\ \A i \in 1..Len(stack) : CallInv(stack[i], i, Len(stack))

(* While the phone has missed nothing only the innermost call has          *)
(* fragments left, the phone has those it has sent, and what a call has    *)
(* sent completely is delivered.                                           *)
CallSent(call) ==
    call.frag_start >= call.len => \E m \in delivered : m.msg = call.msg

PhoneInv ==
    lost \/ /\ \A i \in 2..Len(stack) : ~IsSending(stack[i])
            /\ \A i \in 1..Len(stack) : CallSent(stack[i])
            /\ stack # <<>> /\ IsSending(stack[1]) /\ stack[1].frag_start > 0 =>
                  partial = [msg |-> stack[1].msg, size |-> stack[1].frag_start,
                             total |-> stack[1].len]

Delivered(m, call) == call.msg = m.msg => call.len = m.size

DeliveredInv ==
    \A m \in delivered :
        /\ m.msg \in 0..messages
        /\ m.size = m.total
        /\ m.msg = 0 => m.size = 4
        /\ \A i \in 1..Len(stack) : Delivered(m, stack[i])

SendInv ==
    /\ Types
    /\ FramesFit
    /\ StackInv
    /\ PhoneInv
    /\ DeliveredInv
    /\ ZeroMeansDelivered

-----------------------------------------------------------------------------
(* The stack after a step. *)

LEMMA StackReplaced ==
    ASSUME NEW S, NEW s \in Seq(S), s # <<>>, NEW c \in S,
           NEW t, t = <<c>> \o Tail(s)
    PROVE  /\ t \in Seq(S) /\ t # <<>>
           /\ Len(t) = Len(s)
           /\ t[1] = c
           /\ \A i \in 2..Len(s) : t[i] = s[i]
  <1>1. /\ Tail(s) \in Seq(S)
        /\ Len(Tail(s)) = Len(s) - 1
        /\ \A i \in 1..Len(Tail(s)) : Tail(s)[i] = s[i + 1]
    BY HeadTailProperties, SMT
  <1>2. <<c>> \in Seq(S) /\ Len(<<c>>) = 1 /\ <<c>>[1] = c
    OBVIOUS
  <1>3. Len(s) \in Nat \ {0}
    BY EmptySeq, SMT
  <1>4. t \in Seq(S) /\ Len(t) = Len(s)
    BY <1>1, <1>2, <1>3, ConcatProperties, SMT
  <1>5. t[1] = c
    BY <1>1, <1>2, <1>3, ConcatProperties, SMT
  <1>6. ASSUME NEW i \in 2..Len(s) PROVE t[i] = s[i]
    BY <1>1, <1>2, <1>3, ConcatProperties, SMT
  <1> QED BY <1>3, <1>4, <1>5, <1>6, EmptySeq, SMT

LEMMA StackPushed ==
    ASSUME NEW S, NEW s \in Seq(S), s # <<>>, NEW c \in S, NEW d \in S,
           NEW t, t = <<d, c>> \o Tail(s)
    PROVE  /\ t \in Seq(S) /\ t # <<>>
           /\ Len(t) = Len(s) + 1
           /\ t[1] = d /\ t[2] = c
           /\ \A i \in 3..Len(t) : t[i] = s[i - 1]
  <1>1. /\ Tail(s) \in Seq(S)
        /\ Len(Tail(s)) = Len(s) - 1
        /\ \A i \in 1..Len(Tail(s)) : Tail(s)[i] = s[i + 1]
    BY HeadTailProperties, SMT
  <1>2. /\ <<d, c>> \in Seq(S) /\ Len(<<d, c>>) = 2
        /\ <<d, c>>[1] = d /\ <<d, c>>[2] = c
    OBVIOUS
  <1>3. Len(s) \in Nat \ {0}
    BY EmptySeq, SMT
  <1>4. t \in Seq(S) /\ Len(t) = Len(s) + 1
    BY <1>1, <1>2, <1>3, ConcatProperties, SMT
  <1>5. t[1] = d /\ t[2] = c
    BY <1>1, <1>2, <1>3, ConcatProperties, SMT
  <1>6. ASSUME NEW i \in 3..Len(t) PROVE t[i] = s[i - 1]
    BY <1>1, <1>2, <1>3, <1>4, ConcatProperties, SMT
  <1> QED BY <1>3, <1>4, <1>5, <1>6, EmptySeq, SMT

LEMMA StackPopped ==
    ASSUME NEW S, NEW s \in Seq(S), s # <<>>, NEW t, t = Tail(s)
    PROVE  /\ t \in Seq(S)
           /\ Len(t) = Len(s) - 1
           /\ \A i \in 1..Len(t) : t[i] = s[i + 1]
  BY HeadTailProperties, SMT

LEMMA TopOfStack ==
    ASSUME SendInv, stack # <<>>
    PROVE  /\ Top = stack[1] /\ Top \in CallType
           /\ Len(stack) \in Nat \ {0}
           /\ CallInv(Top, 1, Len(stack))
  <1>1. Len(stack) \in Nat \ {0}
    BY EmptySeq, SMT DEF SendInv, Types
  <1>2. Top = stack[1]
    BY SMT DEF Top, SendInv, Types
  <1>3. stack[1] \in CallType
    BY <1>1, ElementOfSeq, SMT DEF SendInv, Types
  <1> QED BY <1>1, <1>2, <1>3, SMT DEF SendInv, StackInv

-----------------------------------------------------------------------------
(* The lengths. *)

LEMMA FragmentLength ==
    ASSUME SendInv, Sending
    PROVE  /\ CurLen \in Nat \ {0} /\ CurLen <= MAX_FRAME_PAYLOAD_SIZE
           /\ HeaderSize \in {4, 8}
           /\ IsLast => Top.frag_start + CurLen = Top.len
           /\ ~IsLast => /\ CurLen = MAX_FRAME_PAYLOAD_SIZE
                         /\ Top.frag_start + CurLen < Top.len
           /\ Top.frag_start \in Nat /\ Top.frag_start < Top.len
           /\ Top.len \in Nat
  <1>1. Top \in CallType
    BY TopOfStack DEF Sending
  <1>2. Top.len \in Nat \ {0} /\ Top.frag_start \in 0..(Top.len - 1)
    BY <1>1 DEF CallType, Sending
  <1>3. MAX_FRAME_PAYLOAD_SIZE \in Nat \ {0}
    BY SizesAssumption DEF SizesAssumption
  <1>4. HeaderSize \in {4, 8}
    BY DEF HeaderSize
  <1> QED BY <1>2, <1>3, <1>4, SMT DEF CurLen, IsLast

LEMMA Encrypted ==
    ASSUME SendInv, Sending, Encrypt
    PROVE  FramesFit'
  <1>1. CurLen \in Nat /\ CurLen <= MAX_FRAME_PAYLOAD_SIZE /\ HeaderSize \in {4, 8}
    BY FragmentLength
  <1>2. bio = 0
    BY DEF SendInv, FramesFit
  <1>3. /\ MAX_FRAME_PAYLOAD_SIZE \in Nat /\ MAX_FRAME_SIZE \in Nat /\ TlsOverhead \in Nat
        /\ MAX_FRAME_PAYLOAD_SIZE + TlsOverhead + 8 <= MAX_FRAME_SIZE
    BY SizesAssumption DEF SizesAssumption
  <1>4. InBio \in Nat /\ InBio <= MAX_FRAME_SIZE - HeaderSize
    BY <1>1, <1>2, <1>3, SMT DEF InBio
  <1>5. FromBio = InBio
    BY <1>4 DEF FromBio
  <1> QED BY <1>2, <1>4, <1>5, SMT DEF Encrypt, FramesFit


-----------------------------------------------------------------------------
(* The stack of a step that changes the innermost call to c, and may have  *)
(* put a ShutdownRequest on it.                                            *)

Changed(c) ==
    /\ c \in CallType
    /\ c.msg = Top.msg /\ c.len = Top.len /\ c.encoded = Top.encoded
    /\ c.frag_start >= -1
    /\ c.ret = 0 <=> c.frag_start # -1

LEMMA CallsChanged ==
    ASSUME SendInv, Sending
    PROVE  /\ Changed(Advanced)
           /\ Changed(Return(-1))
           /\ Changed(Return(HeaderSize + CurLen))
  <1>1. Top \in CallType /\ CallInv(Top, 1, Len(stack))
    BY TopOfStack DEF Sending
  <1>2. /\ Top.frag_start \in Nat
        /\ CurLen \in Nat \ {0}
        /\ HeaderSize \in {4, 8}
    BY FragmentLength
  <1>3. MAX_FRAME_PAYLOAD_SIZE \in Nat \ {0}
    BY SizesAssumption DEF SizesAssumption
  <1>4. Changed(Advanced)
    BY <1>1, <1>2, <1>3, SMT DEF Changed, Advanced, CallType, CallInv
  <1>5. ASSUME NEW r \in Int \ {0} PROVE Changed(Return(r))
    <2>1. -1 \in Int /\ r \in Int
      BY SMT
    <2>2. Return(r) \in CallType
      BY <1>1, <2>1, Zenon DEF Return, CallType
    <2>3. /\ Return(r).msg = Top.msg /\ Return(r).len = Top.len
          /\ Return(r).encoded = Top.encoded
          /\ Return(r).frag_start = -1 /\ Return(r).ret = r
      BY <1>1, SMT DEF Return, CallType
    <2> QED BY <2>2, <2>3, SMT DEF Changed
  <1>6. HeaderSize + CurLen \in Int \ {0}
    BY <1>2, SMT
  <1> QED BY <1>4, <1>5, <1>6, SMT

(* The calls of the new stack are those of the old one, as far as their    *)
(* messages go, or of a ShutdownRequest.                                   *)
SameMessages ==
    \A i \in 1..Len(stack') :
        \/ stack'[i].msg = 0 /\ stack'[i].len = 4
        \/ \E j \in 1..Len(stack) :
              stack'[i].msg = stack[j].msg /\ stack'[i].len = stack[j].len

LEMMA InnermostReplaced ==
    ASSUME SendInv, Sending, NEW c, Changed(c), stack' = <<c>> \o Tail(stack),
           UNCHANGED <<iaap_state, messages>>,
           failures' \in Nat, failures <= failures'
    PROVE  /\ stack' \in Seq(CallType)
           /\ stack' # <<>> /\ stack'[1] = c /\ Len(stack') = Len(stack)
           /\ \A i \in 2..Len(stack) : stack'[i] = stack[i]
           /\ StackInv'
           /\ SameMessages
  <1>1. /\ stack # <<>> /\ stack \in Seq(CallType)
        /\ Top = stack[1]
        /\ Len(stack) \in Nat \ {0}
        /\ CallInv(Top, 1, Len(stack))
    BY TopOfStack DEF Sending, SendInv, Types
  <1>2. c \in CallType
    BY DEF Changed
  <1>3. /\ stack' \in Seq(CallType) /\ stack' # <<>> /\ stack'[1] = c
        /\ Len(stack') = Len(stack)
        /\ \A i \in 2..Len(stack) : stack'[i] = stack[i]
    BY <1>1, <1>2, StackReplaced
  <1>4. CallInv(c, 1, Len(stack))'
    BY <1>1, <1>3, SMT DEF CallInv, Changed
  <1>5. ASSUME NEW i \in 2..Len(stack) PROVE CallInv(stack[i], i, Len(stack))'
    BY <1>1, <1>3, <1>5, SMT DEF CallInv, SendInv, StackInv
  <1>6. StackInv'
    BY <1>1, <1>3, <1>4, <1>5, SMT DEF StackInv, CallInv, SendInv, Types
  <1>7. SameMessages
    BY <1>1, <1>3, SMT DEF SameMessages, Changed
  <1> QED BY <1>3, <1>6, <1>7

LEMMA Stopped ==
    ASSUME SendInv, Sending, Fail, NEW c, Changed(c), Stop(c), UNCHANGED messages
    PROVE  /\ stack' \in Seq(CallType)
           /\ iaap_state' \in {"STARTIN", "STARTED", "STOPPED"}
           /\ StackInv'
           /\ SameMessages
           /\ c.frag_start = -1 /\ iaap_state = "STARTED" =>
                 /\ stack'[1].frag_start = 0 /\ stack'[1].len = 4
                 /\ stack'[2] = c /\ Len(stack') = Len(stack) + 1
                 /\ \A i \in 3..Len(stack') : stack'[i] = stack[i - 1]
  <1>1. /\ stack # <<>> /\ stack \in Seq(CallType)
        /\ Top = stack[1]
        /\ Len(stack) \in Nat \ {0}
        /\ CallInv(Top, 1, Len(stack))
        /\ failures \in Nat /\ failures' = failures + 1
        /\ messages \in 0..MaxMessages /\ MaxMessages \in Nat
        /\ iaap_state \in {"STARTIN", "STARTED", "STOPPED"}
    BY TopOfStack, BoundsAssumption, SMT
    DEF Sending, SendInv, Types, Fail, BoundsAssumption
  <1>2. CASE iaap_state # "STARTED"
    <2>1. stack' = <<c>> \o Tail(stack)
      BY <1>2 DEF Stop
    <2>2. /\ stack' \in Seq(CallType) /\ stack'[1] = c
          /\ Len(stack') = Len(stack)
          /\ \A i \in 2..Len(stack) : stack'[i] = stack[i]
      BY <1>1, <2>1, StackReplaced DEF Changed
    <2>3. CallInv(c, 1, Len(stack))'
      BY <1>1, <1>2, <2>2, SMT DEF CallInv, Changed
    <2>4. ASSUME NEW i \in 2..Len(stack) PROVE CallInv(stack[i], i, Len(stack))'
      BY <1>1, <1>2, <2>2, <2>4, SMT DEF CallInv, SendInv, StackInv
    <2>5. StackInv'
      <3>1. ASSUME NEW i \in 1..Len(stack') PROVE CallInv(stack[i], i, Len(stack))'
        <4>1. CASE i = 1
          BY <2>2, <2>3, <4>1
        <4>2. CASE i # 1
          BY <1>1, <2>2, <2>4, <4>2, SMT
        <4> QED BY <4>1, <4>2
      <3>2. Len(stack') <= failures' + 1
        BY <1>1, <2>2, SMT DEF StackInv, SendInv
      <3> QED BY <3>1, <3>2 DEF StackInv
    <2>6. SameMessages
      BY <1>1, <2>2, SMT DEF SameMessages, Changed
    <2> QED BY <1>1, <1>2, <2>2, <2>5, <2>6 DEF Stop
  <1>3. CASE iaap_state = "STARTED"
    <2> DEFINE d == NewCall(0, 4, 0, TRUE)
    <2>1. stack' = <<d, c>> \o Tail(stack) /\ iaap_state' = "STARTED"
      BY <1>3 DEF Stop
    <2>2. d \in CallType /\ d.msg = 0 /\ d.len = 4 /\ d.frag_start = 0 /\ d.ret = 0
      BY <1>1, SMT DEF NewCall, CallType
    <2>3. /\ stack' \in Seq(CallType) /\ stack'[1] = d /\ stack'[2] = c
          /\ Len(stack') = Len(stack) + 1
          /\ \A i \in 3..Len(stack') : stack'[i] = stack[i - 1]
      <3>1. c \in CallType
        BY DEF Changed
      <3> HIDE DEF d
      <3> QED BY <1>1, <2>1, <2>2, <3>1, StackPushed
    <2> HIDE DEF d
    <2>4. CallInv(d, 1, Len(stack))'
      BY <1>1, <2>1, <2>2, <2>3, SMT DEF CallInv
    <2>5. CallInv(c, 2, Len(stack))'
      BY <1>1, <2>1, <2>3, SMT DEF CallInv, Changed
    <2>6. ASSUME NEW i \in 3..Len(stack') PROVE CallInv(stack[i], i, Len(stack))'
      <3>1. CallInv(stack[i - 1], i - 1, Len(stack))
        BY <1>1, <2>3, <2>6, SMT DEF SendInv, StackInv
      <3> QED BY <1>1, <1>3, <2>1, <2>3, <2>6, <3>1, SMT DEF CallInv
    <2>7. StackInv'
      <3>1. ASSUME NEW i \in 1..Len(stack') PROVE CallInv(stack[i], i, Len(stack))'
        <4>1. CASE i = 1
          BY <2>3, <2>4, <4>1
        <4>2. CASE i = 2
          BY <2>3, <2>5, <4>2
        <4>3. CASE i > 2
          BY <1>1, <2>3, <2>6, <4>3, SMT
        <4> QED BY <1>1, <2>3, <4>1, <4>2, <4>3, SMT
      <3>2. Len(stack') <= failures' + 1
        BY <1>1, <2>3, SMT DEF StackInv, SendInv
      <3> QED BY <3>1, <3>2 DEF StackInv
    <2>8. SameMessages
      <3> SUFFICES ASSUME NEW i \in 1..Len(stack')
                   PROVE  \/ stack'[i].msg = 0 /\ stack'[i].len = 4
                          \/ \E j \in 1..Len(stack) :
                                /\ stack'[i].msg = stack[j].msg
                                /\ stack'[i].len = stack[j].len
        BY DEF SameMessages
      <3>1. CASE i = 1
        BY <2>2, <2>3, <3>1
      <3>2. CASE i = 2
        BY <1>1, <2>3, <3>2, SMT DEF Changed
      <3>3. CASE i > 2
        <4>1. i \in 3..Len(stack') /\ i - 1 \in 1..Len(stack)
          BY <1>1, <2>3, <3>3, SMT
        <4> QED BY <2>3, <4>1
      <3> QED BY <3>1, <3>2, <3>3, <1>1, <2>3, SMT
    <2> QED BY <1>1, <2>1, <2>2, <2>3, <2>7, <2>8
  <1> QED BY <1>2, <1>3

(* What is delivered stays right as long as the messages are the same, and *)
(* a result as long as nothing delivered is forgotten.                     *)
LEMMA DeliveredKept ==
    ASSUME SendInv, SameMessages, UNCHANGED <<messages, delivered>>
    PROVE  DeliveredInv'
  <1> SUFFICES ASSUME NEW m \in delivered, NEW i \in 1..Len(stack'),
                      stack'[i].msg = m.msg
               PROVE  stack'[i].len = m.size
    BY DEF DeliveredInv, Delivered, SendInv
  <1>1. /\ m.msg = 0 => m.size = 4
        /\ \A j \in 1..Len(stack) : stack[j].msg = m.msg => stack[j].len = m.size
    BY DEF SendInv, DeliveredInv, Delivered
  <1> QED BY <1>1 DEF SameMessages

LEMMA ResultsKept ==
    ASSUME SendInv, results' = results, lost => lost', delivered \subseteq delivered'
    PROVE  ZeroMeansDelivered'
  BY DEF SendInv, ZeroMeansDelivered

-----------------------------------------------------------------------------
(* The steps. *)

LEMMA NoneIsPart == None \in PartType
  <1>1. -1 \in -1..MaxMessages
    BY BoundsAssumption, SMT DEF BoundsAssumption
  <1> QED BY <1>1 DEF None, PartType

LEMMA SendInitially == Init => SendInv
  <1> SUFFICES ASSUME Init PROVE SendInv
    OBVIOUS
  <1>1. Types
    <2>1. stack \in Seq(CallType) /\ messages \in 0..MaxMessages /\ failures \in 0..MaxFailures
      BY BoundsAssumption, EmptySeq, SMT DEF Init, BoundsAssumption
    <2> QED BY <2>1, NoneIsPart DEF Init, Types
  <1>2. Len(stack) = 0
    BY EmptySeq DEF Init
  <1>3. StackInv
    BY <1>1, <1>2, SMT DEF Init, StackInv
  <1>4. PhoneInv
    BY <1>2, SMT DEF Init, PhoneInv
  <1>5. DeliveredInv /\ ZeroMeansDelivered /\ FramesFit
    BY DEF Init, DeliveredInv, ZeroMeansDelivered, FramesFit
  <1> QED BY <1>1, <1>3, <1>4, <1>5 DEF SendInv

LEMMA CallStep ==
    ASSUME SendInv, NEW len \in Lengths, NEW retry \in {0, 1}, NEW encoded \in BOOLEAN,
           encoded = TRUE => iaap_state = "STARTED", Call(len, retry, encoded)
    PROVE  SendInv'
  <1>c. PICK c : c = NewCall(messages', len, retry, encoded)
    OBVIOUS
  <1>1. /\ len \in Nat \ {0}
        /\ messages \in Nat /\ messages' = messages + 1 /\ messages' \in 1..MaxMessages
        /\ stack = <<>>
        /\ UNCHANGED <<iaap_state, failures, bio, results, lost, partial, delivered>>
    BY SizesAssumption, BoundsAssumption, SMT
    DEF Call, SendInv, Types, SizesAssumption, BoundsAssumption, phoneVars
  <1>2. /\ c \in CallType /\ c.msg = messages' /\ c.len = len
        /\ c.frag_start = 0 /\ c.ret = 0 /\ c.encoded = encoded
    BY <1>1, <1>c, SMT DEF NewCall, CallType
  <1>3. stack' = <<c>>
    BY <1>c DEF Call
  <1>4. stack' \in Seq(CallType) /\ Len(stack') = 1 /\ stack'[1] = c
    BY <1>2, <1>3, SMT
  <1>5. Types'
    BY <1>1, <1>4, SMT DEF SendInv, Types
  <1>6. CallInv(c, 1, 1)'
    <2>1. c.encoded = TRUE => iaap_state' = "STARTED"
      BY <1>1, <1>2
    <2>2. /\ c.msg <= messages' /\ c.msg # 0 /\ c.frag_start >= -1
          /\ c.frag_start # -1 /\ c.ret = 0
      BY <1>1, <1>2, SMT
    <2>3. ~(1 < 1)
      BY SMT
    <2> QED BY <2>1, <2>2, <2>3 DEF CallInv
  <1>7. StackInv'
    <2>1. ASSUME NEW i \in 1..Len(stack') PROVE i = 1
      BY <1>4, <2>1, SMT
    <2>2. Len(stack') <= failures' + 1
      BY <1>1, <1>4, SMT DEF SendInv, Types
    <2> QED BY <1>4, <1>6, <2>1, <2>2 DEF StackInv
  <1>8. PhoneInv'
    BY <1>1, <1>2, <1>4, SMT DEF PhoneInv, CallSent, IsSending
  <1>9. DeliveredInv'
    <2> SUFFICES ASSUME NEW m \in delivered
                 PROVE  /\ m.msg \in 0..messages'
                        /\ m.size = m.total
                        /\ m.msg = 0 => m.size = 4
                        /\ c.msg # m.msg
      BY <1>1, <1>4, SMT DEF DeliveredInv, Delivered
    <2> QED BY <1>1, <1>2, SMT DEF SendInv, DeliveredInv
  <1>10. ZeroMeansDelivered' /\ FramesFit'
    BY <1>1, ResultsKept DEF SendInv, FramesFit
  <1> QED BY <1>5, <1>7, <1>8, <1>9, <1>10 DEF SendInv

(* What the phone has after a frame. *)
LEMMA PhoneHas ==
    ASSUME SendInv, Sending, PhoneReceives, ~lost
    PROVE  /\ lost' = lost
           /\ IsLast => /\ delivered' = delivered \union
                              {[msg |-> Top.msg, size |-> Top.len, total |-> Top.len]}
                        /\ partial' = None
           /\ ~IsLast => /\ partial' = [msg |-> Top.msg, size |-> Top.frag_start + CurLen,
                                        total |-> Top.len]
                         /\ delivered' = delivered
  <1> DEFINE had == IF IsFirst THEN [None EXCEPT !.msg = Top.msg,
                                  !.total = IF IsLast THEN CurLen ELSE Top.len]
                    ELSE partial
  <1>1. /\ Top.frag_start \in Nat /\ Top.frag_start < Top.len /\ Top.len \in Nat
        /\ CurLen \in Nat
        /\ IsLast => Top.frag_start + CurLen = Top.len
    BY FragmentLength
  <1>2. had = [msg |-> Top.msg, size |-> Top.frag_start, total |-> Top.len]
    <2>1. CASE IsFirst
      <3>1. Top.frag_start = 0 /\ (IsLast => CurLen = Top.len)
        BY <1>1, <2>1, SMT DEF IsFirst
      <3>2. had = [msg |-> Top.msg, size |-> 0, total |-> Top.len]
        BY <2>1, <3>1 DEF None
      <3> QED BY <3>1, <3>2
    <2>2. CASE ~IsFirst
      <3>1. Top.frag_start > 0
        BY <1>1, <2>2, SMT DEF IsFirst
      <3>2. /\ Top = stack[1] /\ stack # <<>> /\ IsSending(stack[1])
        BY TopOfStack DEF Sending, IsSending
      <3>3. partial = [msg |-> Top.msg, size |-> Top.frag_start, total |-> Top.len]
        BY <3>1, <3>2 DEF SendInv, PhoneInv
      <3> QED BY <2>2, <3>3
    <2> QED BY <2>1, <2>2
  <1> DEFINE fits  == had.msg = Top.msg /\ had.size = Top.frag_start
             whole == [had EXCEPT !.size = IF fits THEN @ + CurLen ELSE -1]
  <1>3. whole = [msg |-> Top.msg, size |-> Top.frag_start + CurLen, total |-> Top.len]
    <2> HIDE DEF had
    <2>1. fits
      BY <1>2
    <2> QED BY <1>2, <2>1
  <1>4. IF IsLast
        THEN /\ delivered' = delivered \union {[whole EXCEPT !.msg = Top.msg]}
             /\ partial' = None
             /\ lost' = lost
        ELSE partial' = whole /\ lost' = lost /\ delivered' = delivered
    BY DEF PhoneReceives
  <1> HIDE DEF whole
  <1>5. [whole EXCEPT !.msg = Top.msg] = whole
    BY <1>3
  <1> QED BY <1>1, <1>3, <1>4, <1>5

LEMMA SendFrameStep ==
    ASSUME SendInv, SendFrame
    PROVE  SendInv'
  <1>1. /\ Sending /\ Encrypt /\ PhoneReceives
        /\ UNCHANGED <<iaap_state, messages, failures, results>>
    BY DEF SendFrame
  <1>2. PICK c \in {Advanced, Return(HeaderSize + CurLen)} :
              stack' = <<c>> \o Tail(stack)
    BY DEF SendFrame
  <1>3. Changed(c)
    BY <1>1, <1>2, CallsChanged
  <1>4. /\ Top = stack[1] /\ Top \in CallType
        /\ Len(stack) \in Nat \ {0} /\ stack # <<>>
        /\ CallInv(Top, 1, Len(stack))
    BY <1>1, TopOfStack DEF Sending
  <1>5. /\ stack' \in Seq(CallType)
        /\ stack' # <<>> /\ stack'[1] = c /\ Len(stack') = Len(stack)
        /\ \A i \in 2..Len(stack) : stack'[i] = stack[i]
        /\ StackInv'
        /\ SameMessages
    <2>1. failures' \in Nat /\ failures <= failures'
      BY <1>1, BoundsAssumption, SMT DEF SendInv, Types, BoundsAssumption
    <2> QED BY <1>1, <1>2, <1>3, <2>1, InnermostReplaced
  <1>6. FramesFit'
    BY <1>1, Encrypted
  <1>7. /\ CurLen \in Nat \ {0}
        /\ IsLast => Top.frag_start + CurLen = Top.len
        /\ ~IsLast => CurLen = MAX_FRAME_PAYLOAD_SIZE
        /\ Top.frag_start \in Nat /\ Top.len \in Nat
        /\ MAX_FRAME_PAYLOAD_SIZE \in Nat \ {0}
    BY <1>1, FragmentLength, SizesAssumption DEF SizesAssumption
  <1>8. CASE lost
    <2>1. UNCHANGED <<lost, partial, delivered>>
      BY <1>1, <1>8 DEF PhoneReceives, phoneVars
    <2>2. Types'
      BY <1>1, <1>5, <2>1, SMT DEF SendInv, Types
    <2>3. PhoneInv'
      BY <1>8, <2>1 DEF PhoneInv
    <2>4. DeliveredInv' /\ ZeroMeansDelivered'
      BY <1>1, <1>5, <2>1, DeliveredKept, ResultsKept
    <2> QED BY <1>5, <1>6, <2>2, <2>3, <2>4 DEF SendInv
  <1>9. CASE ~lost
    <2> DEFINE message == [msg |-> Top.msg, size |-> Top.len, total |-> Top.len]
    <2>1. /\ lost' = lost
          /\ IsLast => delivered' = delivered \union {message} /\ partial' = None
          /\ ~IsLast => /\ partial' = [msg |-> Top.msg, size |-> Top.frag_start + CurLen,
                                       total |-> Top.len]
                        /\ delivered' = delivered
      BY <1>1, <1>9, PhoneHas
    <2>2. Types'
      <3>1. message \in PartType /\ None \in PartType
            /\ [msg |-> Top.msg, size |-> Top.frag_start + CurLen, total |-> Top.len]
                  \in PartType
        <4>1. Top.msg \in -1..MaxMessages
          BY <1>4, SMT DEF CallType
        <4>2. Top.len \in Int /\ Top.frag_start + CurLen \in Int
          BY <1>7, SMT
        <4> QED BY <4>1, <4>2, NoneIsPart DEF PartType
      <3>2. delivered' \subseteq PartType /\ partial' \in PartType
        BY <2>1, <3>1 DEF SendInv, Types
      <3> QED BY <1>1, <1>5, <2>1, <3>2 DEF SendInv, Types
    <2>3. delivered \subseteq delivered'
      BY <2>1
    <2>4. PhoneInv'
      <3>1. /\ \A i \in 2..Len(stack) : ~IsSending(stack[i])
            /\ \A i \in 1..Len(stack) : CallSent(stack[i])
        BY <1>9 DEF SendInv, PhoneInv
      <3>2. \A i \in 2..Len(stack') : ~IsSending(stack'[i])
        BY <1>5, <3>1
      <3>3. \A i \in 2..Len(stack') : CallSent(stack[i])'
        BY <1>4, <1>5, <2>3, <3>1, SMT DEF CallSent
      <3>4. CASE c = Return(HeaderSize + CurLen)
        <4>1. c.frag_start = -1 /\ c.len \in Nat
          BY <1>4, <1>7, <3>4, SMT DEF Return, CallType
        <4>2. ~IsSending(c) /\ CallSent(c)'
          BY <4>1, SMT DEF IsSending, CallSent
        <4> QED BY <1>4, <1>5, <3>2, <3>3, <4>2, SMT DEF PhoneInv
      <3>5. CASE c = Advanced
        <4>1. /\ c.frag_start = Top.frag_start + MAX_FRAME_PAYLOAD_SIZE
              /\ c.len = Top.len /\ c.msg = Top.msg
          BY <1>4, <3>5, SMT DEF Advanced, CallType
        <4>2. CASE IsLast
          <5>1. c.frag_start >= c.len
            BY <4>1, <4>2, SMT DEF IsLast
          <5>2. ~IsSending(c)
            BY <1>7, <4>1, <5>1, SMT DEF IsSending
          <5>3. message \in delivered' /\ message.msg = c.msg
            BY <2>1, <4>1, <4>2
          <5>4. CallSent(c)'
            BY <5>3 DEF CallSent
          <5> QED BY <1>4, <1>5, <3>2, <3>3, <5>2, <5>4, SMT DEF PhoneInv
        <4>3. CASE ~IsLast
          <5>1. partial' = [msg |-> c.msg, size |-> c.frag_start, total |-> c.len]
            BY <1>7, <2>1, <4>1, <4>3
          <5>2. c.frag_start < c.len
            BY <1>7, <4>1, <4>3, SMT DEF IsLast
          <5>3. CallSent(c)'
            BY <1>7, <4>1, <5>2, SMT DEF CallSent
          <5> QED BY <1>4, <1>5, <3>2, <3>3, <5>1, <5>3, SMT DEF PhoneInv
        <4> QED BY <4>2, <4>3
      <3> QED BY <1>2, <3>4, <3>5
    <2>5. DeliveredInv'
      <3>1. CASE ~IsLast
        BY <1>1, <1>5, <2>1, <3>1, DeliveredKept
      <3>2. CASE IsLast
        <4> SUFFICES ASSUME NEW m \in delivered'
                     PROVE  /\ m.msg \in 0..messages
                            /\ m.size = m.total
                            /\ m.msg = 0 => m.size = 4
                            /\ \A i \in 1..Len(stack') : Delivered(m, stack'[i])
          BY <1>1 DEF DeliveredInv
        <4>1. CASE m \in delivered
          <5>1. /\ m.msg \in 0..messages
                /\ m.size = m.total
                /\ m.msg = 0 => m.size = 4
                /\ \A i \in 1..Len(stack) : Delivered(m, stack[i])
            BY <4>1 DEF SendInv, DeliveredInv
          <5> QED BY <5>1, <1>5 DEF SameMessages, Delivered
        <4>2. CASE m = message
          <5>1. /\ m.msg = Top.msg /\ m.size = Top.len /\ m.size = m.total
            BY <4>2
          <5>2. /\ Top.msg \in 0..messages
                /\ Top.msg = 0 => Top.len = 4
                /\ Top.msg = 0 <=> 1 < Len(stack)
            BY <1>4, SMT DEF CallInv, CallType, SendInv, Types
          <5>3. ASSUME NEW i \in 1..Len(stack'), stack'[i].msg = m.msg
                PROVE  stack'[i].len = m.size
            <6>1. CASE i = 1
              BY <1>3, <1>5, <5>1, <6>1 DEF Changed
            <6>2. CASE i # 1
              <7>1. i \in 2..Len(stack) /\ 1 < Len(stack)
                BY <1>4, <1>5, <6>2, SMT
              <7>2. stack'[i].msg = 0 /\ stack'[i] = stack[i]
                BY <1>5, <5>1, <5>2, <5>3, <7>1
              <7>3. CallInv(stack[i], i, Len(stack))
                BY <7>1, SMT DEF SendInv, StackInv
              <7> QED BY <5>1, <5>2, <5>3, <7>1, <7>2, <7>3 DEF CallInv
            <6> QED BY <6>1, <6>2
          <5> QED BY <5>1, <5>2, <5>3 DEF Delivered
        <4> QED BY <2>1, <3>2, <4>1, <4>2
      <3> QED BY <3>1, <3>2
    <2>6. ZeroMeansDelivered'
      BY <1>1, <2>1, <2>3, ResultsKept
    <2> QED BY <1>5, <1>6, <2>2, <2>4, <2>5, <2>6 DEF SendInv
  <1> QED BY <1>8, <1>9

LEMMA WriteFailsStep ==
    ASSUME SendInv, WriteFails
    PROVE  SendInv'
  <1>1. /\ Sending /\ Fail /\ Encrypt /\ lost' = TRUE
        /\ UNCHANGED <<messages, results, partial, delivered>>
    BY DEF WriteFails
  <1>2. PICK c \in {Advanced, Return(-1)} :
              \/ Stop(c)
              \/ stack' = <<c>> \o Tail(stack) /\ UNCHANGED iaap_state
    BY Zenon DEF WriteFails
  <1>3. Changed(c)
    BY <1>1, <1>2, CallsChanged
  <1>4. failures \in Nat /\ failures' \in 0..MaxFailures /\ failures <= failures'
    BY <1>1, BoundsAssumption, SMT DEF Fail, SendInv, Types, BoundsAssumption
  <1>5. /\ stack' \in Seq(CallType)
        /\ iaap_state' \in {"STARTIN", "STARTED", "STOPPED"}
        /\ StackInv'
        /\ SameMessages
    <2>1. CASE Stop(c)
      BY <1>1, <1>3, <2>1, Stopped
    <2>2. CASE stack' = <<c>> \o Tail(stack) /\ UNCHANGED iaap_state
      <3>1. failures' \in Nat
        BY <1>4, SMT
      <3> QED BY <1>1, <1>3, <1>4, <2>2, <3>1, InnermostReplaced DEF SendInv, Types
    <2> QED BY <1>2, <2>1, <2>2
  <1>6. Types'
    BY <1>1, <1>4, <1>5 DEF SendInv, Types
  <1>7. FramesFit'
    BY <1>1, Encrypted
  <1>8. PhoneInv'
    BY <1>1 DEF PhoneInv
  <1>9. DeliveredInv' /\ ZeroMeansDelivered'
    BY <1>1, <1>5, DeliveredKept, ResultsKept
  <1> QED BY <1>5, <1>6, <1>7, <1>8, <1>9 DEF SendInv

LEMMA SslFailsStep ==
    ASSUME SendInv, SslFails
    PROVE  SendInv'
  <1>c. PICK c : c = Return(-1)
    OBVIOUS
  <1>1. /\ Sending /\ Fail /\ Stop(c) /\ (~lost' => ~lost) /\ lost' \in BOOLEAN
        /\ UNCHANGED <<messages, bio, results, partial, delivered>>
    <2>1. /\ Sending /\ Fail /\ Stop(Return(-1)) /\ lost' \in {lost, TRUE}
          /\ UNCHANGED <<messages, bio, results, partial, delivered>>
      BY DEF SslFails
    <2>2. lost \in BOOLEAN
      BY DEF SendInv, Types
    <2>3. lost' = lost \/ lost' = TRUE
      BY <2>1
    <2>4. (~lost' => ~lost) /\ lost' \in BOOLEAN
      BY <2>2, <2>3, Zenon
    <2> QED BY <1>c, <2>1, <2>4
  <1>2. Changed(c)
    BY <1>1, <1>c, CallsChanged
  <1>3. /\ Top = stack[1] /\ Top \in CallType
        /\ Len(stack) \in Nat \ {0} /\ stack # <<>>
        /\ CallInv(Top, 1, Len(stack))
    BY <1>1, TopOfStack DEF Sending
  <1>4. iaap_state = "STARTED"
    BY <1>3, Zenon DEF SslFails, CallInv, CallType
  <1>5. c.frag_start = -1 /\ c.len \in Nat
    BY <1>3, <1>c, SMT DEF Return, CallType
  <1>6. failures \in Nat /\ failures' \in 0..MaxFailures
    BY <1>1, BoundsAssumption, SMT DEF Fail, SendInv, Types, BoundsAssumption
  <1>7. /\ stack' \in Seq(CallType)
        /\ iaap_state' \in {"STARTIN", "STARTED", "STOPPED"}
        /\ StackInv'
        /\ SameMessages
        /\ stack'[1].frag_start = 0 /\ stack'[1].len = 4
        /\ stack'[2] = c /\ Len(stack') = Len(stack) + 1
        /\ \A i \in 3..Len(stack') : stack'[i] = stack[i - 1]
    BY <1>1, <1>2, <1>4, <1>5, Stopped
  <1>8. Types'
    BY <1>1, <1>6, <1>7 DEF SendInv, Types
  <1>9. PhoneInv'
    <2> SUFFICES ASSUME ~lost'
                 PROVE  /\ \A i \in 2..Len(stack') : ~IsSending(stack'[i])
                        /\ \A i \in 1..Len(stack') : CallSent(stack[i])'
      BY <1>7, SMT DEF PhoneInv
    <2>1. /\ \A i \in 2..Len(stack) : ~IsSending(stack[i])
          /\ \A i \in 1..Len(stack) : CallSent(stack[i])
      BY <1>1 DEF SendInv, PhoneInv
    <2>2. ~IsSending(c) /\ CallSent(c)'
      BY <1>5, SMT DEF IsSending, CallSent
    <2>3. CallSent(stack[1])'
      BY <1>7, SMT DEF CallSent
    <2>4. ASSUME NEW i \in 3..Len(stack')
          PROVE  ~IsSending(stack'[i]) /\ CallSent(stack[i])'
      <3>1. stack'[i] = stack[i - 1] /\ i - 1 \in 2..Len(stack)
        BY <1>3, <1>7, <2>4, SMT
      <3>2. CallSent(stack[i - 1]) /\ ~IsSending(stack[i - 1])
        BY <1>3, <2>1, <3>1, SMT
      <3> QED BY <1>1, <3>1, <3>2 DEF CallSent
    <2>5. ASSUME NEW i \in 1..Len(stack') PROVE i = 1 \/ i = 2 \/ i \in 3..Len(stack')
      BY <1>3, <1>7, <2>5, SMT
    <2>6. \A i \in 2..Len(stack') : i \in 1..Len(stack') /\ i # 1
      BY <1>3, <1>7, SMT
    <2> QED BY <1>7, <2>2, <2>3, <2>4, <2>5, <2>6
  <1>10. DeliveredInv' /\ ZeroMeansDelivered' /\ FramesFit'
    BY <1>1, <1>7, DeliveredKept, ResultsKept DEF SendInv, FramesFit
  <1> QED BY <1>7, <1>8, <1>9, <1>10 DEF SendInv

LEMMA CallReturnsStep ==
    ASSUME SendInv, CallReturns
    PROVE  SendInv'
  <1>1. /\ stack # <<>> /\ ~Sending /\ stack' = Tail(stack)
        /\ UNCHANGED <<iaap_state, messages, failures, bio, lost, partial, delivered>>
    BY DEF CallReturns, phoneVars
  <1>2. /\ Top = stack[1] /\ Top \in CallType
        /\ Len(stack) \in Nat \ {0}
        /\ CallInv(Top, 1, Len(stack))
    BY <1>1, TopOfStack
  <1>3. /\ stack' \in Seq(CallType) /\ Len(stack') = Len(stack) - 1
        /\ \A i \in 1..Len(stack') : stack'[i] = stack[i + 1]
    BY <1>1, StackPopped DEF SendInv, Types
  <1>4. \A i \in 1..Len(stack') : i + 1 \in 2..Len(stack)
    BY <1>2, <1>3, SMT
  <1>5. StackInv'
    <2>1. ASSUME NEW i \in 1..Len(stack') PROVE CallInv(stack[i], i, Len(stack))'
      <3>1. CallInv(stack[i + 1], i + 1, Len(stack))
        BY <1>4, <2>1, SMT DEF SendInv, StackInv
      <3> QED BY <1>1, <1>2, <1>3, <2>1, <3>1, SMT DEF CallInv
    <2>2. Len(stack') <= failures' + 1
      BY <1>1, <1>2, <1>3, SMT DEF SendInv, StackInv, Types
    <2> QED BY <2>1, <2>2 DEF StackInv
  <1>6. SameMessages
    BY <1>3, <1>4, SMT DEF SameMessages
  <1>7. PhoneInv'
    <2> SUFFICES ASSUME ~lost
                 PROVE  \A i \in 1..Len(stack') :
                           ~IsSending(stack'[i]) /\ CallSent(stack[i])'
      <3>1. stack' # <<>> => 1 \in 1..Len(stack')
        BY <1>3, EmptySeq, SMT
      <3> QED BY <1>1, <1>3, <3>1, SMT DEF PhoneInv
    <2>1. \A i \in 2..Len(stack) : ~IsSending(stack[i]) /\ CallSent(stack[i])
      BY SMT DEF SendInv, PhoneInv
    <2> QED BY <1>1, <1>3, <1>4, <2>1 DEF CallSent
  <1>8. DeliveredInv'
    BY <1>1, <1>6, DeliveredKept
  <1> DEFINE r == [msg |-> Top.msg, ret |-> Top.ret]
  <1>9. CASE Tail(stack) # <<>>
    <2>1. results' = results
      BY <1>9 DEF CallReturns
    <2>2. Types' /\ ZeroMeansDelivered' /\ FramesFit'
      BY <1>1, <1>3, <2>1, ResultsKept DEF SendInv, Types, FramesFit
    <2> QED BY <1>5, <1>7, <1>8, <2>2 DEF SendInv
  <1>10. CASE Tail(stack) = <<>>
    <2>1. results' = results \union {r}
      BY <1>10 DEF CallReturns
    <2>2. Len(stack) = 1
      <3>1. stack' = <<>>
        BY <1>1, <1>10, Zenon
      <3>2. Len(stack') = 0
        BY <3>1, EmptySeq, SMT
      <3> QED BY <1>2, <1>3, <3>2, SMT
    <2>3. r \in [msg : 1..MaxMessages, ret : Int]
      BY <1>2, <2>2, BoundsAssumption, SMT DEF CallInv, CallType, BoundsAssumption
    <2>4. Types'
      BY <1>1, <1>3, <2>1, <2>3 DEF SendInv, Types
    <2>5. r.ret = 0 => lost \/ \E m \in delivered : m.msg = r.msg
      <3> SUFFICES ASSUME Top.ret = 0, ~lost PROVE \E m \in delivered : m.msg = Top.msg
        OBVIOUS
      <3>1. Top.frag_start >= Top.len
        BY <1>1, <1>2, SMT DEF CallInv, CallType, Sending
      <3>2. CallSent(Top)
        BY <1>2, SMT DEF SendInv, PhoneInv
      <3> QED BY <3>1, <3>2 DEF CallSent
    <2>6. ZeroMeansDelivered'
      BY <1>1, <2>1, <2>5 DEF SendInv, ZeroMeansDelivered
    <2>7. FramesFit'
      BY <1>1 DEF SendInv, FramesFit
    <2> QED BY <1>5, <1>7, <1>8, <2>4, <2>6, <2>7 DEF SendInv
  <1> QED BY <1>9, <1>10

LEMMA HandshakeDoneStep ==
    ASSUME SendInv, HandshakeDone
    PROVE  SendInv'
  <1>1. /\ iaap_state' = "STARTED" /\ stack = <<>>
        /\ UNCHANGED <<stack, messages, failures, bio, results, lost, partial, delivered>>
    BY DEF HandshakeDone, phoneVars
  <1>2. Len(stack) = 0
    BY <1>1, EmptySeq
  <1>3. StackInv'
    BY <1>1, <1>2, SMT DEF StackInv, SendInv, Types
  <1>4. Types' /\ FramesFit' /\ PhoneInv' /\ DeliveredInv' /\ ZeroMeansDelivered'
    BY <1>1 DEF SendInv, Types, FramesFit, PhoneInv, CallSent, DeliveredInv, ZeroMeansDelivered
  <1> QED BY <1>3, <1>4 DEF SendInv

-----------------------------------------------------------------------------
LEMMA SendAlways == Spec => []SendInv
  <1>1. SendInv /\ [Next]_vars => SendInv'
    <2> SUFFICES ASSUME SendInv, [Next]_vars PROVE SendInv'
      OBVIOUS
    <2>1. CASE Step
      BY <2>1, SendFrameStep, WriteFailsStep, SslFailsStep, CallReturnsStep DEF Step
    <2>2. CASE HandshakeDone
      BY <2>2, HandshakeDoneStep
    <2>3. ASSUME NEW len \in Lengths, NEW retry \in {0, 1}, SendEncoded(len, retry)
          PROVE  SendInv'
      BY <2>3, CallStep DEF SendEncoded
    <2>4. ASSUME NEW len \in Lengths, NEW retry \in {0, 1}, SendUnencoded(len, retry)
          PROVE  SendInv'
      BY <2>4, CallStep DEF SendUnencoded
    <2>5. CASE UNCHANGED vars
      BY <2>5 DEF vars, phoneVars, SendInv, Types, FramesFit, StackInv, CallInv,
                  PhoneInv, CallSent, DeliveredInv, ZeroMeansDelivered
    <2> QED BY <2>1, <2>2, <2>3, <2>4, <2>5 DEF Next
  <1> QED BY <1>1, SendInitially, PTL DEF Spec

(* The state, the calls in progress and what the phone has keep their      *)
(* types, and nothing is encrypted before the session is established.      *)
THEOREM SendingTypeCorrect == Spec => []TypeOK
  <1>1. SendInv => TypeOK
    <2> SUFFICES ASSUME SendInv PROVE TypeOK
      OBVIOUS
    <2>1. ASSUME NEW i \in 1..Len(stack)
          PROVE  /\ stack[i].msg \in 0..MaxMessages
                 /\ stack[i].encoded => iaap_state = "STARTED"
                 /\ stack[i].frag_start \in Int
      <3>1. stack[i] \in CallType /\ CallInv(stack[i], i, Len(stack))
        BY ElementOfSeq DEF SendInv, Types, StackInv
      <3> QED BY <3>1, Zenon DEF CallType, CallInv
    <2>2. bio \in Nat
      BY DEF SendInv, FramesFit
    <2>3. \A r \in results : r.msg \in 1..MaxMessages
      BY DEF SendInv, Types
    <2>4. partial.msg \in -1..MaxMessages
      BY DEF SendInv, Types, PartType
    <2> QED BY <2>1, <2>2, <2>3, <2>4 DEF SendInv, Types, StackInv, TypeOK
  <1> QED BY <1>1, SendAlways, PTL

(* With any payload and overhead that leave room for the header, a record  *)
(* never leaves bytes behind that the next frame would begin with.         *)
THEOREM FramesAlwaysFit == Spec => []FramesFit
  <1>1. SendInv => FramesFit
    BY DEF SendInv
  <1> QED BY <1>1, SendAlways, PTL

(* Whatever fails and however deep stop() sends in between, the phone puts *)
(* no message together that is not one, whole, of HUServer's.              *)
THEOREM MessagesAlwaysWhole == Spec => []MessagesWhole
  <1>1. SendInv => MessagesWhole
    BY DEF SendInv, DeliveredInv, Delivered, MessagesWhole, LengthOf
  <1> QED BY <1>1, SendAlways, PTL

(* A send that returned 0 has reached the phone unless something failed.   *)
THEOREM ZeroAlwaysMeansDelivered == Spec => []ZeroMeansDelivered
  <1>1. SendInv => ZeroMeansDelivered
    BY DEF SendInv
  <1> QED BY <1>1, SendAlways, PTL
=============================================================================
