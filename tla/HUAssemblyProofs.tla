-------------------------- MODULE HUAssemblyProofs --------------------------
(***************************************************************************)
(* Proofs about HUAssembly: as long as the phone fragments the messages of *)
(* one channel only, any number of channels, messages and frames are put   *)
(* together intact, whatever fails in between.                             *)
(***************************************************************************)
EXTENDS HUAssembly, TLAPS

USE AssemblyAssumption

(* The condition under which the code is right.  MessagesIntact fails      *)
(* without it.                                                             *)
OneFragmented == \A c, d \in Fragmented : c = d

(* Only messages of a fragmented channel stay open, and only their buffers *)
(* are put away; within a call the last frame's message is open.           *)
FragmentedInv ==
    /\ \A c \in Channels : sent[c] > 0 => c \in Fragmented
    /\ \A c \in Channels : channel_assembly_buffers[c] # NULL => c \in Fragmented
    /\ chan # NoChannel => sent[chan] > 0 /\ has_first

(* The open message of c is whole in the current buffer, which is also the *)
(* one the map has for c, if any.                                          *)
OpenInCall(c) ==
    /\ temp_assembly_buffer # NULL
    /\ channel_assembly_buffers[c] \in {NULL, temp_assembly_buffer}
    /\ content[temp_assembly_buffer] = SentOn(c)

(* It is whole in a buffer put away, which is not the current one, so that *)
(* neither a frame of another channel nor a send touches it.               *)
OpenPutAway(c) ==
    /\ channel_assembly_buffers[c] # NULL
    /\ channel_assembly_buffers[c] # temp_assembly_buffer
    /\ content[channel_assembly_buffers[c]] = SentOn(c)

OpenInv ==
    \A c \in Channels :
        (sent[c] > 0 /\ ~crashed) =>
            /\ chan = c => OpenInCall(c)
            /\ chan # c => OpenPutAway(c)

(* The inductive invariant. *)
AssemblyInv == AssemblyTypeOK /\ MessagesIntact /\ FragmentedInv /\ OpenInv

-----------------------------------------------------------------------------
(* What the phone has sent is a sequence of payloads. *)
LEMMA SentType ==
    ASSUME AssemblyTypeOK, NEW c \in Channels
    PROVE  SentOn(c) \in Seq(Payload) /\ Len(SentOn(c)) = sent[c]
<1>1. sent[c] \in Nat /\ sent[c] <= MaxFrames /\ begun[c] \in 0..MaxMessages
  BY DEF AssemblyTypeOK
<1>2. \A i \in 1..sent[c] : <<c, begun[c], i>> \in Payload
  BY <1>1 DEF Payload
<1> QED
  BY <1>1, <1>2 DEF SentOn

(* A frame the phone can send next is a payload. *)
LEMMA FrameType ==
    ASSUME AssemblyTypeOK, NEW c \in Channels, NEW last \in BOOLEAN, CanSend(c, last)
    PROVE  /\ Frame(c) \in Payload
           /\ Begun(c) \in [Channels -> 0..MaxMessages]
<1>1. sent[c] \in 0..(MaxFrames - 1) /\ begun[c] \in 0..MaxMessages
  BY DEF AssemblyTypeOK
<1>2. Begun(c) \in [Channels -> 0..MaxMessages]
  BY <1>1 DEF AssemblyTypeOK, Begun, CanSend
<1>3. sent[c] + 1 \in 0..MaxFrames
  BY <1>1
<1> QED
  BY <1>2, <1>3 DEF Frame, Payload

(* Its arrival makes what was sent of the message one payload longer. *)
LEMMA SentGrows ==
    ASSUME AssemblyTypeOK, NEW c \in Channels
    PROVE  Append(SentOn(c), Frame(c)) =
               [i \in 1..(sent[c] + 1) |-> <<c, Begun(c)[c], i>>]
<1>1. sent[c] \in Nat
  BY DEF AssemblyTypeOK
<1>2. CASE sent[c] = 0
  BY <1>2 DEF SentOn, Frame
<1>3. CASE sent[c] > 0
  <2>1. Begun(c)[c] = begun[c]
    BY <1>3 DEF Begun
  <2> QED
    BY <1>1, <2>1 DEF SentOn, Frame
<1> QED
  BY <1>1, <1>2, <1>3

(* Putting the current buffer away keeps the map well-typed, and only      *)
(* fragmented channels in it.                                              *)
LEMMA MapType ==
    ASSUME AssemblyTypeOK, FragmentedInv, ~crashed, NEW c \in Channels
    PROVE  /\ MapAfter(c) \in [Channels -> Buffers \cup {NULL}]
           /\ \A d \in Channels : MapAfter(c)[d] # NULL => d \in Fragmented
           /\ TempAfter(c) \in Buffers \cup {NULL}
BY DEF AssemblyTypeOK, FragmentedInv, MapAfter, TempAfter, Switches

(* The buffer for a frame exists. *)
LEMMA BufferType ==
    ASSUME AssemblyTypeOK, FragmentedInv, ~crashed, NEW c \in Channels,
           NEW b \in BufferFor(c)
    PROVE  b \in Buffers
BY MapType DEF BufferFor, Fresh

-----------------------------------------------------------------------------
(* The frame of an open message is appended to what was sent before it.    *)
LEMMA KeptIsSent ==
    ASSUME AssemblyInv, ~crashed, NEW c \in Channels, NEW b \in BufferFor(c)
    PROVE  (IF sent[c] = 0 THEN <<>> ELSE Old(c, b)) = SentOn(c)
<1> USE DEF AssemblyInv
<1>1. sent[c] \in Nat
  BY DEF AssemblyTypeOK
<1>2. CASE sent[c] = 0
  BY <1>2 DEF SentOn
<1>3. CASE sent[c] > 0 /\ chan = c
  <2>1. OpenInCall(c) /\ ~Switches(c)
    BY <1>3 DEF OpenInv, Switches
  <2>2. b = temp_assembly_buffer /\ Old(c, b) = content[b]
    BY <2>1 DEF OpenInCall, BufferFor, Old, MapAfter, TempAfter
  <2> QED
    BY <1>3, <2>1, <2>2 DEF OpenInCall
<1>4. CASE sent[c] > 0 /\ chan # c
  <2>1. OpenPutAway(c)
    BY <1>4 DEF OpenInv
  <2>2. MapAfter(c)[c] = channel_assembly_buffers[c]
    BY <1>4 DEF MapAfter, AssemblyTypeOK
  <2>3. b = channel_assembly_buffers[c] /\ Old(c, b) = content[b]
    BY <2>1, <2>2 DEF OpenPutAway, BufferFor, Old
  <2> QED
    BY <1>4, <2>1, <2>3 DEF OpenPutAway
<1> QED
  BY <1>1, <1>2, <1>3, <1>4

(* With one fragmented channel, a frame of another channel never goes to   *)
(* the buffer of an open message, which is put away meanwhile.             *)
LEMMA OthersUntouched ==
    ASSUME OneFragmented, AssemblyInv, ~crashed,
           NEW c \in Channels, NEW b \in BufferFor(c),
           NEW d \in Channels, d # c, sent[d] > 0
    PROVE  /\ MapAfter(c)[d] # NULL
           /\ MapAfter(c)[d] # b
           /\ content[MapAfter(c)[d]] = SentOn(d)
<1> USE DEF AssemblyInv
<1>1. c \notin Fragmented
  BY DEF OneFragmented, FragmentedInv
<1>2. channel_assembly_buffers[c] = NULL /\ chan # c
  BY <1>1 DEF FragmentedInv
<1>3. MapAfter(c)[c] = NULL
  BY <1>1, MapType
<1>4. CASE chan = d
  <2>1. OpenInCall(d) /\ Switches(c)
    BY <1>4 DEF OpenInv, Switches
  <2>2. MapAfter(c)[d] = temp_assembly_buffer /\ TempAfter(c) = NULL
    BY <1>4, <2>1 DEF MapAfter, TempAfter, AssemblyTypeOK
  <2>3. b \in Fresh(c)
    BY <1>3, <2>2 DEF BufferFor
  <2> QED
    BY <2>1, <2>2, <2>3 DEF Fresh, OpenInCall
<1>5. CASE chan # d
  <2>1. chan = NoChannel
    BY <1>2, <1>5 DEF FragmentedInv, OneFragmented, AssemblyTypeOK
  <2>2. OpenPutAway(d) /\ ~Switches(c)
    BY <1>5, <2>1 DEF OpenInv, Switches
  <2>3. temp_assembly_buffer # NULL
    BY DEF AssemblyTypeOK
  <2>4. MapAfter(c) = channel_assembly_buffers /\ b = temp_assembly_buffer
    BY <1>3, <2>2, <2>3 DEF MapAfter, TempAfter, BufferFor
  <2> QED
    BY <2>2, <2>4 DEF OpenPutAway
<1> QED
  BY <1>4, <1>5

-----------------------------------------------------------------------------
(* A frame keeps the inductive invariant. *)
LEMMA ReceiveStep ==
    ASSUME OneFragmented, AssemblyInv,
           NEW c \in Channels, NEW last \in BOOLEAN, ReceiveFrame(c, last)
    PROVE  AssemblyInv'
<1> USE DEF AssemblyInv
<1>1. ~crashed /\ crashed' = crashed /\ CanSend(c, last)
  BY DEF ReceiveFrame
<1> DEFINE all == Append(SentOn(c), Frame(c))
<1>2. PICK b \in BufferFor(c) :
        /\ temp_assembly_buffer' = b
        /\ content' = [content EXCEPT ![b] = all]
        /\ IF last
           THEN /\ handled' = all
                /\ wanted' = all
                /\ sent' = [sent EXCEPT ![c] = 0]
                /\ chan' = NoChannel
                /\ has_first' = FALSE
           ELSE /\ sent' = [sent EXCEPT ![c] = @ + 1]
                /\ chan' = c
                /\ has_first' = TRUE
                /\ UNCHANGED <<handled, wanted>>
  BY <1>1, KeptIsSent DEF ReceiveFrame
<1>3. channel_assembly_buffers' = MapAfter(c) /\ begun' = Begun(c)
  BY DEF ReceiveFrame
<1>4. b \in Buffers
  BY <1>1, BufferType
<1>5. sent[c] \in 0..(MaxFrames - 1)
  BY DEF AssemblyTypeOK
<1>6. all \in Seq(Payload)
  BY <1>1, SentType, FrameType
<1>7. ~last => c \in Fragmented /\ sent[c] + 1 \in 0..(MaxFrames - 1)
  BY <1>1, <1>5 DEF CanSend
<1> HIDE DEF all
<1>8. AssemblyTypeOK'
  <2>1. begun' \in [Channels -> 0..MaxMessages]
    BY <1>1, <1>3, FrameType
  <2>2. sent' \in [Channels -> 0..(MaxFrames - 1)]
    <3>1. CASE last
      <4>1. sent' = [sent EXCEPT ![c] = 0]
        BY <1>2, <3>1, Zenon
      <4> QED
        BY <1>5, <4>1 DEF AssemblyTypeOK
    <3>2. CASE ~last
      BY <1>2, <1>7, <3>2 DEF AssemblyTypeOK
    <3> QED
      BY <3>1, <3>2
  <2>3. content' \in [Buffers -> Seq(Payload)]
    BY <1>2, <1>4, <1>6 DEF AssemblyTypeOK
  <2>4. channel_assembly_buffers' \in [Channels -> Buffers \cup {NULL}]
    BY <1>1, <1>3, MapType
  <2>5. has_first' \in BOOLEAN /\ crashed' \in BOOLEAN
    <3>1. has_first' = TRUE \/ has_first' = FALSE
      BY <1>2, Zenon
    <3>2. crashed' \in BOOLEAN
      BY <1>1, Zenon DEF AssemblyTypeOK
    <3> QED
      BY <3>1, <3>2, Zenon
  <2>6. handled' \in Seq(Payload) /\ wanted' \in Seq(Payload)
    BY <1>2, <1>6 DEF AssemblyTypeOK
  <2>7. chan' \in Channels \cup {NoChannel}
    BY <1>2
  <2>8. temp_assembly_buffer' \in Buffers
    BY <1>2, <1>4
  <2>9. temp_assembly_buffer' # NULL
    BY <2>8
  <2> QED
    BY <2>1, <2>2, <2>3, <2>4, <2>5, <2>6, <2>7, <2>8, <2>9 DEF AssemblyTypeOK
<1>9. MessagesIntact'
  BY <1>2 DEF MessagesIntact
<1>10. FragmentedInv'
  <2>1. \A d \in Channels : sent'[d] > 0 => d \in Fragmented
    <3>1. CASE last
      <4>1. sent' = [sent EXCEPT ![c] = 0]
        BY <1>2, <3>1, Zenon
      <4> QED
        BY <4>1 DEF FragmentedInv, AssemblyTypeOK
    <3>2. CASE ~last
      BY <1>2, <1>7, <3>2 DEF FragmentedInv, AssemblyTypeOK
    <3> QED
      BY <3>1, <3>2
  <2>2. \A d \in Channels : channel_assembly_buffers'[d] # NULL => d \in Fragmented
    BY <1>1, <1>3, MapType
  <2>3. chan' # NoChannel => sent'[chan'] > 0 /\ has_first'
    BY <1>2, <1>5 DEF AssemblyTypeOK
  <2> QED
    BY <2>1, <2>2, <2>3 DEF FragmentedInv
<1>11. ASSUME NEW d \in Channels, sent'[d] > 0
       PROVE  /\ chan' = d => OpenInCall(d)'
              /\ chan' # d => OpenPutAway(d)'
  <2>1. CASE d = c
    <3>1. ~last
      BY <1>2, <1>11, <2>1 DEF AssemblyTypeOK
    <3>2. sent'[c] = sent[c] + 1 /\ chan' = c
      BY <1>2, <3>1 DEF AssemblyTypeOK
    <3>3. SentOn(c)' = all
      BY <1>3, <3>2, SentGrows DEF SentOn, all
    <3>4. content'[b] = all /\ temp_assembly_buffer' = b /\ b # NULL
      BY <1>2, <1>4 DEF AssemblyTypeOK
    <3>5. MapAfter(c)[c] \in {NULL, b}
      BY DEF BufferFor
    <3> QED
      BY <1>3, <2>1, <3>2, <3>3, <3>4, <3>5 DEF OpenInCall
  <2>2. CASE d # c
    <3>1. sent'[d] = sent[d] /\ chan' # d
      BY <1>2, <2>2 DEF AssemblyTypeOK
    <3>2. /\ MapAfter(c)[d] # NULL
          /\ MapAfter(c)[d] # b
          /\ content[MapAfter(c)[d]] = SentOn(d)
      BY <1>1, <1>11, <2>2, <3>1, OthersUntouched
    <3>3. SentOn(d)' = SentOn(d)
      BY <1>3, <2>2, <3>1 DEF SentOn, Begun, AssemblyTypeOK
    <3>4. MapAfter(c)[d] \in Buffers
      BY <1>1, <3>2, MapType
    <3>5. content'[MapAfter(c)[d]] = content[MapAfter(c)[d]]
      BY <1>2, <3>2, <3>4 DEF AssemblyTypeOK
    <3> QED
      BY <1>2, <1>3, <3>1, <3>2, <3>3, <3>5 DEF OpenPutAway
  <2> QED
    BY <2>1, <2>2
<1>12. OpenInv'
  BY <1>11 DEF OpenInv
<1> QED
  BY <1>8, <1>9, <1>10, <1>12

(* The end of a session, however it comes about, keeps it. *)
LEMMA EndStep ==
    ASSUME AssemblyInv, ~crashed, NEW b \in Buffers \cup {NULL}, SessionEnds(b),
           begun' = begun,
           channel_assembly_buffers' \in [Channels -> Buffers \cup {NULL}],
           \A d \in Channels : channel_assembly_buffers'[d] # NULL => d \in Fragmented
    PROVE  AssemblyInv'
<1> USE DEF AssemblyInv
<1>1. sent' = [c \in Channels |-> 0] /\ chan' = NoChannel
  BY DEF SessionEnds
<1>2. AssemblyTypeOK'
  <2>1. Serialised \in Seq(Payload)
    BY DEF Serialised, Payload
  <2>2. content' \in [Buffers -> Seq(Payload)]
    BY <2>1 DEF SessionEnds, AssemblyTypeOK
  <2>3. has_first' \in BOOLEAN /\ crashed' \in BOOLEAN
    BY Zenon DEF SessionEnds, AssemblyTypeOK
  <2>4. temp_assembly_buffer' = NULL => crashed'
    BY DEF SessionEnds
  <2> QED
    BY <1>1, <2>2, <2>3, <2>4 DEF SessionEnds, AssemblyTypeOK
<1>3. MessagesIntact'
  BY DEF MessagesIntact, SessionEnds
<1>4. FragmentedInv'
  BY <1>1 DEF FragmentedInv
<1>5. OpenInv'
  BY <1>1 DEF OpenInv
<1> QED
  BY <1>2, <1>3, <1>4, <1>5

(* So does serialising a message of the server's own. *)
LEMMA SendStep ==
    ASSUME AssemblyInv, Send
    PROVE  AssemblyInv'
<1> USE DEF AssemblyInv
<1>1. ~crashed /\ chan = NoChannel
      /\ content' = [content EXCEPT ![temp_assembly_buffer] = Serialised]
      /\ UNCHANGED <<begun, sent, temp_assembly_buffer, channel_assembly_buffers,
                     chan, has_first, handled, wanted, crashed>>
  BY DEF Send, phoneVars, localVars
<1>2. AssemblyTypeOK'
  <2>1. Serialised \in Seq(Payload)
    BY DEF Serialised, Payload
  <2> QED
    BY <1>1, <2>1 DEF AssemblyTypeOK
<1>3. MessagesIntact' /\ FragmentedInv'
  BY <1>1 DEF MessagesIntact, FragmentedInv
<1>4. OpenInv'
  <2> SUFFICES ASSUME NEW c \in Channels, sent[c] > 0 PROVE OpenPutAway(c)'
    BY <1>1 DEF OpenInv
  <2>1. OpenPutAway(c)
    BY <1>1 DEF OpenInv, AssemblyTypeOK
  <2>2. SentOn(c)' = SentOn(c)
    BY <1>1 DEF SentOn
  <2>3. content'[channel_assembly_buffers[c]] = content[channel_assembly_buffers[c]]
    BY <1>1, <2>1 DEF OpenPutAway, AssemblyTypeOK
  <2> QED
    BY <1>1, <2>1, <2>2, <2>3 DEF OpenPutAway
<1> QED
  BY <1>2, <1>3, <1>4

(* Every step keeps the inductive invariant. *)
LEMMA AssemblyStep ==
    ASSUME OneFragmented
    PROVE  AssemblyInv /\ [Next]_vars => AssemblyInv'
<1> SUFFICES ASSUME AssemblyInv, [Next]_vars PROVE AssemblyInv'
  OBVIOUS
<1>1. ASSUME NEW c \in Channels, NEW last \in BOOLEAN, ReceiveFrame(c, last)
      PROVE  AssemblyInv'
  BY <1>1, ReceiveStep
<1>2. CASE HeaderFails
  <2>1. temp_assembly_buffer \in Buffers \cup {NULL}
    BY DEF AssemblyInv, AssemblyTypeOK
  <2>2. /\ channel_assembly_buffers \in [Channels -> Buffers \cup {NULL}]
        /\ \A d \in Channels : channel_assembly_buffers[d] # NULL => d \in Fragmented
    BY DEF AssemblyInv, AssemblyTypeOK, FragmentedInv
  <2> QED
    BY <1>2, <2>1, <2>2, EndStep DEF HeaderFails
<1>3. ASSUME NEW c \in Channels, FrameFails(c) PROVE AssemblyInv'
  <2>1. /\ MapAfter(c) \in [Channels -> Buffers \cup {NULL}]
        /\ \A d \in Channels : MapAfter(c)[d] # NULL => d \in Fragmented
        /\ TempAfter(c) \in Buffers \cup {NULL}
    BY <1>3, MapType DEF FrameFails, AssemblyInv
  <2> QED
    BY <1>3, <2>1, EndStep DEF FrameFails
<1>4. ASSUME NEW c \in Channels, DecryptFails(c) PROVE AssemblyInv'
  <2>1. /\ MapAfter(c) \in [Channels -> Buffers \cup {NULL}]
        /\ \A d \in Channels : MapAfter(c)[d] # NULL => d \in Fragmented
    BY <1>4, MapType DEF DecryptFails, AssemblyInv
  <2>2. PICK b \in BufferFor(c) : SessionEnds(b)
    BY <1>4 DEF DecryptFails
  <2>3. b \in Buffers
    BY <1>4, BufferType DEF DecryptFails, AssemblyInv
  <2> QED
    BY <1>4, <2>1, <2>2, <2>3, EndStep DEF DecryptFails
<1>5. CASE Send
  BY <1>5, SendStep
<1>6. CASE UNCHANGED vars
  BY <1>6 DEF vars, phoneVars, bufferVars, localVars, AssemblyInv, AssemblyTypeOK,
              MessagesIntact, FragmentedInv, OpenInv, OpenInCall, OpenPutAway, SentOn
<1> QED
  BY <1>1, <1>2, <1>3, <1>4, <1>5, <1>6 DEF Next

(* The initial states satisfy it. *)
LEMMA AssemblyInit == Init => AssemblyInv
<1> SUFFICES ASSUME Init PROVE AssemblyInv
  OBVIOUS
<1>1. has_first \in BOOLEAN /\ crashed \in BOOLEAN
  BY Zenon DEF Init
<1>2. AssemblyTypeOK
  BY <1>1 DEF Init, AssemblyTypeOK
<1>3. \A c \in Channels : sent[c] = 0 /\ channel_assembly_buffers[c] = NULL
  BY DEF Init
<1> QED
  BY <1>2, <1>3 DEF Init, AssemblyInv, MessagesIntact, FragmentedInv, OpenInv

-----------------------------------------------------------------------------
(* The inductive invariant holds in every state of every behaviour. *)
LEMMA AssemblyAlways ==
    ASSUME OneFragmented
    PROVE  Spec => []AssemblyInv
BY AssemblyInit, AssemblyStep, PTL DEF Spec

(* The buffers keep their types, and the current one is null only once     *)
(* the process has used it so.                                             *)
THEOREM AssemblyTypeCorrect ==
    ASSUME OneFragmented
    PROVE  Spec => []AssemblyTypeOK
<1>1. AssemblyInv => AssemblyTypeOK
  BY DEF AssemblyInv
<1> QED
  BY <1>1, AssemblyAlways, PTL

(* A phone that fragments the messages of one channel has each message     *)
(* reach processMessage() as it was sent, however its frames interleave    *)
(* with other channels' and with what the server sends, and whatever       *)
(* failures and reconnections come between.                                *)
THEOREM AssemblyCorrect ==
    ASSUME OneFragmented
    PROVE  Spec => []MessagesIntact
<1>1. AssemblyInv => MessagesIntact
  BY DEF AssemblyInv
<1> QED
  BY <1>1, AssemblyAlways, PTL

(* Under the same condition the open message stays whole in its buffer.    *)
THEOREM AssemblyPreserves ==
    ASSUME OneFragmented
    PROVE  Spec => []PartialsPreserved
<1>1. AssemblyInv => PartialsPreserved
  BY DEF AssemblyInv, OpenInv, OpenInCall, OpenPutAway, PartialsPreserved, BufferOf
<1> QED
  BY <1>1, AssemblyAlways, PTL
=============================================================================
