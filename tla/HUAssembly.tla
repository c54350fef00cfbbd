----------------------------- MODULE HUAssembly -----------------------------
(***************************************************************************)
(* HUServer::processReceived() (src/hu/hu_aap.cpp): messages of several    *)
(* channels arrive cut into frames, the frames of different channels may   *)
(* be interleaved, and each message is put together in a buffer reached    *)
(* through temp_assembly_buffer and channel_assembly_buffers.  The server  *)
(* serialises what it sends into the same temp_assembly_buffer.            *)
(*                                                                         *)
(* A frame is [FIRST, LAST, payload]; payloads are told apart by the       *)
(* channel, the message and the place in it they come from.                *)
(***************************************************************************)
EXTENDS Naturals, Sequences

CONSTANTS
    Channels,      \* service channels the phone sends on
    Fragmented,    \* those on which it sends messages longer than a frame
    Own,           \* marks what the server serialised itself
    Buffers,       \* addresses new std::vector can return
    NULL,
    NoChannel,     \* chan = -1
    MaxFrames,     \* bound: frames of a message
    MaxMessages    \* bound: messages begun on each channel

ASSUME AssemblyAssumption ==
    /\ Fragmented \subseteq Channels
    /\ Own \notin Channels
    /\ NULL \notin Buffers
    /\ NoChannel \notin Channels
    /\ MaxFrames \in Nat \ {0}
    /\ MaxMessages \in Nat

VARIABLES
    begun,                    \* messages the phone has begun on each channel
    sent,                     \* frames of the current one it has sent; 0: none is open
    content,                  \* what each buffer holds
    temp_assembly_buffer,
    channel_assembly_buffers, \* NULL: the channel is not in the map
    chan,                     \* local of processReceived(): channel of the last frame
    has_first,                \* local of processReceived()
    handled,                  \* the last message given to processMessage()
    wanted,                   \* the message the phone sent there
    crashed                   \* a null temp_assembly_buffer was used

phoneVars  == <<begun, sent>>
bufferVars == <<content, temp_assembly_buffer, channel_assembly_buffers>>
localVars  == <<chan, has_first>>
vars == <<phoneVars, bufferVars, localVars, handled, wanted, crashed>>

Payload == (Channels \cup {Own}) \X (0..MaxMessages) \X (0..MaxFrames)

(* What the phone has sent of its current message on c. *)
SentOn(c) == [i \in 1..sent[c] |-> <<c, begun[c], i>>]

Serialised == << <<Own, 0, 0>> >>

Init ==
    /\ begun = [c \in Channels |-> 0]
    /\ sent = [c \in Channels |-> 0]
    /\ content = [b \in Buffers |-> <<>>]
    /\ temp_assembly_buffer \in Buffers
    /\ channel_assembly_buffers = [c \in Channels |-> NULL]
    /\ chan = NoChannel
    /\ has_first = FALSE
    /\ handled = <<>>
    /\ wanted = <<>>
    /\ crashed = FALSE

-----------------------------------------------------------------------------
(* One turn of the loop of processReceived(), in three parts. *)

Switches(c) == chan # NoChannel /\ chan # c

(* Mutant: the buffer is not put away. *)
MapAfterUnsaved(c) == channel_assembly_buffers

(* The frame is of another channel than the one before it in this call:    *)
(* the buffer is put away under the channel it belongs to.                 *)
MapAfter(c) ==
    IF Switches(c)
    THEN [channel_assembly_buffers EXCEPT ![chan] = temp_assembly_buffer]
    ELSE channel_assembly_buffers

(* Mutant: the buffer that was put away stays the current one. *)
TempAfterKept(c) == temp_assembly_buffer

TempAfter(c) == IF Switches(c) THEN NULL ELSE temp_assembly_buffer

FirstAfter(c) == has_first /\ ~Switches(c)

(* new std::vector returns an address nothing in use has.  Buffers that    *)
(* nothing points to any more are never freed; their addresses are reused  *)
(* here so that the model stays finite.                                    *)
Fresh(c) ==
    {b \in Buffers : \A d \in Channels : MapAfter(c)[d] # b}

(* Mutant: no new buffer is made. *)
BufferForOld(c) ==
    IF MapAfter(c)[c] # NULL THEN {MapAfter(c)[c]} ELSE {TempAfter(c)}

(* The buffer for the frame: the one in the map, else the current one,     *)
(* else a new one.                                                         *)
BufferFor(c) ==
    IF MapAfter(c)[c] # NULL THEN {MapAfter(c)[c]}
    ELSE IF TempAfter(c) # NULL THEN {TempAfter(c)}
    ELSE Fresh(c)

Old(c, b) ==
    IF MapAfter(c)[c] = NULL /\ TempAfter(c) = NULL THEN <<>> ELSE content[b]

-----------------------------------------------------------------------------
(* The phone sends a frame: the first of a message, or the next one of the *)
(* open message.  A message ends with the frame marked LAST, and only      *)
(* those of a fragmented channel have more than one.                       *)
CanSend(c, last) ==
    /\ sent[c] = 0 => begun[c] < MaxMessages
    /\ ~last => c \in Fragmented /\ sent[c] + 1 < MaxFrames

Begun(c) == IF sent[c] = 0 THEN [begun EXCEPT ![c] = @ + 1] ELSE begun

Frame(c) == <<c, Begun(c)[c], sent[c] + 1>>

(* The frame is read and appended; the last one of a message ends the call *)
(* with processMessage().                                                  *)
ReceiveFrame(c, last) ==
    /\ ~crashed
    /\ CanSend(c, last)
    /\ begun' = Begun(c)
    /\ channel_assembly_buffers' = MapAfter(c)
    /\ \E b \in BufferFor(c) :
          LET kept == IF sent[c] = 0 THEN <<>> ELSE Old(c, b)
              all  == Append(kept, Frame(c))
          IN  /\ sent[c] = 0 \/ FirstAfter(c) \/ Old(c, b) # <<>>
              /\ temp_assembly_buffer' = b
              /\ content' = [content EXCEPT ![b] = all]
              /\ IF last
                 THEN /\ handled' = all
                      /\ wanted' = Append(SentOn(c), Frame(c))
                      /\ sent' = [sent EXCEPT ![c] = 0]
                      /\ chan' = NoChannel
                      /\ has_first' = FALSE
                 ELSE /\ sent' = [sent EXCEPT ![c] = @ + 1]
                      /\ chan' = c
                      /\ has_first' = TRUE
                      /\ UNCHANGED <<handled, wanted>>
    /\ UNCHANGED crashed

(* The connection ends: the next session begins with no open message, but  *)
(* with the buffers and the map as they are.  stop() and the next start()  *)
(* serialise into the current buffer.                                      *)
SessionEnds(b) ==
    /\ sent' = [c \in Channels |-> 0]
    /\ chan' = NoChannel
    /\ has_first' = FALSE
    /\ temp_assembly_buffer' = b
    /\ IF b = NULL
       THEN crashed' = TRUE /\ UNCHANGED content
       ELSE content' = [content EXCEPT ![b] = Serialised] /\ UNCHANGED crashed
    /\ UNCHANGED <<handled, wanted>>

(* Reading the header of a frame fails or comes up short. *)
HeaderFails ==
    /\ ~crashed
    /\ SessionEnds(temp_assembly_buffer)
    /\ UNCHANGED <<begun, channel_assembly_buffers>>

(* The header is read, but the frame is too big or its rest does not come: *)
(* the buffer may have been put away, and none taken.                      *)
FrameFails(c) ==
    /\ ~crashed
    /\ channel_assembly_buffers' = MapAfter(c)
    /\ SessionEnds(TempAfter(c))
    /\ UNCHANGED begun

(* The frame is read whole, but BIO_write() or SSL_read() fails on it, or  *)
(* it continues a message of which there is nothing.                       *)
DecryptFails(c) ==
    /\ ~crashed
    /\ channel_assembly_buffers' = MapAfter(c)
    /\ \E b \in BufferFor(c) : SessionEnds(b)
    /\ UNCHANGED begun

(* A command, or a handler after it has parsed its message, sends one. *)
Send ==
    /\ ~crashed
    /\ chan = NoChannel
    /\ content' = [content EXCEPT ![temp_assembly_buffer] = Serialised]
    /\ UNCHANGED <<phoneVars, temp_assembly_buffer, channel_assembly_buffers,
                   localVars, handled, wanted, crashed>>

Next ==
    \/ \E c \in Channels, last \in BOOLEAN : ReceiveFrame(c, last)
    \/ HeaderFails
    \/ \E c \in Channels : FrameFails(c) \/ DecryptFails(c)
    \/ Send

Spec == Init /\ [][Next]_vars

-----------------------------------------------------------------------------
(* Type invariant; that the current buffer is null only after a crash is   *)
(* what lets sends and receives use it without a check.                    *)
AssemblyTypeOK ==
    /\ begun \in [Channels -> 0..MaxMessages]
    /\ sent \in [Channels -> 0..(MaxFrames - 1)]
    /\ content \in [Buffers -> Seq(Payload)]
    /\ temp_assembly_buffer \in Buffers \cup {NULL}
    /\ channel_assembly_buffers \in [Channels -> Buffers \cup {NULL}]
    /\ chan \in Channels \cup {NoChannel}
    /\ has_first \in BOOLEAN
    /\ handled \in Seq(Payload)
    /\ wanted \in Seq(Payload)
    /\ crashed \in BOOLEAN
    /\ temp_assembly_buffer = NULL => crashed

(* processMessage() gets each message as the phone sent it: all its        *)
(* frames, in order, and nothing of another message or channel.            *)
MessagesIntact == handled = wanted

(* Where the open message of c is being put together. *)
BufferOf(c) ==
    IF chan = c \/ channel_assembly_buffers[c] = NULL
    THEN temp_assembly_buffer
    ELSE channel_assembly_buffers[c]

(* An open message is kept whole while other channels are received and     *)
(* messages are sent: its buffer holds what the phone has sent of it.      *)
PartialsPreserved ==
    \A c \in Channels : (sent[c] > 0 /\ ~crashed) => content[BufferOf(c)] = SentOn(c)
=============================================================================
