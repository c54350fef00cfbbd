# libheadunit: specifications, checks and proofs

libheadunit is the head-unit side of the Android Auto protocol: it connects to
a phone over USB or a socket, performs the version and TLS handshake, receives
the phone's messages on several channels and lets an application send input,
sensor data and acknowledgements. This directory models it in TLA+, checks the
models on small instances with TLC and proves the most important invariants for
all values of the constants with TLAPS. Line numbers are of `src/hu/`.

## The system

### Components

| component | state | operations | model |
|---|---|---|---|
| Session lifecycle, `HUServer` (`hu_aap.cpp`, `hu_aap.h`) | `iaap_state`, `transport`, `hu_thread`, `hu_thread_quit_flag`, command pipe | `start`, `shutdown`, `stop`, `queueCommand`, `popCommand`, `mainThread`, `startTransport`, `stopTransport` | `HUServer`, `HUSession` |
| Reception and assembly (`processReceived`) | `temp_assembly_buffer`, `channel_assembly_buffers` | one turn of the receive loop per frame | `HUAssembly` |
| Transmission (`sendEncoded`, `sendUnencoded`, `sendTransportPacket`) | the same buffer, the BIO encrypted data is read from | fragmentation, encryption, retries | `HUSending`; the recursion of failed sends also in `HUServer` |
| Handshake (`handle_VersionResponse`, `handle_SSLHandshake`, `hu_ssl.cpp`) | `hu_ssl_*`, `STARTIN` to `STARTED` | version, SSL rounds, AuthComplete | `HUMessages`, message by message (OpenSSL is external); summarised in `HUServer` |
| Dispatch, channels, media (`processMessage`, `handle_*`) | `channel_session_id` | service discovery, channel open, start, data, ack, focus, shutdown | `HUMessages`; what a handler does to the threads, in `HUServer` |
| USB transport (`hu_usb.cpp`) | receive thread, data, error and abort pipes, transfer | `Start`, `Write`, `Stop`, the callbacks | `HUTransportUSB`, which implements `HUTransportStream`; the `link` variable of `HUServer` |
| Network transport (`hu_tcp.cpp`) | sockets, `itcp_state` | `Start`, `Write`, `Stop` | `HUTransportTCP`; the `link` variable of `HUServer` |
| Bluetooth bootstrap (`headunitbluetoothserver.cpp`) | RFCOMM socket | `start`, the slots `onClientConnected` and `readSocket` | `HeadunitBluetoothServer` |
| Bluetooth service registration | none | one straight-line function | not modelled |
| Dump, logging (`hu_aad.cpp`, `hu_uti.cpp`) | none that the rest reads | formatting | not modelled |
| Messages (`hu.proto`, `bt.proto`) | data definitions | generated code | not modelled |

### How they interact

The application calls `start()` and `shutdown()` on a thread of its own, called
main here. `start()` opens a transport, sends the version request and runs
`processReceived()` on the main thread until the handshake is over; then it
makes the command pipe and the HU thread. The HU thread selects on the
transport's error descriptor, on the command pipe and on its data descriptor,
in that order. Everything it does is synchronous: a received message runs its
handler and the application's callbacks, a command runs to its end, and each
of them may send, call `stop()`, or queue another command. Other threads reach
`HUServer` only through `queueCommand()`, which writes a heap pointer into the
pipe. A USB stream has a thread of its own that turns completed transfers into
bytes in a data pipe and a failure into a byte in an error pipe.

### What is hard

* One object is used by the main thread, the HU thread and all callers of
  `queueCommand()`; nothing in `HUServer` is locked. Its safety rests on the
  order in which `shutdown()` joins before it releases.
* `stop()` sends, a failed send calls `stop()`: the HU thread's call stack
  decides what happens, so it is part of the model's state.
* `start()` can fail at every step, and some of these failures have run
  `shutdown()` already (through `stop()` in `STARTIN`) when `start()` calls it.
* The pipe is bounded and `write()` on it blocks, also for the thread that is
  its only reader.
* Frames of several channels interleave, and the one current buffer is shared
  by all of them and by everything the server serialises.
* The two transports end in different ways: USB signals, TCP stays readable.
* A send that fails calls `stop()`, which sends in its turn. What the sends return (0, a size, -1) differs from one to the
  next, and every handler has to interpret it.
* `m_ssl`, `channel_session_id` and the assembly buffers outlive a connection;
  a finished `m_ssl` still accepts packets of a handshake.
* A USB stream's callbacks run on a thread that blocks in `write()` on a full
  pipe and is stopped by closing descriptors it still uses.
* A network stream goes by a state that all streams of the process share, and
  in connect mode closes one descriptor twice.
* The Bluetooth server keeps one socket for all phones, and takes whatever
  bytes `readAll()` returns for one message.

The complete list, each item at its line, is "hazards" in `PROJECT.json`.

## Modules

### HUServer

One action per step at which another thread, the phone or a failure can come
between. The main thread is the program counter `main`; the HU thread is the
stack `hu` of operations it still has to execute, `<<>>` meaning the top of
the loop in `mainThread()`.

| model | code |
|---|---|
| `Start`, `OpenTransport(Fails)`, `SendVersion(Fails)`, `HandshakeCompletes`, `CreatePipe(Fails)`, `Spawn` | `start()`, step by step; the `-1` returns go through `shutdown()` (`main = "queue"`), and `resume` is where main goes on after it |
| `HandshakeFails` | a message, or a step under it, fails the handshake; a failed write or SSL step has also run `stop()`, so `shutdown()` runs twice |
| `HandshakeStarves` | the next packet does not come: the timeout of one second is per packet, so this is open only when the link brings nothing any more |
| `HandshakeStopped`, `SpawnStopped` | `MessageFilter` calls `stop()` in the handshake and returns no error: `shutdown()` runs under `start()`, which goes on as if the handshake were complete, and the new thread uses a null transport |
| `Shutdown`, `QueueBye`, `NothingToJoin`, `Join`, `Release`, `StopTransport` | `shutdown()` |
| `QueueByeFails` | the quit command cannot be queued, and `shutdown()` joins all the same (`joinUnasked`) |
| `HuSelectError`, `HuSelectCommand`, `HuSelectData`, `HuSelectFails`, `HuExit` | `mainThread()` |
| `HuPop`, `ByeProgram`, `AppPrograms` | `popCommand()` and the commands it runs: any sequence of sends, stops and queued commands |
| `HuReceive`, `HandlerPrograms`, `ReceivePrograms`, `EofPrograms` | `processReceived()` by what it does to the session: the callbacks of a message, which get the stream and may do what a command may, and then the sends and stops of its handler and of `mainThread()` |
| `HuWrite`, `HuWriteFails` | `sendTransportPacket()` |
| `HuStop`, `HuGone` | `stop()` up to the send, and after it |
| `HuPost`, `CallQueueCommand`, `WriteCommand`, `WriteClosed` | `queueCommand()`: the read of `command_write_fd` and the `write()` are two steps for another thread, one for the HU thread |
| `LinkGoesDown`, `LinkSignals` | what the transports report of the wire: a lost phone that will be signalled, the end of a socket, or silence, when a phone sends nothing more or reception ended unnoticed |

`transport_type` is chosen in `Init` and fixed. `told`, `posts`, `failures`,
`stray`, `fate` and `owed` are history variables that the properties need; of
these `posts` and `failures` also bound the behaviours. `fate` says how the
process ended, if it did: `"overflow"` (the recursion of `stop()`),
`"terminated"` (a joinable thread is assigned to), `"crashed"`
(`SpawnStopped`), or `"killed"` (`Release`: a caller that waits for room in the
pipe gets SIGPIPE when its last reader is closed).
`session` numbers the pipes, so that a descriptor number which outlives its
pipe can be recognised.

Assumptions about what lies outside. The application calls `start()` and
`shutdown()` from one thread at a time, and on the HU thread it calls only what
`IHUConnectionThreadInterface` offers: it sends, stops and queues.
A write to a socket that was reset returns an error; if the application does
not ignore SIGPIPE, it may end the process instead, which is not modelled. (For
the command pipe both outcomes are, in `Release`.)

### HUSession

What the application may rely on, in two variables: a session is connecting,
up, ended or down, and in every session that was up `DisconnectionOrError()`
is called before the thread ends, at least once. It is not promised that the
server survives: it may be dead, when the process has ended or the HU thread
waits for ever on the full pipe that only it reads (`Dead`). `HUServer` implements it through the mapping
`SessionPhase`, checked as the property `SessionSpec`, fairness included;
`Safety` is the specification without fairness, which is proved.

### HUAssembly

`processReceived()` at the level of frames. The phone may send frames of all
channels in any interleaving; `ReceiveFrame` is one turn of the loop, from the
channel switch (`MapAfter`, `TempAfter`, `FirstAfter`) over the choice of the
buffer (`BufferFor`) to the delivery of a complete message. `Send` is a
message serialised into the current buffer, between messages. A failure
(`HeaderFails`, `FrameFails`, `DecryptFails`) ends the session where it occurs
and leaves the buffers as they are; the next one starts with them, as the code
never clears them. `wanted` is what the phone sent, for comparison with
`handled`. In the code a buffer nobody points to is leaked; the model reuses
its address, which only removes states that differ in the number of leaks.

`Fragmented` is the set of channels on which the phone sends messages of more
than one frame. It is the condition under which the code is right: see the
findings.

### HUSending

The loops of `sendEncoded()` and `sendUnencoded()`, with the lengths in bytes.
`stack` holds the send calls in progress: a failed step calls `stop()`, which
in `STARTED` sends a `ShutdownRequest` on top of the call that failed, and in
`STARTIN` is `shutdown()`. `frag_start` is the code's variable of that name, -1
when the call is about to return.

| model | code |
|---|---|
| `SendEncoded`, `SendUnencoded` | the calls, with their check of the state |
| `SendFrame` | one turn of the loop: the fragment's length and header, `SSL_write`, `BIO_read` and a successful `sendTransportPacket()` |
| `WriteFails`, `SslFails` | the two ways a turn fails; after the first `sendEncoded()` with retry 0 ignores the result and goes on, after the second it returns -1 |
| `CallReturns` | to `stop()` or to the handler |

`SendReturns` says that a call returns once its steps have stopped failing.
While every write fails it does not (finding 1), and the model would show that
too if `MaxFailures` did not bound it; the property therefore states the
condition itself and does not rest on the bound. `sendUnencoded()` accepts
STARTED as well as STARTIN.

`bio` counts the bytes that a record leaves behind because they did not fit in
`enc_buf`. The phone joins frames into messages; it is external. Once a write
has failed it has lost bytes of the TLS stream and understands no more
(`lost`), so the property is about what arrives before; that the code goes on
writing after a failed write is not tested.

### HUMessages

`processMessage()` with every handler, and the handshake of `hu_ssl.cpp`, over
several connections. A handler is written as the set of its outcomes: what it
returns, whether `stop()` was called in it, what it sent, and the state it
leaves. `Process` takes one outcome for the first message of `inbox` and treats
it as `processReceived()`, `start()` and `mainThread()` do: a negative result,
or `stop()`, ends the connection. `DispatchInit`, `DispatchControl`,
`DispatchChannel`, `DispatchMedia` and `DispatchNavigation` are the nested
switches. `ssl` is `m_ssl`: the attempt it was made for and the flight it waits
for; `beginSSLHandshake` makes it anew and nothing else resets it, so one that
has finished takes any further packet of a handshake for its end (`Finishes`),
also before the version response of the next connection.
`channel_session_id` is never reset either.

The phone is external. It pipelines: it asks on one channel while it waits on
another, it sends the messages that need nothing before them
(`OtherMessages`, numbered, so that two pings are told apart) without waiting,
and a stream may stop, and start again under another session, before its last
packet was acknowledged. It may send either flight of the handshake in two
messages, on which the code fails. Before the handshake is over it may also go
astray and send a packet of the handshake out of its turn (`PhoneStrays`,
step 6): with a finished `m_ssl` this opens a session with the keys of the
connection before. `SessionKeys`, `AnswersAskedFor` and `NothingForgotten` are
about phones that do not; `EndsForCause` and `TypeOK` are about all. `Interrupted`
is the loss of the link or the application's `shutdown()`, at any moment.
`cause` records that something failed or that someone ended the connection.
Callbacks of the application and the parsing of a message are their results
(`MayFail`). `HUServer` has the threads, `HUAssembly` and `HUSending` the frames
under it: here a message is whole, and a send succeeds or fails at once.

### HUTransportStream and HUTransportUSB

`HUTransportStream` is what `HUServer` relies on in a stream with an error
descriptor, in one variable: a started stream that loses its phone makes the
descriptor readable, unless it had gone deaf before. `HUServer`'s link is
`"lost"` where such a stream will signal and `"silent"` where it is deaf. `Safety` is the specification without
fairness.

`HUTransportUSB` is `HUTransportStreamUSB` with its two threads. `owner` is the
program counter of the thread that calls `Start()`, `Read`, `Write()`, `Stop()`
and the destructor; `usb_thread` is that of `usb_recv_thread_main()`, where one
wake-up may run several callbacks (`"handling"`). `fd` has the six descriptor
members, each `"none"`, `"open"` or `"stale"`, that is closed and not yet set to
-1: `Stop()` closes the pipes and only then joins the thread that writes to
them. `pipe` is the bounded data pipe, `rest` what the callback has still to
write to it.

| model | code |
|---|---|
| `Start` to `ClaimInterface` | the search for the phone, the switch to accessory mode, the interface; each may fail into `Stop()` |
| `CreatePipes`, `CreatePipeFails`, `Spawn`, `Submit` | the pipes, the thread and the first transfer; a failed `pipe()` returns without `Stop()` |
| `StopClosesPipes`, `StopAborts`, `StopJoins`, `StopReleases` | `Stop()`, statement by statement |
| `HandleCompleted`, `HandleOverflow`, `HandleError`, `HandleSendError` | the callbacks, by the status of the transfer |
| `WriteUnit`, `WriteFails`, `WriteEnds` | the loop that writes the data to the pipe, and the next transfer |
| `LoopEnds`, `ThreadSignals` | the end of the thread's loop and the word in the error pipe |
| `Comes`, `Leaves`, `Transfer...`, `SendCompletes` | the phone and libusb, external |

A stream is deaf when nothing is asked of the phone any more and nothing has
failed. The code gets there: both callers ignore the result of
`start_usb_recv()`. `StreamSpec` says that this is the only way in which a lost
phone is not signalled.

A device that refuses the first request of the accessory protocol is closed and
passed over (`PassOver`); one that refuses a later request is passed over with
its handle open (`Leak`), which no code closes: `leaked` holds these devices,
and `StoppedIsClean` excepts them and nothing else. The later requests are not
told apart. An accessory that is there may fail to open (`ListDevices`,
`NotReconnected`). Nor are `SIGPIPE` and the contents of the data modelled.

### HUTransportTCP

`HUTransportStreamTCP` over `table`, which says who opened each descriptor
number of the process. Another thread opens and closes descriptors of its own
meanwhile, and the lowest free number is given first, as the kernel does.
`NewStream` is `startTransport()` putting a new stream in the place of the old
one, whose destructor stops it; `Stop` is `stopTransport()`. `pc` is the next
statement; `itcp_deinit()` is `CloseRead` and `CloseSo`, and `after` is where it
returns to. `stolen` records that it closed a number of the other thread.
`HUServer` never passes `wifi_direct`, so its own streams connect; both modes
are checked. A failed `bind()` has no consequence here and `listen()` decides.

### HeadunitBluetoothServer

The slots of the Qt event loop, one at a time: `OnClientConnected`,
`OnNullConnected` and `ReadSocket`, for several phones that connect, disconnect
and come back. `m_socket` is the one socket, that of the last phone. `wire` is
what a phone has sent; `ReadSocket` takes any number of messages at once, the
last perhaps without its end (`torn`), and answers the first. Messages are
their types; after a torn one the bytes in which the type is looked for may
hold any value (`Types`). `Patient` phones send a message only when nothing of
theirs is under way.

The modules `MC...` only give the constants their values.

## Checks

| run | question | result |
|---|---|---|
| `lifecycle` | safety of `HUServer` with everything that can go wrong switched on: both transports, two symmetric callers, interrupted `select`, failed writes, a full pipe, commands and callbacks that send, stop and queue, restart without `shutdown()` | `TypeOK`, `HuThreadOwnsSession`, `StoppedIsClean`, `StackBounded` hold |
| `usb_fair` | for an application that shuts down before it restarts, over USB: do calls return, is a signalled loss of the link reported, are commands run, is the quit command kept, with a pipe that fills and writes that fail until the stack is exhausted | `NoTerminate`, `JoinedThreadWillEnd`, the refinement `SessionSpec` and five liveness properties hold |
| `send_error` | does a send error stop the session | violated (finding 1) |
| `stop_transport` | does `stop()` stop the transport | violated (finding 2) |
| `queue_any_thread` | is `queueCommand()` safe from any thread | violated (finding 3) |
| `assembly` | are interleaved messages delivered intact when one channel is fragmented | `AssemblyTypeOK`, `MessagesIntact`, `PartialsPreserved` hold |
| `assembly_two` | and when two are | violated (finding 4) |
| `sending` | what arrives, and what do the return values mean, when messages are cut into frames and steps fail under each other | `TypeOK`, `MessagesWhole`, `FramesFit`, `ZeroMeansDelivered` and the liveness property `SendReturns` hold |
| `messages` | does every connection get its own keys, every question its answer, and every end a cause, with a phone that pipelines and may go astray | `TypeOK`, `SessionKeys`, `AnswersAskedFor`, `NothingForgotten`, `EndsForCause` hold |
| `usb_stream` | do the two threads of a USB stream keep the data in order and the buffer in place, and does the stream end clean, in bounded time, and signal | `TypeOK`, `StreamInOrder`, `StoppedIsClean`, the action property `BufferStable`, `StopReturns` and the refinement `StreamSpec` hold, without deadlock |
| `tcp` | what do a shared state and a double close do to a network stream and to the descriptors of other threads | `TypeOK`, `StartedIsConnected`, `NoLeak`, `StealsOnlyWhenConnecting` and `StartReturns` hold, without deadlock |
| `bluetooth` | who gets which answer when phones replace each other and bytes arrive in other portions than they were sent | `TypeOK`, `AnswersMatch` and `PatientAnswered` hold, without deadlock |

Some of these hold in a form that says where the code stops: `StartedIsConnected`
and `NoLeak` until a descriptor of another thread has been stolen, which
`StealsOnlyWhenConnecting` confines to connect mode; `PatientAnswered` for a
phone that sends one message at a time; `SessionKeys` for a phone that keeps to
the protocol; `StoppedIsClean` of the USB stream but for the handles leaked in
its search; the liveness properties of `usb_fair` until the process ends, or
the HU thread or a caller waits on a pipe that nobody reads (`PipeStuck`), and
`ShutdownReturns` unless its command could not be queued; `StartReturns` from
when the phone sends nothing more; `SendReturns` once steps have stopped
failing; `ZeroMeansDelivered` for a result of 0
while no step has failed (with retry set, a call returns after its first frame
and a longer message is never complete).

### Bounds

* `PipeCapacity` is 16 on Linux (64 KiB of one-page packets under `O_DIRECT`).
  `lifecycle` has 1 and `usb_fair` 2, each with 2 posts and the command of
  `shutdown()`, so that callers, the HU thread and `shutdown()` all meet a
  full pipe. A command or callback that queues into a full pipe blocks the HU
  thread for ever; both runs reach that state.
* `MaxCallbackOps`: a command, and the callbacks of a message, make up to two
  calls in `lifecycle`, so that one may stop twice or send and stop, and one in
  `usb_fair`, whose messages still have the calls of their handler after it.
* `MaxSessions = 2` is the smallest number with a restart, and with a caller
  that holds a descriptor of the session before.
* `MaxWriteFailures` and `StackLimit`: two failures with a limit of two reach
  the exhausted stack in `lifecycle` and in `usb_fair`; `send_error` uses
  three. The real limit is the size of a thread's stack.
* `MaxFrames = 3` has a first, a middle and a last frame; `MaxMessages = 2`
  lets every channel reuse a buffer; four buffers are one for each of three
  channels and the current one.
* `sending` has the sizes of the code (16384, 16640, and 29 bytes that TLS 1.2
  with AES-GCM adds to a record). The lengths are one frame, exactly one payload,
  one byte more, and three frames. Three messages with three failures reach a
  failure under a `stop()` under a `stop()`.
* `messages` has one media channel, on which two streams follow each other, so
  that a packet of the first can be handled after the second was started, and
  the other channels beside it; three messages on their way; any two of the
  messages that need nothing before them in a connection, also two of the same;
  and two connections, the smallest number with something left of the one
  before. One type is taken by `MessageFilter`.
* `usb_stream`: two devices on the bus, one of which may be the phone; a data
  pipe of two units with three sent, so that it is full while the callback still
  has some; buffers of 2, 4 and 8, for two overflows; one `Write()` in flight.
* `tcp`: five descriptors, two for a stream in accept mode, and three for the
  other thread or to be left over by a leak. `socket()` can find none free.
* `bluetooth`: a patient phone and one that is not, two messages of each
  connection; connections are not bounded.
* The runs with `CHECK_DEADLOCK FALSE` are those in which the system may stop:
  `lifecycle`, `usb_fair` and the violation runs (process ended, bounds reached,
  pipe full), the assembly runs (crash, all messages sent), and `sending` and
  `messages` (stopped, with all messages or connections used up; a phone whose
  message was filtered waits). Which of these ends is allowed, and which is
  not, is what `SessionSpec` and the liveness properties say.

### Fairness

`Fairness` asks that a thread which can take its next step takes it: the main
thread inside a call, the HU thread, each caller inside `queueCommand()`. That
is what an operating system gives, with one addition: the `select()` of
`receiveTransportPacket()` returns after a second without a packet
(`HandshakeStarves`). Not fair: calls of the application, the phone's messages,
the loss of the link and its signal, an interrupted `select`, a failure, and
either end of the handshake while the phone still sends. `HuSelectData` is owed
only when the descriptor stays readable by itself (`AtEnd`).

In `HUSending` a call in progress takes its next step (`WF` of `Step`). In
`HUTransportUSB` both threads run, the owner reads what is in the pipe (the HU
thread selects on it), one call of libusb handles a bounded number of
transfers, `poll()` sees the abort pipe, and libusb completes every write, and
every transfer of a phone that is gone; nobody owes a call, data, or an
unplugged phone. `HUTransportStream` asks only that a lost phone is signalled
(`WF` of `Signal`), and the refinement shows that the fairness of the threads
gives it. In `HUTransportTCP` the thread takes its next step and `connect()`
returns; `accept()` may wait for ever, so `StartReturns` is about connect mode.
In `HeadunitBluetoothServer` the event loop runs the slots. `HUMessages` has no
fairness: `NothingForgotten` says as an invariant that neither side waits for a
message that does not exist.

The liveness properties of `HUServer` are about USB. On the network transport they fail, and
the model has the behaviours: at end of file `processReceived()` returns 0, so
`start()` polls for ever, `mainThread()` spins without a callback, and in the
middle of a frame the inner read loop never ends and `shutdown()` hangs in
`join()`. No text of the repository promises anything of this case, so there
is no violation run for it; it is in the list of hazards.

### Findings

1. `stop()` and `sendTransportPacket()` recurse into each other for each write
   that fails, without a bound of their own (`hu_aap.cpp:144`, `:1239`); on a
   reset connection the process ends by stack overflow. What does hold is
   `StackBounded`.
2. `stop()` in `STARTED` never stops the transport, although its comment says so
   (`hu_aap.cpp:1230`).
3. `queueCommand()` races with the `close()` in `shutdown()`, although the
   header says it can be called from any thread (`hu_aap.h:122`).
4. A buffer stays in `channel_assembly_buffers` after its message is complete.
   If two channels send fragmented messages, one message can be delivered with
   a part of another. With one such channel this cannot happen, which is
   proved.

## Proofs

The theorems hold for all values of the constants under the assumptions the
modules name. A theorem that needs more says so in its `ASSUME`; these
hypotheses are listed here with what goes wrong without them.

### HUServer: `HUServerProofs`, `HUServerStackProofs`

Under `BoundsAssumption` and `SwitchesAssumption`:

* `TypeCorrect`, `SessionOwned` and `CleanWhenStopped`: `[]TypeOK`,
  `[]HuThreadOwnsSession`, `[]StoppedIsClean`. Neither of the last two is
  inductive. That a running HU thread owns its session holds because the main
  thread does not enter `start()` or pass the join in `shutdown()` under it, so
  `LifecycleInv` adds what is true at each point of these calls: `StartInv`
  (inside `start()` the state is `STARTIN` until the handshake and `STARTED`
  after it, the transport is open once it has been opened, and no thread is
  running) and `ShutdownInv` (past the join there is no thread, and after the
  release no pipe).
* `NeverTerminates`: `[]NoTerminate` if `RestartNeedsShutdown`. `OwnerInv` says
  whose the thread object is at each point. An application that calls `start()`
  again after `DisconnectionOrError()` without `shutdown()` ends the process.
* `JoinedEnds`: `[]JoinedThreadWillEnd`, for every application, transport and
  pipe: while a `shutdown()` that could queue its command waits in `join()`, the
  command is not lost. That the thread gets to read it is not claimed; it does
  over USB (`ShutdownReturns`), unless it waits on the full pipe, and does not on
  the network transport when it spins at end of file. The command of `shutdown()` is followed from the write in
  `queueCommand()` through the pipe to the stack of the HU thread; a lemma on
  calls (`CallElements`) says which operations of a stack stay on it.
* `StackStaysBounded`: `[]StackBounded`. `StackInv` says that the waiting calls
  of `stop()` are next to each other on the stack, the first at place 1 or 2,
  and that one that has not sent its message yet is paid for by a failed write.
  The depth is then the cardinality of an interval (`DepthOf`).
* `SessionImplemented`: `Spec => Session!Safety`, the refinement of `HUSession`
  without its fairness, if `RestartNeedsShutdown` and not `SelectMayFail`. These
  are the conditions of `usb_fair`: an interrupted `select()` makes
  `mainThread()` return without a callback.

### HUAssembly: `HUAssemblyProofs`

`[]AssemblyTypeOK`, `[]MessagesIntact` and `[]PartialsPreserved` under
`OneFragmented`: the phone fragments at most one channel. The number of
channels, of buffers, of frames and of messages is arbitrary. `AssemblyInv` adds
`FragmentedInv` (a channel that is not fragmented never has an open message,
nor a buffer in the map) and `OpenInv` (where the open message is and that no
other channel's buffer is the same one). `assembly_two` shows that the
condition is needed.

### HUSending: `HUSendingProofs`

The four invariants of `HUSending` for any payload and record size that fit
together (`SizesAssumption`), any lengths and any number of failures.
`MessagesWhole` is not inductive: `SendInv` adds that, as long as the phone has
missed nothing, only the innermost call has fragments left and the phone has
exactly those it has sent (`PhoneInv`), that only the outermost call is of a
handler's message and there is one call under another for each failure
(`StackInv`), and that no two messages of one number have different lengths
(`DeliveredInv`).

### HUMessages: `HUMessagesProofs`

For any set of media channels, any messages beside those of the protocol's
sequence (`OthersAssumption`), any filter and any number of messages, streams
and connections. Each handler has lemmas about the set of its outcomes: that
they keep `m_ssl` and the state and say why if they end the connection
(`Established`), that they contain the answer or end the connection (`Replied`),
and which session they leave a stream (`Sessions`). The proofs about `Process`
use these only.

* `SessionKeysAlways` and `EndsOnlyForCause`: `[]SessionKeys`, `[]EndsForCause`.
  That the last message of a handshake meets an `m_ssl` of this connection
  follows from the two sides taking turns since the version response, which
  `SessionInv` states message by message (`Handshake`), down to the phone's
  next flight not being sent before this connection's `m_ssl` waits for it. A
  phone that has gone astray is outside `SessionInv`: `AstrayInv` says that it
  stays so until the connection ends, and `Valid` is that one of the two holds.
* `MessageTypesAlways`: `[]TypeOK`. `BoundInv` adds that the numbers in the
  inbox are of streams that were started.
* `AnswersOnlyAsked`: `[]AnswersAskedFor`, for any number of questions sent
  without waiting. Each handler also has a lemma about what it says to a
  message: nothing, the answer with the number of the question or the session
  of its channel, and on the sensor channel an event after it (`Says`). `AskInv`
  then says that the phone waits for whatever is pending or answered
  (`Asking`, `Answering`), that no two of these are about the same question
  (`Alone`, `Greeted`, and `Numbered` for the other messages), and, for the
  sessions, what `channel_session_id` will be once HUServer has handled the
  first k messages of the inbox: it will be that of each packet when its turn
  comes (`LeadsTo`, `Playing`). Its one hypothesis is that the filter does not
  take `MediaStartRequest`, or packets would be acknowledged with the session
  before.
* `NeverForgotten`: `[]NothingForgotten`, if the filter takes neither the end of
  the handshake nor `MediaStartRequest`, and `OtherMessages` are sent on the
  channels whose handlers know them (`Routed`). A handler that does not know a
  message returns 0 and says nothing, so the dispatch of the handshake must meet
  only messages of the handshake and that of the session only others, although
  the phone goes on without waiting after its last flight (`InTurn`). If the
  filter takes the end of the handshake, `start()` stays in it and drops what
  the phone asks next. That an answer is the one to its own question is taken
  from `AskInv`, hence the second condition.

### HUTransportUSB: `HUTransportUSBProofs`

For any capacity of the pipe, sizes of the buffer, devices, and number of units
and writes. `USBInv` is one invariant for all: which descriptors and which
thread exist at each statement of the owner (`FdInv`, `ThreadInv`), that there
is at most one transfer, in flight, completed or being written (`OneTransfer`),
and that what was read, what is in the pipe, what the callback still holds and
what waits for it are together a rising sequence of all units that were sent
and not dropped (`OrderInv`). `StreamInOrder` alone is not inductive, as it does
not say where between the two threads a unit is.

* `USBTypes`, `StreamStaysInOrder`, `StoppedStaysClean`: `[]TypeOK`,
  `[]StreamInOrder`, `[]StoppedIsClean` (the leaked handles excepted).
* `BufferStaysPut`: the action property `BufferStable`.
* `StreamImplemented`: `Spec => Stream!Safety`, the refinement of
  `HUTransportStream` without its fairness, one step of the proof for each
  action.

### HUTransportTCP: `HUTransportTCPProofs`

The four invariants of `HUTransportTCP` for any number of descriptors.
`StreamInv` says at each statement of the stream which of its two members hold a
descriptor (`PointInv`) and what `itcp_state` is (`StateInv`), and, until a
theft, that the table has these as the stream's and nothing else (`TableInv`).

### HeadunitBluetoothServer: `HeadunitBluetoothServerProofs`

`BluetoothTypes` and `AnswersAlwaysMatch`: `[]TypeOK` and `[]AnswersMatch`, for
any set of phones and number of messages. `AnswersMatch` is not inductive, as it
says nothing of requests that are still on the wire: `AskedInv` says that with
these the answers would still match. How many requests of a kind a sequence
holds is again stated by a function that bounds it from step to step (`Ahead`).

### Only model-checked

* Liveness and what rests on fairness: the liveness properties of `usb_fair`,
  `SendReturns`, `StopReturns`, `StartReturns`, `PatientAnswered`, and the
  fairness of `SessionSpec` and `StreamSpec`. The prover does not reason about
  `ENABLED`, on which fairness rests.

## Not modelled

* Logging and dumps (`hu_aad.cpp`, `hu_uti.cpp`), the code generated from
  `hu.proto` and `bt.proto`, and the registration of the Bluetooth service, a
  straight-line function without state.
* The contents of messages, where no property is about them, and the version in
  the phone's response, which the code only logs. OpenSSL: a step of the
  handshake makes progress, wants more or fails; a frame is decrypted or not.
* A `MessageFilter` that sends and so overwrites the message its handler parses
  next. (One that calls `stop()` in the handshake is in `HUServer`.)
* What `sendEncoded()` writes after a failed write: the link is taken to be lost.
* The notifiers for the poll descriptors of libusb (`hu_usb.cpp:575-602`), which
  keep the list `usb_recv_thread_main()` polls. libusb calls them when a device
  is opened and when it is closed or disappears while events are handled: on the
  thread that owns the stream before the USB thread is made or after it is
  joined, or on the USB thread itself between two polls. The list and its use
  are then never concurrent, and no property is about which descriptors it has.
* Several `HUServer` objects in one process, which would share `itcp_state`.
* `bind()` to a port that is still in `TIME_WAIT`, and the address the phone is
  told over Bluetooth: no state of this code depends on them.

## Plan

Every invariant and every action property without fairness that a run checks is
proved. What is left is liveness, which stays with TLC.
