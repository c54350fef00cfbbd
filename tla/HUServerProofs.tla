--------------------------- MODULE HUServerProofs ---------------------------
(***************************************************************************)
(* Proofs about HUServer, for any number of calling threads, sessions,     *)
(* commands and failures, with or without an application that shuts down   *)
(* before it starts again.                                                 *)
(***************************************************************************)
EXTENDS HUServer, TLAPS

USE BoundsAssumption, SwitchesAssumption
    DEF setVars, mainVars, sessionVars, flagVars, huVars, pipeVars, callVars, endVars

(* What start() holds at each of its points, and when a shutdown() under   *)
(* it returns to it.  While start() is before the thread's creation no HU  *)
(* thread runs, for it would be in STARTED and start() would have          *)
(* returned.                                                               *)
StartInv ==
    /\ main \in {"open", "version", "receive"} => iaap_state = "STARTIN"
    /\ (main \in {"pipe", "spawn"} /\ transport = "open") => iaap_state = "STARTED"
    /\ main \in {"version", "receive"} => transport = "open"
    /\ resume # "idle" =>
         /\ session # 0
         /\ main \in {"queue", "join", "joinUnasked", "release", "stopTransport"}
    /\ main = "spawn" => command_fd # 0
    /\ main \in Starting => session # 0 /\ hu_thread # "running"
    /\ (main \in Starting \ {"spawn"} /\ hu_thread = "none") => command_fd = 0
    /\ (main = "open" /\ hu_thread = "none") => transport # "open"

(* What shutdown() has given back at its last two points. *)
ShutdownInv ==
    /\ main \in {"release", "stopTransport"} => hu_thread = "none"
    /\ main = "stopTransport" => command_fd = 0

(* The inductive invariant.  HuThreadOwnsSession alone is not inductive:   *)
(* that no step of start() or shutdown() takes the session from a running  *)
(* thread needs to know where in them the main thread can be meanwhile.    *)
LifecycleInv ==
    TypeOK /\ HuThreadOwnsSession /\ StoppedIsClean /\ StartInv /\ ShutdownInv

-----------------------------------------------------------------------------
(* Calling operations from the head of the stack leaves a stack of them. *)
LEMMA CallType ==
    ASSUME hu \in Seq(Ops), hu # <<>>, NEW ops \in Seq(Ops), Call(ops)
    PROVE  hu' \in Seq(Ops)
BY DEF Call

(* What the handlers, the callbacks and the commands call are operations   *)
(* of the stack.                                                           *)
LEMMA ProgramTypes ==
    /\ AppPrograms \subseteq Seq(Ops)
    /\ ByeProgram \in Seq(Ops)
    /\ ReceivePrograms \subseteq Seq(Ops)
    /\ EofPrograms \subseteq Seq(Ops)
    /\ <<>> \in Seq(Ops)
    /\ <<"stop">> \in Seq(Ops)
    /\ <<"stop", "stop">> \in Seq(Ops)
    /\ <<"write", "gone">> \in Seq(Ops)
<1>1. "write" \in Ops /\ "stop" \in Ops /\ "gone" \in Ops /\ "post" \in Ops
      /\ "spin" \in Ops
  BY DEF Ops
<1>2. \A a \in Ops : <<a>> \in Seq(Ops)
  OBVIOUS
<1>3. \A a, b \in Ops : <<a, b>> \in Seq(Ops)
  OBVIOUS
<1>4. \A a, b, c \in Ops : <<a, b, c>> \in Seq(Ops)
  OBVIOUS
<1>5. <<>> \in Seq(Ops)
  OBVIOUS
<1>6. AppPrograms \subseteq Seq(Ops)
  <2> SUFFICES ASSUME NEW ops \in AppPrograms PROVE ops \in Seq(Ops)
    OBVIOUS
  <2>1. PICK n \in 0..MaxCallbackOps : ops \in [1..n -> {"write", "stop", "post"}]
    BY DEF AppPrograms
  <2>2. n \in Nat /\ ops \in [1..n -> Ops]
    BY <1>1, <2>1
  <2> QED
    BY <2>2
<1>7. ByeProgram \in Seq(Ops)
  BY <1>1, <1>2, <1>3 DEF ByeProgram
<1>8. ReceivePrograms \subseteq Seq(Ops)
  <2>1. HandlerPrograms \subseteq Seq(Ops)
    BY <1>1, <1>2, <1>3, <1>4, <1>5 DEF HandlerPrograms
  <2>2. \A a, b \in Seq(Ops) : a \o b \in Seq(Ops)
    OBVIOUS
  <2> SUFFICES ASSUME NEW ops \in ReceivePrograms PROVE ops \in Seq(Ops)
    OBVIOUS
  <2>3. PICK callback \in AppPrograms, handler \in HandlerPrograms :
          ops = callback \o handler
    BY DEF ReceivePrograms
  <2>4. callback \in Seq(Ops) /\ handler \in Seq(Ops)
    BY <1>6, <2>1
  <2> QED
    BY <2>2, <2>3, <2>4, Zenon
<1>9. EofPrograms \subseteq Seq(Ops)
  BY <1>1, <1>2, <1>5 DEF EofPrograms
<1> QED
  BY <1>1, <1>2, <1>3, <1>5, <1>6, <1>7, <1>8, <1>9

(* A command appended to the pipe leaves a pipe of commands. *)
LEMMA AppendType ==
    ASSUME pipe \in Seq(Command), NEW cmd \in {"user", "bye"},
           NEW s \in 0..MaxSessions
    PROVE  Append(pipe, [cmd |-> cmd, session |-> s]) \in Seq(Command)
BY DEF Command
-----------------------------------------------------------------------------
(* Every step keeps the types. *)
LEMMA TypeStep == TypeOK /\ [Next]_vars => TypeOK'
<1> SUFFICES ASSUME TypeOK, [Next]_vars PROVE TypeOK'
  OBVIOUS
<1> USE DEF TypeOK
<1>1. CASE Start
  BY <1>1 DEF Start, HU_STATE, MainPoints
<1>2. CASE OpenTransport
  BY <1>2 DEF OpenTransport, HU_STATE, MainPoints
<1>3. CASE OpenTransportFails
  BY <1>3 DEF OpenTransportFails, HU_STATE, MainPoints
<1>4. CASE SendVersion
  BY <1>4 DEF SendVersion, HU_STATE, MainPoints
<1>5. CASE SendVersionFails
  <2>1. owed' \in BOOLEAN
    BY <1>5, Zenon DEF SendVersionFails
  <2> QED
    BY <1>5, <2>1 DEF SendVersionFails, HU_STATE, MainPoints
<1>6. CASE HandshakeCompletes
  BY <1>6 DEF HandshakeCompletes, HU_STATE, MainPoints
<1>7. CASE HandshakeFails
  BY <1>7 DEF HandshakeFails, HU_STATE, MainPoints
<1>8. CASE CreatePipe
  BY <1>8 DEF CreatePipe, HU_STATE, MainPoints
<1>9. CASE CreatePipeFails
  <2>1. owed' \in BOOLEAN
    BY <1>9, Zenon DEF CreatePipeFails
  <2> QED
    BY <1>9, <2>1 DEF CreatePipeFails, HU_STATE, MainPoints
<1>10. CASE Spawn
  BY <1>10, ProgramTypes DEF Spawn, HU_STATE, MainPoints
<1>11. CASE Shutdown
  <2>1. owed' \in BOOLEAN
    BY <1>11, Zenon DEF Shutdown
  <2> QED
    BY <1>11, <2>1 DEF Shutdown, HU_STATE, MainPoints
<1>12. CASE NothingToJoin
  BY <1>12 DEF NothingToJoin, HU_STATE, MainPoints
<1>13. CASE Join
  BY <1>13 DEF Join, HU_STATE, MainPoints
<1>14. CASE Release
  BY <1>14 DEF Release, HU_STATE, MainPoints
<1>15. CASE StopTransport
  BY <1>15 DEF StopTransport, HU_STATE, MainPoints
<1>16. CASE HuExit
  BY <1>16 DEF HuExit, HU_STATE, MainPoints
<1>17. CASE HuSelectFails
  BY <1>17 DEF HuSelectFails, HU_STATE, MainPoints, Looping
<1>18. CASE HuSelectError
  BY <1>18 DEF HuSelectError, HU_STATE, MainPoints, Looping
<1>19. CASE LinkGoesDown
  BY <1>19 DEF LinkGoesDown, HU_STATE, MainPoints
<1>20. CASE LinkSignals
  BY <1>20 DEF LinkSignals, HU_STATE, MainPoints
<1>21. CASE QueueBye
  <2>1. pipe' \in Seq(Command)
    BY <1>21, AppendType DEF QueueBye
  <2> QED
    BY <1>21, <2>1 DEF QueueBye, MainPoints
<1>22. CASE HuSelectCommand
  <2>1. <<"pop", "recv">> \in Seq(Ops) /\ <<"pop">> \in Seq(Ops)
    BY DEF Ops
  <2> QED
    BY <1>22, <2>1 DEF HuSelectCommand
<1>23. CASE HuSelectData
  <2>1. <<"recv">> \in Seq(Ops)
    BY DEF Ops
  <2> QED
    BY <1>23, <2>1 DEF HuSelectData
<1>24. CASE HuPop
  <2>1. hu # <<>>
    BY <1>24 DEF HuPop, At
  <2>2. \E ops \in Seq(Ops) : Call(ops)
    BY <1>24, ProgramTypes DEF HuPop
  <2>3. hu' \in Seq(Ops)
    BY <2>1, <2>2, CallType
  <2>4. pipe' \in Seq(Command)
    BY <1>24 DEF HuPop
  <2> QED
    BY <1>24, <2>3, <2>4 DEF HuPop
<1>25. CASE HuReceive
  <2>1. hu # <<>>
    BY <1>25 DEF HuReceive, At
  <2>2. \E ops \in Seq(Ops) : Call(ops)
    BY <1>25, ProgramTypes DEF HuReceive
  <2>3. hu' \in Seq(Ops)
    BY <2>1, <2>2, CallType
  <2> QED
    BY <1>25, <2>3 DEF HuReceive
<1>26. CASE HuWrite
  <2>1. hu # <<>>
    BY <1>26 DEF HuWrite, At
  <2>2. \E ops \in Seq(Ops) : Call(ops)
    BY <1>26, ProgramTypes DEF HuWrite
  <2>3. hu' \in Seq(Ops)
    BY <2>1, <2>2, CallType
  <2> QED
    BY <1>26, <2>3 DEF HuWrite
<1>27. CASE HuWriteFails
  <2>1. hu # <<>>
    BY <1>27 DEF HuWriteFails, At
  <2>2. \E ops \in Seq(Ops) : Call(ops)
    BY <1>27, ProgramTypes DEF HuWriteFails
  <2>3. hu' \in Seq(Ops)
    BY <2>1, <2>2, CallType
  <2> QED
    BY <1>27, <2>3 DEF HuWriteFails
<1>28. CASE HuStop
  <2>1. hu # <<>>
    BY <1>28 DEF HuStop, At
  <2>2. \E ops \in Seq(Ops) : Call(ops)
    BY <1>28, ProgramTypes DEF HuStop
  <2>3. hu' \in Seq(Ops)
    BY <2>1, <2>2, CallType
  <2> QED
    BY <1>28, <2>3 DEF HuStop
<1>29. CASE HuGone
  <2>1. hu # <<>>
    BY <1>29 DEF HuGone, At
  <2>2. \E ops \in Seq(Ops) : Call(ops)
    BY <1>29, ProgramTypes DEF HuGone
  <2>3. hu' \in Seq(Ops)
    BY <2>1, <2>2, CallType
  <2> QED
    BY <1>29, <2>3 DEF HuGone
<1>30. CASE HuPost
  <2>1. hu # <<>>
    BY <1>30 DEF HuPost, At
  <2>2. hu' \in Seq(Ops)
    BY <1>30, <2>1, ProgramTypes, CallType DEF HuPost
  <2>3. pipe' \in Seq(Command)
    BY <1>30, AppendType DEF HuPost
  <2> QED
    BY <1>30, <2>2, <2>3 DEF HuPost
<1>31. ASSUME NEW c \in Callers, CallQueueCommand(c) PROVE TypeOK'
  BY <1>31 DEF CallQueueCommand
<1>32. ASSUME NEW c \in Callers, WriteCommand(c) PROVE TypeOK'
  <2>1. caller[c] \in 0..MaxSessions
    OBVIOUS
  <2>2. pipe' \in Seq(Command)
    BY <1>32, <2>1, AppendType DEF WriteCommand
  <2> QED
    BY <1>32, <2>2 DEF WriteCommand
<1>33. ASSUME NEW c \in Callers, WriteClosed(c) PROVE TypeOK'
  <2>1. caller[c] \in 0..MaxSessions
    OBVIOUS
  <2>2. pipe' \in Seq(Command)
    BY <1>33, <2>1, AppendType DEF WriteClosed
  <2>3. stray' \in BOOLEAN
    BY <1>33, Zenon DEF WriteClosed
  <2> QED
    BY <1>33, <2>2, <2>3 DEF WriteClosed
<1>35. CASE HandshakeStarves
  BY <1>35 DEF HandshakeStarves, HU_STATE, MainPoints
<1>36. CASE HandshakeStopped
  BY <1>36 DEF HandshakeStopped, HU_STATE, MainPoints
<1>37. CASE SpawnStopped
  BY <1>37 DEF SpawnStopped, HU_STATE, MainPoints
<1>38. CASE QueueByeFails
  BY <1>38 DEF QueueByeFails, HU_STATE, MainPoints
<1>34. CASE UNCHANGED vars
  BY <1>34 DEF vars
<1> QED
  BY <1>1, <1>2, <1>3, <1>4, <1>5, <1>6, <1>7, <1>8, <1>9, <1>10, <1>11,
     <1>12, <1>13, <1>14, <1>15, <1>16, <1>17, <1>18, <1>19, <1>20, <1>21,
     <1>22, <1>23, <1>24, <1>25, <1>26, <1>27, <1>28, <1>29, <1>30, <1>31,
     <1>32, <1>33, <1>34, <1>35, <1>36, <1>37, <1>38
     DEF Next, MainStep, HuStep, Environment, CallerStep

(* Every step keeps the inductive invariant. *)
LEMMA LifecycleStep == LifecycleInv /\ [Next]_vars => LifecycleInv'
<1> DEFINE Rest == HuThreadOwnsSession /\ StoppedIsClean /\ StartInv /\ ShutdownInv
<1> SUFFICES ASSUME TypeOK, Rest, [Next]_vars, TypeOK' PROVE Rest'
  BY TypeStep DEF LifecycleInv
<1> USE DEF HuThreadOwnsSession, StoppedIsClean, StartInv, ShutdownInv, Starting
<1>1. CASE Start
  BY <1>1 DEF Start, TypeOK
<1>2. CASE OpenTransport
  BY <1>2 DEF OpenTransport
<1>3. CASE OpenTransportFails
  BY <1>3 DEF OpenTransportFails, TypeOK
<1>4. CASE SendVersion
  BY <1>4 DEF SendVersion
<1>5. CASE SendVersionFails
  BY <1>5 DEF SendVersionFails
<1>6. CASE HandshakeCompletes
  BY <1>6 DEF HandshakeCompletes
<1>7. CASE HandshakeFails
  BY <1>7 DEF HandshakeFails
<1>8. CASE CreatePipe
  BY <1>8 DEF CreatePipe
<1>9. CASE CreatePipeFails
  BY <1>9 DEF CreatePipeFails
<1>10. CASE Spawn
  BY <1>10 DEF Spawn
<1>11. CASE Shutdown
  BY <1>11 DEF Shutdown
<1>12. CASE QueueBye
  BY <1>12 DEF QueueBye
<1>13. CASE NothingToJoin
  BY <1>13 DEF NothingToJoin
<1>14. CASE Join
  BY <1>14 DEF Join
<1>15. CASE Release
  BY <1>15 DEF Release
<1>16. CASE StopTransport
  BY <1>16 DEF StopTransport, TypeOK
<1>17. CASE HuExit
  BY <1>17 DEF HuExit
<1>18. CASE HuSelectFails
  BY <1>18 DEF HuSelectFails, Looping
<1>19. CASE HuSelectError
  BY <1>19 DEF HuSelectError, Looping
<1>20. CASE HuSelectCommand
  BY <1>20 DEF HuSelectCommand, Looping
<1>21. CASE HuSelectData
  BY <1>21 DEF HuSelectData, Looping
<1>22. CASE HuPop
  BY <1>22 DEF HuPop
<1>23. CASE HuReceive
  BY <1>23 DEF HuReceive
<1>24. CASE HuWrite
  BY <1>24 DEF HuWrite
<1>25. CASE HuWriteFails
  BY <1>25 DEF HuWriteFails
<1>26. CASE HuStop
  BY <1>26 DEF HuStop
<1>27. CASE HuGone
  BY <1>27 DEF HuGone
<1>28. CASE HuPost
  BY <1>28 DEF HuPost
<1>29. CASE LinkGoesDown
  BY <1>29 DEF LinkGoesDown
<1>30. CASE LinkSignals
  BY <1>30 DEF LinkSignals
<1>31. ASSUME NEW c \in Callers, CallQueueCommand(c) PROVE Rest'
  BY <1>31 DEF CallQueueCommand
<1>32. ASSUME NEW c \in Callers, WriteCommand(c) PROVE Rest'
  BY <1>32 DEF WriteCommand
<1>33. ASSUME NEW c \in Callers, WriteClosed(c) PROVE Rest'
  BY <1>33 DEF WriteClosed
<1>35. CASE HandshakeStarves
  BY <1>35 DEF HandshakeStarves
<1>36. CASE HandshakeStopped
  BY <1>36 DEF HandshakeStopped
<1>37. CASE SpawnStopped
  BY <1>37 DEF SpawnStopped
<1>38. CASE QueueByeFails
  BY <1>38 DEF QueueByeFails
<1>34. CASE UNCHANGED vars
  BY <1>34 DEF vars
<1> HIDE DEF Rest
<1> QED
  BY <1>1, <1>2, <1>3, <1>4, <1>5, <1>6, <1>7, <1>8, <1>9, <1>10, <1>11,
     <1>12, <1>13, <1>14, <1>15, <1>16, <1>17, <1>18, <1>19, <1>20, <1>21,
     <1>22, <1>23, <1>24, <1>25, <1>26, <1>27, <1>28, <1>29, <1>30, <1>31,
     <1>32, <1>33, <1>34, <1>35, <1>36, <1>37, <1>38
     DEF Next, MainStep, HuStep, Environment, CallerStep

(* The initial states satisfy it. *)
LEMMA LifecycleInit == Init => LifecycleInv
<1> SUFFICES ASSUME Init PROVE LifecycleInv
  OBVIOUS
<1>1. told \in BOOLEAN /\ owed \in BOOLEAN /\ hu_thread_quit_flag \in BOOLEAN
      /\ stray \in BOOLEAN
  BY Zenon DEF Init
<1>2. hu \in Seq(Ops) /\ pipe \in Seq(Command)
  BY DEF Init
<1>3. caller \in [Callers -> 0..MaxSessions]
  BY DEF Init
<1>4. TypeOK
  BY <1>1, <1>2, <1>3 DEF Init, TypeOK, HU_STATE, MainPoints
<1> QED
  BY <1>4 DEF Init, LifecycleInv, HuThreadOwnsSession, StoppedIsClean, StartInv,
              ShutdownInv, Starting

(* The inductive invariant holds in every state of every behaviour. *)
THEOREM LifecycleAlways == Spec => []LifecycleInv
BY LifecycleInit, LifecycleStep, PTL DEF Spec

(* The members, the call stack of the HU thread and the command pipe keep  *)
(* their types.                                                            *)
THEOREM TypeCorrect == Spec => []TypeOK
<1>1. LifecycleInv => TypeOK
  BY DEF LifecycleInv
<1> QED
  BY <1>1, LifecycleAlways, PTL

(* While mainThread() runs nothing takes from it the state, the transport  *)
(* and the command pipe it uses without checking.                          *)
THEOREM SessionOwned == Spec => []HuThreadOwnsSession
<1>1. LifecycleInv => HuThreadOwnsSession
  BY DEF LifecycleInv
<1> QED
  BY <1>1, LifecycleAlways, PTL

(* Whatever way start() failed or shutdown() was reached, an idle object   *)
(* with no thread to join holds nothing and can be started again.          *)
THEOREM CleanWhenStopped == Spec => []StoppedIsClean
<1>1. LifecycleInv => StoppedIsClean
  BY DEF LifecycleInv
<1> QED
  BY <1>1, LifecycleAlways, PTL
-----------------------------------------------------------------------------
(* An application that shuts down before it starts again *)

(* Who owns the thread object: the caller of start() until it calls        *)
(* shutdown(), and shutdown() until it has joined it.  While start() runs  *)
(* nobody does, so it has no thread to overwrite.                          *)
OwnerInv ==
    /\ (~owed /\ main \notin {"queue", "join", "joinUnasked"}) => hu_thread = "none"
    /\ main \in Starting => ~owed
    /\ resume # "idle" => ~owed /\ hu_thread = "none"

(* No step overwrites a joinable thread. *)
LEMMA OwnerStep ==
    ASSUME RestartNeedsShutdown, LifecycleInv, OwnerInv, NoTerminate, [Next]_vars
    PROVE  OwnerInv' /\ NoTerminate'
<1> DEFINE Goal == OwnerInv' /\ NoTerminate'
<1> SUFFICES Goal
  OBVIOUS
<1> USE DEF OwnerInv, NoTerminate, Starting, LifecycleInv, StartInv, ShutdownInv,
            TypeOK
<1>1. CASE Start
  BY <1>1 DEF Start
<1>2. CASE OpenTransport
  BY <1>2 DEF OpenTransport
<1>3. CASE OpenTransportFails
  BY <1>3 DEF OpenTransportFails
<1>4. CASE SendVersion
  BY <1>4 DEF SendVersion
<1>5. CASE SendVersionFails
  BY <1>5 DEF SendVersionFails
<1>6. CASE HandshakeCompletes
  BY <1>6 DEF HandshakeCompletes
<1>7. CASE HandshakeFails
  BY <1>7 DEF HandshakeFails
<1>8. CASE CreatePipe
  BY <1>8 DEF CreatePipe
<1>9. CASE CreatePipeFails
  BY <1>9 DEF CreatePipeFails
<1>10. CASE Spawn
  BY <1>10 DEF Spawn
<1>11. CASE Shutdown
  BY <1>11 DEF Shutdown
<1>12. CASE QueueBye
  BY <1>12 DEF QueueBye
<1>13. CASE NothingToJoin
  BY <1>13 DEF NothingToJoin
<1>14. CASE Join
  BY <1>14 DEF Join
<1>15. CASE Release
  BY <1>15 DEF Release
<1>16. CASE StopTransport
  BY <1>16 DEF StopTransport
<1>17. CASE HuExit
  BY <1>17 DEF HuExit
<1>18. CASE HuSelectFails
  BY <1>18 DEF HuSelectFails, Looping
<1>19. CASE HuSelectError
  BY <1>19 DEF HuSelectError, Looping
<1>20. CASE HuSelectCommand
  BY <1>20 DEF HuSelectCommand, Looping
<1>21. CASE HuSelectData
  BY <1>21 DEF HuSelectData, Looping
<1>22. CASE HuPop
  BY <1>22 DEF HuPop
<1>23. CASE HuReceive
  BY <1>23 DEF HuReceive
<1>24. CASE HuWrite
  BY <1>24 DEF HuWrite
<1>25. CASE HuWriteFails
  BY <1>25 DEF HuWriteFails
<1>26. CASE HuStop
  BY <1>26 DEF HuStop
<1>27. CASE HuGone
  BY <1>27 DEF HuGone
<1>28. CASE HuPost
  BY <1>28 DEF HuPost
<1>29. CASE LinkGoesDown
  BY <1>29 DEF LinkGoesDown
<1>30. CASE LinkSignals
  BY <1>30 DEF LinkSignals
<1>31. ASSUME NEW c \in Callers, CallQueueCommand(c) PROVE Goal
  BY <1>31 DEF CallQueueCommand
<1>32. ASSUME NEW c \in Callers, WriteCommand(c) PROVE Goal
  BY <1>32 DEF WriteCommand
<1>33. ASSUME NEW c \in Callers, WriteClosed(c) PROVE Goal
  BY <1>33 DEF WriteClosed
<1>35. CASE HandshakeStarves
  BY <1>35 DEF HandshakeStarves
<1>36. CASE HandshakeStopped
  BY <1>36 DEF HandshakeStopped
<1>37. CASE SpawnStopped
  BY <1>37 DEF SpawnStopped
<1>38. CASE QueueByeFails
  BY <1>38 DEF QueueByeFails
<1>34. CASE UNCHANGED vars
  BY <1>34 DEF vars
<1> HIDE DEF Goal
<1> QED
  BY <1>1, <1>2, <1>3, <1>4, <1>5, <1>6, <1>7, <1>8, <1>9, <1>10, <1>11,
     <1>12, <1>13, <1>14, <1>15, <1>16, <1>17, <1>18, <1>19, <1>20, <1>21,
     <1>22, <1>23, <1>24, <1>25, <1>26, <1>27, <1>28, <1>29, <1>30, <1>31,
     <1>32, <1>33, <1>34, <1>35, <1>36, <1>37, <1>38
     DEF Next, MainStep, HuStep, Environment, CallerStep

(* An application that shuts down before it starts again never has start() *)
(* assign to a joinable std::thread, which would end the process.          *)
THEOREM NeverTerminates ==
    ASSUME RestartNeedsShutdown PROVE Spec => []NoTerminate
<1> DEFINE Inv == LifecycleInv /\ OwnerInv /\ NoTerminate
<1>1. Init => Inv
  BY LifecycleInit DEF Init, OwnerInv, NoTerminate, Starting
<1>2. Inv /\ [Next]_vars => Inv'
  BY LifecycleStep, OwnerStep
<1>3. Inv => NoTerminate
  OBVIOUS
<1> HIDE DEF Inv
<1> QED
  BY <1>1, <1>2, <1>3, PTL DEF Spec

-----------------------------------------------------------------------------
(* The end of the HU thread *)

(* Where the elements of the stack are after a call: first the operations  *)
(* called, then what was under the head.                                   *)
LEMMA CallElements ==
    ASSUME hu \in Seq(Ops), hu # <<>>, NEW ops \in Seq(Ops), Call(ops)
    PROVE  /\ hu' \in Seq(Ops)
           /\ Len(hu) >= 1
           /\ Head(hu) = hu[1]
           /\ Len(hu') = Len(ops) + Len(hu) - 1
           /\ \A i \in 1..Len(ops) : i \in 1..Len(hu') /\ hu'[i] = ops[i]
           /\ \A i \in 2..Len(hu) :
                Len(ops) + i - 1 \in 1..Len(hu') /\ hu'[Len(ops) + i - 1] = hu[i]
           /\ \A j \in Len(ops) + 1..Len(hu') :
                j - Len(ops) + 1 \in 2..Len(hu) /\ hu'[j] = hu[j - Len(ops) + 1]
<1>1. Tail(hu) \in Seq(Ops) /\ Len(Tail(hu)) = Len(hu) - 1 /\ Len(hu) >= 1
  OBVIOUS
<1>2. hu' = ops \o Tail(hu)
  BY DEF Call
<1>3. \A i \in 1..Len(Tail(hu)) : Tail(hu)[i] = hu[i + 1]
  OBVIOUS
<1>4. Len(hu') = Len(ops) + Len(hu) - 1 /\ hu' \in Seq(Ops)
  BY <1>1, <1>2
<1>5. \A i \in 1..Len(ops) : i \in 1..Len(hu') /\ hu'[i] = ops[i]
  BY <1>1, <1>2, <1>4
<1>6. \A j \in Len(ops) + 1..Len(hu') : hu'[j] = Tail(hu)[j - Len(ops)]
  BY <1>1, <1>2, <1>4
<1>7. \A j \in Len(ops) + 1..Len(hu') :
        j - Len(ops) + 1 \in 2..Len(hu) /\ hu'[j] = hu[j - Len(ops) + 1]
  <2> SUFFICES ASSUME NEW j \in Len(ops) + 1..Len(hu')
               PROVE  j - Len(ops) + 1 \in 2..Len(hu)
                      /\ hu'[j] = hu[j - Len(ops) + 1]
    OBVIOUS
  <2>1. Len(ops) \in Nat /\ Len(hu) \in Nat
    OBVIOUS
  <2>2. j \in Len(ops) + 1..Len(ops) + Len(hu) - 1
    BY <1>4, Zenon
  <2>3. \A a, b \in Nat : \A k \in a + 1..a + b - 1 :
          k - a \in 1..b - 1 /\ k - a + 1 \in 2..b
    OBVIOUS
  <2>4. j - Len(ops) \in 1..Len(hu) - 1 /\ j - Len(ops) + 1 \in 2..Len(hu)
    BY <2>1, <2>2, <2>3, Zenon
  <2>5. j - Len(ops) \in 1..Len(Tail(hu)) /\ j - Len(ops) + 1 \in 2..Len(hu)
    BY <1>1, <2>4, Zenon
  <2>6. hu'[j] = Tail(hu)[j - Len(ops)]
    BY <1>6
  <2>7. Tail(hu)[j - Len(ops)] = hu[j - Len(ops) + 1]
    BY <1>3, <2>5, Zenon
  <2> QED
    BY <2>5, <2>6, <2>7, Zenon
<1>8. \A i \in 2..Len(hu) :
        Len(ops) + i - 1 \in 1..Len(hu') /\ hu'[Len(ops) + i - 1] = hu[i]
  <2> SUFFICES ASSUME NEW i \in 2..Len(hu)
               PROVE  Len(ops) + i - 1 \in 1..Len(hu')
                      /\ hu'[Len(ops) + i - 1] = hu[i]
    OBVIOUS
  <2>1. Len(ops) \in Nat /\ Len(hu) \in Nat
    OBVIOUS
  <2>2. Len(ops) + i - 1 \in Len(ops) + 1..Len(hu')
    BY <1>4, <2>1
  <2>3. (Len(ops) + i - 1) - Len(ops) + 1 = i
    BY <2>1
  <2> QED
    BY <1>7, <2>1, <2>2, <2>3
<1>9. Head(hu) = hu[1]
  OBVIOUS
<1> QED
  BY <1>1, <1>4, <1>5, <1>7, <1>8, <1>9, ZenonT(30)

(* A call ends the operation at the head of the stack and no other. *)
LEMMA CallKeeps ==
    ASSUME hu \in Seq(Ops), hu # <<>>, NEW ops \in Seq(Ops), Call(ops),
           Head(hu) \notin {"stop", "gone"},
           \E i \in 1..Len(hu) : hu[i] \in {"stop", "gone"}
    PROVE  \E j \in 1..Len(hu') : hu'[j] \in {"stop", "gone"}
<1>1. PICK i \in 1..Len(hu) : hu[i] \in {"stop", "gone"}
  OBVIOUS
<1>2. i \in 2..Len(hu)
  BY <1>1, CallElements
<1>3. Len(ops) + i - 1 \in 1..Len(hu') /\ hu'[Len(ops) + i - 1] = hu[i]
  BY <1>2, CallElements
<1> QED
  BY <1>1, <1>3

(* No step takes from a thread that is being joined what will end it.  The *)
(* thread owns its session, so stop() on it is in STARTED and cannot       *)
(* return without the message and the flag.                                *)
LEMMA JoinStep ==
    ASSUME TypeOK, HuThreadOwnsSession, JoinedThreadWillEnd, [Next]_vars
    PROVE  JoinedThreadWillEnd'
<1> DEFINE Bound ==
             \/ hu_thread_quit_flag'
             \/ \E i \in 1..Len(pipe') : pipe'[i].cmd = "bye"
             \/ \E i \in 1..Len(hu') : hu'[i] \in {"stop", "gone"}
<1> SUFFICES ASSUME main' = "join", hu_thread' = "running" PROVE Bound
  BY DEF JoinedThreadWillEnd
<1> USE DEF JoinedThreadWillEnd, HuThreadOwnsSession, TypeOK
<1>1. CASE Start
  BY <1>1 DEF Start
<1>2. CASE OpenTransport
  BY <1>2 DEF OpenTransport
<1>3. CASE OpenTransportFails
  BY <1>3 DEF OpenTransportFails
<1>4. CASE SendVersion
  BY <1>4 DEF SendVersion
<1>5. CASE SendVersionFails
  BY <1>5 DEF SendVersionFails
<1>6. CASE HandshakeCompletes
  BY <1>6 DEF HandshakeCompletes
<1>7. CASE HandshakeFails
  BY <1>7 DEF HandshakeFails
<1>8. CASE CreatePipe
  BY <1>8 DEF CreatePipe
<1>9. CASE CreatePipeFails
  BY <1>9 DEF CreatePipeFails
<1>10. CASE Spawn
  BY <1>10 DEF Spawn
<1>11. CASE Shutdown
  BY <1>11 DEF Shutdown
<1>12. CASE QueueBye
  <2>1. pipe'[Len(pipe')].cmd = "bye" /\ Len(pipe') \in 1..Len(pipe')
    BY <1>12 DEF QueueBye
  <2> QED
    BY <2>1
<1>13. CASE NothingToJoin
  BY <1>13 DEF NothingToJoin
<1>14. CASE Join
  BY <1>14 DEF Join
<1>15. CASE Release
  BY <1>15 DEF Release
<1>16. CASE StopTransport
  BY <1>16 DEF StopTransport
<1>17. CASE HuExit
  BY <1>17 DEF HuExit
<1>18. CASE HuSelectFails
  BY <1>18 DEF HuSelectFails, Looping
<1>19. CASE HuSelectError
  BY <1>19 DEF HuSelectError, Looping
<1>20. CASE HuSelectCommand
  BY <1>20 DEF HuSelectCommand, Looping
<1>21. CASE HuSelectData
  BY <1>21 DEF HuSelectData, Looping
<1>22. CASE HuPop
  <2>1. hu # <<>> /\ Head(hu) = "pop" /\ main' = main /\ hu_thread' = hu_thread
        /\ hu_thread_quit_flag' = hu_thread_quit_flag /\ pipe # <<>>
        /\ pipe' = Tail(pipe)
    BY <1>22 DEF HuPop, At
  <2>2. PICK ops \in Seq(Ops) :
          Call(ops) /\ (Head(pipe).cmd = "bye" => ops = ByeProgram)
    BY <1>22, ProgramTypes DEF HuPop
  <2>3. (\E i \in 1..Len(hu) : hu[i] \in {"stop", "gone"}) =>
          \E j \in 1..Len(hu') : hu'[j] \in {"stop", "gone"}
    BY <2>1, <2>2, CallKeeps
  <2>4. CASE Head(pipe).cmd = "bye"
    <3>1. \E i \in 1..Len(ops) : ops[i] = "stop"
      <4>1. CASE iaap_state = "STARTED"
        <5>1. ops = <<"write", "stop">>
          BY <2>2, <2>4, <4>1 DEF ByeProgram
        <5>2. 2 \in 1..Len(ops) /\ ops[2] = "stop"
          BY <5>1
        <5> QED
          BY <5>2
      <4>2. CASE iaap_state # "STARTED"
        <5>1. ops = <<"stop">>
          BY <2>2, <2>4, <4>2 DEF ByeProgram
        <5>2. 1 \in 1..Len(ops) /\ ops[1] = "stop"
          BY <5>1
        <5> QED
          BY <5>2
      <4> QED
        BY <4>1, <4>2
    <3>2. \E j \in 1..Len(hu') : hu'[j] = "stop"
      BY <2>1, <2>2, <3>1, CallElements
    <3> QED
      BY <3>2
  <2>5. CASE Head(pipe).cmd # "bye"
    <3>1. \A i \in 1..Len(pipe) : pipe[i].cmd = "bye" =>
            i - 1 \in 1..Len(pipe') /\ pipe'[i - 1] = pipe[i]
      BY <2>1, <2>5
    <3> QED
      BY <2>1, <2>3, <3>1
  <2> QED
    BY <2>4, <2>5
<1>23. CASE HuReceive
  <2>1. hu # <<>> /\ main' = main /\ hu_thread' = hu_thread
        /\ hu_thread_quit_flag' = hu_thread_quit_flag /\ pipe' = pipe
    BY <1>23 DEF HuReceive, At
  <2>2. Head(hu) = "recv"
    BY <1>23 DEF HuReceive, At
  <2>3. PICK ops \in Seq(Ops) : Call(ops)
    BY <1>23, ProgramTypes DEF HuReceive
  <2>4. (\E i \in 1..Len(hu) : hu[i] \in {"stop", "gone"}) =>
          \E j \in 1..Len(hu') : hu'[j] \in {"stop", "gone"}
    BY <2>1, <2>2, <2>3, CallKeeps
  <2> QED
    BY <2>1, <2>4
<1>24. CASE HuWrite
  <2>1. hu # <<>> /\ main' = main /\ hu_thread' = hu_thread
        /\ hu_thread_quit_flag' = hu_thread_quit_flag /\ pipe' = pipe
    BY <1>24 DEF HuWrite, At
  <2>2. Head(hu) = "write"
    BY <1>24 DEF HuWrite, At
  <2>3. PICK ops \in Seq(Ops) : Call(ops)
    BY <1>24, ProgramTypes DEF HuWrite
  <2>4. (\E i \in 1..Len(hu) : hu[i] \in {"stop", "gone"}) =>
          \E j \in 1..Len(hu') : hu'[j] \in {"stop", "gone"}
    BY <2>1, <2>2, <2>3, CallKeeps
  <2> QED
    BY <2>1, <2>4
<1>25. CASE HuWriteFails
  <2>1. hu # <<>> /\ main' = main /\ hu_thread' = hu_thread
        /\ hu_thread_quit_flag' = hu_thread_quit_flag /\ pipe' = pipe
    BY <1>25 DEF HuWriteFails, At
  <2>2. Head(hu) = "write"
    BY <1>25 DEF HuWriteFails, At
  <2>3. PICK ops \in Seq(Ops) : Call(ops)
    BY <1>25, ProgramTypes DEF HuWriteFails
  <2>4. (\E i \in 1..Len(hu) : hu[i] \in {"stop", "gone"}) =>
          \E j \in 1..Len(hu') : hu'[j] \in {"stop", "gone"}
    BY <2>1, <2>2, <2>3, CallKeeps
  <2> QED
    BY <2>1, <2>4
<1>26. CASE HuStop
  <2>1. hu # <<>> /\ iaap_state = "STARTED"
    BY <1>26 DEF HuStop, At
  <2>2. Call(<<"write", "gone">>)
    BY <1>26, <2>1 DEF HuStop
  <2>3. LET ops == <<"write", "gone">>
        IN  2 \in 1..Len(ops) /\ ops[2] = "gone" /\ ops \in Seq(Ops)
    BY ProgramTypes
  <2>4. 2 \in 1..Len(hu') /\ hu'[2] = "gone"
    BY <2>1, <2>2, <2>3, CallElements
  <2> QED
    BY <2>4
<1>27. CASE HuGone
  BY <1>27 DEF HuGone
<1>28. CASE HuPost
  <2>1. hu # <<>> /\ Head(hu) = "post" /\ main' = main /\ hu_thread' = hu_thread
        /\ hu_thread_quit_flag' = hu_thread_quit_flag /\ Call(<<>>)
    BY <1>28 DEF HuPost, At
  <2>2. (\E i \in 1..Len(hu) : hu[i] \in {"stop", "gone"}) =>
          \E j \in 1..Len(hu') : hu'[j] \in {"stop", "gone"}
    BY <2>1, ProgramTypes, CallKeeps
  <2>3. \A i \in 1..Len(pipe) : i \in 1..Len(pipe') /\ pipe'[i] = pipe[i]
    <3>1. CASE posts < MaxPosts
      <4>1. pipe' = Append(pipe, [cmd |-> "user", session |-> command_fd])
        BY <1>28, <3>1, BoundsAssumption DEF HuPost
      <4>2. \A i \in 1..Len(pipe) : Append(pipe, [cmd |-> "user", session |-> command_fd])[i] = pipe[i]
        OBVIOUS
      <4>3. Len(pipe') = Len(pipe) + 1
        BY <4>1
      <4> QED
        BY <4>1, <4>2, <4>3
    <3>2. CASE pipe' = pipe
      BY <3>2
    <3> QED
      BY <1>28, <3>1, <3>2 DEF HuPost
  <2> QED
    BY <2>1, <2>2, <2>3
<1>29. CASE LinkGoesDown
  BY <1>29 DEF LinkGoesDown
<1>30. CASE LinkSignals
  BY <1>30 DEF LinkSignals
<1>31. ASSUME NEW c \in Callers, CallQueueCommand(c) PROVE Bound
  BY <1>31 DEF CallQueueCommand
<1>32. ASSUME NEW c \in Callers, WriteCommand(c) PROVE Bound
  <2>1. hu' = hu /\ main' = main /\ hu_thread' = hu_thread
        /\ hu_thread_quit_flag' = hu_thread_quit_flag
    BY <1>32 DEF WriteCommand
  <2>2. \A i \in 1..Len(pipe) : i \in 1..Len(pipe') /\ pipe'[i] = pipe[i]
    BY <1>32 DEF WriteCommand
  <2> QED
    BY <2>1, <2>2
<1>33. ASSUME NEW c \in Callers, WriteClosed(c) PROVE Bound
  <2>1. hu' = hu /\ main' = main /\ hu_thread' = hu_thread
        /\ hu_thread_quit_flag' = hu_thread_quit_flag
    BY <1>33 DEF WriteClosed
  <2>2. \A i \in 1..Len(pipe) : i \in 1..Len(pipe') /\ pipe'[i] = pipe[i]
    BY <1>33 DEF WriteClosed
  <2> QED
    BY <2>1, <2>2
<1>35. CASE HandshakeStarves
  BY <1>35 DEF HandshakeStarves
<1>36. CASE HandshakeStopped
  BY <1>36 DEF HandshakeStopped
<1>37. CASE SpawnStopped
  BY <1>37 DEF SpawnStopped
<1>38. CASE QueueByeFails
  BY <1>38 DEF QueueByeFails
<1>34. CASE UNCHANGED vars
  BY <1>34 DEF vars
<1> HIDE DEF Bound
<1> QED
  BY <1>1, <1>2, <1>3, <1>4, <1>5, <1>6, <1>7, <1>8, <1>9, <1>10, <1>11,
     <1>12, <1>13, <1>14, <1>15, <1>16, <1>17, <1>18, <1>19, <1>20, <1>21,
     <1>22, <1>23, <1>24, <1>25, <1>26, <1>27, <1>28, <1>29, <1>30, <1>31,
     <1>32, <1>33, <1>34, <1>35, <1>36, <1>37, <1>38
     DEF Next, MainStep, HuStep, Environment, CallerStep

(* While a shutdown() that could queue its command waits for the HU        *)
(* thread, that command is in the pipe or has had its effect.              *)
THEOREM JoinedEnds == Spec => []JoinedThreadWillEnd
<1> DEFINE Inv == LifecycleInv /\ JoinedThreadWillEnd
<1>1. Init => Inv
  BY LifecycleInit DEF Init, JoinedThreadWillEnd
<1>2. Inv /\ [Next]_vars => Inv'
  BY LifecycleStep, JoinStep DEF LifecycleInv
<1>3. Inv => JoinedThreadWillEnd
  OBVIOUS
<1> HIDE DEF Inv
<1> QED
  BY <1>1, <1>2, <1>3, PTL DEF Spec
-----------------------------------------------------------------------------
(* HUServer implements HUSession *)

(* The quit flag is set where DisconnectionOrError() is called, and        *)
(* nowhere else.                                                           *)
QuitInv == (hu_thread = "running" /\ hu_thread_quit_flag) => told

(* Every step keeps it. *)
LEMMA QuitStep ==
    ASSUME TypeOK, QuitInv, [Next]_vars PROVE QuitInv'
<1> USE DEF QuitInv, TypeOK
<1>1. CASE Start
  BY <1>1 DEF Start
<1>2. CASE OpenTransport
  BY <1>2 DEF OpenTransport
<1>3. CASE OpenTransportFails
  BY <1>3 DEF OpenTransportFails
<1>4. CASE SendVersion
  BY <1>4 DEF SendVersion
<1>5. CASE SendVersionFails
  BY <1>5 DEF SendVersionFails
<1>6. CASE HandshakeCompletes
  BY <1>6 DEF HandshakeCompletes
<1>7. CASE HandshakeFails
  BY <1>7 DEF HandshakeFails
<1>8. CASE CreatePipe
  BY <1>8 DEF CreatePipe
<1>9. CASE CreatePipeFails
  BY <1>9 DEF CreatePipeFails
<1>10. CASE Spawn
  BY <1>10 DEF Spawn
<1>11. CASE Shutdown
  BY <1>11 DEF Shutdown
<1>12. CASE QueueBye
  BY <1>12 DEF QueueBye
<1>13. CASE NothingToJoin
  BY <1>13 DEF NothingToJoin
<1>14. CASE Join
  BY <1>14 DEF Join
<1>15. CASE Release
  BY <1>15 DEF Release
<1>16. CASE StopTransport
  BY <1>16 DEF StopTransport
<1>17. CASE HuExit
  BY <1>17 DEF HuExit
<1>18. CASE HuSelectFails
  BY <1>18 DEF HuSelectFails, Looping
<1>19. CASE HuSelectError
  BY <1>19 DEF HuSelectError, Looping
<1>20. CASE HuSelectCommand
  BY <1>20 DEF HuSelectCommand, Looping
<1>21. CASE HuSelectData
  BY <1>21 DEF HuSelectData, Looping
<1>22. CASE HuPop
  BY <1>22 DEF HuPop
<1>23. CASE HuReceive
  BY <1>23 DEF HuReceive
<1>24. CASE HuWrite
  BY <1>24 DEF HuWrite
<1>25. CASE HuWriteFails
  BY <1>25 DEF HuWriteFails
<1>26. CASE HuStop
  BY <1>26 DEF HuStop
<1>27. CASE HuGone
  BY <1>27 DEF HuGone
<1>28. CASE HuPost
  BY <1>28 DEF HuPost
<1>29. CASE LinkGoesDown
  BY <1>29 DEF LinkGoesDown
<1>30. CASE LinkSignals
  BY <1>30 DEF LinkSignals
<1>31. ASSUME NEW c \in Callers, CallQueueCommand(c) PROVE QuitInv'
  BY <1>31 DEF CallQueueCommand
<1>32. ASSUME NEW c \in Callers, WriteCommand(c) PROVE QuitInv'
  BY <1>32 DEF WriteCommand
<1>33. ASSUME NEW c \in Callers, WriteClosed(c) PROVE QuitInv'
  BY <1>33 DEF WriteClosed
<1>35. CASE HandshakeStarves
  BY <1>35 DEF HandshakeStarves
<1>36. CASE HandshakeStopped
  BY <1>36 DEF HandshakeStopped
<1>37. CASE SpawnStopped
  BY <1>37 DEF SpawnStopped
<1>38. CASE QueueByeFails
  BY <1>38 DEF QueueByeFails
<1>34. CASE UNCHANGED vars
  BY <1>34 DEF vars
<1> QED
  BY <1>1, <1>2, <1>3, <1>4, <1>5, <1>6, <1>7, <1>8, <1>9, <1>10, <1>11,
     <1>12, <1>13, <1>14, <1>15, <1>16, <1>17, <1>18, <1>19, <1>20, <1>21,
     <1>22, <1>23, <1>24, <1>25, <1>26, <1>27, <1>28, <1>29, <1>30, <1>31,
     <1>32, <1>33, <1>34, <1>35, <1>36, <1>37, <1>38
     DEF Next, MainStep, HuStep, Environment, CallerStep

(* What the application sees of a step while nothing has died: a step of   *)
(* HUSession, or nothing.                                                  *)
Told == hu_thread # "none" /\ told

LiveMove ==
    \/ LivePhase' = LivePhase /\ Told' = Told
    \/ LivePhase = "up" /\ LivePhase' = "up" /\ Told' = TRUE
    \/ LivePhase = "down" /\ LivePhase' = "connecting" /\ Told' = Told
    \/ LivePhase = "connecting" /\ LivePhase' \in {"up", "down"} /\ Told' = Told
    \/ LivePhase = "up" /\ LivePhase' = "ended" /\ Told /\ Told' = Told
    \/ /\ LivePhase = "ended" /\ LivePhase' = "down" /\ Told' = FALSE
       /\ fate' = fate /\ hu_thread' = "none"

(* Every step is one of these. *)
LEMMA LiveStep ==
    ASSUME RestartNeedsShutdown, ~SelectMayFail, LifecycleInv, OwnerInv, QuitInv,
           [Next]_vars
    PROVE  LiveMove
<1> USE DEF LiveMove, OwnerInv, QuitInv, LifecycleInv, TypeOK, StartInv,
            ShutdownInv, Starting
<1>1. CASE Start
  <2>1. LivePhase = "down" /\ LivePhase' = "connecting"
    BY <1>1 DEF Start, LivePhase, Told
  <2>2. Told' = Told
    BY <1>1 DEF Start, Told
  <2> QED
    BY <2>1, <2>2
<1>2. CASE OpenTransport
  <2>1. LivePhase' = LivePhase /\ Told' = Told
    BY <1>2 DEF OpenTransport, LivePhase, Told
  <2> QED
    BY <2>1
<1>3. CASE OpenTransportFails
  <2>1. LivePhase = "connecting" /\ LivePhase' = "down"
    BY <1>3 DEF OpenTransportFails, LivePhase, Told
  <2>2. Told' = Told
    BY <1>3 DEF OpenTransportFails, Told
  <2> QED
    BY <2>1, <2>2
<1>4. CASE SendVersion
  <2>1. LivePhase' = LivePhase /\ Told' = Told
    BY <1>4 DEF SendVersion, LivePhase, Told
  <2> QED
    BY <2>1
<1>5. CASE SendVersionFails
  <2>1. LivePhase = "connecting" /\ LivePhase' = "down"
    BY <1>5 DEF SendVersionFails, LivePhase, Told
  <2>2. Told' = Told
    BY <1>5 DEF SendVersionFails, Told
  <2> QED
    BY <2>1, <2>2
<1>6. CASE HandshakeCompletes
  <2>1. LivePhase' = LivePhase /\ Told' = Told
    BY <1>6 DEF HandshakeCompletes, LivePhase, Told
  <2> QED
    BY <2>1
<1>7. CASE HandshakeFails
  <2>1. LivePhase = "connecting" /\ LivePhase' = "down"
    BY <1>7 DEF HandshakeFails, LivePhase, Told
  <2>2. Told' = Told
    BY <1>7 DEF HandshakeFails, Told
  <2> QED
    BY <2>1, <2>2
<1>8. CASE CreatePipe
  <2>1. LivePhase' = LivePhase /\ Told' = Told
    BY <1>8 DEF CreatePipe, LivePhase, Told
  <2> QED
    BY <2>1
<1>9. CASE CreatePipeFails
  <2>1. LivePhase = "connecting" /\ LivePhase' = "down"
    BY <1>9 DEF CreatePipeFails, LivePhase, Told
  <2>2. Told' = Told
    BY <1>9 DEF CreatePipeFails, Told
  <2> QED
    BY <2>1, <2>2
<1>10. CASE Spawn
  <2>1. LivePhase = "connecting" /\ LivePhase' = "up"
    BY <1>10 DEF Spawn, LivePhase, Told
  <2>2. Told' = Told
    BY <1>10 DEF Spawn, Told
  <2> QED
    BY <2>1, <2>2
<1>11. CASE Shutdown
  <2>1. LivePhase' = LivePhase /\ Told' = Told
    BY <1>11 DEF Shutdown, LivePhase, Told
  <2> QED
    BY <2>1
<1>12. CASE QueueBye
  <2>1. LivePhase' = LivePhase /\ Told' = Told
    BY <1>12 DEF QueueBye, LivePhase, Told
  <2> QED
    BY <2>1
<1>13. CASE NothingToJoin
  <2>1. LivePhase' = LivePhase /\ Told' = Told
    BY <1>13 DEF NothingToJoin, LivePhase, Told
  <2> QED
    BY <2>1
<1>14. CASE Join
  <2>1. LivePhase = "ended" /\ LivePhase' = "down"
    BY <1>14 DEF Join, LivePhase, Told
  <2>2. Told' = FALSE /\ fate' = fate /\ hu_thread' = "none"
    BY <1>14 DEF Join, Told
  <2> QED
    BY <2>1, <2>2
<1>15. CASE Release
  <2>1. LivePhase' = LivePhase /\ Told' = Told
    BY <1>15 DEF Release, LivePhase, Told
  <2> QED
    BY <2>1
<1>16. CASE StopTransport
  <2>1. LivePhase' = LivePhase /\ Told' = Told
    BY <1>16 DEF StopTransport, LivePhase, Told
  <2> QED
    BY <2>1
<1>17. CASE HuExit
  <2>1. LivePhase = "up" /\ LivePhase' = "ended"
    BY <1>17 DEF HuExit, LivePhase, Told
  <2>2. Told /\ Told' = Told
    BY <1>17 DEF HuExit, Told
  <2> QED
    BY <2>1, <2>2
<1>18. CASE HuSelectFails
  BY <1>18 DEF HuSelectFails
<1>19. CASE HuSelectError
  <2>1. LivePhase = "up" /\ LivePhase' = "up"
    BY <1>19 DEF HuSelectError, LivePhase, Looping, Told
  <2>2. Told' = TRUE
    BY <1>19 DEF HuSelectError, Looping, Told
  <2> QED
    BY <2>1, <2>2
<1>20. CASE HuSelectCommand
  <2>1. LivePhase' = LivePhase /\ Told' = Told
    BY <1>20 DEF HuSelectCommand, Looping, LivePhase, Told
  <2> QED
    BY <2>1
<1>21. CASE HuSelectData
  <2>1. LivePhase' = LivePhase /\ Told' = Told
    BY <1>21 DEF HuSelectData, Looping, LivePhase, Told
  <2> QED
    BY <2>1
<1>22. CASE HuPop
  <2>1. LivePhase' = LivePhase /\ Told' = Told
    BY <1>22 DEF HuPop, LivePhase, Told
  <2> QED
    BY <2>1
<1>23. CASE HuReceive
  <2>1. LivePhase' = LivePhase /\ Told' = Told
    BY <1>23 DEF HuReceive, LivePhase, Told
  <2> QED
    BY <2>1
<1>24. CASE HuWrite
  <2>1. LivePhase' = LivePhase /\ Told' = Told
    BY <1>24 DEF HuWrite, LivePhase, Told
  <2> QED
    BY <2>1
<1>25. CASE HuWriteFails
  <2>1. LivePhase' = LivePhase /\ Told' = Told
    BY <1>25 DEF HuWriteFails, LivePhase, Told
  <2> QED
    BY <2>1
<1>26. CASE HuStop
  <2>1. LivePhase' = LivePhase /\ Told' = Told
    BY <1>26 DEF HuStop, LivePhase, Told
  <2> QED
    BY <2>1
<1>27. CASE HuGone
  <2>1. LivePhase = "up" /\ LivePhase' = "up"
    BY <1>27 DEF HuGone, LivePhase, At, Told
  <2>2. Told' = TRUE
    BY <1>27 DEF HuGone, At, Told
  <2> QED
    BY <2>1, <2>2
<1>28. CASE HuPost
  <2>1. LivePhase' = LivePhase /\ Told' = Told
    BY <1>28 DEF HuPost, LivePhase, Told
  <2> QED
    BY <2>1
<1>29. CASE LinkGoesDown
  <2>1. LivePhase' = LivePhase /\ Told' = Told
    BY <1>29 DEF LinkGoesDown, LivePhase, Told
  <2> QED
    BY <2>1
<1>30. CASE LinkSignals
  <2>1. LivePhase' = LivePhase /\ Told' = Told
    BY <1>30 DEF LinkSignals, LivePhase, Told
  <2> QED
    BY <2>1
<1>31. ASSUME NEW c \in Callers, CallQueueCommand(c) PROVE LiveMove
  <2>1. LivePhase' = LivePhase /\ Told' = Told
    BY <1>31 DEF CallQueueCommand, LivePhase, Told
  <2> QED
    BY <2>1
<1>32. ASSUME NEW c \in Callers, WriteCommand(c) PROVE LiveMove
  <2>1. LivePhase' = LivePhase /\ Told' = Told
    BY <1>32 DEF WriteCommand, LivePhase, Told
  <2> QED
    BY <2>1
<1>33. ASSUME NEW c \in Callers, WriteClosed(c) PROVE LiveMove
  <2>1. LivePhase' = LivePhase /\ Told' = Told
    BY <1>33 DEF WriteClosed, LivePhase, Told
  <2> QED
    BY <2>1
<1>35. CASE HandshakeStarves
  <2>1. LivePhase = "connecting" /\ LivePhase' = "down"
    BY <1>35 DEF HandshakeStarves, LivePhase, Told
  <2>2. Told' = Told
    BY <1>35 DEF HandshakeStarves, Told
  <2> QED
    BY <2>1, <2>2
<1>36. CASE HandshakeStopped
  <2>1. LivePhase' = LivePhase /\ Told' = Told
    BY <1>36 DEF HandshakeStopped, LivePhase, Told
  <2> QED
    BY <2>1
<1>37. CASE SpawnStopped
  <2>1. LivePhase' = LivePhase /\ Told' = Told
    BY <1>37 DEF SpawnStopped, LivePhase, Told
  <2> QED
    BY <2>1
<1>38. CASE QueueByeFails
  <2>1. LivePhase' = LivePhase /\ Told' = Told
    BY <1>38 DEF QueueByeFails, LivePhase, Told
  <2> QED
    BY <2>1
<1>34. CASE UNCHANGED vars
  <2>1. LivePhase' = LivePhase /\ Told' = Told
    BY <1>34 DEF vars, LivePhase, Told
  <2> QED
    BY <2>1
<1> HIDE DEF LiveMove
<1> QED
  BY <1>1, <1>2, <1>3, <1>4, <1>5, <1>6, <1>7, <1>8, <1>9, <1>10, <1>11,
     <1>12, <1>13, <1>14, <1>15, <1>16, <1>17, <1>18, <1>19, <1>20, <1>21,
     <1>22, <1>23, <1>24, <1>25, <1>26, <1>27, <1>28, <1>29, <1>30, <1>31,
     <1>32, <1>33, <1>34, <1>35, <1>36, <1>37, <1>38
     DEF Next, MainStep, HuStep, Environment, CallerStep

(* A thread that waits for room in the pipe only it empties waits on.      *)
LEMMA StuckStays ==
    ASSUME LifecycleInv, hu_thread = "running", PipeStuck, [Next]_vars
    PROVE  hu_thread' = hu_thread /\ PipeStuck' /\ told' = told
<1> DEFINE Same == UNCHANGED <<hu_thread, hu, told, pipe>>
<1>0. At("post") /\ Len(pipe) = PipeCapacity
  BY DEF PipeStuck
<1> SUFFICES Same
  BY <1>0 DEF PipeStuck, At
<1> USE <1>0 DEF At, Looping, LifecycleInv, TypeOK, StartInv, ShutdownInv, Starting
<1>1. CASE Start
  BY <1>1 DEF Start
<1>2. CASE OpenTransport
  BY <1>2 DEF OpenTransport
<1>3. CASE OpenTransportFails
  BY <1>3 DEF OpenTransportFails
<1>4. CASE SendVersion
  BY <1>4 DEF SendVersion
<1>5. CASE SendVersionFails
  BY <1>5 DEF SendVersionFails
<1>6. CASE HandshakeCompletes
  BY <1>6 DEF HandshakeCompletes
<1>7. CASE HandshakeFails
  BY <1>7 DEF HandshakeFails
<1>8. CASE CreatePipe
  BY <1>8 DEF CreatePipe
<1>9. CASE CreatePipeFails
  BY <1>9 DEF CreatePipeFails
<1>10. CASE Spawn
  BY <1>10 DEF Spawn
<1>11. CASE Shutdown
  BY <1>11 DEF Shutdown
<1>12. CASE QueueBye
  BY <1>12 DEF QueueBye
<1>13. CASE NothingToJoin
  BY <1>13 DEF NothingToJoin
<1>14. CASE Join
  BY <1>14 DEF Join
<1>15. CASE Release
  BY <1>15 DEF Release
<1>16. CASE StopTransport
  BY <1>16 DEF StopTransport
<1>17. CASE HuExit
  BY <1>17 DEF HuExit
<1>18. CASE HuSelectFails
  BY <1>18 DEF HuSelectFails
<1>19. CASE HuSelectError
  BY <1>19 DEF HuSelectError
<1>20. CASE HuSelectCommand
  BY <1>20 DEF HuSelectCommand
<1>21. CASE HuSelectData
  BY <1>21 DEF HuSelectData
<1>22. CASE HuPop
  BY <1>22 DEF HuPop
<1>23. CASE HuReceive
  BY <1>23 DEF HuReceive
<1>24. CASE HuWrite
  BY <1>24 DEF HuWrite
<1>25. CASE HuWriteFails
  BY <1>25 DEF HuWriteFails
<1>26. CASE HuStop
  BY <1>26 DEF HuStop
<1>27. CASE HuGone
  BY <1>27 DEF HuGone
<1>28. CASE HuPost
  BY <1>28 DEF HuPost
<1>29. CASE LinkGoesDown
  BY <1>29 DEF LinkGoesDown
<1>30. CASE LinkSignals
  BY <1>30 DEF LinkSignals
<1>31. ASSUME NEW c \in Callers, CallQueueCommand(c) PROVE Same
  BY <1>31 DEF CallQueueCommand
<1>32. ASSUME NEW c \in Callers, WriteCommand(c) PROVE Same
  BY <1>32 DEF WriteCommand
<1>33. ASSUME NEW c \in Callers, WriteClosed(c) PROVE Same
  BY <1>33 DEF WriteClosed
<1>34. CASE UNCHANGED vars
  BY <1>34 DEF vars
<1>35. CASE HandshakeStarves
  BY <1>35 DEF HandshakeStarves
<1>36. CASE HandshakeStopped
  BY <1>36 DEF HandshakeStopped
<1>37. CASE SpawnStopped
  BY <1>37 DEF SpawnStopped
<1>38. CASE QueueByeFails
  BY <1>38 DEF QueueByeFails
<1> HIDE DEF Same
<1> QED
  BY <1>1, <1>2, <1>3, <1>4, <1>5, <1>6, <1>7, <1>8, <1>9, <1>10, <1>11,
     <1>12, <1>13, <1>14, <1>15, <1>16, <1>17, <1>18, <1>19, <1>20, <1>21,
     <1>22, <1>23, <1>24, <1>25, <1>26, <1>27, <1>28, <1>29, <1>30, <1>31,
     <1>32, <1>33, <1>34, <1>35, <1>36, <1>37, <1>38
     DEF Next, MainStep, HuStep, Environment, CallerStep

(* Every step of HUServer is a step of HUSession or changes neither of its *)
(* two variables.                                                          *)
LEMMA SessionStep ==
    ASSUME RestartNeedsShutdown, ~SelectMayFail, LifecycleInv, OwnerInv, QuitInv,
           [Next]_vars
    PROVE  [Session!Next]_(Session!vars)
<1>1. CASE Dead
  <2>1. Dead' /\ Told' = Told
    <3>1. CASE fate # "running"
      BY <3>1 DEF Next, vars, Dead, Told
    <3>2. CASE hu_thread = "running" /\ PipeStuck
      BY <3>2, StuckStays DEF Dead, Told
    <3> QED
      BY <1>1, <3>1, <3>2 DEF Dead
  <2> QED
    BY <1>1, <2>1 DEF Session!vars, SessionPhase, Told
<1>2. CASE ~Dead /\ Dead'
  <2>1. Told' \in {Told, TRUE}
    BY <1>2, LiveStep DEF LiveMove, Dead
  <2>2. SessionPhase # "dead" /\ SessionPhase' = "dead"
    BY <1>2 DEF SessionPhase, LivePhase, LifecycleInv, TypeOK
  <2> QED
    BY <2>1, <2>2 DEF Session!Next, Session!Die, Told
<1>3. CASE ~Dead /\ ~Dead'
  <2>1. SessionPhase = LivePhase /\ SessionPhase' = LivePhase'
    BY <1>3 DEF SessionPhase
  <2> QED
    BY <2>1, LiveStep
       DEF LiveMove, Told, Session!vars, Session!Next, Session!Begin,
           Session!Connected, Session!Abandon, Session!Tell, Session!End,
           Session!Close
<1> QED
  BY <1>1, <1>2, <1>3

(* If the application shuts down before it starts again and select() is    *)
(* not interrupted, the application sees the phases in the order of        *)
(* HUSession: the thread of a session that was up returns only after       *)
(* DisconnectionOrError(), and nothing is told after that.                 *)
THEOREM SessionImplemented ==
    ASSUME RestartNeedsShutdown, ~SelectMayFail
    PROVE  Spec => Session!Safety
<1> DEFINE Inv == LifecycleInv /\ OwnerInv /\ NoTerminate /\ QuitInv
<1>1. Init => Inv
  BY LifecycleInit DEF Init, OwnerInv, NoTerminate, Starting, QuitInv
<1>2. Inv /\ [Next]_vars => Inv'
  BY LifecycleStep, OwnerStep, QuitStep DEF LifecycleInv
<1>3. Inv /\ [Next]_vars => [Session!Next]_(Session!vars)
  BY SessionStep
<1>4. Init => Session!Init
  BY DEF Init, Session!Init, SessionPhase, LivePhase, Dead, Starting
<1> HIDE DEF Inv
<1> QED
  BY <1>1, <1>2, <1>3, <1>4, PTL DEF Spec, Session!Safety
=============================================================================
