------------------------- MODULE HUServerStackProofs -------------------------
(***************************************************************************)
(* How deep stop() and sendTransportPacket() nest on the HU thread: a bound *)
(* in the number of failed writes, for every number of failures, commands, *)
(* sessions and calls a callback makes.                                    *)
(***************************************************************************)
EXTENDS HUServerProofs, FiniteSetTheorems

USE BoundsAssumption, SwitchesAssumption
    DEF setVars, mainVars, sessionVars, flagVars, huVars, pipeVars, callVars, endVars

(* The places of the stack where a stop() waits for its message to be sent. *)
GoneAt == {i \in 1..Len(hu) : hu[i] = "gone"}

(* Nested calls of stop() are next to each other at the top of the stack,  *)
(* below at most the send or the stop() that the last of them runs.        *)
StackOf(depth) ==
    /\ \E first \in {1, 2} : GoneAt = first..first + depth - 1
    /\ (hu # <<>> /\ hu[1] = "stop") => depth <= failures
    /\ depth > 0 => hu # <<>> /\ hu[1] \in {"stop", "write", "gone"}

(* A stop() that has not sent its message yet is the first of the session  *)
(* or runs because a write of the one below it failed.                     *)
StackInv ==
    /\ \E depth \in 0..failures + 1 : StackOf(depth)
    /\ fate = "overflow" => failures >= StackLimit

-----------------------------------------------------------------------------
(* The depth is the length of that run of places. *)
LEMMA DepthOf ==
    ASSUME NEW depth \in Nat, StackOf(depth)
    PROVE  StopDepth = depth
<1>1. PICK first \in {1, 2} : GoneAt = first..first + depth - 1
  BY DEF StackOf
<1>2. Cardinality(first..first + depth - 1) = depth
  <2>1. first \in Int /\ first + depth - 1 \in Int
    OBVIOUS
  <2>2. Cardinality(first..first + depth - 1)
          = IF first > first + depth - 1 THEN 0
            ELSE (first + depth - 1) - first + 1
    BY <2>1, FS_Interval
  <2> QED
    BY <2>2
<1> QED
  BY <1>1, <1>2 DEF StopDepth, GoneAt

(* So the invariant bounds it. *)
LEMMA StackInvBounds == TypeOK /\ StackInv => StackBounded
<1> SUFFICES ASSUME TypeOK, StackInv PROVE StopDepth <= failures + 1
  BY DEF StackInv, StackBounded
<1>1. PICK depth \in 0..failures + 1 : StackOf(depth)
  BY DEF StackInv
<1>2. StopDepth = depth
  BY <1>1, DepthOf DEF TypeOK
<1> QED
  BY <1>1, <1>2 DEF TypeOK

-----------------------------------------------------------------------------
(* What an operation of the HU thread does to that run of places *)

(* A stack without such a place has depth 0. *)
LEMMA NoneGone ==
    ASSUME NEW n \in Nat, failures' = n, GoneAt' = {}
    PROVE  \E depth \in 0..failures' + 1 : StackOf(depth)'
<1>1. 1..1 + 0 - 1 = {}
  OBVIOUS
<1>2. StackOf(0)'
  BY <1>1 DEF StackOf
<1>3. 0 \in 0..failures' + 1
  OBVIOUS
<1> QED
  BY <1>2, <1>3 DEF StackOf

(* The operation that runs is the first of the stack. *)
LEMMA HeadFirst == ASSUME TypeOK, hu # <<>> PROVE hu[1] = Head(hu)
BY DEF TypeOK

(* A call moves the places below the head by what it pushes. *)
LEMMA GoneShift ==
    ASSUME TypeOK, hu # <<>>, NEW ops \in Seq(Ops), Call(ops)
    PROVE  GoneAt' = {i \in 1..Len(ops) : ops[i] = "gone"}
                       \cup {i + Len(ops) - 1 : i \in GoneAt \ {1}}
<1> DEFINE Pushed == {i \in 1..Len(ops) : ops[i] = "gone"}
           Moved  == {i + Len(ops) - 1 : i \in GoneAt \ {1}}
<1>0. hu \in Seq(Ops) /\ Len(ops) \in Nat /\ Len(hu) \in Nat
  BY DEF TypeOK
<1>1. /\ Len(hu') = Len(ops) + Len(hu) - 1
      /\ Len(hu) >= 1
      /\ \A i \in 1..Len(ops) : i \in 1..Len(hu') /\ hu'[i] = ops[i]
      /\ \A i \in 2..Len(hu) :
           Len(ops) + i - 1 \in 1..Len(hu') /\ hu'[Len(ops) + i - 1] = hu[i]
      /\ \A j \in Len(ops) + 1..Len(hu') :
           j - Len(ops) + 1 \in 2..Len(hu) /\ hu'[j] = hu[j - Len(ops) + 1]
  BY <1>0, CallElements
<1>2. Pushed \subseteq GoneAt'
  BY <1>1 DEF GoneAt
<1>3. Moved \subseteq GoneAt'
  <2> SUFFICES ASSUME NEW i \in GoneAt \ {1} PROVE i + Len(ops) - 1 \in GoneAt'
    OBVIOUS
  <2>1. i \in 2..Len(hu) /\ hu[i] = "gone"
    BY <1>0 DEF GoneAt
  <2>2. i + Len(ops) - 1 = Len(ops) + i - 1
    BY <1>0, <2>1
  <2> QED
    BY <1>1, <2>1, <2>2 DEF GoneAt
<1>4. GoneAt' \subseteq Pushed \cup Moved
  <2> SUFFICES ASSUME NEW j \in GoneAt', j \notin Pushed PROVE j \in Moved
    OBVIOUS
  <2>1. j \in 1..Len(hu') /\ hu'[j] = "gone"
    BY DEF GoneAt
  <2>2. j \notin 1..Len(ops)
    BY <1>1, <2>1
  <2>3. j \in Len(ops) + 1..Len(hu')
    BY <1>0, <1>1, <2>1, <2>2
  <2>4. j - Len(ops) + 1 \in 2..Len(hu) /\ hu[j - Len(ops) + 1] = "gone"
    BY <1>1, <2>1, <2>3
  <2>5. j - Len(ops) + 1 \in GoneAt \ {1}
    BY <1>0, <2>4 DEF GoneAt
  <2>6. (j - Len(ops) + 1) + Len(ops) - 1 = j
    BY <1>0, <2>3
  <2> QED
    BY <2>5, <2>6
<1> QED
  BY <1>2, <1>3, <1>4

(* The programs the other operations call hold no stop() that waits. *)
LEMMA QuietPrograms ==
    /\ \A ops \in AppPrograms \cup ReceivePrograms \cup EofPrograms :
         \A i \in 1..Len(ops) : ops[i] # "gone"
    /\ \A i \in 1..Len(ByeProgram) : ByeProgram[i] # "gone"
    /\ \A i \in 1..Len(<<>>) : <<>>[i] # "gone"
    /\ \A i \in 1..Len(<<"stop">>) : <<"stop">>[i] # "gone"
    /\ \A i \in 1..Len(<<"stop", "stop">>) : <<"stop", "stop">>[i] # "gone"
<1>1. \A ops \in AppPrograms : \A i \in 1..Len(ops) : ops[i] # "gone"
  <2> SUFFICES ASSUME NEW ops \in AppPrograms, NEW i \in 1..Len(ops)
               PROVE  ops[i] # "gone"
    OBVIOUS
  <2>1. PICK n \in 0..MaxCallbackOps : ops \in [1..n -> {"write", "stop", "post"}]
    BY DEF AppPrograms
  <2>2. ops \in Seq({"write", "stop", "post"})
    BY <2>1
  <2> QED
    BY <2>2
<1>2. \A ops \in ReceivePrograms : \A i \in 1..Len(ops) : ops[i] # "gone"
  <2> SUFFICES ASSUME NEW ops \in ReceivePrograms, NEW i \in 1..Len(ops)
               PROVE  ops[i] # "gone"
    OBVIOUS
  <2>1. PICK callback \in AppPrograms, handler \in HandlerPrograms :
          ops = callback \o handler
    BY DEF ReceivePrograms
  <2>2. callback \in Seq(Ops) /\ \A k \in 1..Len(callback) : callback[k] # "gone"
    BY <1>1, ProgramTypes
  <2>3. handler \in Seq({"write", "stop"})
    <3>1. \A a \in {"write", "stop"} : <<a>> \in Seq({"write", "stop"})
      OBVIOUS
    <3>2. \A a, b \in {"write", "stop"} : <<a, b>> \in Seq({"write", "stop"})
      OBVIOUS
    <3>3. \A a, b, c \in {"write", "stop"} : <<a, b, c>> \in Seq({"write", "stop"})
      OBVIOUS
    <3>4. <<>> \in Seq({"write", "stop"})
      OBVIOUS
    <3> QED
      BY <3>1, <3>2, <3>3, <3>4 DEF HandlerPrograms
  <2>4. \A k \in 1..Len(handler) : handler[k] # "gone"
    BY <2>3
  <2>5. /\ Len(ops) = Len(callback) + Len(handler)
        /\ i <= Len(callback) => ops[i] = callback[i]
        /\ i > Len(callback) => ops[i] = handler[i - Len(callback)]
    BY <2>1, <2>2, <2>3
  <2>6. /\ i <= Len(callback) => i \in 1..Len(callback)
        /\ i > Len(callback) => i - Len(callback) \in 1..Len(handler)
    BY <2>2, <2>3, <2>5
  <2> QED
    BY <2>2, <2>3, <2>4, <2>5, <2>6
<1>3. \A ops \in EofPrograms : \A i \in 1..Len(ops) : ops[i] # "gone"
  BY DEF EofPrograms
<1>4. \A i \in 1..Len(ByeProgram) : ByeProgram[i] # "gone"
  BY DEF ByeProgram
<1> QED
  BY <1>1, <1>2, <1>3, <1>4

(* Steps that leave the stack alone. *)
LEMMA StackKept ==
    ASSUME StackInv, hu' = hu, failures' = failures, fate' = "overflow" => fate = "overflow"
    PROVE  StackInv'
<1>1. PICK depth \in 0..failures + 1 : StackOf(depth)
  BY DEF StackInv
<1>2. StackOf(depth)'
  BY <1>1 DEF StackOf, GoneAt
<1> QED
  BY <1>1, <1>2 DEF StackInv

(* A command, a message or a post runs only when no stop() is waiting. *)
LEMMA QuietCall ==
    ASSUME TypeOK, StackInv, hu # <<>>, Head(hu) \in {"pop", "recv", "post"},
           failures' = failures, fate' = fate,
           \E ops \in Seq(Ops) : Call(ops) /\ \A i \in 1..Len(ops) : ops[i] # "gone"
    PROVE  StackInv'
<1>1. PICK depth \in 0..failures + 1 : StackOf(depth)
  BY DEF StackInv
<1>2. depth = 0
  BY <1>1, HeadFirst DEF StackOf, TypeOK
<1>3. GoneAt = {}
  <2>1. PICK first \in {1, 2} : GoneAt = first..first + 0 - 1
    BY <1>1, <1>2 DEF StackOf
  <2> QED
    BY <2>1
<1>4. PICK ops \in Seq(Ops) : Call(ops) /\ \A i \in 1..Len(ops) : ops[i] # "gone"
  OBVIOUS
<1>5. GoneAt' = {}
  BY <1>3, <1>4, GoneShift
<1>6. failures' \in Nat
  BY DEF TypeOK
<1> QED
  BY <1>5, <1>6, NoneGone DEF StackInv

(* stop() sends its message: one more stop() waits. *)
LEMMA StopEnters ==
    ASSUME TypeOK, StackInv, hu # <<>>, hu[1] = "stop", Call(<<"write", "gone">>),
           failures' = failures,
           fate' = IF StopDepth >= StackLimit THEN "overflow" ELSE fate
    PROVE  StackInv'
<1> DEFINE ops == <<"write", "gone">>
<1>0. ops \in Seq(Ops) /\ failures \in Nat
  BY ProgramTypes DEF TypeOK
<1>1. PICK depth \in 0..failures + 1 : StackOf(depth)
  BY DEF StackInv
<1>2. depth <= failures
  BY <1>1 DEF StackOf
<1>3. PICK first \in {1, 2} : GoneAt = first..first + depth - 1
  BY <1>1 DEF StackOf
<1>4. GoneAt \ {1} = 2..depth + 1
  <2>1. 1 \notin GoneAt
    BY DEF GoneAt
  <2>2. CASE depth = 0
    BY <1>3, <2>2
  <2>3. CASE depth > 0
    <3>1. first = 2
      BY <1>3, <2>1, <2>3
    <3> QED
      BY <1>3, <3>1
  <2> QED
    BY <1>0, <2>2, <2>3
<1>5. {i \in 1..Len(ops) : ops[i] = "gone"} = {2}
  OBVIOUS
<1>6. {i + Len(ops) - 1 : i \in GoneAt \ {1}} = 3..depth + 2
  <2>1. Len(ops) = 2
    OBVIOUS
  <2>2. {i + 2 - 1 : i \in 2..depth + 1} = 3..depth + 2
    <3>1. \A j \in 3..depth + 2 : j - 1 \in 2..depth + 1 /\ j = (j - 1) + 2 - 1
      BY <1>0
    <3>2. \A i \in 2..depth + 1 : i + 2 - 1 \in 3..depth + 2
      BY <1>0
    <3> QED
      BY <3>1, <3>2
  <2> QED
    BY <1>4, <2>1, <2>2
<1>7. GoneAt' = 2..2 + (depth + 1) - 1
  <2>1. GoneAt' = {2} \cup 3..depth + 2
    BY <1>0, <1>5, <1>6, GoneShift
  <2>2. {2} \cup 3..depth + 2 = 2..2 + (depth + 1) - 1
    BY <1>0
  <2> QED
    BY <2>1, <2>2
<1>8. hu' # <<>> /\ hu'[1] = "write"
  <2>1. 1 \in 1..Len(ops) /\ ops[1] = "write"
    OBVIOUS
  <2>2. 1 \in 1..Len(hu') /\ hu'[1] = "write"
    BY <1>0, <2>1, CallElements DEF TypeOK
  <2> QED
    BY <2>2
<1>9. StackOf(depth + 1)'
  BY <1>7, <1>8 DEF StackOf
<1>10. depth + 1 \in 0..failures' + 1
  BY <1>0, <1>2
<1>11. fate' = "overflow" => failures' >= StackLimit
  <2>1. StopDepth = depth
    BY <1>0, <1>1, DepthOf
  <2> QED
    BY <1>0, <1>2, <2>1 DEF StackInv
<1> QED
  BY <1>9, <1>10, <1>11 DEF StackInv

(* A send that fails calls stop(): one failure more, and the same depth. *)
LEMMA WriteStops ==
    ASSUME TypeOK, StackInv, hu # <<>>, hu[1] = "write", Call(<<"stop">>),
           failures' = failures + 1, fate' = fate
    PROVE  StackInv'
<1> DEFINE ops == <<"stop">>
<1>0. ops \in Seq(Ops) /\ failures \in Nat
  BY ProgramTypes DEF TypeOK
<1>1. PICK depth \in 0..failures + 1 : StackOf(depth)
  BY DEF StackInv
<1>2. PICK first \in {1, 2} : GoneAt = first..first + depth - 1
  BY <1>1 DEF StackOf
<1>3. {i \in 1..Len(ops) : ops[i] = "gone"} = {}
  OBVIOUS
<1>4. {i + Len(ops) - 1 : i \in GoneAt \ {1}} = GoneAt
  <2>1. 1 \notin GoneAt /\ Len(ops) = 1
    BY DEF GoneAt
  <2>2. \A i \in GoneAt : i + 1 - 1 = i
    BY DEF GoneAt
  <2> QED
    BY <2>1, <2>2
<1>5. GoneAt' = GoneAt
  BY <1>0, <1>3, <1>4, GoneShift
<1>6. hu' # <<>> /\ hu'[1] = "stop"
  <2>1. 1 \in 1..Len(ops) /\ ops[1] = "stop"
    OBVIOUS
  <2>2. 1 \in 1..Len(hu') /\ hu'[1] = "stop"
    BY <1>0, <2>1, CallElements DEF TypeOK
  <2> QED
    BY <2>2
<1>7. StackOf(depth)'
  BY <1>0, <1>2, <1>5, <1>6 DEF StackOf
<1>8. fate' = "overflow" => failures' >= StackLimit
  BY <1>0 DEF StackInv
<1> QED
  BY <1>0, <1>7, <1>8 DEF StackInv

(* A send that succeeds returns to the stop() below it, if there is one. *)
LEMMA WriteReturns ==
    ASSUME TypeOK, StackInv, hu # <<>>, hu[1] = "write", Call(<<>>),
           failures' = failures, fate' = fate
    PROVE  StackInv'
<1> DEFINE ops == <<>>
<1>0. ops \in Seq(Ops) /\ failures \in Nat /\ hu \in Seq(Ops)
  BY ProgramTypes DEF TypeOK
<1>1. PICK depth \in 0..failures + 1 : StackOf(depth)
  BY DEF StackInv
<1>2. PICK first \in {1, 2} : GoneAt = first..first + depth - 1
  BY <1>1 DEF StackOf
<1>3. GoneAt' = {i - 1 : i \in GoneAt}
  <2>1. {i \in 1..Len(ops) : ops[i] = "gone"} = {}
    OBVIOUS
  <2>2. 1 \notin GoneAt /\ Len(ops) = 0
    BY DEF GoneAt
  <2>3. GoneAt' = {i + Len(ops) - 1 : i \in GoneAt \ {1}}
    BY <1>0, <2>1, GoneShift
  <2>4. GoneAt \ {1} = GoneAt
    BY <2>2
  <2>5. \A i \in GoneAt : i + Len(ops) - 1 = i - 1
    BY <2>2 DEF GoneAt
  <2> QED
    BY <2>3, <2>4, <2>5
<1>4. CASE depth = 0
  <2>1. GoneAt' = {}
    BY <1>2, <1>3, <1>4
  <2> QED
    BY <1>0, <2>1, NoneGone DEF StackInv
<1>5. CASE depth > 0
  <2>1. first = 2
    <3>1. 1 \notin GoneAt
      BY DEF GoneAt
    <3> QED
      BY <1>2, <1>5, <3>1
  <2>2. GoneAt' = 1..1 + depth - 1
    <3>1. \A j \in 1..depth : j + 1 \in 2..2 + depth - 1 /\ j = (j + 1) - 1
      BY <1>0
    <3>2. \A i \in 2..2 + depth - 1 : i - 1 \in 1..depth
      BY <1>0
    <3>3. 1 + depth - 1 = depth
      BY <1>0
    <3> QED
      BY <1>2, <1>3, <2>1, <3>1, <3>2, <3>3
  <2>3. 1 \in GoneAt'
    BY <1>5, <2>2
  <2>4. hu' # <<>> /\ hu'[1] = "gone"
    BY <2>3 DEF GoneAt
  <2>5. StackOf(depth)'
    BY <2>2, <2>4 DEF StackOf
  <2> QED
    BY <1>0, <2>5 DEF StackInv
<1> QED
  BY <1>0, <1>4, <1>5

(* A stop() whose message was sent returns. *)
LEMMA GoneReturns ==
    ASSUME TypeOK, StackInv, hu # <<>>, hu[1] = "gone", Call(<<>>),
           failures' = failures, fate' = fate
    PROVE  StackInv'
<1> DEFINE ops == <<>>
<1>0. ops \in Seq(Ops) /\ failures \in Nat /\ hu \in Seq(Ops)
  BY ProgramTypes DEF TypeOK
<1>1. PICK depth \in 0..failures + 1 : StackOf(depth)
  BY DEF StackInv
<1>2. PICK first \in {1, 2} : GoneAt = first..first + depth - 1
  BY <1>1 DEF StackOf
<1>3. 1 \in GoneAt
  BY <1>0, HeadFirst DEF GoneAt
<1>4. first = 1 /\ depth > 0
  BY <1>2, <1>3
<1>5. GoneAt' = 1..1 + (depth - 1) - 1
  <2>1. {i \in 1..Len(ops) : ops[i] = "gone"} = {}
    OBVIOUS
  <2>2. GoneAt \ {1} = 2..depth /\ Len(ops) = 0
    BY <1>0, <1>2, <1>4
  <2>3. GoneAt' = {i + Len(ops) - 1 : i \in 2..depth}
    BY <1>0, <2>1, <2>2, GoneShift
  <2>4. \A j \in 1..1 + (depth - 1) - 1 :
          j + 1 \in 2..depth /\ j = (j + 1) + Len(ops) - 1
    BY <1>0, <1>4, <2>2
  <2>5. \A i \in 2..depth : i + Len(ops) - 1 \in 1..1 + (depth - 1) - 1
    BY <1>0, <1>4, <2>2
  <2> QED
    BY <2>3, <2>4, <2>5
<1>6. CASE depth = 1
  <2>1. GoneAt' = {}
    BY <1>5, <1>6
  <2> QED
    BY <1>0, <2>1, NoneGone DEF StackInv
<1>7. CASE depth > 1
  <2>1. 1 \in GoneAt'
    BY <1>5, <1>7
  <2>2. hu' # <<>> /\ hu'[1] = "gone"
    BY <2>1 DEF GoneAt
  <2>3. StackOf(depth - 1)'
    BY <1>5, <2>2 DEF StackOf
  <2>4. depth - 1 \in 0..failures' + 1
    BY <1>0, <1>7
  <2> QED
    BY <2>3, <2>4 DEF StackInv
<1> QED
  BY <1>0, <1>4, <1>6, <1>7
-----------------------------------------------------------------------------
(* A step that leaves the stack and the count of failures alone. *)
Quiet == UNCHANGED <<hu, failures>> /\ (fate' = "overflow" => fate = "overflow")

(* The steps that touch either; no other step does. *)
LEMMA StackMoves ==
    ASSUME [Next]_vars
    PROVE  \/ Quiet
           \/ Spawn \/ HuSelectError \/ HuSelectCommand \/ HuSelectData
           \/ HuPop \/ HuReceive \/ HuWrite \/ HuWriteFails \/ HuStop
           \/ HuGone \/ HuPost
<1> USE DEF Quiet
<1>1. Start => Quiet
  BY DEF Start
<1>2. OpenTransport => Quiet
  BY DEF OpenTransport
<1>3. OpenTransportFails => Quiet
  BY DEF OpenTransportFails
<1>4. SendVersion => Quiet
  BY DEF SendVersion
<1>5. SendVersionFails => Quiet
  BY DEF SendVersionFails
<1>6. HandshakeCompletes => Quiet
  BY DEF HandshakeCompletes
<1>7. HandshakeFails => Quiet
  BY DEF HandshakeFails
<1>8. CreatePipe => Quiet
  BY DEF CreatePipe
<1>9. CreatePipeFails => Quiet
  BY DEF CreatePipeFails
<1>10. Shutdown => Quiet
  BY DEF Shutdown
<1>11. QueueBye => Quiet
  BY DEF QueueBye
<1>12. NothingToJoin => Quiet
  BY DEF NothingToJoin
<1>13. Join => Quiet
  BY DEF Join
<1>14. Release => Quiet
  BY DEF Release
<1>15. StopTransport => Quiet
  BY DEF StopTransport
<1>16. HuExit => Quiet
  BY DEF HuExit
<1>17. HuSelectFails => Quiet
  BY DEF HuSelectFails
<1>18. LinkGoesDown => Quiet
  BY DEF LinkGoesDown
<1>19. LinkSignals => Quiet
  BY DEF LinkSignals
<1>20. \A c \in Callers : CallQueueCommand(c) => Quiet
  BY DEF CallQueueCommand
<1>21. \A c \in Callers : WriteCommand(c) => Quiet
  BY DEF WriteCommand
<1>22. \A c \in Callers : WriteClosed(c) => Quiet
  BY DEF WriteClosed
<1>23. UNCHANGED vars => Quiet
  BY DEF vars
<1>24. HandshakeStarves => Quiet
  BY DEF HandshakeStarves
<1>25. HandshakeStopped => Quiet
  BY DEF HandshakeStopped
<1>26. SpawnStopped => Quiet
  BY DEF SpawnStopped
<1>27. QueueByeFails => Quiet
  BY DEF QueueByeFails
<1> HIDE DEF Quiet
<1> QED
  BY <1>1, <1>2, <1>3, <1>4, <1>5, <1>6, <1>7, <1>8, <1>9, <1>10, <1>11,
     <1>12, <1>13, <1>14, <1>15, <1>16, <1>17, <1>18, <1>19, <1>20, <1>21,
     <1>22, <1>23, <1>24, <1>25, <1>26, <1>27
     DEF Next, MainStep, HuStep, Environment, CallerStep

(* Every step keeps the run of places and its bound. *)
LEMMA StackStep ==
    ASSUME TypeOK, HuThreadOwnsSession, StackInv, [Next]_vars, fate = "running"
    PROVE  StackInv'
<1> USE DEF TypeOK
<1>1. CASE Quiet
  BY <1>1, StackKept DEF Quiet
<1>2. CASE Spawn
  <2>1. failures' \in Nat /\ fate' # "overflow"
        /\ hu' = <<>>
    BY <1>2 DEF Spawn
  <2>2. GoneAt' = {}
    BY <2>1 DEF GoneAt
  <2> QED
    BY <2>1, <2>2, NoneGone DEF StackInv
<1>3. CASE HuSelectError
  <2>1. hu' = hu /\ failures' = failures /\ fate' = fate
    BY <1>3 DEF HuSelectError, Looping
  <2> QED
    BY <2>1, StackKept
<1>4. CASE HuSelectCommand
  <2>1. failures' \in Nat /\ fate' # "overflow"
        /\ hu' \in {<<"pop">>, <<"pop", "recv">>}
    BY <1>4 DEF HuSelectCommand
  <2>2. GoneAt' = {}
    BY <2>1 DEF GoneAt
  <2> QED
    BY <2>1, <2>2, NoneGone DEF StackInv
<1>5. CASE HuSelectData
  <2>1. failures' \in Nat /\ fate' # "overflow"
        /\ hu' = <<"recv">>
    BY <1>5 DEF HuSelectData
  <2>2. GoneAt' = {}
    BY <2>1 DEF GoneAt
  <2> QED
    BY <2>1, <2>2, NoneGone DEF StackInv
<1>6. CASE HuPop
  <2>1. hu # <<>> /\ Head(hu) = "pop" /\ failures' = failures /\ fate' = fate
    BY <1>6 DEF HuPop, At
  <2>2. \E ops \in Seq(Ops) : Call(ops) /\ \A i \in 1..Len(ops) : ops[i] # "gone"
    BY <1>6, ProgramTypes, QuietPrograms DEF HuPop
  <2> QED
    BY <2>1, <2>2, QuietCall
<1>7. CASE HuReceive
  <2>1. hu # <<>> /\ Head(hu) = "recv" /\ failures' = failures /\ fate' = fate
    BY <1>7 DEF HuReceive, At
  <2>2. \E ops \in Seq(Ops) : Call(ops) /\ \A i \in 1..Len(ops) : ops[i] # "gone"
    BY <1>7, ProgramTypes, QuietPrograms DEF HuReceive
  <2> QED
    BY <2>1, <2>2, QuietCall
<1>8. CASE HuWrite
  <2>1. hu # <<>> /\ hu[1] = "write" /\ Call(<<>>) /\ failures' = failures
        /\ fate' = fate
    BY <1>8, HeadFirst DEF HuWrite, At
  <2> QED
    BY <2>1, WriteReturns
<1>9. CASE HuWriteFails
  <2>1. hu # <<>> /\ hu[1] = "write" /\ Call(<<"stop">>) /\ failures' = failures + 1
        /\ fate' = fate
    BY <1>9, HeadFirst DEF HuWriteFails, At
  <2> QED
    BY <2>1, WriteStops
<1>10. CASE HuStop
  <2>1. hu # <<>> /\ hu[1] = "stop" /\ Call(<<"write", "gone">>)
        /\ failures' = failures
    BY <1>10, HeadFirst DEF HuStop, At, HuThreadOwnsSession
  <2>2. fate' = IF StopDepth >= StackLimit THEN "overflow" ELSE fate
    BY <1>10 DEF HuStop
  <2> QED
    BY <2>1, <2>2, StopEnters
<1>11. CASE HuGone
  <2>1. hu # <<>> /\ hu[1] = "gone" /\ Call(<<>>) /\ failures' = failures
        /\ fate' = fate
    BY <1>11, HeadFirst DEF HuGone, At
  <2> QED
    BY <2>1, GoneReturns
<1>12. CASE HuPost
  <2>1. hu # <<>> /\ Head(hu) = "post" /\ failures' = failures /\ fate' = fate
    BY <1>12 DEF HuPost, At
  <2>2. \E ops \in Seq(Ops) : Call(ops) /\ \A i \in 1..Len(ops) : ops[i] # "gone"
    BY <1>12, ProgramTypes, QuietPrograms DEF HuPost
  <2> QED
    BY <2>1, <2>2, QuietCall
<1> QED
  BY <1>1, <1>2, <1>3, <1>4, <1>5, <1>6, <1>7, <1>8, <1>9, <1>10, <1>11,
     <1>12, StackMoves

(* However many writes fail, the calls of stop() in progress are at most   *)
(* one more than the failures of the session, and the stack is exhausted   *)
(* only by as many failures as it has room for nested calls.               *)
THEOREM StackStaysBounded == Spec => []StackBounded
<1> DEFINE Inv == LifecycleInv /\ StackInv
<1>1. Init => Inv
  <2> SUFFICES ASSUME Init PROVE StackInv
    BY LifecycleInit
  <2>1. GoneAt = {}
    BY DEF Init, GoneAt
  <2>2. StackOf(0)
    <3>1. 1..1 + 0 - 1 = {}
      OBVIOUS
    <3> QED
      BY <2>1, <3>1 DEF StackOf, Init
  <2> QED
    BY <2>2 DEF Init, StackInv
<1>2. Inv /\ [Next]_vars => Inv'
  <2> SUFFICES ASSUME LifecycleInv, StackInv, [Next]_vars PROVE StackInv'
    BY LifecycleStep
  <2>1. CASE UNCHANGED vars
    BY <2>1, StackKept DEF vars
  <2>2. CASE Next
    <3>1. fate = "running"
      BY <2>2 DEF Next
    <3> QED
      BY <2>2, <3>1, StackStep DEF LifecycleInv
  <2> QED
    BY <2>1, <2>2
<1>3. Inv => StackBounded
  BY StackInvBounds DEF LifecycleInv
<1> HIDE DEF Inv
<1> QED
  BY <1>1, <1>2, <1>3, PTL DEF Spec
=============================================================================
