-------------------- MODULE HeadunitBluetoothServerProofs --------------------
(***************************************************************************)
(* Proofs about HeadunitBluetoothServer, for any set of phones and any     *)
(* number of messages.                                                     *)
(***************************************************************************)
EXTENDS HeadunitBluetoothServer, TLAPS

(* A message counts as one request of type r or as none. *)
Is(type, r) == IF type = r THEN 1 ELSE 0

(* Of the messages in w, left[i] bounds how many from the i-th on are      *)
(* requests of type r: each such request separates the bounds around it.   *)
Ahead(left, w, r) ==
    /\ left \in [1..Len(w) + 1 -> Nat]
    /\ \A i, j \in 1..Len(w) + 1 :
         i < j => left[j] + Is(w[i], r) <= left[i]

(* The requests on their way can still be answered: with the answers given *)
(* they are no more than the phone asked.                                  *)
Answerable(p, r) ==
    \E left : Ahead(left, wire[p], r) /\ answered[p][r] + left[1] <= asked[p][r]

(* A phone none of whose messages was torn apart can be answered all it    *)
(* asked and no more.                                                      *)
AskedInv ==
    \A p \in Phones : ~garbled[p] => ~torn[p] /\ \A r \in Requests : Answerable(p, r)

(* A phone without a connection has nothing under way. *)
OffInv ==
    \A p \in Phones : conn[p] # "on" =>
        /\ greeted[p] = 0
        /\ wire[p] = <<>>
        /\ \A r \in Requests : answered[p][r] = 0

(* The inductive invariant: AnswersMatch says nothing of the requests that *)
(* still wait on the wire, whose answers will count.                       *)
BluetoothInv == TypeOK /\ OffInv /\ AskedInv

-----------------------------------------------------------------------------
(* A message sent is the last. *)
LEMMA AheadAppend ==
    ASSUME NEW w \in Seq(Messages), NEW r, NEW left, Ahead(left, w, r),
           NEW type \in Messages
    PROVE  \E more : /\ Ahead(more, Append(w, type), r)
                     /\ more[1] = left[1] + Is(type, r)
<1> DEFINE n    == Len(w)
           one  == Is(type, r)
           more == [i \in 1..n + 2 |-> IF i <= n + 1 THEN left[i] + one ELSE 0]
<1>1. n \in Nat /\ one \in {0, 1}
  BY DEF Is
<1>2. /\ left \in [1..n + 1 -> Nat]
      /\ \A i, j \in 1..n + 1 :
           i < j => left[j] + Is(w[i], r) <= left[i]
  BY DEF Ahead
<1>3. /\ Len(Append(w, type)) = n + 1
      /\ \A i \in 1..n : Append(w, type)[i] = w[i]
      /\ Append(w, type)[n + 1] = type
  OBVIOUS
<1> HIDE DEF n, one
<1>4. more \in [1..n + 1 + 1 -> Nat]
  BY <1>1, <1>2
<1>5. ASSUME NEW i \in 1..n + 1 + 1, NEW j \in 1..n + 1 + 1, i < j
      PROVE  more[j] + Is(Append(w, type)[i], r) <= more[i]
  <2>1. CASE j <= n + 1
    <3>1. i \in 1..n /\ i \in 1..n + 1 /\ j \in 1..n + 1
      BY <1>1, <1>5, <2>1
    <3>2. left[j] + Is(w[i], r) <= left[i]
      BY <1>2, <1>5, <3>1
    <3>3. more[i] = left[i] + one /\ more[j] = left[j] + one
      BY <1>1, <3>1
    <3>4. left[i] \in Nat /\ left[j] \in Nat
      BY <1>2, <3>1
    <3> HIDE DEF more
    <3> QED
      BY <1>1, <1>3, <3>1, <3>2, <3>3, <3>4 DEF Is
  <2>2. CASE j = n + 2 /\ i <= n
    <3>1. i \in 1..n /\ i \in 1..n + 1 /\ n + 1 \in 1..n + 1 /\ i < n + 1
      BY <1>1, <2>2
    <3>2. left[n + 1] + Is(w[i], r) <= left[i]
      BY <1>2, <3>1
    <3>3. more[i] = left[i] + one /\ more[j] = 0
      BY <1>1, <2>2, <3>1
    <3>4. left[i] \in Nat /\ left[n + 1] \in Nat
      BY <1>2, <3>1
    <3> HIDE DEF more
    <3> QED
      BY <1>1, <1>3, <3>1, <3>2, <3>3, <3>4 DEF Is
  <2>3. CASE j = n + 2 /\ i = n + 1
    <3>1. more[i] = left[n + 1] + one /\ more[j] = 0
      BY <1>1, <2>3
    <3>2. left[n + 1] \in Nat
      BY <1>1, <1>2
    <3>3. Append(w, type)[i] = type
      BY <1>3, <2>3
    <3>4. Is(Append(w, type)[i], r) = one
      BY <3>3 DEF one
    <3> HIDE DEF more
    <3>5. more[j] + one <= more[i]
      BY <1>1, <3>1, <3>2
    <3> QED
      BY <3>4, <3>5
  <2>4. j <= n + 1 \/ (j = n + 2 /\ i <= n) \/ (j = n + 2 /\ i = n + 1)
    <3> HIDE DEF more
    <3>1. i \in Nat /\ j \in Nat /\ i < j /\ j <= n + 2
      BY <1>1, <1>5
    <3> QED
      BY <1>1, <3>1
  <2> QED
    BY <2>1, <2>2, <2>3, <2>4, Zenon
<1>6. more[1] = left[1] + one
  BY <1>1
<1> HIDE DEF more
<1>7. Ahead(more, Append(w, type), r)
  BY <1>3, <1>4, <1>5 DEF Ahead
<1> QED
  BY <1>6, <1>7 DEF one

(* Messages read are the first. *)
LEMMA AheadRead ==
    ASSUME NEW w \in Seq(Messages), NEW r, NEW left, Ahead(left, w, r),
           NEW n \in 1..Len(w)
    PROVE  \E rest : /\ Ahead(rest, SubSeq(w, n + 1, Len(w)), r)
                     /\ rest[1] + Is(w[1], r) <= left[1]
<1> DEFINE m    == Len(w) - n
           s    == SubSeq(w, n + 1, Len(w))
           rest == [i \in 1..m + 1 |-> left[i + n]]
<1>1. Len(w) \in Nat /\ m \in Nat /\ n \in Nat /\ m + n = Len(w)
  OBVIOUS
<1>2. /\ left \in [1..Len(w) + 1 -> Nat]
      /\ \A i, j \in 1..Len(w) + 1 :
           i < j => left[j] + Is(w[i], r) <= left[i]
  BY DEF Ahead
<1>3. Len(s) = m /\ \A i \in 1..m : s[i] = w[i + n]
  OBVIOUS
<1> HIDE DEF m, s
<1>4. \A i \in 1..m + 1 : i + n \in 1..Len(w) + 1
  BY <1>1
<1>5. rest \in [1..m + 1 -> Nat]
  BY <1>2, <1>4
<1>6. ASSUME NEW i \in 1..m + 1, NEW j \in 1..m + 1, i < j
      PROVE  rest[j] + Is(s[i], r) <= rest[i]
  <2>1. i + n < j + n /\ i \in 1..m
    BY <1>1, <1>6
  <2>2. left[j + n] + Is(w[i + n], r) <= left[i + n]
    BY <1>2, <1>4, <2>1
  <2>3. rest[i] = left[i + n] /\ rest[j] = left[j + n] /\ s[i] = w[i + n]
    BY <1>3, <2>1
  <2> HIDE DEF rest
  <2> QED
    BY <2>2, <2>3
<1>7. rest[1] + Is(w[1], r) <= left[1]
  <2>1. rest[1] = left[1 + n] /\ 1 \in 1..Len(w) + 1 /\ 1 + n \in 1..Len(w) + 1
    BY <1>1
  <2>2. left[1] \in Nat /\ left[1 + n] \in Nat
    BY <1>2, <2>1
  <2> HIDE DEF rest
  <2>3. left[1 + n] + Is(w[1], r) <= left[1]
    <3>1. 1 < 1 + n
      BY <1>1
    <3> QED
      BY <1>2, <2>1, <3>1
  <2> QED
    BY <2>1, <2>3
<1> HIDE DEF rest
<1>8. Ahead(rest, s, r)
  BY <1>3, <1>5, <1>6 DEF Ahead
<1> QED
  BY <1>7, <1>8 DEF s

(* Of no messages none are requests. *)
LEMMA AheadNone == ASSUME NEW r PROVE \E left : Ahead(left, <<>>, r) /\ left[1] = 0
<1> DEFINE w    == <<>>
           left == [i \in 1..1 |-> 0]
<1>1. Len(w) = 0
  OBVIOUS
<1>2. Ahead(left, w, r) /\ left[1] = 0
  BY <1>1 DEF Ahead
<1> QED
  BY <1>2

-----------------------------------------------------------------------------
(* The types *)

(* An answer, and what it does to the wait of a patient phone. *)
LEMMA HandleType ==
    ASSUME TypeOK, NEW p \in Phones, NEW type \in Messages, Handle(p, type)
    PROVE  /\ answered' \in [Phones -> [Requests -> Nat]]
           /\ waiting' \in [Phones -> {0, 1, 2}]
<1>1. waiting' \in [Phones -> {0, 1, 2}]
  BY DEF TypeOK, Handle
<1>2. CASE type \in Requests
  <2>1. answered' = [answered EXCEPT ![p][type] = answered[p][type] + 1]
    BY <1>2 DEF Handle
  <2>2. answered[p][type] + 1 \in Nat
    BY <1>2 DEF TypeOK
  <2>3. answered' \in [Phones -> [Requests -> Nat]]
    BY <1>2, <2>1, <2>2 DEF TypeOK
  <2> QED
    BY <1>1, <2>3
<1>3. CASE type \notin Requests
  BY <1>1, <1>3 DEF TypeOK, Handle
<1> QED
  BY <1>2, <1>3

(* The types, and what a phone without a connection has under way. *)
LEMMA TypeStep ==
    ASSUME TypeOK, OffInv, [Next]_vars PROVE TypeOK' /\ OffInv'
<1> DEFINE Goal == TypeOK' /\ OffInv'
<1> SUFFICES Goal
  OBVIOUS
<1> USE DEF TypeOK, OffInv, vars, phoneVars
<1>1. CASE StartServer
  BY <1>1 DEF StartServer
<1>2. ASSUME NEW p \in Phones, OnClientConnected(p) PROVE Goal
  BY <1>2 DEF OnClientConnected
<1>3. ASSUME NEW p \in Phones, OnNullConnected(p) PROVE Goal
  BY <1>3 DEF OnNullConnected
<1>4. ASSUME NEW p \in Phones, ReadSocket(p) PROVE Goal
  <2>1. PICK n \in 0..Len(wire[p]), part \in BOOLEAN :
          /\ wire' = [wire EXCEPT ![p] = SubSeq(@, n + 1, Len(@))]
          /\ torn' = [torn EXCEPT ![p] = part]
          /\ garbled' = [garbled EXCEPT ![p] = @ \/ part]
          /\ n > 0 \/ (torn[p] /\ ~part)
          /\ IF m_socket = p
             THEN \E type \in Types(p, n, part) : Handle(p, type)
             ELSE UNCHANGED <<answered, waiting>>
    BY <1>4, Zenon DEF ReadSocket
  <2>2. wire[p] \in Seq(Messages)
    OBVIOUS
  <2>3. SubSeq(wire[p], n + 1, Len(wire[p])) \in Seq(Messages)
    BY <2>2
  <2>4. wire' \in [Phones -> Seq(Messages)]
    BY <2>1, <2>3
  <2>5. torn' \in [Phones -> BOOLEAN]
    BY <2>1, Zenon
  <2>6. garbled' \in [Phones -> BOOLEAN]
    BY <2>1, Zenon
  <2>7. Types(p, n, part) \subseteq Messages
    <3>1. CASE torn[p]
      BY <3>1 DEF Types
    <3>2. CASE ~torn[p]
      <4>1. n > 0 /\ wire[p] # <<>>
        BY <2>1, <2>2, <3>2
      <4>2. Head(wire[p]) \in Messages
        BY <2>2, <4>1
      <4> QED
        BY <3>2, <4>2 DEF Types, Messages
    <3> QED
      BY <3>1, <3>2
  <2>8. /\ answered' \in [Phones -> [Requests -> Nat]]
        /\ waiting' \in [Phones -> {0, 1, 2}]
    BY <2>1, <2>7, HandleType
  <2>9. UNCHANGED <<listening, m_socket, conn, greeted, asked>>
    BY <1>4 DEF ReadSocket
  <2>10. TypeOK'
    BY <2>4, <2>5, <2>6, <2>8, <2>9
  <2>11. \A q \in Phones : q # p => wire'[q] = wire[q] /\ answered'[q] = answered[q]
    <3>1. \A q \in Phones : q # p => wire'[q] = wire[q]
      BY <2>1
    <3>2. \A q \in Phones : q # p => answered'[q] = answered[q]
      BY <2>1 DEF Handle
    <3> QED
      BY <3>1, <3>2
  <2>12. conn[p] = "on"
    BY <1>4 DEF ReadSocket
  <2>13. OffInv'
    <3> SUFFICES ASSUME NEW q \in Phones, conn'[q] # "on"
                 PROVE  /\ greeted'[q] = 0
                        /\ wire'[q] = <<>>
                        /\ \A r \in Requests : answered'[q][r] = 0
      OBVIOUS
    <3>1. q # p /\ conn[q] # "on" /\ greeted'[q] = greeted[q]
      BY <2>9, <2>12
    <3> QED
      BY <2>11, <3>1
  <2> QED
    BY <2>10, <2>13
<1>5. ASSUME NEW p \in Phones, Connects(p) PROVE Goal
  BY <1>5 DEF Connects
<1>6. ASSUME NEW p \in Phones, Disconnects(p) PROVE Goal
  <2>1. /\ listening' = listening
        /\ m_socket' = IF m_socket = p THEN None ELSE m_socket
        /\ conn' = [conn EXCEPT ![p] = "off"]
        /\ wire' = [wire EXCEPT ![p] = <<>>]
        /\ greeted' = [greeted EXCEPT ![p] = 0]
        /\ answered' = [answered EXCEPT ![p] = [r \in Requests |-> 0]]
    BY <1>6 DEF Disconnects
  <2>2. torn' \in [Phones -> BOOLEAN] /\ garbled' \in [Phones -> BOOLEAN]
    BY <1>6, Zenon DEF Disconnects
  <2>3. asked' \in [Phones -> [Sendable -> 0..MaxMessages]]
    <3>1. [r \in Sendable |-> 0] \in [Sendable -> 0..MaxMessages]
      BY BoundAssumption
    <3> QED
      BY <1>6, <3>1 DEF Disconnects
  <2>4. answered' \in [Phones -> [Requests -> Nat]]
    BY <2>1
  <2>5. waiting' \in [Phones -> {0, 1, 2}]
    BY <1>6 DEF Disconnects
  <2>6. wire' \in [Phones -> Seq(Messages)]
    BY <2>1
  <2>7. TypeOK'
    BY <2>1, <2>2, <2>3, <2>4, <2>5, <2>6
  <2>8. OffInv'
    BY <2>1
  <2> QED
    BY <2>7, <2>8
<1>7. ASSUME NEW p \in Phones, NEW type \in Sendable, Sends(p, type) PROVE Goal
  <2>1. /\ conn[p] = "on"
        /\ wire' = [wire EXCEPT ![p] = Append(@, type)]
        /\ UNCHANGED <<listening, m_socket, conn, torn, greeted, garbled, answered>>
    BY <1>7 DEF Sends
  <2>2. asked[p][type] + 1 \in 0..MaxMessages
    <3>1. /\ asked[p][1] \in Nat /\ asked[p][2] \in Nat /\ asked[p][7] \in Nat
          /\ asked[p][1] + asked[p][2] + asked[p][7] < MaxMessages
          /\ type \in {1, 2, 7}
      BY <1>7, BoundAssumption DEF Sends, Sendable
    <3> QED
      BY <3>1, BoundAssumption
  <2>3. asked' \in [Phones -> [Sendable -> 0..MaxMessages]]
    BY <1>7, <2>2 DEF Sends
  <2>4. waiting' \in [Phones -> {0, 1, 2}]
    BY <1>7 DEF Sends, Requests
  <2>5. wire' \in [Phones -> Seq(Messages)]
    <3>1. type \in Messages /\ wire[p] \in Seq(Messages)
      BY DEF Messages
    <3>2. Append(wire[p], type) \in Seq(Messages)
      BY <3>1
    <3> QED
      BY <2>1, <3>2
  <2> QED
    BY <2>1, <2>3, <2>4, <2>5
<1>8. CASE UNCHANGED vars
  BY <1>8
<1> HIDE DEF Goal
<1> QED
  BY <1>1, <1>2, <1>3, <1>4, <1>5, <1>6, <1>7, <1>8 DEF Next, Slot
-----------------------------------------------------------------------------
(* The answers *)

(* A step that leaves a phone's messages, requests and answers alone. *)
LEMMA AskedKept ==
    ASSUME NEW p \in Phones, NEW r \in Requests, Answerable(p, r),
           wire'[p] = wire[p], asked'[p] = asked[p], answered'[p] = answered[p]
    PROVE  Answerable(p, r)'
BY DEF Answerable, Ahead

(* A phone that just connected has asked nothing and was told nothing. *)
LEMMA AskedNone ==
    ASSUME NEW p \in Phones, NEW r \in Requests, wire'[p] = <<>>,
           asked'[p][r] = 0, answered'[p][r] = 0
    PROVE  Answerable(p, r)'
<1>1. PICK left : Ahead(left, <<>>, r) /\ left[1] = 0
  BY AheadNone
<1>2. Ahead(left, wire'[p], r) /\ answered'[p][r] + left[1] <= asked'[p][r]
  BY <1>1
<1> QED
  BY <1>2 DEF Answerable, Ahead

(* Every step keeps the answers within what was asked. *)
LEMMA AskedStep ==
    ASSUME TypeOK, AskedInv, [Next]_vars PROVE AskedInv'
<1> DEFINE Fine(p) == ~garbled'[p] =>
                        ~torn'[p] /\ \A r \in Requests : Answerable(p, r)'
           Goal == \A p \in Phones : Fine(p)
<1> SUFFICES Goal
  BY DEF AskedInv, Answerable, Ahead
<1>k. ASSUME NEW p \in Phones, garbled'[p] = garbled[p], torn'[p] = torn[p],
             wire'[p] = wire[p], asked'[p] = asked[p], answered'[p] = answered[p]
      PROVE  Fine(p)
  BY <1>k, AskedKept DEF AskedInv
<1>q. ASSUME UNCHANGED <<wire, torn, garbled, asked, answered>> PROVE Goal
  BY <1>q, <1>k
<1>1. CASE StartServer
  BY <1>1, <1>q DEF StartServer, phoneVars
<1>2. ASSUME NEW p \in Phones, OnClientConnected(p) PROVE Goal
  BY <1>2, <1>q DEF OnClientConnected, phoneVars
<1>3. ASSUME NEW p \in Phones, OnNullConnected(p) PROVE Goal
  BY <1>3, <1>q DEF OnNullConnected, phoneVars
<1>4. ASSUME NEW p \in Phones, ReadSocket(p) PROVE Goal
  <2>1. PICK n \in 0..Len(wire[p]), part \in BOOLEAN :
          /\ wire' = [wire EXCEPT ![p] = SubSeq(@, n + 1, Len(@))]
          /\ torn' = [torn EXCEPT ![p] = part]
          /\ garbled' = [garbled EXCEPT ![p] = @ \/ part]
          /\ n > 0 \/ (torn[p] /\ ~part)
          /\ IF m_socket = p
             THEN \E type \in Types(p, n, part) : Handle(p, type)
             ELSE UNCHANGED <<answered, waiting>>
    BY <1>4, Zenon DEF ReadSocket
  <2>2. asked' = asked
    BY <1>4 DEF ReadSocket
  <2>3. ASSUME NEW q \in Phones, q # p PROVE Fine(q)
    <3>1. wire'[q] = wire[q] /\ torn'[q] = torn[q] /\ garbled'[q] = garbled[q]
      BY <2>1, <2>3 DEF TypeOK
    <3>2. answered'[q] = answered[q]
      BY <2>1, <2>3 DEF TypeOK, Handle
    <3> QED
      BY <1>k, <2>2, <3>1, <3>2
  <2>4. Fine(p)
    <3> SUFFICES ASSUME ~garbled'[p], NEW r \in Requests
                 PROVE  ~torn'[p] /\ Answerable(p, r)'
      BY DEF Requests
    <3>1. ~garbled[p] /\ ~part
      BY <2>1, Zenon DEF TypeOK
    <3>2. ~torn[p] /\ Answerable(p, r)
      BY <3>1 DEF AskedInv
    <3>3. ~torn'[p]
      BY <2>1, <3>1, Zenon DEF TypeOK
    <3>4. wire[p] \in Seq(Messages)
      BY DEF TypeOK
    <3>5. n > 0
      BY <2>1, <3>2
    <3>6. Head(wire[p]) = wire[p][1]
      BY <3>4, <3>5
    <3>7. Types(p, n, part) = {wire[p][1]}
      BY <3>1, <3>2, <3>6 DEF Types
    <3>8. answered'[p][r] <= answered[p][r] + Is(wire[p][1], r)
          /\ answered'[p][r] \in Nat
      <4>1. answered[p][r] \in Nat
        BY DEF TypeOK
      <4>2. CASE m_socket = p
        <5>1. Handle(p, wire[p][1])
          BY <2>1, <3>7, <4>2
        <5>2. CASE wire[p][1] = r
          <6>1. answered' = [answered EXCEPT ![p][r] = answered[p][r] + 1]
            BY <5>1, <5>2 DEF Handle
          <6>2. answered'[p][r] = answered[p][r] + 1
            BY <6>1 DEF TypeOK
          <6> QED
            BY <4>1, <5>2, <6>2 DEF Is
        <5>3. CASE wire[p][1] # r
          <6>1. answered'[p][r] = answered[p][r]
            BY <5>1, <5>3 DEF Handle, TypeOK
          <6> QED
            BY <4>1, <5>3, <6>1 DEF Is
        <5> QED
          BY <5>2, <5>3
      <4>3. CASE m_socket # p
        <5>1. answered'[p][r] = answered[p][r]
          BY <2>1, <4>3
        <5> QED
          BY <4>1, <5>1 DEF Is
      <4> QED
        BY <4>2, <4>3
    <3>9. PICK left : Ahead(left, wire[p], r)
                      /\ answered[p][r] + left[1] <= asked[p][r]
      BY <3>2 DEF Answerable
    <3>10. PICK rest : /\ Ahead(rest, SubSeq(wire[p], n + 1, Len(wire[p])), r)
                       /\ rest[1] + Is(wire[p][1], r)
                            <= left[1]
      BY <3>4, <3>5, <3>9, AheadRead
    <3>11. wire'[p] = SubSeq(wire[p], n + 1, Len(wire[p]))
      BY <2>1 DEF TypeOK
    <3>12. left[1] \in Nat /\ rest[1] \in Nat
      <4>1. 1 \in 1..Len(wire[p]) + 1
        BY <3>4
      <4>2. 1 \in 1..Len(SubSeq(wire[p], n + 1, Len(wire[p]))) + 1
        BY <3>4
      <4> QED
        BY <3>9, <3>10, <4>1, <4>2 DEF Ahead
    <3>13. answered'[p][r] + rest[1] <= asked'[p][r]
      <4>1. answered[p][r] \in Nat /\ asked[p][r] \in Nat
        BY BoundAssumption DEF TypeOK, Requests, Sendable
      <4> QED
        <5>1. Is(wire[p][1], r) \in {0, 1}
          BY DEF Is
        <5>2. asked'[p][r] = asked[p][r]
          BY <2>2
        <5> QED
          BY <3>8, <3>9, <3>10, <3>12, <4>1, <5>1, <5>2
    <3>14. Answerable(p, r)'
      BY <3>10, <3>11, <3>13 DEF Answerable, Ahead
    <3> QED
      BY <3>3, <3>14
  <2> HIDE DEF Fine
  <2> QED
    BY <2>3, <2>4
<1>5. ASSUME NEW p \in Phones, Connects(p) PROVE Goal
  BY <1>5, <1>q DEF Connects, phoneVars
<1>6. ASSUME NEW p \in Phones, Disconnects(p) PROVE Goal
  <2>1. ASSUME NEW q \in Phones, q # p PROVE Fine(q)
    <3>1. /\ wire'[q] = wire[q] /\ torn'[q] = torn[q] /\ garbled'[q] = garbled[q]
          /\ asked'[q] = asked[q] /\ answered'[q] = answered[q]
      BY <1>6, <2>1 DEF Disconnects, TypeOK
    <3> QED
      BY <1>k, <3>1
  <2>2. Fine(p)
    <3>1. wire'[p] = <<>> /\ ~torn'[p]
      BY <1>6 DEF Disconnects, TypeOK
    <3>2. \A r \in Requests : asked'[p][r] = 0 /\ answered'[p][r] = 0
      BY <1>6 DEF Disconnects, TypeOK, Requests, Sendable
    <3> QED
      BY <3>1, <3>2, AskedNone
  <2> HIDE DEF Fine
  <2> QED
    BY <2>1, <2>2
<1>7. ASSUME NEW p \in Phones, NEW type \in Sendable, Sends(p, type) PROVE Goal
  <2>0. /\ wire' = [wire EXCEPT ![p] = Append(@, type)]
        /\ asked' = [asked EXCEPT ![p][type] = @ + 1]
        /\ UNCHANGED <<torn, garbled, answered>>
    BY <1>7 DEF Sends
  <2>1. ASSUME NEW q \in Phones, q # p PROVE Fine(q)
    <3>1. /\ wire'[q] = wire[q] /\ torn'[q] = torn[q] /\ garbled'[q] = garbled[q]
          /\ asked'[q] = asked[q] /\ answered'[q] = answered[q]
      BY <2>0, <2>1 DEF TypeOK
    <3> QED
      BY <1>k, <3>1
  <2>2. Fine(p)
    <3> SUFFICES ASSUME ~garbled'[p], NEW r \in Requests
                 PROVE  ~torn'[p] /\ Answerable(p, r)'
      BY DEF Requests
    <3>1. ~torn[p] /\ Answerable(p, r)
      BY <2>0 DEF AskedInv
    <3>2. wire[p] \in Seq(Messages) /\ type \in Messages
      BY DEF TypeOK, Messages
    <3>3. PICK left : Ahead(left, wire[p], r)
                      /\ answered[p][r] + left[1] <= asked[p][r]
      BY <3>1 DEF Answerable
    <3>4. PICK more : /\ Ahead(more, Append(wire[p], type), r)
                      /\ more[1] = left[1] + Is(type, r)
      BY <3>2, <3>3, AheadAppend
    <3>5. wire'[p] = Append(wire[p], type)
      BY <2>0 DEF TypeOK
    <3>6. asked'[p][r] = asked[p][r] + Is(type, r) /\ Is(type, r) \in {0, 1}
      <4>1. asked[p][r] \in Nat /\ r \in Sendable
        BY BoundAssumption DEF TypeOK, Requests, Sendable
      <4> QED
        BY <2>0, <4>1 DEF TypeOK, Is
    <3>7. left[1] \in Nat
      <4>1. 1 \in 1..Len(wire[p]) + 1
        BY <3>2
      <4> QED
        BY <3>3, <4>1 DEF Ahead
    <3>8. answered'[p][r] + more[1] <= asked'[p][r]
      <4>1. answered[p][r] \in Nat /\ asked[p][r] \in Nat
        BY BoundAssumption DEF TypeOK, Requests, Sendable
      <4> QED
        BY <2>0, <3>3, <3>4, <3>6, <3>7, <4>1
    <3>9. Answerable(p, r)'
      BY <3>4, <3>5, <3>8 DEF Answerable, Ahead
    <3> QED
      BY <2>0, <3>1, <3>9
  <2> HIDE DEF Fine
  <2> QED
    BY <2>1, <2>2
<1>8. CASE UNCHANGED vars
  BY <1>8, <1>q DEF vars, phoneVars
<1> HIDE DEF Goal
<1> QED
  BY <1>1, <1>2, <1>3, <1>4, <1>5, <1>6, <1>7, <1>8 DEF Next, Slot

(* The initial states satisfy the invariant. *)
LEMMA BluetoothInit == Init => BluetoothInv
<1> SUFFICES ASSUME Init PROVE BluetoothInv
  OBVIOUS
<1>1. /\ listening \in BOOLEAN
      /\ torn \in [Phones -> BOOLEAN] /\ garbled \in [Phones -> BOOLEAN]
  BY Zenon DEF Init
<1>2. wire \in [Phones -> Seq(Messages)]
  BY DEF Init
<1>3. asked \in [Phones -> [Sendable -> 0..MaxMessages]]
  BY BoundAssumption DEF Init
<1>4. TypeOK
  BY <1>1, <1>2, <1>3 DEF Init, TypeOK
<1>5. OffInv
  BY DEF Init, OffInv
<1>6. AskedInv
  <2> SUFFICES ASSUME NEW p \in Phones, NEW r \in Requests
               PROVE  ~torn[p] /\ Answerable(p, r)
    BY DEF AskedInv, Requests
  <2>1. PICK left : Ahead(left, <<>>, r) /\ left[1] = 0
    BY AheadNone
  <2>2. wire[p] = <<>> /\ asked[p][r] = 0 /\ answered[p][r] = 0 /\ ~torn[p]
    BY DEF Init, Requests, Sendable
  <2> QED
    BY <2>1, <2>2 DEF Answerable
<1> QED
  BY <1>4, <1>5, <1>6 DEF BluetoothInv

(* The inductive invariant holds in every state of every behaviour. *)
THEOREM BluetoothAlways == Spec => []BluetoothInv
<1>1. BluetoothInv /\ [Next]_vars => BluetoothInv'
  BY TypeStep, AskedStep DEF BluetoothInv
<1> QED
  BY <1>1, BluetoothInit, PTL DEF Spec

(* The server's members and the connections keep their types, and a phone  *)
(* whose connection was accepted was greeted, once.                        *)
THEOREM BluetoothTypes == Spec => []TypeOK
<1>1. BluetoothInv => TypeOK
  BY DEF BluetoothInv
<1> QED
  BY <1>1, BluetoothAlways, PTL

(* Whichever phones connect, leave, come back and send, in whatever pieces *)
(* their messages arrive: a phone whose messages came whole never gets     *)
(* more answers of a kind than it sent requests of that kind.              *)
THEOREM AnswersAlwaysMatch == Spec => []AnswersMatch
<1>1. BluetoothInv => AnswersMatch
  <2> SUFFICES ASSUME BluetoothInv, NEW p \in Phones, ~garbled[p],
                      NEW r \in Requests
               PROVE  answered[p][r] <= asked[p][r]
    BY DEF AnswersMatch
  <2>1. PICK left : Ahead(left, wire[p], r) /\ answered[p][r] + left[1] <= asked[p][r]
    BY DEF BluetoothInv, AskedInv, Answerable
  <2>2. left[1] \in Nat
    <3>1. 1 \in 1..Len(wire[p]) + 1
      BY DEF BluetoothInv, TypeOK
    <3> QED
      BY <2>1, <3>1 DEF Ahead
  <2>3. answered[p][r] \in Nat /\ asked[p][r] \in Nat
    BY BoundAssumption DEF BluetoothInv, TypeOK, Requests, Sendable
  <2> QED
    BY <2>1, <2>2, <2>3
<1> QED
  BY <1>1, BluetoothAlways, PTL
=============================================================================
