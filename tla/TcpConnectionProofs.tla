------------------------ MODULE TcpConnectionProofs ------------------------
(***************************************************************************)
(* Proofs about TcpConnection, for any number of threads, any calls and    *)
(* any bounds: the byte stream stays intact, buffered output stays armed,  *)
(* the FIN waits for it, and no message comes after the close.  For other  *)
(* threads that only send, the callbacks are paired and the channel is     *)
(* removed for good.                                                       *)
(***************************************************************************)
EXTENDS TcpConnection, SequenceTheorems, TLAPS

-----------------------------------------------------------------------------
(* Type correctness.                                                       *)

\* What sendInLoop does to the variables it changes keeps their types.
LEMMA SendType ==
  ASSUME TypeOK, NEW n \in Nat, NEW q \in Seq(Item), SendInLoop(n, q)
  PROVE  /\ events' \subseteq {"R", "W"} /\ idx' \in {"kNew", "kAdded", "kDeleted"}
         /\ outBuf' \in Seq(Nat) /\ wire' \in Seq(Nat) /\ soErr' \in BOOLEAN
         /\ queue' \in Seq(Item) /\ accepted' \in Nat
<1>1. CASE state = "kDisconnected"
  BY <1>1 DEF SendInLoop, TypeOK
<1>2. CASE state # "kDisconnected"
  <2>1. PICK k \in (IF Direct THEN WriteTakes(n) ELSE {0}) : SendTaking(n, q, k)
    BY <1>2 DEF SendInLoop
  <2> DEFINE data == Bytes(accepted, n)
  <2>2. k \in Nat /\ k <= n /\ accepted \in Nat BY DEF WriteTakes, TypeOK
  <2>3. data \in Seq(Nat) /\ Len(data) = n BY <2>2 DEF Bytes
  <2>4. /\ wire' = wire \o SubSeq(data, 1, k)
        /\ outBuf' = outBuf \o SubSeq(data, k + 1, n)
        /\ accepted' = accepted + n
        /\ soErr' = (soErr /\ ~Direct)
        /\ IF k < n /\ ~isWriting THEN UpdateChannel(events \cup {"W"})
                                  ELSE UNCHANGED <<events, idx>>
    BY <2>1 DEF SendTaking
  <2> HIDE DEF data
  <2>5. SubSeq(data, 1, k) \in Seq(Nat) /\ SubSeq(data, k + 1, n) \in Seq(Nat)
    <3>1. /\ \A i \in 1 .. k : data[i] \in Nat
          /\ \A i \in k + 1 .. n : data[i] \in Nat
      BY <2>2, <2>3, ElementOfSeq
    <3> QED BY <2>2, <3>1, SubSeqProperties
  <2>6. wire' \in Seq(Nat) /\ outBuf' \in Seq(Nat)
    BY <2>4, <2>5, ConcatProperties DEF TypeOK
  <2>7. queue' \in Seq(Item)
    <3> DEFINE s1 == IF k = n THEN <<Functor("writeComplete", 0)>> ELSE <<>>
               s2 == IF /\ k < n
                        /\ Len(outBuf) + Len(SubSeq(Bytes(accepted, n), k + 1, n))
                             >= HighWater
                        /\ Len(outBuf) < HighWater
                       THEN <<Functor("highWater", 0)>> ELSE <<>>
    <3>1. Functor("writeComplete", 0) \in Item /\ Functor("highWater", 0) \in Item
      BY DEF Item, Functor, FunctorNames
    <3>2. s1 \in Seq(Item) /\ s2 \in Seq(Item) BY <3>1
    <3>3. queue' = q \o s1 \o s2 BY <2>1 DEF SendTaking
    <3> HIDE DEF s1, s2
    <3> QED BY <3>2, <3>3, ConcatProperties
  <2>8. events' \subseteq {"R", "W"} /\ idx' \in {"kNew", "kAdded", "kDeleted"}
    BY <2>4 DEF TypeOK, UpdateChannel
  <2>9. soErr' \in BOOLEAN /\ accepted' \in Nat BY <2>2, <2>4 DEF TypeOK
  <2> QED BY <2>6, <2>7, <2>8, <2>9
<1> QED BY <1>1, <1>2

\* handleClose keeps the types of what it changes.
LEMMA CloseType ==
  ASSUME TypeOK,
         HandleClose \/ UNCHANGED <<state, events, idx, downs, pc>>
  PROVE  /\ state' \in {"kConnecting", "kConnected", "kDisconnecting",
                        "kDisconnected"}
         /\ events' \subseteq {"R", "W"}
         /\ idx' \in {"kNew", "kAdded", "kDeleted"}
         /\ downs' \in Nat /\ pc' \in IoPC
<1>1. CASE HandleClose
  BY <1>1 DEF HandleClose, UpdateChannel, TypeOK, IoPC
<1>2. CASE UNCHANGED <<state, events, idx, downs, pc>>
  BY <1>2 DEF TypeOK
<1> QED BY <1>1, <1>2

\* Every step keeps the variables in their types.
LEMMA TypeStep == TypeOK /\ [Next]_vars => TypeOK'
<1> SUFFICES ASSUME TypeOK, [Next]_vars PROVE TypeOK'
  OBVIOUS
<1>a. queue \in Seq(Item) BY DEF TypeOK
<1>b. \A name \in FunctorNames, n \in Nat : Functor(name, n) \in Item
  BY DEF Item, Functor
<1>c. queue # <<>> => Tail(queue) \in Seq(Item) /\ Head(queue) \in Item
  BY <1>a
<1>d. FunctorNames = {"connectEstablished", "sendInLoop", "shutdownInLoop",
        "forceCloseInLoop", "writeComplete", "highWater", "connectDestroyed"}
  BY DEF FunctorNames
<1>e. \A name \in FunctorNames : Append(queue, Functor(name, 0)) \in Seq(Item)
  BY <1>a, <1>b
<1>1. CASE IoSend
  <2>1. PICK n \in 1 .. MaxChunk : SendInLoop(n, queue) BY <1>1 DEF IoSend
  <2>2. n \in Nat BY BoundsAssumption
  <2> QED BY <1>a, <1>b, <1>c, <1>1, <2>1, <2>2, SendType
          DEF IoSend, Call, TypeOK, baseVars
<1>2. CASE IoShutdown
  BY <1>2 DEF IoShutdown, Call, ShutdownInLoop, TypeOK, baseVars, loopVars
<1>3. CASE IoForceClose
  <2>1. queue' \in Seq(Item)
    BY <1>d, <1>e, <1>3 DEF IoForceClose
  <2> QED BY <1>3, <2>1
          DEF IoForceClose, Call, TypeOK, baseVars, sockVars
<1>4. CASE ConnectEstablished
  BY <1>a, <1>b, <1>c, <1>4 DEF ConnectEstablished, Run, UpdateChannel, TypeOK, IoPC,
     baseVars, sockVars
<1>5. CASE RunSendInLoop
  <2>1. queue # <<>> /\ SendInLoop(Head(queue).len, Tail(queue))
    BY <1>5 DEF RunSendInLoop, Run
  <2>2. Head(queue).len \in Nat /\ Tail(queue) \in Seq(Item)
    BY <1>a, <1>b, <1>c, <2>1 DEF Item
  <2> QED BY <1>5, <2>1, <2>2, SendType
          DEF RunSendInLoop, TypeOK, baseVars
<1>6. CASE RunShutdownInLoop
  BY <1>a, <1>b, <1>c, <1>6 DEF RunShutdownInLoop, Run, ShutdownInLoop, TypeOK,
     connVars, baseVars, histVars
<1>7. CASE ForceCloseInLoop
  <2>1. /\ queue # <<>> /\ queue' = Tail(queue)
        /\ HandleClose \/ UNCHANGED <<state, events, idx, downs, pc>>
        /\ UNCHANGED <<outBuf, revents, fpc, baseVars, sockVars, accepted, ups,
                       destroyed, calls, arrived>>
    BY <1>7 DEF ForceCloseInLoop, Run
  <2>2. queue' \in Seq(Item) BY <1>c, <2>1
  <2> QED BY <2>1, <2>2, CloseType DEF TypeOK, baseVars, sockVars
<1>8. CASE RunUserCallback
  BY <1>a, <1>b, <1>c, <1>8 DEF RunUserCallback, Run, TypeOK, connVars, baseVars,
     sockVars, histVars
<1>9. CASE ConnectDestroyed
  <2>1. /\ queue # <<>> /\ queue' = Tail(queue)
        /\ UNCHANGED <<outBuf, revents, fpc, baseVars, sockVars, accepted, ups,
                       calls, arrived>>
    BY <1>9 DEF ConnectDestroyed, Run
  <2>2. queue' \in Seq(Item) BY <1>c, <2>1
  <2>3. CASE state = "kConnected"
    BY <1>9, <2>1, <2>2, <2>3
       DEF ConnectDestroyed, UpdateChannel, TypeOK, IoPC, baseVars, sockVars
  <2>4. CASE state # "kConnected"
    BY <1>9, <2>1, <2>2, <2>4
       DEF ConnectDestroyed, RemoveChannel, TypeOK, baseVars, sockVars
  <2> QED BY <2>3, <2>4
<1>10. CASE ReturnFromCallback \/ ReturnFromClosing
  <2>1. CASE ReturnFromCallback
    BY <2>1 DEF ReturnFromCallback, TypeOK, IoPC, connVars, baseVars, sockVars,
       histVars
  <2>2. CASE ReturnFromClosing
    BY <2>2 DEF ReturnFromClosing, TypeOK, IoPC, connVars, sockVars, histVars
  <2> QED BY <1>10, <2>1, <2>2
<1>11. CASE ReturnFromDestroying
  BY <1>11 DEF ReturnFromDestroying, RemoveChannel, TypeOK, IoPC, baseVars,
     sockVars
<1>12. CASE OnHup
  <2>1. /\ revents' = revents \ {"HUP"}
        /\ HandleClose \/ UNCHANGED <<state, events, idx, downs, pc>>
        /\ UNCHANGED <<outBuf, queue, fpc, baseVars, sockVars, accepted, ups,
                       destroyed, calls, arrived>>
    BY <1>12 DEF OnHup, Handling
  <2> QED BY <2>1, CloseType DEF TypeOK, baseVars, sockVars
<1>13. CASE OnErr
  BY <1>13 DEF OnErr, Handling, TypeOK, connVars, baseVars, histVars
<1>14. CASE HandleRead
  <2>1. /\ revents' = revents \ {"IN"}
        /\ UNCHANGED <<outBuf, queue, fpc, baseVars, wire, shut, peer, accepted,
                       ups, destroyed, calls, arrived>>
    BY <1>14 DEF HandleRead, Handling
  <2>2. CASE /\ inbound' = 0 /\ pc' = "message"
             /\ UNCHANGED <<state, events, idx, downs, soErr>>
    BY <2>1, <2>2 DEF TypeOK, IoPC, baseVars
  <2>3. CASE /\ soErr' = FALSE
             /\ UNCHANGED <<state, events, idx, downs, pc, inbound>>
    BY <2>1, <2>3 DEF TypeOK, baseVars
  <2>4. CASE HandleClose /\ UNCHANGED <<soErr, inbound>>
    BY <2>1, <2>4, CloseType DEF TypeOK, baseVars
  <2> QED BY <1>14, <2>2, <2>3, <2>4 DEF HandleRead
<1>15. CASE HandleWrite
  <2>1. wire' \in Seq(Nat) /\ outBuf' \in Seq(Nat)
    <3>1. CASE UNCHANGED <<wire, outBuf>> BY <3>1 DEF TypeOK
    <3>2. ASSUME NEW n \in 1 .. Len(outBuf),
                 wire' = wire \o SubSeq(outBuf, 1, n),
                 outBuf' = SubSeq(outBuf, n + 1, Len(outBuf))
          PROVE wire' \in Seq(Nat) /\ outBuf' \in Seq(Nat)
      <4>1. /\ \A i \in 1 .. n : outBuf[i] \in Nat
            /\ \A i \in n + 1 .. Len(outBuf) : outBuf[i] \in Nat
            /\ n \in Int /\ n + 1 \in Int /\ Len(outBuf) \in Int
        BY ElementOfSeq DEF TypeOK
      <4>2. /\ SubSeq(outBuf, 1, n) \in Seq(Nat)
            /\ SubSeq(outBuf, n + 1, Len(outBuf)) \in Seq(Nat)
        BY <4>1, SubSeqProperties
      <4> QED BY <3>2, <4>2, ConcatProperties DEF TypeOK
    <3> QED BY <1>15, <3>1, <3>2 DEF HandleWrite
  <2>2. queue' \in Seq(Item)
    BY <1>a, <1>d, <1>e, <1>15 DEF HandleWrite
  <2>3. /\ events' \subseteq {"R", "W"} /\ idx' \in {"kNew", "kAdded", "kDeleted"}
        /\ shut' \in BOOLEAN /\ soErr' \in BOOLEAN
        /\ revents' \subseteq {"HUP", "ERR", "IN", "OUT"}
    BY <1>15 DEF HandleWrite, Handling, UpdateChannel, TypeOK
  <2>4. UNCHANGED <<state, pc, fpc, baseVars, peer, inbound, histVars>>
    BY <1>15 DEF HandleWrite
  <2> QED BY <2>1, <2>2, <2>3, <2>4 DEF TypeOK, baseVars, histVars
<1>16. CASE Poll(TRUE) \/ Poll(FALSE)
  <2>1. ASSUME NEW w \in BOOLEAN, Poll(w) PROVE TypeOK'
    <3>1. Ready(w) \subseteq {"HUP", "ERR", "IN", "OUT"} BY DEF Ready
    <3> QED BY <2>1, <3>1 DEF Poll, TypeOK, connVars, baseVars, sockVars, histVars
  <2> QED BY <1>16, <2>1
<1>17. CASE RemoveConnectionInLoop
  <2>1. queue' \in Seq(Item) BY <1>d, <1>e, <1>17 DEF RemoveConnectionInLoop
  <2>2. removals' \in Nat BY <1>17 DEF RemoveConnectionInLoop, TypeOK
  <2> QED BY <1>17, <2>1, <2>2
          DEF RemoveConnectionInLoop, TypeOK, connVars, sockVars, histVars
<1>18. CASE ServerDtor
  <2>1. queue' \in Seq(Item) BY <1>a, <1>d, <1>e, <1>18 DEF ServerDtor
  <2> QED BY <1>18, <2>1 DEF ServerDtor, TypeOK, connVars, sockVars, histVars
<1>19. CASE Peer
  <2>1. CASE PeerSends
    BY <2>1 DEF PeerSends, TypeOK, connVars, loopVars, baseVars
  <2>2. CASE PeerCloses
    BY <2>2 DEF PeerCloses, TypeOK, connVars, loopVars, baseVars, histVars
  <2>3. CASE PeerResets
    BY <2>3 DEF PeerResets, TypeOK, connVars, loopVars, baseVars, histVars
  <2> QED BY <1>19, <2>1, <2>2, <2>3 DEF Peer
<1>20. ASSUME NEW t \in Thread, ForeignCheck(t) PROVE TypeOK'
  BY <1>20, OpsAssumption DEF ForeignCheck, ForeignStep, Call, TypeOK, Ops,
     ForeignPC, connVars, loopVars, baseVars, sockVars
<1>21. ASSUME NEW t \in Thread, ForeignSet(t) PROVE TypeOK'
  BY <1>21 DEF ForeignSet, ForeignStep, TypeOK, ForeignPC, loopVars, baseVars,
     sockVars, histVars
<1>22. ASSUME NEW t \in Thread, ForeignEnqueue(t) PROVE TypeOK'
  <2>1. ASSUME NEW name \in FunctorNames, NEW n \in Nat, NEW from,
               ForeignQueue(t, from, Functor(name, n))
        PROVE TypeOK'
    <3>1. queue' \in Seq(Item) BY <1>a, <1>b, <1>c, <2>1 DEF ForeignQueue
    <3> QED BY <2>1, <3>1 DEF ForeignQueue, ForeignStep, TypeOK, ForeignPC,
               connVars, baseVars, sockVars, histVars
  <2>2. CASE ForeignSend(t)
    <3>1. PICK n \in 1 .. MaxChunk :
            ForeignQueue(t, "send", Functor("sendInLoop", n))
      BY <2>2 DEF ForeignSend
    <3>2. n \in Nat /\ "sendInLoop" \in FunctorNames
      BY BoundsAssumption DEF FunctorNames
    <3> QED BY <2>1, <3>1, <3>2
  <2>3. {"shutdownInLoop", "forceCloseInLoop"} \subseteq FunctorNames
    BY DEF FunctorNames
  <2> QED BY <1>22, <2>1, <2>2, <2>3 DEF ForeignEnqueue
<1>23. CASE UNCHANGED vars
  BY <1>23 DEF vars, TypeOK, connVars, loopVars, baseVars, sockVars, histVars
<1> QED
  BY <1>1, <1>2, <1>3, <1>4, <1>5, <1>6, <1>7, <1>8, <1>9, <1>10, <1>11, <1>12,
     <1>13, <1>14, <1>15, <1>16, <1>17, <1>18, <1>19, <1>20, <1>21, <1>22, <1>23
     DEF Next, UserCall, RunFunctor, Return, Dispatch, Foreign

-----------------------------------------------------------------------------
(* The byte stream.                                                        *)

\* Bytes with consecutive numbers follow one another.
LEMMA BytesConcat ==
  ASSUME NEW m \in Nat, NEW n \in Nat
  PROVE  /\ Bytes(0, m) \in Seq(Nat) /\ Bytes(m, n) \in Seq(Nat)
         /\ Len(Bytes(m, n)) = n
         /\ Bytes(0, m) \o Bytes(m, n) = Bytes(0, m + n)
<1>1. ASSUME NEW a \in Nat, NEW c \in Nat
      PROVE /\ Bytes(a, c) \in Seq(Nat) /\ Len(Bytes(a, c)) = c
            /\ \A i \in 1 .. c : Bytes(a, c)[i] = a + i
  BY DEF Bytes
<1> DEFINE s == Bytes(0, m)
           t == Bytes(m, n)
           u == Bytes(0, m + n)
<1>2. /\ s \in Seq(Nat) /\ Len(s) = m /\ \A i \in 1 .. m : s[i] = 0 + i
      /\ t \in Seq(Nat) /\ Len(t) = n /\ \A i \in 1 .. n : t[i] = m + i
      /\ u \in Seq(Nat) /\ Len(u) = m + n /\ \A i \in 1 .. m + n : u[i] = 0 + i
  <2>0. 0 \in Nat /\ m + n \in Nat OBVIOUS
  <2>1. s \in Seq(Nat) /\ Len(s) = m /\ \A i \in 1 .. m : s[i] = 0 + i
    BY ONLY <2>0, m \in Nat, <1>1
  <2>2. t \in Seq(Nat) /\ Len(t) = n /\ \A i \in 1 .. n : t[i] = m + i
    BY ONLY m \in Nat, n \in Nat, <1>1
  <2>3. /\ u \in Seq(Nat) /\ Len(u) = m + n
        /\ \A i \in 1 .. m + n : u[i] = 0 + i
    BY ONLY <2>0, <1>1
  <2> QED BY <2>1, <2>2, <2>3
<1> HIDE DEF s, t, u
<1>3. /\ s \o t \in Seq(Nat) /\ Len(s \o t) = m + n
  BY <1>2, ConcatProperties
<1>4. ASSUME NEW i \in 1 .. m + n PROVE (s \o t)[i] = u[i]
  <2>1. (s \o t)[i] = IF i <= Len(s) THEN s[i] ELSE t[i - Len(s)]
    BY <1>2, ConcatProperties
  <2>2. u[i] = i BY <1>2
  <2>3. CASE i <= m
    <3>1. i \in 1 .. m BY <2>3
    <3> QED BY <1>2, <2>1, <2>2, <2>3, <3>1
  <2>4. CASE ~(i <= m)
    <3>1. i - m \in 1 .. n /\ m + (i - m) = i BY <2>4
    <3>2. t[i - m] = m + (i - m) BY <1>2, <3>1
    <3> QED BY <1>2, <2>1, <2>2, <2>4, <3>1, <3>2
  <2> QED BY <2>3, <2>4
<1>5. s \o t = u BY <1>2, <1>3, <1>4, SeqEqual
<1> QED BY <1>2, <1>5 DEF s, t, u

\* A sequence is its first k elements followed by the others.
LEMMA SplitAt ==
  ASSUME NEW s \in Seq(Nat), NEW k \in 0 .. Len(s)
  PROVE  /\ SubSeq(s, 1, k) \in Seq(Nat)
         /\ SubSeq(s, k + 1, Len(s)) \in Seq(Nat)
         /\ SubSeq(s, 1, k) \o SubSeq(s, k + 1, Len(s)) = s
<1>1. /\ \A i \in 1 .. k : s[i] \in Nat
      /\ \A i \in k + 1 .. Len(s) : s[i] \in Nat
      /\ k \in Int /\ k + 1 \in Int /\ Len(s) \in Nat
  BY ElementOfSeq
<1>2. SubSeq(s, 1, k) \in Seq(Nat) /\ SubSeq(s, k + 1, Len(s)) \in Seq(Nat)
  BY <1>1, SubSeqProperties
<1>3. 1 \in 1 .. Len(s) + 1 /\ k \in 1 - 1 .. Len(s) /\ Len(s) \in k .. Len(s)
  BY <1>1
<1>4. SubSeq(s, 1, k) \o SubSeq(s, k + 1, Len(s)) = SubSeq(s, 1, Len(s))
  BY <1>3, ConcatAdjacentSubSeq
<1> QED BY <1>2, <1>4, SubSeqFull

\* ConcatAssociative for sequences of bytes, with the sequences as constants.
LEMMA BytesAssociative ==
  ASSUME NEW a \in Seq(Nat), NEW b \in Seq(Nat), NEW c \in Seq(Nat)
  PROVE  (a \o b) \o c = a \o (b \o c)
BY ConcatAssociative

\* sendInLoop keeps the stream intact, whatever its write takes.
LEMMA SendKeepsStream ==
  ASSUME TypeOK, StreamIntact, NEW n \in Nat, NEW q, SendInLoop(n, q)
  PROVE  StreamIntact'
<1>1. CASE state = "kDisconnected"
  BY <1>1 DEF SendInLoop, StreamIntact
<1>2. CASE state # "kDisconnected"
  <2>1. PICK k \in (IF Direct THEN WriteTakes(n) ELSE {0}) : SendTaking(n, q, k)
    BY <1>2 DEF SendInLoop
  <2> DEFINE d == Bytes(accepted, n)
             d1 == SubSeq(d, 1, k)
             d2 == SubSeq(d, k + 1, n)
  <2>2. k \in 0 .. n /\ accepted \in Nat BY DEF WriteTakes, TypeOK
  <2>3. /\ wire' = wire \o d1 /\ outBuf' = outBuf \o d2
        /\ accepted' = accepted + n
    BY <2>1 DEF SendTaking
  <2>4. /\ d \in Seq(Nat) /\ Len(d) = n
        /\ Bytes(0, accepted) \o d = Bytes(0, accepted + n)
    BY <2>2, BytesConcat
  <2> HIDE DEF d
  <2>5. d1 \in Seq(Nat) /\ d2 \in Seq(Nat) /\ d1 \o d2 = d
    BY <2>2, <2>4, SplitAt
  <2>6. k # 0 => outBuf = <<>> BY DEF Direct
  <2>7. k = 0 => d1 = <<>>
    <3>1. 0 \in Int /\ 1 \in Int /\ 0 < 1 OBVIOUS
    <3> QED BY <3>1, SubSeqEmpty
  <2> HIDE DEF d1, d2
  <2>8. wire \in Seq(Nat) /\ outBuf \in Seq(Nat) BY DEF TypeOK
  <2>9. wire' \o outBuf' = (wire \o outBuf) \o d
    <3>1. CASE k = 0
      <4>1. d1 = <<>> BY <2>7, <3>1
      <4>2. wire' = wire BY <2>3, <2>8, <4>1, ConcatEmptySeq
      <4>3. d2 = d BY <2>5, <4>1, ConcatEmptySeq
      <4>4. wire \o (outBuf \o d) = (wire \o outBuf) \o d
        BY <2>4, <2>8, BytesAssociative
      <4> QED BY <2>3, <4>2, <4>3, <4>4
    <3>2. CASE k # 0
      <4>1. outBuf = <<>> BY <2>6, <3>2
      <4>2. outBuf' = d2 BY <2>3, <2>5, <4>1, ConcatEmptySeq
      <4>3. wire \o outBuf = wire BY <2>8, <4>1, ConcatEmptySeq
      <4>4. (wire \o d1) \o d2 = wire \o (d1 \o d2)
        BY <2>5, <2>8, BytesAssociative
      <4> QED BY <2>3, <2>5, <4>2, <4>3, <4>4
    <3> QED BY <3>1, <3>2
  <2> QED BY <2>3, <2>4, <2>9 DEF StreamIntact
<1> QED BY <1>1, <1>2

\* Every step keeps the stream intact.
LEMMA StreamStep == TypeOK /\ StreamIntact /\ [Next]_vars => StreamIntact'
<1> SUFFICES ASSUME TypeOK, StreamIntact, [Next]_vars PROVE StreamIntact'
  OBVIOUS
<1>1. CASE UNCHANGED <<wire, outBuf, accepted>>
  BY <1>1 DEF StreamIntact
<1>2. CASE IoSend
  <2>1. PICK n \in 1 .. MaxChunk : SendInLoop(n, queue) BY <1>2 DEF IoSend
  <2>2. n \in Nat BY BoundsAssumption
  <2> QED BY <2>1, <2>2, SendKeepsStream
<1>3. CASE RunSendInLoop
  <2>1. queue # <<>> /\ SendInLoop(Head(queue).len, Tail(queue))
    BY <1>3 DEF RunSendInLoop, Run
  <2>2. Head(queue) \in Item BY <2>1 DEF TypeOK
  <2>3. Head(queue).len \in Nat BY <2>2 DEF Item
  <2> QED BY <2>1, <2>3, SendKeepsStream
<1>4. CASE HandleWrite
  <2>1. accepted' = accepted BY <1>4 DEF HandleWrite, histVars
  <2>2. CASE UNCHANGED <<wire, outBuf>> BY <1>1, <2>1, <2>2
  <2>3. ASSUME NEW n \in 1 .. Len(outBuf),
               wire' = wire \o SubSeq(outBuf, 1, n),
               outBuf' = SubSeq(outBuf, n + 1, Len(outBuf))
        PROVE StreamIntact'
    <3> DEFINE d1 == SubSeq(outBuf, 1, n)
               d2 == SubSeq(outBuf, n + 1, Len(outBuf))
    <3>1. wire \in Seq(Nat) /\ outBuf \in Seq(Nat) /\ n \in 0 .. Len(outBuf)
      BY DEF TypeOK
    <3>2. d1 \in Seq(Nat) /\ d2 \in Seq(Nat) /\ d1 \o d2 = outBuf
      BY <3>1, SplitAt
    <3>3. wire' = wire \o d1 /\ outBuf' = d2 BY <2>3
    <3> HIDE DEF d1, d2
    <3>4. (wire \o d1) \o d2 = wire \o (d1 \o d2)
      BY <3>1, <3>2, BytesAssociative
    <3> QED BY <2>1, <3>2, <3>3, <3>4 DEF StreamIntact
  <2> QED BY <1>4, <2>2, <2>3 DEF HandleWrite
<1>5. CASE \/ IoShutdown \/ IoForceClose
           \/ ConnectEstablished \/ RunShutdownInLoop \/ ForceCloseInLoop
           \/ RunUserCallback \/ ConnectDestroyed
  BY <1>1, <1>5 DEF IoShutdown, IoForceClose, ConnectEstablished,
     RunShutdownInLoop, ForceCloseInLoop, RunUserCallback, ConnectDestroyed,
     connVars, sockVars, histVars
<1>6. CASE \/ Return \/ OnHup \/ OnErr \/ HandleRead \/ Poll(TRUE) \/ Poll(FALSE)
           \/ RemoveConnectionInLoop \/ ServerDtor \/ Peer
  BY <1>1, <1>6 DEF Return, ReturnFromCallback, ReturnFromClosing,
     ReturnFromDestroying, OnHup, OnErr, HandleRead, Poll,
     RemoveConnectionInLoop, ServerDtor, Peer, PeerSends, PeerCloses,
     PeerResets, connVars, sockVars, histVars
<1>7. ASSUME NEW t \in Thread, ForeignCheck(t) \/ Foreign(t)
      PROVE StreamIntact'
  BY <1>1, <1>7 DEF ForeignCheck, Foreign, ForeignSet, ForeignEnqueue,
     ForeignSend, ForeignQueue, connVars, sockVars, histVars
<1>8. CASE UNCHANGED vars
  BY <1>1, <1>8 DEF vars, connVars, sockVars, histVars
<1> QED
  BY <1>2, <1>3, <1>4, <1>5, <1>6, <1>7, <1>8
     DEF Next, UserCall, RunFunctor, Dispatch

-----------------------------------------------------------------------------
(* Buffered output and the FIN.                                            *)

\* Output waits only on a channel that asks for EPOLLOUT, and a channel that
\* asks for it is in the epoll set until connectDestroyed takes it out.
Armed == /\ outBuf # <<>> /\ downs = 0 => isWriting
         /\ isWriting /\ ~destroyed => idx = "kAdded"

LEMMA SendKeepsArmed ==
  ASSUME TypeOK, Armed, NEW n \in Nat, NEW q, SendInLoop(n, q),
         UNCHANGED <<downs, destroyed>>
  PROVE  Armed'
<1>1. CASE state = "kDisconnected"
  BY <1>1 DEF SendInLoop, Armed, isWriting
<1>2. CASE state # "kDisconnected"
  <2>1. PICK k \in (IF Direct THEN WriteTakes(n) ELSE {0}) : SendTaking(n, q, k)
    BY <1>2 DEF SendInLoop
  <2>2. k \in 0 .. n BY DEF WriteTakes
  <2>3. /\ outBuf' = outBuf \o SubSeq(Bytes(accepted, n), k + 1, n)
        /\ IF k < n /\ ~isWriting THEN UpdateChannel(events \cup {"W"})
                                  ELSE UNCHANGED <<events, idx>>
    BY <2>1 DEF SendTaking
  <2>4. CASE k < n
    <3>1. isWriting' BY <2>3, <2>4 DEF UpdateChannel, isWriting
    <3>2. ~destroyed' => idx' = "kAdded"
      BY <2>3, <2>4 DEF UpdateChannel, Armed, isWriting
    <3> QED BY <3>1, <3>2 DEF Armed
  <2>5. CASE ~(k < n)
    <3>1. k = n /\ n < n + 1 /\ n \in Int /\ n + 1 \in Int BY <2>2, <2>5
    <3>2. SubSeq(Bytes(accepted, n), n + 1, n) = <<>> BY <3>1, SubSeqEmpty
    <3>3. outBuf' = outBuf
      BY <2>3, <3>1, <3>2, ConcatEmptySeq DEF TypeOK
    <3>4. UNCHANGED <<events, idx>> BY <2>3, <2>5
    <3> QED BY <3>3, <3>4 DEF Armed, isWriting
  <2> QED BY <2>4, <2>5
<1> QED BY <1>1, <1>2

LEMMA ArmedStep == TypeOK /\ Armed /\ [Next]_vars => Armed'
<1> SUFFICES ASSUME TypeOK, Armed, [Next]_vars PROVE Armed'
  OBVIOUS
<1>1. CASE UNCHANGED <<outBuf, events, idx, downs, destroyed>>
  BY <1>1 DEF Armed, isWriting
<1>2. ASSUME HandleClose, UNCHANGED <<outBuf, destroyed>> PROVE Armed'
  BY <1>2 DEF HandleClose, UpdateChannel, Armed, isWriting, TypeOK
<1>3. CASE IoSend
  <2>1. PICK n \in 1 .. MaxChunk : SendInLoop(n, queue) BY <1>3 DEF IoSend
  <2>2. n \in Nat BY BoundsAssumption
  <2>3. UNCHANGED <<downs, destroyed>> BY <1>3 DEF IoSend
  <2> QED BY <2>1, <2>2, <2>3, SendKeepsArmed
<1>4. CASE RunSendInLoop
  <2>1. queue # <<>> /\ SendInLoop(Head(queue).len, Tail(queue))
    BY <1>4 DEF RunSendInLoop, Run
  <2>2. Head(queue) \in Item BY <2>1 DEF TypeOK
  <2>3. Head(queue).len \in Nat BY <2>2 DEF Item
  <2>4. UNCHANGED <<downs, destroyed>> BY <1>4 DEF RunSendInLoop
  <2> QED BY <2>1, <2>3, <2>4, SendKeepsArmed
<1>5. CASE ConnectEstablished
  BY <1>5 DEF ConnectEstablished, UpdateChannel, Armed, isWriting
<1>6. CASE ForceCloseInLoop
  BY <1>1, <1>2, <1>6 DEF ForceCloseInLoop
<1>7. CASE ConnectDestroyed
  BY <1>7 DEF ConnectDestroyed, RemoveChannel, UpdateChannel, Armed, isWriting,
     TypeOK
<1>8. CASE ReturnFromDestroying
  BY <1>8 DEF ReturnFromDestroying, RemoveChannel, Armed, isWriting
<1>9. CASE OnHup BY <1>1, <1>2, <1>9 DEF OnHup
<1>10. CASE HandleRead BY <1>1, <1>2, <1>10 DEF HandleRead
<1>11. CASE HandleWrite
  <2>1. UNCHANGED <<downs, destroyed>> BY <1>11 DEF HandleWrite, histVars
  <2>2. CASE UNCHANGED <<events, idx, outBuf>> BY <1>1, <2>1, <2>2
  <2>3. CASE outBuf' = <<>> /\ UpdateChannel(events \ {"W"})
    BY <2>1, <2>3 DEF UpdateChannel, Armed, isWriting
  <2>4. CASE isWriting /\ UNCHANGED <<events, idx>>
    BY <2>1, <2>4 DEF Armed, isWriting
  <2> QED BY <1>11, <2>2, <2>3, <2>4 DEF HandleWrite
<1>12. CASE \/ IoShutdown \/ IoForceClose \/ RunShutdownInLoop
            \/ RunUserCallback \/ ReturnFromCallback \/ ReturnFromClosing
            \/ OnErr \/ Poll(TRUE) \/ Poll(FALSE) \/ RemoveConnectionInLoop
            \/ ServerDtor \/ Peer
  BY <1>1, <1>12 DEF IoShutdown, IoForceClose, RunShutdownInLoop,
     RunUserCallback, ReturnFromCallback, ReturnFromClosing, OnErr, Poll,
     RemoveConnectionInLoop, ServerDtor, Peer, PeerSends, PeerCloses,
     PeerResets, connVars, histVars
<1>13. ASSUME NEW t \in Thread, ForeignCheck(t) \/ Foreign(t) PROVE Armed'
  BY <1>1, <1>13 DEF ForeignCheck, Foreign, ForeignSet, ForeignEnqueue,
     ForeignSend, ForeignQueue, connVars, histVars
<1>14. CASE UNCHANGED vars BY <1>1, <1>14 DEF vars, connVars, histVars
<1> QED
  BY <1>3, <1>4, <1>5, <1>6, <1>7, <1>8, <1>9, <1>10, <1>11, <1>12, <1>13,
     <1>14 DEF Next, UserCall, RunFunctor, Return, Dispatch

\* The step that sends the FIN finds nothing in the output buffer.
LEMMA FinStep ==
  Armed /\ [Next]_vars => (~shut /\ shut' /\ downs = 0 => outBuf' = <<>>)
<1> SUFFICES ASSUME Armed, [Next]_vars, ~shut, shut', downs = 0
             PROVE outBuf' = <<>>
  OBVIOUS
<1>1. CASE IoShutdown
  BY <1>1 DEF IoShutdown, ShutdownInLoop, Armed
<1>2. CASE RunShutdownInLoop
  BY <1>2 DEF RunShutdownInLoop, ShutdownInLoop, Armed, connVars
<1>3. CASE HandleWrite BY <1>3 DEF HandleWrite
<1>4. CASE \/ IoSend \/ IoForceClose \/ ConnectEstablished \/ RunSendInLoop
           \/ ForceCloseInLoop \/ RunUserCallback \/ ConnectDestroyed
  BY <1>4 DEF IoSend, IoForceClose, ConnectEstablished, RunSendInLoop,
     ForceCloseInLoop, RunUserCallback, ConnectDestroyed, sockVars
<1>5. CASE \/ Return \/ OnHup \/ OnErr \/ HandleRead \/ Poll(TRUE) \/ Poll(FALSE)
           \/ RemoveConnectionInLoop \/ ServerDtor \/ Peer
  BY <1>5 DEF Return, ReturnFromCallback, ReturnFromClosing,
     ReturnFromDestroying, OnHup, OnErr, HandleRead, Poll,
     RemoveConnectionInLoop, ServerDtor, Peer, PeerSends, PeerCloses,
     PeerResets, sockVars
<1>6. ASSUME NEW t \in Thread, ForeignCheck(t) \/ Foreign(t) PROVE FALSE
  BY <1>6 DEF ForeignCheck, Foreign, ForeignSet, ForeignEnqueue, ForeignSend,
     ForeignQueue, sockVars
<1>7. CASE UNCHANGED vars BY <1>7 DEF vars, sockVars
<1> QED
  BY <1>1, <1>2, <1>3, <1>4, <1>5, <1>6, <1>7
     DEF Next, UserCall, RunFunctor, Dispatch

-----------------------------------------------------------------------------
ConnInv == TypeOK /\ StreamIntact /\ Armed

LEMMA InitInv == Init => ConnInv
<1> SUFFICES ASSUME Init PROVE ConnInv
  OBVIOUS
<1>1. Functor("connectEstablished", 0) \in Item
  BY DEF Item, Functor, FunctorNames
<1>2. queue \in Seq(Item) BY <1>1 DEF Init
<1>3. fpc \in [Thread -> ForeignPC] BY DEF Init, ForeignPC
<1>4. <<>> \in Seq(Nat) BY EmptySeq
<1>5. TypeOK BY <1>2, <1>3, <1>4 DEF Init, TypeOK, IoPC
<1>6. Bytes(0, 0) = <<>>
  <2>1. Bytes(0, 0) \in Seq(Nat) /\ Len(Bytes(0, 0)) = 0 BY BytesConcat
  <2> QED BY <2>1, EmptySeq
<1>7. StreamIntact
  <2>1. wire \o outBuf = <<>> BY <1>4, ConcatEmptySeq DEF Init
  <2> QED BY <1>6, <2>1 DEF StreamIntact, Init
<1>8. Armed BY DEF Init, Armed, isWriting
<1> QED BY <1>5, <1>7, <1>8 DEF ConnInv

\* ConnInv is an invariant of the connection.
THEOREM ConnInvariant == Spec => []ConnInv
<1>1. ConnInv /\ [Next]_vars => ConnInv'
  BY TypeStep, StreamStep, ArmedStep DEF ConnInv
<1> QED BY <1>1, InitInv, PTL DEF Spec

\* The state of a connection keeps its types.
THEOREM TypeCorrect == Spec => []TypeOK
<1>1. ConnInv => TypeOK BY DEF ConnInv
<1> QED BY <1>1, ConnInvariant, PTL

\* The bytes the kernel has taken and the bytes buffered are the bytes accepted,
\* in order, for any number of threads and sends.
THEOREM StreamStaysIntact == Spec => []StreamIntact
<1>1. ConnInv => StreamIntact BY DEF ConnInv
<1> QED BY <1>1, ConnInvariant, PTL

\* Buffered output of a connection that is up waits for EPOLLOUT.
THEOREM OutputStaysArmed == Spec => []OutputArmed
<1>1. ConnInv => OutputArmed BY DEF ConnInv, Armed, OutputArmed
<1> QED BY <1>1, ConnInvariant, PTL

\* However calls of several threads interleave, the FIN of a connection that is
\* up follows the last buffered byte.
THEOREM FinComesLast == Spec => FinAfterDrain
<1>1. ConnInv /\ [Next]_vars
        => [~shut /\ shut' /\ downs = 0 => outBuf' = <<>>]_vars
  BY FinStep DEF ConnInv
<1> QED BY <1>1, ConnInvariant, PTL DEF Spec, FinAfterDrain

-----------------------------------------------------------------------------
(* The connection comes up once, goes down once and stays away.            *)

\* a functor of that name is in q
Named(q, name) == \E k \in 1 .. Len(q) : q[k].fn = name

\* connectEstablished is the oldest functor there is
FirstOnly(q) == \A k \in 1 .. Len(q) : q[k].fn = "connectEstablished" => k = 1

\* connectEstablished has not run yet
Fresh == Named(queue, "connectEstablished")

\* Until connectEstablished has run, nothing at all happens to the connection; it
\* runs once.
FreshInv ==
  /\ FirstOnly(queue)
  /\ Fresh => ups = 0
  /\ ~Fresh => ups = 1
  /\ Fresh => /\ state = "kConnecting" /\ events = {} /\ idx = "kNew"
              /\ pc = "loop" /\ revents = {} /\ downs = 0 /\ ~destroyed
              /\ removals = 0 /\ \A t \in Thread : fpc[t] = "idle"

\* Once reported down the connection cannot hear a message any more.
DownInv == downs > 0 => "R" \notin events /\ "IN" \notin revents /\ pc # "message"

\* a connection that is up, and one that has been reported down
UpFor == /\ state \in {"kConnected", "kDisconnecting"}
         /\ idx = "kAdded" /\ "R" \in events
         /\ ~destroyed /\ removals = 0 /\ pc \in {"loop", "up", "message"}
DownFor == /\ state = "kDisconnected" /\ events = {}
           /\ idx \in {"kDeleted", "kNew"} /\ (destroyed => idx = "kNew")
           /\ revents \subseteq {"ERR", "OUT"}
           /\ pc \in {"loop", "closing", "destroying"}

\* What that takes, if other threads only send and ~TcpServer does not disturb:
\* a connectDestroyed that comes before handleClose is one of ~TcpServer, finds the
\* connection kConnected and reports it; behind the report nothing is left that
\* could report again or touch the channel.
PairInv ==
  /\ \A t \in Thread : fpc[t] \in {"idle", "send"}
  /\ server = "dead" => state # "kDisconnecting"
  /\ Named(queue, "connectDestroyed") /\ downs = 0 => server = "dead"
  /\ ~Fresh => downs \in {0, 1} /\ (downs = 0 => UpFor) /\ (downs = 1 => DownFor)

\* The names in a queue behind an append, a Tail and a concatenation.
LEMMA NamedAppend ==
  ASSUME NEW q \in Seq(Item), NEW x \in Item
  PROVE  /\ \A name : Named(Append(q, x), name) <=> Named(q, name) \/ x.fn = name
         /\ FirstOnly(q) /\ x.fn # "connectEstablished" => FirstOnly(Append(q, x))
<1>1. /\ Len(q) \in Nat /\ Len(Append(q, x)) = Len(q) + 1
      /\ \A k \in 1 .. Len(q) : Append(q, x)[k] = q[k]
      /\ Append(q, x)[Len(q) + 1] = x
  BY AppendProperties
<1> DEFINE r == Append(q, x)
<1> HIDE DEF r
<1>2. \A name : Named(r, name) <=> Named(q, name) \/ x.fn = name
  BY <1>1 DEF Named, r
<1>3. FirstOnly(q) /\ x.fn # "connectEstablished" => FirstOnly(r)
  BY <1>1 DEF FirstOnly, r
<1> QED BY <1>2, <1>3 DEF r

LEMMA NamedTail ==
  ASSUME NEW q \in Seq(Item), q # <<>>
  PROVE  /\ \A name : Named(q, name) <=> Head(q).fn = name \/ Named(Tail(q), name)
         /\ FirstOnly(q) => ~Named(Tail(q), "connectEstablished") /\ FirstOnly(Tail(q))
<1>1. /\ Tail(q) \in Seq(Item) /\ Len(q) \in Nat \ {0} /\ Len(Tail(q)) = Len(q) - 1
      /\ Head(q) = q[1]
      /\ \A k \in 1 .. Len(q) - 1 : Tail(q)[k] = q[k + 1]
  BY HeadTailProperties, LenProperties, EmptySeq
<1> DEFINE r == Tail(q)
<1> HIDE DEF r
<1>2. ASSUME NEW name, Named(r, name) PROVE Named(q, name)
  <2>1. PICK k \in 1 .. Len(r) : r[k].fn = name BY <1>2 DEF Named
  <2>2. k + 1 \in 1 .. Len(q) /\ q[k + 1].fn = name BY <1>1, <2>1 DEF r
  <2> QED BY <2>2 DEF Named
<1>3. ASSUME NEW name, Named(q, name), Head(q).fn # name PROVE Named(r, name)
  <2>1. PICK k \in 1 .. Len(q) : q[k].fn = name BY <1>3 DEF Named
  <2>2. k - 1 \in 1 .. Len(q) - 1 /\ (k - 1) + 1 = k BY <1>1, <1>3, <2>1
  <2>3. r[k - 1].fn = name BY <1>1, <2>1, <2>2 DEF r
  <2> QED BY <1>1, <2>2, <2>3 DEF Named, r
<1>4. Named(q, Head(q).fn) BY <1>1 DEF Named
<1>5. FirstOnly(q) => ~Named(r, "connectEstablished")
  BY <1>1 DEF FirstOnly, Named, r
<1>6. FirstOnly(q) => FirstOnly(r) BY <1>5 DEF FirstOnly, Named
<1> QED BY <1>2, <1>3, <1>4, <1>5, <1>6 DEF r

LEMMA NamedConcat ==
  ASSUME NEW q \in Seq(Item), NEW s \in Seq(Item), ~Named(s, "connectEstablished")
  PROVE  /\ \A name : Named(q \o s, name) <=> Named(q, name) \/ Named(s, name)
         /\ FirstOnly(q) => FirstOnly(q \o s)
<1>1. /\ Len(q) \in Nat /\ Len(s) \in Nat /\ Len(q \o s) = Len(q) + Len(s)
      /\ \A k \in 1 .. Len(q) + Len(s) :
           (q \o s)[k] = IF k <= Len(q) THEN q[k] ELSE s[k - Len(q)]
  BY ConcatProperties
<1> DEFINE r == q \o s
<1> HIDE DEF r
<1>2. ASSUME NEW k \in 1 .. Len(r), k > Len(q)
      PROVE  k - Len(q) \in 1 .. Len(s) /\ r[k] = s[k - Len(q)]
  BY <1>1, <1>2 DEF r
<1>3. ASSUME NEW k \in 1 .. Len(q) PROVE k \in 1 .. Len(r) /\ r[k] = q[k]
  BY <1>1 DEF r
<1>4. ASSUME NEW k \in 1 .. Len(s)
      PROVE  Len(q) + k \in 1 .. Len(r) /\ r[Len(q) + k] = s[k]
  <2>1. Len(q) + k \in 1 .. Len(q) + Len(s) /\ ~(Len(q) + k <= Len(q)) /\ (Len(q) + k) - Len(q) = k
    BY <1>1
  <2> QED BY <1>1, <2>1 DEF r
<1>5. ASSUME NEW name PROVE Named(r, name) <=> Named(q, name) \/ Named(s, name)
  <2>1. ASSUME Named(r, name) PROVE Named(q, name) \/ Named(s, name)
    <3>1. PICK k \in 1 .. Len(r) : r[k].fn = name BY <2>1 DEF Named
    <3>2. CASE k > Len(q) BY <1>2, <3>1, <3>2 DEF Named
    <3>3. CASE ~(k > Len(q))
      <4>1. k \in 1 .. Len(q) BY <1>1, <3>3
      <4> QED BY <1>3, <3>1, <4>1 DEF Named
    <3> QED BY <3>2, <3>3
  <2>2. Named(q, name) => Named(r, name) BY <1>3 DEF Named
  <2>3. Named(s, name) => Named(r, name) BY <1>4 DEF Named
  <2> QED BY <2>1, <2>2, <2>3
<1>6. ASSUME FirstOnly(q) PROVE FirstOnly(r)
  <2> SUFFICES ASSUME NEW k \in 1 .. Len(r), r[k].fn = "connectEstablished" PROVE k = 1
    BY DEF FirstOnly
  <2>1. ~(k > Len(q)) BY <1>2 DEF Named
  <2>2. k \in 1 .. Len(q) BY <1>1, <2>1
  <2> QED BY <1>3, <1>6, <2>2 DEF FirstOnly
<1> QED BY <1>5, <1>6 DEF r

\* What sendInLoop queues are callbacks of the user.
LEMMA SendNames ==
  ASSUME NEW n, NEW q \in Seq(Item), SendInLoop(n, q)
  PROVE  /\ \A name \in {"connectEstablished", "connectDestroyed"} :
              Named(queue', name) <=> Named(q, name)
         /\ FirstOnly(q) => FirstOnly(queue')
<1>1. CASE queue' = q BY <1>1
<1>2. ASSUME NEW k, SendTaking(n, q, k)
      PROVE  /\ \A name \in {"connectEstablished", "connectDestroyed"} :
                  Named(queue', name) <=> Named(q, name)
             /\ FirstOnly(q) => FirstOnly(queue')
  <2> DEFINE s1 == IF k = n THEN <<Functor("writeComplete", 0)>> ELSE <<>>
             s2 == IF /\ k < n
                      /\ Len(outBuf) + Len(SubSeq(Bytes(accepted, n), k + 1, n))
                           >= HighWater
                      /\ Len(outBuf) < HighWater
                     THEN <<Functor("highWater", 0)>> ELSE <<>>
  <2>1. queue' = q \o s1 \o s2 BY <1>2 DEF SendTaking
  <2>2. Functor("writeComplete", 0) \in Item /\ Functor("highWater", 0) \in Item
    BY DEF Item, Functor, FunctorNames
  <2>3. s1 \in Seq(Item) /\ s2 \in Seq(Item) BY <2>2
  <2>4. /\ \A name \in {"connectEstablished", "connectDestroyed"} :
             ~Named(s1, name) /\ ~Named(s2, name)
    <3>1. /\ \A i \in 1 .. Len(s1) : s1[i] = Functor("writeComplete", 0)
          /\ \A i \in 1 .. Len(s2) : s2[i] = Functor("highWater", 0)
      <4>1. \A f : /\ \A i \in 1 .. Len(<<f>>) : <<f>>[i] = f
                   /\ \A i \in 1 .. Len(<<>>) : <<>>[i] = f
        OBVIOUS
      <4>2. /\ s1 = <<Functor("writeComplete", 0)>> \/ s1 = <<>>
            /\ s2 = <<Functor("highWater", 0)>> \/ s2 = <<>>
        OBVIOUS
      <4> HIDE DEF s1, s2
      <4> QED BY <4>1, <4>2
    <3>2. /\ Functor("writeComplete", 0).fn = "writeComplete"
          /\ Functor("highWater", 0).fn = "highWater"
      BY DEF Functor
    <3> HIDE DEF s1, s2
    <3> QED BY <3>1, <3>2 DEF Named
  <2> HIDE DEF s1, s2
  <2>5. PICK p \in Seq(Item) : p = q \o s1 BY <2>3, ConcatProperties
  <2>6. /\ \A name : Named(p, name) <=> Named(q, name) \/ Named(s1, name)
        /\ FirstOnly(q) => FirstOnly(p)
    BY <2>3, <2>4, <2>5, NamedConcat
  <2>7. /\ \A name : Named(p \o s2, name) <=> Named(p, name) \/ Named(s2, name)
        /\ FirstOnly(p) => FirstOnly(p \o s2)
    BY <2>3, <2>4, NamedConcat
  <2> QED BY <2>1, <2>4, <2>5, <2>6, <2>7
<1> QED BY <1>1, <1>2 DEF SendInLoop

\* What a functor that runs, or is queued, does to the queue.
LEMMA RunNames ==
  ASSUME TypeOK, FirstOnly(queue), NEW name, Run(name)
  PROVE  /\ queue # <<>> /\ Tail(queue) \in Seq(Item) /\ Head(queue).fn = name
         /\ Fresh <=> name = "connectEstablished"
         /\ \A m : Named(Tail(queue), m) => Named(queue, m)
         /\ ~Named(Tail(queue), "connectEstablished") /\ FirstOnly(Tail(queue))
<1>1. queue \in Seq(Item) /\ queue # <<>> /\ Head(queue).fn = name
  BY DEF TypeOK, Run
<1>2. /\ \A m : Named(queue, m) <=> Head(queue).fn = m \/ Named(Tail(queue), m)
      /\ ~Named(Tail(queue), "connectEstablished") /\ FirstOnly(Tail(queue))
  BY <1>1, NamedTail
<1>3. Tail(queue) \in Seq(Item) BY <1>1
<1> QED BY <1>1, <1>2, <1>3 DEF Fresh

LEMMA AppendNames ==
  ASSUME TypeOK, FirstOnly(queue), NEW name \in FunctorNames, NEW n \in Nat,
         name # "connectEstablished", queue' = Append(queue, Functor(name, n))
  PROVE  /\ FirstOnly(queue') /\ (Fresh' <=> Fresh)
         /\ \A m : Named(queue', m) <=> Named(queue, m) \/ m = name
<1>1. queue \in Seq(Item) /\ Functor(name, n) \in Item /\ Functor(name, n).fn = name
  BY DEF TypeOK, Item, Functor
<1>2. /\ FirstOnly(Append(queue, Functor(name, n)))
      /\ \A m : Named(Append(queue, Functor(name, n)), m) <=> Named(queue, m) \/ m = name
  BY <1>1, NamedAppend
<1> QED BY <1>2 DEF Fresh

\* The steps of a connection: how each one treats the queue.

\* Every step preserves FreshInv.
LEMMA FreshStep == TypeOK /\ FreshInv /\ [Next]_vars => FreshInv'
<1> SUFFICES ASSUME TypeOK, FreshInv, [Next]_vars PROVE FreshInv'
  OBVIOUS
<1>0. FirstOnly(queue) BY DEF FreshInv
<1>n. {"forceCloseInLoop", "writeComplete", "connectDestroyed", "shutdownInLoop", "sendInLoop"}
        \subseteq FunctorNames
  BY DEF FunctorNames
<1>1. ASSUME UNCHANGED <<queue, ups>>, Fresh => UNCHANGED <<state, events, idx, pc, revents, downs, destroyed, removals, fpc>>
      PROVE FreshInv'
  <2>1. Fresh' <=> Fresh BY <1>1 DEF Fresh
  <2> QED BY <1>1, <2>1 DEF FreshInv
<1>2. ASSUME FirstOnly(queue'), Fresh' <=> Fresh, UNCHANGED ups,
             Fresh => UNCHANGED <<state, events, idx, pc, revents, downs, destroyed, removals, fpc>>
      PROVE FreshInv'
  BY <1>2 DEF FreshInv
<1>3. ASSUME NEW name, Run(name), name # "connectEstablished", UNCHANGED ups,
             queue' = Tail(queue)
      PROVE FreshInv'
  <2>1. ~Fresh /\ FirstOnly(queue') /\ ~Fresh' BY <1>0, <1>3, RunNames DEF Fresh
  <2> QED BY <1>3, <2>1 DEF FreshInv
<1>4. CASE IoSend
  <2>1. PICK n \in 1 .. MaxChunk : SendInLoop(n, queue) BY <1>4 DEF IoSend
  <2>2. queue \in Seq(Item) BY DEF TypeOK
  <2>3. FirstOnly(queue') /\ (Fresh' <=> Fresh) BY <1>0, <2>1, <2>2, SendNames DEF Fresh
  <2>4. ~Fresh /\ UNCHANGED ups BY <1>4 DEF IoSend, FreshInv
  <2> QED BY <1>2, <2>3, <2>4
<1>5. CASE RunSendInLoop
  <2>1. Run("sendInLoop") /\ SendInLoop(Head(queue).len, Tail(queue)) /\ UNCHANGED ups
    BY <1>5 DEF RunSendInLoop
  <2>2. /\ ~Fresh /\ Tail(queue) \in Seq(Item)
        /\ ~Named(Tail(queue), "connectEstablished") /\ FirstOnly(Tail(queue))
    BY <1>0, <2>1, RunNames
  <2>3. FirstOnly(queue') /\ ~Fresh' BY <2>1, <2>2, SendNames DEF Fresh
  <2> QED BY <1>2, <2>1, <2>2, <2>3
<1>6. CASE IoShutdown
  <2>1. ~Fresh /\ UNCHANGED <<queue, ups>> BY <1>6 DEF IoShutdown, FreshInv, loopVars
  <2> QED BY <1>1, <2>1
<1>7. CASE IoForceClose
  <2>1. /\ ~Fresh /\ UNCHANGED ups
        /\ queue' = Append(queue, Functor("forceCloseInLoop", 0))
    BY <1>7 DEF IoForceClose, FreshInv
  <2>2. FirstOnly(queue') /\ (Fresh' <=> Fresh) BY <1>0, <1>n, <2>1, AppendNames
  <2> QED BY <1>2, <2>1, <2>2
<1>8. CASE ConnectEstablished
  <2>1. Run("connectEstablished") /\ queue' = Tail(queue) /\ ups' = ups + 1
    BY <1>8 DEF ConnectEstablished
  <2>2. Fresh /\ FirstOnly(queue') /\ ~Fresh' BY <1>0, <2>1, RunNames DEF Fresh
  <2>3. ups' = 1 BY <2>1, <2>2 DEF FreshInv
  <2> QED BY <2>2, <2>3 DEF FreshInv
<1>9. CASE RunShutdownInLoop
  BY <1>3, <1>9 DEF RunShutdownInLoop, histVars
<1>10. CASE ForceCloseInLoop BY <1>3, <1>10 DEF ForceCloseInLoop
<1>11. CASE RunUserCallback BY <1>3, <1>11 DEF RunUserCallback, histVars
<1>12. CASE ConnectDestroyed BY <1>3, <1>12 DEF ConnectDestroyed
<1>13. CASE Return
  <2>1. UNCHANGED <<queue, ups>> /\ pc # "loop"
    BY <1>13 DEF Return, ReturnFromCallback, ReturnFromClosing, ReturnFromDestroying, histVars
  <2> QED BY <1>1, <2>1 DEF FreshInv
<1>14. CASE OnHup \/ OnErr \/ HandleRead
  <2>1. UNCHANGED <<queue, ups>> /\ revents # {}
    BY <1>14 DEF OnHup, OnErr, HandleRead, Handling, histVars
  <2> QED BY <1>1, <2>1 DEF FreshInv
<1>15. CASE HandleWrite
  <2>1. /\ ~Fresh /\ UNCHANGED ups
        /\ queue' = queue \/ queue' = Append(queue, Functor("writeComplete", 0))
    BY <1>15 DEF HandleWrite, Handling, histVars, FreshInv
  <2>2. FirstOnly(queue') /\ (Fresh' <=> Fresh)
    BY <1>0, <1>n, <2>1, AppendNames DEF Fresh
  <2> QED BY <1>2, <2>1, <2>2
<1>16. CASE Poll(TRUE) \/ Poll(FALSE)
  <2>1. UNCHANGED <<queue, ups>> /\ ~Fresh
    BY <1>16 DEF Poll, FreshInv, histVars
  <2> QED BY <1>1, <2>1
<1>17. CASE RemoveConnectionInLoop
  <2>1. /\ ~Fresh /\ UNCHANGED ups
        /\ queue' = Append(queue, Functor("connectDestroyed", 0))
    BY <1>17 DEF RemoveConnectionInLoop, FreshInv, histVars
  <2>2. FirstOnly(queue') /\ (Fresh' <=> Fresh) BY <1>0, <1>n, <2>1, AppendNames
  <2> QED BY <1>2, <2>1, <2>2
<1>18. CASE ServerDtor
  <2>1. /\ UNCHANGED <<ups, state, events, idx, pc, revents, downs, destroyed, removals, fpc>>
        /\ queue' = queue \/ queue' = Append(queue, Functor("connectDestroyed", 0))
    BY <1>18 DEF ServerDtor, connVars, histVars
  <2>2. FirstOnly(queue') /\ (Fresh' <=> Fresh)
    BY <1>0, <1>n, <2>1, AppendNames DEF Fresh
  <2> QED BY <1>2, <2>1, <2>2
<1>19. CASE Peer
  BY <1>1, <1>19 DEF Peer, PeerSends, PeerCloses, PeerResets, connVars, loopVars, baseVars, histVars
<1>20. ASSUME NEW t \in Thread, ForeignCheck(t) \/ ForeignSet(t) PROVE FreshInv'
  <2>1. UNCHANGED <<queue, ups>> /\ ~Fresh
    BY <1>20, OpsAssumption DEF ForeignCheck, ForeignSet, ForeignStep, FreshInv, loopVars, histVars
  <2> QED BY <1>1, <2>1
<1>21. ASSUME NEW t \in Thread, ForeignEnqueue(t) PROVE FreshInv'
  <2>1. PICK name \in {"sendInLoop", "shutdownInLoop", "forceCloseInLoop"}, n \in Nat :
          queue' = Append(queue, Functor(name, n))
    BY <1>21, BoundsAssumption DEF ForeignEnqueue, ForeignSend, ForeignQueue
  <2>2. fpc[t] # "idle" /\ UNCHANGED ups
    BY <1>21 DEF ForeignEnqueue, ForeignSend, ForeignQueue, ForeignStep, histVars
  <2>3. ~Fresh BY <2>2 DEF FreshInv
  <2>4. FirstOnly(queue') /\ (Fresh' <=> Fresh) BY <1>0, <1>n, <2>1, AppendNames
  <2> QED BY <1>2, <2>2, <2>3, <2>4
<1>22. CASE UNCHANGED vars
  BY <1>1, <1>22 DEF vars, connVars, loopVars, baseVars, histVars
<1> QED
  BY <1>4, <1>5, <1>6, <1>7, <1>8, <1>9, <1>10, <1>11, <1>12, <1>13, <1>14, <1>15,
     <1>16, <1>17, <1>18, <1>19, <1>20, <1>21, <1>22
     DEF Next, UserCall, RunFunctor, Dispatch, Foreign

\* sendInLoop may only ask for EPOLLOUT, and not once it is disconnected.
LEMMA SendEvents ==
  ASSUME NEW n, NEW q, SendInLoop(n, q)
  PROVE  \/ UNCHANGED <<events, idx>>
         \/ /\ state # "kDisconnected"
            /\ events' = events \cup {"W"} /\ idx' = "kAdded"
<1>1. ASSUME NEW k, SendTaking(n, q, k)
      PROVE  \/ UNCHANGED <<events, idx>>
             \/ events' = events \cup {"W"} /\ idx' = "kAdded"
  BY <1>1 DEF SendTaking, UpdateChannel
<1> QED BY <1>1 DEF SendInLoop

\* Every step preserves DownInv: the close of a poll is its last look at the
\* socket, and connectEstablished, which alone asks for EPOLLIN, has run before.
LEMMA DownStep == TypeOK /\ FreshInv /\ DownInv /\ [Next]_vars => DownInv'
<1> SUFFICES ASSUME TypeOK, FreshInv, DownInv, [Next]_vars PROVE DownInv'
  OBVIOUS
<1>1. ASSUME UNCHANGED <<events, downs>>, revents' \subseteq revents,
             pc' = pc \/ pc' = "loop"
      PROVE  DownInv'
  BY <1>1 DEF DownInv
<1>2. ASSUME HandleClose, "IN" \notin revents' PROVE DownInv'
  BY <1>2 DEF HandleClose, UpdateChannel, DownInv
<1>3. ASSUME NEW n, NEW q, SendInLoop(n, q), UNCHANGED <<downs, revents, pc>>
      PROVE DownInv'
  BY <1>3, SendEvents DEF DownInv
<1>4. CASE IoSend \/ RunSendInLoop BY <1>3, <1>4 DEF IoSend, RunSendInLoop
<1>5. CASE ConnectEstablished
  <2>1. Fresh BY <1>5, RunNames DEF ConnectEstablished, FreshInv
  <2> QED BY <1>5, <2>1 DEF FreshInv, ConnectEstablished, DownInv
<1>6. CASE ForceCloseInLoop
  <2>1. revents = {} /\ UNCHANGED revents BY <1>6 DEF ForceCloseInLoop, Run
  <2> QED BY <1>1, <1>2, <1>6, <2>1 DEF ForceCloseInLoop
<1>7. CASE ConnectDestroyed
  <2>1. revents = {} /\ UNCHANGED revents BY <1>7 DEF ConnectDestroyed, Run
  <2> QED BY <1>1, <1>7, <2>1 DEF ConnectDestroyed, RemoveChannel, UpdateChannel, DownInv
<1>8. CASE Return
  BY <1>1, <1>8 DEF Return, ReturnFromCallback, ReturnFromClosing,
     ReturnFromDestroying, connVars, histVars
<1>9. CASE OnHup
  <2>1. revents' \subseteq revents BY <1>9 DEF OnHup, Handling
  <2> QED BY <1>1, <1>2, <1>9, <2>1 DEF OnHup
<1>10. CASE HandleRead
  <2>1. "IN" \in revents /\ revents' = revents \ {"IN"}
    BY <1>10 DEF HandleRead, Handling
  <2>2. ~(downs > 0) BY <2>1 DEF DownInv
  <2> QED BY <1>2, <1>10, <2>1, <2>2 DEF HandleRead, DownInv
<1>11. CASE HandleWrite
  BY <1>11 DEF HandleWrite, Handling, UpdateChannel, DownInv, histVars
<1>12. CASE Poll(TRUE) \/ Poll(FALSE)
  BY <1>12 DEF Poll, Ready, DownInv, connVars, histVars
<1>13. CASE OnErr BY <1>1, <1>13 DEF OnErr, Handling, connVars, histVars
<1>14. CASE \/ IoShutdown \/ IoForceClose \/ RunShutdownInLoop \/ RunUserCallback
            \/ RemoveConnectionInLoop \/ ServerDtor \/ Peer
  BY <1>1, <1>14 DEF IoShutdown, IoForceClose, RunShutdownInLoop, RunUserCallback,
     RemoveConnectionInLoop, ServerDtor, Peer, PeerSends, PeerCloses, PeerResets,
     connVars, loopVars, histVars
<1>15. ASSUME NEW t \in Thread, ForeignCheck(t) \/ Foreign(t) PROVE DownInv'
  BY <1>1, <1>15 DEF ForeignCheck, Foreign, ForeignSet, ForeignEnqueue,
     ForeignSend, ForeignQueue, connVars, loopVars, histVars
<1>16. CASE UNCHANGED vars BY <1>1, <1>16 DEF vars, connVars, loopVars, histVars
<1> QED
  BY <1>4, <1>5, <1>6, <1>7, <1>8, <1>9, <1>10, <1>11, <1>12, <1>13, <1>14, <1>15,
     <1>16 DEF Next, UserCall, RunFunctor, Dispatch

\* newConnection has queued connectEstablished and nothing else.
LEMMA FreshInit == Init => FreshInv /\ DownInv
<1> SUFFICES ASSUME Init PROVE FreshInv /\ DownInv
  OBVIOUS
<1>1. Len(queue) = 1 /\ queue[1].fn = "connectEstablished" BY DEF Init, Functor
<1>2. Fresh /\ FirstOnly(queue) BY <1>1 DEF Fresh, Named, FirstOnly
<1> QED BY <1>2 DEF Init, FreshInv, DownInv

\* No message reaches the application after the down callback, for any number of
\* threads, whatever they call and whether or not ~TcpServer runs
\* (handleEventWithGuard, handleClose, handleRead).
THEOREM NoMessageComesLate == Spec => []NoMessageAfterDown
<1>1. FreshInv /\ DownInv /\ ConnInv /\ [Next]_vars => (FreshInv /\ DownInv)'
  BY FreshStep, DownStep DEF ConnInv
<1>2. ConnInv /\ DownInv => NoMessageAfterDown
  BY DEF ConnInv, TypeOK, DownInv, NoMessageAfterDown
<1> QED BY <1>1, <1>2, FreshInit, ConnInvariant, PTL DEF Spec


\* Every step preserves PairInv.
LEMMA PairStep ==
  ASSUME ForeignOps \subseteq {"send"}, TypeOK, FreshInv, FreshInv', PairInv,
         [Next]_vars, [UndisturbedDtor]_vars
  PROVE  PairInv'
<1>0. FirstOnly(queue) BY DEF FreshInv
<1>n. {"forceCloseInLoop", "writeComplete", "connectDestroyed", "shutdownInLoop", "sendInLoop"}
        \subseteq FunctorNames
  BY DEF FunctorNames
<1>d. server' = "dead" => state' # "kDisconnecting"
  BY DEF UndisturbedDtor, PairInv, vars, connVars, baseVars
<1>f. \A t \in Thread : fpc'[t] \in {"idle", "send"}
  <2>1. CASE UNCHANGED fpc BY <2>1 DEF PairInv
  <2>2. ASSUME NEW t \in Thread, ForeignCheck(t) \/ Foreign(t)
        PROVE  \A u \in Thread : fpc'[u] \in {"idle", "send"}
    <3>1. \E to \in {"idle", "send"} : fpc' = [fpc EXCEPT ![t] = to]
      <4>1. CASE ForeignCheck(t) BY <4>1 DEF ForeignCheck, ForeignStep
      <4>2. CASE ForeignSet(t) BY <4>2 DEF ForeignSet, ForeignStep, PairInv
      <4>3. CASE ForeignEnqueue(t)
        BY <4>3 DEF ForeignEnqueue, ForeignSend, ForeignQueue, ForeignStep
      <4> QED BY <2>2, <4>1, <4>2, <4>3 DEF Foreign
    <3> QED BY <3>1 DEF PairInv, TypeOK
  <2>3. UNCHANGED fpc \/ \E t \in Thread : ForeignCheck(t) \/ Foreign(t)
    <3>1. CASE UserCall \/ RunFunctor \/ Return
      BY <3>1 DEF UserCall, IoSend, IoShutdown, IoForceClose, RunFunctor,
         ConnectEstablished, RunSendInLoop, RunShutdownInLoop, ForceCloseInLoop,
         RunUserCallback, ConnectDestroyed, Return, ReturnFromCallback,
         ReturnFromClosing, ReturnFromDestroying
    <3>2. CASE \/ Dispatch \/ Poll(TRUE) \/ Poll(FALSE) \/ RemoveConnectionInLoop
               \/ ServerDtor \/ Peer
      BY <3>2 DEF Dispatch, OnHup, OnErr, HandleRead, HandleWrite, Poll,
         RemoveConnectionInLoop, ServerDtor, Peer, PeerSends, PeerCloses, PeerResets
    <3>3. CASE UNCHANGED vars BY <3>3 DEF vars
    <3> QED BY <3>1, <3>2, <3>3 DEF Next
  <2> QED BY <2>1, <2>2, <2>3
\* what is left to show of a step
<1>g. ASSUME Named(queue', "connectDestroyed") /\ downs' = 0 => server' = "dead",
             ~Fresh' => /\ downs' \in {0, 1}
                        /\ downs' = 0 => UpFor'
                        /\ downs' = 1 => DownFor'
      PROVE  PairInv'
  BY <1>d, <1>f, <1>g DEF PairInv
\* steps that leave the connection itself alone
<1>1. ASSUME UNCHANGED <<state, events, idx, downs, destroyed, removals>>,
             pc' = pc \/ pc' = "loop", revents' \subseteq revents, Fresh' <=> Fresh,
             Named(queue', "connectDestroyed") /\ downs = 0 => server' = "dead"
      PROVE  PairInv'
  BY <1>1, <1>g DEF PairInv, UpFor, DownFor
<1>2. ASSUME UNCHANGED <<queue, server>> \/ (UNCHANGED server /\ \A m : Named(queue', m) => Named(queue, m))
      PROVE  Named(queue', "connectDestroyed") /\ downs = 0 => server' = "dead"
  BY <1>2 DEF PairInv
\* handleClose
<1>3. ASSUME HandleClose, UNCHANGED <<destroyed>>, ~Fresh, downs = 0, ~Fresh',
             revents' \subseteq {"ERR", "OUT"}
      PROVE  PairInv'
  <2>1. UpFor BY <1>3 DEF PairInv
  <2>2. downs' = 1 /\ DownFor'
    BY <1>3, <2>1 DEF HandleClose, UpdateChannel, UpFor, DownFor
  <2> QED BY <1>g, <2>2
<1>4. ASSUME NEW name, Run(name), name # "connectEstablished",
             queue' = Tail(queue)
      PROVE  /\ ~Fresh /\ ~Fresh' /\ revents = {}
             /\ \A m : Named(queue', m) => Named(queue, m)
  BY <1>0, <1>4, RunNames DEF Fresh, Run
<1>5. CASE IoSend
  <2>1. PICK n \in 1 .. MaxChunk : SendInLoop(n, queue) BY <1>5 DEF IoSend
  <2>2. queue \in Seq(Item) /\ state = "kConnected" BY <1>5 DEF TypeOK, IoSend
  <2>3. /\ Fresh' <=> Fresh
        /\ Named(queue', "connectDestroyed") <=> Named(queue, "connectDestroyed")
    BY <2>1, <2>2, SendNames DEF Fresh
  <2>4. UNCHANGED <<state, pc, revents, server, removals, downs, destroyed>>
    BY <1>5 DEF IoSend, baseVars
  <2>5. \/ UNCHANGED <<events, idx>>
        \/ events' = events \cup {"W"} /\ idx' = "kAdded"
    BY <2>1, SendEvents
  <2>6. ~Fresh => downs = 0 /\ UpFor BY <2>2 DEF PairInv, DownFor
  <2>7. ~Fresh' => downs' = 0 /\ UpFor' BY <2>3, <2>4, <2>5, <2>6 DEF UpFor
  <2>8. Named(queue', "connectDestroyed") /\ downs' = 0 => server' = "dead"
    BY <2>3, <2>4 DEF PairInv
  <2> QED BY <1>g, <2>7, <2>8
<1>6. CASE RunSendInLoop
  <2>1. Run("sendInLoop") /\ SendInLoop(Head(queue).len, Tail(queue))
    BY <1>6 DEF RunSendInLoop
  <2>2. /\ ~Fresh /\ Tail(queue) \in Seq(Item)
        /\ \A m : Named(Tail(queue), m) => Named(queue, m)
    BY <1>0, <2>1, RunNames
  <2>3. Named(queue', "connectDestroyed") => Named(queue, "connectDestroyed")
    BY <2>1, <2>2, SendNames
  <2>4. UNCHANGED <<state, pc, revents, server, removals, downs, destroyed>>
    BY <1>6 DEF RunSendInLoop, baseVars
  <2>5. \/ UNCHANGED <<events, idx>>
        \/ state # "kDisconnected" /\ events' = events \cup {"W"} /\ idx' = "kAdded"
    BY <2>1, SendEvents
  <2>6. CASE downs = 0 BY <1>g, <2>2, <2>3, <2>4, <2>5, <2>6 DEF PairInv, UpFor
  <2>7. CASE downs = 1 BY <1>g, <2>2, <2>3, <2>4, <2>5, <2>7 DEF PairInv, DownFor
  <2> QED BY <2>2, <2>6, <2>7 DEF PairInv
<1>7. CASE IoShutdown
  <2>1. /\ state = "kConnected" /\ state' = "kDisconnecting"
        /\ UNCHANGED <<events, idx, queue, pc, revents, server, removals, downs, destroyed>>
    BY <1>7 DEF IoShutdown, loopVars, baseVars
  <2>2. Fresh' <=> Fresh BY <2>1 DEF Fresh
  <2>3. ~Fresh => downs = 0 /\ UpFor BY <2>1 DEF PairInv, DownFor
  <2>4. ~Fresh' => downs' = 0 /\ UpFor' BY <2>1, <2>2, <2>3 DEF UpFor
  <2>5. Named(queue', "connectDestroyed") /\ downs' = 0 => server' = "dead"
    BY <2>1 DEF PairInv
  <2> QED BY <1>g, <2>4, <2>5
<1>8. CASE IoForceClose
  <2>1. /\ state \in {"kConnected", "kDisconnecting"} /\ state' = "kDisconnecting"
        /\ queue' = Append(queue, Functor("forceCloseInLoop", 0))
        /\ UNCHANGED <<events, idx, pc, revents, server, removals, downs, destroyed>>
    BY <1>8 DEF IoForceClose, baseVars
  <2>2. /\ Fresh' <=> Fresh
        /\ Named(queue', "connectDestroyed") => Named(queue, "connectDestroyed")
    BY <1>0, <1>n, <2>1, AppendNames
  <2>3. ~Fresh => downs = 0 /\ UpFor BY <2>1 DEF PairInv, DownFor
  <2>4. ~Fresh' => downs' = 0 /\ UpFor' BY <2>1, <2>2, <2>3 DEF UpFor
  <2>5. Named(queue', "connectDestroyed") /\ downs' = 0 => server' = "dead"
    BY <2>1, <2>2 DEF PairInv
  <2> QED BY <1>g, <2>4, <2>5
<1>9. CASE ConnectEstablished
  <2>1. /\ Run("connectEstablished") /\ queue' = Tail(queue)
        /\ state' = "kConnected" /\ pc' = "up"
        /\ UpdateChannel(events \cup {"R"})
        /\ UNCHANGED <<removals, server, downs, destroyed>>
    BY <1>9 DEF ConnectEstablished, baseVars
  <2>2. Fresh /\ \A m : Named(queue', m) => Named(queue, m)
    BY <1>0, <2>1, RunNames
  <2>3. UpFor' /\ downs' = 0
    BY <2>1, <2>2 DEF UpFor, UpdateChannel, FreshInv
  <2>4. Named(queue', "connectDestroyed") /\ downs' = 0 => server' = "dead"
    BY <1>2, <2>1, <2>2, <2>3
  <2> QED BY <1>g, <2>3, <2>4
<1>10. CASE ForceCloseInLoop
  <2>1. /\ Run("forceCloseInLoop") /\ queue' = Tail(queue)
        /\ UNCHANGED <<revents, removals, server, destroyed>>
    BY <1>10 DEF ForceCloseInLoop, baseVars
  <2>2. /\ ~Fresh /\ ~Fresh' /\ revents = {}
        /\ \A m : Named(queue', m) => Named(queue, m)
    BY <1>4, <2>1
  <2>3. CASE state \in {"kConnected", "kDisconnecting"}
    <3>1. HandleClose BY <1>10, <2>3 DEF ForceCloseInLoop
    <3>2. downs = 0 BY <2>2, <2>3 DEF PairInv, DownFor
    <3> QED BY <1>3, <2>1, <2>2, <3>1, <3>2
  <2>4. CASE state \notin {"kConnected", "kDisconnecting"}
    <3>1. UNCHANGED <<state, events, idx, downs, pc>> BY <1>10, <2>4 DEF ForceCloseInLoop
    <3> QED BY <1>1, <1>2, <2>1, <2>2, <3>1
  <2> QED BY <2>3, <2>4
<1>11. CASE ConnectDestroyed
  <2>1. /\ Run("connectDestroyed") /\ queue' = Tail(queue)
        /\ UNCHANGED <<revents, removals, server>>
    BY <1>11 DEF ConnectDestroyed, baseVars
  <2>2. /\ ~Fresh /\ ~Fresh' /\ revents = {}
        /\ \A m : Named(queue', m) => Named(queue, m)
    BY <1>4, <2>1
  <2>3. Named(queue, "connectDestroyed")
    <3>1. queue \in Seq(Item) /\ queue # <<>> /\ Head(queue).fn = "connectDestroyed"
      BY <2>1 DEF Run, TypeOK
    <3> QED BY <3>1, NamedTail
  <2>4. CASE state = "kConnected"
    <3>1. downs = 0 /\ UpFor BY <2>2, <2>4 DEF PairInv, DownFor
    <3>2. /\ state' = "kDisconnected" /\ UpdateChannel({}) /\ downs' = downs + 1
          /\ pc' = "destroying" /\ UNCHANGED destroyed
      BY <1>11, <2>4 DEF ConnectDestroyed
    <3>3. downs' = 1 /\ DownFor'
      BY <2>1, <2>2, <3>1, <3>2 DEF DownFor, UpFor, UpdateChannel
    <3> QED BY <1>g, <3>3
  <2>5. CASE state # "kConnected"
    <3>1. downs = 1 /\ DownFor
      <4>1. downs = 0 => server = "dead" /\ UpFor BY <2>2, <2>3 DEF PairInv
      <4> QED BY <2>2, <2>5, <4>1 DEF PairInv, UpFor
    <3>2. RemoveChannel /\ UNCHANGED <<state, events, downs, pc>>
      BY <1>11, <2>5 DEF ConnectDestroyed
    <3>3. downs' = 1 /\ DownFor'
      BY <2>1, <3>1, <3>2 DEF DownFor, RemoveChannel
    <3> QED BY <1>g, <3>3
  <2> QED BY <2>4, <2>5
<1>12. CASE RunShutdownInLoop \/ RunUserCallback
  <2>1. PICK name : Run(name) /\ name # "connectEstablished" /\ queue' = Tail(queue)
    BY <1>12 DEF RunShutdownInLoop, RunUserCallback
  <2>2. UNCHANGED <<state, events, idx, downs, destroyed, removals, pc, revents, server>>
    BY <1>12 DEF RunShutdownInLoop, RunUserCallback, connVars, baseVars, histVars
  <2>3. ~Fresh /\ ~Fresh' /\ \A m : Named(queue', m) => Named(queue, m)
    BY <1>4, <2>1
  <2> QED BY <1>1, <1>2, <2>2, <2>3
<1>13. CASE ReturnFromCallback
  <2>1. /\ UNCHANGED <<state, events, idx, downs, destroyed, removals, revents, server, queue>>
        /\ pc' = "loop"
    BY <1>13 DEF ReturnFromCallback, connVars, baseVars, histVars
  <2>2. Fresh' <=> Fresh BY <2>1 DEF Fresh
  <2> QED BY <1>1, <1>2, <2>1, <2>2
<1>14. CASE ReturnFromClosing
  <2>1. /\ UNCHANGED <<state, events, idx, downs, destroyed, revents, server, queue>>
        /\ pc = "closing" /\ pc' = "loop"
    BY <1>14 DEF ReturnFromClosing, connVars, histVars
  <2>2. ~Fresh /\ (Fresh' <=> Fresh) BY <2>1 DEF Fresh, FreshInv
  <2>3. downs = 1 /\ DownFor BY <2>1, <2>2 DEF PairInv, UpFor
  <2>4. downs' = 1 /\ DownFor' BY <2>1, <2>3 DEF DownFor
  <2> QED BY <1>g, <2>4
<1>15. CASE ReturnFromDestroying
  <2>1. /\ UNCHANGED <<state, events, downs, revents, server, queue>>
        /\ pc = "destroying" /\ pc' = "loop" /\ idx' = "kNew"
    BY <1>15 DEF ReturnFromDestroying, RemoveChannel, baseVars
  <2>2. ~Fresh /\ (Fresh' <=> Fresh) BY <2>1 DEF Fresh, FreshInv
  <2>3. downs = 1 /\ DownFor BY <2>1, <2>2 DEF PairInv, UpFor
  <2>4. downs' = 1 /\ DownFor' BY <2>1, <2>3 DEF DownFor
  <2> QED BY <1>g, <2>4
<1>16. CASE OnHup
  <2>1. /\ "HUP" \in revents /\ revents' = revents \ {"HUP"}
        /\ UNCHANGED <<queue, server, destroyed, removals>>
    BY <1>16 DEF OnHup, Handling, baseVars
  <2>2. ~Fresh /\ (Fresh' <=> Fresh) BY <2>1 DEF Fresh, FreshInv
  <2>3. downs = 0 BY <2>1, <2>2 DEF PairInv, DownFor
  <2>4. CASE "IN" \notin revents
    <3>1. HandleClose BY <1>16, <2>4 DEF OnHup
    <3>2. revents' \subseteq {"ERR", "OUT"} BY <2>1, <2>4 DEF TypeOK
    <3> QED BY <1>3, <2>1, <2>2, <2>3, <3>1, <3>2
  <2>5. CASE "IN" \in revents
    <3>1. UNCHANGED <<state, events, idx, downs, pc>> BY <1>16, <2>5 DEF OnHup
    <3> QED BY <1>1, <1>2, <2>1, <2>2, <3>1
  <2> QED BY <2>4, <2>5
<1>17. CASE HandleRead
  <2>1. /\ "IN" \in revents /\ "HUP" \notin revents /\ revents' = revents \ {"IN"}
        /\ UNCHANGED <<queue, server, destroyed, removals>>
    BY <1>17 DEF HandleRead, Handling, baseVars
  <2>2. ~Fresh /\ (Fresh' <=> Fresh) BY <2>1 DEF Fresh, FreshInv
  <2>3. downs = 0 /\ UpFor BY <2>1, <2>2 DEF PairInv, DownFor
  <2>4. CASE HandleClose
    <3>1. revents' \subseteq {"ERR", "OUT"} BY <2>1 DEF TypeOK
    <3> QED BY <1>3, <2>1, <2>2, <2>3, <2>4, <3>1
  <2>5. CASE UNCHANGED <<state, events, idx, downs, pc>>
    BY <1>1, <1>2, <2>1, <2>2, <2>5
  <2>6. CASE pc' = "message" /\ UNCHANGED <<state, events, idx, downs>>
    <3>1. downs' = 0 /\ UpFor' BY <2>1, <2>3, <2>6 DEF UpFor
    <3>2. Named(queue', "connectDestroyed") /\ downs' = 0 => server' = "dead"
      BY <1>2, <2>1, <2>3
    <3> QED BY <1>g, <3>1, <3>2
  <2> QED BY <1>17, <2>4, <2>5, <2>6 DEF HandleRead
<1>18. CASE HandleWrite
  <2>1. /\ "OUT" \in revents /\ revents' \subseteq revents
        /\ UNCHANGED <<state, pc, server, removals, downs, destroyed>>
    BY <1>18 DEF HandleWrite, Handling, baseVars, histVars
  <2>2. ~Fresh BY <2>1 DEF FreshInv
  <2>3. CASE UNCHANGED <<events, idx, queue>>
    <3>1. Fresh' <=> Fresh BY <2>3 DEF Fresh
    <3> QED BY <1>1, <1>2, <2>1, <2>3, <3>1
  <2>4. CASE /\ isWriting /\ UpdateChannel(events \ {"W"})
             /\ queue' = Append(queue, Functor("writeComplete", 0))
    <3>1. downs = 0 /\ UpFor BY <2>2, <2>4 DEF PairInv, DownFor, isWriting
    <3>2. /\ Fresh' <=> Fresh
          /\ Named(queue', "connectDestroyed") => Named(queue, "connectDestroyed")
      BY <1>0, <1>n, <2>4, AppendNames
    <3>3. downs' = 0 /\ UpFor' BY <2>1, <2>4, <3>1 DEF UpFor, UpdateChannel
    <3>4. Named(queue', "connectDestroyed") /\ downs' = 0 => server' = "dead"
      BY <2>1, <3>2 DEF PairInv
    <3> QED BY <1>g, <3>3, <3>4
  <2> QED BY <1>18, <2>3, <2>4 DEF HandleWrite
<1>19. CASE OnErr
  <2>1. /\ UNCHANGED <<state, events, idx, downs, destroyed, removals, pc, server, queue>>
        /\ revents' \subseteq revents
    BY <1>19 DEF OnErr, Handling, connVars, baseVars, histVars
  <2>2. Fresh' <=> Fresh BY <2>1 DEF Fresh
  <2> QED BY <1>1, <1>2, <2>1, <2>2
<1>20. CASE Poll(TRUE) \/ Poll(FALSE)
  <2>1. /\ UNCHANGED <<state, events, idx, downs, destroyed, removals, pc, server, queue>>
        /\ idx = "kAdded"
    BY <1>20 DEF Poll, connVars, baseVars, histVars
  <2>2. ~Fresh /\ (Fresh' <=> Fresh) BY <2>1 DEF Fresh, FreshInv
  <2>3. downs = 0 /\ UpFor BY <2>1, <2>2 DEF PairInv, DownFor
  <2>4. downs' = 0 /\ UpFor' BY <2>1, <2>3 DEF UpFor
  <2>5. Named(queue', "connectDestroyed") /\ downs' = 0 => server' = "dead"
    BY <1>2, <2>1, <2>3
  <2> QED BY <1>g, <2>4, <2>5
<1>21. CASE RemoveConnectionInLoop
  <2>1. /\ UNCHANGED <<state, events, idx, downs, destroyed, pc, revents>>
        /\ removals > 0
    BY <1>21 DEF RemoveConnectionInLoop, connVars, histVars
  <2>2. ~Fresh BY <2>1 DEF FreshInv
  <2>3. downs = 1 /\ DownFor BY <2>1, <2>2 DEF PairInv, UpFor
  <2>4. downs' = 1 /\ DownFor' BY <2>1, <2>3 DEF DownFor
  <2> QED BY <1>g, <2>4
<1>22. CASE ServerDtor
  <2>1. /\ UNCHANGED <<state, events, idx, downs, destroyed, removals, pc, revents>>
        /\ server' = "dead"
        /\ queue' = queue \/ queue' = Append(queue, Functor("connectDestroyed", 0))
    BY <1>22 DEF ServerDtor, connVars, histVars
  <2>2. Fresh' <=> Fresh BY <1>0, <1>n, <2>1, AppendNames DEF Fresh
  <2> QED BY <1>1, <2>1, <2>2
<1>23. CASE Peer \/ UNCHANGED vars
  <2>1. UNCHANGED <<state, events, idx, downs, destroyed, removals, pc, revents, server, queue>>
    BY <1>23 DEF Peer, PeerSends, PeerCloses, PeerResets, vars, connVars, loopVars,
       baseVars, histVars
  <2>2. Fresh' <=> Fresh BY <2>1 DEF Fresh
  <2> QED BY <1>1, <1>2, <2>1, <2>2
<1>24. ASSUME NEW t \in Thread, ForeignCheck(t) \/ ForeignSet(t) PROVE PairInv'
  <2>0. ~ForeignSet(t) BY DEF ForeignSet, ForeignStep, PairInv
  <2>1. UNCHANGED <<state, events, idx, downs, destroyed, removals, pc, revents, server, queue>>
    BY <1>24, <2>0 DEF ForeignCheck, connVars, loopVars, baseVars
  <2>2. Fresh' <=> Fresh BY <2>1 DEF Fresh
  <2> QED BY <1>1, <1>2, <2>1, <2>2
<1>25. ASSUME NEW t \in Thread, ForeignEnqueue(t) PROVE PairInv'
  <2>1. PICK name \in {"sendInLoop", "shutdownInLoop", "forceCloseInLoop"}, n \in Nat :
          queue' = Append(queue, Functor(name, n))
    BY <1>25, BoundsAssumption DEF ForeignEnqueue, ForeignSend, ForeignQueue
  <2>2. UNCHANGED <<state, events, idx, downs, destroyed, removals, pc, revents, server>>
    BY <1>25 DEF ForeignEnqueue, ForeignSend, ForeignQueue, connVars, baseVars, histVars
  <2>3. /\ Fresh' <=> Fresh
        /\ Named(queue', "connectDestroyed") => Named(queue, "connectDestroyed")
    BY <1>0, <1>n, <2>1, AppendNames
  <2>4. Named(queue', "connectDestroyed") /\ downs = 0 => server' = "dead"
    BY <2>2, <2>3 DEF PairInv
  <2> QED BY <1>1, <2>2, <2>3, <2>4
<1> QED
  BY <1>5, <1>6, <1>7, <1>8, <1>9, <1>10, <1>11, <1>12, <1>13, <1>14, <1>15, <1>16,
     <1>17, <1>18, <1>19, <1>20, <1>21, <1>22, <1>23, <1>24, <1>25
     DEF Next, UserCall, RunFunctor, Return, Dispatch, Foreign

\* At first the connection is in _connections and up to nothing.
LEMMA PairInit == Init => PairInv
<1> SUFFICES ASSUME Init PROVE PairInv
  OBVIOUS
<1>1. Len(queue) = 1 /\ queue[1].fn = "connectEstablished" BY DEF Init, Functor
<1>2. Fresh /\ ~Named(queue, "connectDestroyed") BY <1>1 DEF Fresh, Named
<1> QED BY <1>2 DEF Init, PairInv

\* The invariant of a connection that other threads only send on.
LEMMA PairInvariant ==
  ASSUME ForeignOps \subseteq {"send"}
  PROVE  Spec /\ [][UndisturbedDtor]_vars => [](TypeOK /\ FreshInv /\ PairInv)
<1>1. ConnInv /\ FreshInv /\ [Next]_vars => FreshInv'
  BY FreshStep DEF ConnInv
<1>2. /\ ConnInv /\ FreshInv /\ FreshInv' /\ PairInv
      /\ [Next]_vars /\ [UndisturbedDtor]_vars
      => PairInv'
  BY PairStep DEF ConnInv
<1>3. ConnInv => TypeOK BY DEF ConnInv
<1>4. Init => FreshInv BY FreshInit
<1> QED BY <1>1, <1>2, <1>3, <1>4, PairInit, ConnInvariant, PTL DEF Spec

\* The application hears once that a connection is up and at most once that it is
\* down, in that order, whatever is called in the loop, sent from other threads and
\* done by the peer, as long as other threads do not close the connection and
\* ~TcpServer does not meet one that is closing (connectEstablished, handleClose,
\* forceCloseInLoop, connectDestroyed).
THEOREM CallbacksStayPaired ==
  ASSUME ForeignOps \subseteq {"send"}
  PROVE  Spec /\ [][UndisturbedDtor]_vars => []CallbacksPaired
<1>1. TypeOK /\ FreshInv /\ PairInv => CallbacksPaired
  BY DEF FreshInv, PairInv, CallbacksPaired
<1> QED BY <1>1, PairInvariant, PTL

\* Under the same conditions a connection that connectDestroyed has taken out of the
\* poller never comes back to it, neither through a late functor nor through a late
\* event (removeChannel, sendInLoop, handleWrite).
THEOREM StaysRemoved ==
  ASSUME ForeignOps \subseteq {"send"}
  PROVE  Spec /\ [][UndisturbedDtor]_vars => []RemovedForGood
<1>1. TypeOK /\ FreshInv /\ PairInv => RemovedForGood
  BY DEF FreshInv, PairInv, UpFor, DownFor, RemovedForGood
<1> QED BY <1>1, PairInvariant, PTL
=============================================================================
