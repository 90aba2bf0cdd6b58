-------------------------- MODULE TcpServerProofs --------------------------
(***************************************************************************)
(* Proofs about TcpServer and the pool of loops it uses, for any number of *)
(* threads, clients and descriptors                                        *)
(***************************************************************************)
EXTENDS TcpServer, TLAPS, SequenceTheorems, FiniteSetTheorems

StartingPC == {"start", "sem", "lock", "test", "wait"}
EndingPC == {"dtor", "quit", "wakeup", "join"}
Running == {"enter", "check", "poll", "functors"}

\* quit() of the loop of thread i has been called
Told(i) == \/ ppc = "gone"
           \/ ppc \in EndingPC /\ i < cur
           \/ ppc \in {"wakeup", "join"} /\ i = cur

\* ~EventLoopThread of thread i has returned
Joined(i) == ppc = "gone" \/ (ppc \in EndingPC /\ i < cur)

PoolTypes == /\ numThreads \in 0 .. MaxThreads
             /\ ppc \in BasePC /\ cur \in Nat \ {0}
             /\ loops \in Nat /\ next \in Nat
             /\ tpc \in [Threads -> ThreadPC]
             /\ loop \in [Threads -> BOOLEAN]
             /\ quit \in [Threads -> BOOLEAN]

\* How far the base thread is in its loop over the threads.
BaseInv == /\ ppc \in StartingPC => loops = cur - 1 /\ cur <= numThreads
           /\ ppc \notin StartingPC => loops = numThreads
           /\ ppc \in EndingPC => cur <= numThreads
           /\ ppc = "serve" => cur = 1
           /\ next = 0 \/ next < loops

\* What that says of thread i.
ThreadInv(i) ==
  /\ ppc \in StartingPC /\ (i > cur \/ (i = cur /\ ppc = "start")) => tpc[i] = "none"
  /\ i <= loops => tpc[i] \in Running \cup {"leave", "done"}
  /\ loop[i] <=> tpc[i] \in Running \cup {"leave"}
  /\ quit[i] \/ tpc[i] \in {"leave", "done"} => Told(i)
  /\ i <= numThreads /\ Joined(i) => tpc[i] = "done"

PoolInv == PoolTypes /\ BaseInv /\ \A i \in Threads : ThreadInv(i)

LEMMA PoolInit_Inv == PoolInit => PoolInv
<1> SUFFICES ASSUME PoolInit PROVE PoolInv
  OBVIOUS
<1>1. PoolTypes
  BY PollAssumption DEF PoolInit, PoolTypes, BasePC, ThreadPC
<1>2. BaseInv
  BY PollAssumption DEF PoolInit, BaseInv, StartingPC, EndingPC
<1>3. \A i \in Threads : ThreadInv(i)
  BY PollAssumption
     DEF PoolInit, ThreadInv, Threads, Told, Joined, StartingPC, EndingPC, Running
<1> QED BY <1>1, <1>2, <1>3 DEF PoolInv

\* The base thread starts, quits and joins.
LEMMA BaseStep_Inv == PoolInv /\ BaseStep => PoolInv'
<1> SUFFICES ASSUME PoolInv, BaseStep PROVE PoolInv'
  OBVIOUS
<1> USE PollAssumption DEF PoolInv, PoolTypes, BaseInv, ThreadInv, Told, Joined,
      StartingPC, EndingPC, Running, BasePC, ThreadPC, Threads
<1>1. CASE StartThread BY <1>1 DEF StartThread, Starting
<1>2. CASE Started BY <1>2 DEF Started, Starting
<1>3. CASE Lock BY <1>3 DEF Lock, Starting
<1>4. CASE Wait BY <1>4 DEF Wait, Starting
<1>5. CASE StartLoopReturns BY <1>5 DEF StartLoopReturns, Starting
<1>6. CASE TestLoop
  <2>1. loop[cur] BY <1>6 DEF TestLoop
  <2> QED BY <1>6, <2>1 DEF TestLoop, startVars
<1>7. CASE Quit BY <1>7 DEF Quit, startVars
<1>8. CASE Wakeup BY <1>8 DEF Wakeup, startVars
<1>9. CASE Join BY <1>9 DEF Join, NextThread, startVars
<1> QED BY <1>1, <1>2, <1>3, <1>4, <1>5, <1>6, <1>7, <1>8, <1>9 DEF BaseStep

\* A step of an I/O thread.
LEMMA ThreadStep_Inv ==
  ASSUME PoolInv, NEW i \in Threads,
         \/ ThreadInit(i) \/ Publish(i) \/ EnterLoop(i) \/ CheckQuit(i)
         \/ PollWakeup(i) \/ PollOther(i) \/ EndPass(i) \/ Leave(i)
  PROVE  PoolInv'
<1> USE PollAssumption DEF PoolInv, PoolTypes, BaseInv, ThreadInv, Told, Joined,
      StartingPC, EndingPC, Running, BasePC, ThreadPC, Threads, ThreadStep
<1>1. CASE ThreadInit(i) BY <1>1 DEF ThreadInit
<1>2. CASE Publish(i) BY <1>2 DEF Publish
<1>3. CASE EnterLoop(i) BY <1>3 DEF EnterLoop
<1>4. CASE CheckQuit(i) BY <1>4 DEF CheckQuit
<1>5. CASE PollWakeup(i) BY <1>5 DEF PollWakeup
<1>6. CASE PollOther(i) BY <1>6 DEF PollOther
<1>7. CASE EndPass(i) BY <1>7 DEF EndPass
<1>8. CASE Leave(i) BY <1>8 DEF Leave
<1> QED BY <1>1, <1>2, <1>3, <1>4, <1>5, <1>6, <1>7, <1>8

\* What PoolInv does not mention may change as it likes.
LEMMA OtherStep_Inv ==
  ASSUME PoolInv,
         UNCHANGED <<numThreads, ppc, cur, loops, tpc, loop, quit>>,
         UNCHANGED next \/ Advance
  PROVE  PoolInv'
BY DEF PoolInv, PoolTypes, BaseInv, ThreadInv, Told, Joined, Advance, Threads

LEMMA DestroyPool_Inv == PoolInv /\ DestroyPool => PoolInv'
BY DEF DestroyPool, startVars, PoolInv, PoolTypes, BaseInv, ThreadInv, Told, Joined,
       StartingPC, EndingPC, BasePC, Threads

LEMMA PoolInv_Step == PoolInv /\ [Next]_vars => PoolInv'
<1> SUFFICES ASSUME PoolInv, [Next]_vars PROVE PoolInv'
  OBVIOUS
<1>1. CASE BaseLoopStep
  <2>1. CASE PoolStep BY <2>1, BaseStep_Inv DEF PoolStep
  <2>2. CASE Listen \/ DestroyBaseLoop
    BY <2>2, OtherStep_Inv DEF Listen, DestroyBaseLoop, poolVars, startVars
  <2>3. CASE HandleRead BY <2>3, OtherStep_Inv DEF HandleRead, NewConnection
  <2>4. CASE RemoveConnectionInLoop
    BY <2>4, OtherStep_Inv DEF RemoveConnectionInLoop, startVars
  <2>5. CASE ConnectDestroyed(0)
    BY <2>5, OtherStep_Inv DEF ConnectDestroyed, poolVars, startVars
  <2>6. CASE EndDtor BY <2>6, DestroyPool_Inv DEF EndDtor
  <2>7. ASSUME NEW c \in Conns, DtorItem(c) PROVE PoolInv'
    BY <2>7, OtherStep_Inv DEF DtorItem, startVars
  <2> QED BY <1>1, <2>1, <2>2, <2>3, <2>4, <2>5, <2>6, <2>7 DEF BaseLoopStep
<1>2. CASE SpuriousWakeup BY <1>2, OtherStep_Inv DEF SpuriousWakeup, Starting
<1>3. CASE ClientConnects \/ BeginDtor
  BY <1>3, OtherStep_Inv DEF ClientConnects, BeginDtor, poolVars, startVars
<1>4. ASSUME NEW c \in Conns, ClientCloses(c) \/ Shutdown(c) PROVE PoolInv'
  BY <1>4, OtherStep_Inv DEF ClientCloses, Shutdown, poolVars, startVars
<1>5. ASSUME NEW c \in Conns, HandleClose(c) PROVE PoolInv'
  BY <1>5, OtherStep_Inv DEF HandleClose, startVars
<1>6. ASSUME NEW i \in Threads, LoopStep(i) \/ SwapFunctors(i) PROVE PoolInv'
  <2>1. CASE ConnectEstablished(i) \/ ConnectDestroyed(i)
    BY <2>1, OtherStep_Inv
       DEF ConnectEstablished, ConnectDestroyed, poolVars, startVars
  <2>2. CASE ~(ConnectEstablished(i) \/ ConnectDestroyed(i))
    BY <1>6, <2>2, ThreadStep_Inv
       DEF LoopStep, ThreadStart, BatchDone, LeaveLoop, SwapFunctors
  <2> QED BY <2>1, <2>2
<1>7. CASE UNCHANGED vars BY <1>7, OtherStep_Inv DEF vars, poolVars, startVars
<1> QED BY <1>1, <1>2, <1>3, <1>4, <1>5, <1>6, <1>7 DEF Next

LEMMA PoolInv_Always == Spec => []PoolInv
<1>1. Init => PoolInv BY PoolInit_Inv DEF Init
<1> QED BY <1>1, PoolInv_Step, PTL DEF Spec

\* The base thread never uses a loop that is not there, nor destroys the
\* EventLoopThread of one that still runs, for any number of threads and in every
\* interleaving of the handover, of quit() and of loop() (startLoop, threadFunc,
\* ~EventLoopThread).
THEOREM LoopsStayAlive == Spec => []LoopsAlive
<1>1. ASSUME PoolInv PROVE LoopsAlive
  <2> USE DEF PoolInv, PoolTypes, BaseInv
  <2>1. ppc = "serve" => loops = numThreads /\ NextLoop <= loops
    BY <1>1 DEF NextLoop, StartingPC
  <2>2. loops <= numThreads /\ 1 .. numThreads \subseteq Threads
    BY <1>1, PollAssumption DEF Threads, StartingPC, BasePC
  <2>3. ASSUME NEW i \in 1 .. loops, ppc # "gone", ppc \in EndingPC => i >= cur
        PROVE  tpc[i] \in Running \/ (i = cur /\ ppc \in {"wakeup", "join"})
    BY <1>1, <2>2, <2>3 DEF ThreadInv, Told, EndingPC
  <2>4. ASSUME NEW i \in 1 .. numThreads, Joined(i) PROVE tpc[i] = "done"
    BY <1>1, <2>2, <2>4 DEF ThreadInv
  <2> QED BY <2>1, <2>3, <2>4 DEF LoopsAlive, Joined, EndingPC, Running
<1> QED BY <1>1, PoolInv_Always, PTL

-----------------------------------------------------------------------------
(* Connections and the functors that keep them.                            *)

\* f waits in q
Has(q, f) == \E k \in 1 .. Len(q) : q[k] = f

\* the functor name of c waits in loop l
Queued(name, l, c) == Has(queue[l], Functor(name, c))

\* connectDestroyed of c is still to come: it waits in its loop, or c is in
\* _connections and somebody has yet to take it out
Pending(c) == c \in inMap \/ Queued("connectDestroyed", home[c], c)

\* what FreedClean says of a connection without a reference
Clean(c) == /\ ~channel[c]
            /\ \/ state[c] = "kDisconnected"
               \/ dying /\ state[c] = "kDisconnecting"
               \/ dying /\ home[c] # 0 /\ tpc[home[c]] = "done"

\* connectEstablished stands before everything else of its connection
EstablishedFirst(q) ==
  \A j, k \in 1 .. Len(q) :
    q[j].fn = "connectEstablished" /\ q[k].conn = q[j].conn => j <= k

\* What a functor that waits says of its connection.
FunctorInv(l, c) ==
  /\ Queued("connectEstablished", l, c)
       => l = home[c] /\ l # 0 /\ state[c] = "kConnecting"
  /\ Queued("removeConnectionInLoop", l, c)
       => l = 0 /\ home[c] # 0 /\ state[c] = "kDisconnected"
  /\ Queued("connectDestroyed", l, c)
       => /\ l = home[c] /\ c <= accepted /\ c \notin inMap
          /\ state[c] = "kDisconnected" \/ (dying /\ l # 0)

\* What a connection that has been accepted waits for.
ConnInv(c) ==
  /\ c <= accepted <=> state[c] # "none"
  /\ home[c] # 0 => home[c] <= loops
  /\ state[c] = "kConnecting"
       => /\ home[c] # 0
          /\ \/ Queued("connectEstablished", home[c], c)
             \/ tpc[home[c]] = "done"
  /\ c <= accepted => Pending(c) \/ Clean(c)

\* The pool goes when the destructor has emptied _connections.
DtorInv == ppc \in EndingPC \cup {"gone"} => dying /\ inMap = {}

FunctorNames == {"connectEstablished", "connectDestroyed", "removeConnectionInLoop"}
Functors == [fn : FunctorNames, conn : Conns]

States == {"none", "kConnecting", "kConnected", "kDisconnecting", "kDisconnected"}

ServerTypes == /\ arrived \in 0 .. MaxConns /\ accepted \in 0 .. arrived
               /\ dying \in BOOLEAN
               /\ state \in [Conns -> States]
               /\ home \in [Conns -> Loops]
               /\ channel \in [Conns -> BOOLEAN]
               /\ inMap \subseteq 1 .. accepted
               /\ queue \in [Loops -> Seq(Functors)]

\* The inductive invariant, with PoolInv of the threads below it.
ServerInv == /\ ServerTypes /\ DtorInv /\ \A l \in Loops : EstablishedFirst(queue[l])
             /\ \A l \in Loops, c \in Conns : FunctorInv(l, c)
             /\ \A c \in Conns : ConnInv(c)

\* Functors are told apart by name and connection.
LEMMA FunctorEq ==
  /\ \A n \in FunctorNames, c \in Conns : Functor(n, c) \in Functors
  /\ \A f \in Functors : f = Functor(f.fn, f.conn) /\ f.fn \in FunctorNames /\ f.conn \in Conns
  /\ \A n, m, c, d : Functor(n, c) = Functor(m, d) <=> n = m /\ c = d
BY DEF Functor, Functors

\* What waits in a queue behind an append, and in front of a Tail.
LEMMA HasAppend ==
  ASSUME NEW q \in Seq(Functors), NEW f \in Functors
  PROVE  /\ Append(q, f) \in Seq(Functors)
         /\ \A g : Has(Append(q, f), g) <=> Has(q, g) \/ g = f
<1>1. /\ Append(q, f) \in Seq(Functors) /\ Len(q) \in Nat /\ Len(Append(q, f)) = Len(q) + 1
      /\ \A k \in 1 .. Len(q) : Append(q, f)[k] = q[k]
      /\ Append(q, f)[Len(q) + 1] = f
  BY AppendProperties
<1> DEFINE r == Append(q, f)
<1> HIDE DEF r
<1>2. \A g : Has(r, g) <=> Has(q, g) \/ g = f
  BY <1>1 DEF Has, r
<1> QED BY <1>1, <1>2 DEF r

LEMMA HasTail ==
  ASSUME NEW q \in Seq(Functors), q # <<>>
  PROVE  /\ Tail(q) \in Seq(Functors) /\ Head(q) \in Functors
         /\ \A g : Has(q, g) <=> g = Head(q) \/ Has(Tail(q), g)
<1>1. /\ Tail(q) \in Seq(Functors) /\ Head(q) \in Functors
      /\ Len(q) \in Nat \ {0} /\ Len(Tail(q)) = Len(q) - 1
      /\ Head(q) = q[1]
      /\ \A k \in 1 .. Len(q) - 1 : Tail(q)[k] = q[k + 1]
  BY HeadTailProperties, LenProperties, EmptySeq
<1> DEFINE r == Tail(q)
<1> HIDE DEF r
<1>2. ASSUME NEW g, Has(r, g) PROVE Has(q, g)
  <2>1. PICK k \in 1 .. Len(r) : r[k] = g BY <1>2 DEF Has
  <2>2. k + 1 \in 1 .. Len(q) /\ q[k + 1] = g BY <1>1, <2>1 DEF r
  <2> QED BY <2>2 DEF Has
<1>3. ASSUME NEW g, Has(q, g), g # Head(q) PROVE Has(r, g)
  <2>1. PICK k \in 1 .. Len(q) : q[k] = g BY <1>3 DEF Has
  <2>2. k - 1 \in 1 .. Len(q) - 1 /\ (k - 1) + 1 = k BY <1>1, <1>3, <2>1
  <2>3. r[k - 1] = g BY <1>1, <2>1, <2>2 DEF r
  <2> QED BY <1>1, <2>2, <2>3 DEF Has, r
<1>4. Has(q, Head(q)) BY <1>1 DEF Has
<1> QED BY <1>1, <1>2, <1>3, <1>4 DEF r

\* The order of the functors survives both.  Nothing of a connection may wait
\* when its connectEstablished is queued; it is new then.
LEMMA FirstAppend ==
  ASSUME NEW q \in Seq(Functors), NEW f \in Functors, EstablishedFirst(q),
         f.fn = "connectEstablished"
           => \A n \in FunctorNames : ~Has(q, Functor(n, f.conn))
  PROVE  EstablishedFirst(Append(q, f))
<1>1. /\ Len(q) \in Nat /\ Len(Append(q, f)) = Len(q) + 1
      /\ \A k \in 1 .. Len(q) : Append(q, f)[k] = q[k] /\ q[k] \in Functors
      /\ Append(q, f)[Len(q) + 1] = f
  BY AppendProperties, ElementOfSeq
<1> DEFINE r == Append(q, f)
<1> HIDE DEF r
<1>2. ASSUME NEW k \in 1 .. Len(q), f.fn = "connectEstablished" PROVE q[k].conn # f.conn
  BY <1>1, <1>2, FunctorEq DEF Has
<1>3. ASSUME NEW j \in 1 .. Len(r), NEW k \in 1 .. Len(r),
             r[j].fn = "connectEstablished", r[k].conn = r[j].conn
      PROVE  j <= k
  <2>1. CASE j \in 1 .. Len(q) /\ k \in 1 .. Len(q)
    BY <1>1, <1>3, <2>1 DEF EstablishedFirst, r
  <2>2. CASE j = Len(q) + 1 /\ k \in 1 .. Len(q)
    BY <1>1, <1>2, <1>3, <2>2 DEF r
  <2>3. CASE k = Len(q) + 1 BY <1>1, <2>3 DEF r
  <2> QED BY <1>1, <2>1, <2>2, <2>3 DEF r
<1> QED BY <1>3 DEF EstablishedFirst, r

LEMMA FirstTail ==
  ASSUME NEW q \in Seq(Functors), q # <<>>, EstablishedFirst(q)
  PROVE  /\ EstablishedFirst(Tail(q))
         /\ Head(q).fn = "connectEstablished" => ~Has(Tail(q), Head(q))
         /\ \A c : Has(q, Functor("connectEstablished", c)) /\ Head(q).conn = c
                     => Head(q).fn = "connectEstablished"
<1>1. /\ Len(q) \in Nat \ {0} /\ Len(Tail(q)) = Len(q) - 1
      /\ Head(q) = q[1]
      /\ \A k \in 1 .. Len(q) - 1 : Tail(q)[k] = q[k + 1]
  BY HeadTailProperties, LenProperties, EmptySeq
<1> DEFINE r == Tail(q)
<1> HIDE DEF r
<1>2. EstablishedFirst(r)
  <2> SUFFICES ASSUME NEW j \in 1 .. Len(r), NEW k \in 1 .. Len(r),
                      r[j].fn = "connectEstablished", r[k].conn = r[j].conn
               PROVE  j <= k
    BY DEF EstablishedFirst
  <2>1. j + 1 \in 1 .. Len(q) /\ k + 1 \in 1 .. Len(q) BY <1>1 DEF r
  <2>2. q[j + 1].fn = "connectEstablished" /\ q[k + 1].conn = q[j + 1].conn
    BY <1>1 DEF r
  <2>3. j + 1 <= k + 1 BY <2>1, <2>2 DEF EstablishedFirst
  <2> QED BY <2>3
<1>3. ASSUME Head(q).fn = "connectEstablished", Has(r, Head(q)) PROVE FALSE
  <2>1. PICK k \in 1 .. Len(r) : r[k] = Head(q) BY <1>3 DEF Has
  <2>2. k + 1 \in 1 .. Len(q) /\ 1 \in 1 .. Len(q) /\ q[k + 1] = q[1]
    BY <1>1, <2>1 DEF r
  <2>3. k + 1 <= 1 BY <1>1, <1>3, <2>2 DEF EstablishedFirst
  <2> QED BY <2>1, <2>3
<1>4. ASSUME NEW c, Has(q, Functor("connectEstablished", c)), Head(q).conn = c
      PROVE Head(q).fn = "connectEstablished"
  <2>1. PICK k \in 1 .. Len(q) : q[k] = Functor("connectEstablished", c)
    BY <1>4 DEF Has
  <2>2. q[k].fn = "connectEstablished" /\ q[k].conn = c BY <2>1 DEF Functor
  <2>3. 1 \in 1 .. Len(q) /\ q[1].conn = q[k].conn BY <1>1, <1>4, <2>2
  <2>4. k <= 1 BY <2>2, <2>3 DEF EstablishedFirst
  <2>5. k = 1 BY <2>4
  <2> QED BY <1>1, <2>2, <2>5
<1> QED BY <1>2, <1>3, <1>4 DEF r

\* queueInLoop adds one functor to one queue.
LEMMA QueueAppend ==
  ASSUME ServerTypes, NEW l \in Loops, NEW name \in FunctorNames, NEW d \in Conns,
         queue' = [queue EXCEPT ![l] = Append(@, Functor(name, d))]
  PROVE  /\ queue' \in [Loops -> Seq(Functors)]
         /\ queue'[l] = Append(queue[l], Functor(name, d))
         /\ \A m \in Loops : m # l => queue'[m] = queue[m]
         /\ \A m \in Loops, n \in FunctorNames, c \in Conns :
              Queued(n, m, c)' <=> Queued(n, m, c) \/ (m = l /\ n = name /\ c = d)
<1>1. Functor(name, d) \in Functors /\ queue[l] \in Seq(Functors)
  BY FunctorEq DEF ServerTypes
<1>2. /\ Append(queue[l], Functor(name, d)) \in Seq(Functors)
      /\ \A g : Has(Append(queue[l], Functor(name, d)), g)
                  <=> Has(queue[l], g) \/ g = Functor(name, d)
  BY <1>1, HasAppend
<1>3. /\ queue' \in [Loops -> Seq(Functors)]
      /\ queue'[l] = Append(queue[l], Functor(name, d))
      /\ \A m \in Loops : m # l => queue'[m] = queue[m]
  BY <1>2 DEF ServerTypes
<1> QED BY <1>2, <1>3, FunctorEq DEF Queued

\* Taken takes the first functor from one queue.
LEMMA QueueTail ==
  ASSUME ServerTypes, NEW l \in Loops, queue[l] # <<>>,
         queue' = [queue EXCEPT ![l] = Tail(@)]
  PROVE  /\ queue' \in [Loops -> Seq(Functors)]
         /\ queue'[l] = Tail(queue[l])
         /\ Head(queue[l]) \in Functors
         /\ \A m \in Loops : m # l => queue'[m] = queue[m]
         /\ \A m \in Loops, n \in FunctorNames, c \in Conns :
              Queued(n, m, c) <=> \/ Queued(n, m, c)'
                                  \/ m = l /\ n = Head(queue[l]).fn
                                           /\ c = Head(queue[l]).conn
<1>1. queue[l] \in Seq(Functors) BY DEF ServerTypes
<1>2. /\ Tail(queue[l]) \in Seq(Functors) /\ Head(queue[l]) \in Functors
      /\ \A g : Has(queue[l], g) <=> g = Head(queue[l]) \/ Has(Tail(queue[l]), g)
  BY <1>1, HasTail
<1>3. /\ queue' \in [Loops -> Seq(Functors)]
      /\ queue'[l] = Tail(queue[l])
      /\ \A m \in Loops : m # l => queue'[m] = queue[m]
  BY <1>2 DEF ServerTypes
<1>4. \A n \in FunctorNames, c \in Conns :
        Head(queue[l]) = Functor(n, c)
          <=> n = Head(queue[l]).fn /\ c = Head(queue[l]).conn
  BY <1>2, FunctorEq
<1> QED BY <1>2, <1>3, <1>4 DEF Queued

\* What the server uses of the pool: the loop getNextLoop returns is there, and a
\* thread that has left its loop was told to.
LEMMA PoolFacts ==
  ASSUME PoolInv
  PROVE  /\ loops \in 0 .. MaxThreads
         /\ \A i \in Threads : i <= loops /\ tpc[i] \in {"leave", "done"}
                                 => ppc \in EndingPC \cup {"gone"}
         /\ ppc = "serve" => NextLoop \in 0 .. loops
<1> USE PollAssumption DEF PoolInv, PoolTypes, BaseInv
<1>1. loops \in 0 .. MaxThreads BY DEF StartingPC, BasePC
<1>2. \A i \in Threads : i <= loops /\ tpc[i] \in {"leave", "done"}
                           => ppc \in EndingPC \cup {"gone"}
  BY DEF ThreadInv, Told, EndingPC
<1>3. ppc = "serve" => NextLoop \in 0 .. loops BY <1>1 DEF NextLoop
<1> QED BY <1>1, <1>2, <1>3

\* the variables that ServerInv is about
Parts == <<accepted, state, home, channel, inMap, queue>>

\* Steps that leave those alone.
LEMMA FrameKeeps ==
  ASSUME ServerInv, UNCHANGED Parts,
         arrived' \in 0 .. MaxConns /\ arrived <= arrived',
         dying' \in BOOLEAN, dying => dying',
         loops \in Nat /\ loops' \in Nat /\ loops <= loops',
         \A i \in Threads : tpc[i] = "done" => tpc'[i] = "done",
         DtorInv'
  PROVE  ServerInv'
<1> USE DEF ServerInv, ServerTypes, Parts
<1>1. ServerTypes' OBVIOUS
<1>2. \A l \in Loops : EstablishedFirst(queue[l])' BY DEF EstablishedFirst
<1>3. \A n, l, c : Queued(n, l, c)' <=> Queued(n, l, c) BY DEF Queued
<1>4. \A l \in Loops, c \in Conns : FunctorInv(l, c)'
  BY <1>3 DEF FunctorInv
<1>5. ASSUME NEW c \in Conns PROVE ConnInv(c)'
  <2>1. home[c] # 0 => home[c] \in Threads BY PollAssumption DEF Loops, Threads
  <2>2. Pending(c)' <=> Pending(c) BY <1>3 DEF Pending
  <2>3. Clean(c) => Clean(c)' BY <2>1 DEF Clean
  <2>4. home[c] \in Nat BY PollAssumption DEF Loops
  <2>5. ConnInv(c) OBVIOUS
  <2>6. home'[c] # 0 => home'[c] <= loops' BY <2>4, <2>5 DEF ConnInv
  <2>7. state'[c] = "kConnecting"
          => /\ home'[c] # 0
             /\ \/ Queued("connectEstablished", home[c], c)'
                \/ tpc'[home'[c]] = "done"
    BY <1>3, <2>1, <2>5 DEF ConnInv
  <2>8. (c <= accepted' <=> state'[c] # "none") /\ (c <= accepted' => Pending(c)' \/ Clean(c)')
    BY <2>2, <2>3, <2>5 DEF ConnInv
  <2> QED BY <2>6, <2>7, <2>8 DEF ConnInv
<1> QED BY <1>1, <1>2, <1>4, <1>5 

\* Acceptor::handleRead with newConnection: the new connection is in _connections,
\* and connectEstablished of it waits unless it has been called.
LEMMA HandleReadKeeps == ServerInv /\ PoolInv /\ HandleRead => ServerInv'
<1> SUFFICES ASSUME ServerInv, PoolInv, HandleRead PROVE ServerInv'
  OBVIOUS
<1> USE DEF ServerInv
<1> DEFINE new == accepted + 1
           l == NextLoop
<1>1. /\ new \in Conns /\ new \in 1 .. arrived /\ state[new] = "none" /\ new \notin inMap
      /\ accepted \in Nat
  BY ServerAssumption DEF HandleRead, ServerTypes, ConnInv, Conns
<1>2. l \in Loops /\ l \in 0 .. loops /\ loops \in Nat /\ ppc = "serve" /\ ~dying
  BY PoolFacts, PollAssumption DEF HandleRead, Serving, Loops
<1>3. /\ accepted' = new
      /\ home' = [home EXCEPT ![new] = l]
      /\ inMap' = inMap \cup {new}
      /\ UNCHANGED <<loops, tpc, ppc, arrived, dying>>
  BY DEF HandleRead, NewConnection
<1>4. \/ /\ l = 0 /\ queue' = queue
         /\ state' = [state EXCEPT ![new] = "kConnected"]
         /\ channel' = [channel EXCEPT ![new] = TRUE]
      \/ /\ l # 0
         /\ queue' = [queue EXCEPT ![l] = Append(@, Functor("connectEstablished", new))]
         /\ state' = [state EXCEPT ![new] = "kConnecting"]
         /\ channel' = channel
  BY DEF HandleRead, NewConnection, Queue, Establish
<1> HIDE DEF new, l
<1>5. \A n \in FunctorNames, m \in Loops : ~Queued(n, m, new)
  BY <1>1 DEF FunctorInv, FunctorNames, new
<1>6. /\ queue' \in [Loops -> Seq(Functors)]
      /\ \A m \in Loops, n \in FunctorNames, c \in Conns :
           Queued(n, m, c)' <=> \/ Queued(n, m, c)
                                \/ l # 0 /\ m = l /\ n = "connectEstablished" /\ c = new
      /\ \A m \in Loops : EstablishedFirst(queue[m])'
  <2>1. CASE l = 0
    <3>1. queue' = queue BY <1>4, <2>1
    <3> QED BY <2>1, <3>1 DEF ServerTypes, Queued, EstablishedFirst
  <2>2. CASE l # 0
    <3>1. queue' = [queue EXCEPT ![l] = Append(@, Functor("connectEstablished", new))]
      BY <1>4, <2>2
    <3>2. /\ queue' \in [Loops -> Seq(Functors)]
          /\ queue'[l] = Append(queue[l], Functor("connectEstablished", new))
          /\ \A m \in Loops : m # l => queue'[m] = queue[m]
          /\ \A m \in Loops, n \in FunctorNames, c \in Conns :
               Queued(n, m, c)' <=> \/ Queued(n, m, c)
                                    \/ m = l /\ n = "connectEstablished" /\ c = new
      <4>1. "connectEstablished" \in FunctorNames BY DEF FunctorNames
      <4> QED BY <1>1, <1>2, <3>1, <4>1, QueueAppend
    <3>3. EstablishedFirst(Append(queue[l], Functor("connectEstablished", new)))
      <4>1. /\ queue[l] \in Seq(Functors) /\ EstablishedFirst(queue[l])
            /\ Functor("connectEstablished", new) \in Functors
            /\ Functor("connectEstablished", new).conn = new
        BY <1>1, <1>2, FunctorEq DEF ServerTypes, FunctorNames, Functor
      <4>2. \A n \in FunctorNames : ~Has(queue[l], Functor(n, new))
        BY <1>2, <1>5 DEF Queued
      <4> QED BY <4>1, <4>2, FirstAppend
    <3>4. ASSUME NEW m \in Loops PROVE EstablishedFirst(queue'[m])
      BY <3>2, <3>3
    <3> QED BY <2>2, <3>2, <3>4
  <2> QED BY <2>1, <2>2
<1>7. ServerTypes'
  <2>1. state' \in [Conns -> States] /\ channel' \in [Conns -> BOOLEAN]
    BY <1>4 DEF ServerTypes, States
  <2>2. home' \in [Conns -> Loops] BY <1>2, <1>3 DEF ServerTypes
  <2>3. /\ arrived' \in 0 .. MaxConns /\ accepted' \in 0 .. arrived'
        /\ inMap' \subseteq 1 .. accepted' /\ dying' \in BOOLEAN
    BY <1>1, <1>3 DEF ServerTypes, new
  <2> QED BY <1>6, <2>1, <2>2, <2>3 DEF ServerTypes
<1>8. DtorInv' BY <1>2, <1>3 DEF DtorInv, EndingPC
<1>9. /\ home'[new] = l /\ new \in inMap'
      /\ state'[new] = IF l = 0 THEN "kConnected" ELSE "kConnecting"
      /\ \A c \in Conns : c # new => /\ home'[c] = home[c] /\ state'[c] = state[c]
                                     /\ channel'[c] = channel[c]
                                     /\ c \in inMap' <=> c \in inMap
  BY <1>1, <1>3, <1>4 DEF ServerTypes
<1>10. ASSUME NEW m \in Loops, NEW c \in Conns PROVE FunctorInv(m, c)'
  <2>1. CASE c = new
    BY <1>1, <1>3, <1>5, <1>6, <1>9, <2>1 DEF FunctorInv, FunctorNames
  <2>2. CASE c # new
    BY <1>1, <1>3, <1>6, <1>9, <2>2 DEF FunctorInv, FunctorNames, new, Conns
  <2> QED BY <2>1, <2>2
<1>11. ASSUME NEW c \in Conns PROVE ConnInv(c)'
  <2>1. CASE c = new
    BY <1>1, <1>2, <1>3, <1>6, <1>9, <2>1
       DEF ConnInv, Pending, FunctorNames, new
  <2>2. CASE c # new
    <3>1. home[c] \in Loops BY DEF ServerTypes
    <3>2. /\ Pending(c) => Pending(c)'
          /\ Clean(c) => Clean(c)'
      BY <1>3, <1>6, <1>9, <2>2, <3>1 DEF Pending, Clean, FunctorNames
    <3>3. c <= accepted' <=> c <= accepted BY <1>1, <1>3, <2>2 DEF new, Conns
    <3> QED BY <1>1, <1>3, <1>6, <1>9, <2>2, <3>1, <3>2, <3>3
            DEF ConnInv, FunctorNames, new, Conns
  <2> QED BY <2>1, <2>2
<1> QED BY <1>6, <1>7, <1>8, <1>10, <1>11

\* A shutdown is in the loop of a connection whose channel is in the poller, so
\* that connectDestroyed is still to come.
LEMMA ShutdownKeeps ==
  ASSUME ServerInv, PoolInv, NEW d \in Conns, Shutdown(d) PROVE ServerInv'
<1> USE DEF ServerInv
<1>1. /\ channel[d] /\ state[d] = "kConnected"
      /\ state' = [state EXCEPT ![d] = "kDisconnecting"]
      /\ UNCHANGED <<loops, tpc, ppc, arrived, accepted, home, channel, inMap, queue, dying>>
  BY DEF Shutdown, Handles, poolVars, startVars
<1>2. ServerTypes' BY <1>1 DEF ServerTypes, States
<1>3. DtorInv' BY <1>1 DEF DtorInv
<1>4. \A m \in Loops : EstablishedFirst(queue[m])' BY <1>1 DEF EstablishedFirst
<1>5. \A n, m, c : Queued(n, m, c)' <=> Queued(n, m, c) BY <1>1 DEF Queued
<1>6. \A c \in Conns : state'[c] = IF c = d THEN "kDisconnecting" ELSE state[c]
  BY <1>1 DEF ServerTypes
<1>7. ASSUME NEW m \in Loops, NEW c \in Conns PROVE FunctorInv(m, c)'
  BY <1>1, <1>5, <1>6 DEF FunctorInv
<1>8. ASSUME NEW c \in Conns PROVE ConnInv(c)'
  <2>1. Pending(c)' <=> Pending(c) BY <1>1, <1>5 DEF Pending
  <2>2. c # d => (Clean(c)' <=> Clean(c)) BY <1>1, <1>6 DEF Clean
  <2>3. ConnInv(c) /\ ConnInv(d) OBVIOUS
  <2>4. ~Clean(d) BY <1>1 DEF Clean
  <2>5. CASE c = d
    BY <1>1, <1>6, <2>1, <2>3, <2>4, <2>5 DEF ConnInv
  <2>6. CASE c # d
    BY <1>1, <1>5, <1>6, <2>1, <2>2, <2>3, <2>6 DEF ConnInv
  <2> QED BY <2>5, <2>6
<1> QED BY <1>2, <1>3, <1>4, <1>7, <1>8

\* handleClose queues the removal of a connection that is now kDisconnected.
LEMMA HandleCloseKeeps ==
  ASSUME ServerInv, PoolInv, NEW d \in Conns, HandleClose(d) PROVE ServerInv'
<1> USE DEF ServerInv
<1> DEFINE name == IF home[d] = 0 THEN "connectDestroyed" ELSE "removeConnectionInLoop"
<1>1. /\ channel[d] /\ state[d] \in {"kConnected", "kDisconnecting"}
      /\ state' = [state EXCEPT ![d] = "kDisconnected"]
      /\ inMap' = IF home[d] = 0 THEN inMap \ {d} ELSE inMap
      /\ queue' = [queue EXCEPT ![0] = Append(@, Functor(name, d))]
      /\ UNCHANGED <<loops, tpc, ppc, arrived, accepted, home, channel, dying>>
  BY DEF HandleClose, RemoveConnection, Handles, Queue, startVars
<1>2. name \in FunctorNames /\ 0 \in Loops
  BY PollAssumption DEF FunctorNames, Loops
<1>3. /\ name = "connectDestroyed" <=> home[d] = 0
      /\ name = "removeConnectionInLoop" <=> home[d] # 0
      /\ name # "connectEstablished"
  OBVIOUS
<1> HIDE DEF name
<1>4. /\ queue' \in [Loops -> Seq(Functors)]
      /\ queue'[0] = Append(queue[0], Functor(name, d))
      /\ \A m \in Loops : m # 0 => queue'[m] = queue[m]
      /\ \A m \in Loops, n \in FunctorNames, c \in Conns :
           Queued(n, m, c)' <=> Queued(n, m, c) \/ (m = 0 /\ n = name /\ c = d)
  BY <1>1, <1>2, QueueAppend
<1>5. ServerTypes' BY <1>1, <1>4 DEF ServerTypes, States
<1>6. DtorInv' BY <1>1 DEF DtorInv
<1>7. ASSUME NEW m \in Loops PROVE EstablishedFirst(queue[m])'
  <2>1. /\ queue[0] \in Seq(Functors) /\ EstablishedFirst(queue[0])
        /\ Functor(name, d) \in Functors /\ Functor(name, d).fn = name
    BY <1>2, FunctorEq DEF ServerTypes, Functor
  <2>2. EstablishedFirst(Append(queue[0], Functor(name, d)))
    BY <1>3, <2>1, FirstAppend
  <2>3. EstablishedFirst(queue'[m]) BY <1>4, <2>2
  <2> QED BY <2>3
<1>8. \A c \in Conns : state'[c] = IF c = d THEN "kDisconnected" ELSE state[c]
  BY <1>1 DEF ServerTypes
<1>9. d <= accepted
  <2>1. ConnInv(d) OBVIOUS
  <2> QED BY <1>1, <2>1 DEF ConnInv
<1>10. ASSUME NEW m \in Loops, NEW c \in Conns PROVE FunctorInv(m, c)'
  <2>1. FunctorInv(m, c) OBVIOUS
  <2> QED BY <1>1, <1>3, <1>4, <1>8, <1>9, <2>1 DEF FunctorInv, FunctorNames
<1>11. ASSUME NEW c \in Conns PROVE ConnInv(c)'
  <2>1. home[c] \in Loops /\ ConnInv(c) /\ ConnInv(d) BY DEF ServerTypes
  <2>2. c # d => (Clean(c)' <=> Clean(c)) BY <1>1, <1>8 DEF Clean
  <2>3. ~Clean(d) BY <1>1 DEF Clean
  <2>4. Pending(c) => Pending(c)'
    BY <1>1, <1>2, <1>3, <1>4, <2>1 DEF Pending, FunctorNames
  <2>5. CASE c = d
    BY <1>1, <1>8, <2>1, <2>3, <2>4, <2>5 DEF ConnInv
  <2>6. CASE c # d
    BY <1>1, <1>4, <1>8, <2>1, <2>2, <2>4, <2>6 DEF ConnInv, FunctorNames
  <2> QED BY <2>5, <2>6
<1> QED BY <1>5, <1>6, <1>7, <1>10, <1>11

\* connectEstablished of a kConnecting connection; nobody destroys it first.
LEMMA EstablishedKeeps ==
  ASSUME ServerInv, PoolInv, NEW i \in Threads, ConnectEstablished(i) PROVE ServerInv'
<1> USE DEF ServerInv
<1>2. i \in Loops /\ i # 0 BY PollAssumption DEF Loops, Threads
<1>0. queue[i] # <<>> /\ Head(queue[i]) \in Functors
  BY <1>2, HasTail DEF ConnectEstablished, Runs, ServerTypes
<1>4. PICK d \in Conns : d = Head(queue[i]).conn BY <1>0, FunctorEq
<1>1. /\ queue[i] # <<>> /\ Head(queue[i]).fn = "connectEstablished"
      /\ tpc[i] = "functors"
      /\ state' = [state EXCEPT ![d] = "kConnected"]
      /\ channel' = [channel EXCEPT ![d] = TRUE]
      /\ queue' = [queue EXCEPT ![i] = Tail(@)]
      /\ UNCHANGED <<loops, tpc, ppc, arrived, accepted, home, inMap, dying>>
  BY <1>2, <1>4 DEF ConnectEstablished, Runs, Taken, Establish, poolVars, startVars
<1>3. /\ queue' \in [Loops -> Seq(Functors)]
      /\ queue'[i] = Tail(queue[i])
      /\ Head(queue[i]) \in Functors
      /\ \A m \in Loops : m # i => queue'[m] = queue[m]
      /\ \A m \in Loops, n \in FunctorNames, c \in Conns :
           Queued(n, m, c) <=> \/ Queued(n, m, c)'
                               \/ m = i /\ n = Head(queue[i]).fn /\ c = d
  BY <1>1, <1>2, <1>4, QueueTail
<1>5. /\ \A m \in Loops : EstablishedFirst(queue[m])'
      /\ ~Queued("connectEstablished", i, d)'
  <2>1. queue[i] \in Seq(Functors) /\ EstablishedFirst(queue[i])
    BY <1>2 DEF ServerTypes
  <2>2. EstablishedFirst(Tail(queue[i])) /\ ~Has(Tail(queue[i]), Head(queue[i]))
    BY <1>1, <2>1, FirstTail
  <2>3. ASSUME NEW m \in Loops PROVE EstablishedFirst(queue'[m]) BY <1>3, <2>2
  <2>4. Head(queue[i]) = Functor("connectEstablished", d)
    BY <1>0, <1>1, <1>4, FunctorEq
  <2> QED BY <1>2, <1>3, <2>2, <2>3, <2>4 DEF Queued
<1>6. /\ i = home[d] /\ state[d] = "kConnecting" /\ Pending(d)
  <2>1. Queued("connectEstablished", i, d)
    BY <1>1, <1>2, <1>3, <1>4 DEF FunctorNames
  <2>2. FunctorInv(i, d) /\ ConnInv(d) BY <1>2, <1>4
  <2>3. i = home[d] /\ state[d] = "kConnecting" BY <2>1, <2>2 DEF FunctorInv
  <2>4. d <= accepted BY <2>2, <2>3 DEF ConnInv
  <2>5. ~Clean(d) BY <1>1, <2>3 DEF Clean
  <2> QED BY <2>2, <2>3, <2>4, <2>5 DEF ConnInv
<1>7. ServerTypes' BY <1>1, <1>3 DEF ServerTypes, States
<1>8. DtorInv' BY <1>1 DEF DtorInv
<1>9. \A c \in Conns : /\ state'[c] = IF c = d THEN "kConnected" ELSE state[c]
                       /\ c # d => channel'[c] = channel[c]
  BY <1>1 DEF ServerTypes
<1>10. ASSUME NEW m \in Loops, NEW c \in Conns PROVE FunctorInv(m, c)'
  <2>1. FunctorInv(m, c) OBVIOUS
  <2>2. \A n \in FunctorNames : Queued(n, m, c)' => Queued(n, m, c) BY <1>3
  <2>3. c = d => ~Queued("connectEstablished", m, c)'
    BY <1>5, <1>6, <2>1, <2>2 DEF FunctorInv, FunctorNames
  <2> QED BY <1>1, <1>6, <1>9, <2>1, <2>2, <2>3 DEF FunctorInv, FunctorNames
<1>11. ASSUME NEW c \in Conns PROVE ConnInv(c)'
  <2>1. home[c] \in Loops /\ ConnInv(c) /\ ConnInv(d) BY <1>4 DEF ServerTypes
  <2>2. c # d => (Clean(c)' <=> Clean(c)) BY <1>1, <1>9 DEF Clean
  <2>3. Pending(c) => Pending(c)'
    BY <1>1, <1>3, <2>1 DEF Pending, FunctorNames
  <2>4. CASE c = d
    <3>1. Pending(c)' /\ state[c] = "kConnecting" BY <1>6, <2>3, <2>4
    <3>2. state'[c] = "kConnected" BY <1>9, <2>4
    <3> QED BY <1>1, <2>1, <3>1, <3>2 DEF ConnInv
  <2>5. CASE c # d
    <3>1. Queued("connectEstablished", home[c], c)
            => Queued("connectEstablished", home[c], c)'
      BY <1>1, <1>3, <2>1, <2>5 DEF FunctorNames
    <3> QED BY <1>1, <1>9, <2>1, <2>2, <2>3, <2>5, <3>1 DEF ConnInv
  <2> QED BY <2>4, <2>5
<1> QED BY <1>5, <1>7, <1>8, <1>10, <1>11

\* connectDestroyed leaves its connection clean.
LEMMA DestroyedKeeps ==
  ASSUME ServerInv, PoolInv, NEW l \in Loops, ConnectDestroyed(l) PROVE ServerInv'
<1> USE DEF ServerInv
<1>1. queue[l] # <<>> /\ Head(queue[l]) \in Functors
  BY HasTail DEF ConnectDestroyed, Runs, ServerTypes
<1>2. PICK d \in Conns : d = Head(queue[l]).conn BY <1>1, FunctorEq
<1>3. /\ Head(queue[l]).fn = "connectDestroyed"
      /\ l # 0 => tpc[l] = "functors"
      /\ state' = [state EXCEPT ![d] = IF @ = "kConnected" THEN "kDisconnected" ELSE @]
      /\ channel' = [channel EXCEPT ![d] = FALSE]
      /\ queue' = [queue EXCEPT ![l] = Tail(@)]
      /\ UNCHANGED <<loops, tpc, ppc, arrived, accepted, home, inMap, dying>>
  BY <1>2 DEF ConnectDestroyed, Runs, Taken, Destroy, poolVars, startVars
<1>4. /\ queue' \in [Loops -> Seq(Functors)]
      /\ queue'[l] = Tail(queue[l])
      /\ \A m \in Loops : m # l => queue'[m] = queue[m]
      /\ \A m \in Loops, n \in FunctorNames, c \in Conns :
           Queued(n, m, c) <=> \/ Queued(n, m, c)'
                               \/ m = l /\ n = "connectDestroyed" /\ c = d
  BY <1>1, <1>2, <1>3, QueueTail
<1>5. \A m \in Loops : EstablishedFirst(queue[m])'
  <2>1. queue[l] \in Seq(Functors) /\ EstablishedFirst(queue[l])
    BY DEF ServerTypes
  <2>2. EstablishedFirst(Tail(queue[l])) BY <1>1, <2>1, FirstTail
  <2>3. ASSUME NEW m \in Loops PROVE EstablishedFirst(queue'[m]) BY <1>4, <2>2
  <2> QED BY <2>3
<1>6. /\ l = home[d] /\ d <= accepted /\ d \notin inMap
      /\ state[d] = "kDisconnected" \/ (dying /\ l # 0)
      /\ state[d] \notin {"none", "kConnecting"}
  <2>1. Queued("connectDestroyed", l, d) BY <1>4 DEF FunctorNames
  <2>2. FunctorInv(l, d) /\ ConnInv(d) OBVIOUS
  <2>3. /\ l = home[d] /\ d <= accepted /\ d \notin inMap
        /\ state[d] = "kDisconnected" \/ (dying /\ l # 0)
    BY <2>1, <2>2 DEF FunctorInv
  <2>4. state[d] # "none" BY <2>2, <2>3 DEF ConnInv
  <2>5. ASSUME state[d] = "kConnecting" PROVE FALSE
    <3>1. Has(queue[l], Functor("connectEstablished", d))
      BY <1>3, <2>2, <2>3, <2>5 DEF ConnInv, Queued
    <3>2. queue[l] \in Seq(Functors) /\ EstablishedFirst(queue[l])
      BY DEF ServerTypes
    <3> QED BY <1>1, <1>2, <1>3, <3>1, <3>2, FirstTail
  <2> QED BY <2>3, <2>4, <2>5
<1>7. ServerTypes'
  <2>1. state' \in [Conns -> States] BY <1>3 DEF ServerTypes, States
  <2> QED BY <1>3, <1>4, <2>1 DEF ServerTypes
<1>8. DtorInv' BY <1>3 DEF DtorInv
<1>9. /\ \A c \in Conns : c # d => state'[c] = state[c] /\ channel'[c] = channel[c]
      /\ ~channel'[d]
      /\ state'[d] = IF state[d] = "kConnected" THEN "kDisconnected" ELSE state[d]
  BY <1>3 DEF ServerTypes
<1>10. ASSUME NEW m \in Loops, NEW c \in Conns PROVE FunctorInv(m, c)'
  <2>1. FunctorInv(m, c) OBVIOUS
  <2>2. \A n \in FunctorNames : Queued(n, m, c)' => Queued(n, m, c) BY <1>4
  <2> QED BY <1>3, <1>6, <1>9, <2>1, <2>2 DEF FunctorInv, FunctorNames
<1>11. ASSUME NEW c \in Conns PROVE ConnInv(c)'
  <2>1. home[c] \in Loops /\ ConnInv(c) BY DEF ServerTypes
  <2>2. CASE c = d
    <3>1. state'[c] \in {"kDisconnecting", "kDisconnected"}
      BY <1>6, <1>9, <2>2 DEF ServerTypes, States
    <3>2. Clean(c)' BY <1>3, <1>6, <1>9, <2>2, <3>1 DEF Clean
    <3> QED BY <1>3, <1>6, <2>1, <2>2, <3>1, <3>2 DEF ConnInv
  <2>3. CASE c # d
    <3>1. Clean(c)' <=> Clean(c) BY <1>3, <1>9, <2>3 DEF Clean
    <3>2. Pending(c) => Pending(c)'
      BY <1>3, <1>4, <2>1, <2>3 DEF Pending, FunctorNames
    <3>3. Queued("connectEstablished", home[c], c)
            => Queued("connectEstablished", home[c], c)'
      BY <1>3, <1>4, <2>1, <2>3 DEF FunctorNames
    <3> QED BY <1>3, <1>9, <2>1, <2>3, <3>1, <3>2, <3>3 DEF ConnInv
  <2> QED BY <2>2, <2>3
<1> QED BY <1>5, <1>7, <1>8, <1>10, <1>11

\* removeConnectionInLoop takes its functor from the base loop and queues
\* connectDestroyed in the loop of the connection.
LEMMA QueueMove ==
  ASSUME ServerInv, NEW l \in Loops, l # 0, NEW d \in Conns,
         queue[0] # <<>>, Head(queue[0]) = Functor("removeConnectionInLoop", d),
         queue' = [queue EXCEPT ![0] = Tail(@),
                                ![l] = Append(@, Functor("connectDestroyed", d))]
  PROVE  /\ queue' \in [Loops -> Seq(Functors)]
         /\ \A m \in Loops : EstablishedFirst(queue'[m])
         /\ \A m \in Loops, n \in FunctorNames, c \in Conns :
              /\ Queued(n, m, c)'
                   => Queued(n, m, c) \/ (m = l /\ n = "connectDestroyed" /\ c = d)
              /\ Queued(n, m, c)
                   => \/ Queued(n, m, c)'
                      \/ n = "removeConnectionInLoop" /\ c = d
         /\ Queued("removeConnectionInLoop", 0, d)
         /\ Queued("connectDestroyed", l, d)'
<1> DEFINE f == Functor("connectDestroyed", d)
<1>0. 0 \in Loops BY PollAssumption DEF Loops
<1>1. /\ f \in Functors /\ f.fn = "connectDestroyed"
      /\ \A n, c : f = Functor(n, c) <=> n = "connectDestroyed" /\ c = d
  <2>1. "connectDestroyed" \in FunctorNames BY DEF FunctorNames
  <2> QED BY <2>1, FunctorEq DEF Functor
<1> HIDE DEF f
<1>2. /\ queue[0] \in Seq(Functors) /\ queue[l] \in Seq(Functors)
      /\ EstablishedFirst(queue[0]) /\ EstablishedFirst(queue[l])
  BY <1>0 DEF ServerInv, ServerTypes
<1>3. /\ Tail(queue[0]) \in Seq(Functors) /\ Append(queue[l], f) \in Seq(Functors)
      /\ \A g : Has(queue[0], g) <=> g = Head(queue[0]) \/ Has(Tail(queue[0]), g)
      /\ \A g : Has(Append(queue[l], f), g) <=> Has(queue[l], g) \/ g = f
      /\ EstablishedFirst(Tail(queue[0])) /\ EstablishedFirst(Append(queue[l], f))
  BY <1>1, <1>2, HasTail, HasAppend, FirstTail, FirstAppend
<1>4. /\ queue' \in [Loops -> Seq(Functors)]
      /\ queue'[0] = Tail(queue[0]) /\ queue'[l] = Append(queue[l], f)
      /\ \A m \in Loops : m # 0 /\ m # l => queue'[m] = queue[m]
  BY <1>0, <1>3 DEF ServerInv, ServerTypes, f
<1>5. \A n, c : Functor(n, c) = Head(queue[0]) <=> n = "removeConnectionInLoop" /\ c = d
  BY FunctorEq
<1>6. ASSUME NEW m \in Loops PROVE EstablishedFirst(queue'[m])
  BY <1>2, <1>3, <1>4 DEF ServerInv
<1>7. ASSUME NEW m \in Loops, NEW n \in FunctorNames, NEW c \in Conns
      PROVE  /\ Queued(n, m, c)'
                  => Queued(n, m, c) \/ (m = l /\ n = "connectDestroyed" /\ c = d)
             /\ Queued(n, m, c)
                  => Queued(n, m, c)' \/ (n = "removeConnectionInLoop" /\ c = d)
  <2>1. CASE m = 0 BY <1>3, <1>4, <1>5, <2>1 DEF Queued
  <2>2. CASE m = l BY <1>1, <1>3, <1>4, <2>2 DEF Queued
  <2>3. CASE m # 0 /\ m # l BY <1>4, <2>3 DEF Queued
  <2> QED BY <2>1, <2>2, <2>3
<1>8. Queued("connectDestroyed", l, d)' /\ Queued("removeConnectionInLoop", 0, d)
  BY <1>3, <1>4, <1>5 DEF Queued, f
<1> QED BY <1>4, <1>6, <1>7, <1>8

\* The connection removeConnectionInLoop is called for has a loop of its own and is
\* kDisconnected.
LEMMA RemoveFacts ==
  ASSUME ServerInv, RemoveConnectionInLoop
  PROVE  \E d \in Conns, l \in Loops :
           /\ l = home[d] /\ l # 0 /\ queue[0] # <<>>
           /\ Head(queue[0]) = Functor("removeConnectionInLoop", d)
           /\ state[d] = "kDisconnected" /\ d <= accepted
           /\ inMap' = inMap \ {d}
           /\ queue' = [queue EXCEPT ![0] = Tail(@),
                                     ![l] = Append(@, Functor("connectDestroyed", d))]
           /\ UNCHANGED <<loops, tpc, ppc, arrived, accepted, state, home, channel, dying>>
<1> USE DEF ServerInv
<1>0. 0 \in Loops BY PollAssumption DEF Loops
<1>1. queue[0] # <<>> /\ Head(queue[0]) \in Functors
  BY <1>0, HasTail DEF RemoveConnectionInLoop, Runs, ServerTypes
<1>2. PICK d \in Conns : d = Head(queue[0]).conn BY <1>1, FunctorEq
<1>3. PICK l \in Loops : l = home[d] BY DEF ServerTypes
<1>4. /\ Head(queue[0]).fn = "removeConnectionInLoop"
      /\ inMap' = inMap \ {d}
      /\ queue' = [queue EXCEPT ![0] = Tail(@),
                                ![l] = Append(@, Functor("connectDestroyed", d))]
      /\ UNCHANGED <<loops, tpc, ppc, arrived, accepted, state, home, channel, dying>>
  BY <1>2, <1>3 DEF RemoveConnectionInLoop, startVars
<1>5. Head(queue[0]) = Functor("removeConnectionInLoop", d)
  BY <1>1, <1>2, <1>4, FunctorEq
<1>6. l # 0 /\ state[d] = "kDisconnected" /\ d <= accepted
  <2>1. FunctorInv(0, d) /\ ConnInv(d) BY <1>0
  <2>2. Has(queue[0], Head(queue[0])) BY <1>0, <1>1, HasTail DEF ServerTypes
  <2>3. Queued("removeConnectionInLoop", 0, d) BY <1>5, <2>2 DEF Queued
  <2> QED BY <1>3, <2>1, <2>3 DEF FunctorInv, ConnInv
<1> QED BY <1>1, <1>3, <1>4, <1>5, <1>6

\* removeConnectionInLoop keeps connectDestroyed to come.
LEMMA RemoveKeeps == ServerInv /\ PoolInv /\ RemoveConnectionInLoop => ServerInv'
<1> SUFFICES ASSUME ServerInv, PoolInv, RemoveConnectionInLoop PROVE ServerInv'
  OBVIOUS
<1>3. PICK d \in Conns, l \in Loops :
           /\ l = home[d] /\ l # 0 /\ queue[0] # <<>>
           /\ Head(queue[0]) = Functor("removeConnectionInLoop", d)
           /\ state[d] = "kDisconnected" /\ d <= accepted
           /\ inMap' = inMap \ {d}
           /\ queue' = [queue EXCEPT ![0] = Tail(@),
                                     ![l] = Append(@, Functor("connectDestroyed", d))]
           /\ UNCHANGED <<loops, tpc, ppc, arrived, accepted, state, home, channel, dying>>
  BY RemoveFacts
<1>4. /\ inMap' = inMap \ {d}
      /\ UNCHANGED <<loops, tpc, ppc, arrived, accepted, state, home, channel, dying>>
  BY <1>3
<1>5. l # 0 /\ state[d] = "kDisconnected" /\ d <= accepted BY <1>3
<1>6. /\ queue' \in [Loops -> Seq(Functors)]
      /\ \A m \in Loops : EstablishedFirst(queue'[m])
      /\ \A m \in Loops, n \in FunctorNames, c \in Conns :
           /\ Queued(n, m, c)'
                => Queued(n, m, c) \/ (m = l /\ n = "connectDestroyed" /\ c = d)
           /\ Queued(n, m, c) /\ n # "removeConnectionInLoop" => Queued(n, m, c)'
      /\ Queued("connectDestroyed", l, d)'
  BY <1>3, QueueMove
<1> USE DEF ServerInv
<1>7. ServerTypes' BY <1>4, <1>6 DEF ServerTypes
<1>8. DtorInv' BY <1>4 DEF DtorInv
<1>9. \A m \in Loops : EstablishedFirst(queue[m])' BY <1>6
<1>10. ASSUME NEW m \in Loops, NEW c \in Conns PROVE FunctorInv(m, c)'
  <2>1. FunctorInv(m, c) OBVIOUS
  <2> QED BY <1>3, <1>4, <1>5, <1>6, <2>1 DEF FunctorInv, FunctorNames
<1>11. ASSUME NEW c \in Conns PROVE ConnInv(c)'
  <2>1. home[c] \in Loops /\ ConnInv(c) BY DEF ServerTypes
  <2>2. Clean(c)' <=> Clean(c) BY <1>4 DEF Clean
  <2>3. Pending(c) => Pending(c)'
    BY <1>3, <1>4, <1>6, <2>1 DEF Pending, FunctorNames
  <2>4. Queued("connectEstablished", home[c], c)
          => Queued("connectEstablished", home[c], c)'
    BY <1>4, <1>6, <2>1 DEF FunctorNames
  <2> QED BY <1>4, <2>1, <2>2, <2>3, <2>4 DEF ConnInv
<1> QED BY <1>7, <1>8, <1>9, <1>10, <1>11

\* A loop is destroyed: its queue and its channels go with it.
LEMMA LoopGoes ==
  ASSUME ServerInv, NEW l \in Loops, dying, inMap = {},
         queue' = [queue EXCEPT ![l] = <<>>],
         channel' = [c \in Conns |-> channel[c] /\ home[c] # l],
         UNCHANGED <<loops, arrived, accepted, state, home, inMap, dying>>,
         DtorInv',
         \A i \in Threads : tpc[i] = "done" => tpc'[i] = "done",
         l # 0 => tpc'[l] = "done"
  PROVE  ServerInv'
<1> USE DEF ServerInv
<1>1. /\ queue' \in [Loops -> Seq(Functors)] /\ queue'[l] = <<>>
      /\ \A m \in Loops : m # l => queue'[m] = queue[m]
  BY EmptySeq DEF ServerTypes
<1>2. \A f : ~Has(<<>>, f) BY DEF Has
<1>3. \A m \in Loops, n \in FunctorNames, c \in Conns :
        /\ Queued(n, m, c)' => m # l /\ Queued(n, m, c)
        /\ m # l /\ Queued(n, m, c) => Queued(n, m, c)'
  BY <1>1, <1>2 DEF Queued
<1>4. ASSUME NEW m \in Loops PROVE EstablishedFirst(queue'[m])
  <2>1. EstablishedFirst(<<>>) BY DEF EstablishedFirst
  <2> QED BY <1>1, <2>1
<1>5. ServerTypes' BY <1>1 DEF ServerTypes
<1>6. ASSUME NEW m \in Loops, NEW c \in Conns PROVE FunctorInv(m, c)'
  <2>1. FunctorInv(m, c) OBVIOUS
  <2> QED BY <1>3, <2>1 DEF FunctorInv, FunctorNames
<1>7. ASSUME NEW c \in Conns PROVE ConnInv(c)'
  <2>1. home[c] \in Loops /\ ConnInv(c) /\ FunctorInv(home[c], c) BY DEF ServerTypes
  <2>2. home[c] # 0 => home[c] \in Threads
    BY <2>1, PollAssumption DEF Loops, Threads
  <2>3. channel'[c] <=> channel[c] /\ home[c] # l OBVIOUS
  <2>4. CASE home[c] # l
    <3>1. Clean(c) => Clean(c)' BY <2>2, <2>3 DEF Clean
    <3>2. Pending(c) => Pending(c)' BY <1>3, <2>1, <2>4 DEF Pending, FunctorNames
    <3>3. Queued("connectEstablished", home[c], c)
            => Queued("connectEstablished", home[c], c)'
      BY <1>3, <2>1, <2>4 DEF FunctorNames
    <3> QED BY <2>1, <2>2, <3>1, <3>2, <3>3 DEF ConnInv
  <2>5. CASE home[c] = l /\ l # 0
    BY <2>1, <2>3, <2>5 DEF ConnInv, Clean
  <2>6. CASE home[c] = l /\ l = 0
    <3>1. c <= accepted => state[c] = "kDisconnected" \/ (dying /\ state[c] = "kDisconnecting")
      BY <2>1, <2>6 DEF ConnInv, Clean, Pending, FunctorInv
    <3> QED BY <2>1, <2>3, <2>6, <3>1 DEF ConnInv, Clean
  <2> QED BY <2>4, <2>5, <2>6
<1> QED BY <1>4, <1>5, <1>6, <1>7

\* One turn of ~TcpServer: connectDestroyed is called, or queued where the
\* connection lives.
LEMMA DtorItemKeeps ==
  ASSUME ServerInv, PoolInv, NEW d \in Conns, DtorItem(d) PROVE ServerInv'
<1> USE DEF ServerInv
<1>1. /\ dying /\ d \in inMap /\ inMap' = inMap \ {d}
      /\ UNCHANGED <<loops, tpc, ppc, arrived, accepted, home, dying>>
  BY DEF DtorItem, startVars
<1>2. DtorInv' BY <1>1 DEF DtorInv
<1>3. d <= accepted /\ state[d] # "none" /\ ConnInv(d)
  BY <1>1 DEF ServerTypes, ConnInv
<1>4. \A c \in Conns : c # d => (c \in inMap' <=> c \in inMap) BY <1>1
<1>5. PICK l \in Loops : l = home[d] BY DEF ServerTypes
<1>6. CASE l = 0
  <2>1. /\ state' = [state EXCEPT ![d] = IF @ = "kConnected" THEN "kDisconnected" ELSE @]
        /\ channel' = [channel EXCEPT ![d] = FALSE]
        /\ queue' = queue
    BY <1>5, <1>6 DEF DtorItem, Destroy
  <2>2. \A n, m, c : Queued(n, m, c)' <=> Queued(n, m, c) BY <2>1 DEF Queued
  <2>3. /\ \A c \in Conns : c # d => state'[c] = state[c] /\ channel'[c] = channel[c]
        /\ ~channel'[d]
        /\ state'[d] = IF state[d] = "kConnected" THEN "kDisconnected" ELSE state[d]
    BY <2>1 DEF ServerTypes
  <2>4. ServerTypes'
    <3>1. state' \in [Conns -> States] BY <2>1 DEF ServerTypes, States
    <3> QED BY <1>1, <2>1, <3>1 DEF ServerTypes
  <2>5. ASSUME NEW m \in Loops, NEW c \in Conns PROVE FunctorInv(m, c)'
    <3>1. FunctorInv(m, c) OBVIOUS
    <3>2. c = d => /\ ~Queued("connectEstablished", m, c)
                   /\ ~Queued("removeConnectionInLoop", m, c)
                   /\ ~Queued("connectDestroyed", m, c)
      BY <1>1, <1>5, <1>6, <3>1 DEF FunctorInv
    <3>3. CASE c = d BY <2>2, <3>2, <3>3 DEF FunctorInv
    <3>4. CASE c # d BY <1>1, <1>4, <2>2, <2>3, <3>1, <3>4 DEF FunctorInv
    <3> QED BY <3>3, <3>4
  <2>6. ASSUME NEW c \in Conns PROVE ConnInv(c)'
    <3>1. ConnInv(c) OBVIOUS
    <3>2. CASE c = d
      <4>1. state'[c] \in {"kDisconnecting", "kDisconnected"}
        BY <1>3, <1>5, <1>6, <2>3, <3>2 DEF ConnInv, ServerTypes, States
      <4> QED BY <1>1, <1>3, <1>5, <1>6, <2>3, <3>1, <3>2, <4>1 DEF ConnInv, Clean
    <3>3. CASE c # d
      <4>1. Clean(c)' <=> Clean(c) BY <1>1, <2>3, <3>3 DEF Clean
      <4>2. Pending(c)' <=> Pending(c) BY <1>1, <1>4, <2>2, <3>3 DEF Pending
      <4> QED BY <1>1, <2>2, <2>3, <3>1, <3>3, <4>1, <4>2 DEF ConnInv
    <3> QED BY <3>2, <3>3
  <2>7. \A m \in Loops : EstablishedFirst(queue[m])' BY <2>1 DEF EstablishedFirst
  <2> QED BY <1>2, <2>4, <2>5, <2>6, <2>7
<1>7. CASE l # 0
  <2>1. /\ queue' = [queue EXCEPT ![l] = Append(@, Functor("connectDestroyed", d))]
        /\ UNCHANGED <<state, channel>>
    BY <1>5, <1>7 DEF DtorItem, Queue
  <2>2. "connectDestroyed" \in FunctorNames BY DEF FunctorNames
  <2>3. /\ queue' \in [Loops -> Seq(Functors)]
        /\ queue'[l] = Append(queue[l], Functor("connectDestroyed", d))
        /\ \A m \in Loops : m # l => queue'[m] = queue[m]
        /\ \A m \in Loops, n \in FunctorNames, c \in Conns :
             Queued(n, m, c)' <=> \/ Queued(n, m, c)
                                  \/ m = l /\ n = "connectDestroyed" /\ c = d
    BY <2>1, <2>2, QueueAppend
  <2>4. ServerTypes' BY <1>1, <2>1, <2>3 DEF ServerTypes
  <2>5. ASSUME NEW m \in Loops PROVE EstablishedFirst(queue'[m])
    <3>1. /\ queue[l] \in Seq(Functors) /\ EstablishedFirst(queue[l])
          /\ Functor("connectDestroyed", d) \in Functors
          /\ Functor("connectDestroyed", d).fn = "connectDestroyed"
      BY <2>2, FunctorEq DEF ServerTypes, Functor
    <3>2. EstablishedFirst(Append(queue[l], Functor("connectDestroyed", d)))
      BY <3>1, FirstAppend
    <3> QED BY <2>3, <3>2
  <2>6. ASSUME NEW m \in Loops, NEW c \in Conns PROVE FunctorInv(m, c)'
    <3>1. FunctorInv(m, c) OBVIOUS
    <3> QED BY <1>1, <1>3, <1>5, <1>7, <2>1, <2>3, <3>1 DEF FunctorInv, FunctorNames
  <2>7. ASSUME NEW c \in Conns PROVE ConnInv(c)'
    <3>1. ConnInv(c) /\ home[c] \in Loops BY DEF ServerTypes
    <3>2. Clean(c)' <=> Clean(c) BY <1>1, <2>1 DEF Clean
    <3>3. Pending(c) => Pending(c)'
      BY <1>1, <1>4, <1>5, <2>2, <2>3, <3>1 DEF Pending
    <3>4. Queued("connectEstablished", home[c], c)
            => Queued("connectEstablished", home[c], c)'
      BY <1>1, <2>3, <3>1 DEF FunctorNames
    <3> QED BY <1>1, <2>1, <3>1, <3>2, <3>3, <3>4 DEF ConnInv
  <2> QED BY <1>2, <2>4, <2>5, <2>6, <2>7
<1> QED BY <1>6, <1>7

\* Before start there is neither a connection nor a functor.
LEMMA ServerInit == Init => ServerInv
<1> SUFFICES ASSUME Init PROVE ServerInv
  OBVIOUS
<1>1. ServerTypes
  <2>1. queue \in [Loops -> Seq(Functors)] BY EmptySeq DEF Init
  <2>2. home \in [Conns -> Loops] BY PollAssumption DEF Init, Loops
  <2>3. state \in [Conns -> States] BY DEF Init, States
  <2>4. arrived = 0 /\ accepted = 0 /\ inMap = {} /\ dying = FALSE BY DEF Init
  <2>5. channel \in [Conns -> BOOLEAN] BY DEF Init
  <2>6. /\ arrived \in 0 .. MaxConns /\ accepted \in 0 .. arrived
        /\ inMap \subseteq 1 .. accepted
    BY <2>4, ServerAssumption
  <2>7. dying \in BOOLEAN BY <2>4
  <2> QED BY <2>1, <2>2, <2>3, <2>5, <2>6, <2>7 DEF ServerTypes
<1>2. DtorInv BY DEF Init, PoolInit, DtorInv, EndingPC
<1>3. \A l \in Loops : queue[l] = <<>> BY DEF Init
<1>4. \A l \in Loops : EstablishedFirst(queue[l]) BY <1>3 DEF EstablishedFirst
<1>5. \A l \in Loops : \A n, c : ~Queued(n, l, c) BY <1>3 DEF Queued, Has
<1>6. \A l \in Loops, c \in Conns : FunctorInv(l, c) BY <1>5 DEF FunctorInv
<1>7. ASSUME NEW c \in Conns PROVE ConnInv(c)
  BY ServerAssumption DEF Init, ConnInv, Conns
<1> QED BY <1>1, <1>2, <1>4, <1>6, <1>7 DEF ServerInv

\* Every step of clients, threads and destructor preserves the invariant.
LEMMA ServerStep == ServerInv /\ PoolInv /\ PoolInv' /\ [Next]_vars => ServerInv'
<1> SUFFICES ASSUME ServerInv, PoolInv, PoolInv', [Next]_vars PROVE ServerInv'
  OBVIOUS
<1>0. /\ loops \in Nat /\ loops' \in Nat
      /\ arrived \in 0 .. MaxConns /\ dying \in BOOLEAN /\ DtorInv
  BY DEF PoolInv, PoolTypes, ServerInv, ServerTypes
<1>1. ASSUME UNCHANGED serverVars, loops <= loops',
             \A i \in Threads : tpc[i] = "done" => tpc'[i] = "done",
             ppc' \in EndingPC \cup {"gone"}
               => \/ ppc \in EndingPC \cup {"gone"}
                  \/ dying /\ inMap = {}
      PROVE  ServerInv'
  <2>1. DtorInv' BY <1>0, <1>1 DEF DtorInv, serverVars
  <2> QED BY <1>0, <1>1, <2>1, FrameKeeps DEF serverVars, Parts
<1>2. CASE PoolStep
  <2>1. UNCHANGED serverVars BY <1>2 DEF PoolStep
  <2>2. loops <= loops' /\ (ppc' \in EndingPC \cup {"gone"}
                              => ppc \in EndingPC \cup {"gone"})
    BY <1>0, <1>2 DEF PoolStep, BaseStep, StartThread, Started, Lock, Wait, StartLoopReturns,
       TestLoop, Quit, Wakeup, Join, NextThread, startVars, Starting, EndingPC
  <2>3. ASSUME NEW i \in Threads, tpc[i] = "done" PROVE tpc'[i] = "done"
    <3>1. ppc = "start" => i # cur
      BY <2>3 DEF PoolInv, ThreadInv, StartingPC
    <3> QED BY <1>2, <2>3, <3>1
       DEF PoolStep, BaseStep, StartThread, Started, Lock, Wait, StartLoopReturns,
           TestLoop, Quit, Wakeup, Join, startVars, PoolInv, PoolTypes
  <2> QED BY <1>1, <2>1, <2>2, <2>3
<1>3. ASSUME NEW i \in Threads,
             ThreadStart(i) \/ BatchDone(i) \/ SwapFunctors(i) PROVE ServerInv'
  <2>1. /\ UNCHANGED <<loops, ppc, arrived, dying>> /\ UNCHANGED Parts
        /\ \A j \in Threads : tpc[j] = "done" => tpc'[j] = "done"
    BY <1>3 DEF ThreadStart, BatchDone, SwapFunctors, ThreadInit, Publish, EnterLoop,
       CheckQuit, PollWakeup, PollOther, EndPass, ThreadStep, serverVars, Parts,
       PoolInv, PoolTypes
  <2>2. DtorInv' BY <1>0, <2>1 DEF DtorInv, Parts
  <2> QED BY <1>0, <2>1, <2>2, FrameKeeps
<1>4. CASE \/ Listen \/ ClientConnects \/ BeginDtor
           \/ \E c \in Conns : ClientCloses(c)
  <2>1. /\ UNCHANGED <<loops, ppc, tpc>> /\ UNCHANGED Parts
        /\ arrived' \in 0 .. MaxConns /\ arrived <= arrived'
        /\ dying' \in BOOLEAN /\ (dying => dying')
    <3>1. CASE Listen BY <1>0, <3>1 DEF Listen, poolVars, startVars, Parts
    <3>2. CASE ClientConnects
      BY <1>0, <3>2, ServerAssumption DEF ClientConnects, poolVars, startVars, Parts
    <3>3. CASE BeginDtor BY <1>0, <3>3 DEF BeginDtor, poolVars, startVars, Parts
    <3>4. ASSUME NEW c \in Conns, ClientCloses(c)
          PROVE  /\ UNCHANGED <<loops, ppc, tpc, arrived, dying>> /\ UNCHANGED Parts
      BY <3>4 DEF ClientCloses, poolVars, startVars, Parts
    <3> QED BY <1>0, <1>4, <3>1, <3>2, <3>3, <3>4
  <2>2. DtorInv' BY <1>0, <2>1 DEF DtorInv, Parts
  <2> QED BY <1>0, <2>1, <2>2, FrameKeeps
<1>5. CASE SpuriousWakeup /\ UNCHANGED serverVars
  BY <1>0, <1>1, <1>5 DEF SpuriousWakeup, Starting
<1>6. CASE EndDtor
  <2>1. dying /\ inMap = {} /\ UNCHANGED serverVars /\ UNCHANGED <<loops, tpc>>
    BY <1>6 DEF EndDtor, DestroyPool, startVars
  <2> QED BY <1>0, <1>1, <2>1
<1>7. ASSUME NEW i \in Threads, LeaveLoop(i) PROVE ServerInv'
  <2>1. /\ tpc[i] = "leave" /\ tpc' = [tpc EXCEPT ![i] = "done"]
        /\ queue' = [queue EXCEPT ![i] = <<>>]
        /\ channel' = [c \in Conns |-> channel[c] /\ home[c] # i]
        /\ UNCHANGED <<loops, ppc, arrived, accepted, state, home, inMap, dying>>
    BY <1>7 DEF LeaveLoop, Leave, ThreadStep
  <2>2. dying /\ inMap = {}
    <3>1. Told(i) BY <2>1 DEF PoolInv, ThreadInv
    <3> QED BY <1>0, <3>1 DEF Told, EndingPC, DtorInv
  <2>3. DtorInv' BY <1>0, <2>1 DEF DtorInv
  <2>4. i \in Loops BY PollAssumption DEF Loops, Threads
  <2>5. /\ tpc'[i] = "done"
        /\ \A j \in Threads : tpc[j] = "done" => tpc'[j] = "done"
    BY <2>1 DEF PoolInv, PoolTypes
  <2> QED BY <2>1, <2>2, <2>3, <2>4, <2>5, LoopGoes
<1>8. CASE DestroyBaseLoop
  <2>1. /\ ppc = "gone"
        /\ queue' = [queue EXCEPT ![0] = <<>>]
        /\ channel' = [c \in Conns |-> channel[c] /\ home[c] # 0]
        /\ UNCHANGED <<loops, tpc, ppc, arrived, accepted, state, home, inMap, dying>>
    BY <1>8 DEF DestroyBaseLoop, poolVars, startVars
  <2>2. dying /\ inMap = {} BY <1>0, <2>1 DEF DtorInv
  <2>3. DtorInv' BY <1>0, <2>1 DEF DtorInv
  <2>4. 0 \in Loops BY PollAssumption DEF Loops
  <2> QED BY <2>1, <2>2, <2>3, <2>4, LoopGoes
<1>9. CASE UNCHANGED vars
  BY <1>0, <1>1, <1>9 DEF vars, poolVars, startVars
<1>10. ASSUME NEW i \in Threads, LoopStep(i) \/ SwapFunctors(i) PROVE ServerInv'
  <2>1. i \in Loops BY PollAssumption DEF Loops, Threads
  <2> QED BY <1>3, <1>7, <1>10, <2>1, EstablishedKeeps, DestroyedKeeps DEF LoopStep
<1>11. CASE BaseLoopStep
  <2>1. 0 \in Loops BY PollAssumption DEF Loops
  <2> QED BY <1>2, <1>4, <1>6, <1>8, <1>11, <2>1, HandleReadKeeps, RemoveKeeps,
             DestroyedKeeps, DtorItemKeeps DEF BaseLoopStep
<1>12. ASSUME NEW c \in Conns, Shutdown(c) \/ HandleClose(c) PROVE ServerInv'
  BY <1>12, ShutdownKeeps, HandleCloseKeeps
<1> QED BY <1>4, <1>5, <1>9, <1>10, <1>11, <1>12 DEF Next

\* The invariant holds in every state of every run.
LEMMA ServerInv_Always == Spec => []ServerInv
<1> QED BY ServerInit, ServerStep, PoolInv_Always, PTL DEF Spec

\* A reference to a connection is in _connections or in a functor of a known name.
LEMMA HeldQueued ==
  ASSUME ServerInv, NEW c \in Conns
  PROVE  Held(c) <=> \/ c \in inMap
                     \/ \E l \in Loops, n \in FunctorNames : Queued(n, l, c)
<1>1. ASSUME NEW l \in Loops
      PROVE (\E k \in DOMAIN queue[l] : queue[l][k].conn = c)
              <=> \E n \in FunctorNames : Queued(n, l, c)
  <2>1. queue[l] \in Seq(Functors) BY DEF ServerInv, ServerTypes
  <2>2. DOMAIN queue[l] = 1 .. Len(queue[l]) BY <2>1
  <2>3. \A k \in 1 .. Len(queue[l]) : queue[l][k] \in Functors BY <2>1, ElementOfSeq
  <2>4. ASSUME NEW k \in 1 .. Len(queue[l]), queue[l][k].conn = c
        PROVE  \E n \in FunctorNames : Queued(n, l, c)
    BY <2>3, <2>4, FunctorEq DEF Queued, Has
  <2>5. ASSUME NEW n \in FunctorNames, Queued(n, l, c)
        PROVE  \E k \in 1 .. Len(queue[l]) : queue[l][k].conn = c
    BY <2>5 DEF Queued, Has, Functor
  <2> QED BY <2>2, <2>4, <2>5
<1> QED BY <1>1 DEF Held

\* The last reference to a connection never goes before it is out of its poller and
\* reported down, except for what ~TcpServer may leave unreported: for any number
\* of threads, clients and descriptors, whichever of the loops is first
\* (removeConnection, removeConnectionInLoop, connectDestroyed, ~TcpServer).
THEOREM FreedStaysClean == Spec => []FreedClean
<1>1. ASSUME ServerInv PROVE FreedClean
  <2> SUFFICES ASSUME NEW c \in 1 .. accepted, ~Held(c) PROVE Clean(c)
    BY DEF FreedClean, Clean
  <2>1. c \in Conns BY <1>1, ServerAssumption DEF ServerInv, ServerTypes, Conns
  <2>2. ConnInv(c) /\ c <= accepted BY <1>1, <2>1 DEF ServerInv
  <2>3. ~Pending(c)
    <3>1. home[c] \in Loops /\ "connectDestroyed" \in FunctorNames
      BY <1>1, <2>1 DEF ServerInv, ServerTypes, FunctorNames
    <3> QED BY <1>1, <2>1, <3>1, HeldQueued DEF Pending
  <2> QED BY <2>2, <2>3 DEF ConnInv
<1> QED BY <1>1, ServerInv_Always, PTL

-----------------------------------------------------------------------------
(* The server implements Service.                                         *)

\* Held and Stage by cases.
HeldFacts ==
  \A c \in Conns : /\ Held(c) <=> \/ c \in inMap
                                  \/ \E l \in Loops, n \in FunctorNames : Queued(n, l, c)
                   /\ Held(c) => c <= accepted

StageFacts ==
  \A c \in Conns :
    /\ c > accepted => Stage(c) = "waiting"
    /\ c <= accepted /\ ~Held(c) => Stage(c) = "released"
    /\ c <= accepted /\ Held(c) =>
         /\ state[c] = "kConnecting" => Stage(c) = "accepted"
         /\ state[c] \in {"kConnected", "kDisconnecting"} => Stage(c) = "up"
         /\ state[c] = "kDisconnected" => Stage(c) = "down"

\* The cases cover every state.
LEMMA StageFactsHold == ServerInv => HeldFacts /\ StageFacts
<1> SUFFICES ASSUME ServerInv PROVE HeldFacts /\ StageFacts
  OBVIOUS
<1>1. ASSUME NEW c \in Conns PROVE Held(c) => c <= accepted
  <2>1. c \in inMap => c <= accepted
    <3>1. accepted \in Int /\ inMap \subseteq 1 .. accepted
      BY DEF ServerInv, ServerTypes
    <3> QED BY <3>1
  <2>2. ConnInv(c) /\ \A l \in Loops : FunctorInv(l, c)
    BY DEF ServerInv
  <2> QED BY <2>1, <2>2, HeldQueued DEF FunctorInv, FunctorNames, ConnInv
<1>2. HeldFacts BY <1>1, HeldQueued DEF HeldFacts
<1>3. ASSUME NEW c \in Conns, c > accepted PROVE Stage(c) = "waiting"
  <2>1. ~(c <= accepted) BY <1>3 DEF ServerInv, ServerTypes, Conns
  <2> QED BY <1>3, <2>1 DEF Stage
<1>4. ASSUME NEW c \in Conns, c <= accepted
      PROVE  /\ ~Held(c) => Stage(c) = "released"
             /\ Held(c) =>
                  /\ state[c] = "kConnecting" => Stage(c) = "accepted"
                  /\ state[c] \in {"kConnected", "kDisconnecting"} => Stage(c) = "up"
                  /\ state[c] = "kDisconnected" => Stage(c) = "down"
  <2>1. ~(c > accepted) BY <1>4 DEF ServerInv, ServerTypes, Conns
  <2> QED BY <1>4, <2>1 DEF Stage
<1> QED BY <1>2, <1>3, <1>4 DEF StageFacts

\* The same of the state behind a step.
LEMMA StageFactsNext == ServerInv' => HeldFacts' /\ StageFacts'
BY StageFactsHold, PTL

\* What has not moved for a connection leaves its stage.
LEMMA SameStage ==
  ASSUME HeldFacts, HeldFacts', StageFacts, StageFacts', ServerInv, ServerInv', NEW c \in Conns,
         c <= accepted <=> c <= accepted',
         Held(c) <=> Held(c)', state'[c] = state[c]
  PROVE  Stage(c)' = Stage(c)
<1>1. /\ accepted \in Int /\ accepted' \in Int /\ c \in Int
      /\ c <= accepted => state[c] # "none"
      /\ state[c] \in States
  BY DEF ServerInv, ServerTypes, ConnInv, Conns
<1>2. CASE c > accepted
  BY <1>1, <1>2 DEF StageFacts
<1>3. CASE c <= accepted /\ ~Held(c) BY <1>1, <1>3 DEF StageFacts
<1>4. CASE c <= accepted /\ Held(c)
  <2>1. state[c] \in {"kConnecting", "kConnected", "kDisconnecting", "kDisconnected"}
    BY <1>1, <1>4 DEF States
  <2> QED BY <1>1, <1>4, <2>1 DEF StageFacts
<1> QED BY <1>1, <1>2, <1>3, <1>4

\* a step of the service, or none
ServiceStep == [TheService!Next]_<<[c \in Conns |-> Stage(c)], dying>>

\* Each of the steps of Service from what happens to the stages.
LEMMA StageStutters ==
  ASSUME \A c \in Conns : Stage(c)' = Stage(c), UNCHANGED dying
  PROVE  ServiceStep
BY DEF ServiceStep

LEMMA StageUp ==
  ASSUME NEW d \in Conns, Stage(d) = "accepted", Stage(d)' = "up",
         \A c \in Conns : c # d => Stage(c)' = Stage(c), UNCHANGED dying
  PROVE  ServiceStep
<1>1. TheService!Up(d) BY DEF TheService!Up
<1> QED BY <1>1 DEF ServiceStep, TheService!Next

LEMMA StageDown ==
  ASSUME NEW d \in Conns, Stage(d) = "up", Stage(d)' = "down",
         \A c \in Conns : c # d => Stage(c)' = Stage(c), UNCHANGED dying
  PROVE  ServiceStep
<1>1. TheService!Down(d) BY DEF TheService!Down
<1> QED BY <1>1 DEF ServiceStep, TheService!Next

LEMMA StageRelease ==
  ASSUME NEW S \in SUBSET Conns, UNCHANGED dying,
         \A c \in S : /\ \/ Stage(c) = "down"
                         \/ dying /\ Stage(c) \in {"accepted", "up", "down"}
                      /\ Stage(c)' = "released",
         \A c \in Conns : c \notin S => Stage(c)' = Stage(c)
  PROVE  ServiceStep
<1>1. TheService!Release(S) BY DEF TheService!Release, TheService!Holding
<1> QED BY <1>1 DEF ServiceStep, TheService!Next

LEMMA StageAccept ==
  ASSUME NEW d \in Conns, Stage(d) = "waiting", Stage(d)' \in {"accepted", "up"},
         \A c \in Conns : c # d => Stage(c)' = Stage(c), UNCHANGED dying, ~dying,
         \A c \in Conns : c < d => Stage(c) # "waiting",
         Cardinality({c \in Conns : Stage(c) \in {"accepted", "up", "down"}}) < MaxFds
  PROVE  ServiceStep
<1>1. TheService!Holding = {c \in Conns : Stage(c) \in {"accepted", "up", "down"}}
  BY DEF TheService!Holding
<1>2. PICK s \in {"accepted", "up"} : s = Stage(d)' OBVIOUS
<1>3. [c \in Conns |-> Stage(c)]' = [[c \in Conns |-> Stage(c)] EXCEPT ![d] = s]
  BY <1>2
<1>4. TheService!Cardinality(TheService!Holding) < MaxFds
  <2>1. TheService!Cardinality(TheService!Holding) = Cardinality(TheService!Holding)
    BY DEF Cardinality, TheService!Cardinality
  <2> QED BY <1>1, <2>1
<1>5. TheService!Accept(d)
  <2>1. [c \in Conns |-> Stage(c)][d] = "waiting" /\ ~dying OBVIOUS
  <2>2. \A c \in Conns : c < d => [e \in Conns |-> Stage(e)][c] # "waiting" OBVIOUS
  <2> QED BY <1>3, <1>4, <2>1, <2>2 DEF TheService!Accept
<1> QED BY <1>5 DEF ServiceStep, TheService!Next

LEMMA StageClose ==
  ASSUME \A c \in Conns : Stage(c)' = Stage(c), dying' = TRUE
  PROVE  ServiceStep
<1>1. TheService!Close BY DEF TheService!Close
<1> QED BY <1>1 DEF ServiceStep, TheService!Next

\* Acceptor::handleRead accepts the next client, with a descriptor to spare.
LEMMA HandleReadSim ==
  ASSUME ServerInv, ServerInv', PoolInv, HandleRead PROVE ServiceStep
<1>1. accepted \in Nat /\ accepted + 1 \in Conns /\ accepted < MaxConns
  BY ServerAssumption DEF HandleRead, ServerInv, ServerTypes, Conns
<1>2. PICK d \in Conns : d = accepted + 1 BY <1>1
<1>3. NextLoop \in Loops /\ ~dying
  BY PoolFacts, PollAssumption DEF HandleRead, Serving, Loops
<1>4. /\ accepted' = d
      /\ inMap' = inMap \cup {d}
      /\ UNCHANGED dying
  BY <1>2 DEF HandleRead, NewConnection
<1>5. \/ /\ queue' = queue
         /\ state' = [state EXCEPT ![d] = "kConnected"]
      \/ /\ queue' = [queue EXCEPT ![NextLoop] = Append(@, Functor("connectEstablished", d))]
         /\ state' = [state EXCEPT ![d] = "kConnecting"]
  BY <1>2 DEF HandleRead, NewConnection, Establish, Queue
<1>6. HeldFacts /\ HeldFacts' /\ StageFacts /\ StageFacts'
  BY StageFactsHold, StageFactsNext
<1>7. ServerTypes BY DEF ServerInv
<1>8. \A c \in Conns : c # d => state'[c] = state[c] BY <1>5, <1>7 DEF ServerTypes
<1>9. state'[d] \in {"kConnected", "kConnecting"} BY <1>5, <1>7 DEF ServerTypes
<1>10. \A m \in Loops, n \in FunctorNames, c \in Conns :
         c # d => (Queued(n, m, c)' <=> Queued(n, m, c))
  <2>1. CASE queue' = queue BY <2>1 DEF Queued
  <2>2. CASE queue' = [queue EXCEPT ![NextLoop] = Append(@, Functor("connectEstablished", d))]
    <3>1. "connectEstablished" \in FunctorNames BY DEF FunctorNames
    <3>2. PICK l \in Loops : l = NextLoop BY <1>3
    <3>3. queue' = [queue EXCEPT ![l] = Append(@, Functor("connectEstablished", d))]
      BY <2>2, <3>2
    <3>4. \A m \in Loops, n \in FunctorNames, c \in Conns :
            Queued(n, m, c)' <=> \/ Queued(n, m, c)
                                 \/ m = l /\ n = "connectEstablished" /\ c = d
      BY <1>7, <3>1, <3>3, QueueAppend
    <3> QED BY <3>4
  <2> QED BY <1>5, <2>1, <2>2
<1>11. ASSUME NEW c \in Conns, c # d PROVE Stage(c)' = Stage(c)
  <2>1. Held(c)' <=> Held(c) BY <1>4, <1>6, <1>10, <1>11 DEF HeldFacts
  <2>2. c <= accepted <=> c <= accepted' BY <1>1, <1>2, <1>4, <1>11 DEF Conns
  <2> QED BY <1>6, <1>8, <1>11, <2>1, <2>2, SameStage
<1>12. Held(d)' BY <1>4, <1>6 DEF HeldFacts
<1>13. d <= accepted' /\ d > accepted BY <1>1, <1>2, <1>4
<1>14. Stage(d) = "waiting" /\ Stage(d)' \in {"accepted", "up"}
  BY <1>6, <1>9, <1>12, <1>13 DEF StageFacts
<1>15. ASSUME NEW c \in Conns
       PROVE  /\ Stage(c) = "waiting" <=> c > accepted
              /\ Stage(c) \in {"accepted", "up", "down"} <=> c \in 1 .. accepted /\ Held(c)
  <2>1. ConnInv(c) /\ state[c] \in States /\ c \in Nat \ {0}
    BY <1>7 DEF ServerInv, ServerTypes, Conns
  <2>2. CASE c > accepted BY <1>1, <1>6, <2>1, <2>2 DEF StageFacts
  <2>3. CASE c <= accepted /\ ~Held(c) BY <1>1, <1>6, <2>1, <2>3 DEF StageFacts
  <2>4. CASE c <= accepted /\ Held(c)
    <3>1. state[c] \in {"kConnecting", "kConnected", "kDisconnecting", "kDisconnected"}
      BY <2>1, <2>4 DEF States, ConnInv
    <3> QED BY <1>1, <1>6, <2>1, <2>4, <3>1 DEF StageFacts
  <2> QED BY <1>1, <2>1, <2>2, <2>3, <2>4
<1>16. \A c \in Conns : c < d => Stage(c) # "waiting"
  BY <1>1, <1>2, <1>15 DEF Conns
<1>17. Cardinality({c \in Conns : Stage(c) \in {"accepted", "up", "down"}}) < MaxFds
  <2>1. 1 .. accepted \subseteq Conns BY <1>1, ServerAssumption DEF Conns
  <2>2. {c \in Conns : Stage(c) \in {"accepted", "up", "down"}}
          = {c \in 1 .. accepted : Held(c)}
    BY <1>15, <2>1
  <2>3. /\ IsFiniteSet(1 .. accepted)
        /\ {c \in 1 .. accepted : Held(c)} \subseteq 1 .. accepted
    BY <1>1, FS_Interval
  <2>4. Cardinality({c \in 1 .. accepted : Held(c)}) \in Nat
    BY <2>3, FS_Subset, FS_CardinalityType
  <2>5. MaxFds - Cardinality({c \in 1 .. accepted : Held(c)}) > 0
    BY DEF HandleRead, Free
  <2> QED BY <2>2, <2>4, <2>5, ServerAssumption
<1> QED BY <1>3, <1>4, <1>11, <1>14, <1>16, <1>17, StageAccept

\* handleClose is the step down: its connection is up, and referenced.
LEMMA HandleCloseSim ==
  ASSUME ServerInv, ServerInv', PoolInv, NEW d \in Conns, HandleClose(d)
  PROVE  ServiceStep
<1>1. /\ state[d] \in {"kConnected", "kDisconnecting"} /\ channel[d]
      /\ state' = [state EXCEPT ![d] = "kDisconnected"]
      /\ UNCHANGED <<accepted, dying>>
  BY DEF HandleClose, Handles
<1>2. \/ /\ inMap' = inMap \ {d}
         /\ queue' = [queue EXCEPT ![0] = Append(@, Functor("connectDestroyed", d))]
      \/ /\ inMap' = inMap
         /\ queue' = [queue EXCEPT ![0] = Append(@, Functor("removeConnectionInLoop", d))]
  BY DEF HandleClose, RemoveConnection, Queue
<1>3. HeldFacts /\ HeldFacts' /\ StageFacts /\ StageFacts'
  BY StageFactsHold, StageFactsNext
<1>4. ServerTypes /\ 0 \in Loops BY PollAssumption DEF ServerInv, Loops
<1>5. PICK name \in {"connectDestroyed", "removeConnectionInLoop"} :
        queue' = [queue EXCEPT ![0] = Append(@, Functor(name, d))]
  BY <1>2
<1>6. name \in FunctorNames BY DEF FunctorNames
<1>7. \A m \in Loops, n \in FunctorNames, c \in Conns :
        Queued(n, m, c)' <=> Queued(n, m, c) \/ (m = 0 /\ n = name /\ c = d)
  BY <1>4, <1>5, <1>6, QueueAppend
<1>8. \A c \in Conns : c # d => (Held(c)' <=> Held(c))
  BY <1>2, <1>3, <1>7 DEF HeldFacts
<1>9. Held(d)' BY <1>3, <1>4, <1>6, <1>7 DEF HeldFacts
<1>10. d <= accepted /\ Held(d)
  <2>1. ConnInv(d) /\ home[d] \in Loops /\ "connectDestroyed" \in FunctorNames
    BY DEF ServerInv, ServerTypes, FunctorNames
  <2>2. d <= accepted /\ Pending(d) BY <1>1, <2>1 DEF ConnInv, Clean
  <2> QED BY <1>3, <2>1, <2>2 DEF Pending, HeldFacts
<1>11. /\ \A c \in Conns : c # d => state'[c] = state[c]
       /\ state'[d] = "kDisconnected"
  BY <1>1, <1>4 DEF ServerTypes
<1>12. \A c \in Conns : c # d => Stage(c)' = Stage(c)
  BY <1>1, <1>3, <1>8, <1>11, SameStage
<1>13. Stage(d) = "up" /\ Stage(d)' = "down"
  BY <1>1, <1>3, <1>9, <1>10, <1>11 DEF StageFacts
<1> QED BY <1>1, <1>12, <1>13, StageDown

\* A connection that shuts down is still up.
LEMMA ShutdownSim ==
  ASSUME ServerInv, ServerInv', NEW d \in Conns, Shutdown(d)
  PROVE  ServiceStep
<1>1. /\ state[d] = "kConnected"
      /\ state' = [state EXCEPT ![d] = "kDisconnecting"]
      /\ UNCHANGED <<accepted, dying, inMap, queue>>
  BY DEF Shutdown
<1>2. HeldFacts /\ HeldFacts' /\ StageFacts /\ StageFacts'
  BY StageFactsHold, StageFactsNext
<1>3. \A c \in Conns : Held(c)' <=> Held(c) BY <1>1 DEF Held
<1>4. /\ \A c \in Conns : c # d => state'[c] = state[c]
      /\ state'[d] = "kDisconnecting"
  BY <1>1 DEF ServerInv, ServerTypes
<1>5. \A c \in Conns : c # d => Stage(c)' = Stage(c)
  BY <1>1, <1>2, <1>3, <1>4, SameStage
<1>6. d <= accepted BY <1>1 DEF ServerInv, ConnInv
<1>7. Stage(d)' = Stage(d)
  BY <1>1, <1>2, <1>3, <1>4, <1>6 DEF StageFacts
<1> QED BY <1>1, <1>5, <1>7, StageStutters

\* connectEstablished is the step up: it is referenced from elsewhere too.
LEMMA EstablishedSim ==
  ASSUME ServerInv, ServerInv', PoolInv, NEW l \in Loops, ConnectEstablished(l)
  PROVE  ServiceStep
<1>0. ServerTypes BY DEF ServerInv
<1>1. queue[l] # <<>> /\ Head(queue[l]) \in Functors
  BY <1>0, HasTail DEF ConnectEstablished, Runs, ServerTypes
<1>2. PICK d \in Conns : d = Head(queue[l]).conn BY <1>1, FunctorEq
<1>3. /\ Head(queue[l]).fn = "connectEstablished"
      /\ l # 0 => tpc[l] = "functors"
      /\ state' = [state EXCEPT ![d] = "kConnected"]
      /\ queue' = [queue EXCEPT ![l] = Tail(@)]
      /\ UNCHANGED <<accepted, inMap, home, dying>>
  BY <1>2 DEF ConnectEstablished, Runs, Taken, Establish
<1>4. \A m \in Loops, n \in FunctorNames, c \in Conns :
        Queued(n, m, c) <=> \/ Queued(n, m, c)'
                            \/ m = l /\ n = "connectEstablished" /\ c = d
  BY <1>0, <1>1, <1>2, <1>3, QueueTail
<1>5. HeldFacts /\ HeldFacts' /\ StageFacts /\ StageFacts'
  BY StageFactsHold, StageFactsNext
<1>6. \A c \in Conns : c # d => (Held(c)' <=> Held(c))
  BY <1>3, <1>4, <1>5 DEF HeldFacts
<1>7. l = home[d] /\ l # 0 /\ state[d] = "kConnecting" /\ Held(d)
  <2>1. "connectEstablished" \in FunctorNames /\ FunctorInv(l, d)
    BY DEF ServerInv, FunctorNames
  <2>2. Queued("connectEstablished", l, d) BY <1>4, <2>1
  <2> QED BY <1>5, <2>1, <2>2 DEF FunctorInv, HeldFacts
<1>8. Held(d)'
  <2>1. ConnInv(d) /\ "connectDestroyed" \in FunctorNames BY DEF ServerInv, FunctorNames
  <2>2. Pending(d) BY <1>3, <1>7, <2>1 DEF ConnInv, Clean
  <2>3. d \in inMap' \/ Queued("connectDestroyed", l, d)'
    BY <1>3, <1>4, <1>7, <2>1, <2>2 DEF Pending
  <2> QED BY <1>5, <2>1, <2>3 DEF HeldFacts
<1>9. d <= accepted BY <1>7 DEF ServerInv, ConnInv
<1>10. /\ \A c \in Conns : c # d => state'[c] = state[c]
       /\ state'[d] = "kConnected"
  BY <1>0, <1>3 DEF ServerTypes
<1>11. \A c \in Conns : c # d => Stage(c)' = Stage(c)
  BY <1>3, <1>5, <1>6, <1>10, SameStage
<1>12. Stage(d) = "accepted" /\ Stage(d)' = "up"
  BY <1>3, <1>5, <1>7, <1>8, <1>9, <1>10 DEF StageFacts
<1> QED BY <1>3, <1>11, <1>12, StageUp

\* connectDestroyed has run, from whatever caller: the connection is released, or
\* still referenced and down, or nothing changes.
LEMMA DestroySim ==
  ASSUME ServerInv, ServerInv', NEW d \in Conns, Held(d),
         UNCHANGED <<accepted, dying>>,
         state' = [state EXCEPT ![d] = IF @ = "kConnected" THEN "kDisconnected" ELSE @],
         state[d] = "kDisconnected" \/ dying,
         \A c \in Conns : c # d => (Held(c)' <=> Held(c))
  PROVE  ServiceStep
<1>1. HeldFacts /\ HeldFacts' /\ StageFacts /\ StageFacts'
  BY StageFactsHold, StageFactsNext
<1>2. d <= accepted BY <1>1 DEF HeldFacts
<1>3. /\ \A c \in Conns : c # d => state'[c] = state[c]
      /\ state'[d] = IF state[d] = "kConnected" THEN "kDisconnected" ELSE state[d]
      /\ state[d] \in States /\ state[d] # "none"
  BY <1>2 DEF ServerInv, ServerTypes, ConnInv
<1>4. \A c \in Conns : c # d => Stage(c)' = Stage(c)
  BY <1>1, <1>3, SameStage
<1>5. /\ state[d] \in {"kConnecting", "kConnected", "kDisconnecting", "kDisconnected"}
      /\ Stage(d) \in {"accepted", "up", "down"}
      /\ state[d] = "kDisconnected" => Stage(d) = "down"
      /\ state[d] = "kConnected" => Stage(d) = "up"
  <2>1. state[d] \in {"kConnecting", "kConnected", "kDisconnecting", "kDisconnected"}
    BY <1>3 DEF States
  <2> QED BY <1>1, <1>2, <2>1 DEF StageFacts
<1>6. CASE ~Held(d)'
  <2>1. Stage(d)' = "released" BY <1>1, <1>2, <1>6 DEF StageFacts
  <2>2. \A c \in {d} : /\ \/ Stage(c) = "down"
                          \/ dying /\ Stage(c) \in {"accepted", "up", "down"}
                       /\ Stage(c)' = "released"
    BY <1>5, <2>1
  <2>3. \A c \in Conns : c \notin {d} => Stage(c)' = Stage(c) BY <1>4
  <2>4. {d} \in SUBSET Conns OBVIOUS
  <2> QED BY <2>2, <2>3, <2>4, StageRelease
<1>7. CASE Held(d)' /\ state[d] = "kConnected"
  <2>1. Stage(d)' = "down" BY <1>1, <1>2, <1>3, <1>7 DEF StageFacts
  <2> QED BY <1>4, <1>5, <1>7, <2>1, StageDown
<1>8. CASE Held(d)' /\ state[d] # "kConnected"
  <2>1. Stage(d)' = Stage(d) BY <1>1, <1>3, <1>8, SameStage
  <2> QED BY <1>4, <2>1, StageStutters
<1> QED BY <1>6, <1>7, <1>8

\* connectDestroyed from the queue of a loop.
LEMMA DestroyedSim ==
  ASSUME ServerInv, ServerInv', NEW l \in Loops, ConnectDestroyed(l)
  PROVE  ServiceStep
<1>0. ServerTypes BY DEF ServerInv
<1>1. queue[l] # <<>> /\ Head(queue[l]) \in Functors
  BY <1>0, HasTail DEF ConnectDestroyed, Runs, ServerTypes
<1>2. PICK d \in Conns : d = Head(queue[l]).conn BY <1>1, FunctorEq
<1>3. /\ Head(queue[l]).fn = "connectDestroyed"
      /\ state' = [state EXCEPT ![d] = IF @ = "kConnected" THEN "kDisconnected" ELSE @]
      /\ queue' = [queue EXCEPT ![l] = Tail(@)]
      /\ UNCHANGED <<accepted, inMap, dying>>
  BY <1>2 DEF ConnectDestroyed, Taken, Destroy
<1>4. \A m \in Loops, n \in FunctorNames, c \in Conns :
        Queued(n, m, c) <=> \/ Queued(n, m, c)'
                            \/ m = l /\ n = "connectDestroyed" /\ c = d
  <2>1. Head(queue[l]).fn = "connectDestroyed" /\ queue' = [queue EXCEPT ![l] = Tail(@)]
    BY <1>3
  <2>2. \A m \in Loops, n \in FunctorNames, c \in Conns :
          Queued(n, m, c) <=> \/ Queued(n, m, c)'
                              \/ m = l /\ n = Head(queue[l]).fn
                                       /\ c = Head(queue[l]).conn
    BY <1>0, <1>1, <2>1, QueueTail
  <2> QED BY <1>2, <2>1, <2>2
<1>5. HeldFacts /\ HeldFacts' BY StageFactsHold, StageFactsNext
<1>6. \A c \in Conns : c # d => (Held(c)' <=> Held(c))
  BY <1>3, <1>4, <1>5 DEF HeldFacts
<1>7. Held(d) /\ (state[d] = "kDisconnected" \/ dying)
  <2>1. "connectDestroyed" \in FunctorNames /\ FunctorInv(l, d)
    BY DEF ServerInv, FunctorNames
  <2>2. Queued("connectDestroyed", l, d) BY <1>4, <2>1
  <2> QED BY <1>5, <2>1, <2>2 DEF FunctorInv, HeldFacts
<1> QED BY <1>3, <1>6, <1>7, DestroySim

\* removeConnectionInLoop hands the reference on.
LEMMA RemoveSim ==
  ASSUME ServerInv, ServerInv', RemoveConnectionInLoop
  PROVE  ServiceStep
<1>1. PICK d \in Conns, l \in Loops :
           /\ l = home[d] /\ l # 0 /\ queue[0] # <<>>
           /\ Head(queue[0]) = Functor("removeConnectionInLoop", d)
           /\ state[d] = "kDisconnected" /\ d <= accepted
           /\ inMap' = inMap \ {d}
           /\ queue' = [queue EXCEPT ![0] = Tail(@),
                                     ![l] = Append(@, Functor("connectDestroyed", d))]
           /\ UNCHANGED <<loops, tpc, ppc, arrived, accepted, state, home, channel, dying>>
  BY RemoveFacts
<1>2. /\ \A m \in Loops, n \in FunctorNames, c \in Conns :
              /\ Queued(n, m, c)'
                   => Queued(n, m, c) \/ (m = l /\ n = "connectDestroyed" /\ c = d)
              /\ Queued(n, m, c)
                   => Queued(n, m, c)' \/ (n = "removeConnectionInLoop" /\ c = d)
      /\ Queued("removeConnectionInLoop", 0, d)
      /\ Queued("connectDestroyed", l, d)'
  BY <1>1, QueueMove, Zenon
<1>3. HeldFacts /\ HeldFacts' /\ StageFacts /\ StageFacts'
  BY StageFactsHold, StageFactsNext
<1>4. ASSUME NEW c \in Conns PROVE Held(c)' <=> Held(c)
  <2>1. CASE c = d
    <3>1. /\ "connectDestroyed" \in FunctorNames /\ 0 \in Loops
          /\ "removeConnectionInLoop" \in FunctorNames
      BY PollAssumption DEF FunctorNames, Loops
    <3> QED BY <1>2, <1>3, <2>1, <3>1 DEF HeldFacts
  <2>2. CASE c # d BY <1>1, <1>2, <1>3, <2>2 DEF HeldFacts
  <2> QED BY <2>1, <2>2
<1>5. \A c \in Conns : Stage(c)' = Stage(c) BY <1>1, <1>3, <1>4, SameStage
<1> QED BY <1>1, <1>5, StageStutters

\* One turn of ~TcpServer.
LEMMA DtorItemSim ==
  ASSUME ServerInv, ServerInv', NEW d \in Conns, DtorItem(d)
  PROVE  ServiceStep
<1>0. ServerTypes BY DEF ServerInv
<1>1. /\ dying /\ d \in inMap /\ inMap' = inMap \ {d}
      /\ UNCHANGED <<accepted, dying>>
  BY DEF DtorItem
<1>2. HeldFacts /\ HeldFacts' /\ StageFacts /\ StageFacts'
  BY StageFactsHold, StageFactsNext
<1>3. Held(d) BY <1>1, <1>2 DEF HeldFacts
<1>4. CASE home[d] = 0
  <2>1. /\ state' = [state EXCEPT ![d] = IF @ = "kConnected" THEN "kDisconnected" ELSE @]
        /\ queue' = queue
    BY <1>4 DEF DtorItem, Destroy
  <2>2. \A c \in Conns : c # d => (Held(c)' <=> Held(c)) BY <1>1, <2>1 DEF Held
  <2> QED BY <1>1, <1>3, <2>1, <2>2, DestroySim
<1>5. CASE home[d] # 0
  <2>1. PICK l \in Loops : l = home[d] BY <1>0 DEF ServerTypes
  <2>2. queue' = [queue EXCEPT ![l] = Append(@, Functor("connectDestroyed", d))]
        /\ state' = state
    BY <1>5, <2>1 DEF DtorItem, Queue
  <2>3. "connectDestroyed" \in FunctorNames BY DEF FunctorNames
  <2>4. \A m \in Loops, n \in FunctorNames, c \in Conns :
          Queued(n, m, c)' <=> \/ Queued(n, m, c)
                               \/ m = l /\ n = "connectDestroyed" /\ c = d
    BY <1>0, <2>2, <2>3, QueueAppend
  <2>5. \A c \in Conns : Held(c)' <=> Held(c)
    BY <1>1, <1>2, <1>3, <2>3, <2>4 DEF HeldFacts
  <2>6. \A c \in Conns : Stage(c)' = Stage(c) BY <1>1, <1>2, <2>2, <2>5, SameStage
  <2> QED BY <1>1, <2>6, StageStutters
<1> QED BY <1>4, <1>5

\* A loop that is destroyed releases what only its queue referenced, when the
\* server is closing.
LEMMA LoopGoesSim ==
  ASSUME ServerInv, ServerInv', dying, NEW l \in Loops,
         queue' = [queue EXCEPT ![l] = <<>>],
         UNCHANGED <<accepted, state, inMap, dying>>
  PROVE  ServiceStep
<1>1. HeldFacts /\ HeldFacts' /\ StageFacts /\ StageFacts'
  BY StageFactsHold, StageFactsNext
<1>2. \A m \in Loops, n \in FunctorNames, c \in Conns : Queued(n, m, c)' => Queued(n, m, c)
  <2>1. queue'[l] = <<>> /\ \A m \in Loops : m # l => queue'[m] = queue[m]
    BY DEF ServerInv, ServerTypes
  <2> QED BY <2>1 DEF Queued, Has
<1>3. \A c \in Conns : Held(c)' => Held(c) BY <1>1, <1>2 DEF HeldFacts
<1>4. PICK S \in SUBSET Conns : S = {c \in Conns : Held(c) /\ ~Held(c)'} OBVIOUS
<1>5. ASSUME NEW c \in Conns, c \in S
      PROVE  /\ Stage(c) \in {"accepted", "up", "down"}
             /\ Stage(c)' = "released"
  <2>1. Held(c) /\ ~Held(c)' /\ c <= accepted BY <1>1, <1>4, <1>5 DEF HeldFacts
  <2>2. state[c] \in {"kConnecting", "kConnected", "kDisconnecting", "kDisconnected"}
    BY <2>1 DEF ServerInv, ServerTypes, ConnInv, States
  <2> QED BY <1>1, <2>1, <2>2 DEF StageFacts
<1>6. \A c \in Conns : c \notin S => Stage(c)' = Stage(c)
  BY <1>1, <1>3, <1>4, SameStage
<1> QED BY <1>5, <1>6, StageRelease

\* Steps that no client notices.
LEMMA FrameSim ==
  ASSUME ServerInv, ServerInv', UNCHANGED <<accepted, state, inMap, queue>>
  PROVE  /\ \A c \in Conns : Stage(c)' = Stage(c)
         /\ UNCHANGED dying => ServiceStep
<1>1. HeldFacts /\ HeldFacts' /\ StageFacts /\ StageFacts'
  BY StageFactsHold, StageFactsNext
<1>2. \A c \in Conns : Held(c)' <=> Held(c) BY DEF Held
<1>3. \A c \in Conns : Stage(c)' = Stage(c) BY <1>1, <1>2, SameStage
<1> QED BY <1>3, StageStutters

\* Every step of the server is a step of the service, or none.
LEMMA StepSim ==
  ServerInv /\ ServerInv' /\ PoolInv /\ [Next]_vars => ServiceStep
<1> SUFFICES ASSUME ServerInv, ServerInv', PoolInv, [Next]_vars PROVE ServiceStep
  OBVIOUS
<1>0. DtorInv BY DEF ServerInv
<1>1. ASSUME UNCHANGED <<accepted, state, inMap, queue, dying>> PROVE ServiceStep
  BY <1>1, FrameSim
<1>2. CASE BaseLoopStep
  <2>1. CASE PoolStep \/ Listen \/ EndDtor
    BY <1>1, <2>1 DEF PoolStep, Listen, EndDtor, serverVars
  <2>2. CASE HandleRead BY <2>2, HandleReadSim
  <2>3. CASE RemoveConnectionInLoop BY <2>3, RemoveSim
  <2>4. CASE ConnectDestroyed(0)
    <3>1. 0 \in Loops BY PollAssumption DEF Loops
    <3> QED BY <2>4, <3>1, DestroyedSim
  <2>5. CASE DestroyBaseLoop
    <3>1. /\ ppc = "gone" /\ queue' = [queue EXCEPT ![0] = <<>>]
          /\ UNCHANGED <<accepted, state, inMap, dying>>
      BY <2>5 DEF DestroyBaseLoop
    <3>2. dying /\ 0 \in Loops BY <1>0, <3>1, PollAssumption DEF DtorInv, Loops
    <3> QED BY <3>1, <3>2, LoopGoesSim
  <2>6. ASSUME NEW c \in Conns, DtorItem(c) PROVE ServiceStep BY <2>6, DtorItemSim
  <2> QED BY <1>2, <2>1, <2>2, <2>3, <2>4, <2>5, <2>6 DEF BaseLoopStep
<1>3. ASSUME NEW i \in Threads, LoopStep(i) \/ SwapFunctors(i) PROVE ServiceStep
  <2>0. i \in Loops BY PollAssumption DEF Loops, Threads
  <2>1. CASE ThreadStart(i) \/ BatchDone(i) \/ SwapFunctors(i)
    BY <1>1, <2>1 DEF ThreadStart, BatchDone, SwapFunctors, serverVars
  <2>2. CASE ConnectEstablished(i) BY <2>0, <2>2, EstablishedSim
  <2>3. CASE ConnectDestroyed(i) BY <2>0, <2>3, DestroyedSim
  <2>4. CASE LeaveLoop(i)
    <3>1. /\ tpc[i] = "leave" /\ queue' = [queue EXCEPT ![i] = <<>>]
          /\ UNCHANGED <<accepted, state, inMap, dying>>
      BY <2>4 DEF LeaveLoop, Leave, ThreadStep
    <3>2. Told(i) BY <3>1 DEF PoolInv, ThreadInv
    <3>3. dying BY <1>0, <3>2 DEF Told, EndingPC, DtorInv
    <3> QED BY <2>0, <3>1, <3>3, LoopGoesSim
  <2> QED BY <1>3, <2>1, <2>2, <2>3, <2>4 DEF LoopStep
<1>4. CASE SpuriousWakeup /\ UNCHANGED serverVars BY <1>1, <1>4 DEF serverVars
<1>5. CASE ClientConnects BY <1>1, <1>5 DEF ClientConnects
<1>6. CASE BeginDtor
  <2>1. UNCHANGED <<accepted, state, inMap, queue>> /\ dying' = TRUE
    BY <1>6 DEF BeginDtor
  <2> QED BY <2>1, FrameSim, StageClose
<1>7. ASSUME NEW c \in Conns, ClientCloses(c) \/ Shutdown(c) \/ HandleClose(c)
      PROVE  ServiceStep
  BY <1>1, <1>7, ShutdownSim, HandleCloseSim DEF ClientCloses
<1>8. CASE UNCHANGED vars BY <1>1, <1>8 DEF vars, serverVars
<1> QED BY <1>2, <1>3, <1>4, <1>5, <1>6, <1>7, <1>8 DEF Next

\* At first every client is to come.
LEMMA InitSim == Init => TheService!Init
<1> SUFFICES ASSUME Init PROVE TheService!Init
  OBVIOUS
<1>1. ServerInv BY ServerInit
<1>2. accepted = 0 /\ dying = FALSE BY DEF Init
<1>3. StageFacts BY <1>1, StageFactsHold
<1>4. \A c \in Conns : c > accepted BY <1>2 DEF Conns
<1>5. \A c \in Conns : Stage(c) = "waiting" BY <1>3, <1>4 DEF StageFacts
<1> QED BY <1>2, <1>5 DEF TheService!Init

\* The server is the service it promises, step by step and for any number of
\* threads, clients and descriptors: in turn, within the descriptors, up once, down
\* once, released after that (newConnection, removeConnection, connectEstablished,
\* connectDestroyed, ~TcpServer).
THEOREM ServerImplementsService == Spec => ImplementsService
<1>1. Spec => [][ServiceStep]_<<[c \in Conns |-> Stage(c)], dying>>
  BY ServerInv_Always, PoolInv_Always, StepSim, PTL DEF Spec
<1>2. Spec => TheService!Spec
  BY <1>1, InitSim, PTL DEF Spec, TheService!Spec, ServiceStep
<1> QED BY <1>2 DEF ImplementsService
=============================================================================
