-------------------------- MODULE ConnectorProofs --------------------------
(***************************************************************************)
(* Proofs about Connector, for any number of attempts.                     *)
(***************************************************************************)
EXTENDS Connector, TLAPS, SequenceTheorems

\* what the loop's queue holds
Functor == [fn : {"startInLoop", "resetChannel", "connectDestroyed"},
            arg : Sockets \cup {None}]

\* the types; there is never more than one timer
ConnectorTypes ==
  /\ retry \in BOOLEAN /\ wanted \in BOOLEAN /\ connect \in BOOLEAN
  /\ state \in {"kDisconnected", "kConnecting", "kConnected"}
  /\ channel \in Sockets \cup {None} /\ connection \in Sockets \cup {None}
  /\ registered \subseteq Sockets
  /\ sock \in [Sockets -> SockState]
  /\ attempts \in 0 .. MaxAttempts
  /\ connId \in Nat \ {0}
  /\ functors \in Seq(Functor) /\ batch \in Seq(Functor)
  /\ timers \in {0, 1}
  /\ phase \in {"poll", "dispatch", "functors"}
  /\ active \subseteq {"timer", "close", "error", "write"}
  /\ called \in BOOLEAN /\ stopped \in BOOLEAN /\ gaveUp \in BOOLEAN

\* a functor of that name is in the queue; there is at most one
In(q, name) == \E i \in DOMAIN q : q[i].fn = name

Once(q, name) == \A i, j \in DOMAIN q : q[i].fn = name /\ q[j].fn = name => i = j

\* it waits in _pendingFunctors or in the batch
Pending(name) == In(functors, name) \/ In(batch, name)

\* the connections to be destroyed
Args(q) == {q[i].arg : i \in {j \in DOMAIN q : q[j].fn = "connectDestroyed"}}

\* an attempt is under way
Connecting == state = "kConnecting"

\* how the flags follow connect() and stop(); before connect() nothing happens
CallInv ==
  /\ ~called => ~stopped /\ attempts = 0 /\ functors = <<>> /\ batch = <<>>
  /\ stopped => ~wanted /\ ~connect
  /\ called /\ ~stopped => connect

\* Events are handled before functors run, and only handlers queue resetChannel and
\* connectDestroyed: both are run before the next poll.
PhaseInv ==
  /\ phase # "dispatch" => /\ active = {}
                           /\ ~In(functors, "resetChannel")
                           /\ ~In(functors, "connectDestroyed")
  /\ phase # "functors" => batch = <<>>

\* One attempt at a time: a timer, a channel that connects, a startInLoop that would
\* do something and a connection exclude each other.
OneAttempt ==
  /\ Connecting => timers = 0 /\ connection = None
  /\ timers > 0 => connection = None
  /\ connect => /\ Once(functors, "startInLoop") /\ Once(batch, "startInLoop")
                /\ ~(In(functors, "startInLoop") /\ In(batch, "startInLoop"))
  /\ connect /\ Pending("startInLoop") => attempts = 0
  /\ attempts = 0 => state = "kDisconnected" /\ timers = 0

\* The events of the poll belong to what is under way.  While a resetChannel waits,
\* none is left that starts an attempt: the channel it resets is the old one.
EventInv ==
  /\ "timer" \in active => timers > 0
  /\ "close" \in active => connection # None
  /\ "error" \in active => registered = {channel} /\ "write" \in active
  /\ "write" \in active => Connecting
  /\ registered # {} => Connecting /\ registered = {channel}
  /\ Connecting => registered = {channel} \/ "write" \in active
  /\ Pending("resetChannel") =>
       attempts > 0 /\ registered = {} /\ active \subseteq {"write"}

\* One connection at most waits for its destruction, and nothing else happens then.
DestroyInv ==
  /\ Once(functors, "connectDestroyed") /\ Once(batch, "connectDestroyed")
  /\ Pending("connectDestroyed") => active = {} /\ connection = None
  /\ Connecting => channel \notin Args(functors) \cup Args(batch)

\* the sockets that are open
Open(so) == {s \in Sockets : so[s] \notin {"none", "closed"}}

\* SocketsOwned, with Args; a socket that was not created has never been used
SocketInv ==
  /\ Open(sock) = (IF Connecting THEN {channel} ELSE {}) \cup ({connection} \ {None})
                  \cup Args(functors) \cup Args(batch)
  /\ \A s \in Sockets : sock[s] = "none" <=> s > attempts

\* NotStuck, with Connecting for the channel or the event that goes on
GoingInv ==
  /\ connection # None => connId > 1
  /\ called /\ wanted /\ ~gaveUp /\ connection = None /\ (retry \/ connId = 1)
     => timers > 0 \/ Connecting \/ Pending("startInLoop")

\* the inductive invariant
ConnectorInv ==
  /\ ConnectorTypes /\ CallInv /\ PhaseInv /\ OneAttempt /\ EventInv
  /\ DestroyInv /\ SocketInv /\ GoingInv

-----------------------------------------------------------------------------
\* The empty queue.
LEMMA QueueEmpty ==
  /\ <<>> \in Seq(Functor) /\ Args(<<>>) = {}
  /\ \A name : ~In(<<>>, name) /\ Once(<<>>, name)
  BY DEF Args, In, Once

\* What is in the queue behind queueInLoop.
LEMMA QueueAppend ==
  ASSUME NEW q \in Seq(Functor), NEW f \in Functor
  PROVE  /\ Append(q, f) \in Seq(Functor)
         /\ \A name : In(Append(q, f), name) <=> In(q, name) \/ f.fn = name
         /\ \A name : Once(q, name) /\ ~(In(q, name) /\ f.fn = name) => Once(Append(q, f), name)
         /\ Args(Append(q, f)) = Args(q) \cup (IF f.fn = "connectDestroyed" THEN {f.arg} ELSE {})
  <1>1. PICK r : r = Append(q, f)
    OBVIOUS
  <1>2. /\ r \in Seq(Functor)
        /\ DOMAIN r = DOMAIN q \cup {Len(q) + 1} /\ Len(q) + 1 \notin DOMAIN q
        /\ r[Len(q) + 1] = f
        /\ \A i \in DOMAIN q : r[i] = q[i]
    BY <1>1
  <1>3. \A name : In(r, name) <=> In(q, name) \/ f.fn = name
    BY <1>2 DEF In
  <1>4. \A name : Once(q, name) /\ ~(In(q, name) /\ f.fn = name) => Once(r, name)
    BY <1>2 DEF In, Once
  <1>5. Args(r) = Args(q) \cup (IF f.fn = "connectDestroyed" THEN {f.arg} ELSE {})
    BY <1>2 DEF Args
  <1> QED  BY <1>1, <1>2, <1>3, <1>4, <1>5

\* What is in the batch when its first functor has run.
LEMMA QueueTail ==
  ASSUME NEW q \in Seq(Functor), q # <<>>
  PROVE  /\ Tail(q) \in Seq(Functor) /\ Head(q) \in Functor /\ In(q, Head(q).fn)
         /\ \A name : In(Tail(q), name) => In(q, name)
         /\ \A name : Head(q).fn # name => (In(Tail(q), name) <=> In(q, name))
         /\ \A name : Once(q, name) => Once(Tail(q), name)
         /\ \A name : Once(q, name) /\ Head(q).fn = name => ~In(Tail(q), name)
         /\ Args(q) = Args(Tail(q))
                       \cup (IF Head(q).fn = "connectDestroyed" THEN {Head(q).arg} ELSE {})
  <1>1. PICK r : r = Tail(q)
    OBVIOUS
  <1>2. /\ r \in Seq(Functor)
        /\ Len(q) \in Nat \ {0} /\ Head(q) = q[1] /\ 1 \in DOMAIN q /\ q[1] \in Functor
        /\ DOMAIN q = 1 .. Len(q) /\ DOMAIN r = 1 .. (Len(q) - 1)
        /\ \A i \in DOMAIN r : r[i] = q[i + 1]
    BY <1>1
  <1>3. /\ \A i \in DOMAIN r : i + 1 \in DOMAIN q /\ i + 1 # 1 /\ i \in Int
        /\ \A i \in DOMAIN q : i # 1 => i - 1 \in DOMAIN r /\ (i - 1) + 1 = i
    BY <1>2
  <1>4. \A i \in DOMAIN q : i = 1 \/ \E j \in DOMAIN r : r[j] = q[i]
    BY <1>2, <1>3
  <1>5. \A j \in DOMAIN r : \E i \in DOMAIN q : r[j] = q[i]
    BY <1>2, <1>3
  <1>6. \A name : In(r, name) => In(q, name)
    BY <1>5 DEF In
  <1>7. \A name : Head(q).fn # name => (In(r, name) <=> In(q, name))
    BY <1>2, <1>4, <1>5 DEF In
  <1>8. \A name : Once(q, name) => Once(r, name)
    <2> SUFFICES ASSUME NEW name, Once(q, name), NEW i \in DOMAIN r, NEW j \in DOMAIN r,
                        r[i].fn = name, r[j].fn = name
                 PROVE  i = j
      BY DEF Once
    <2>1. q[i + 1].fn = name /\ q[j + 1].fn = name
      BY <1>2
    <2>2. i + 1 = j + 1
      BY <1>3, <2>1 DEF Once
    <2> QED  BY <1>3, <2>2
  <1>9. \A name : Once(q, name) /\ Head(q).fn = name => ~In(r, name)
    BY <1>2, <1>3 DEF Once, In
  <1>10. Args(q) = Args(r) \cup (IF Head(q).fn = "connectDestroyed" THEN {Head(q).arg} ELSE {})
    <2>1. Args(r) \subseteq Args(q)
      BY <1>5 DEF Args
    <2>2. Head(q).fn = "connectDestroyed" => Head(q).arg \in Args(q)
      BY <1>2 DEF Args
    <2>3. ASSUME NEW a \in Args(q), a \notin Args(r)
          PROVE  Head(q).fn = "connectDestroyed" /\ a = Head(q).arg
      BY <1>2, <1>4, <2>3 DEF Args
    <2> QED  BY <2>1, <2>2, <2>3
  <1>11. In(q, Head(q).fn)
    BY <1>2 DEF In
  <1> QED  BY <1>1, <1>2, <1>6, <1>7, <1>8, <1>9, <1>10, <1>11

\* A functor other than connectDestroyed takes no connection along.
LEMMA TailKeepsArgs ==
  ASSUME NEW q \in Seq(Functor), q # <<>>, Head(q).fn # "connectDestroyed"
  PROVE  Args(q) = Args(Tail(q))
  <1>1. Args(q) = Args(Tail(q))
                  \cup (IF Head(q).fn = "connectDestroyed" THEN {Head(q).arg} ELSE {})
    BY QueueTail
  <1> QED  BY <1>1

\* No connectDestroyed, no connection to destroy.
LEMMA NoneDying == \A q : Args(q) = {} <=> ~In(q, "connectDestroyed")
  BY DEF Args, In

\* The properties' view of the two queues, in these terms.
LEMMA QueuedRange ==
  ASSUME ConnectorTypes
  PROVE  /\ {f.arg : f \in Destroying} = Args(functors) \cup Args(batch)
         /\ \A name : (\E f \in Range(functors \o batch) : f.fn = name) <=> Pending(name)
  <1>1. Range(functors \o batch) = Range(functors) \cup Range(batch)
    <2>1. PICK m \in Nat, n \in Nat : m = Len(functors) /\ n = Len(batch)
      BY DEF ConnectorTypes
    <2>2. /\ DOMAIN functors = 1 .. m /\ DOMAIN batch = 1 .. n
          /\ DOMAIN (functors \o batch) = 1 .. (m + n)
          /\ \A i \in 1 .. (m + n) :
               (functors \o batch)[i] = IF i <= m THEN functors[i] ELSE batch[i - m]
      BY <2>1 DEF ConnectorTypes
    <2>3. \A i \in 1 .. n : m + i \in 1 .. (m + n) /\ (functors \o batch)[m + i] = batch[i]
      BY <2>2
    <2>4. \A i \in 1 .. m : i \in 1 .. (m + n) /\ (functors \o batch)[i] = functors[i]
      BY <2>2
    <2>5. \A i \in 1 .. (m + n) : i \notin 1 .. m => i - m \in 1 .. n
      OBVIOUS
    <2>6. Range(functors) = {functors[i] : i \in 1 .. m} /\ Range(batch) = {batch[i] : i \in 1 .. n}
          /\ Range(functors \o batch) = {(functors \o batch)[i] : i \in 1 .. (m + n)}
      BY <2>2 DEF Range
    <2>7. PICK w : w = functors \o batch
      OBVIOUS
    <2>8. /\ \A i \in 1 .. (m + n) : w[i] = IF i \in 1 .. m THEN functors[i] ELSE batch[i - m]
      BY <2>2, <2>7
    <2>9. {w[i] : i \in 1 .. (m + n)} = {functors[i] : i \in 1 .. m} \cup {batch[i] : i \in 1 .. n}
      <3>1. \A i \in 1 .. (m + n) : (i \in 1 .. m /\ w[i] = functors[i])
                                     \/ (i - m \in 1 .. n /\ w[i] = batch[i - m])
        <4> TAKE i \in 1 .. (m + n)
        <4>1. CASE i \in 1 .. m
          BY <2>4, <2>7, <4>1
        <4>2. CASE i \notin 1 .. m
          BY <2>5, <2>8, <4>2
        <4> QED  BY <4>1, <4>2
      <3>2. \A i \in 1 .. m : \E j \in 1 .. (m + n) : w[j] = functors[i]
        BY <2>4, <2>7
      <3>3. \A i \in 1 .. n : \E j \in 1 .. (m + n) : w[j] = batch[i]
        BY <2>3, <2>7
      <3> QED  BY <3>1, <3>2, <3>3
    <2> QED  BY <2>6, <2>7, <2>9
  <1>2. {f.arg : f \in Destroying} = Args(functors) \cup Args(batch)
    <2>1. Destroying = {f \in Range(functors) : f.fn = "connectDestroyed"}
                       \cup {f \in Range(batch) : f.fn = "connectDestroyed"}
      BY <1>1 DEF Destroying
    <2>2. ASSUME NEW q PROVE {f.arg : f \in {g \in Range(q) : g.fn = "connectDestroyed"}} = Args(q)
      BY DEF Range, Args
    <2> QED  BY <2>1, <2>2
  <1>3. \A name : (\E f \in Range(functors \o batch) : f.fn = name) <=> Pending(name)
    BY <1>1 DEF Pending, In, Range
  <1> QED  BY <1>2, <1>3

\* The invariant contains Owned.
LEMMA ImpliesOwned == ConnectorInv => Owned
  <1> SUFFICES ASSUME ConnectorInv PROVE Owned
    OBVIOUS
  <1>1. ChannelsOwned
    <2>1. "write" \in active => channel # None
      BY ConnectorAssumption DEF ConnectorInv, EventInv, SocketInv, Open,
         Sockets
    <2> QED  BY <2>1 DEF ConnectorInv, EventInv, ChannelsOwned
  <1>2. SocketsOwned
    BY QueuedRange DEF ConnectorInv, SocketInv, SocketsOwned, Open, Connecting
  <1> QED  BY <1>1, <1>2 DEF Owned

\* The invariant contains NotStuck.
LEMMA ImpliesNotStuck == ConnectorInv => NotStuck
  BY QueuedRange DEF ConnectorInv, GoingInv, EventInv, NotStuck, ConnectorTypes

-----------------------------------------------------------------------------
\* The client starts in it.
LEMMA InitConnector == Init => ConnectorInv
  <1> SUFFICES ASSUME Init PROVE ConnectorInv
    OBVIOUS
  <1>1. ConnectorTypes
    <2>1. wanted \in BOOLEAN /\ connect \in BOOLEAN /\ called \in BOOLEAN /\ stopped \in BOOLEAN
          /\ gaveUp \in BOOLEAN /\ retry \in BOOLEAN
      BY DEF Init
    <2>2. sock \in [Sockets -> SockState] /\ attempts \in 0 .. MaxAttempts
      BY ConnectorAssumption DEF Init, SockState
    <2> QED  BY <2>1, <2>2, QueueEmpty DEF Init, ConnectorTypes
  <1>2. Open(sock) = {}
    BY DEF Init, Open
  <1> QED  BY <1>1, <1>2, QueueEmpty, ConnectorAssumption
           DEF Init, ConnectorInv, CallInv, PhaseInv, OneAttempt, EventInv, DestroyInv,
               SocketInv, GoingInv, Connecting, Pending, Sockets
-----------------------------------------------------------------------------
\* what an attempt leaves: the socket is new, and either its channel waits for
\* it, or a timer is set, or the connector gave up
Attempted ==
  /\ attempts' = attempts + 1 /\ attempts' \in 0 .. MaxAttempts
  /\ attempts + 1 \in Sockets
  /\ sock' \in [Sockets -> SockState]
  /\ channel' \in Sockets \cup {None} /\ registered' \subseteq Sockets
  /\ gaveUp' \in BOOLEAN /\ (gaveUp => gaveUp')
  /\ \A s \in Sockets : sock'[s] = "none" <=> s > attempts'
  /\ attempts + 1 \notin Open(sock)
  /\ \/ /\ state' = "kConnecting" /\ timers' = 0
        /\ channel' = attempts + 1 /\ registered' = {attempts + 1}
        /\ Open(sock') = Open(sock) \cup {attempts + 1}
     \/ /\ state' \in {"kDisconnected", "kConnected"}
        /\ timers' = 1 \/ (timers' = 0 /\ gaveUp')
        /\ registered' = {} /\ channel' = channel
        /\ Open(sock') = Open(sock)

\* what queueing the functor does to the queue, and running the first of the batch
Appended(fn) ==
  /\ functors' \in Seq(Functor)
  /\ \A name : In(functors', name) <=> In(functors, name) \/ name = fn
  /\ \A name : Once(functors, name) /\ ~(In(functors, name) /\ name = fn)
               => Once(functors', name)

Popped(fn) ==
  /\ batch' \in Seq(Functor)
  /\ \A name : In(batch', name) => In(batch, name)
  /\ \A name : name # fn => (In(batch', name) <=> In(batch, name))
  /\ \A name : Once(batch, name) => Once(batch', name)
  /\ Once(batch, fn) => ~In(batch', fn)

\* Connector::connect and connecting, when no other attempt is under way.
LEMMA Attempt ==
  ASSUME ConnectorTypes, SocketInv, NEW st, st \in {"kDisconnected", "kConnected"},
         doConnect(0, st), registered = {}
  PROVE  Attempted
  <1>1. /\ attempts' = attempts + 1 /\ attempts' \in 0 .. MaxAttempts
        /\ attempts + 1 \in Sockets
    BY ConnectorAssumption DEF doConnect, ConnectorTypes, Sockets
  <1>2. sock[attempts + 1] = "none"
    BY <1>1 DEF SocketInv, ConnectorTypes
  <1>3. attempts + 1 \notin Open(sock)
    BY <1>2 DEF Open
  <1>4. ASSUME NEW x \in SockState \ {"none"}, sock' = [sock EXCEPT ![attempts + 1] = x]
        PROVE  /\ sock' \in [Sockets -> SockState]
               /\ \A s \in Sockets : sock'[s] = "none" <=> s > attempts'
               /\ Open(sock') = Open(sock) \cup (IF x = "closed" THEN {} ELSE {attempts + 1})
    <2>1. sock' \in [Sockets -> SockState]
      BY <1>1, <1>4 DEF ConnectorTypes
    <2>2. \A s \in Sockets : sock'[s] = IF s = attempts + 1 THEN x ELSE sock[s]
      BY <1>1, <1>4 DEF ConnectorTypes
    <2>3. \A s \in Sockets : sock'[s] = "none" <=> s > attempts'
      BY <1>1, <2>2 DEF SocketInv, Sockets, ConnectorTypes
    <2>4. Open(sock') = Open(sock) \cup (IF x = "closed" THEN {} ELSE {attempts + 1})
      BY <1>1, <1>3, <2>2 DEF Open
    <2> QED  BY <2>1, <2>3, <2>4
  <1>5. CASE /\ \E x \in {"pending", "up"} : sock' = [sock EXCEPT ![attempts + 1] = x]
             /\ state' = "kConnecting" /\ channel' = attempts + 1
             /\ registered' = registered \cup {attempts + 1}
             /\ timers' = 0 /\ gaveUp' = gaveUp
    <2>1. PICK x \in {"pending", "up"} : sock' = [sock EXCEPT ![attempts + 1] = x]
      BY <1>5
    <2>2. x \in SockState \ {"none"} /\ x # "closed"
      BY DEF SockState
    <2>3. /\ sock' \in [Sockets -> SockState]
          /\ \A s \in Sockets : sock'[s] = "none" <=> s > attempts'
          /\ Open(sock') = Open(sock) \cup {attempts + 1}
      BY <1>4, <2>1, <2>2
    <2>4. gaveUp' \in BOOLEAN /\ (gaveUp => gaveUp')
      BY <1>5 DEF ConnectorTypes
    <2> QED  BY <1>1, <1>3, <1>5, <2>3, <2>4 DEF Attempted
  <1>6. CASE /\ sock' = [sock EXCEPT ![attempts + 1] = "closed"]
             /\ state' = "kDisconnected" /\ timers' = 1
             /\ channel' = channel /\ registered' = registered /\ gaveUp' = gaveUp
    <2>1. "closed" \in SockState \ {"none"}
      BY DEF SockState
    <2>2. /\ sock' \in [Sockets -> SockState]
          /\ \A s \in Sockets : sock'[s] = "none" <=> s > attempts'
          /\ Open(sock') = Open(sock)
      BY <1>4, <1>6, <2>1
    <2>3. gaveUp' \in BOOLEAN /\ (gaveUp => gaveUp')
      BY <1>6 DEF ConnectorTypes
    <2> QED  BY <1>1, <1>3, <1>6, <2>2, <2>3 DEF ConnectorTypes, Attempted
  <1>7. CASE /\ sock' = [sock EXCEPT ![attempts + 1] = "closed"]
             /\ state' = st /\ timers' = 0
             /\ channel' = channel /\ registered' = registered /\ gaveUp' = TRUE
    <2>1. "closed" \in SockState \ {"none"}
      BY DEF SockState
    <2>2. /\ sock' \in [Sockets -> SockState]
          /\ \A s \in Sockets : sock'[s] = "none" <=> s > attempts'
          /\ Open(sock') = Open(sock)
      BY <1>4, <1>7, <2>1
    <2>3. gaveUp' \in BOOLEAN /\ gaveUp'
      BY <1>7
    <2> QED  BY <1>1, <1>3, <1>7, <2>2, <2>3 DEF ConnectorTypes, Attempted
  <1>8. 0 + 1 = 1
    OBVIOUS
  <1> QED  BY <1>5, <1>6, <1>7, <1>8 DEF doConnect

\* the functors that have no argument
LEMMA StartFn ==
  Fn("startInLoop", None) \in Functor /\ Fn("startInLoop", None).fn = "startInLoop"
  BY DEF Fn, Functor

LEMMA ResetFn ==
  Fn("resetChannel", None) \in Functor /\ Fn("resetChannel", None).fn = "resetChannel"
  BY DEF Fn, Functor

\* Queueing a resetChannel.
LEMMA ResetArgs ==
  ASSUME NEW q \in Seq(Functor)
  PROVE  Args(Append(q, Fn("resetChannel", None))) = Args(q)
  <1>1. Args(Append(q, Fn("resetChannel", None)))
        = Args(q) \cup (IF Fn("resetChannel", None).fn = "connectDestroyed"
                         THEN {Fn("resetChannel", None).arg} ELSE {})
    BY ResetFn, QueueAppend
  <1> QED  BY <1>1, ResetFn

\* Closing an open socket.
LEMMA Closed ==
  ASSUME ConnectorTypes, NEW s \in Open(sock), sock' = [sock EXCEPT ![s] = "closed"]
  PROVE  /\ sock' \in [Sockets -> SockState] /\ Open(sock') = Open(sock) \ {s}
         /\ \A t \in Sockets : sock'[t] = "none" <=> sock[t] = "none"
  <1>1. \A t \in Sockets : sock'[t] = IF t = s THEN "closed" ELSE sock[t]
    BY DEF ConnectorTypes
  <1>2. sock' \in [Sockets -> SockState]
    BY DEF ConnectorTypes, SockState
  <1>3. s \in Sockets /\ sock[s] # "none"
    BY DEF Open
  <1> QED  BY <1>1, <1>2, <1>3 DEF Open

\* Before the first attempt there is nothing that it could disturb.
LEMMA BeforeFirst ==
  ASSUME ConnectorInv, attempts = 0
  PROVE  /\ ~Connecting /\ timers = 0 /\ connection = None
         /\ ~Pending("resetChannel") /\ ~Pending("connectDestroyed")
  <1>1. Open(sock) = {}
    BY DEF ConnectorInv, SocketInv, Open, Sockets
  <1>2. connection = None /\ ~Pending("connectDestroyed")
    BY <1>1, NoneDying, ConnectorAssumption DEF ConnectorInv, SocketInv, Pending
  <1> QED  BY <1>2 DEF ConnectorInv, OneAttempt, EventInv, Connecting

\* TcpClient::connect in the loop thread keeps the invariant: it is the first attempt.
LEMMA ClientConnectStep ==
  ASSUME ConnectorInv, ClientConnect
  PROVE  ConnectorInv'
  <1>1. attempts = 0 /\ functors = <<>> /\ batch = <<>> /\ ~stopped
    BY DEF ConnectorInv, CallInv, ClientConnect
  <1>2. ~Connecting /\ timers = 0 /\ connection = None /\ state \in {"kDisconnected", "kConnected"}
        /\ registered = {} /\ active = {}
    BY <1>1, BeforeFirst DEF ConnectorInv, ConnectorTypes, Connecting, EventInv
  <1>3. Attempted
    BY <1>2, Attempt DEF ConnectorInv, ClientConnect, Attempted
  <1>4. /\ functors' = <<>> /\ batch' = <<>> /\ Args(<<>>) = {}
        /\ \A name : ~In(<<>>, name) /\ Once(<<>>, name)
    BY <1>1, QueueEmpty DEF ClientConnect, loopVars
  <1>5. ConnectorTypes'
    BY <1>3 DEF ConnectorInv, ConnectorTypes, ClientConnect, loopVars, Attempted
  <1>6. CallInv'
    BY DEF ConnectorInv, CallInv, ClientConnect
  <1>7. PhaseInv'
    BY DEF ConnectorInv, PhaseInv, ClientConnect, loopVars
  <1>8. OneAttempt'
    BY <1>2, <1>3, <1>4 DEF OneAttempt, Pending, Connecting, ClientConnect,
       Attempted
  <1>9. EventInv'
    BY <1>2, <1>3, <1>4 DEF EventInv, Pending, Connecting, ClientConnect,
       loopVars, Attempted
  <1>10. DestroyInv'
    BY <1>4 DEF DestroyInv, Pending
  <1>11. SocketInv'
    BY <1>1, <1>2, <1>3, <1>4 DEF ConnectorInv, SocketInv, Connecting,
       ClientConnect, Attempted
  <1>12. GoingInv'
    BY <1>3 DEF ConnectorInv, GoingInv, Connecting, ClientConnect, Attempted
  <1> QED  BY <1>5, <1>6, <1>7, <1>8, <1>9, <1>10, <1>11, <1>12 DEF ConnectorInv


\* TcpClient::connect in another thread keeps it: its startInLoop is the only one.
LEMMA ThreadConnectStep ==
  ASSUME ConnectorInv, ThreadConnect
  PROVE  ConnectorInv'
  <1>1. attempts = 0 /\ functors = <<>> /\ batch = <<>> /\ ~stopped
    BY DEF ConnectorInv, CallInv, ThreadConnect
  <1>2. /\ Args(<<>>) = {}
        /\ \A name : ~In(<<>>, name) /\ Once(<<>>, name)
    BY QueueEmpty
  <1>3. Appended("startInLoop") /\ Args(functors') = Args(functors)
    BY StartFn, QueueAppend DEF ConnectorInv, ConnectorTypes, ThreadConnect,
       Appended
  <1>4. ConnectorTypes'
    BY <1>3 DEF ConnectorInv, ConnectorTypes, ThreadConnect, loopVars, Appended
  <1>5. CallInv'
    BY DEF ConnectorInv, CallInv, ThreadConnect
  <1>6. PhaseInv'
    BY <1>3 DEF ConnectorInv, PhaseInv, ThreadConnect, loopVars, Appended
  <1>7. OneAttempt'
    BY <1>1, <1>2, <1>3 DEF ConnectorInv, OneAttempt, Connecting, ThreadConnect,
       loopVars, Appended
  <1>8. EventInv'
    BY <1>3 DEF ConnectorInv, EventInv, Pending, Connecting, ThreadConnect,
       loopVars, Appended
  <1>9. DestroyInv'
    BY <1>3 DEF ConnectorInv, DestroyInv, Pending, Connecting, ThreadConnect,
       loopVars, Appended
  <1>10. SocketInv'
    BY <1>3 DEF ConnectorInv, SocketInv, Connecting, ThreadConnect, loopVars,
       Appended
  <1>11. GoingInv'
    BY <1>3 DEF ConnectorInv, GoingInv, Pending, ThreadConnect, Appended
  <1> QED  BY <1>4, <1>5, <1>6, <1>7, <1>8, <1>9, <1>10, <1>11 DEF ConnectorInv


\* TcpClient::stop keeps it: with _connect false, no startInLoop does anything.
LEMMA ClientStopStep ==
  ASSUME ConnectorInv, ClientStop
  PROVE  ConnectorInv'
  <1>1. Appended("startInLoop") /\ Args(functors') = Args(functors)
    BY StartFn, QueueAppend DEF ConnectorInv, ConnectorTypes, ClientStop,
       Appended
  <1>2. ConnectorTypes'
    BY <1>1 DEF ConnectorInv, ConnectorTypes, ClientStop, loopVars, Appended
  <1>3. CallInv'
    BY DEF CallInv, ClientStop
  <1>4. PhaseInv'
    BY <1>1 DEF ConnectorInv, PhaseInv, ClientStop, loopVars, Appended
  <1>5. OneAttempt'
    BY DEF ConnectorInv, OneAttempt, Connecting, ClientStop
  <1>6. EventInv'
    BY <1>1 DEF ConnectorInv, EventInv, Pending, Connecting, ClientStop,
       loopVars, Appended
  <1>7. DestroyInv'
    BY <1>1 DEF ConnectorInv, DestroyInv, Pending, Connecting, ClientStop,
       loopVars, Appended
  <1>8. SocketInv'
    BY <1>1 DEF ConnectorInv, SocketInv, Connecting, ClientStop, loopVars,
       Appended
  <1>9. GoingInv'
    BY DEF ConnectorInv, GoingInv, ClientStop
  <1> QED  BY <1>2, <1>3, <1>4, <1>5, <1>6, <1>7, <1>8, <1>9 DEF ConnectorInv


\* TcpClient::disconnect keeps it.
LEMMA ClientDisconnectStep ==
  ASSUME ConnectorInv, ClientDisconnect
  PROVE  ConnectorInv'
  <1>1. ConnectorTypes'
    BY DEF ConnectorInv, ConnectorTypes, ClientDisconnect, loopVars, history
  <1>2. CallInv'
    BY DEF ConnectorInv, CallInv, ClientDisconnect, history
  <1>3. PhaseInv'
    BY DEF ConnectorInv, PhaseInv, ClientDisconnect, loopVars
  <1>4. OneAttempt'
    BY DEF ConnectorInv, OneAttempt, Pending, Connecting, ClientDisconnect,
       loopVars
  <1>5. EventInv'
    BY DEF ConnectorInv, EventInv, Pending, Connecting, ClientDisconnect,
       loopVars
  <1>6. DestroyInv'
    BY DEF ConnectorInv, DestroyInv, Pending, Connecting, ClientDisconnect,
       loopVars
  <1>7. SocketInv'
    BY DEF ConnectorInv, SocketInv, Connecting, ClientDisconnect, loopVars
  <1>8. GoingInv'
    BY DEF ConnectorInv, GoingInv, ClientDisconnect
  <1> QED  BY <1>1, <1>2, <1>3, <1>4, <1>5, <1>6, <1>7, <1>8 DEF ConnectorInv


\* A poll keeps it: it reports what is under way, and no functor waits.
LEMMA PollStep ==
  ASSUME ConnectorInv, Poll
  PROVE  ConnectorInv'
  <1>1. ~Pending("resetChannel") /\ ~Pending("connectDestroyed")
    BY QueueEmpty DEF ConnectorInv, PhaseInv, Pending, Poll
  <1>2. /\ "timer" \in active' => timers > 0
        /\ "close" \in active' => connection # None
        /\ "error" \in active' => registered # {} /\ "write" \in active'
        /\ "write" \in active' => registered # {}
        /\ active' \subseteq {"timer", "close", "error", "write"}
    BY DEF Poll, Ready
  <1>3. ConnectorTypes'
    BY <1>2 DEF ConnectorInv, ConnectorTypes, Poll, client, history
  <1>4. CallInv'
    BY DEF ConnectorInv, CallInv, Poll, client, history
  <1>5. PhaseInv'
    BY DEF ConnectorInv, PhaseInv, Poll
  <1>6. OneAttempt'
    BY DEF ConnectorInv, OneAttempt, Pending, Connecting, Poll, client
  <1>7. EventInv'
    BY <1>1, <1>2 DEF ConnectorInv, EventInv, PhaseInv, Pending, Connecting,
       Poll, client
  <1>8. DestroyInv'
    BY <1>1 DEF ConnectorInv, DestroyInv, Pending, Connecting, Poll
  <1>9. SocketInv'
    BY DEF ConnectorInv, SocketInv, Connecting, Poll, client
  <1>10. GoingInv'
    BY DEF ConnectorInv, GoingInv, Pending, Connecting, Poll, client, history
  <1> QED  BY <1>3, <1>4, <1>5, <1>6, <1>7, <1>8, <1>9, <1>10 DEF ConnectorInv


\* doPendingFunctors' swap keeps it: all events have been handled.
LEMMA SwapFunctorsStep ==
  ASSUME ConnectorInv, SwapFunctors
  PROVE  ConnectorInv'
  <1>1. /\ <<>> \in Seq(Functor) /\ Args(<<>>) = {}
        /\ \A name : ~In(<<>>, name) /\ Once(<<>>, name)
    BY QueueEmpty
  <1>2. batch = <<>> /\ functors' = <<>> /\ batch' = functors
    BY DEF ConnectorInv, PhaseInv, SwapFunctors
  <1>3. ConnectorTypes'
    BY DEF ConnectorInv, ConnectorTypes, SwapFunctors, client, history
  <1>4. CallInv'
    BY DEF ConnectorInv, CallInv, SwapFunctors, client, history
  <1>5. PhaseInv'
    BY <1>1 DEF PhaseInv, SwapFunctors
  <1>6. OneAttempt'
    BY DEF ConnectorInv, OneAttempt, PhaseInv, Pending, Connecting,
       SwapFunctors, client
  <1>7. EventInv'
    BY DEF ConnectorInv, EventInv, PhaseInv, Pending, Connecting, SwapFunctors
  <1>8. DestroyInv'
    BY DEF ConnectorInv, DestroyInv, PhaseInv, Pending, Connecting,
       SwapFunctors, client
  <1>9. SocketInv'
    BY <1>2 DEF ConnectorInv, SocketInv, Connecting, SwapFunctors, client
  <1>10. GoingInv'
    BY <1>2 DEF ConnectorInv, GoingInv, Pending, Connecting, SwapFunctors,
       client, history
  <1> QED  BY <1>3, <1>4, <1>5, <1>6, <1>7, <1>8, <1>9, <1>10 DEF ConnectorInv


\* The end of doPendingFunctors keeps it.
LEMMA FinishFunctorsStep ==
  ASSUME ConnectorInv, FinishFunctors
  PROVE  ConnectorInv'
  <1>1. ConnectorTypes'
    BY DEF ConnectorInv, ConnectorTypes, FinishFunctors, client, history
  <1>2. CallInv'
    BY DEF ConnectorInv, CallInv, FinishFunctors, client, history
  <1>3. PhaseInv'
    BY DEF ConnectorInv, PhaseInv, FinishFunctors
  <1>4. OneAttempt'
    BY DEF ConnectorInv, OneAttempt, Pending, Connecting, FinishFunctors, client
  <1>5. EventInv'
    BY DEF ConnectorInv, EventInv, PhaseInv, Pending, Connecting, FinishFunctors
  <1>6. DestroyInv'
    BY DEF ConnectorInv, DestroyInv, Pending, Connecting, FinishFunctors, client
  <1>7. SocketInv'
    BY DEF ConnectorInv, SocketInv, Connecting, FinishFunctors, client
  <1>8. GoingInv'
    BY DEF ConnectorInv, GoingInv, Pending, Connecting, FinishFunctors, client,
       history
  <1> QED  BY <1>1, <1>2, <1>3, <1>4, <1>5, <1>6, <1>7, <1>8 DEF ConnectorInv


\* The timer of retry, when the client still wants to connect.
LEMMA HandleTimerTries ==
  ASSUME ConnectorInv, connect, HandleTimer
  PROVE  ConnectorInv'
  <1>1. /\ phase = "dispatch" /\ timers = 1 /\ attempts > 0 /\ ~Connecting /\ connection = None
        /\ state \in {"kDisconnected", "kConnected"} /\ registered = {}
        /\ active' = {} /\ ~Pending("resetChannel") /\ ~Pending("connectDestroyed")
    BY DEF ConnectorInv, ConnectorTypes, OneAttempt, EventInv, DestroyInv,
       Connecting, HandleTimer, Handling
  <1>2. timers - 1 = 0
    BY <1>1
  <1>3. doConnect(0, state)
    BY <1>2 DEF HandleTimer, startInLoop
  <1>4. Attempted
    BY <1>1, <1>3, Attempt DEF ConnectorInv, Attempted
  <1>5. ConnectorTypes'
    BY <1>1, <1>4 DEF ConnectorInv, ConnectorTypes, HandleTimer, client,
       history, Attempted
  <1>6. CallInv'
    BY <1>1 DEF ConnectorInv, CallInv, HandleTimer, history
  <1>7. PhaseInv'
    BY <1>1 DEF ConnectorInv, PhaseInv, HandleTimer
  <1>8. OneAttempt'
    BY <1>2, <1>4 DEF ConnectorInv, OneAttempt, PhaseInv, Pending, Connecting,
       HandleTimer, client, Attempted
  <1>9. EventInv'
    BY <1>1, <1>4 DEF EventInv, Pending, Connecting, HandleTimer, Attempted
  <1>10. DestroyInv'
    BY <1>1, NoneDying DEF ConnectorInv, DestroyInv, Pending, HandleTimer
  <1>11. SocketInv'
    BY <1>1, <1>4 DEF ConnectorInv, SocketInv, Connecting, HandleTimer, client,
       Attempted
  <1>12. GoingInv'
    BY <1>4 DEF ConnectorInv, GoingInv, Connecting, HandleTimer, client,
       Attempted
  <1> QED  BY <1>5, <1>6, <1>7, <1>8, <1>9, <1>10, <1>11, <1>12 DEF ConnectorInv


\* The timer of retry, after stop().
LEMMA HandleTimerDrops ==
  ASSUME ConnectorInv, ~connect, HandleTimer
  PROVE  ConnectorInv'
  <1>1. /\ phase = "dispatch" /\ timers = 1 /\ attempts > 0 /\ ~Connecting /\ connection = None
        /\ state \in {"kDisconnected", "kConnected"} /\ registered = {}
        /\ active' = {} /\ ~Pending("resetChannel") /\ ~Pending("connectDestroyed")
    BY DEF ConnectorInv, ConnectorTypes, OneAttempt, EventInv, DestroyInv,
       Connecting, HandleTimer, Handling
  <1>2. timers' = 0 /\ UNCHANGED <<sock, state, channel, registered, gaveUp, attempts>>
    BY <1>1 DEF HandleTimer, startInLoop
  <1>3. ConnectorTypes'
    BY <1>1, <1>2 DEF ConnectorInv, ConnectorTypes, HandleTimer, client, history
  <1>4. CallInv'
    BY <1>2 DEF ConnectorInv, CallInv, HandleTimer, client, history
  <1>5. PhaseInv'
    BY <1>1 DEF ConnectorInv, PhaseInv, HandleTimer
  <1>6. OneAttempt'
    BY <1>1, <1>2 DEF OneAttempt, Connecting, HandleTimer
  <1>7. EventInv'
    BY <1>1, <1>2 DEF EventInv, Connecting
  <1>8. DestroyInv'
    BY <1>1, <1>2 DEF ConnectorInv, DestroyInv, Pending, Connecting, HandleTimer
  <1>9. SocketInv'
    BY <1>2 DEF ConnectorInv, SocketInv, Connecting, HandleTimer, client
  <1>10. GoingInv'
    BY DEF ConnectorInv, GoingInv, CallInv, HandleTimer, client, history
  <1> QED  BY <1>3, <1>4, <1>5, <1>6, <1>7, <1>8, <1>9, <1>10 DEF ConnectorInv


\* startInLoop from the queue, when the client wants to connect: the first attempt.
LEMMA RunStartInLoopTries ==
  ASSUME ConnectorInv, connect, RunStartInLoop
  PROVE  ConnectorInv'
  <1>1. /\ phase = "functors" /\ active = {} /\ batch # <<>> /\ batch' = Tail(batch)
        /\ Head(batch).fn = "startInLoop" /\ In(batch, "startInLoop")
    BY QueueTail DEF ConnectorInv, ConnectorTypes, PhaseInv, RunStartInLoop,
       RunFunctor
  <1>2. Popped("startInLoop") /\ Args(batch) = Args(batch')
    BY <1>1, QueueTail, TailKeepsArgs DEF ConnectorInv, ConnectorTypes, Popped
  <1>3. attempts = 0
    BY <1>1 DEF ConnectorInv, OneAttempt, Pending
  <1>4. /\ ~Connecting /\ timers = 0 /\ connection = None /\ registered = {}
        /\ state \in {"kDisconnected", "kConnected"}
        /\ ~Pending("resetChannel") /\ ~Pending("connectDestroyed")
    BY <1>3, BeforeFirst DEF ConnectorInv, ConnectorTypes, EventInv, Connecting
  <1>5. doConnect(0, state)
    BY <1>4 DEF RunStartInLoop, startInLoop
  <1>6. Attempted
    BY <1>4, <1>5, Attempt DEF ConnectorInv, Attempted
  <1>7. ~In(functors, "startInLoop") /\ ~In(batch', "startInLoop")
    BY <1>1, <1>2 DEF ConnectorInv, OneAttempt, Popped
  <1>8. ConnectorTypes'
    BY <1>6 DEF ConnectorInv, ConnectorTypes, RunStartInLoop, RunFunctor,
       client, history, Attempted
  <1>9. CallInv'
    BY DEF ConnectorInv, CallInv, RunStartInLoop, RunFunctor, history
  <1>10. PhaseInv'
    BY DEF ConnectorInv, PhaseInv, RunStartInLoop, RunFunctor
  <1>11. OneAttempt'
    BY <1>2, <1>3, <1>4, <1>6, <1>7 DEF ConnectorInv, OneAttempt, Pending,
       Connecting, RunStartInLoop, RunFunctor, client, Attempted, Popped
  <1>12. EventInv'
    BY <1>2, <1>4, <1>6 DEF ConnectorInv, EventInv, Pending, Connecting,
       RunStartInLoop, RunFunctor, Attempted, Popped
  <1>13. DestroyInv'
    BY <1>2, <1>4, NoneDying DEF ConnectorInv, DestroyInv, Pending,
       RunStartInLoop, RunFunctor, Popped
  <1>14. SocketInv'
    BY <1>2, <1>4, <1>6 DEF ConnectorInv, SocketInv, Connecting, RunStartInLoop,
       RunFunctor, client, Attempted, Popped
  <1>15. GoingInv'
    BY <1>6 DEF ConnectorInv, GoingInv, Connecting, RunStartInLoop, RunFunctor,
       client, Attempted
  <1> QED  BY <1>8, <1>9, <1>10, <1>11, <1>12, <1>13, <1>14, <1>15 DEF
              ConnectorInv


\* startInLoop from the queue, after stop().
LEMMA RunStartInLoopDrops ==
  ASSUME ConnectorInv, ~connect, RunStartInLoop
  PROVE  ConnectorInv'
  <1>1. /\ phase = "functors" /\ active = {} /\ batch # <<>> /\ batch' = Tail(batch)
        /\ Head(batch).fn = "startInLoop" /\ In(batch, "startInLoop")
    BY QueueTail DEF ConnectorInv, ConnectorTypes, PhaseInv, RunStartInLoop,
       RunFunctor
  <1>2. Popped("startInLoop") /\ Args(batch) = Args(batch')
    BY <1>1, QueueTail, TailKeepsArgs DEF ConnectorInv, ConnectorTypes, Popped
  <1>3. timers' = timers /\ UNCHANGED <<sock, state, channel, registered, gaveUp, attempts>>
    BY DEF RunStartInLoop, startInLoop
  <1>4. called /\ ~wanted
    BY <1>1 DEF ConnectorInv, CallInv
  <1>5. ConnectorTypes'
    BY <1>3 DEF ConnectorInv, ConnectorTypes, RunStartInLoop, RunFunctor,
       client, history
  <1>6. CallInv'
    BY DEF ConnectorInv, CallInv, RunStartInLoop, RunFunctor, client, history
  <1>7. PhaseInv'
    BY DEF ConnectorInv, PhaseInv, RunStartInLoop, RunFunctor
  <1>8. OneAttempt'
    BY <1>3 DEF ConnectorInv, OneAttempt, Connecting, RunStartInLoop,
       RunFunctor, client
  <1>9. EventInv'
    BY <1>2, <1>3 DEF ConnectorInv, EventInv, PhaseInv, Pending, Connecting,
       RunStartInLoop, RunFunctor, Popped
  <1>10. DestroyInv'
    BY <1>2, <1>3 DEF ConnectorInv, DestroyInv, Pending, Connecting,
       RunStartInLoop, RunFunctor, client, Popped
  <1>11. SocketInv'
    BY <1>2, <1>3 DEF ConnectorInv, SocketInv, Connecting, RunStartInLoop,
       RunFunctor, client, Popped
  <1>12. GoingInv'
    BY <1>4 DEF ConnectorInv, GoingInv, RunStartInLoop, RunFunctor, client
  <1> QED  BY <1>5, <1>6, <1>7, <1>8, <1>9, <1>10, <1>11, <1>12 DEF ConnectorInv


\* resetChannel keeps it: no attempt is under way.
LEMMA RunResetChannelStep ==
  ASSUME ConnectorInv, RunResetChannel
  PROVE  ConnectorInv'
  <1>1. /\ phase = "functors" /\ active = {} /\ batch # <<>> /\ batch' = Tail(batch)
        /\ Head(batch).fn = "resetChannel" /\ In(batch, "resetChannel")
    BY QueueTail DEF ConnectorInv, ConnectorTypes, PhaseInv, RunResetChannel,
       RunFunctor
  <1>2. Popped("resetChannel") /\ Args(batch) = Args(batch')
    BY <1>1, QueueTail, TailKeepsArgs DEF ConnectorInv, ConnectorTypes, Popped
  <1>3. registered = {} /\ ~Connecting
    BY <1>1 DEF ConnectorInv, EventInv, Pending
  <1>4. ConnectorTypes'
    BY DEF ConnectorInv, ConnectorTypes, RunResetChannel, RunFunctor, client,
       history
  <1>5. CallInv'
    BY DEF ConnectorInv, CallInv, RunResetChannel, RunFunctor, client, history
  <1>6. PhaseInv'
    BY DEF ConnectorInv, PhaseInv, RunResetChannel, RunFunctor
  <1>7. OneAttempt'
    BY <1>2 DEF ConnectorInv, OneAttempt, Pending, Connecting, RunResetChannel,
       RunFunctor, client, Popped
  <1>8. EventInv'
    BY <1>2, <1>3 DEF ConnectorInv, EventInv, PhaseInv, Pending, Connecting,
       RunResetChannel, RunFunctor, Popped
  <1>9. DestroyInv'
    BY <1>2, <1>3 DEF ConnectorInv, DestroyInv, Pending, Connecting,
       RunResetChannel, RunFunctor, client, Popped
  <1>10. SocketInv'
    BY <1>2, <1>3 DEF ConnectorInv, SocketInv, Connecting, RunResetChannel,
       RunFunctor, client, Popped
  <1>11. GoingInv'
    BY <1>2 DEF ConnectorInv, GoingInv, Pending, Connecting, RunResetChannel,
       RunFunctor, client, history, Popped
  <1> QED  BY <1>4, <1>5, <1>6, <1>7, <1>8, <1>9, <1>10, <1>11 DEF ConnectorInv


\* connectDestroyed keeps it: it closes a socket that nobody else has.
LEMMA RunConnectDestroyedStep ==
  ASSUME ConnectorInv, RunConnectDestroyed
  PROVE  ConnectorInv'
  <1>1. /\ phase = "functors" /\ active = {} /\ batch # <<>> /\ batch' = Tail(batch)
        /\ Head(batch).fn = "connectDestroyed" /\ In(batch, "connectDestroyed")
    BY QueueTail DEF ConnectorInv, ConnectorTypes, PhaseInv,
       RunConnectDestroyed, RunFunctor
  <1>2. Popped("connectDestroyed") /\ Args(batch) = Args(batch') \cup {Head(batch).arg}
    BY <1>1, QueueTail DEF ConnectorInv, ConnectorTypes, Popped
  <1>3. Args(batch') = {} /\ Args(functors) = {} /\ connection = None
    BY <1>1, <1>2, NoneDying DEF ConnectorInv, DestroyInv, PhaseInv, Pending,
       Popped
  <1>4. Head(batch).arg \in Open(sock) /\ (Connecting => channel # Head(batch).arg)
    BY <1>2 DEF ConnectorInv, DestroyInv, SocketInv, Popped
  <1>5. /\ sock' \in [Sockets -> SockState] /\ Open(sock') = Open(sock) \ {Head(batch).arg}
        /\ \A s \in Sockets : sock'[s] = "none" <=> sock[s] = "none"
    BY <1>4, Closed DEF ConnectorInv, RunConnectDestroyed
  <1>6. Open(sock) = (IF Connecting THEN {channel} ELSE {}) \cup {Head(batch).arg}
    BY <1>2, <1>3 DEF ConnectorInv, SocketInv, Popped
  <1>7. Open(sock') = (IF Connecting THEN {channel} ELSE {})
    BY <1>4, <1>5, <1>6
  <1>8. ConnectorTypes'
    BY <1>5 DEF ConnectorInv, ConnectorTypes, RunConnectDestroyed, RunFunctor,
       client, history
  <1>9. CallInv'
    BY DEF ConnectorInv, CallInv, RunConnectDestroyed, RunFunctor, client,
       history
  <1>10. PhaseInv'
    BY DEF ConnectorInv, PhaseInv, RunConnectDestroyed, RunFunctor
  <1>11. OneAttempt'
    BY <1>2 DEF ConnectorInv, OneAttempt, Pending, Connecting,
       RunConnectDestroyed, RunFunctor, client, Popped
  <1>12. EventInv'
    BY <1>2 DEF ConnectorInv, EventInv, PhaseInv, Pending, Connecting,
       RunConnectDestroyed, RunFunctor, Popped
  <1>13. DestroyInv'
    BY <1>2 DEF ConnectorInv, DestroyInv, PhaseInv, Pending, Connecting,
       RunConnectDestroyed, RunFunctor, Popped
  <1>14. SocketInv'
    BY <1>3, <1>5, <1>7 DEF ConnectorInv, SocketInv, Connecting,
       RunConnectDestroyed, RunFunctor, client
  <1>15. GoingInv'
    BY <1>2 DEF ConnectorInv, GoingInv, Pending, Connecting,
       RunConnectDestroyed, RunFunctor, client, history, Popped
  <1> QED  BY <1>8, <1>9, <1>10, <1>11, <1>12, <1>13, <1>14, <1>15 DEF
              ConnectorInv


\* The network keeps it.
LEMMA SocketChangesStep ==
  ASSUME ConnectorInv, NEW s \in Sockets, SocketChanges(s)
  PROVE  ConnectorInv'
  <1>1. s \in Open(sock) /\ UNCHANGED registered
    BY DEF SocketChanges, Open
  <1>2. \E x \in SockState \ {"none", "closed"} : sock' = [sock EXCEPT ![s] = x]
    BY DEF SocketChanges, SockState
  <1>3. /\ sock' \in [Sockets -> SockState] /\ Open(sock') = Open(sock)
        /\ \A t \in Sockets : sock'[t] = "none" <=> sock[t] = "none"
    BY <1>1, <1>2 DEF ConnectorInv, ConnectorTypes, Open
  <1>4. ConnectorTypes'
    BY <1>3 DEF ConnectorInv, ConnectorTypes, SocketChanges, client, loopVars,
       history
  <1>5. CallInv'
    BY DEF ConnectorInv, CallInv, SocketChanges, client, loopVars, history
  <1>6. PhaseInv'
    BY DEF ConnectorInv, PhaseInv, SocketChanges, loopVars
  <1>7. OneAttempt'
    BY DEF ConnectorInv, OneAttempt, Pending, Connecting, SocketChanges, client,
       loopVars
  <1>8. EventInv'
    BY DEF ConnectorInv, EventInv, Pending, Connecting, SocketChanges, client,
       loopVars
  <1>9. DestroyInv'
    BY DEF ConnectorInv, DestroyInv, Pending, Connecting, SocketChanges, client,
       loopVars
  <1>10. SocketInv'
    BY <1>3 DEF ConnectorInv, SocketInv, Connecting, SocketChanges, client,
       loopVars
  <1>11. GoingInv'
    BY DEF ConnectorInv, GoingInv, EventInv, Connecting, SocketChanges, client
  <1> QED  BY <1>4, <1>5, <1>6, <1>7, <1>8, <1>9, <1>10, <1>11 DEF ConnectorInv


\* handleError keeps it: the write event of the same poll is still to come.
LEMMA HandleErrorStep ==
  ASSUME ConnectorInv, HandleError
  PROVE  ConnectorInv'
  <1>1. /\ phase = "dispatch" /\ Connecting /\ registered = {channel} /\ "write" \in active
        /\ timers = 0 /\ connection = None /\ attempts > 0 /\ active' = {"write"}
    <2>1. phase = "dispatch" /\ "error" \in active /\ active' = active \ {"error"}
      BY DEF HandleError, Handling
    <2>2. Connecting /\ registered = {channel} /\ "write" \in active
      BY <2>1 DEF ConnectorInv, EventInv
    <2>3. timers = 0 /\ connection = None /\ attempts > 0
      BY <2>2 DEF ConnectorInv, ConnectorTypes, OneAttempt, Connecting
    <2>4. "timer" \notin active /\ "close" \notin active
      BY <2>3 DEF ConnectorInv, EventInv
    <2>5. active' = {"write"}
      BY <2>1, <2>2, <2>4 DEF ConnectorInv, ConnectorTypes
    <2> QED  BY <2>1, <2>2, <2>3, <2>5
  <1>2. /\ registered' = {} /\ functors' = Append(functors, Fn("resetChannel", None))
        /\ sock' = [sock EXCEPT ![channel] = "dead"]
    BY <1>1 DEF HandleError, removeAndResetChannel, Connecting
  <1>3. Appended("resetChannel") /\ Args(functors') = Args(functors)
    BY <1>2, ResetFn, QueueAppend DEF ConnectorInv, ConnectorTypes, Appended
  <1>4. channel \in Open(sock)
    BY <1>1 DEF ConnectorInv, SocketInv
  <1>5. /\ sock' \in [Sockets -> SockState] /\ Open(sock') = Open(sock)
        /\ \A t \in Sockets : sock'[t] = "none" <=> sock[t] = "none"
    BY <1>2, <1>4 DEF ConnectorInv, ConnectorTypes, Open, SockState
  <1>6. ConnectorTypes'
    BY <1>2, <1>3, <1>5 DEF ConnectorInv, ConnectorTypes, HandleError, Handling,
       client, history, Appended
  <1>7. CallInv'
    BY <1>1 DEF ConnectorInv, CallInv, HandleError, client, history
  <1>8. PhaseInv'
    BY DEF ConnectorInv, PhaseInv, HandleError, Handling
  <1>9. OneAttempt'
    BY <1>3 DEF ConnectorInv, OneAttempt, Pending, Connecting, HandleError,
       client, Appended
  <1>10. EventInv'
    BY <1>1, <1>2 DEF EventInv, Connecting, HandleError
  <1>11. DestroyInv'
    BY <1>3 DEF ConnectorInv, DestroyInv, Pending, Connecting, HandleError,
       Handling, Appended
  <1>12. SocketInv'
    BY <1>3, <1>5 DEF ConnectorInv, SocketInv, Connecting, HandleError, client,
       Appended
  <1>13. GoingInv'
    BY <1>2 DEF ConnectorInv, GoingInv, Connecting, HandleError, client
  <1> QED  BY <1>6, <1>7, <1>8, <1>9, <1>10, <1>11, <1>12, <1>13 DEF
              ConnectorInv


\* handleWrite, when the attempt failed: the socket is closed and a timer set.
LEMMA HandleWriteRetries ==
  ASSUME ConnectorInv, sock[channel] \in {"failed", "self"}, HandleWrite
  PROVE  ConnectorInv'
  <1>1. /\ phase = "dispatch" /\ Connecting /\ timers = 0 /\ connection = None /\ attempts > 0
        /\ active' = {} /\ registered \subseteq {channel} /\ active # {}
    BY DEF ConnectorInv, ConnectorTypes, OneAttempt, EventInv, Connecting,
       HandleWrite, Handling
  <1>2. registered' = {} /\ functors' = Append(functors, Fn("resetChannel", None))
    BY <1>1 DEF HandleWrite, removeAndResetChannel, Connecting
  <1>3. Appended("resetChannel") /\ Args(functors') = Args(functors)
    BY <1>2, ResetFn, QueueAppend, ResetArgs DEF ConnectorInv, ConnectorTypes,
       Appended
  <1>4. Args(functors) = {} /\ Args(batch) = {} /\ ~Pending("connectDestroyed") /\ batch = <<>>
    BY <1>1, NoneDying DEF ConnectorInv, DestroyInv, PhaseInv, Pending
  <1>5. channel \in Open(sock) /\ Open(sock) = {channel}
    BY <1>1, <1>4 DEF ConnectorInv, SocketInv
  <1>6. /\ sock' = [sock EXCEPT ![channel] = "closed"] /\ state' = "kDisconnected"
        /\ timers' = IF connect THEN timers + 1 ELSE timers
        /\ UNCHANGED <<connection, connId>>
    BY <1>1 DEF HandleWrite, retryConnect, Connecting
  <1>7. /\ sock' \in [Sockets -> SockState] /\ Open(sock') = {}
        /\ \A s \in Sockets : sock'[s] = "none" <=> sock[s] = "none"
    BY <1>5, <1>6, Closed DEF ConnectorInv
  <1>8. ConnectorTypes'
    BY <1>1, <1>2, <1>3, <1>6, <1>7 DEF ConnectorInv, ConnectorTypes,
       HandleWrite, history, Appended
  <1>9. CallInv'
    BY <1>1 DEF ConnectorInv, CallInv, HandleWrite, history
  <1>10. PhaseInv'
    BY <1>1 DEF ConnectorInv, PhaseInv, HandleWrite
  <1>11. OneAttempt'
    BY <1>3, <1>6 DEF ConnectorInv, OneAttempt, Pending, Connecting,
       HandleWrite, Appended
  <1>12. EventInv'
    BY <1>1, <1>2, <1>6 DEF EventInv, Connecting, HandleWrite
  <1>13. DestroyInv'
    BY <1>1, <1>3 DEF ConnectorInv, DestroyInv, HandleWrite, Appended
  <1>14. SocketInv'
    BY <1>1, <1>3, <1>4, <1>6, <1>7 DEF ConnectorInv, SocketInv, Connecting,
       HandleWrite, Appended
  <1>15. GoingInv'
    BY <1>1, <1>6 DEF ConnectorInv, GoingInv, CallInv, HandleWrite
  <1> QED  BY <1>8, <1>9, <1>10, <1>11, <1>12, <1>13, <1>14, <1>15 DEF
              ConnectorInv


\* handleWrite, when the attempt succeeded: the connection has the socket.
LEMMA HandleWriteConnects ==
  ASSUME ConnectorInv, sock[channel] \notin {"failed", "self"}, connect, HandleWrite
  PROVE  ConnectorInv'
  <1>1. /\ phase = "dispatch" /\ Connecting /\ timers = 0 /\ connection = None /\ attempts > 0
        /\ active' = {} /\ registered \subseteq {channel} /\ active # {}
    BY DEF ConnectorInv, ConnectorTypes, OneAttempt, EventInv, Connecting,
       HandleWrite, Handling
  <1>2. registered' = {} /\ functors' = Append(functors, Fn("resetChannel", None))
    BY <1>1 DEF HandleWrite, removeAndResetChannel, Connecting
  <1>3. Appended("resetChannel") /\ Args(functors') = Args(functors)
    BY <1>2, ResetFn, QueueAppend, ResetArgs DEF ConnectorInv, ConnectorTypes,
       Appended
  <1>4. Args(functors) = {} /\ Args(batch) = {} /\ ~Pending("connectDestroyed") /\ batch = <<>>
    BY <1>1, NoneDying DEF ConnectorInv, DestroyInv, PhaseInv, Pending
  <1>5. channel \in Open(sock) /\ Open(sock) = {channel}
    BY <1>1, <1>4 DEF ConnectorInv, SocketInv
  <1>6. channel \in Sockets /\ channel # None
    BY <1>5, ConnectorAssumption DEF Open, Sockets
  <1>7. /\ sock' = sock /\ state' = "kConnected" /\ timers' = timers
        /\ connection' = channel /\ connId' = connId + 1
    BY <1>1 DEF HandleWrite, newConnection, Connecting
  <1>8. ConnectorTypes'
    BY <1>1, <1>2, <1>3, <1>7 DEF ConnectorInv, ConnectorTypes, HandleWrite,
       history, Appended
  <1>9. CallInv'
    BY <1>1 DEF ConnectorInv, CallInv, HandleWrite, history
  <1>10. PhaseInv'
    BY <1>1 DEF ConnectorInv, PhaseInv, HandleWrite
  <1>11. OneAttempt'
    BY <1>3 DEF ConnectorInv, OneAttempt, Pending, Connecting, HandleWrite,
       Appended
  <1>12. EventInv'
    BY <1>1, <1>2 DEF EventInv, Connecting, HandleWrite
  <1>13. DestroyInv'
    BY <1>3, <1>4 DEF ConnectorInv, DestroyInv, Pending, HandleWrite, Appended
  <1>14. SocketInv'
    BY <1>3, <1>5, <1>6, <1>7 DEF ConnectorInv, SocketInv, HandleWrite, Appended
  <1>15. GoingInv'
    BY <1>6, <1>7 DEF ConnectorInv, GoingInv, ConnectorTypes
  <1> QED  BY <1>8, <1>9, <1>10, <1>11, <1>12, <1>13, <1>14, <1>15 DEF
              ConnectorInv


\* handleWrite, when it succeeded after stop(): the socket is closed.
LEMMA HandleWriteCloses ==
  ASSUME ConnectorInv, sock[channel] \notin {"failed", "self"}, ~connect, HandleWrite
  PROVE  ConnectorInv'
  <1>1. /\ phase = "dispatch" /\ Connecting /\ timers = 0 /\ connection = None /\ attempts > 0
        /\ active' = {} /\ registered \subseteq {channel} /\ active # {}
    BY DEF ConnectorInv, ConnectorTypes, OneAttempt, EventInv, Connecting,
       HandleWrite, Handling
  <1>2. registered' = {} /\ functors' = Append(functors, Fn("resetChannel", None))
    BY <1>1 DEF HandleWrite, removeAndResetChannel, Connecting
  <1>3. Appended("resetChannel") /\ Args(functors') = Args(functors)
    BY <1>2, ResetFn, QueueAppend, ResetArgs DEF ConnectorInv, ConnectorTypes,
       Appended
  <1>4. Args(functors) = {} /\ Args(batch) = {} /\ ~Pending("connectDestroyed") /\ batch = <<>>
    BY <1>1, NoneDying DEF ConnectorInv, DestroyInv, PhaseInv, Pending
  <1>5. channel \in Open(sock) /\ Open(sock) = {channel}
    BY <1>1, <1>4 DEF ConnectorInv, SocketInv
  <1>6. /\ sock' = [sock EXCEPT ![channel] = "closed"] /\ state' = "kConnected"
        /\ timers' = timers /\ UNCHANGED <<connection, connId>>
    BY <1>1 DEF HandleWrite, Connecting
  <1>7. /\ sock' \in [Sockets -> SockState] /\ Open(sock') = {}
        /\ \A s \in Sockets : sock'[s] = "none" <=> sock[s] = "none"
    BY <1>5, <1>6, Closed DEF ConnectorInv
  <1>8. called /\ ~wanted
    BY <1>1 DEF ConnectorInv, CallInv
  <1>9. ConnectorTypes'
    BY <1>1, <1>2, <1>3, <1>7 DEF ConnectorInv, ConnectorTypes, HandleWrite,
       history, Appended
  <1>10. CallInv'
    BY <1>8 DEF ConnectorInv, CallInv, HandleWrite, history
  <1>11. PhaseInv'
    BY <1>1 DEF ConnectorInv, PhaseInv, HandleWrite
  <1>12. OneAttempt'
    BY DEF ConnectorInv, OneAttempt, Connecting, HandleWrite
  <1>13. EventInv'
    BY <1>1, <1>2 DEF EventInv, Connecting, HandleWrite
  <1>14. DestroyInv'
    BY <1>1, <1>3 DEF ConnectorInv, DestroyInv, HandleWrite, Appended
  <1>15. SocketInv'
    BY <1>1, <1>3, <1>4, <1>7 DEF ConnectorInv, SocketInv, Connecting,
       HandleWrite, Appended
  <1>16. GoingInv'
    BY <1>8 DEF ConnectorInv, GoingInv, HandleWrite
  <1> QED  BY <1>9, <1>10, <1>11, <1>12, <1>13, <1>14, <1>15, <1>16 DEF
              ConnectorInv


\* removeConnection, when the client is to reconnect: a new attempt, with a new socket.
LEMMA HandleCloseRestarts ==
  ASSUME ConnectorInv, retry /\ wanted, HandleClose
  PROVE  ConnectorInv'
  <1>1. /\ phase = "dispatch" /\ connection # None /\ connection \in Sockets /\ ~Connecting
        /\ timers = 0 /\ active # {} /\ active' = {} /\ registered = {}
        /\ state \in {"kDisconnected", "kConnected"} /\ ~Pending("resetChannel")
    <2>1. phase = "dispatch" /\ "close" \in active /\ active' = active \ {"close"}
      BY DEF HandleClose, Handling
    <2>2. connection # None /\ connection \in Sockets
      BY <2>1 DEF ConnectorInv, ConnectorTypes, EventInv
    <2>3. ~Connecting /\ timers = 0
      BY <2>2 DEF ConnectorInv, ConnectorTypes, OneAttempt
    <2>4. /\ registered = {} /\ ~Pending("resetChannel")
          /\ state \in {"kDisconnected", "kConnected"}
      BY <2>1, <2>3 DEF ConnectorInv, ConnectorTypes, EventInv, Connecting
    <2>5. "timer" \notin active /\ "error" \notin active /\ "write" \notin active
      BY <2>3 DEF ConnectorInv, EventInv
    <2>6. active' = {}
      BY <2>1, <2>5 DEF ConnectorInv, ConnectorTypes
    <2> QED  BY <2>1, <2>2, <2>3, <2>4, <2>6
  <1>2. Args(functors) = {} /\ Args(batch) = {} /\ ~Pending("connectDestroyed") /\ batch = <<>>
    BY <1>1, NoneDying DEF ConnectorInv, DestroyInv, PhaseInv, Pending
  <1>3. attempts > 0 /\ connId > 1 /\ Open(sock) = {connection} /\ called
    BY <1>1, <1>2, BeforeFirst DEF ConnectorInv, ConnectorTypes, SocketInv,
       GoingInv, CallInv
  <1>4. /\ Fn("connectDestroyed", connection) \in Functor
        /\ Fn("connectDestroyed", connection).fn = "connectDestroyed"
        /\ Fn("connectDestroyed", connection).arg = connection
    BY <1>1 DEF Fn, Functor
  <1>5. Appended("connectDestroyed") /\ Args(functors') = Args(functors) \cup {connection}
    BY <1>4, QueueAppend DEF ConnectorInv, ConnectorTypes, HandleClose, Appended
  <1>6. connect /\ connect' = TRUE /\ ~Pending("startInLoop")
    BY <1>3 DEF ConnectorInv, CallInv, OneAttempt, HandleClose, restart
  <1>7. doConnect(0, "kDisconnected")
    BY <1>1 DEF HandleClose, restart
  <1>8. Attempted
    BY <1>1, <1>7, Attempt DEF ConnectorInv, Attempted
  <1>9. ConnectorTypes'
    BY <1>1, <1>5, <1>6, <1>8 DEF ConnectorInv, ConnectorTypes, HandleClose,
       history, Appended, Attempted
  <1>10. CallInv'
    BY <1>3, <1>6 DEF ConnectorInv, CallInv, HandleClose, history
  <1>11. PhaseInv'
    BY <1>1 DEF ConnectorInv, PhaseInv, HandleClose
  <1>12. OneAttempt'
    BY <1>1, <1>2, <1>3, <1>5, <1>6, <1>8 DEF ConnectorInv, OneAttempt, Pending,
       Connecting, HandleClose, Appended, Attempted
  <1>13. EventInv'
    BY <1>1, <1>5, <1>8 DEF EventInv, Pending, Connecting, HandleClose,
       Appended, Attempted
  <1>14. DestroyInv'
    BY <1>1, <1>2, <1>3, <1>5, <1>8 DEF ConnectorInv, DestroyInv, Pending,
       Connecting, HandleClose, Appended, Attempted
  <1>15. SocketInv'
    BY <1>3, <1>5, <1>8 DEF ConnectorInv, SocketInv, Connecting, HandleClose,
       Appended, Attempted
  <1>16. GoingInv'
    BY <1>8 DEF GoingInv, Connecting, HandleClose, Attempted
  <1> QED  BY <1>9, <1>10, <1>11, <1>12, <1>13, <1>14, <1>15, <1>16 DEF
              ConnectorInv


\* removeConnection, when it is not.
LEMMA HandleCloseEnds ==
  ASSUME ConnectorInv, ~(retry /\ wanted), HandleClose
  PROVE  ConnectorInv'
  <1>1. /\ phase = "dispatch" /\ connection # None /\ connection \in Sockets /\ ~Connecting
        /\ timers = 0 /\ active # {} /\ active' = {} /\ registered = {}
        /\ state \in {"kDisconnected", "kConnected"} /\ ~Pending("resetChannel")
    <2>1. phase = "dispatch" /\ "close" \in active /\ active' = active \ {"close"}
      BY DEF HandleClose, Handling
    <2>2. connection # None /\ connection \in Sockets
      BY <2>1 DEF ConnectorInv, ConnectorTypes, EventInv
    <2>3. ~Connecting /\ timers = 0
      BY <2>2 DEF ConnectorInv, ConnectorTypes, OneAttempt
    <2>4. /\ registered = {} /\ ~Pending("resetChannel")
          /\ state \in {"kDisconnected", "kConnected"}
      BY <2>1, <2>3 DEF ConnectorInv, ConnectorTypes, EventInv, Connecting
    <2>5. "timer" \notin active /\ "error" \notin active /\ "write" \notin active
      BY <2>3 DEF ConnectorInv, EventInv
    <2>6. active' = {}
      BY <2>1, <2>5 DEF ConnectorInv, ConnectorTypes
    <2> QED  BY <2>1, <2>2, <2>3, <2>4, <2>6
  <1>2. Args(functors) = {} /\ Args(batch) = {} /\ ~Pending("connectDestroyed") /\ batch = <<>>
    BY <1>1, NoneDying DEF ConnectorInv, DestroyInv, PhaseInv, Pending
  <1>3. attempts > 0 /\ connId > 1 /\ Open(sock) = {connection} /\ called
    BY <1>1, <1>2, BeforeFirst DEF ConnectorInv, ConnectorTypes, SocketInv,
       GoingInv, CallInv
  <1>4. /\ Fn("connectDestroyed", connection) \in Functor
        /\ Fn("connectDestroyed", connection).fn = "connectDestroyed"
        /\ Fn("connectDestroyed", connection).arg = connection
    BY <1>1 DEF Fn, Functor
  <1>5. Appended("connectDestroyed") /\ Args(functors') = Args(functors) \cup {connection}
    BY <1>4, QueueAppend DEF ConnectorInv, ConnectorTypes, HandleClose, Appended
  <1>6. ConnectorTypes'
    BY <1>1, <1>5 DEF ConnectorInv, ConnectorTypes, HandleClose, history,
       Appended
  <1>7. CallInv'
    BY <1>3 DEF ConnectorInv, CallInv, HandleClose, history
  <1>8. PhaseInv'
    BY <1>1 DEF ConnectorInv, PhaseInv, HandleClose
  <1>9. OneAttempt'
    BY <1>5 DEF ConnectorInv, OneAttempt, Pending, Connecting, HandleClose,
       Appended
  <1>10. EventInv'
    BY <1>1, <1>3 DEF EventInv, Connecting, HandleClose
  <1>11. DestroyInv'
    BY <1>1, <1>5 DEF ConnectorInv, DestroyInv, Pending, Connecting,
       HandleClose, Appended
  <1>12. SocketInv'
    BY <1>3, <1>5 DEF ConnectorInv, SocketInv, Connecting, HandleClose, Appended
  <1>13. GoingInv'
    BY <1>3 DEF GoingInv, HandleClose
  <1> QED  BY <1>6, <1>7, <1>8, <1>9, <1>10, <1>11, <1>12, <1>13 DEF
              ConnectorInv

\* Every step keeps it.
LEMMA NextConnector == ConnectorInv /\ [Next]_vars => ConnectorInv'
  <1> SUFFICES ASSUME ConnectorInv, [Next]_vars PROVE ConnectorInv'
    OBVIOUS
  <1>1. CASE ClientConnect  BY <1>1, ClientConnectStep
  <1>2. CASE ThreadConnect  BY <1>2, ThreadConnectStep
  <1>3. CASE ClientStop  BY <1>3, ClientStopStep
  <1>4. CASE ClientDisconnect  BY <1>4, ClientDisconnectStep
  <1>5. CASE Poll  BY <1>5, PollStep
  <1>6. CASE HandleTimer  BY <1>6, HandleTimerTries, HandleTimerDrops
  <1>7. CASE HandleError  BY <1>7, HandleErrorStep
  <1>8. CASE HandleWrite
    BY <1>8, HandleWriteRetries, HandleWriteConnects, HandleWriteCloses
  <1>9. CASE HandleClose  BY <1>9, HandleCloseRestarts, HandleCloseEnds
  <1>10. CASE SwapFunctors  BY <1>10, SwapFunctorsStep
  <1>11. CASE RunStartInLoop  BY <1>11, RunStartInLoopTries, RunStartInLoopDrops
  <1>12. CASE RunResetChannel  BY <1>12, RunResetChannelStep
  <1>13. CASE RunConnectDestroyed  BY <1>13, RunConnectDestroyedStep
  <1>14. CASE FinishFunctors  BY <1>14, FinishFunctorsStep
  <1>15. ASSUME NEW s \in Sockets, SocketChanges(s) PROVE ConnectorInv'
    BY <1>15, SocketChangesStep
  <1>16. CASE UNCHANGED vars
    BY <1>16 DEF vars, ConnectorInv, ConnectorTypes, CallInv, PhaseInv,
       OneAttempt,
                 EventInv, DestroyInv, SocketInv, GoingInv, Pending, Connecting
  <1> QED  BY <1>1, <1>2, <1>3, <1>4, <1>5, <1>6, <1>7, <1>8, <1>9, <1>10,
              <1>11,
              <1>12, <1>13, <1>14, <1>15, <1>16 DEF Next

\* Every channel the poller keeps or reports an event of is the connector's, and every
\* open socket has exactly one owner, through any number of failures, retries and
\* reconnects (connecting, removeAndResetChannel, resetChannel, handleWrite, retry,
\* removeConnection).
THEOREM EverythingIsOwned == Spec => []Owned
  BY InitConnector, NextConnector, ImpliesOwned, PTL DEF Spec

\* A client that wants a connection and has none is about to try, by an event, a timer
\* or a functor (retry, handleWrite, restart).
THEOREM NeverStuck == Spec => []NotStuck
  BY InitConnector, NextConnector, ImpliesNotStuck, PTL DEF Spec

\* After stop() no attempt is made and no connection is handed over, whatever was under
\* way (stop, startInLoop, handleWrite, removeConnection).
THEOREM StopStaysFinal == Spec => StopIsFinal
  <1>1. ConnectorInv /\ [Next]_vars
        => [stopped => attempts' = attempts /\ connection' \in {connection, None}]_vars
    <2> SUFFICES ASSUME ConnectorInv, Next, stopped
                 PROVE  attempts' = attempts /\ connection' \in {connection, None}
      BY DEF vars
    <2>1. ~connect /\ ~wanted /\ called
      BY DEF ConnectorInv, CallInv
    <2>2. CASE HandleTimer \/ RunStartInLoop
      BY <2>1, <2>2 DEF HandleTimer, RunStartInLoop, RunFunctor, startInLoop,
         client
    <2>3. CASE HandleWrite
      BY <2>1, <2>3 DEF HandleWrite
    <2>4. CASE HandleClose
      BY <2>1, <2>4 DEF HandleClose
    <2>5. ~ClientConnect /\ ~ThreadConnect /\ ~ClientStop
      BY <2>1 DEF ClientConnect, ThreadConnect, ClientStop
    <2>6. CASE ClientDisconnect \/ Poll \/ HandleError \/ SwapFunctors \/ FinishFunctors
      BY <2>6 DEF ClientDisconnect, Poll, HandleError, SwapFunctors,
         FinishFunctors, client
    <2>7. CASE RunResetChannel \/ RunConnectDestroyed
      BY <2>7 DEF RunResetChannel, RunConnectDestroyed, RunFunctor, client
    <2>8. CASE \E s \in Sockets : SocketChanges(s)
      BY <2>8 DEF SocketChanges, client
    <2> QED  BY <2>2, <2>3, <2>4, <2>5, <2>6, <2>7, <2>8 DEF Next
  <1> QED  BY <1>1, InitConnector, NextConnector, PTL DEF Spec, StopIsFinal
=============================================================================
