----------------------------- MODULE TcpServer -----------------------------
(***************************************************************************)
(* TcpServer and its Acceptor (src/src/net/) over the I/O threads of       *)
(* EventLoopThreadPoll: several connections on several loops, from the     *)
(* listening socket to the release of their descriptors.                   *)
(*                                                                         *)
(* A connection is here what the server sees of it: _state, the entry of   *)
(* its channel in the poller of its loop, and the references to it in      *)
(* _connections and in queued functors; TcpConnection has its inside.      *)
(* ~TcpServer runs in the base thread after the base loop has returned,    *)
(* which outlives it, as in example/example.cc.                            *)
(***************************************************************************)
EXTENDS EventLoopThreadPoll, Sequences, FiniteSets

CONSTANTS MaxConns,  \* bound: clients that connect
          MaxFds     \* descriptors there are for connections (RLIMIT_NOFILE)

ASSUME ServerAssumption == MaxConns \in Nat /\ MaxFds \in Nat \ {0}

Conns == 1 .. MaxConns
Loops == 0 .. MaxThreads   \* 0 is the base loop

VARIABLES
  listening,  \* Acceptor's _listening
  arrived,    \* kernel: clients that have connected; they are numbered
  accepted,   \* _nextConnId - 1: clients accept has returned
  closed,     \* kernel: clients that have closed their end
  state,      \* _state of each connection
  home,       \* its loop
  channel,    \* its channel is in the poller of that loop
  inMap,      \* _connections
  queue,      \* _pendingFunctors of each loop, with the batch being run
  batch,      \* how many of them are the rest of that batch
  dying       \* ~TcpServer has begun

serverVars == <<listening, arrived, accepted, closed, state, home, channel,
                inMap, queue, batch, dying>>
vars == <<poolVars, serverVars>>

Functor(name, c) == [fn |-> name, conn |-> c]

\* the references to a connection: it lives as long as there is one
Held(c) == \/ c \in inMap
           \/ \E l \in Loops : \E k \in DOMAIN queue[l] : queue[l][k].conn = c

Init == /\ PoolInit
        /\ listening = FALSE /\ arrived = 0 /\ accepted = 0 /\ closed = {}
        /\ state = [c \in Conns |-> "none"]
        /\ home = [c \in Conns |-> 0]
        /\ channel = [c \in Conns |-> FALSE]
        /\ inMap = {}
        /\ queue = [l \in Loops |-> <<>>]
        /\ batch = [i \in Threads |-> 0]
        /\ dying = FALSE

\* the base thread is in the base loop
Serving == ppc = "serve" /\ listening /\ ~dying

-----------------------------------------------------------------------------
(* Clients.                                                                *)

ClientConnects == /\ listening /\ ~dying /\ arrived < MaxConns
                  /\ arrived' = arrived + 1
                  /\ UNCHANGED <<poolVars, listening, accepted, closed, state,
                                 home, channel, inMap, queue, batch, dying>>

ClientCloses(c) == /\ c <= arrived /\ c \notin closed
                   /\ closed' = closed \cup {c}
                   /\ UNCHANGED <<poolVars, listening, arrived, accepted, state,
                                  home, channel, inMap, queue, batch, dying>>

-----------------------------------------------------------------------------
(* The base thread starts the server and accepts.                          *)

\* start goes on from the pool to Acceptor::listen
Listen == /\ ppc = "serve" /\ ~listening
          /\ listening' = TRUE
          /\ UNCHANGED <<poolVars, arrived, accepted, closed, state, home,
                         channel, inMap, queue, batch, dying>>

\* queueInLoop
Queue(l, f) == /\ queue' = [queue EXCEPT ![l] = Append(@, f)]
               /\ Wake(l)

\* connectEstablished
Establish(c) == /\ state' = [state EXCEPT ![c] = "kConnected"]
                /\ channel' = [channel EXCEPT ![c] = TRUE]

Free == MaxFds - Cardinality({c \in 1 .. accepted : Held(c)})

\* newConnection; runInLoop of a connection of the base loop is a call
NewConnection(c) ==
  /\ Advance
  /\ home' = [home EXCEPT ![c] = NextLoop]
  /\ inMap' = inMap \cup {c}
  /\ IF NextLoop = 0
       THEN Establish(c) /\ UNCHANGED <<queue, wakeupFd>>
       ELSE /\ Queue(NextLoop, Functor("connectEstablished", c))
            /\ state' = [state EXCEPT ![c] = "kConnecting"]
            /\ UNCHANGED channel

\* Acceptor::handleRead takes one client, if accept4 finds a descriptor; with
\* EMFILE nothing changes and the next poll reports the socket again
HandleRead ==
  /\ Serving /\ accepted < arrived /\ Free > 0
  /\ accepted' = accepted + 1
  /\ NewConnection(accepted + 1)
  /\ UNCHANGED <<numThreads, ppc, cur, loops, tpc, loop, lock, notified, quit,
                 missed, listening, arrived, closed, batch, dying>>

-----------------------------------------------------------------------------
(* A loop handles events and runs functors.                                *)

\* the loop of c may be in a handler of its channel
Handles(c) == /\ channel[c]
              /\ IF home[c] = 0 THEN Serving ELSE tpc[home[c]] = "poll"

\* of the base loop a functor is taken when it runs; an I/O loop swaps the
\* queue for a batch first (SwapFunctors)
Runs(l) == /\ IF l = 0 THEN Serving ELSE tpc[l] = "functors" /\ batch[l] > 0
           /\ queue[l] # <<>>

\* the functor that runs, and what is left behind it
Taken(l) == /\ queue' = [queue EXCEPT ![l] = Tail(@)]
            /\ batch' = IF l = 0 THEN batch ELSE [batch EXCEPT ![l] = @ - 1]

\* shutdown in a callback of the user; the client answers by closing or does not
Shutdown(c) == /\ Handles(c)
               /\ state[c] = "kConnected"
               /\ state' = [state EXCEPT ![c] = "kDisconnecting"]
               /\ UNCHANGED <<poolVars, listening, arrived, accepted, closed, home,
                              channel, inMap, queue, batch, dying>>

\* the close callback, removeConnection: from the base loop it is a call of
\* removeConnectionInLoop, which any other loop queues there
RemoveConnection(c) ==
  IF home[c] = 0
    THEN /\ inMap' = inMap \ {c}
         /\ Queue(0, Functor("connectDestroyed", c))
    ELSE /\ Queue(0, Functor("removeConnectionInLoop", c))
         /\ UNCHANGED inMap

\* mutant: handleClose leaves _state as it is, until the connection is taken out
HandleCloseUnset(c) ==
  /\ Handles(c)
  /\ state[c] \in {"kConnected", "kDisconnecting"} /\ c \in closed /\ c \in inMap
  /\ RemoveConnection(c)
  /\ UNCHANGED <<startVars, ppc, cur, tpc, loop, quit, missed, listening, arrived,
                 accepted, closed, state, home, channel, batch, dying>>

\* handleRead of the connection gets 0, or handleEvent a hangup: handleClose
HandleClose(c) ==
  /\ Handles(c)
  /\ state[c] \in {"kConnected", "kDisconnecting"} /\ c \in closed
  /\ state' = [state EXCEPT ![c] = "kDisconnected"]
  /\ RemoveConnection(c)
  /\ UNCHANGED <<startVars, ppc, cur, tpc, loop, quit, missed, listening, arrived,
                 accepted, closed, home, channel, batch, dying>>

ConnectEstablished(l) ==
  /\ Runs(l) /\ Head(queue[l]).fn = "connectEstablished"
  /\ Establish(Head(queue[l]).conn)
  /\ Taken(l)
  /\ UNCHANGED <<poolVars, listening, arrived, accepted, closed, home, inMap,
                 dying>>

\* mutant: connectDestroyed leaves the channel in the poller
DestroyKeeping(c) ==
  /\ state' = [state EXCEPT ![c] = IF @ = "kConnected" THEN "kDisconnected" ELSE @]
  /\ UNCHANGED channel

\* connectDestroyed: reported down if kConnected, and out of the poller
Destroy(c) ==
  /\ state' = [state EXCEPT ![c] = IF @ = "kConnected" THEN "kDisconnected" ELSE @]
  /\ channel' = [channel EXCEPT ![c] = FALSE]

ConnectDestroyed(l) ==
  /\ Runs(l) /\ Head(queue[l]).fn = "connectDestroyed"
  /\ Destroy(Head(queue[l]).conn)
  /\ Taken(l)
  /\ UNCHANGED <<poolVars, listening, arrived, accepted, closed, home, inMap,
                 dying>>

\* mutant: removeConnectionInLoop does not find the connection by its name
RemoveConnectionKeeping ==
  /\ Runs(0) /\ Head(queue[0]).fn = "removeConnectionInLoop"
  /\ LET c == Head(queue[0]).conn
         l == home[c]
     IN /\ queue' = [queue EXCEPT ![0] = Tail(@),
                                  ![l] = Append(@, Functor("connectDestroyed", c))]
        /\ Wake(l)
  /\ UNCHANGED <<startVars, ppc, cur, tpc, loop, quit, missed, listening, arrived,
                 accepted, closed, state, home, channel, inMap, batch, dying>>

\* removeConnectionInLoop, for a connection of another loop
RemoveConnectionInLoop ==
  /\ Runs(0) /\ Head(queue[0]).fn = "removeConnectionInLoop"
  /\ LET c == Head(queue[0]).conn
         l == home[c]
     IN /\ inMap' = inMap \ {c}
        /\ queue' = [queue EXCEPT ![0] = Tail(@),
                                  ![l] = Append(@, Functor("connectDestroyed", c))]
        /\ Wake(l)
  /\ UNCHANGED <<startVars, ppc, cur, tpc, loop, quit, missed, listening, arrived,
                 accepted, closed, state, home, channel, batch, dying>>

-----------------------------------------------------------------------------
(* Passes of an I/O loop, and its end.                                     *)

SwapFunctors(i) == /\ PollWakeup(i) \/ PollOther(i)
                   /\ batch' = [batch EXCEPT ![i] = Len(queue[i])]
                   /\ UNCHANGED <<listening, arrived, accepted, closed, state,
                                  home, channel, inMap, queue, dying>>

BatchDone(i) == batch[i] = 0 /\ EndPass(i) /\ UNCHANGED serverVars

\* the loop is destroyed with its poller and what is left in its queue
LeaveLoop(i) == /\ Leave(i)
                /\ queue' = [queue EXCEPT ![i] = <<>>]
                /\ channel' = [c \in Conns |-> channel[c] /\ home[c] # i]
                /\ UNCHANGED <<listening, arrived, accepted, closed, state, home,
                               inMap, batch, dying>>

-----------------------------------------------------------------------------
(* ~TcpServer.                                                             *)

\* the base loop has returned
BeginDtor == /\ Serving
             /\ dying' = TRUE
             /\ UNCHANGED <<poolVars, listening, arrived, accepted, closed, state,
                            home, channel, inMap, queue, batch>>

\* one turn of the destructor's loop over _connections, in no given order
DtorItem(c) ==
  /\ dying /\ c \in inMap
  /\ inMap' = inMap \ {c}
  /\ IF home[c] = 0
       THEN Destroy(c) /\ UNCHANGED <<queue, wakeupFd>>
       ELSE /\ Queue(home[c], Functor("connectDestroyed", c))
            /\ UNCHANGED <<state, channel>>
  /\ UNCHANGED <<startVars, ppc, cur, tpc, loop, quit, missed, listening, arrived,
                 accepted, closed, home, batch, dying>>

\* the members are destroyed, the pool with its threads among them
EndDtor == dying /\ inMap = {} /\ DestroyPool /\ UNCHANGED serverVars

\* the base loop is destroyed with what is left in its queue
DestroyBaseLoop == /\ ppc = "gone" /\ queue[0] # <<>>
                   /\ queue' = [queue EXCEPT ![0] = <<>>]
                   /\ channel' = [c \in Conns |-> channel[c] /\ home[c] # 0]
                   /\ UNCHANGED <<poolVars, listening, arrived, accepted, closed,
                                  state, home, inMap, batch, dying>>

-----------------------------------------------------------------------------
PoolStep == BaseStep /\ UNCHANGED serverVars

BaseLoopStep == \/ PoolStep \/ Listen \/ HandleRead \/ RemoveConnectionInLoop
                \/ ConnectDestroyed(0) \/ EndDtor \/ DestroyBaseLoop
                \/ \E c \in Conns : DtorItem(c)

ThreadStart(i) == /\ ThreadInit(i) \/ Publish(i) \/ EnterLoop(i) \/ CheckQuit(i)
                  /\ UNCHANGED serverVars

LoopStep(i) == \/ ThreadStart(i) \/ BatchDone(i) \/ LeaveLoop(i)
               \/ ConnectEstablished(i) \/ ConnectDestroyed(i)
               \/ wakeupFd[i] /\ SwapFunctors(i)

Next == \/ BaseLoopStep
        \/ SpuriousWakeup /\ UNCHANGED serverVars
        \/ ClientConnects \/ BeginDtor
        \/ \E c \in Conns : ClientCloses(c) \/ Shutdown(c) \/ HandleClose(c)
        \/ \E i \in Threads : LoopStep(i) \/ SwapFunctors(i)

\* Every thread runs; a poll reports a closed connection again and again until
\* it is handled, and so does the listening socket with a client that waits.
\* Clients need not come or close, and nobody need destroy the server.
Fairness == /\ WF_vars(BaseLoopStep)
            /\ \A i \in Threads : SF_vars(LoopStep(i))
            /\ SF_vars(\E c \in Conns : HandleClose(c))

Spec == Init /\ [][Next]_vars /\ Fairness

-----------------------------------------------------------------------------
(* Properties.                                                             *)

TypeOK == /\ PoolTypeOK
          /\ listening \in BOOLEAN /\ dying \in BOOLEAN
          /\ arrived \in 0 .. MaxConns /\ accepted \in 0 .. arrived
          /\ closed \subseteq 1 .. arrived
          /\ state \in [Conns -> {"none", "kConnecting", "kConnected",
                                  "kDisconnecting", "kDisconnected"}]
          /\ home \in [Conns -> Loops]
          /\ channel \in [Conns -> BOOLEAN]
          /\ inMap \subseteq 1 .. accepted
          /\ DOMAIN queue = Loops
          /\ \A l \in Loops : queue[l] \in Seq([fn : STRING, conn : Conns])
          /\ batch \in [Threads -> Nat]

\* When the last reference to a connection goes and its descriptor is closed, no
\* poller has its channel any more and the user has been told that it is down.
\* Only ~TcpServer may leave one unreported: a connection that was shutting down,
\* or one whose loop ends on quit() before it gets to connectDestroyed
\* (removeConnectionInLoop, connectDestroyed, ~TcpServer).
FreedClean ==
  \A c \in 1 .. accepted :
    ~Held(c) => /\ ~channel[c]
                /\ \/ state[c] = "kDisconnected"
                   \/ dying /\ state[c] = "kDisconnecting"
                   \/ dying /\ home[c] # 0 /\ tpc[home[c]] = "done"

Stage(c) == CASE c > accepted -> "waiting"
              [] c <= accepted /\ ~Held(c) -> "released"
              [] OTHER -> CASE state[c] = "kConnecting" -> "accepted"
                            [] state[c] \in {"kConnected", "kDisconnecting"} -> "up"
                            [] OTHER -> "down"

TheService == INSTANCE Service WITH stage <- [c \in Conns |-> Stage(c)],
                                    closing <- dying

\* The server gives its clients the service they are promised: in their turn,
\* never more than there are descriptors, up once and down once (newConnection,
\* removeConnection, connectEstablished, connectDestroyed).
ImplementsService == TheService!Spec

\* Connections that have gone down get their descriptors released, through three
\* loops or through ~TcpServer, unless that waits for a thread whose loop missed
\* its quit() (removeConnection, removeConnectionInLoop, connectDestroyed).
Released ==
  []<>(\/ missed # {}
       \/ \A c \in 1 .. accepted : state[c] = "kDisconnected" => ~Held(c))

\* start() returns, and if clients that were accepted close in the end, every
\* client is accepted in the end, however many have to wait for a descriptor
\* (startLoop, listen, handleRead with EMFILE).
AllServed ==
  /\ <>listening
  /\ []<>(1 .. accepted \subseteq closed) => []<>(accepted = arrived \/ dying)
=============================================================================
