--------------------------- MODULE TcpConnection ---------------------------
(***************************************************************************)
(* One TcpConnection of a TcpServer (src/src/net/TcpConnection.cc), with   *)
(* its Channel, the entry of that channel in EpollPoller and the way the   *)
(* server lets go of it.                                                   *)
(*                                                                         *)
(* Three parties act:                                                      *)
(*  - the I/O loop: dispatches the channel's events in the order of        *)
(*    Channel::handleEventWithGuard and runs queued functors in the order  *)
(*    of submission (FunctorQueue, which EventLoop implements).  User code *)
(*    in its callbacks, timers and functors calls send, shutdown and       *)
(*    forceClose;                                                          *)
(*  - other threads, which call the same three operations; there the test  *)
(*    of _state, the assignment and the queueInLoop are separate steps;    *)
(*  - the base loop, which runs removeConnectionInLoop and ~TcpServer.     *)
(* The kernel's end of the socket and the peer are external.               *)
(*                                                                         *)
(* The application is taken to keep its TcpConnectionPtr for as long as it *)
(* calls, and to ignore SIGPIPE.                                           *)
(***************************************************************************)
EXTENDS Integers, Sequences

CONSTANTS IoOps,       \* what user code in the I/O loop may call
          ForeignOps,  \* what the other threads may call
          Thread,      \* the other threads
          ServerDies,  \* whether ~TcpServer may run
          HighWater,   \* _highWaterMark, in bytes
          MaxChunk,    \* bound: bytes per send
          MaxCalls,    \* bound: calls of user code in total
          MaxInbound   \* bound: messages from the peer

Ops == {"send", "shutdown", "forceClose"}

ASSUME OpsAssumption == IoOps \subseteq Ops /\ ForeignOps \subseteq Ops
ASSUME BoundsAssumption == /\ ServerDies \in BOOLEAN
                           /\ HighWater \in Nat \ {0}
                           /\ MaxChunk \in Nat /\ MaxCalls \in Nat
                           /\ MaxInbound \in Nat

VARIABLES
  state,      \* _state
  events,     \* _channel's _events, a subset of {"R", "W"}
  idx,        \* _channel's _index in EpollPoller
  outBuf,     \* readable bytes of _outputBuffer
  pc,         \* where the I/O thread is (see IoPC)
  revents,    \* what is left of _revents to handle in handleEventWithGuard
  queue,      \* functors queued in the I/O loop
  fpc,        \* where each other thread is in its call
  removals,   \* removeConnectionInLoop functors pending in the base loop
  inMap,      \* the server's _connections holds the connection
  server,     \* "alive" or "dead"
  wire,       \* kernel: bytes taken by write(), in order
  shut,       \* kernel: shutdown(SHUT_WR) was called
  peer,       \* kernel: "open", "fin" or "rst" as received from the peer
  soErr,      \* kernel: a pending socket error
  inbound,    \* kernel: unread messages of the peer
  accepted,   \* history: bytes sendInLoop has taken, numbered from 1
  ups, downs, \* history: connectionCallback up and down
  destroyed,  \* history: connectDestroyed has run
  calls, arrived   \* consumption of the bounds MaxCalls and MaxInbound

connVars == <<state, events, idx, outBuf>>
loopVars == <<pc, revents, queue>>
baseVars == <<removals, inMap, server>>
sockVars == <<wire, shut, peer, soErr, inbound>>
histVars == <<accepted, ups, downs, destroyed, calls, arrived>>
vars == <<connVars, loopVars, fpc, baseVars, sockVars, histVars>>

\* loop: in the loop, between handlers or inside user code that is none of the
\* callbacks below; up, message: in those callbacks; closing: in the callback of
\* handleClose; destroying: in the callback of connectDestroyed
IoPC == {"loop", "up", "message", "closing", "destroying"}

ForeignPC == {"idle", "send", "shutdown", "queueShutdown", "forceClose",
              "queueForceClose"}

Functor(name, n) == [fn |-> name, len |-> n]

FunctorNames == {"connectEstablished", "sendInLoop", "shutdownInLoop",
                 "forceCloseInLoop", "writeComplete", "highWater",
                 "connectDestroyed"}

Item == [fn : FunctorNames, len : Nat]

Bytes(m, n) == [i \in 1 .. n |-> m + i]

\* TcpServer::newConnection has made the connection, put it in _connections and
\* queued connectEstablished
Init == /\ state = "kConnecting" /\ events = {} /\ idx = "kNew"
        /\ outBuf = <<>>
        /\ pc = "loop" /\ revents = {}
        /\ queue = <<Functor("connectEstablished", 0)>>
        /\ fpc = [t \in Thread |-> "idle"]
        /\ removals = 0 /\ inMap = TRUE /\ server = "alive"
        /\ wire = <<>> /\ shut = FALSE /\ peer = "open" /\ soErr = FALSE
        /\ inbound = 0
        /\ accepted = 0 /\ ups = 0 /\ downs = 0 /\ destroyed = FALSE
        /\ calls = 0 /\ arrived = 0

-----------------------------------------------------------------------------
(* Channel and EpollPoller.                                                *)

isWriting == "W" \in events

\* Channel::enable.../disable... followed by EpollPoller::updateChannel: a
\* channel that is not in the epoll set is added, even with no events
UpdateChannel(ev) ==
  /\ events' = ev
  /\ idx' = IF idx = "kAdded" /\ ev = {} THEN "kDeleted" ELSE "kAdded"

-----------------------------------------------------------------------------
(* Operations of the connection that several handlers share.               *)

\* write() of n bytes takes any number of them; none if it would block or fails
WriteTakes(n) == IF shut \/ peer = "rst" THEN {0} ELSE 0 .. n

\* mutant: sendInLoop writes directly even with output waiting in the buffer
SendOvertaking(n, q) ==
  /\ queue' = q
  /\ IF state = "kDisconnected"
       THEN UNCHANGED <<events, idx, outBuf, wire, soErr, accepted>>
       ELSE /\ \E k \in WriteTakes(n) :
                 LET data == Bytes(accepted, n)
                 IN /\ wire' = wire \o SubSeq(data, 1, k)
                    /\ outBuf' = outBuf \o SubSeq(data, k + 1, n)
                    /\ IF k < n THEN UpdateChannel(events \cup {"W"})
                                ELSE UNCHANGED <<events, idx>>
            /\ accepted' = accepted + n
            /\ UNCHANGED soErr

\* mutant: sendInLoop buffers without enableWriting
SendUnarmed(n, q) ==
  /\ queue' = q
  /\ outBuf' = IF state = "kDisconnected" THEN outBuf
                                          ELSE outBuf \o Bytes(accepted, n)
  /\ accepted' = IF state = "kDisconnected" THEN accepted ELSE accepted + n
  /\ UNCHANGED <<events, idx, wire, soErr>>

\* mutant: sendInLoop without the test for kDisconnected
SendDisconnected(n, q) ==
  /\ queue' = q
  /\ outBuf' = outBuf \o Bytes(accepted, n)
  /\ accepted' = accepted + n
  /\ IF isWriting THEN UNCHANGED <<events, idx>>
                  ELSE UpdateChannel(events \cup {"W"})
  /\ UNCHANGED <<wire, soErr>>

\* only with nothing buffered and no write awaited does sendInLoop write itself
Direct == ~isWriting /\ outBuf = <<>>

\* sendInLoop for n bytes of which its own write takes k: the rest is buffered,
\* and watched for EPOLLOUT; q is the queue the user's callbacks are appended to.
\* A write error is treated as a short write: faultError is never set.
SendTaking(n, q, k) ==
  LET data == Bytes(accepted, n)
      rest == SubSeq(data, k + 1, n)
      high == /\ k < n
              /\ Len(outBuf) + Len(rest) >= HighWater
              /\ Len(outBuf) < HighWater
  IN /\ wire' = wire \o SubSeq(data, 1, k)
     /\ outBuf' = outBuf \o rest
     /\ accepted' = accepted + n
     /\ soErr' = (soErr /\ ~Direct)
     /\ queue' = q \o (IF k = n THEN <<Functor("writeComplete", 0)>> ELSE <<>>)
                   \o (IF high THEN <<Functor("highWater", 0)>> ELSE <<>>)
     /\ IF k < n /\ ~isWriting THEN UpdateChannel(events \cup {"W"})
                               ELSE UNCHANGED <<events, idx>>

SendInLoop(n, q) ==
  \/ /\ state = "kDisconnected"
     /\ queue' = q
     /\ UNCHANGED <<events, idx, outBuf, wire, soErr, accepted>>
  \/ /\ state # "kDisconnected"
     /\ \E k \in (IF Direct THEN WriteTakes(n) ELSE {0}) : SendTaking(n, q, k)

\* mutant: shutdownInLoop does not wait for the output
ShutdownAtOnce == shut' = TRUE

\* shutdownInLoop: the FIN waits until the output buffer has been written
ShutdownInLoop == shut' = (shut \/ ~isWriting)

\* handleClose up to the call of connectionCallback
HandleClose == /\ state' = "kDisconnected"
               /\ UpdateChannel({})
               /\ downs' = downs + 1
               /\ pc' = "closing"

-----------------------------------------------------------------------------
(* User code in the I/O loop.                                              *)

UserCode == pc = "loop" => revents = {}

Call == calls < MaxCalls /\ calls' = calls + 1

\* send in the loop thread
IoSend == /\ "send" \in IoOps /\ UserCode /\ Call
          /\ state = "kConnected"
          /\ \E n \in 1 .. MaxChunk : SendInLoop(n, queue)
          /\ UNCHANGED <<state, pc, revents, fpc, baseVars, shut, peer, inbound,
                         ups, downs, destroyed, arrived>>

\* shutdown in the loop thread: runInLoop calls shutdownInLoop on the spot
IoShutdown == /\ "shutdown" \in IoOps /\ UserCode /\ Call
              /\ state = "kConnected"
              /\ state' = "kDisconnecting"
              /\ ShutdownInLoop
              /\ UNCHANGED <<events, idx, outBuf, loopVars, fpc, baseVars, wire,
                             peer, soErr, inbound, accepted, ups, downs,
                             destroyed, arrived>>

\* forceClose always goes through the queue
IoForceClose == /\ "forceClose" \in IoOps /\ UserCode /\ Call
                /\ state \in {"kConnected", "kDisconnecting"}
                /\ state' = "kDisconnecting"
                /\ queue' = Append(queue, Functor("forceCloseInLoop", 0))
                /\ UNCHANGED <<events, idx, outBuf, pc, revents, fpc, baseVars,
                               sockVars, accepted, ups, downs, destroyed,
                               arrived>>

-----------------------------------------------------------------------------
(* Other threads: test _state, assign it, queue.                           *)

ForeignStep(t, from, to) == fpc[t] = from /\ fpc' = [fpc EXCEPT ![t] = to]

\* send, shutdown and forceClose: the test of _state
ForeignCheck(t) ==
  /\ Call
  /\ \E op \in ForeignOps :
       /\ ForeignStep(t, "idle", op)
       /\ \/ state = "kConnected"
          \/ op = "forceClose" /\ state = "kDisconnecting"
  /\ UNCHANGED <<connVars, loopVars, baseVars, sockVars, accepted, ups, downs,
                 destroyed, arrived>>

ForeignQueue(t, from, f) ==
  /\ ForeignStep(t, from, "idle")
  /\ queue' = Append(queue, f)
  /\ UNCHANGED <<connVars, pc, revents, baseVars, sockVars, histVars>>

ForeignSend(t) ==
  \E n \in 1 .. MaxChunk : ForeignQueue(t, "send", Functor("sendInLoop", n))

\* setState(kDisconnecting), whatever the state has become since the test
ForeignSet(t) ==
  /\ \/ ForeignStep(t, "shutdown", "queueShutdown")
     \/ ForeignStep(t, "forceClose", "queueForceClose")
  /\ state' = "kDisconnecting"
  /\ UNCHANGED <<events, idx, outBuf, loopVars, baseVars, sockVars, histVars>>

ForeignEnqueue(t) ==
  \/ ForeignSend(t)
  \/ ForeignQueue(t, "queueShutdown", Functor("shutdownInLoop", 0))
  \/ ForeignQueue(t, "queueForceClose", Functor("forceCloseInLoop", 0))

-----------------------------------------------------------------------------
(* The I/O loop runs a functor.                                            *)

Run(name) == /\ pc = "loop" /\ revents = {}
             /\ queue # <<>>
             /\ Head(queue).fn = name

ConnectEstablished ==
  /\ Run("connectEstablished")
  /\ queue' = Tail(queue)
  /\ state' = "kConnected"
  /\ UpdateChannel(events \cup {"R"})
  /\ ups' = ups + 1
  /\ pc' = "up"
  /\ UNCHANGED <<outBuf, revents, fpc, baseVars, sockVars, accepted, downs,
                 destroyed, calls, arrived>>

RunSendInLoop ==
  /\ Run("sendInLoop")
  /\ SendInLoop(Head(queue).len, Tail(queue))
  /\ UNCHANGED <<state, pc, revents, fpc, baseVars, shut, peer, inbound, ups,
                 downs, destroyed, calls, arrived>>

RunShutdownInLoop ==
  /\ Run("shutdownInLoop")
  /\ queue' = Tail(queue)
  /\ ShutdownInLoop
  /\ UNCHANGED <<connVars, pc, revents, fpc, baseVars, wire, peer, soErr,
                 inbound, histVars>>

\* mutant: forceCloseInLoop without the test of _state
ForceCloseAlways ==
  /\ Run("forceCloseInLoop")
  /\ queue' = Tail(queue)
  /\ HandleClose
  /\ UNCHANGED <<outBuf, revents, fpc, baseVars, sockVars, accepted, ups,
                 destroyed, calls, arrived>>

\* forceCloseInLoop
ForceCloseInLoop ==
  /\ Run("forceCloseInLoop")
  /\ queue' = Tail(queue)
  /\ IF state \in {"kConnected", "kDisconnecting"}
       THEN HandleClose
       ELSE UNCHANGED <<state, events, idx, downs, pc>>
  /\ UNCHANGED <<outBuf, revents, fpc, baseVars, sockVars, accepted, ups,
                 destroyed, calls, arrived>>

\* writeCompleteCallback and highWaterMarkCallback: user code only
RunUserCallback ==
  /\ Run("writeComplete") \/ Run("highWater")
  /\ queue' = Tail(queue)
  /\ UNCHANGED <<connVars, pc, revents, fpc, baseVars, sockVars, histVars>>

\* EpollPoller::removeChannel
RemoveChannel == idx' = "kNew" /\ destroyed' = TRUE

\* connectDestroyed of a connection that is still up reports it down first
ConnectDestroyed ==
  /\ Run("connectDestroyed")
  /\ queue' = Tail(queue)
  /\ IF state = "kConnected"
       THEN /\ state' = "kDisconnected"
            /\ UpdateChannel({})
            /\ downs' = downs + 1
            /\ pc' = "destroying"
            /\ UNCHANGED destroyed
       ELSE RemoveChannel /\ UNCHANGED <<state, events, downs, pc>>
  /\ UNCHANGED <<outBuf, revents, fpc, baseVars, sockVars, accepted, ups,
                 calls, arrived>>

-----------------------------------------------------------------------------
(* The I/O loop returns from a callback.                                   *)

\* from the up callback, or from messageCallback to handleEventWithGuard
ReturnFromCallback ==
  /\ pc \in {"up", "message"}
  /\ pc' = "loop"
  /\ UNCHANGED <<connVars, revents, queue, fpc, baseVars, sockVars, histVars>>

\* handleClose goes on to closeCallback, TcpServer::removeConnection through the
\* server's raw this; on a server that is gone nothing can be said of it
ReturnFromClosing ==
  /\ pc = "closing"
  /\ pc' = "loop"
  /\ removals' = IF server = "alive" THEN removals + 1 ELSE removals
  /\ UNCHANGED <<connVars, revents, queue, fpc, inMap, server, sockVars,
                 histVars>>

\* connectDestroyed goes on to remove the channel
ReturnFromDestroying ==
  /\ pc = "destroying"
  /\ pc' = "loop"
  /\ RemoveChannel
  /\ UNCHANGED <<state, events, outBuf, revents, queue, fpc, baseVars, sockVars,
                 accepted, ups, downs, calls, arrived>>

-----------------------------------------------------------------------------
(* The I/O loop polls and dispatches the channel's events.                 *)

Ready(writable) ==
       (IF "R" \in events /\ (inbound > 0 \/ peer # "open")
          THEN {"IN"} ELSE {})
  \cup (IF isWriting /\ (writable \/ shut \/ peer = "rst")
          THEN {"OUT"} ELSE {})
  \cup (IF soErr THEN {"ERR"} ELSE {})
  \cup (IF peer = "rst" \/ (peer = "fin" /\ shut) THEN {"HUP"} ELSE {})

Poll(writable) ==
  /\ pc = "loop" /\ revents = {}
  /\ idx = "kAdded"
  /\ Ready(writable) # {}
  /\ revents' = Ready(writable)
  /\ UNCHANGED <<connVars, pc, queue, fpc, baseVars, sockVars, histVars>>

\* handleEventWithGuard: e is the next event to look at
Handling(e) == /\ pc = "loop"
               /\ e \in revents
               /\ e # "HUP" => "HUP" \notin revents
               /\ e = "IN" => "ERR" \notin revents
               /\ e = "OUT" => revents = {"OUT"}
               /\ revents' = revents \ {e}

\* mutant: every hang-up closes
OnHupAlways == /\ Handling("HUP")
               /\ HandleClose
               /\ UNCHANGED <<outBuf, queue, fpc, baseVars, sockVars, accepted,
                              ups, destroyed, calls, arrived>>

\* Only a hang-up with nothing to read closes here
OnHup == /\ Handling("HUP")
         /\ IF "IN" \notin revents
              THEN HandleClose
              ELSE UNCHANGED <<state, events, idx, downs, pc>>
         /\ UNCHANGED <<outBuf, queue, fpc, baseVars, sockVars, accepted, ups,
                        destroyed, calls, arrived>>

\* handleError reads SO_ERROR, which clears it, and logs
OnErr == /\ Handling("ERR")
         /\ soErr' = FALSE
         /\ UNCHANGED <<connVars, pc, queue, fpc, baseVars, wire, shut, peer,
                        inbound, histVars>>

\* mutant: handleRead takes the end of the stream for an error
HandleReadNoEof ==
  /\ Handling("IN")
  /\ pc' = IF inbound > 0 THEN "message" ELSE pc
  /\ inbound' = 0
  /\ soErr' = (soErr /\ inbound > 0)
  /\ UNCHANGED <<connVars, queue, fpc, baseVars, wire, shut, peer, histVars>>

\* handleRead: data, then an error, then the end of the stream
HandleRead ==
  /\ Handling("IN")
  /\ \/ /\ inbound > 0
        /\ inbound' = 0
        /\ pc' = "message"
        /\ UNCHANGED <<state, events, idx, downs, soErr>>
     \/ /\ inbound = 0 /\ (soErr \/ peer = "open")
        /\ soErr' = FALSE
        /\ UNCHANGED <<state, events, idx, downs, pc, inbound>>
     \/ /\ inbound = 0 /\ ~soErr /\ peer # "open"
        /\ HandleClose
        /\ UNCHANGED <<soErr, inbound>>
  /\ UNCHANGED <<outBuf, queue, fpc, baseVars, wire, shut, peer, accepted, ups,
                 destroyed, calls, arrived>>

\* mutant: handleWrite forgets the shutdown that waits for it
HandleWriteNoShutdown ==
  /\ Handling("OUT")
  /\ IF isWriting /\ outBuf # <<>> /\ ~shut /\ peer # "rst"
       THEN /\ wire' = wire \o outBuf
            /\ outBuf' = <<>>
            /\ UpdateChannel(events \ {"W"})
       ELSE UNCHANGED <<events, idx, outBuf, wire>>
  /\ UNCHANGED <<state, pc, queue, fpc, baseVars, shut, peer, soErr, inbound,
                 histVars>>

\* mutant: handleWrite stops writing after any successful write
HandleWriteOnce ==
  /\ Handling("OUT")
  /\ IF isWriting /\ outBuf # <<>> /\ ~shut /\ peer # "rst"
       THEN \E n \in 1 .. Len(outBuf) :
              /\ wire' = wire \o SubSeq(outBuf, 1, n)
              /\ outBuf' = SubSeq(outBuf, n + 1, Len(outBuf))
              /\ UpdateChannel(events \ {"W"})
              /\ shut' = (state = "kDisconnecting")
       ELSE UNCHANGED <<events, idx, outBuf, wire, shut>>
  /\ UNCHANGED <<state, pc, queue, fpc, baseVars, peer, soErr, inbound,
                 histVars>>

\* handleWrite: write what fits; when all is written stop writing and do the
\* shutdown that was waiting for it
HandleWrite ==
  /\ Handling("OUT")
  /\ \/ /\ isWriting /\ outBuf # <<>> /\ ~shut /\ peer # "rst"
        /\ \E n \in 1 .. Len(outBuf) :
             LET rest == SubSeq(outBuf, n + 1, Len(outBuf))
             IN /\ wire' = wire \o SubSeq(outBuf, 1, n)
                /\ outBuf' = rest
                /\ IF rest = <<>>
                     THEN /\ UpdateChannel(events \ {"W"})
                          /\ queue' = Append(queue, Functor("writeComplete", 0))
                          /\ shut' = (state = "kDisconnecting")
                     ELSE UNCHANGED <<events, idx, queue, shut>>
        /\ UNCHANGED soErr
     \/ /\ isWriting /\ (outBuf = <<>> \/ shut \/ peer = "rst")
        /\ soErr' = FALSE
        /\ UNCHANGED <<events, idx, outBuf, queue, wire, shut>>
     \/ /\ ~isWriting
        /\ UNCHANGED <<events, idx, outBuf, queue, wire, shut, soErr>>
  /\ UNCHANGED <<state, pc, fpc, baseVars, peer, inbound, histVars>>

-----------------------------------------------------------------------------
(* The base loop.                                                          *)

\* TcpServer::removeConnectionInLoop
RemoveConnectionInLoop ==
  /\ removals > 0 /\ server = "alive"
  /\ removals' = removals - 1
  /\ inMap' = FALSE
  /\ queue' = Append(queue, Functor("connectDestroyed", 0))
  /\ UNCHANGED <<connVars, pc, revents, fpc, server, sockVars, histVars>>

\* ~TcpServer
ServerDtor ==
  /\ ServerDies /\ server = "alive"
  /\ server' = "dead"
  /\ queue' = IF inMap THEN Append(queue, Functor("connectDestroyed", 0))
                       ELSE queue
  /\ inMap' = FALSE
  /\ UNCHANGED <<connVars, pc, revents, fpc, removals, sockVars, histVars>>

-----------------------------------------------------------------------------
(* The peer.                                                               *)

PeerSends == /\ peer = "open" /\ arrived < MaxInbound
             /\ inbound' = inbound + 1
             /\ arrived' = arrived + 1
             /\ UNCHANGED <<connVars, loopVars, fpc, baseVars, wire, shut, peer,
                            soErr, accepted, ups, downs, destroyed, calls>>

PeerCloses == /\ peer = "open"
              /\ peer' = "fin"
              /\ UNCHANGED <<connVars, loopVars, fpc, baseVars, wire, shut,
                             soErr, inbound, histVars>>

PeerResets == /\ peer # "rst"
              /\ peer' = "rst"
              /\ soErr' = TRUE
              /\ UNCHANGED <<connVars, loopVars, fpc, baseVars, wire, shut,
                             inbound, histVars>>

-----------------------------------------------------------------------------
UserCall == IoSend \/ IoShutdown \/ IoForceClose

RunFunctor == \/ ConnectEstablished \/ RunSendInLoop \/ RunShutdownInLoop
              \/ ForceCloseInLoop \/ RunUserCallback \/ ConnectDestroyed

Return == ReturnFromCallback \/ ReturnFromClosing \/ ReturnFromDestroying

Dispatch == OnHup \/ OnErr \/ HandleRead \/ HandleWrite

Foreign(t) == ForeignSet(t) \/ ForeignEnqueue(t)

Peer == PeerSends \/ PeerCloses \/ PeerResets

Next == \/ UserCall \/ RunFunctor \/ Return \/ Dispatch
        \/ Poll(TRUE) \/ Poll(FALSE)
        \/ RemoveConnectionInLoop \/ ServerDtor \/ Peer
        \/ \E t \in Thread : ForeignCheck(t) \/ Foreign(t)

\* The loop alternates polling and functors, so neither can starve the other;
\* callbacks return; a thread finishes its call.  The peer of a connection with
\* buffered output keeps reading, or closes: the socket becomes writable.
Fairness == /\ SF_vars(RunFunctor) /\ SF_vars(Poll(TRUE))
            /\ WF_vars(Return) /\ WF_vars(Dispatch)
            /\ WF_vars(RemoveConnectionInLoop)
            /\ \A t \in Thread : WF_vars(Foreign(t))

Spec == Init /\ [][Next]_vars /\ Fairness

\* ~TcpServer does not run while the connection is being closed, and the
\* application does not close a connection of a server that is gone: then
\* connectDestroyed leaves the state as it is.  Only steps without fairness,
\* the calls of ~TcpServer, shutdown and forceClose, are taken away.
UndisturbedDtor == server' = "dead" => state' # "kDisconnecting"

-----------------------------------------------------------------------------
(* Properties.                                                             *)

\* Types; no removal runs that was not queued (removeConnection,
\* removeConnectionInLoop).
TypeOK ==
  /\ state \in {"kConnecting", "kConnected", "kDisconnecting", "kDisconnected"}
  /\ events \subseteq {"R", "W"}
  /\ idx \in {"kNew", "kAdded", "kDeleted"}
  /\ outBuf \in Seq(Nat)
  /\ pc \in IoPC
  /\ revents \subseteq {"HUP", "ERR", "IN", "OUT"}
  /\ queue \in Seq(Item)
  /\ fpc \in [Thread -> ForeignPC]
  /\ removals \in Nat /\ inMap \in BOOLEAN /\ server \in {"alive", "dead"}
  /\ wire \in Seq(Nat) /\ shut \in BOOLEAN /\ peer \in {"open", "fin", "rst"}
  /\ soErr \in BOOLEAN /\ inbound \in Nat
  /\ accepted \in Nat /\ ups \in Nat /\ downs \in Nat
  /\ destroyed \in BOOLEAN /\ calls \in Nat /\ arrived \in Nat

\* The byte stream is intact: what the kernel has taken followed by what is
\* buffered is what sendInLoop accepted, in that order, nothing lost, doubled or
\* overtaken, whatever threads send and whatever the writes take (sendInLoop,
\* handleWrite).
StreamIntact == wire \o outBuf = Bytes(0, accepted)

\* Buffered output of a connection that is up always waits for EPOLLOUT in the
\* epoll set, so it cannot be forgotten (sendInLoop, handleWrite).
OutputArmed == outBuf # <<>> /\ downs = 0 /\ ~destroyed
               => isWriting /\ idx = "kAdded"

\* The FIN of a connection that is up leaves only after the last buffered byte,
\* however shutdown and sends of several threads interleave (shutdownInLoop,
\* handleWrite).
FinAfterDrain ==
  [][~shut /\ shut' /\ downs = 0 => outBuf' = <<>>]_vars

\* The application hears of a connection once that it is up and at most once
\* that it is down (connectEstablished, handleClose, connectDestroyed).
CallbacksPaired == ups <= 1 /\ downs <= ups

\* No message is delivered after the down callback (handleEventWithGuard: a
\* close is not followed by a read of the same poll).
NoMessageAfterDown == pc = "message" => downs = 0

\* A destroyed connection has left the poller and never comes back to it
\* (connectDestroyed, removeChannel).
RemovedForGood == destroyed => idx = "kNew"

\* A peer that closes or resets, or a forceClose that is queued, makes the server
\* report the connection down and take its channel out of the poller, with all
\* the calls and events that come in between (handleRead, forceCloseInLoop,
\* handleClose, removeConnection, connectDestroyed).
CloseReleases ==
  (ups = 1 /\ (peer # "open" \/ \E i \in DOMAIN queue : queue[i].fn = "forceCloseInLoop"))
    ~> destroyed

\* shutdown leads to the FIN, or the connection goes down first (shutdown,
\* handleWrite), as long as the peer reads.
ShutdownCompletes == (state = "kDisconnecting") ~> (shut \/ downs > 0)

\* Buffered output is written to its end (with StreamIntact: all that was
\* accepted), or the connection goes down first: output is never left in the
\* buffer of a connection that is up, as long as the peer reads.  What another
\* thread sends after the FIN is excluded (sendInLoop, handleWrite).
OutputDelivered ==
  (outBuf # <<>> /\ ~shut) ~> (outBuf = <<>> \/ downs > 0)
=============================================================================
