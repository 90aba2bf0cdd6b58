----------------------------- MODULE Connector -----------------------------
(***************************************************************************)
(* Connector and TcpClient (src/src/net/): a client that connects to a     *)
(* server, tries again after a failure, and connects anew when the         *)
(* connection is closed, if it was told to.                                *)
(*                                                                         *)
(* One iteration of the loop is a poll, the handlers of the events it      *)
(* returned and then the functors queued by that time.  connect() is       *)
(* called once, by any thread, the other calls are made in the loop        *)
(* thread, and the client outlives its attempts.  The connection itself    *)
(* is in module TcpConnection; here it is its socket.                      *)
(***************************************************************************)
EXTENDS Integers, Sequences, SequencesExt

CONSTANTS MaxAttempts,  \* bound: calls of connect(2)
          None          \* a null pointer, and no socket

ASSUME ConnectorAssumption == MaxAttempts \in Nat /\ None \notin 1 .. MaxAttempts

Sockets == 1 .. MaxAttempts

VARIABLES
  retry,       \* TcpClient::_retry
  wanted,      \* TcpClient::_connect
  connect,     \* Connector::_connect
  state,       \* Connector::_state
  channel,     \* the socket of _channel, or None
  registered,  \* the sockets whose channels the poller has
  sock,        \* the state of each socket (see SockState)
  attempts,    \* sockets created
  connection,  \* the socket of TcpClient::_connection, or None
  connId,      \* _nextConnId
  functors,    \* _pendingFunctors of the loop
  batch,       \* the functors that doPendingFunctors runs
  timers,      \* timers of retry that have not fired
  phase,       \* "poll", "dispatch" or "functors"
  active,      \* the events of the last poll that are still to be handled
  called,      \* history: connect() was called
  stopped,     \* history: stop() was called
  gaveUp       \* history: connect(2) failed in a way that is not retried

vars == <<retry, wanted, connect, state, channel, registered, sock, attempts,
          connection, connId, functors, batch, timers, phase, active, called,
          stopped, gaveUp>>

client == <<retry, wanted, connection, connId>>
loopVars == <<batch, phase, active>>
history == <<called, stopped>>

\* pending: the handshake is under way; up; self: connected to itself; failed:
\* with an error in SO_ERROR; dead: the error was read
SockState == {"none", "pending", "up", "self", "failed", "dead", "closed"}

Init == /\ retry \in BOOLEAN /\ wanted = TRUE /\ connect = FALSE
        /\ state = "kDisconnected" /\ channel = None /\ registered = {}
        /\ sock = [s \in Sockets |-> "none"] /\ attempts = 0
        /\ connection = None /\ connId = 1
        /\ functors = <<>> /\ batch = <<>> /\ timers = 0
        /\ phase = "poll" /\ active = {}
        /\ called = FALSE /\ stopped = FALSE /\ gaveUp = FALSE

\* a functor; only connectDestroyed has an argument
Fn(name, s) == [fn |-> name, arg |-> s]

-----------------------------------------------------------------------------
(* Connector's functions; a caller says what else it leaves unchanged.     *)

\* mutant: retry does not set the timer
retryForgets(s) ==
  /\ sock' = [sock EXCEPT ![s] = "closed"]
  /\ state' = "kDisconnected"
  /\ timers' = timers

\* retry: close the socket and, if still wanted, set a timer for startInLoop
retryConnect(s) ==
  /\ sock' = [sock EXCEPT ![s] = "closed"]
  /\ state' = "kDisconnected"
  /\ timers' = IF connect THEN timers + 1 ELSE timers

\* connect, by the outcome of connect(2): under way or done (connecting), an
\* error that is retried, or one that is not.  left: the timers still set, st:
\* the state when it is called.
doConnect(left, st) ==
  LET s == attempts + 1
  IN /\ attempts < MaxAttempts
     /\ attempts' = s
     /\ \/ /\ \E r \in {"pending", "up"} : sock' = [sock EXCEPT ![s] = r]
           /\ state' = "kConnecting"
           /\ channel' = s
           /\ registered' = registered \cup {s}
           /\ timers' = left
           /\ UNCHANGED gaveUp
        \/ /\ sock' = [sock EXCEPT ![s] = "closed"]
           /\ state' = "kDisconnected"
           /\ timers' = left + 1
           /\ UNCHANGED <<channel, registered, gaveUp>>
        \/ /\ sock' = [sock EXCEPT ![s] = "closed"]
           /\ state' = st
           /\ timers' = left
           /\ gaveUp' = TRUE
           /\ UNCHANGED <<channel, registered>>

\* restart
restart == connect' = TRUE /\ doConnect(timers, "kDisconnected")

startInLoop(left) ==
  \/ connect /\ doConnect(left, state)
  \/ /\ ~connect
     /\ timers' = left
     /\ UNCHANGED <<sock, state, channel, registered, gaveUp, attempts>>

\* mutant: the channel is not taken out of the poller
resetChannelOnly ==
  /\ registered' = registered
  /\ functors' = Append(functors, Fn("resetChannel", None))

removeAndResetChannel ==
  /\ registered' = registered \ {channel}
  /\ functors' = Append(functors, Fn("resetChannel", None))

-----------------------------------------------------------------------------
(* Calls of the application.                                               *)

\* TcpClient::connect in the loop thread
ClientConnect ==
  /\ ~called /\ called' = TRUE
  /\ wanted' = TRUE /\ connect' = TRUE
  /\ doConnect(timers, state)
  /\ UNCHANGED <<retry, connection, connId, functors, loopVars, stopped>>

\* TcpClient::connect in another thread
ThreadConnect ==
  /\ ~called /\ called' = TRUE
  /\ wanted' = TRUE /\ connect' = TRUE
  /\ functors' = Append(functors, Fn("startInLoop", None))
  /\ UNCHANGED <<retry, connection, connId, loopVars, stopped, state, channel,
                 registered, sock, attempts, timers, gaveUp>>

\* mutant: stop() leaves TcpClient::_connect alone
ClientStopHalf ==
  /\ called /\ ~stopped /\ stopped' = TRUE
  /\ connect' = FALSE
  /\ functors' = Append(functors, Fn("startInLoop", None))
  /\ UNCHANGED <<client, loopVars, called, state, channel, registered, sock,
                 attempts, timers, gaveUp>>

\* TcpClient::stop; Connector::stop queues startInLoop, which does nothing when
\* _connect is false
ClientStop ==
  /\ called /\ ~stopped /\ stopped' = TRUE
  /\ wanted' = FALSE /\ connect' = FALSE
  /\ functors' = Append(functors, Fn("startInLoop", None))
  /\ UNCHANGED <<retry, connection, connId, loopVars, called, state, channel,
                 registered, sock, attempts, timers, gaveUp>>

\* TcpClient::disconnect; the shutdown of the connection is TcpConnection's
ClientDisconnect ==
  /\ called
  /\ wanted' = FALSE
  /\ UNCHANGED <<retry, connection, connId, loopVars, history, connect, state,
                 channel, registered, sock, attempts, functors, timers, gaveUp>>

-----------------------------------------------------------------------------
(* Event handlers.                                                         *)

\* the events of the poll: some of those that are ready
Ready == (IF timers > 0 THEN {{"timer"}} ELSE {})
         \cup (IF connection # None THEN {{"close"}} ELSE {})
         \cup {IF sock[s] = "failed" THEN {"error", "write"} ELSE {"write"} :
                 s \in {t \in registered : sock[t] \in {"up", "self", "failed"}}}

Poll == /\ phase = "poll"
        /\ \E es \in SUBSET Ready : active' = UNION es
        /\ phase' = "dispatch"
        /\ UNCHANGED <<client, history, connect, state, channel, registered,
                       sock, attempts, functors, batch, timers, gaveUp>>

Handling(e) == phase = "dispatch" /\ e \in active /\ active' = active \ {e}

\* the timer of retry runs startInLoop
HandleTimer ==
  /\ Handling("timer")
  /\ startInLoop(timers - 1)
  /\ UNCHANGED <<client, history, connect, functors, batch, phase>>

\* TcpClient::newConnection
newConnection(s) == connection' = s /\ connId' = connId + 1

\* handleError: the channel is taken out and the error is read, no more
HandleError ==
  /\ Handling("error")
  /\ IF state = "kConnecting"
       THEN removeAndResetChannel /\ sock' = [sock EXCEPT ![channel] = "dead"]
       ELSE UNCHANGED <<registered, functors, sock>>
  /\ UNCHANGED <<client, history, connect, state, channel, attempts, batch,
                 timers, phase, gaveUp>>

\* handleWrite: SO_ERROR or a connection to itself make it try again; otherwise
\* the socket is handed to TcpClient::newConnection or, after stop(), closed.  A
\* failed socket whose error handleError has read looks like a good one.
HandleWrite ==
  /\ "error" \notin active /\ Handling("write")
  /\ IF state = "kConnecting"
       THEN /\ removeAndResetChannel
            /\ \/ /\ sock[channel] \in {"failed", "self"}
                  /\ retryConnect(channel)
                  /\ UNCHANGED <<connection, connId>>
               \/ /\ sock[channel] \in {"up", "dead"}
                  /\ state' = "kConnected"
                  /\ IF connect
                       THEN newConnection(channel) /\ UNCHANGED sock
                       ELSE /\ sock' = [sock EXCEPT ![channel] = "closed"]
                            /\ UNCHANGED <<connection, connId>>
                  /\ UNCHANGED timers
       ELSE UNCHANGED <<registered, functors, sock, state, timers, connection,
                        connId>>
  /\ UNCHANGED <<retry, wanted, history, connect, channel, attempts, batch,
                 phase, gaveUp>>

\* The connection is closed: TcpClient::removeConnection and, if the client is
\* to reconnect, Connector::restart
HandleClose ==
  /\ Handling("close")
  /\ connection' = None
  /\ functors' = Append(functors, Fn("connectDestroyed", connection))
  /\ IF retry /\ wanted
       THEN restart
       ELSE UNCHANGED <<connect, state, channel, registered, sock, attempts,
                        timers, gaveUp>>
  /\ UNCHANGED <<retry, wanted, connId, history, batch, phase>>

\* doPendingFunctors takes the queue
SwapFunctors ==
  /\ phase = "dispatch" /\ active = {}
  /\ phase' = "functors"
  /\ batch' = functors /\ functors' = <<>>
  /\ UNCHANGED <<client, history, connect, state, channel, registered, sock,
                 attempts, timers, active, gaveUp>>

RunFunctor(name) == /\ phase = "functors" /\ batch # <<>>
                    /\ Head(batch).fn = name
                    /\ batch' = Tail(batch)
                    /\ UNCHANGED <<client, history, connect, functors, phase, active>>

RunStartInLoop == RunFunctor("startInLoop") /\ startInLoop(timers)

\* resetChannel
RunResetChannel ==
  /\ RunFunctor("resetChannel")
  /\ channel' = None
  /\ UNCHANGED <<state, registered, sock, attempts, timers, gaveUp>>

\* TcpConnection::connectDestroyed drops the last reference
RunConnectDestroyed ==
  /\ RunFunctor("connectDestroyed")
  /\ sock' = [sock EXCEPT ![Head(batch).arg] = "closed"]
  /\ UNCHANGED <<state, channel, registered, attempts, timers, gaveUp>>

FinishFunctors ==
  /\ phase = "functors" /\ batch = <<>>
  /\ phase' = "poll"
  /\ UNCHANGED <<client, history, connect, state, channel, registered, sock,
                 attempts, functors, batch, timers, active, gaveUp>>

-----------------------------------------------------------------------------
\* The network: a handshake ends, or a socket that waits for its handler is reset
SocketChanges(s) ==
  /\ s \in registered
  /\ \/ /\ sock[s] = "pending"
        /\ \E r \in {"up", "self", "failed"} : sock' = [sock EXCEPT ![s] = r]
     \/ sock[s] = "up" /\ sock' = [sock EXCEPT ![s] = "failed"]
  /\ UNCHANGED <<client, history, loopVars, connect, state, channel, registered,
                 attempts, functors, timers, gaveUp>>

Next == \/ ClientConnect \/ ThreadConnect \/ ClientStop \/ ClientDisconnect
        \/ Poll \/ HandleTimer \/ HandleError \/ HandleWrite \/ HandleClose
        \/ SwapFunctors \/ RunStartInLoop \/ RunResetChannel
        \/ RunConnectDestroyed \/ FinishFunctors
        \/ \E s \in Sockets : SocketChanges(s)

Spec == Init /\ [][Next]_vars

-----------------------------------------------------------------------------
(* Properties.                                                             *)

\* the channels the poller keeps, or has events of
ChannelsOwned == /\ registered \subseteq {channel}
                 /\ "error" \in active => registered = {channel}
                 /\ "write" \in active => channel # None

Destroying == {f \in Range(functors \o batch) : f.fn = "connectDestroyed"}

\* the sockets that are open
SocketsOwned ==
  {s \in Sockets : sock[s] \notin {"none", "closed"}}
  = (IF state = "kConnecting" THEN {channel} ELSE {})
    \cup ({connection} \ {None}) \cup {f.arg : f \in Destroying}

\* Every channel the poller keeps or reports an event of is the connector's: a
\* queued resetChannel never hits the channel of the next attempt.  Every open
\* socket belongs to the channel of an attempt that is under way, to the
\* connection, or to one that is about to be destroyed: none is leaked and none
\* closed twice (connecting, removeAndResetChannel, resetChannel, handleWrite,
\* retry, removeConnection).
Owned == ChannelsOwned /\ SocketsOwned

\* A client that wants a connection and has none is about to try: an event, a
\* timer or a functor will do it, unless connect(2) failed for good or there was
\* a connection and it is not to reconnect (retry, handleWrite, restart).
NotStuck ==
  called /\ wanted /\ ~gaveUp /\ connection = None /\ (retry \/ connId = 1)
  => \/ timers > 0 \/ registered # {} \/ "write" \in active
     \/ \E f \in Range(functors \o batch) : f.fn = "startInLoop"

\* After stop() the client makes no further attempt and no further connection,
\* whatever was under way (stop, startInLoop, handleWrite, removeConnection).
StopIsFinal ==
  [][stopped => attempts' = attempts /\ connection' \in {connection, None}]_vars
=============================================================================
