------------------------ MODULE EventLoopThreadPoll ------------------------
(***************************************************************************)
(* EventLoopThreadPoll and its EventLoopThreads (src/src/net/): the base   *)
(* thread starts the I/O threads one after the other, each with a loop on  *)
(* the stack of the thread that is handed over under a mutex, spreads      *)
(* connections over the loops, and at the end quits and joins each thread. *)
(*                                                                         *)
(* Of a thread's loop only its passes, _quit and the wakeup are kept       *)
(* (EventLoop has the rest); TcpServer puts the pool to use.  Only         *)
(* ~EventLoopThread is taken to quit these loops.                          *)
(***************************************************************************)
EXTENDS Integers

CONSTANTS MaxThreads   \* bound: the largest argument of setThreadNum

ASSUME PollAssumption == MaxThreads \in Nat

Threads == 1 .. MaxThreads

VARIABLES
  numThreads, \* _numThreads
  ppc,        \* where the base thread is (see BasePC)
  cur,        \* the thread it is starting or destroying
  loops,      \* size of _loops: the loops that startLoop has returned
  next,       \* _next, counted from 0
  tpc,        \* where each I/O thread is (see ThreadPC)
  loop,       \* _loop of each EventLoopThread is not null
  lock,       \* who holds each EventLoopThread's _mutex
  notified,   \* _cond: the base thread was notified while it waited
  quit,       \* _quit of each loop
  wakeupFd,   \* the counter of each loop's eventfd is not zero
  missed      \* history: threads whose quit() came before loop() reset _quit

startVars == <<numThreads, loops, next, lock, notified>>
poolVars == <<startVars, ppc, cur, tpc, loop, quit, wakeupFd, missed>>

\* start: about to start thread cur; sem: in Thread::start, waiting for the
\* thread to run; lock, test, wait: in startLoop; serve: the pool is up; dtor,
\* quit, wakeup, join: in ~EventLoopThread of cur; gone: all are destroyed
BasePC == {"start", "sem", "lock", "test", "wait", "serve", "dtor", "quit",
           "wakeup", "join", "gone"}

\* none: not created; init: before the handover, in the constructor of the loop
\* and ThreadInitCallback; publish: at the lock of the handover; enter: before
\* _quit = false of loop(); check: at the test of _quit; poll: in poll or the
\* handlers; functors: in doPendingFunctors; leave: behind loop(); done: ended
ThreadPC == {"none", "init", "publish", "enter", "check", "poll", "functors",
             "leave", "done"}

\* setThreadNum has been called, and start is
PoolInit == /\ numThreads \in 0 .. MaxThreads
            /\ ppc = (IF numThreads = 0 THEN "serve" ELSE "start")
            /\ cur = 1 /\ loops = 0 /\ next = 0
            /\ tpc = [i \in Threads |-> "none"]
            /\ loop = [i \in Threads |-> FALSE]
            /\ lock = [i \in Threads |-> "free"]
            /\ notified = FALSE
            /\ quit = [i \in Threads |-> FALSE]
            /\ wakeupFd = [i \in Threads |-> FALSE]
            /\ missed = {}

-----------------------------------------------------------------------------
(* The base thread starts the pool.                                        *)

Starting == UNCHANGED <<numThreads, next, loop, quit, wakeupFd, missed>>

\* Thread::start makes the thread and waits until it runs
StartThread == /\ ppc = "start"
               /\ tpc' = [tpc EXCEPT ![cur] = "init"]
               /\ ppc' = "sem"
               /\ Starting /\ UNCHANGED <<cur, loops, lock, notified>>

\* the thread's first act was sem_post
Started == /\ ppc = "sem"
           /\ ppc' = "lock"
           /\ Starting /\ UNCHANGED <<cur, loops, tpc, lock, notified>>

\* also the end of a wait, notified or spurious
Lock == /\ \/ ppc = "lock"
           \/ ppc = "wait" /\ notified
        /\ lock[cur] = "free"
        /\ lock' = [lock EXCEPT ![cur] = "base"]
        /\ ppc' = "test"
        /\ notified' = FALSE
        /\ Starting /\ UNCHANGED <<cur, loops, tpc>>

SpuriousWakeup == /\ ppc = "wait" /\ ~notified
                  /\ notified' = TRUE
                  /\ Starting /\ UNCHANGED <<ppc, cur, loops, tpc, lock>>

\* while (_loop == nullptr) _cond.wait(lock)
Wait == /\ ppc = "test" /\ ~loop[cur]
        /\ ppc' = "wait"
        /\ lock' = [lock EXCEPT ![cur] = "free"]
        /\ Starting /\ UNCHANGED <<cur, loops, tpc, notified>>

\* mutant: startLoop returns after its first wait, whatever woke it
ReturnUnchecked ==
  /\ ppc = "test"
  /\ lock' = [lock EXCEPT ![cur] = "free"]
  /\ loops' = loops + 1
  /\ cur' = IF cur = numThreads THEN 1 ELSE cur + 1
  /\ ppc' = IF cur = numThreads THEN "serve" ELSE "start"
  /\ Starting /\ UNCHANGED <<tpc, notified>>

\* startLoop returns, and start goes on with the next thread
StartLoopReturns ==
  /\ ppc = "test" /\ loop[cur]
  /\ lock' = [lock EXCEPT ![cur] = "free"]
  /\ loops' = loops + 1
  /\ cur' = IF cur = numThreads THEN 1 ELSE cur + 1
  /\ ppc' = IF cur = numThreads THEN "serve" ELSE "start"
  /\ Starting /\ UNCHANGED <<tpc, notified>>

\* the loop that getNextLoop returns; 0 is the base loop
NextLoop == IF loops = 0 THEN 0 ELSE next + 1

\* what getNextLoop does to _next, which stays 0 when there are no loops
Advance == next' = IF next + 1 >= loops THEN 0 ELSE next + 1

-----------------------------------------------------------------------------
(* The base thread destroys the pool, thread by thread.                    *)

DestroyPool == /\ ppc = "serve"
               /\ ppc' = IF numThreads = 0 THEN "gone" ELSE "dtor"
               /\ UNCHANGED <<startVars, cur, tpc, loop, quit, wakeupFd, missed>>

\* to the destructor of the next thread, or out
NextThread == /\ ppc' = IF cur = numThreads THEN "gone" ELSE "dtor"
              /\ cur' = IF cur = numThreads THEN cur ELSE cur + 1

\* ~EventLoopThread tests _loop, without the mutex
TestLoop == /\ ppc = "dtor"
            /\ IF loop[cur] THEN ppc' = "quit" /\ UNCHANGED cur
                            ELSE NextThread
            /\ UNCHANGED <<startVars, tpc, loop, quit, wakeupFd, missed>>

\* EventLoop::quit: _quit = true
Quit == /\ ppc = "quit"
        /\ quit' = [quit EXCEPT ![cur] = TRUE]
        /\ missed' = IF tpc[cur] = "enter" THEN missed \cup {cur} ELSE missed
        /\ ppc' = "wakeup"
        /\ UNCHANGED <<startVars, cur, tpc, loop, wakeupFd>>

\* mutant: quit() without the wakeup
WakeupNothing == /\ ppc = "wakeup"
                 /\ ppc' = "join"
                 /\ UNCHANGED <<startVars, cur, tpc, loop, quit, wakeupFd, missed>>

\* EventLoop::quit: wakeup()
Wakeup == /\ ppc = "wakeup"
          /\ wakeupFd' = [wakeupFd EXCEPT ![cur] = TRUE]
          /\ ppc' = "join"
          /\ UNCHANGED <<startVars, cur, tpc, loop, quit, missed>>

Join == /\ ppc = "join" /\ tpc[cur] = "done"
        /\ NextThread
        /\ UNCHANGED <<startVars, tpc, loop, quit, wakeupFd, missed>>

-----------------------------------------------------------------------------
(* An I/O thread: threadFunc and the passes of loop().                     *)

ThreadStep(i, from, to) ==
  /\ tpc[i] = from
  /\ tpc' = [tpc EXCEPT ![i] = to]
  /\ UNCHANGED <<numThreads, ppc, cur, loops, next, lock, missed>>

\* the loop is constructed and _callback has run
ThreadInit(i) == /\ ThreadStep(i, "init", "publish")
                 /\ UNCHANGED <<loop, notified, quit, wakeupFd>>

\* under the mutex: _loop = &loop and notify_one
Publish(i) == /\ ThreadStep(i, "publish", "enter")
              /\ lock[i] = "free"
              /\ loop' = [loop EXCEPT ![i] = TRUE]
              /\ notified' = (notified \/ (ppc = "wait" /\ cur = i))
              /\ UNCHANGED <<quit, wakeupFd>>

\* loop() begins with _quit = false
EnterLoop(i) == /\ ThreadStep(i, "enter", "check")
                /\ quit' = [quit EXCEPT ![i] = FALSE]
                /\ UNCHANGED <<loop, notified, wakeupFd>>

CheckQuit(i) == /\ ThreadStep(i, "check", IF quit[i] THEN "leave" ELSE "poll")
                /\ UNCHANGED <<loop, notified, quit, wakeupFd>>

\* the poll has returned for the eventfd, which handleRead empties
PollWakeup(i) == /\ ThreadStep(i, "poll", "functors")
                 /\ wakeupFd[i]
                 /\ wakeupFd' = [wakeupFd EXCEPT ![i] = FALSE]
                 /\ UNCHANGED <<loop, notified, quit>>

\* the poll has returned for other channels or after its timeout
PollOther(i) == /\ ThreadStep(i, "poll", "functors")
                /\ ~wakeupFd[i]
                /\ UNCHANGED <<loop, notified, quit, wakeupFd>>

\* doPendingFunctors has run its batch
EndPass(i) == /\ ThreadStep(i, "functors", "check")
              /\ UNCHANGED <<loop, notified, quit, wakeupFd>>

\* under the mutex: _loop = nullptr; then the loop is destroyed
Leave(i) == /\ ThreadStep(i, "leave", "done")
            /\ lock[i] = "free"
            /\ loop' = [loop EXCEPT ![i] = FALSE]
            /\ UNCHANGED <<notified, quit, wakeupFd>>

-----------------------------------------------------------------------------
(* For whoever queues functors in the loops.                               *)

\* mutant: queueInLoop only appends
WakeNothing(l) == UNCHANGED wakeupFd

\* queueInLoop of another thread wakes loop l; 0 is the base loop
Wake(l) == wakeupFd' = IF l = 0 THEN wakeupFd ELSE [wakeupFd EXCEPT ![l] = TRUE]

BaseStep == \/ StartThread \/ Started \/ Lock \/ Wait \/ StartLoopReturns
            \/ TestLoop \/ Quit \/ Wakeup \/ Join

-----------------------------------------------------------------------------
(* Properties.                                                             *)

\* Types; _next is always the index of a loop, unless there is none
\* (getNextLoop).
PoolTypeOK == /\ numThreads \in 0 .. MaxThreads
              /\ ppc \in BasePC /\ cur \in Nat \ {0}
              /\ (numThreads > 0 => cur <= numThreads)
              /\ loops \in 0 .. numThreads
              /\ next \in Nat /\ (next = 0 \/ next < loops)
              /\ tpc \in [Threads -> ThreadPC]
              /\ loop \in [Threads -> BOOLEAN]
              /\ lock \in [Threads -> {"free", "base"}]
              /\ notified \in BOOLEAN
              /\ quit \in [Threads -> BOOLEAN]
              /\ wakeupFd \in [Threads -> BOOLEAN]
              /\ missed \subseteq Threads

\* A loop that startLoop has returned is constructed and initialised by its
\* ThreadInitCallback, and lives until its thread is joined: no connection and
\* no quit() ever goes to a loop that is not there.  An EventLoopThread in turn
\* is destroyed only after its thread has ended, so that threadFunc never touches
\* a member that is gone (startLoop, threadFunc, ~EventLoopThread).
LoopsAlive ==
  LET ending == ppc \in {"dtor", "quit", "wakeup", "join"}
  IN /\ ppc = "serve" => loops = numThreads /\ NextLoop <= loops
     /\ \A i \in 1 .. loops :
          ppc # "gone" /\ (ending => i >= cur)
          => \/ tpc[i] \in {"enter", "check", "poll", "functors"}
             \/ i = cur /\ ppc \in {"wakeup", "join"}
     /\ \A i \in 1 .. numThreads :
          ppc = "gone" \/ (ending /\ i < cur) => tpc[i] = "done"

\* A quit() of ~EventLoopThread that does not come before the thread has opened
\* loop() ends the loop, and the join returns.
JoinReturns == []<>(ppc = "join" => cur \in missed)
=============================================================================
