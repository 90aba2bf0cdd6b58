----------------------------- MODULE TimerQueue -----------------------------
(***************************************************************************)
(* TimerQueue and Timer (src/src/timer/): the timers of one EventLoop, all *)
(* served by one timerfd that is armed for the earliest of them.           *)
(*                                                                         *)
(* Expirations are wall-clock times (gettimeofday), the timerfd counts on  *)
(* CLOCK_MONOTONIC and is armed with a difference.  Every comparison the   *)
(* code makes is between two expirations or between one and now, so times  *)
(* are kept relative to now: due[t] is the expiration of t minus now.      *)
(* Tick lets time pass for both clocks; SetClock steps the wall clock only *)
(*                                                                         *)
(* Handlers of the loop thread are interleaved with ticks, with the calls  *)
(* of timer callbacks and with addTimer in other threads.                  *)
(***************************************************************************)
EXTENDS Integers, Sequences

CONSTANTS Timer,      \* the timers that may be created
          Repeating,  \* those with an interval
          Period,     \* their interval in ticks, 0 if it is below a microsecond
          MinDelay,   \* the least delay the timerfd is armed with (100 us)
          None,       \* no timer
          MaxDelay,   \* bound: delay of a new timer
          MaxLate,    \* bound: how far the loop falls behind
          MaxSteps    \* bound: how often the wall clock is set, by one tick

ASSUME TimerAssumption ==
  /\ Repeating \subseteq Timer /\ None \notin Timer
  /\ Period \in Nat /\ MinDelay \in Nat \ {0}
  /\ MaxDelay \in Nat /\ MaxLate \in Nat /\ MaxSteps \in Nat

VARIABLES due,       \* _expiration of each timer, relative to now
          timers,    \* _timers
          queue,     \* addTimerInLoop functors queued by other threads
          active,    \* the poll has returned the timerfd, handleRead not yet run
          pc,        \* "loop", or "run" inside handleRead
          expired,   \* the vector getExpired returned
          toRun,     \* what of it has still to be run
          running,   \* the timer whose callback is running
          fd,        \* timerfd: ticks until it expires, 0 if it is not armed
          readable,  \* timerfd: it has expired and not been read or rearmed
          used,      \* history: timers created
          freed,     \* history: timers deleted
          steps, jumped   \* history: clock settings, and whether one was ahead

vars == <<due, timers, queue, active, pc, expired, toRun, running, fd, readable,
          used, freed, steps, jumped>>

Init == /\ due = [t \in Timer |-> 0]
        /\ timers = {} /\ queue = <<>> /\ active = FALSE
        /\ pc = "loop" /\ expired = {} /\ toRun = {} /\ running = None
        /\ fd = 0 /\ readable = FALSE
        /\ used = {} /\ freed = {} /\ steps = 0 /\ jumped = FALSE

-----------------------------------------------------------------------------
\* what resetTimerfd arms the timerfd with, for an expiration d from now
Delay(d) == IF d < MinDelay THEN MinDelay ELSE d

\* timerfd_settime also forgets an expiration that was not read
ResetTimerfd(d) == fd' = Delay(d) /\ readable' = FALSE

\* mutant: insert compares with the latest timer
InsertAtEnd(t, d) ==
  /\ timers' = timers \cup {t}
  /\ IF timers = {} THEN ResetTimerfd(d) ELSE UNCHANGED <<fd, readable>>

\* addTimerInLoop: insert, and rearm if the new timer is before all others
AddTimerInLoop(t, d) ==
  /\ timers' = timers \cup {t}
  /\ IF \A u \in timers : d < due[u] THEN ResetTimerfd(d)
                                     ELSE UNCHANGED <<fd, readable>>

\* User code of the loop thread runs in a timer's callback or elsewhere in the
\* loop
UserCode == pc = "run" => running # None

Create(t, d) == /\ t \notin used
                /\ used' = used \cup {t}
                /\ due' = [due EXCEPT ![t] = d]

\* addTimer in the loop thread
AddTimer(t, d) ==
  /\ UserCode
  /\ Create(t, d)
  /\ AddTimerInLoop(t, d)
  /\ UNCHANGED <<queue, active, pc, expired, toRun, running, freed, steps,
                 jumped>>

\* addTimer in another thread
ThreadAddTimer(t, d) ==
  /\ Create(t, d)
  /\ queue' = Append(queue, t)
  /\ UNCHANGED <<timers, active, pc, expired, toRun, running, fd, readable,
                 freed, steps, jumped>>

\* the loop runs the functor, after the channels of the poll
RunAddTimerInLoop ==
  /\ pc = "loop" /\ ~active
  /\ queue # <<>>
  /\ AddTimerInLoop(Head(queue), due[Head(queue)])
  /\ queue' = Tail(queue)
  /\ UNCHANGED <<due, active, pc, expired, toRun, running, used, freed, steps,
                 jumped>>

-----------------------------------------------------------------------------
(* The timerfd's channel.                                                  *)

Poll == /\ pc = "loop" /\ ~active
        /\ readable
        /\ active' = TRUE
        /\ UNCHANGED <<due, timers, queue, pc, expired, toRun, running, fd,
                       readable, used, freed, steps, jumped>>

\* mutant: getExpired copies the expired timers and leaves them in _timers
HandleReadKeeping ==
  LET ended == {t \in timers : due[t] <= 0}
  IN /\ pc = "loop" /\ active
     /\ active' = FALSE /\ readable' = FALSE
     /\ expired' = ended /\ toRun' = ended
     /\ pc' = "run"
     /\ UNCHANGED <<due, timers, queue, running, fd, used, freed, steps, jumped>>

\* handleRead up to the first callback: read the timerfd (whether or not it is
\* still readable) and take out what has expired
HandleRead ==
  LET ended == {t \in timers : due[t] <= 0}
  IN /\ pc = "loop" /\ active
     /\ active' = FALSE /\ readable' = FALSE
     /\ timers' = timers \ ended
     /\ expired' = ended /\ toRun' = ended
     /\ pc' = "run"
     /\ UNCHANGED <<due, queue, running, fd, used, freed, steps, jumped>>

\* mutant: the expired timers are run in any order
RunTimerUnordered(t) ==
  /\ pc = "run" /\ t \in toRun
  /\ running' = t
  /\ toRun' = toRun \ {t}
  /\ UNCHANGED <<due, timers, queue, active, pc, expired, fd, readable, used,
                 freed, steps, jumped>>

\* the next callback, in the order of the set: by expiration, then by address
RunTimer(t) ==
  /\ pc = "run" /\ t \in toRun
  /\ \A u \in toRun : due[t] <= due[u]
  /\ running' = t
  /\ toRun' = toRun \ {t}
  /\ UNCHANGED <<due, timers, queue, active, pc, expired, fd, readable, used,
                 freed, steps, jumped>>

\* mutant: reset does not arm the timerfd again
ResetForgets ==
  /\ pc = "run" /\ toRun = {}
  /\ due' = [t \in Timer |-> IF t \in expired \cap Repeating THEN Period
                                                             ELSE due[t]]
  /\ timers' = timers \cup (expired \cap Repeating)
  /\ freed' = freed \cup (expired \ Repeating)
  /\ pc' = "loop" /\ expired' = {} /\ running' = None
  /\ UNCHANGED <<queue, active, toRun, fd, readable, used, steps, jumped>>

\* reset: repeating timers start again from now, the others are deleted, and
\* the timerfd is armed for the earliest timer there is
Reset ==
  /\ pc = "run" /\ toRun = {}
  /\ due' = [t \in Timer |-> IF t \in expired \cap Repeating THEN Period
                                                             ELSE due[t]]
  /\ timers' = timers \cup (expired \cap Repeating)
  /\ freed' = freed \cup (expired \ Repeating)
  /\ \/ timers' = {} /\ UNCHANGED <<fd, readable>>
     \/ \E t \in timers' : /\ \A u \in timers' : due'[t] <= due'[u]
                           /\ ResetTimerfd(due'[t])
  /\ pc' = "loop" /\ expired' = {} /\ running' = None
  /\ UNCHANGED <<queue, active, toRun, used, steps, jumped>>

-----------------------------------------------------------------------------
(* The clocks.                                                             *)

Live == used \ freed

Shifted(d) == [t \in Timer |-> IF t \in Live THEN due[t] + d ELSE due[t]]

Queued == {queue[i] : i \in DOMAIN queue}

NotLate(S) == \A t \in S : due[t] > -MaxLate

\* the loop falls behind by at most MaxLate, unless it sleeps until the timerfd
\* expires
Tick == /\ NotLate(Live) \/ (fd > 0 /\ NotLate(Queued))
        /\ due' = Shifted(-1)
        /\ fd' = IF fd = 0 THEN 0 ELSE fd - 1
        /\ readable' = (readable \/ fd = 1)
        /\ UNCHANGED <<timers, queue, active, pc, expired, toRun, running, used,
                       freed, steps, jumped>>

\* The wall clock is set by d; the timerfd does not notice
SetClock(d) ==
  /\ steps < MaxSteps /\ NotLate(Live)
  /\ steps' = steps + 1
  /\ due' = Shifted(-d)
  /\ jumped' = (jumped \/ d > 0)
  /\ UNCHANGED <<timers, queue, active, pc, expired, toRun, running, fd,
                 readable, used, freed>>

-----------------------------------------------------------------------------
LoopStep == \/ RunAddTimerInLoop \/ Poll \/ HandleRead \/ Reset
            \/ \E t \in Timer : RunTimer(t)

Next == \/ LoopStep \/ Tick \/ \E d \in {-1, 1} : SetClock(d)
        \/ \E t \in Timer, d \in 0 .. MaxDelay :
             AddTimer(t, d) \/ ThreadAddTimer(t, d)

\* The loop keeps running, callbacks return, and time passes; functors are run
\* between two polls
Fairness == /\ WF_vars(Tick) /\ WF_vars(Poll) /\ WF_vars(HandleRead)
            /\ WF_vars(Reset) /\ WF_vars(\E t \in Timer : RunTimer(t))
            /\ SF_vars(RunAddTimerInLoop)

Spec == Init /\ [][Next]_vars /\ Fairness

-----------------------------------------------------------------------------
(* Properties.                                                             *)

\* Types; the timerfd's delay is a natural number, never negative, however late
\* the timer it is armed for (resetTimerfd).
TypeOK == /\ due \in [Timer -> Int]
          /\ timers \subseteq Timer /\ expired \subseteq Timer
          /\ toRun \subseteq expired
          /\ queue \in Seq(Timer)
          /\ active \in BOOLEAN /\ readable \in BOOLEAN /\ jumped \in BOOLEAN
          /\ pc \in {"loop", "run"} /\ (pc = "loop" => expired = {})
          /\ running \in Timer \cup {None}
          /\ fd \in Nat /\ steps \in Nat
          /\ used \subseteq Timer /\ freed \subseteq Timer

\* While timers wait, the timerfd has fired or is armed, and unless the wall
\* clock was set ahead it fires in time for each of them (addTimerInLoop, reset,
\* resetTimerfd), whatever was added in between and by whom.
ArmedInTime ==
  pc = "loop" /\ timers # {} =>
    \/ readable \/ active
    \/ fd > 0 /\ (~jumped => \A t \in timers : fd <= Delay(due[t]))

\* A timer belongs to one of the queue, _timers and the vector of handleRead,
\* and to none of them once it is deleted: no dangling pointer and no double
\* delete (getExpired, reset, addTimerInLoop).
OneOwner == /\ timers \cap expired = {}
            /\ Queued \cap (timers \cup expired) = {}
            /\ freed \cap (timers \cup expired \cup Queued) = {}
            /\ \A i, j \in DOMAIN queue : queue[i] = queue[j] => i = j

\* As long as nobody sets the wall clock, timers run in the order in which they
\* expire: none runs while one that expires earlier is still to be run or in
\* _timers, where the callbacks before it may have put it (getExpired,
\* handleRead).
EarliestFirst ==
  [][\A t \in Timer : running' = t /\ running' # running /\ steps = 0
                      => \A u \in timers \cup toRun : due[t] <= due[u]]_vars

\* Every timer in _timers, repeating ones again and again, gets its callback,
\* even if the wall clock is set back or ahead now and then.
TimersFire == \A t \in Timer : t \in timers ~> running = t
=============================================================================
