----------------------------- MODULE EventLoop -----------------------------
(***************************************************************************)
(* EventLoop (src/src/net/EventLoop.cc): the thread that owns the loop     *)
(* polls, dispatches active channels and then runs the functors that were  *)
(* handed to it; any other thread may call queueInLoop, runInLoop and quit *)
(* at any time and must wake the owner out of epoll_wait through the       *)
(* eventfd _wakeupFd.                                                      *)
(*                                                                         *)
(* A step is one access to state that two threads share: _pendingFunctors  *)
(* (under _mutex), _quit, and the eventfd.  _callingPendingFunctors is an  *)
(* atomic that only the owner ever reads (the test in queueInLoop is       *)
(* short-circuited in the other threads), so it changes together with the  *)
(* step beside it.                                                         *)
(***************************************************************************)
EXTENDS Sequences

CONSTANTS Functor,   \* closures; each one is handed to the loop once
          Thread     \* the threads other than the one that owns the loop

VARIABLES
  pc,                \* where the owner is (see OwnerPC)
  looping,           \* _looping
  quit,              \* _quit
  calling,           \* _callingPendingFunctors
  wakeupFd,          \* the counter of _wakeupFd is not zero
  wakeActive,        \* _wakeupChannel is in _activeChannels, not yet handled
  pendingFunctors,   \* _pendingFunctors
  functors,          \* the local vector of doPendingFunctors, minus what ran
  tpc,               \* tpc[t] = "wakeup": t has published and not yet written
  preloop,           \* history: functors the owner queued outside loop()
  done               \* history: functors run, in order

vars == <<pc, looping, quit, calling, wakeupFd, wakeActive, pendingFunctors,
          functors, tpc, preloop, done>>

\* idle: outside loop(); enter: between the two assignments that open it;
\* check: at while (!_quit); poll: in _poller->poll; dispatch: in the loop over
\* _activeChannels; doPending: at the top of doPendingFunctors; pending: between
\* two functors; functor: inside one.
OwnerPC == {"idle", "enter", "check", "poll", "dispatch", "doPending",
            "pending", "functor"}

NotIn(f, s) == \A i \in DOMAIN s : s[i] # f

Fresh(f) == NotIn(f, functors) /\ NotIn(f, pendingFunctors) /\ NotIn(f, done)

Init == /\ pc = "idle"
        /\ looping = FALSE /\ quit = FALSE /\ calling = FALSE
        /\ wakeupFd = FALSE /\ wakeActive = FALSE
        /\ pendingFunctors = <<>> /\ functors = <<>>
        /\ tpc = [t \in Thread |-> "idle"]
        /\ preloop = {} /\ done = <<>>

-----------------------------------------------------------------------------
(* The owner: loop(), handleRead() and doPendingFunctors().                *)

EnterLoop == /\ pc = "idle"
             /\ looping' = TRUE
             /\ pc' = "enter"
             /\ UNCHANGED <<quit, calling, wakeupFd, wakeActive,
                            pendingFunctors, functors, tpc, preloop, done>>

\* loop() resets _quit, so a quit() that came before this step is forgotten
ResetQuit == /\ pc = "enter"
             /\ quit' = FALSE
             /\ pc' = "check"
             /\ UNCHANGED <<looping, calling, wakeupFd, wakeActive,
                            pendingFunctors, functors, tpc, preloop, done>>

CheckQuit == /\ pc = "check"
             /\ pc' = IF quit THEN "idle" ELSE "poll"
             /\ looping' = ~quit
             /\ UNCHANGED <<quit, calling, wakeupFd, wakeActive,
                            pendingFunctors, functors, tpc, preloop, done>>

\* The poll returns with the eventfd readable (other channels may be active too)
PollWakeup == /\ pc = "poll"
              /\ wakeupFd
              /\ wakeActive' = TRUE
              /\ pc' = "dispatch"
              /\ UNCHANGED <<looping, quit, calling, wakeupFd,
                             pendingFunctors, functors, tpc, preloop, done>>

\* The poll returns for other channels only
PollChannel == /\ pc = "poll"
               /\ ~wakeupFd
               /\ pc' = "dispatch"
               /\ UNCHANGED <<looping, quit, calling, wakeupFd, wakeActive,
                              pendingFunctors, functors, tpc, preloop, done>>

\* The poll returns nothing: kPollTimeMs has passed, or a signal came (EINTR)
PollTimeout == /\ pc = "poll"
               /\ ~wakeupFd
               /\ pc' = "doPending"
               /\ UNCHANGED <<looping, quit, calling, wakeupFd, wakeActive,
                              pendingFunctors, functors, tpc, preloop, done>>

\* EventLoop::handleRead, the read callback of _wakeupChannel: the read of the
\* eventfd takes the whole counter, whatever number of writes it holds
HandleRead == /\ pc = "dispatch"
              /\ wakeActive
              /\ wakeupFd' = FALSE
              /\ wakeActive' = FALSE
              /\ UNCHANGED <<pc, looping, quit, calling, pendingFunctors,
                             functors, tpc, preloop, done>>

FinishDispatch == /\ pc = "dispatch"
                  /\ ~wakeActive
                  /\ pc' = "doPending"
                  /\ UNCHANGED <<looping, quit, calling, wakeupFd, wakeActive,
                                 pendingFunctors, functors, tpc, preloop, done>>

\* mutant: the queue is copied, not swapped
CopyPending == /\ pc = "doPending"
               /\ calling' = TRUE
               /\ functors' = pendingFunctors
               /\ pc' = "pending"
               /\ UNCHANGED <<looping, quit, wakeupFd, wakeActive,
                              pendingFunctors, tpc, preloop, done>>

\* doPendingFunctors takes the whole queue under the mutex and runs the batch
\* without it
SwapPending == /\ pc = "doPending"
               /\ calling' = TRUE
               /\ functors' = pendingFunctors
               /\ pendingFunctors' = <<>>
               /\ pc' = "pending"
               /\ UNCHANGED <<looping, quit, wakeupFd, wakeActive, tpc,
                              preloop, done>>

RunFunctor == /\ pc = "pending"
              /\ functors # <<>>
              /\ done' = Append(done, Head(functors))
              /\ functors' = Tail(functors)
              /\ pc' = "functor"
              /\ UNCHANGED <<looping, quit, calling, wakeupFd, wakeActive,
                             pendingFunctors, tpc, preloop>>

FinishFunctor == /\ pc = "functor"
                 /\ pc' = "pending"
                 /\ UNCHANGED <<looping, quit, calling, wakeupFd, wakeActive,
                                pendingFunctors, functors, tpc, preloop, done>>

FinishPending == /\ pc = "pending"
                 /\ functors = <<>>
                 /\ calling' = FALSE
                 /\ pc' = "check"
                 /\ UNCHANGED <<looping, quit, wakeupFd, wakeActive,
                                pendingFunctors, functors, tpc, preloop, done>>

-----------------------------------------------------------------------------
(* Calls the owner's own code makes: before loop(), in a channel callback  *)
(* or in a functor.                                                        *)

OwnerCode == pc \in {"idle", "dispatch", "functor"}

\* mutant: the loop thread never writes the eventfd
OwnerQueueSilently(f) ==
  /\ OwnerCode
  /\ Fresh(f)
  /\ pendingFunctors' = Append(pendingFunctors, f)
  /\ preloop' = IF pc = "idle" THEN preloop \cup {f} ELSE preloop
  /\ UNCHANGED <<pc, looping, quit, calling, wakeupFd, wakeActive, functors,
                 tpc, done>>

\* queueInLoop in the loop thread writes the eventfd only inside
\* doPendingFunctors; before and during dispatch the functor relies on the
\* doPendingFunctors that follows
OwnerQueueInLoop(f) ==
  /\ OwnerCode
  /\ Fresh(f)
  /\ pendingFunctors' = Append(pendingFunctors, f)
  /\ wakeupFd' = (wakeupFd \/ calling)
  /\ preloop' = IF pc = "idle" THEN preloop \cup {f} ELSE preloop
  /\ UNCHANGED <<pc, looping, quit, calling, wakeActive, functors, tpc, done>>

\* runInLoop in the loop thread calls the functor on the spot
OwnerRunInLoop(f) ==
  /\ OwnerCode
  /\ Fresh(f)
  /\ done' = Append(done, f)
  /\ UNCHANGED <<pc, looping, quit, calling, wakeupFd, wakeActive,
                 pendingFunctors, functors, tpc, preloop>>

\* quit() in the loop thread writes no wakeup
OwnerQuit ==
  /\ OwnerCode
  /\ quit' = TRUE
  /\ UNCHANGED <<pc, looping, calling, wakeupFd, wakeActive, pendingFunctors,
                 functors, tpc, preloop, done>>

-----------------------------------------------------------------------------
(* Calls of the other threads: publish, then write the eventfd.            *)

\* mutant: queueInLoop of another thread writes no wakeup
ThreadQueueSilently(t, f) ==
  /\ tpc[t] = "idle"
  /\ Fresh(f)
  /\ pendingFunctors' = Append(pendingFunctors, f)
  /\ UNCHANGED <<pc, looping, quit, calling, wakeupFd, wakeActive, functors,
                 tpc, preloop, done>>

\* queueInLoop, and runInLoop which is the same in these threads
ThreadQueueInLoop(t, f) ==
  /\ tpc[t] = "idle"
  /\ Fresh(f)
  /\ pendingFunctors' = Append(pendingFunctors, f)
  /\ tpc' = [tpc EXCEPT ![t] = "wakeup"]
  /\ UNCHANGED <<pc, looping, quit, calling, wakeupFd, wakeActive, functors,
                 preloop, done>>

\* mutant: quit() of another thread writes no wakeup
ThreadQuitSilently(t) ==
  /\ tpc[t] = "idle"
  /\ quit' = TRUE
  /\ UNCHANGED <<pc, looping, calling, wakeupFd, wakeActive, pendingFunctors,
                 functors, tpc, preloop, done>>

\* quit() of another thread
ThreadQuit(t) ==
  /\ tpc[t] = "idle"
  /\ quit' = TRUE
  /\ tpc' = [tpc EXCEPT ![t] = "wakeup"]
  /\ UNCHANGED <<pc, looping, calling, wakeupFd, wakeActive, pendingFunctors,
                 functors, preloop, done>>

\* wakeup(): the write that ends both calls
Wakeup(t) ==
  /\ tpc[t] = "wakeup"
  /\ wakeupFd' = TRUE
  /\ tpc' = [tpc EXCEPT ![t] = "idle"]
  /\ UNCHANGED <<pc, looping, quit, calling, wakeActive, pendingFunctors,
                 functors, preloop, done>>

-----------------------------------------------------------------------------
\* Steps the owner takes without waiting for anything
OwnerStep == \/ ResetQuit \/ CheckQuit \/ PollWakeup \/ HandleRead
             \/ FinishDispatch \/ SwapPending \/ RunFunctor \/ FinishFunctor
             \/ FinishPending

OwnerCall == \/ OwnerQuit
             \/ \E f \in Functor : OwnerQueueInLoop(f) \/ OwnerRunInLoop(f)

ThreadCall(t) == ThreadQuit(t) \/ \E f \in Functor : ThreadQueueInLoop(t, f)

Next == \/ EnterLoop \/ OwnerStep \/ PollChannel \/ PollTimeout \/ OwnerCall
        \/ \E t \in Thread : ThreadCall(t) \/ Wakeup(t)

\* A running owner and a thread in the middle of a call keep going.  Nothing
\* obliges user code to call anything, a channel to become active, or the poll
\* to time out: what is shown below does not lean on the 10 s of kPollTimeMs.
Fairness == /\ WF_vars(OwnerStep)
            /\ \A t \in Thread : WF_vars(Wakeup(t))

Spec == Init /\ [][Next]_vars /\ Fairness

-----------------------------------------------------------------------------
(* Properties.                                                             *)

\* The types, and the two flags that tell callers where the owner is.
TypeOK == /\ pc \in OwnerPC
          /\ looping \in BOOLEAN /\ (looping <=> pc # "idle")
          /\ calling \in BOOLEAN /\ (calling <=> pc \in {"pending", "functor"})
          /\ quit \in BOOLEAN
          /\ wakeupFd \in BOOLEAN /\ wakeActive \in BOOLEAN
          /\ pendingFunctors \in Seq(Functor)
          /\ functors \in Seq(Functor)
          /\ tpc \in [Thread -> {"idle", "wakeup"}]
          /\ preloop \subseteq Functor
          /\ done \in Seq(Functor)

\* The poll will return, now or once a thread has finished its call
Signalled == wakeupFd \/ \E t \in Thread : tpc[t] = "wakeup"

\* Some functor waits that was not queued by the owner outside loop()
Unserved == \E i \in DOMAIN pendingFunctors : pendingFunctors[i] \notin preloop

\* No lost wakeup (the protocol of queueInLoop, quit and handleRead): the loop
\* never sleeps in the poll, with nobody about to wake it, while a functor it
\* was handed during loop() or by another thread waits, or while it has been
\* told to quit.
NoLostWakeup == pc = "poll" /\ (Unserved \/ quit) => Signalled

\* Every functor handed over by another thread, or by the owner inside loop(),
\* is run by the loop, or the loop ends first (doPendingFunctors; no appeal to
\* the poll timeout).
FunctorsRun ==
  \A f \in Functor :
    (looping /\ ~NotIn(f, pendingFunctors) /\ f \notin preloop)
      ~> (~NotIn(f, done) \/ ~looping)

\* quit() from any thread once loop() has reset _quit makes loop() return.
QuitStops == (quit /\ looping /\ pc # "enter") ~> ~looping

-----------------------------------------------------------------------------
\* The loop implements the abstract queue: what is left of the batch, then what
\* has been queued since.
FQ == INSTANCE FunctorQueue WITH queue <- functors \o pendingFunctors,
                                 done <- done

\* Functors are run once each and in the order of their submission, whichever
\* thread submits them and whenever it does (queueInLoop, doPendingFunctors).
RunsInOrder == FQ!FQSpec
=============================================================================
