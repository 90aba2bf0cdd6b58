---------------------------- MODULE FunctorQueue ----------------------------
(***************************************************************************)
(* What an EventLoop promises to the code that hands it functors: a queue  *)
(* that is served strictly in the order of submission, each functor once,  *)
(* plus immediate execution for a caller that is already in the loop       *)
(* thread.  Nothing is said about threads, wakeups or batches; EventLoop   *)
(* implements this specification.                                          *)
(***************************************************************************)
EXTENDS Sequences

CONSTANT Functor    \* the closures that can be handed to the loop

VARIABLES queue,    \* functors accepted and not yet run, oldest first
          done      \* functors run so far, in the order of their execution

fqVars == <<queue, done>>

\* f does not occur in the sequence s
NotIn(f, s) == \A i \in DOMAIN s : s[i] # f

FQInit == queue = <<>> /\ done = <<>>

\* queueInLoop: the functor joins the end of the queue
Submit(f) == /\ NotIn(f, queue) /\ NotIn(f, done)
             /\ queue' = Append(queue, f)
             /\ UNCHANGED done

\* runInLoop in the loop thread: the functor runs at once
RunNow(f) == /\ NotIn(f, queue) /\ NotIn(f, done)
             /\ done' = Append(done, f)
             /\ UNCHANGED queue

\* the loop runs the oldest functor
RunNext == /\ queue # <<>>
           /\ done' = Append(done, Head(queue))
           /\ queue' = Tail(queue)

FQNext == RunNext \/ \E f \in Functor : Submit(f) \/ RunNow(f)

FQSpec == FQInit /\ [][FQNext]_fqVars
=============================================================================
