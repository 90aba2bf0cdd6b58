-------------------------- MODULE EventLoopProofs --------------------------
(***************************************************************************)
(* Proofs about EventLoop, for any set of functors and any number of       *)
(* threads: its type invariant, the absence of lost wakeups, and that it   *)
(* implements FunctorQueue.                                                *)
(***************************************************************************)
EXTENDS EventLoop, SequenceTheorems, TLAPS

-----------------------------------------------------------------------------
(* The inductive invariant.                                                *)

\* The batch is local to doPendingFunctors
BatchLocal == pc \notin {"pending", "functor"} => functors = <<>>

\* Outside the stretch from the poll's return to the swap, a functor that waits
\* is covered by a wakeup; within the stretch the swap is still to come.
WaitingCovered == pc \notin {"dispatch", "doPending"} /\ Unserved => Signalled

\* The loop goes into the poll only with _quit clear, and whoever sets it then
\* is another thread that has its write of the eventfd ahead or behind it
QuitCovered == pc = "poll" /\ quit => Signalled

LoopInv == TypeOK /\ BatchLocal /\ WaitingCovered /\ QuitCovered

-----------------------------------------------------------------------------
\* Every step of EventLoop keeps its variables in their types.
LEMMA TypeStep == TypeOK /\ [Next]_vars => TypeOK'
<1> SUFFICES ASSUME TypeOK, [Next]_vars PROVE TypeOK'
  OBVIOUS
<1> USE DEF TypeOK, OwnerPC
<1>1. CASE EnterLoop \/ OwnerStep \/ PollChannel \/ PollTimeout
  <2>1. CASE EnterLoop BY <2>1 DEF EnterLoop
  <2>2. CASE ResetQuit BY <2>2 DEF ResetQuit
  <2>3. CASE CheckQuit BY <2>3 DEF CheckQuit
  <2>4. CASE PollWakeup BY <2>4 DEF PollWakeup
  <2>5. CASE HandleRead BY <2>5 DEF HandleRead
  <2>6. CASE FinishDispatch BY <2>6 DEF FinishDispatch
  <2>7. CASE SwapPending BY <2>7 DEF SwapPending
  <2>8. CASE RunFunctor BY <2>8 DEF RunFunctor
  <2>9. CASE FinishFunctor BY <2>9 DEF FinishFunctor
  <2>10. CASE FinishPending BY <2>10 DEF FinishPending
  <2>11. CASE PollChannel BY <2>11 DEF PollChannel
  <2>12. CASE PollTimeout BY <2>12 DEF PollTimeout
  <2> QED BY <1>1, <2>1, <2>2, <2>3, <2>4, <2>5, <2>6, <2>7, <2>8, <2>9,
             <2>10, <2>11, <2>12 DEF OwnerStep
<1>2. CASE OwnerQuit BY <1>2 DEF OwnerQuit
<1>3. ASSUME NEW f \in Functor, OwnerQueueInLoop(f) PROVE TypeOK'
  BY <1>3 DEF OwnerQueueInLoop
<1>4. ASSUME NEW f \in Functor, OwnerRunInLoop(f) PROVE TypeOK'
  BY <1>4 DEF OwnerRunInLoop
<1>5. ASSUME NEW t \in Thread, NEW f \in Functor, ThreadQueueInLoop(t, f)
      PROVE TypeOK'
  BY <1>5 DEF ThreadQueueInLoop
<1>6. ASSUME NEW t \in Thread, ThreadQuit(t) PROVE TypeOK'
  BY <1>6 DEF ThreadQuit
<1>7. ASSUME NEW t \in Thread, Wakeup(t) PROVE TypeOK'
  BY <1>7 DEF Wakeup
<1>8. CASE UNCHANGED vars BY <1>8 DEF vars
<1> QED
  BY <1>1, <1>2, <1>3, <1>4, <1>5, <1>6, <1>7, <1>8
     DEF Next, OwnerCall, ThreadCall

\* Every step keeps the batch local to doPendingFunctors.
LEMMA BatchStep == TypeOK /\ BatchLocal /\ [Next]_vars => BatchLocal'
<1> SUFFICES ASSUME TypeOK, BatchLocal, [Next]_vars PROVE BatchLocal'
  OBVIOUS
<1> USE DEF TypeOK, OwnerPC, BatchLocal
<1>1. CASE EnterLoop \/ OwnerStep \/ PollChannel \/ PollTimeout
  BY <1>1 DEF EnterLoop, OwnerStep, PollChannel, PollTimeout, ResetQuit,
     CheckQuit, PollWakeup, HandleRead, FinishDispatch, SwapPending,
     RunFunctor, FinishFunctor, FinishPending
<1>2. CASE OwnerCall
  BY <1>2 DEF OwnerCall, OwnerQuit, OwnerQueueInLoop, OwnerRunInLoop
<1>3. CASE \E t \in Thread : ThreadCall(t) \/ Wakeup(t)
  BY <1>3 DEF ThreadCall, ThreadQuit, ThreadQueueInLoop, Wakeup
<1>4. CASE UNCHANGED vars BY <1>4 DEF vars
<1> QED BY <1>1, <1>2, <1>3, <1>4 DEF Next

\* Every step keeps waiting functors and a pending quit covered by a wakeup.
LEMMA CoveredStep == LoopInv /\ [Next]_vars => WaitingCovered' /\ QuitCovered'
<1> SUFFICES ASSUME LoopInv, [Next]_vars
             PROVE WaitingCovered' /\ QuitCovered'
  OBVIOUS
<1> USE DEF LoopInv, TypeOK, OwnerPC, BatchLocal, WaitingCovered, QuitCovered,
            Signalled, Unserved
<1>1. CASE EnterLoop \/ ResetQuit \/ CheckQuit \/ PollWakeup \/ PollChannel
           \/ PollTimeout
  BY <1>1 DEF EnterLoop, ResetQuit, CheckQuit, PollWakeup, PollChannel,
     PollTimeout
<1>2. CASE HandleRead \/ FinishDispatch \/ SwapPending
  BY <1>2 DEF HandleRead, FinishDispatch, SwapPending
<1>3. CASE RunFunctor \/ FinishFunctor \/ FinishPending
  BY <1>3 DEF RunFunctor, FinishFunctor, FinishPending
<1>4. CASE OwnerQuit BY <1>4 DEF OwnerQuit, OwnerCode
<1>5. ASSUME NEW f \in Functor, OwnerQueueInLoop(f)
      PROVE WaitingCovered' /\ QuitCovered'
  <2>1. CASE pc = "functor" BY <1>5, <2>1 DEF OwnerQueueInLoop
  <2>2. CASE pc = "dispatch" BY <1>5, <2>2 DEF OwnerQueueInLoop
  <2>3. CASE pc = "idle"
    <3>1. Unserved' => Unserved
      <4> SUFFICES ASSUME NEW i \in DOMAIN pendingFunctors',
                          pendingFunctors'[i] \notin preloop'
                   PROVE i \in DOMAIN pendingFunctors
                         /\ pendingFunctors[i] \notin preloop
        OBVIOUS
      <4>1. pendingFunctors' = Append(pendingFunctors, f)
            /\ preloop' = preloop \cup {f}
        BY <1>5, <2>3 DEF OwnerQueueInLoop
      <4> QED BY <4>1
    <3> QED BY <1>5, <2>3, <3>1 DEF OwnerQueueInLoop
  <2> QED BY <1>5, <2>1, <2>2, <2>3 DEF OwnerQueueInLoop, OwnerCode
<1>6. ASSUME NEW f \in Functor, OwnerRunInLoop(f)
      PROVE WaitingCovered' /\ QuitCovered'
  BY <1>6 DEF OwnerRunInLoop
<1>7. ASSUME NEW t \in Thread, ThreadCall(t)
      PROVE WaitingCovered' /\ QuitCovered'
  BY <1>7 DEF ThreadCall, ThreadQuit, ThreadQueueInLoop
<1>8. ASSUME NEW t \in Thread, Wakeup(t)
      PROVE WaitingCovered' /\ QuitCovered'
  BY <1>8 DEF Wakeup
<1>9. CASE UNCHANGED vars BY <1>9 DEF vars
<1> QED
  BY <1>1, <1>2, <1>3, <1>4, <1>5, <1>6, <1>7, <1>8, <1>9
     DEF Next, OwnerStep, OwnerCall

LEMMA InitInv == Init => LoopInv
<1> SUFFICES ASSUME Init PROVE LoopInv
  OBVIOUS
<1>1. TypeOK
  <2>1. <<>> \in Seq(Functor) BY EmptySeq
  <2>2. tpc \in [Thread -> {"idle", "wakeup"}] BY DEF Init
  <2> QED BY <2>1, <2>2 DEF Init, TypeOK, OwnerPC
<1>2. BatchLocal /\ QuitCovered BY DEF Init, BatchLocal, QuitCovered
<1>3. WaitingCovered BY EmptySeq DEF Init, WaitingCovered, Unserved
<1> QED BY <1>1, <1>2, <1>3 DEF LoopInv

\* LoopInv is an invariant of the event loop.
THEOREM LoopInvariant == Spec => []LoopInv
<1>1. LoopInv /\ [Next]_vars => LoopInv'
  BY TypeStep, BatchStep, CoveredStep DEF LoopInv
<1> QED BY InitInv, <1>1, PTL DEF Spec

\* The state of the loop keeps its types.
THEOREM TypeCorrect == Spec => []TypeOK
<1>1. LoopInv => TypeOK BY DEF LoopInv
<1> QED BY LoopInvariant, <1>1, PTL

\* For any number of threads and functors, the loop never sleeps in the poll
\* with work or a quit request that nobody is going to signal.
THEOREM NoWakeupIsLost == Spec => []NoLostWakeup
<1>1. LoopInv => NoLostWakeup
  BY DEF LoopInv, WaitingCovered, QuitCovered, NoLostWakeup
<1> QED BY LoopInvariant, <1>1, PTL

-----------------------------------------------------------------------------
(* Refinement.                                                             *)

\* Taking the head of a batch takes the head of the batch and what follows.
LEMMA ConcatHeadTail ==
  ASSUME NEW S, NEW s \in Seq(S), NEW r \in Seq(S), s # <<>>
  PROVE  /\ s \o r # <<>>
         /\ Head(s \o r) = Head(s)
         /\ Tail(s \o r) = Tail(s) \o r
<1>1. /\ s \o r \in Seq(S)
      /\ Len(s \o r) = Len(s) + Len(r)
      /\ Len(s) \in Nat /\ Len(s) > 0 /\ Len(r) \in Nat
  OBVIOUS
<1>2. s \o r # <<>> BY <1>1
<1>3. Head(s \o r) = Head(s) BY <1>1, <1>2
<1>4. /\ Tail(s \o r) \in Seq(S) /\ Tail(s) \in Seq(S)
      /\ Tail(s) \o r \in Seq(S)
      /\ Len(Tail(s \o r)) = Len(s) + Len(r) - 1
      /\ Len(Tail(s) \o r) = Len(s) + Len(r) - 1
  BY <1>1, <1>2
<1>5. ASSUME NEW i \in 1 .. Len(s) + Len(r) - 1
      PROVE Tail(s \o r)[i] = (Tail(s) \o r)[i]
  BY <1>1, <1>2, <1>4
<1>6. Tail(s \o r) = Tail(s) \o r BY <1>4, <1>5, SeqEqual
<1> QED BY <1>2, <1>3, <1>6

\* A functor that occurs in neither part of the queue does not occur in it.
LEMMA NotInConcat ==
  ASSUME NEW S, NEW s \in Seq(S), NEW r \in Seq(S), NEW f,
         NotIn(f, s), NotIn(f, r)
  PROVE  FQ!NotIn(f, s \o r)
BY DEF NotIn, FQ!NotIn

\* Each step of the loop is a step of the abstract queue, or no step of it.
LEMMA QueueStep == LoopInv /\ [Next]_vars => [FQ!FQNext]_(FQ!fqVars)
<1> SUFFICES ASSUME LoopInv, [Next]_vars PROVE [FQ!FQNext]_(FQ!fqVars)
  OBVIOUS
<1> DEFINE q == functors \o pendingFunctors
<1>0. /\ functors \in Seq(Functor) /\ pendingFunctors \in Seq(Functor)
      /\ done \in Seq(Functor)
  BY DEF LoopInv, TypeOK
<1>1. CASE SwapPending
  <2>1. functors = <<>> BY <1>1 DEF SwapPending, LoopInv, BatchLocal
  <2>2. functors' = pendingFunctors /\ pendingFunctors' = <<>> /\ done' = done
    BY <1>1 DEF SwapPending
  <2>3. q' = q BY <1>0, <2>1, <2>2, ConcatEmptySeq
  <2> QED BY <2>2, <2>3 DEF FQ!fqVars
<1>2. CASE RunFunctor
  <2>1. /\ functors # <<>> /\ done' = Append(done, Head(functors))
        /\ functors' = Tail(functors) /\ pendingFunctors' = pendingFunctors
    BY <1>2 DEF RunFunctor
  <2>2. q # <<>> /\ Head(q) = Head(functors) /\ q' = Tail(q)
    BY <1>0, <2>1, ConcatHeadTail
  <2> QED BY <2>1, <2>2 DEF FQ!FQNext, FQ!RunNext
<1>3. ASSUME NEW f \in Functor, Fresh(f),
             pendingFunctors' = Append(pendingFunctors, f),
             functors' = functors, done' = done
      PROVE FQ!Submit(f)
  <2>1. q' = Append(q, f) BY <1>0, <1>3
  <2>2. FQ!NotIn(f, q) BY <1>0, <1>3, NotInConcat DEF Fresh
  <2>3. FQ!NotIn(f, done) BY <1>3 DEF Fresh, NotIn, FQ!NotIn
  <2> QED BY <1>3, <2>1, <2>2, <2>3 DEF FQ!Submit
<1>4. ASSUME NEW f \in Functor, OwnerQueueInLoop(f) PROVE FQ!Submit(f)
  BY <1>3, <1>4 DEF OwnerQueueInLoop
<1>5. ASSUME NEW t \in Thread, NEW f \in Functor, ThreadQueueInLoop(t, f)
      PROVE FQ!Submit(f)
  BY <1>3, <1>5 DEF ThreadQueueInLoop
<1>6. ASSUME NEW f \in Functor, OwnerRunInLoop(f) PROVE FQ!RunNow(f)
  <2>1. FQ!NotIn(f, q) BY <1>0, <1>6, NotInConcat DEF Fresh, OwnerRunInLoop
  <2>2. FQ!NotIn(f, done) BY <1>6 DEF Fresh, NotIn, FQ!NotIn, OwnerRunInLoop
  <2> QED BY <1>6, <2>1, <2>2 DEF FQ!RunNow, OwnerRunInLoop
<1>7. ASSUME UNCHANGED <<functors, pendingFunctors, done>>
      PROVE UNCHANGED FQ!fqVars
  BY <1>7 DEF FQ!fqVars
<1>8. CASE EnterLoop \/ ResetQuit \/ CheckQuit \/ PollWakeup \/ PollChannel
           \/ PollTimeout \/ HandleRead \/ FinishDispatch \/ FinishFunctor
           \/ FinishPending \/ OwnerQuit \/ UNCHANGED vars
  BY <1>7, <1>8 DEF EnterLoop, ResetQuit, CheckQuit, PollWakeup, PollChannel,
     PollTimeout, HandleRead, FinishDispatch, FinishFunctor, FinishPending,
     OwnerQuit, vars
<1>9. ASSUME NEW t \in Thread, ThreadQuit(t) \/ Wakeup(t)
      PROVE UNCHANGED FQ!fqVars
  BY <1>7, <1>9 DEF ThreadQuit, Wakeup
<1> QED
  BY <1>1, <1>2, <1>4, <1>5, <1>6, <1>8, <1>9
     DEF Next, OwnerStep, OwnerCall, ThreadCall, FQ!FQNext

\* The event loop implements FunctorQueue: functors run once each, in the order
\* in which they were submitted.
THEOREM LoopImplementsQueue == Spec => RunsInOrder
<1>1. Init => FQ!FQInit
  <2> SUFFICES ASSUME Init PROVE FQ!FQInit
    OBVIOUS
  <2>1. functors \o pendingFunctors = <<>>
    BY EmptySeq, ConcatEmptySeq DEF Init
  <2> QED BY <2>1 DEF Init, FQ!FQInit
<1> QED BY <1>1, LoopInvariant, QueueStep, PTL DEF Spec, RunsInOrder, FQ!FQSpec
=============================================================================
