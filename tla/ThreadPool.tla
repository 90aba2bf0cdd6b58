----------------------------- MODULE ThreadPool -----------------------------
(***************************************************************************)
(* ThreadPool (src/src/base/ThreadPool.cc): worker threads that share a    *)
(* queue of tasks under one mutex and one condition variable, started,     *)
(* fed and stopped by the thread that owns the pool.                       *)
(***************************************************************************)
EXTENDS Integers, Sequences

CONSTANTS Worker,  \* the threads of the pool
          Task,    \* tasks, each added once
          Nobody   \* no holder of the mutex

VARIABLES opc,      \* the owner: "new", "started", "add", "stop", "join", "end"
          adding,   \* the task add() was called with
          running,  \* _running
          queue,    \* _queue
          lock,     \* who holds _mutex: a worker, "owner" or Nobody
          wpc,      \* where each worker is (see WorkerPC)
          added     \* history: tasks added

vars == <<opc, adding, running, queue, lock, wpc, added>>

\* none: not started; init: in _threadInitCallback; lock: at the top of while
\* (true); test: at while (_queue.empty()), with the mutex; wait: in _cond.wait;
\* woken: out of it, without the mutex; done: ended
WorkerPC == {"none", "init", "lock", "test", "wait", "woken", "done"}

Init == /\ opc = "new" /\ adding \in Task /\ running = FALSE
        /\ queue = <<>> /\ lock = Nobody
        /\ wpc = [w \in Worker |-> "none"]
        /\ added = {}

-----------------------------------------------------------------------------
(* The owner.                                                              *)

Start == /\ opc = "new"
         /\ opc' = "started"
         /\ running' = TRUE
         /\ wpc' = [w \in Worker |-> "init"]
         /\ UNCHANGED <<adding, queue, lock, added>>

\* without threads add() runs the task itself
AddInline(t) == /\ opc = "new" \/ (opc = "started" /\ Worker = {})
                /\ t \notin added
                /\ added' = added \cup {t}
                /\ UNCHANGED <<opc, adding, running, queue, lock, wpc>>

AddLock(t) == /\ opc = "started" /\ Worker # {}
              /\ t \notin added
              /\ lock = Nobody
              /\ lock' = "owner"
              /\ adding' = t
              /\ opc' = "add"
              /\ UNCHANGED <<running, queue, wpc, added>>

\* push_back and notify_one, which wakes one waiting worker if there is one
AddPush ==
  /\ opc = "add"
  /\ queue' = Append(queue, adding)
  /\ added' = added \cup {adding}
  /\ IF \E w \in Worker : wpc[w] = "wait"
       THEN \E w \in Worker : /\ wpc[w] = "wait"
                              /\ wpc' = [wpc EXCEPT ![w] = "woken"]
       ELSE UNCHANGED wpc
  /\ lock' = Nobody
  /\ opc' = "started"
  /\ UNCHANGED <<adding, running>>

\* stop(), called by the owner or by the destructor, takes the mutex for all of
\* its body, wakes everybody ...
Stop == /\ opc = "started"
        /\ lock = Nobody
        /\ lock' = "owner"
        /\ running' = FALSE
        /\ wpc' = [w \in Worker |-> IF wpc[w] = "wait" THEN "woken" ELSE wpc[w]]
        /\ opc' = "join"
        /\ UNCHANGED <<adding, queue, added>>

\* ... and joins every thread before it gives the mutex back
Join == /\ opc = "join"
        /\ \A w \in Worker : wpc[w] = "done"
        /\ lock' = Nobody
        /\ opc' = "end"
        /\ UNCHANGED <<adding, running, queue, wpc, added>>

-----------------------------------------------------------------------------
(* A worker: runInThread.                                                  *)

Goes(w, from, to) == wpc[w] = from /\ wpc' = [wpc EXCEPT ![w] = to]

WorkerInit(w) == /\ Goes(w, "init", "lock")
                 /\ UNCHANGED <<opc, adding, running, queue, lock, added>>

\* an exception of the init callback ends the thread
WorkerThrows(w) == /\ Goes(w, "init", "done")
                   /\ UNCHANGED <<opc, adding, running, queue, lock, added>>

WorkerLock(w) == /\ Goes(w, "lock", "test") \/ Goes(w, "woken", "test")
                 /\ lock = Nobody
                 /\ lock' = w
                 /\ UNCHANGED <<opc, adding, running, queue, added>>

WorkerWait(w) == /\ Goes(w, "test", "wait")
                 /\ queue = <<>> /\ running
                 /\ lock' = Nobody
                 /\ UNCHANGED <<opc, adding, running, queue, added>>

WorkerReturns(w) == /\ Goes(w, "test", "done")
                    /\ queue = <<>> /\ ~running
                    /\ lock' = Nobody
                    /\ UNCHANGED <<opc, adding, running, queue, added>>

\* a task is taken from the queue and the loop begins anew: the call of the task
\* stands behind the loop, which is only left by return
WorkerTakes(w) == /\ Goes(w, "test", "lock")
                  /\ queue # <<>>
                  /\ queue' = Tail(queue)
                  /\ lock' = Nobody
                  /\ UNCHANGED <<opc, adding, running, added>>

SpuriousWakeup(w) ==
  /\ Goes(w, "wait", "woken")
  /\ UNCHANGED <<opc, adding, running, queue, lock, added>>

-----------------------------------------------------------------------------
WorkerStep(w) == \/ WorkerInit(w) \/ WorkerLock(w) \/ WorkerWait(w)
                 \/ WorkerReturns(w) \/ WorkerTakes(w)

Next == \/ Start \/ AddPush \/ Stop \/ Join
        \/ \E t \in Task : AddInline(t) \/ AddLock(t)
        \/ \E w \in Worker : \/ WorkerStep(w) \/ WorkerThrows(w)
                             \/ SpuriousWakeup(w)

\* Threads keep running and get a mutex that is free again and again
Fairness == /\ WF_vars(AddPush) /\ WF_vars(Join)
            /\ \A w \in Worker : WF_vars(WorkerStep(w)) /\ SF_vars(WorkerLock(w))

Spec == Init /\ [][Next]_vars /\ Fairness

-----------------------------------------------------------------------------
(* Properties.                                                             *)

\* A pool that is stopped, by stop() or by its destructor, comes to an end: the
\* test of the pool (src/src/base/test/test.cc) starts one, lets it go out of
\* scope and returns.
StopReturns == (opc = "join") ~> (opc = "end")
=============================================================================
