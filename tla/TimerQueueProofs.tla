-------------------------- MODULE TimerQueueProofs --------------------------
(***************************************************************************)
(* Proofs about TimerQueue, for any timers, delays, bounds and clock steps *)
(***************************************************************************)
EXTENDS TimerQueue, TLAPS

\* Everything the queue points to has been created.
Created == timers \cup expired \cup Queued \cup freed \subseteq used

\* What is to be run has expired, and before everything that stays in _timers.
Ordered ==
  steps = 0 => /\ \A t \in toRun : due[t] <= 0
               /\ \A t \in toRun, u \in timers : due[t] <= due[u]

Inv == TypeOK /\ Created /\ OneOwner /\ ArmedInTime /\ Ordered

\* Appending to and taking from the queue of functors.
LEMMA QueueAppend ==
  ASSUME NEW q \in Seq(Timer), NEW t \in Timer,
         \A i, j \in DOMAIN q : q[i] = q[j] => i = j,
         t \notin {q[i] : i \in DOMAIN q}
  PROVE  LET r == Append(q, t)
         IN /\ r \in Seq(Timer)
            /\ {r[i] : i \in DOMAIN r} = {q[i] : i \in DOMAIN q} \cup {t}
            /\ \A i, j \in DOMAIN r : r[i] = r[j] => i = j
<1> DEFINE r == Append(q, t)
<1>1. /\ r \in Seq(Timer) /\ Len(r) = Len(q) + 1 /\ Len(q) \in Nat
      /\ DOMAIN r = 1 .. Len(q) + 1 /\ DOMAIN q = 1 .. Len(q)
      /\ \A i \in 1 .. Len(q) : r[i] = q[i]
      /\ r[Len(q) + 1] = t
  OBVIOUS
<1>2. \A i \in DOMAIN r : i \in DOMAIN q \/ i = Len(q) + 1 BY <1>1
<1>3. {r[i] : i \in DOMAIN r} = {q[i] : i \in DOMAIN q} \cup {t} BY <1>1, <1>2
<1>4. \A i, j \in DOMAIN r : r[i] = r[j] => i = j BY <1>1, <1>2
<1> QED BY <1>1, <1>3, <1>4

LEMMA QueueTail ==
  ASSUME NEW q \in Seq(Timer), q # <<>>,
         \A i, j \in DOMAIN q : q[i] = q[j] => i = j
  PROVE  LET r == Tail(q)
         IN /\ r \in Seq(Timer) /\ Head(q) \in Timer
            /\ Head(q) \in {q[i] : i \in DOMAIN q}
            /\ {r[i] : i \in DOMAIN r} \subseteq {q[i] : i \in DOMAIN q}
            /\ Head(q) \notin {r[i] : i \in DOMAIN r}
            /\ \A i, j \in DOMAIN r : r[i] = r[j] => i = j
<1> DEFINE r == Tail(q)
<1>1. /\ r \in Seq(Timer) /\ Len(q) \in Nat /\ Len(q) > 0
      /\ DOMAIN q = 1 .. Len(q) /\ DOMAIN r = 1 .. Len(q) - 1
      /\ \A i \in 1 .. Len(q) - 1 : r[i] = q[i + 1]
      /\ Head(q) = q[1] /\ q[1] \in Timer
  OBVIOUS
<1>2. \A i \in DOMAIN r : i + 1 \in DOMAIN q /\ i + 1 # 1 /\ r[i] = q[i + 1]
  BY <1>1
<1>3. 1 \in DOMAIN q BY <1>1
<1>4. {r[i] : i \in DOMAIN r} \subseteq {q[i] : i \in DOMAIN q} BY <1>2
<1>5. Head(q) \notin {r[i] : i \in DOMAIN r} BY <1>1, <1>2, <1>3
<1>6. ASSUME NEW i \in DOMAIN r, NEW j \in DOMAIN r, r[i] = r[j] PROVE i = j
  <2>1. q[i + 1] = q[j + 1] BY <1>2, <1>6
  <2>2. i + 1 = j + 1 BY <1>2, <2>1
  <2> QED BY <1>1, <2>2
<1> QED BY <1>1, <1>3, <1>4, <1>5, <1>6

\* The delay grows with the expiration, and is never 0.
LEMMA DelayProperties ==
  ASSUME NEW d \in Int, NEW e \in Int
  PROVE  /\ Delay(d) \in Nat /\ Delay(d) > 0
         /\ d <= e => Delay(d) <= Delay(e)
BY TimerAssumption DEF Delay

-----------------------------------------------------------------------------
(* Inv is inductive, one lemma for each kind of step.                      *)

\* What is the same for the two ways of putting a timer into _timers.
LEMMA InsertArms ==
  ASSUME TypeOK, NEW t \in Timer, NEW d \in Int, AddTimerInLoop(t, d),
         pc = "loop" => ArmedInTime,
         due' \in [Timer -> Int], due'[t] = d,
         \A u \in timers : due'[u] = due[u],
         UNCHANGED <<pc, active, jumped>>
  PROVE  ArmedInTime'
<1>1. CASE \A u \in timers : d < due[u]
  <2>1. fd' = Delay(d) /\ readable' = FALSE
    BY <1>1 DEF AddTimerInLoop, ResetTimerfd
  <2>2. \A u \in timers' : d <= due'[u]
    BY <1>1 DEF AddTimerInLoop, TypeOK
  <2>3. timers' \subseteq Timer BY DEF AddTimerInLoop, TypeOK
  <2>4. \A u \in timers' : fd' <= Delay(due'[u])
    BY <2>1, <2>2, <2>3, DelayProperties
  <2>5. fd' > 0 BY <2>1, DelayProperties
  <2>6. (\A u \in timers : fd <= Delay(due[u]))' BY <2>4 DEF Delay
  <2> QED BY <2>5, <2>6 DEF ArmedInTime
<1>2. CASE ~ \A u \in timers : d < due[u]
  <2>1. PICK u \in timers : ~(d < due[u]) BY <1>2
  <2>2. due[u] <= d /\ due[u] \in Int BY <2>1 DEF TypeOK
  <2>3. UNCHANGED <<fd, readable>> /\ timers' = timers \cup {t}
    BY <1>2 DEF AddTimerInLoop
  <2>4. Delay(due[u]) <= Delay(d) BY <2>2, DelayProperties
  <2>5. CASE pc = "loop" /\ fd > 0 /\ ~jumped
              /\ \A v \in timers : fd <= Delay(due[v])
    <3>1. fd <= Delay(due[u]) BY <2>5
    <3>2. fd \in Nat /\ Delay(due[u]) \in Nat /\ Delay(d) \in Nat
      BY <2>2, DelayProperties DEF TypeOK
    <3>3. fd <= Delay(d) BY <2>4, <3>1, <3>2
    <3>4. \A v \in timers' : fd' <= Delay(due'[v]) BY <2>3, <2>5, <3>3
    <3>5. (\A v \in timers : fd <= Delay(due[v]))' BY <3>4 DEF Delay
    <3> QED BY <2>3, <2>5, <3>5 DEF ArmedInTime
  <2> QED BY <2>1, <2>3, <2>5 DEF ArmedInTime
<1> QED BY <1>1, <1>2

LEMMA AddTimerStep ==
  ASSUME Inv, NEW t \in Timer, NEW d \in 0 .. MaxDelay, AddTimer(t, d)
  PROVE  Inv'
<1> USE DEF Inv
<1>1. /\ due' = [due EXCEPT ![t] = d] /\ t \notin used /\ d \in Int /\ 0 <= d
      /\ used' = used \cup {t} /\ timers' = timers \cup {t}
      /\ UNCHANGED <<queue, active, pc, expired, toRun, running, freed, steps,
                     jumped>>
  BY TimerAssumption DEF AddTimer, Create, AddTimerInLoop
<1>2. due' \in [Timer -> Int] /\ \A u \in Timer \ {t} : due'[u] = due[u]
  BY <1>1 DEF TypeOK
<1>3. TypeOK'
  <2>1. fd' \in Nat /\ readable' \in BOOLEAN
    BY <1>1, DelayProperties
       DEF AddTimer, AddTimerInLoop, ResetTimerfd, TypeOK
  <2> QED BY <1>1, <1>2, <2>1 DEF TypeOK
<1>4. t \notin timers \cup expired \cup Queued \cup freed
  BY <1>1 DEF Created
<1>5. Queued' = Queued BY <1>1 DEF Queued
<1>6. Created' BY <1>1, <1>5 DEF Created
<1>7. OneOwner' BY <1>1, <1>4, <1>5 DEF OneOwner
<1>8. ArmedInTime'
  <2>1. \A u \in timers : due'[u] = due[u] BY <1>2, <1>4 DEF TypeOK
  <2>2. due'[t] = d BY <1>1 DEF TypeOK
  <2>3. AddTimerInLoop(t, d) BY DEF AddTimer
  <2> QED BY <1>1, <1>2, <2>1, <2>2, <2>3, InsertArms
<1>9. Ordered'
  <2>1. \A u \in toRun : u # t /\ u \in Timer BY <1>4 DEF TypeOK
  <2>2. \A u \in timers : u # t /\ u \in Timer BY <1>4 DEF TypeOK
  <2>3. due'[t] = d BY <1>1 DEF TypeOK
  <2> QED BY <1>1, <1>2, <2>1, <2>2, <2>3 DEF Ordered, TypeOK
<1> QED BY <1>3, <1>6, <1>7, <1>8, <1>9

LEMMA ThreadAddTimerStep ==
  ASSUME Inv, NEW t \in Timer, NEW d \in 0 .. MaxDelay, ThreadAddTimer(t, d)
  PROVE  Inv'
<1> USE DEF Inv
<1>1. /\ due' = [due EXCEPT ![t] = d] /\ t \notin used /\ d \in Int
      /\ used' = used \cup {t} /\ queue' = Append(queue, t)
      /\ UNCHANGED <<timers, active, pc, expired, toRun, running, fd, readable,
                     freed, steps, jumped>>
  BY TimerAssumption DEF ThreadAddTimer, Create
<1>2. due' \in [Timer -> Int] /\ \A u \in Timer \ {t} : due'[u] = due[u]
  BY <1>1 DEF TypeOK
<1>3. t \notin timers \cup expired \cup Queued \cup freed
  BY <1>1 DEF Created
<1>4. queue \in Seq(Timer) /\ \A i, j \in DOMAIN queue : queue[i] = queue[j] => i = j
  BY DEF TypeOK, OneOwner
<1>5. /\ queue' \in Seq(Timer) /\ Queued' = Queued \cup {t}
      /\ \A i, j \in DOMAIN queue' : queue'[i] = queue'[j] => i = j
  BY <1>1, <1>3, <1>4, QueueAppend DEF Queued
<1>6. TypeOK' BY <1>1, <1>2, <1>5 DEF TypeOK
<1>7. Created' BY <1>1, <1>5 DEF Created
<1>8. OneOwner' BY <1>1, <1>3, <1>5 DEF OneOwner
<1>9. \A u \in timers \cup toRun : due'[u] = due[u]
  BY <1>2, <1>3 DEF TypeOK
<1>10. ArmedInTime' BY <1>1, <1>9 DEF ArmedInTime, Delay
<1>11. Ordered' BY <1>1, <1>9 DEF Ordered
<1> QED BY <1>6, <1>7, <1>8, <1>10, <1>11

LEMMA RunAddTimerStep == ASSUME Inv, RunAddTimerInLoop PROVE Inv'
<1> USE DEF Inv
<1> DEFINE t == Head(queue)
<1>1. /\ pc = "loop" /\ queue # <<>> /\ queue' = Tail(queue)
      /\ AddTimerInLoop(t, due[t]) /\ timers' = timers \cup {t}
      /\ UNCHANGED <<due, active, pc, expired, toRun, running, used, freed,
                     steps, jumped>>
  BY DEF RunAddTimerInLoop, AddTimerInLoop
<1>2. queue \in Seq(Timer) /\ \A i, j \in DOMAIN queue : queue[i] = queue[j] => i = j
  BY DEF TypeOK, OneOwner
<1>3. /\ queue' \in Seq(Timer) /\ t \in Timer /\ t \in Queued
      /\ Queued' \subseteq Queued /\ t \notin Queued'
      /\ \A i, j \in DOMAIN queue' : queue'[i] = queue'[j] => i = j
  <2> DEFINE r == Tail(queue)
  <2>1. /\ r \in Seq(Timer) /\ Head(queue) \in Timer
        /\ Head(queue) \in {queue[i] : i \in DOMAIN queue}
        /\ {r[i] : i \in DOMAIN r} \subseteq {queue[i] : i \in DOMAIN queue}
        /\ Head(queue) \notin {r[i] : i \in DOMAIN r}
        /\ \A i, j \in DOMAIN r : r[i] = r[j] => i = j
    BY <1>1, <1>2, QueueTail
  <2>2. queue' = r BY <1>1
  <2>3. Queued' = {r[i] : i \in DOMAIN r} BY <2>2 DEF Queued
  <2> HIDE DEF r
  <2> QED BY <2>1, <2>2, <2>3 DEF Queued
<1> HIDE DEF t
<1>4. due[t] \in Int BY <1>3 DEF TypeOK
<1>5. TypeOK'
  <2>1. fd' \in Nat /\ readable' \in BOOLEAN
    BY <1>1, <1>4, DelayProperties DEF AddTimerInLoop, ResetTimerfd, TypeOK
  <2> QED BY <1>1, <1>3, <2>1 DEF TypeOK
<1>6. Created' BY <1>1, <1>3 DEF Created
<1>7. OneOwner' BY <1>1, <1>3 DEF OneOwner
<1>8. ArmedInTime'
  <2>1. due' \in [Timer -> Int] /\ due'[t] = due[t]
    BY <1>1 DEF TypeOK
  <2> QED BY <1>1, <1>3, <1>4, <2>1, InsertArms
<1>9. Ordered'
  <2>1. toRun' = {} BY <1>1 DEF TypeOK
  <2> QED BY <2>1 DEF Ordered
<1> QED BY <1>5, <1>6, <1>7, <1>8, <1>9

LEMMA HandleReadStep == ASSUME Inv, HandleRead PROVE Inv'
<1> USE DEF Inv
<1> DEFINE ended == {t \in timers : due[t] <= 0}
<1>1. /\ pc = "loop" /\ pc' = "run" /\ active' = FALSE /\ readable' = FALSE
      /\ timers' = timers \ ended /\ expired' = ended /\ toRun' = ended
      /\ UNCHANGED <<due, queue, running, fd, used, freed, steps, jumped>>
  BY DEF HandleRead
<1>2. Queued' = Queued BY <1>1 DEF Queued
<1>3. TypeOK' BY <1>1 DEF TypeOK
<1>4. Created' BY <1>1, <1>2 DEF Created
<1>5. OneOwner' BY <1>1, <1>2 DEF OneOwner
<1>6. ArmedInTime' BY <1>1 DEF ArmedInTime
<1>7. Ordered'
  <2>1. \A t \in toRun' : due[t] <= 0 /\ due[t] \in Int
    BY <1>1 DEF TypeOK
  <2>2. \A u \in timers' : due[u] > 0 /\ due[u] \in Int
    BY <1>1 DEF TypeOK
  <2> QED BY <1>1, <2>1, <2>2 DEF Ordered
<1> QED BY <1>3, <1>4, <1>5, <1>6, <1>7

LEMMA ResetStep == ASSUME Inv, Reset PROVE Inv'
<1> USE DEF Inv
<1>1. /\ pc = "run" /\ toRun = {} /\ pc' = "loop"
      /\ expired' = {} /\ running' = None
      /\ timers' = timers \cup (expired \cap Repeating)
      /\ freed' = freed \cup (expired \ Repeating)
      /\ due' = [t \in Timer |-> IF t \in expired \cap Repeating THEN Period
                                                                 ELSE due[t]]
      /\ UNCHANGED <<queue, active, toRun, used, steps, jumped>>
  BY DEF Reset
<1>2. due' \in [Timer -> Int] BY <1>1, TimerAssumption DEF TypeOK
<1>3. Queued' = Queued BY <1>1 DEF Queued
<1>4. Created' BY <1>1, <1>3 DEF Created
<1>5. OneOwner' BY <1>1, <1>3 DEF OneOwner
<1>6. Ordered' BY <1>1 DEF Ordered
<1>7. timers' \subseteq Timer BY <1>1 DEF TypeOK
<1>8. CASE timers' = {} /\ UNCHANGED <<fd, readable>>
  <2>1. TypeOK' BY <1>1, <1>2, <1>8 DEF TypeOK
  <2>2. ArmedInTime' BY <1>8 DEF ArmedInTime
  <2> QED BY <1>4, <1>5, <1>6, <2>1, <2>2
<1>9. ASSUME NEW t \in timers', \A u \in timers' : due'[t] <= due'[u],
             ResetTimerfd(due'[t])
      PROVE Inv'
  <2>1. due'[t] \in Int /\ \A u \in timers' : due'[u] \in Int
    BY <1>2, <1>7
  <2>2. fd' = Delay(due'[t]) /\ readable' = FALSE
    BY <1>9 DEF ResetTimerfd
  <2>3. fd' \in Nat /\ fd' > 0 BY <2>1, <2>2, DelayProperties
  <2>4. \A u \in timers' : fd' <= Delay(due'[u])
    BY <1>9, <2>1, <2>2, DelayProperties
  <2>5. (\A u \in timers : fd <= Delay(due[u]))' BY <2>4 DEF Delay
  <2>6. ArmedInTime' BY <2>3, <2>5 DEF ArmedInTime
  <2>7. TypeOK' BY <1>1, <1>2, <1>7, <2>2, <2>3 DEF TypeOK
  <2> QED BY <1>4, <1>5, <1>6, <2>6, <2>7
<1> QED BY <1>8, <1>9 DEF Reset

\* Ticks and settings of the clock move all timers alike.
LEMMA ClockStep ==
  ASSUME Inv, NEW d \in Int, due' = Shifted(d),
         UNCHANGED <<timers, queue, active, pc, expired, toRun, running, used,
                     freed>>,
         fd' \in Nat, readable' \in BOOLEAN, jumped' \in BOOLEAN, steps' \in Nat,
         steps' = 0 => steps = 0 /\ d <= 0
  PROVE  /\ TypeOK' /\ Created' /\ OneOwner' /\ Ordered'
         /\ \A t \in timers : due'[t] = due[t] + d
<1> USE DEF Inv
<1>1. due' \in [Timer -> Int] BY DEF Shifted, TypeOK
<1>2. \A t \in timers \cup toRun : due'[t] = due[t] + d
  <2>1. timers \cup toRun \subseteq Timer /\ timers \cup toRun \subseteq Live
    BY DEF TypeOK, Created, OneOwner, Live
  <2> QED BY <2>1 DEF Shifted
<1>3. Queued' = Queued BY DEF Queued
<1>4. TypeOK' BY <1>1 DEF TypeOK
<1>5. Created' /\ OneOwner' BY <1>3 DEF Created, OneOwner
<1>6. Ordered'
  <2>1. \A t \in timers \cup toRun : due[t] \in Int BY DEF TypeOK
  <2> QED BY <1>2, <2>1 DEF Ordered
<1> QED BY <1>2, <1>4, <1>5, <1>6

LEMMA TickStep == ASSUME Inv, Tick PROVE Inv'
<1>1. /\ due' = Shifted(-1) /\ fd' = (IF fd = 0 THEN 0 ELSE fd - 1)
      /\ readable' = (readable \/ fd = 1)
      /\ UNCHANGED <<timers, queue, active, pc, expired, toRun, running, used,
                     freed, steps, jumped>>
  BY DEF Tick
<1>2. fd \in Nat /\ steps \in Nat /\ jumped \in BOOLEAN BY DEF Inv, TypeOK
<1>3. fd' \in Nat BY <1>1, <1>2
<1>4. readable' \in BOOLEAN BY <1>1
<1>5. /\ TypeOK' /\ Created' /\ OneOwner' /\ Ordered'
      /\ \A t \in timers : due'[t] = due[t] + (-1)
  BY <1>1, <1>2, <1>3, <1>4, ClockStep
<1>6. ArmedInTime'
  <2>1. CASE pc = "loop" /\ fd > 1 /\ ~jumped
             /\ \A t \in timers : fd <= Delay(due[t])
    <3>1. ASSUME NEW t \in timers PROVE fd' <= Delay(due'[t])
      <4>1. due[t] \in Int BY DEF Inv, TypeOK
      <4> QED BY <1>1, <1>2, <1>5, <2>1, <4>1, TimerAssumption DEF Delay
    <3>2. (\A t \in timers : fd <= Delay(due[t]))' BY <1>1, <3>1 DEF Delay
    <3>3. fd' > 0 BY <1>1, <1>2, <2>1
    <3> QED BY <3>2, <3>3 DEF ArmedInTime
  <2>2. CASE pc = "loop" /\ fd > 1 /\ jumped
    BY <1>1, <1>2, <2>2 DEF ArmedInTime
  <2>3. CASE fd = 1 BY <1>1, <2>3 DEF ArmedInTime
  <2>4. CASE readable \/ active \/ pc # "loop" \/ timers = {}
    BY <1>1, <2>4 DEF ArmedInTime
  <2>5. fd > 0 => fd = 1 \/ fd > 1 BY <1>2
  <2> QED BY <2>1, <2>2, <2>3, <2>4, <2>5 DEF Inv, ArmedInTime
<1> QED BY <1>5, <1>6 DEF Inv

LEMMA SetClockStep == ASSUME Inv, NEW d \in {-1, 1}, SetClock(d) PROVE Inv'
<1>1. /\ due' = Shifted(-d) /\ steps' = steps + 1
      /\ jumped' = (jumped \/ d > 0)
      /\ UNCHANGED <<timers, queue, active, pc, expired, toRun, running, fd,
                     readable, used, freed>>
  BY DEF SetClock
<1>2. fd \in Nat /\ steps \in Nat /\ readable \in BOOLEAN BY DEF Inv, TypeOK
<1>3. jumped' \in BOOLEAN BY <1>1
<1>4. -d \in Int /\ steps' # 0 /\ steps' \in Nat BY <1>1, <1>2
<1>5. /\ TypeOK' /\ Created' /\ OneOwner' /\ Ordered'
      /\ \A t \in timers : due'[t] = due[t] + (-d)
  BY <1>1, <1>2, <1>3, <1>4, ClockStep
<1>6. ArmedInTime'
  <2>1. CASE d = -1 /\ ~jumped /\ \A t \in timers : fd <= Delay(due[t])
    <3>1. ASSUME NEW t \in timers PROVE fd' <= Delay(due'[t])
      <4>1. due[t] \in Int BY DEF Inv, TypeOK
      <4>2. due'[t] = due[t] + 1 BY <1>5, <2>1
      <4> QED BY <1>1, <1>2, <2>1, <4>1, <4>2, TimerAssumption DEF Delay
    <3>2. (\A t \in timers : fd <= Delay(due[t]))' BY <1>1, <3>1 DEF Delay
    <3> QED BY <1>1, <3>2 DEF Inv, ArmedInTime
  <2>2. CASE d = 1 \/ jumped
    <3>0. d = 1 => d > 0 OBVIOUS
    <3>1. jumped' BY <1>1, <2>2, <3>0, Zenon
    <3> QED BY <1>1, <3>1 DEF Inv, ArmedInTime
  <2> QED BY <1>1, <2>1, <2>2 DEF Inv, ArmedInTime
<1> QED BY <1>5, <1>6 DEF Inv

LEMMA InvStep == Inv /\ [Next]_vars => Inv'
<1> SUFFICES ASSUME Inv, [Next]_vars PROVE Inv'
  OBVIOUS
<1>1. CASE RunAddTimerInLoop BY <1>1, RunAddTimerStep
<1>2. CASE Poll
  BY <1>2 DEF Poll, Inv, TypeOK, Created, OneOwner, Queued, ArmedInTime, Ordered
<1>3. CASE HandleRead BY <1>3, HandleReadStep
<1>4. CASE Reset BY <1>4, ResetStep
<1>5. ASSUME NEW t \in Timer, RunTimer(t) PROVE Inv'
  BY <1>5 DEF RunTimer, Inv, TypeOK, Created, OneOwner, Queued, ArmedInTime,
              Ordered
<1>6. CASE Tick BY <1>6, TickStep
<1>7. ASSUME NEW d \in {-1, 1}, SetClock(d) PROVE Inv' BY <1>7, SetClockStep
<1>8. ASSUME NEW t \in Timer, NEW d \in 0 .. MaxDelay,
             AddTimer(t, d) \/ ThreadAddTimer(t, d)
      PROVE Inv'
  BY <1>8, AddTimerStep, ThreadAddTimerStep
<1>9. CASE UNCHANGED vars
  BY <1>9 DEF vars, Inv, TypeOK, Created, OneOwner, Queued, ArmedInTime, Ordered
<1> QED
  BY <1>1, <1>2, <1>3, <1>4, <1>5, <1>6, <1>7, <1>8, <1>9 DEF Next, LoopStep

LEMMA InvInit == Init => Inv
<1> SUFFICES ASSUME Init PROVE Inv OBVIOUS
<1>1. Queued = {} BY DEF Init, Queued
<1>2. queue \in Seq(Timer) BY DEF Init
<1>3. due \in [Timer -> Int] BY DEF Init
<1>4. TypeOK BY <1>2, <1>3, Zenon DEF Init, TypeOK
<1> QED BY <1>1, <1>4 DEF Init, Inv, Created, OneOwner, ArmedInTime, Ordered

-----------------------------------------------------------------------------
\* Inv holds in every reachable state.
THEOREM TimerInvariant == Spec => []Inv
BY InvInit, InvStep, PTL DEF Spec

\* While timers wait the timerfd is armed in time for all of them, for any
\* number of timers and any delays (addTimerInLoop, reset).
THEOREM AlwaysArmed == Spec => []ArmedInTime
<1>1. Inv => ArmedInTime BY DEF Inv
<1> QED BY <1>1, TimerInvariant, PTL

\* No timer is deleted twice or used after it is deleted (getExpired, reset).
THEOREM TimersHaveOneOwner == Spec => []OneOwner
<1>1. Inv => OneOwner BY DEF Inv
<1> QED BY <1>1, TimerInvariant, PTL

\* Timers run in the order of their expirations (getExpired, handleRead).
THEOREM TimersRunInOrder == Spec => EarliestFirst
<1>1. Inv /\ [Next]_vars =>
        [\A t \in Timer : running' = t /\ running' # running /\ steps = 0
                          => \A u \in timers \cup toRun : due[t] <= due[u]]_vars
  <2> SUFFICES ASSUME Inv, [Next]_vars, NEW t \in Timer,
                      running' = t, running' # running, steps = 0,
                      NEW u \in timers \cup toRun
               PROVE  due[t] <= due[u]
    OBVIOUS
  <2>1. \A v \in Timer : RunTimer(v) => v = t BY DEF RunTimer
  <2>2. t # None BY TimerAssumption
  <2>3. RunTimer(t)
    BY <2>1, <2>2 DEF Next, LoopStep, vars, RunAddTimerInLoop, Poll, HandleRead,
       Reset, Tick, SetClock, AddTimer, ThreadAddTimer
  <2> QED BY <2>3 DEF RunTimer, Inv, Ordered
<1> QED BY <1>1, TimerInvariant, PTL DEF Spec, EarliestFirst
=============================================================================
