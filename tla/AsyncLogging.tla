---------------------------- MODULE AsyncLogging ----------------------------
(***************************************************************************)
(* AsyncLogging (src/src/log/AsyncLogging.cc) over FixedBuffer             *)
(* (src/include/LogStream.h): front-end threads fill buffers, a back-end   *)
(* thread exchanges them for spare ones and writes them to the log file.   *)
(*                                                                         *)
(* A log line is one slot of a buffer: Logger::~Logger hands over its      *)
(* whole 4000 byte buffer, and an AsyncLogging buffer has room for 1000    *)
(* of them.  Lines are numbered in the order append() accepts them.        *)
(* FixedBuffer::length() is the size of the buffer, so that slots which    *)
(* no line was written to since the last reset() are written to the file   *)
(* too, with what they hold.                                               *)
(***************************************************************************)
EXTENDS Integers, Sequences, FiniteSets, Functions

CONSTANTS Slots,     \* room of a buffer, in lines
          Null,      \* a null BufferPtr
          Blank,     \* a slot of zeros
          Garbage,   \* a slot that was never initialised
          MaxLines   \* bound: calls of append

ASSUME LoggingAssumption == /\ Slots \in Nat /\ Slots > 1
                            /\ MaxLines \in Nat

VARIABLES running,   \* _running
          spc,       \* the owner: "new", "up", "notify", "join", "end"
          pc,        \* the back end (see BackEndPC)
          current,   \* _currentBuffer
          next,      \* _nextBuffer
          buffers,   \* _buffers
          spare1,    \* newBuffer1
          spare2,    \* newBuffer2
          accepted,  \* history: number of lines given to append
          written    \* the lines in the file, in the order they first appear

vars == <<running, spc, pc, current, next, buffers, spare1, spare2, accepted,
          written>>

\* none: not started; check: at while (_running); lock: before the mutex; wait:
\* in wait_for; woken: out of it; done: ended.  The mutex is held from lock or
\* woken to the end of a pass, and by append for all of its body: each of them
\* is one step
BackEndPC == {"none", "check", "lock", "wait", "woken", "done"}

-----------------------------------------------------------------------------
(* FixedBuffer.                                                            *)

Slot == 1 .. Slots

Buf == [data : [Slot -> 1 .. MaxLines \cup {Blank, Garbage}], cur : 0 .. Slots - 1]

ASSUME NullAssumption == Null \notin Buf
ASSUME BlankAssumption == Blank \notin 1 .. MaxLines /\ Garbage \notin 1 .. MaxLines

Filled(x) == [data |-> [i \in Slot |-> x], cur |-> 0]

avail(b) == Slots - b.cur

\* append: a line that does not fit is dropped
append(b, line) ==
  IF avail(b) > 1
    THEN [data |-> [b.data EXCEPT ![b.cur + 1] = line], cur |-> b.cur + 1]
    ELSE b

\* reset leaves the data as they are
reset(b) == [b EXCEPT !.cur = 0]

(* Buffers bs in the order they are written; a place in them is the number *)
(* of a buffer and of a slot in it.                                        *)

Before(p, q) == p[1] < q[1] \/ (p[1] = q[1] /\ p[2] < q[2])

LineAt(bs, p) == bs[p[1]].data[p[2]]

\* the places of lines that are not in the file
Fresh(bs) == {p \in (DOMAIN bs) \X Slot :
                LineAt(bs, p) \notin {Blank, Garbage} \cup Range(written)}

\* how many of the places in P come no later than p
Rank(P, p) == Cardinality({q \in P : ~Before(p, q)})

Nth(bs, k) == CHOOSE p \in Fresh(bs) : Rank(Fresh(bs), p) = k

-----------------------------------------------------------------------------
Init == /\ running = FALSE /\ spc = "new" /\ pc = "none"
        /\ current = Filled(Blank) /\ next = Filled(Blank) /\ buffers = <<>>
        /\ spare1 = Filled(Blank) /\ spare2 = Filled(Blank)
        /\ accepted = 0 /\ written = <<>>

(* Front end.                                                              *)

\* notify_one: the back end is the only one that waits
Notify == pc' = IF pc = "wait" THEN "woken" ELSE pc

\* mutant: the current buffer may be filled to its last byte
AppendLoose ==
  LET line  == accepted + 1
      taken == IF next # Null THEN next ELSE Filled(Garbage)
  IN /\ accepted < MaxLines
     /\ accepted' = line
     /\ \/ /\ avail(current) >= 1
           /\ current' = append(current, line)
           /\ UNCHANGED <<pc, next, buffers>>
        \/ /\ avail(current) < 1
           /\ buffers' = Append(buffers, current)
           /\ current' = append(taken, line)
           /\ next' = Null
           /\ Notify
     /\ UNCHANGED <<running, spc, spare1, spare2, written>>

\* append() of any thread
AppendLine ==
  LET line  == accepted + 1
      taken == IF next # Null THEN next ELSE Filled(Garbage)
  IN /\ accepted < MaxLines
     /\ accepted' = line
     /\ \/ /\ avail(current) > 1
           /\ current' = append(current, line)
           /\ UNCHANGED <<pc, next, buffers>>
        \/ /\ avail(current) <= 1
           /\ buffers' = Append(buffers, current)
           /\ current' = append(taken, line)
           /\ next' = Null
           /\ Notify
     /\ UNCHANGED <<running, spc, spare1, spare2, written>>

-----------------------------------------------------------------------------
(* The owner starts and stops the back end.                                *)

Start == /\ spc = "new"
         /\ spc' = "up" /\ running' = TRUE /\ pc' = "check"
         /\ UNCHANGED <<current, next, buffers, spare1, spare2, accepted, written>>

\* stop(), or the destructor: _running = false, without the mutex ...
Stop == /\ spc = "up"
        /\ spc' = "notify" /\ running' = FALSE
        /\ UNCHANGED <<pc, current, next, buffers, spare1, spare2, accepted,
                       written>>

\* ... then notify_one ...
StopNotify == /\ spc = "notify"
              /\ spc' = "join"
              /\ Notify
              /\ UNCHANGED <<running, current, next, buffers, spare1, spare2,
                             accepted, written>>

\* ... then join
Join == /\ spc = "join" /\ pc = "done"
        /\ spc' = "end"
        /\ UNCHANGED <<running, pc, current, next, buffers, spare1, spare2,
                       accepted, written>>

-----------------------------------------------------------------------------
(* The back end: ThreadFunc.                                               *)

CheckRunning == /\ pc = "check"
                /\ pc' = IF running THEN "lock" ELSE "done"
                /\ UNCHANGED <<running, spc, current, next, buffers, spare1,
                               spare2, accepted, written>>

WaitFor == /\ pc = "lock" /\ buffers = <<>>
           /\ pc' = "wait"
           /\ UNCHANGED <<running, spc, current, next, buffers, spare1, spare2,
                          accepted, written>>

\* mutant: wait_for without a time limit
WaitForEver == FALSE /\ UNCHANGED vars

\* after _flushInterval seconds, or for no reason
WaitEnds == /\ pc = "wait"
            /\ pc' = "woken"
            /\ UNCHANGED <<running, spc, current, next, buffers, spare1, spare2,
                           accepted, written>>

\* what the file gets to see for the first time when bs is written, in the
\* order of the slots
NewLines(bs) == [k \in 1 .. Cardinality(Fresh(bs)) |-> LineAt(bs, Nth(bs, k))]

\* mutant: one buffer is kept instead of two
PassTrimming ==
  LET toWrite == Append(buffers, current)
  IN /\ pc = "woken" \/ (pc = "lock" /\ buffers # <<>>)
     /\ pc' = "check"
     /\ current' = spare1
     /\ buffers' = <<>>
     /\ written' = written \o NewLines(toWrite)
     /\ spare1' = reset(toWrite[1])
     /\ IF next = Null THEN next' = spare2 /\ spare2' = Null
                       ELSE UNCHANGED <<next, spare2>>
     /\ UNCHANGED <<running, spc, accepted>>

\* One pass: take the filled buffers and the current one, put the spares in
\* their place, write them, and make spares of the first two.  back() of an
\* empty vector is taken for a null pointer.
Pass ==
  LET toWrite == Append(buffers, current)
      kept    == IF Len(toWrite) > 2 THEN 2 ELSE Len(toWrite)
  IN /\ pc = "woken" \/ (pc = "lock" /\ buffers # <<>>)
     /\ pc' = "check"
     /\ current' = spare1
     /\ buffers' = <<>>
     /\ written' = written \o NewLines(toWrite)
     /\ spare1' = reset(toWrite[kept])
     /\ IF next = Null
          THEN /\ next' = spare2
               /\ spare2' = IF kept = 2 THEN reset(toWrite[1]) ELSE Null
          ELSE UNCHANGED <<next, spare2>>
     /\ UNCHANGED <<running, spc, accepted>>

-----------------------------------------------------------------------------
BackEnd == CheckRunning \/ WaitFor \/ WaitEnds \/ Pass

Next == AppendLine \/ Start \/ Stop \/ StopNotify \/ Join \/ BackEnd

\* The back end keeps running and its timed wait ends; stop() goes on
Fairness == WF_vars(BackEnd) /\ WF_vars(StopNotify \/ Join)

Spec == Init /\ [][Next]_vars /\ Fairness

-----------------------------------------------------------------------------
(* Properties.                                                             *)

\* No pointer is null where it is used: there is always a current buffer, and
\* when a pass ends both spares are back, because _nextBuffer is only gone when
\* a filled buffer took its place (append, ThreadFunc).
BuffersPresent == /\ current \in Buf /\ spare1 \in Buf /\ spare2 \in Buf
                  /\ next \in Buf \cup {Null}
                  /\ \A i \in DOMAIN buffers : buffers[i] \in Buf
                  /\ next = Null => buffers # <<>>

\* the places that lines were written to since the last reset
Filling(bs) == {p \in (DOMAIN bs) \X Slot : p[2] <= bs[p[1]].cur}

\* Every line append() accepted is in the file or in one place of a buffer that
\* will be written, and new lines appear in the file in the order of acceptance,
\* although recycled buffers bring old lines along (append, ThreadFunc,
\* FixedBuffer).
LinesInOrder ==
  LET bs == Append(buffers, current)
  IN /\ written = [i \in 1 .. Len(written) |-> i]
     /\ Len(written) <= accepted
     /\ {LineAt(bs, p) : p \in Filling(bs)} = Len(written) + 1 .. accepted
     /\ \A p, q \in Filling(bs) : Before(p, q) => LineAt(bs, p) < LineAt(bs, q)

\* A line gets into the file while the back end is up, be the buffer full or
\* not (ThreadFunc).
LinesReachFile == \A i \in 1 .. MaxLines :
  (i <= accepted /\ spc = "up") ~> (i \in Range(written) \/ spc # "up")

\* stop() returns, although it may notify before the back end waits.
StopReturns == (spc = "notify") ~> (spc = "end")
=============================================================================
