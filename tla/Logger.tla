------------------------------- MODULE Logger -------------------------------
(***************************************************************************)
(* A log statement (src/src/log/Logger.cc, LogStream.cc): the record is    *)
(* put together in the FixedBuffer of its LogStream, one << after the      *)
(* other, and handed to the output function when the statement ends.       *)
(*                                                                         *)
(* Texts are only told apart by their lengths; integers are formatted      *)
(* digit by digit, in types of Bits bits.  The lengths of the buffer and   *)
(* of the room kept for a number are parameters.                           *)
(***************************************************************************)
EXTENDS Integers, Sequences

CONSTANTS Size,             \* SIZE of the FixedBuffer, kSmallBuffer
          kMaxNumericSize,
          Bits,             \* width of the integer types
          Digits,           \* decimal digits of the largest of them
          PrefixLen,        \* time and level, as the constructor writes them
          MaxText,          \* bound: length of a text
          MaxItems          \* bound: uses of << in a statement

ASSUME LoggerAssumption ==
  /\ Size \in Nat /\ Bits \in Nat \ {0} /\ Digits \in Nat \ {0}
  /\ kMaxNumericSize \in Nat /\ kMaxNumericSize >= Digits + 2
  /\ PrefixLen \in 0 .. Size - 1
  /\ MaxText \in Nat /\ MaxItems \in Nat

\* The levels that have a macro; TRACE is 0
Levels == [DEBUG |-> 1, INFO |-> 2, WARN |-> 3, ERROR |-> 4, FATAL |-> 5]

\* the values of the signed and the unsigned type
Values == -(2 ^ (Bits - 1)) .. 2 ^ Bits - 1

\* the line of the statement in its file: any that takes two digits
LineNumber == 10

\* 10 to the power n
TenTo[n \in Nat] == IF n = 0 THEN 1 ELSE 10 * TenTo[n - 1]

\* Digits is enough for every value
ASSUME DigitsAssumption ==
  /\ {0, LineNumber} \subseteq Values
  /\ \A v \in Values : -TenTo[Digits] < v /\ v < TenTo[Digits]

Text(n) == [number |-> FALSE, arg |-> n]
Number(v) == [number |-> TRUE, arg |-> v]
Items == {Text(n) : n \in 1 .. MaxText} \cup {Number(v) : v \in Values}

VARIABLES
  logLevel, \* g_logLevel
  stage,    \* "idle", "open": in a statement, "finish": in ~Logger, "aborted"
  level,    \* _level of the statement
  buf,      \* what _buffer holds up to _cur
  rest,     \* what finish() has yet to write
  parts     \* history: each << with the place in buf of what it wrote

loggerVars == <<logLevel, stage, level, buf, rest, parts>>

LoggerInit == /\ logLevel = "INFO"
              /\ stage = "idle" /\ level = "INFO" /\ buf = <<>> /\ rest = <<>>
              /\ parts = <<>>

-----------------------------------------------------------------------------
(* LogStream.                                                              *)

\* num % 10 and num / 10 round towards zero; zero[remainder] is the digit of the
\* remainder of either sign
Remainder(n) == IF n < 0 THEN -((-n) % 10) ELSE n % 10
Quotient(n) == IF n < 0 THEN -((-n) \div 10) ELSE n \div 10
Zero(r) == IF r < 0 THEN -r ELSE r

\* mutant: the loop runs while num > 0
LoopPositive(f, n) ==
  <<Zero(Remainder(n))>> \o (IF Quotient(n) > 0 THEN f[Quotient(n)] ELSE <<>>)

\* one turn of the loop of formatIntger, and the turns after it
Loop(f, n) ==
  <<Zero(Remainder(n))>> \o (IF Quotient(n) # 0 THEN f[Quotient(n)] ELSE <<>>)

\* the digits, the last one first
Emitted[n \in Values] == Loop(Emitted, n)

Reversed(s) == [i \in 1 .. Len(s) |-> s[Len(s) + 1 - i]]

\* the sign comes last and is reversed with the digits
FormatInteger(v) ==
  Reversed(Emitted[v] \o (IF v < 0 THEN <<"-">> ELSE <<>>))

Avail == Size - Len(buf)

\* mutant: formatIntger asks for room for the digits, not for sign and '\0'
FitsLoose(item) == IF item.number THEN Avail >= Digits ELSE Avail > item.arg

\* the test of FixedBuffer::append, and of formatIntger and operator<<(double)
Fits(item) == IF item.number THEN Avail >= kMaxNumericSize ELSE Avail > item.arg

\* what << appends: all of the item or nothing
Written(item) == IF ~Fits(item) THEN <<>>
                 ELSE IF item.number THEN FormatInteger(item.arg)
                 ELSE [i \in 1 .. item.arg |-> "c"]

Put(item) ==
  /\ buf' = buf \o Written(item)
  /\ parts' = Append(parts, [item |-> item, from |-> Len(buf),
                             len |-> Len(Written(item))])

-----------------------------------------------------------------------------
(* Logger.                                                                 *)

SetLogLevel(l) == /\ logLevel' = l
                  /\ UNCHANGED <<stage, level, buf, rest, parts>>

\* the macros test the level for DEBUG and INFO only
LogsAt(l) == l \in {"DEBUG", "INFO"} => Levels[logLevel] <= Levels[l]

\* the constructors write the time and the level
Begin(l) == /\ stage = "idle"
            /\ LogsAt(l)
            /\ level' = l
            /\ buf' = [i \in 1 .. PrefixLen |-> "p"]
            /\ parts' = <<>>
            /\ stage' = "open"
            /\ UNCHANGED <<logLevel, rest>>

Insert(item) == /\ stage = "open" /\ Len(parts) < MaxItems
                /\ Put(item)
                /\ UNCHANGED <<logLevel, stage, level, rest>>

\* ~Logger calls finish: " - ", the name of the file, ':', the line number and the
\* end of the line, with the texts cut to one character
BeginFinish == /\ stage = "open"
               /\ stage' = "finish"
               /\ rest' = <<Text(1), Text(1), Text(1), Number(LineNumber), Text(1)>>
               /\ UNCHANGED <<logLevel, level, buf, parts>>

Finish == /\ stage = "finish" /\ rest # <<>>
          /\ Put(Head(rest))
          /\ rest' = Tail(rest)
          /\ UNCHANGED <<logLevel, stage, level>>

\* g_output gets the buffer; FATAL flushes and aborts
Output == /\ stage = "finish" /\ rest = <<>>
          /\ stage' = IF level = "FATAL" THEN "aborted" ELSE "idle"
          /\ UNCHANGED <<logLevel, level, buf, rest, parts>>

LoggerNext == \/ \E l \in DOMAIN Levels : SetLogLevel(l) \/ Begin(l)
              \/ \E item \in Items : Insert(item)
              \/ BeginFinish \/ Finish \/ Output

LoggerSpec == LoggerInit /\ [][LoggerNext]_loggerVars

-----------------------------------------------------------------------------
(* Properties.                                                             *)

\* _cur stays inside the buffer, with a place left for the '\0' that
\* formatIntger writes behind a number, and the room kept for a number is enough
\* for every value (append, formatIntger).
InBounds == Len(buf) < Size

\* The number that a sequence of digits stands for, most significant first
ValueOf[s \in UNION {[1 .. n -> 0 .. 9] : n \in 1 .. Digits}] ==
  IF Len(s) = 1 THEN s[1]
                ELSE 10 * ValueOf[SubSeq(s, 1, Len(s) - 1)] + s[Len(s)]

ReadsAs(t, v) ==
  LET digits == IF v < 0 THEN SubSeq(t, 2, Len(t)) ELSE t
  IN /\ v < 0 => t[1] = "-"
     /\ Len(digits) \in 1 .. Digits
     /\ \A i \in 1 .. Len(digits) : digits[i] \in 0 .. 9
     /\ digits[1] = 0 => Len(digits) = 1
     /\ ValueOf[digits] = IF v < 0 THEN -v ELSE v

\* A record consists of what was inserted, in order, each item whole or left out
\* for lack of room, the end of the line included; and a number of either sign,
\* the smallest of its type too, is written in the digits that mean it
\* (FixedBuffer::append, formatIntger, finish).
RecordFaithful ==
  \A k \in DOMAIN parts :
    LET p == parts[k]
        t == SubSeq(buf, p.from + 1, p.from + p.len)
        room == Size - p.from
    IN /\ p.from = IF k = 1 THEN PrefixLen ELSE parts[k-1].from + parts[k-1].len
       /\ IF p.item.number
            THEN \/ t = <<>> /\ room < kMaxNumericSize
                 \/ t # <<>> /\ ReadsAs(t, p.item.arg)
            ELSE \/ t = <<>> /\ room <= p.item.arg
                 \/ Len(t) = p.item.arg
=============================================================================
