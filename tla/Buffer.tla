------------------------------- MODULE Buffer -------------------------------
(***************************************************************************)
(* Buffer (src/include/Buffer.h, src/src/net/Buffer.cc): the byte buffer   *)
(* of a connection, one vector with a read and a write index.              *)
(*                                                                         *)
(*   0 <= readIndex <= writeIndex <= size                                  *)
(*                                                                         *)
(* The operations are functions from buffers to buffers, written as in the *)
(* code: a buffer is a record of the vector (buf), _readIndex (r) and      *)
(* _writeIndex (w).  The element at offset i of the vector is buf[i + 1].  *)
(***************************************************************************)
EXTENDS Integers, Sequences

CONSTANTS Byte,
          Zero,            \* what a resized vector is filled with
          kCheapPrepend,
          kInitialSize,
          ExtraSize,       \* the size of extrabuf in readFd
          MaxAppend,       \* bound: bytes per append
          MaxReadable      \* bound: bytes in the buffer

ASSUME BufferAssumption == /\ Zero \in Byte
                           /\ kCheapPrepend \in Nat /\ kInitialSize \in Nat
                           /\ ExtraSize \in Nat
                           /\ MaxAppend \in Nat /\ MaxReadable \in Nat

VARIABLES b,      \* the buffer
          call,   \* the last call: the bytes it put in or gave to its caller
          peak    \* history: the most bytes that were ever readable

vars == <<b, call, peak>>

-----------------------------------------------------------------------------
(* The operations.                                                         *)

size(x) == Len(x.buf)
readableBytes(x) == x.w - x.r
writableBytes(x) == size(x) - x.w
prependableBytes(x) == x.r

\* the readable bytes, from peek() to beginWrite()
Content(x) == SubSeq(x.buf, x.r + 1, x.w)

\* a new buffer
Fresh == [buf |-> [i \in 1 .. kCheapPrepend + kInitialSize |-> Zero],
          r |-> kCheapPrepend, w |-> kCheapPrepend]

\* std::copy of data into the vector v from offset `at`
CopyInto(v, at, data) ==
  [i \in 1 .. Len(v) |->
     IF i > at /\ i <= at + Len(data) THEN data[i - at] ELSE v[i]]

\* vector::resize to n elements
Resize(v, n) == [i \in 1 .. n |-> IF i <= Len(v) THEN v[i] ELSE Zero]

\* mutant: makeSpace forgets the reserved bytes when it compares
makeSpaceTight(x, len) ==
  IF writableBytes(x) + prependableBytes(x) < len
    THEN [x EXCEPT !.buf = Resize(x.buf, x.w + len)]
    ELSE [buf |-> CopyInto(x.buf, kCheapPrepend, Content(x)),
          r   |-> kCheapPrepend,
          w   |-> kCheapPrepend + readableBytes(x)]

\* mutant: makeSpace always grows
makeSpaceGrowing(x, len) == [x EXCEPT !.buf = Resize(x.buf, x.w + len)]

\* makeSpace: grow at the end, or move the content to the front
makeSpace(x, len) ==
  IF writableBytes(x) + prependableBytes(x) < len + kCheapPrepend
    THEN [x EXCEPT !.buf = Resize(x.buf, x.w + len)]
    ELSE [buf |-> CopyInto(x.buf, kCheapPrepend, Content(x)),
          r   |-> kCheapPrepend,
          w   |-> kCheapPrepend + readableBytes(x)]

ensureWritableBytes(x, len) ==
  IF writableBytes(x) < len THEN makeSpace(x, len) ELSE x

hasWritten(x, len) == [x EXCEPT !.w = x.w + len]

append(x, data) ==
  LET y == ensureWritableBytes(x, Len(data))
  IN hasWritten([y EXCEPT !.buf = CopyInto(y.buf, y.w, data)], Len(data))

rertrieveAll(x) == [buf |-> x.buf, r |-> kCheapPrepend, w |-> kCheapPrepend]

retrieve(x, len) == IF len <= readableBytes(x) THEN [x EXCEPT !.r = x.r + len]
                                               ELSE rertrieveAll(x)

\* mutant: readFd appends the whole of extrabuf's share from the wrong place
readFdOverlapping(x, data) ==
  LET writable == writableBytes(x)
      full == [buf |-> CopyInto(x.buf, x.w, SubSeq(data, 1, writable)),
               r   |-> x.r,
               w   |-> size(x)]
  IN IF Len(data) <= writable
       THEN hasWritten([x EXCEPT !.buf = CopyInto(x.buf, x.w, data)], Len(data))
       ELSE append(full, SubSeq(data, 1, Len(data) - writable))

\* readFd: readv fills the writable part of the vector and then extrabuf; what
\* went to extrabuf is appended.  data is what the kernel had.
readFd(x, data) ==
  LET writable == writableBytes(x)
      full == [buf |-> CopyInto(x.buf, x.w, SubSeq(data, 1, writable)),
               r   |-> x.r,
               w   |-> size(x)]
  IN IF Len(data) <= writable
       THEN hasWritten([x EXCEPT !.buf = CopyInto(x.buf, x.w, data)], Len(data))
       ELSE append(full, SubSeq(data, writable + 1, Len(data)))

\* how much one readFd can take
ReadLimit(x) == writableBytes(x)
                + (IF writableBytes(x) < ExtraSize THEN ExtraSize ELSE 0)

-----------------------------------------------------------------------------
(* The calls.                                                              *)

Strings(n) == UNION {[1 .. m -> Byte] : m \in 0 .. n}

\* the buffer becomes x by a call that put in or took out data
Becomes(x, op, data) ==
  /\ readableBytes(x) <= MaxReadable
  /\ b' = x
  /\ call' = [op |-> op, data |-> data]
  /\ peak' = IF readableBytes(x) > peak THEN readableBytes(x) ELSE peak

Init == b = Fresh /\ call = [op |-> "none", data |-> <<>>] /\ peak = 0

AppendCall == \E data \in Strings(MaxAppend) :
                Becomes(append(b, data), "put", data)

\* handleRead: readv found data, at most as much as readFd has room for
ReadFd == \E data \in Strings(MaxAppend) :
            /\ Len(data) <= ReadLimit(b)
            /\ Becomes(readFd(b, data), "put", data)

\* handleWrite: writeFd, of which the kernel took n bytes from peek() on, then
\* retrieve(n); also retrieveUntil, and retrieveAsString, which copies the bytes
\* before the index moves
Retrieve == \E n \in 0 .. readableBytes(b) :
              Becomes(retrieve(b, n), "take", SubSeq(b.buf, b.r + 1, b.r + n))

\* retrieve of more than there is takes everything
RetrieveTooMuch ==
  Becomes(retrieve(b, readableBytes(b) + 1), "take", Content(b))

\* send(Buffer*) in the loop thread: all bytes are sent, then rertrieveAll
RetrieveAll == Becomes(rertrieveAll(b), "take", Content(b))

Next == AppendCall \/ ReadFd \/ Retrieve \/ RetrieveTooMuch \/ RetrieveAll

Spec == Init /\ [][Next]_vars

-----------------------------------------------------------------------------
(* Properties.                                                             *)

\* The diagram at the head of Buffer.h, with the reserved bytes at the front:
\* no sequence of calls takes an index past the next one or into the prependable
\* space, whatever makeSpace and retrieve do.
IndicesOrdered == /\ kCheapPrepend <= b.r
                  /\ b.r <= b.w
                  /\ b.w <= size(b)

\* Memory stays proportional to what was really buffered: the vector is never
\* larger than twice the most bytes ever readable (or the initial size), because
\* makeSpace moves the content down before it grows.
CapacityBounded ==
  \/ size(b) = kCheapPrepend + kInitialSize
  \/ size(b) < kCheapPrepend + 2 * peak

-----------------------------------------------------------------------------
BQ == INSTANCE ByteQueue WITH content <- Content(b), call <- call

\* A buffer is a queue of bytes: every byte appended or read from the socket
\* comes out once, unchanged and in order, through every growth and compaction
\* (append, readFd, makeSpace, retrieve).
BytesInOrder == BQ!BQSpec
=============================================================================
