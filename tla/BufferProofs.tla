---------------------------- MODULE BufferProofs ----------------------------
(***************************************************************************)
(* Proofs about Buffer, for every prepend size, initial size and length of *)
(* the data: the indices stay ordered, the capacity stays bounded, and the *)
(* buffer implements ByteQueue.                                            *)
(***************************************************************************)
EXTENDS Buffer, SequenceTheorems, TLAPS

\* The buffers the program can hold
Shape == [buf : Seq(Byte), r : Nat, w : Nat]
Ordered(x) == kCheapPrepend <= x.r /\ x.r <= x.w /\ x.w <= Len(x.buf)
Buf == {x \in Shape : Ordered(x)}

-----------------------------------------------------------------------------
(* The vector.                                                             *)

\* std::copy within bounds changes the cells it covers and no other.
LEMMA CopyProperties ==
  ASSUME NEW v \in Seq(Byte), NEW at \in Nat, NEW data \in Seq(Byte),
         at + Len(data) <= Len(v)
  PROVE  /\ CopyInto(v, at, data) \in Seq(Byte)
         /\ Len(CopyInto(v, at, data)) = Len(v)
         /\ \A i \in 1 .. Len(v) :
              CopyInto(v, at, data)[i] =
                IF i > at /\ i <= at + Len(data) THEN data[i - at] ELSE v[i]
<1> DEFINE c == CopyInto(v, at, data)
<1>1. c = [i \in 1 .. Len(v) |->
             IF i > at /\ i <= at + Len(data) THEN data[i - at] ELSE v[i]]
  BY DEF CopyInto
<1>2. ASSUME NEW i \in 1 .. Len(v)
      PROVE (IF i > at /\ i <= at + Len(data) THEN data[i - at] ELSE v[i])
              \in Byte
  <2>1. CASE i > at /\ i <= at + Len(data)
    <3>1. i - at \in 1 .. Len(data) BY <2>1
    <3> QED BY <2>1, <3>1, ElementOfSeq
  <2>2. CASE ~(i > at /\ i <= at + Len(data)) BY <2>2, ElementOfSeq
  <2> QED BY <2>1, <2>2
<1>3. c \in [1 .. Len(v) -> Byte] BY <1>1, <1>2
<1>4. Len(v) \in Nat OBVIOUS
<1>5. c \in Seq(Byte) /\ Len(c) = Len(v) BY <1>3, <1>4
<1> HIDE DEF c
<1>6. \A i \in 1 .. Len(v) : c[i] =
        IF i > at /\ i <= at + Len(data) THEN data[i - at] ELSE v[i]
  BY <1>1
<1> QED BY <1>5, <1>6 DEF c

\* resize to a larger size keeps the elements.
LEMMA ResizeProperties ==
  ASSUME NEW v \in Seq(Byte), NEW n \in Nat, n >= Len(v)
  PROVE  /\ Resize(v, n) \in Seq(Byte)
         /\ Len(Resize(v, n)) = n
         /\ \A i \in 1 .. Len(v) : Resize(v, n)[i] = v[i]
<1> DEFINE c == Resize(v, n)
<1>1. c = [i \in 1 .. n |-> IF i <= Len(v) THEN v[i] ELSE Zero]
  BY DEF Resize
<1>2. ASSUME NEW i \in 1 .. n
      PROVE (IF i <= Len(v) THEN v[i] ELSE Zero) \in Byte
  <2>1. CASE i <= Len(v)
    <3>1. i \in 1 .. Len(v) BY <2>1
    <3> QED BY <2>1, <3>1, ElementOfSeq
  <2>2. CASE ~(i <= Len(v)) BY <2>2, BufferAssumption
  <2> QED BY <2>1, <2>2
<1>3. c \in [1 .. n -> Byte] BY <1>1, <1>2
<1>4. c \in Seq(Byte) /\ Len(c) = n BY <1>3
<1> HIDE DEF c
<1>5. \A i \in 1 .. Len(v) : c[i] = v[i] BY <1>1
<1> QED BY <1>4, <1>5 DEF c

\* The readable bytes of a buffer, by index.
LEMMA ContentProperties ==
  ASSUME NEW x \in Buf
  PROVE  /\ Content(x) \in Seq(Byte)
         /\ Len(Content(x)) = x.w - x.r
         /\ x.w - x.r \in Nat
         /\ \A i \in 1 .. x.w - x.r : Content(x)[i] = x.buf[x.r + i]
<1>1. /\ x.buf \in Seq(Byte) /\ x.r \in Nat /\ x.w \in Nat
      /\ x.r <= x.w /\ x.w <= Len(x.buf) /\ Len(x.buf) \in Nat
  BY DEF Buf, Shape, Ordered
<1>2. \A i \in x.r + 1 .. x.w : x.buf[i] \in Byte BY <1>1, ElementOfSeq
<1>3. /\ SubSeq(x.buf, x.r + 1, x.w) \in Seq(Byte)
      /\ Len(SubSeq(x.buf, x.r + 1, x.w)) =
           IF x.r + 1 <= x.w THEN x.w - (x.r + 1) + 1 ELSE 0
      /\ \A i \in 1 .. x.w - (x.r + 1) + 1 :
           SubSeq(x.buf, x.r + 1, x.w)[i] = x.buf[x.r + 1 + i - 1]
  BY <1>1, <1>2, SubSeqProperties
<1>4. /\ Content(x) \in Seq(Byte) /\ Len(Content(x)) = x.w - x.r
      /\ x.w - x.r \in Nat
  BY <1>1, <1>3 DEF Content
<1>5. ASSUME NEW i \in 1 .. x.w - x.r PROVE Content(x)[i] = x.buf[x.r + i]
  <2>1. i \in 1 .. x.w - (x.r + 1) + 1 BY <1>1
  <2>2. x.r + 1 + i - 1 = x.r + i BY <1>1
  <2> QED BY <1>3, <2>1, <2>2 DEF Content
<1> QED BY <1>4, <1>5

\* Buffers with the same bytes between their indices have the same content.
LEMMA SameContent ==
  ASSUME NEW x \in Buf, NEW y \in Buf, y.w - y.r = x.w - x.r,
         \A i \in 1 .. x.w - x.r : y.buf[y.r + i] = x.buf[x.r + i]
  PROVE  Content(y) = Content(x)
<1>1. /\ Content(x) \in Seq(Byte) /\ Content(y) \in Seq(Byte)
      /\ Len(Content(x)) = x.w - x.r /\ Len(Content(y)) = x.w - x.r
  BY ContentProperties
<1>2. \A i \in 1 .. Len(Content(y)) : Content(y)[i] = Content(x)[i]
  BY <1>1, ContentProperties
<1> QED BY <1>1, <1>2, SeqEqual

-----------------------------------------------------------------------------
(* The operations.                                                         *)

\* makeSpace keeps the content and leaves room for len bytes; it grows only
\* when the free space of the vector, both ends together, is too small.
LEMMA MakeSpaceProperties ==
  ASSUME NEW x \in Buf, NEW len \in Nat, writableBytes(x) < len
  PROVE  /\ makeSpace(x, len) \in Buf
         /\ Content(makeSpace(x, len)) = Content(x)
         /\ readableBytes(makeSpace(x, len)) = readableBytes(x)
         /\ writableBytes(makeSpace(x, len)) >= len
         /\ \/ size(makeSpace(x, len)) = size(x)
            \/ size(makeSpace(x, len)) < kCheapPrepend + readableBytes(x) + 2 * len
<1> DEFINE y == makeSpace(x, len)
<1>1. /\ x.buf \in Seq(Byte) /\ x.r \in Nat /\ x.w \in Nat
      /\ kCheapPrepend <= x.r /\ x.r <= x.w /\ x.w <= Len(x.buf)
      /\ Len(x.buf) \in Nat /\ kCheapPrepend \in Nat
      /\ x = [buf |-> x.buf, r |-> x.r, w |-> x.w]
  BY BufferAssumption DEF Buf, Shape, Ordered
<1>2. CASE writableBytes(x) + prependableBytes(x) < len + kCheapPrepend
  <2> DEFINE v == Resize(x.buf, x.w + len)
  <2>1. y = [buf |-> v, r |-> x.r, w |-> x.w]
    BY <1>1, <1>2 DEF makeSpace
  <2>2. x.w + len \in Nat /\ x.w + len >= Len(x.buf)
    BY <1>1 DEF writableBytes, size
  <2>3. /\ v \in Seq(Byte) /\ Len(v) = x.w + len
        /\ \A i \in 1 .. Len(x.buf) : v[i] = x.buf[i]
    BY <1>1, <2>2, ResizeProperties
  <2> HIDE DEF v, y
  <2>4. /\ y.buf = v /\ y.r = x.r /\ y.w = x.w BY <2>1
  <2>5. y \in Buf
    BY <1>1, <2>1, <2>3, <2>4 DEF Buf, Shape, Ordered
  <2>6. ASSUME NEW i \in 1 .. x.w - x.r PROVE y.buf[y.r + i] = x.buf[x.r + i]
    <3>1. x.r + i \in 1 .. Len(x.buf) BY <1>1
    <3>2. v[x.r + i] = x.buf[x.r + i] BY <2>3, <3>1
    <3> QED BY <2>4, <3>2
  <2>7. Content(y) = Content(x) BY <2>4, <2>5, <2>6, SameContent
  <2>8. size(y) < kCheapPrepend + readableBytes(x) + 2 * len
    BY <1>1, <1>2, <2>3, <2>4
       DEF size, writableBytes, prependableBytes, readableBytes
  <2>9. writableBytes(y) >= len /\ readableBytes(y) = readableBytes(x)
    BY <1>1, <2>3, <2>4 DEF size, writableBytes, readableBytes
  <2> QED BY <2>5, <2>7, <2>8, <2>9 DEF y
<1>3. CASE ~(writableBytes(x) + prependableBytes(x) < len + kCheapPrepend)
  <2> DEFINE n == x.w - x.r
             v == CopyInto(x.buf, kCheapPrepend, Content(x))
  <2>1. y = [buf |-> v, r |-> kCheapPrepend, w |-> kCheapPrepend + n]
    BY <1>3 DEF makeSpace, readableBytes
  <2>2. /\ Content(x) \in Seq(Byte) /\ Len(Content(x)) = n /\ n \in Nat
        /\ \A i \in 1 .. n : Content(x)[i] = x.buf[x.r + i]
    BY ContentProperties
  <2>3. kCheapPrepend + n <= Len(x.buf) BY <1>1
  <2>4. /\ v \in Seq(Byte) /\ Len(v) = Len(x.buf)
        /\ \A i \in 1 .. Len(x.buf) : v[i] =
             IF i > kCheapPrepend /\ i <= kCheapPrepend + n
               THEN Content(x)[i - kCheapPrepend] ELSE x.buf[i]
    BY <1>1, <2>2, <2>3, CopyProperties
  <2> HIDE DEF v, y
  <2>5. y.buf = v /\ y.r = kCheapPrepend /\ y.w = kCheapPrepend + n
    BY <2>1
  <2>6. y \in Buf
    BY <1>1, <2>1, <2>2, <2>3, <2>4, <2>5 DEF Buf, Shape, Ordered
  <2>7. ASSUME NEW i \in 1 .. n PROVE y.buf[y.r + i] = x.buf[x.r + i]
    <3> DEFINE j == kCheapPrepend + i
    <3>1. /\ j \in 1 .. Len(x.buf) /\ j > kCheapPrepend
          /\ j <= kCheapPrepend + n /\ j - kCheapPrepend = i
      BY <1>1, <2>2, <2>3
    <3>2. y.buf[y.r + i] = v[j] BY <2>5
    <3> HIDE DEF j
    <3>3. v[j] = Content(x)[j - kCheapPrepend] BY <2>4, <3>1
    <3>4. Content(x)[i] = x.buf[x.r + i] BY <2>2
    <3> QED BY <3>1, <3>2, <3>3, <3>4
  <2>8. y.w - y.r = n BY <1>1, <2>2, <2>5
  <2>9. Content(y) = Content(x) BY <2>6, <2>7, <2>8, SameContent
  <2>10. size(y) = size(x) BY <2>4, <2>5 DEF size
  <2>11. writableBytes(y) >= len /\ readableBytes(y) = readableBytes(x)
    BY <1>1, <1>3, <2>2, <2>4, <2>5
       DEF writableBytes, prependableBytes, readableBytes, size
  <2> QED BY <2>6, <2>9, <2>10, <2>11 DEF y
<1> QED BY <1>2, <1>3

\* Writing data at the write index of a buffer with room for it appends it.
LEMMA WriteProperties ==
  ASSUME NEW x \in Buf, NEW data \in Seq(Byte), Len(data) <= writableBytes(x)
  PROVE  LET y == hasWritten([x EXCEPT !.buf = CopyInto(x.buf, x.w, data)],
                             Len(data))
         IN /\ y \in Buf
            /\ Content(y) = Content(x) \o data
            /\ y.buf = CopyInto(x.buf, x.w, data)
            /\ y.r = x.r /\ y.w = x.w + Len(data)
            /\ size(y) = size(x)
<1> DEFINE v == CopyInto(x.buf, x.w, data)
           y == hasWritten([x EXCEPT !.buf = v], Len(data))
           n == x.w - x.r
<1>1. /\ x.buf \in Seq(Byte) /\ x.r \in Nat /\ x.w \in Nat
      /\ kCheapPrepend <= x.r /\ x.r <= x.w /\ x.w <= Len(x.buf)
      /\ Len(x.buf) \in Nat /\ Len(data) \in Nat /\ kCheapPrepend \in Nat
      /\ x = [buf |-> x.buf, r |-> x.r, w |-> x.w]
  BY BufferAssumption DEF Buf, Shape, Ordered
<1>2. x.w + Len(data) <= Len(x.buf) BY <1>1 DEF writableBytes, size
<1>3. /\ v \in Seq(Byte) /\ Len(v) = Len(x.buf)
      /\ \A i \in 1 .. Len(x.buf) : v[i] =
           IF i > x.w /\ i <= x.w + Len(data) THEN data[i - x.w] ELSE x.buf[i]
  BY <1>1, <1>2, CopyProperties
<1>4. y = [buf |-> v, r |-> x.r, w |-> x.w + Len(data)]
  <2> HIDE DEF v
  <2> DEFINE u == [x EXCEPT !.buf = v]
  <2>1. u = [buf |-> v, r |-> x.r, w |-> x.w] BY <1>1
  <2>2. y = [u EXCEPT !.w = u.w + Len(data)] BY DEF hasWritten
  <2> HIDE DEF u
  <2> QED BY <2>1, <2>2
<1> HIDE DEF v, y
<1>5. y.buf = v /\ y.r = x.r /\ y.w = x.w + Len(data) BY <1>4
<1>6. y \in Buf BY <1>1, <1>2, <1>3, <1>4, <1>5 DEF Buf, Shape, Ordered
<1>7. /\ Content(x) \in Seq(Byte) /\ Len(Content(x)) = n /\ n \in Nat
      /\ \A i \in 1 .. n : Content(x)[i] = x.buf[x.r + i]
  BY ContentProperties
<1>8. /\ Content(y) \in Seq(Byte) /\ Len(Content(y)) = y.w - y.r
      /\ \A i \in 1 .. y.w - y.r : Content(y)[i] = y.buf[y.r + i]
  BY <1>6, ContentProperties
<1>9. y.w - y.r = n + Len(data) BY <1>1, <1>5
<1>10. /\ Content(x) \o data \in Seq(Byte)
       /\ Len(Content(x) \o data) = n + Len(data)
       /\ \A i \in 1 .. n + Len(data) : (Content(x) \o data)[i] =
            IF i <= n THEN Content(x)[i] ELSE data[i - n]
  <2> DEFINE c == Content(x)
  <2> HIDE DEF c
  <2>1. c \in Seq(Byte) /\ Len(c) = n BY <1>7 DEF c
  <2>2. /\ c \o data \in Seq(Byte) /\ Len(c \o data) = Len(c) + Len(data)
        /\ \A i \in 1 .. Len(c) + Len(data) : (c \o data)[i] =
             IF i <= Len(c) THEN c[i] ELSE data[i - Len(c)]
    BY <2>1, ConcatProperties
  <2> QED BY <2>1, <2>2, Zenon DEF c
<1>11. ASSUME NEW i \in 1 .. n + Len(data)
       PROVE Content(y)[i] = (Content(x) \o data)[i]
  <2>1. x.r + i \in 1 .. Len(x.buf) BY <1>1, <1>2, <1>7
  <2>2. Content(y)[i] = v[x.r + i] BY <1>5, <1>8, <1>9
  <2>3. CASE i <= n
    <3>1. ~(x.r + i > x.w) BY <1>1, <2>3
    <3>2. v[x.r + i] = x.buf[x.r + i] BY <1>3, <2>1, <3>1
    <3> QED BY <1>7, <1>10, <2>2, <2>3, <3>2
  <2>4. CASE ~(i <= n)
    <3> DEFINE j == x.r + i
    <3>1. j > x.w /\ j <= x.w + Len(data) /\ j - x.w = i - n
      BY <1>1, <1>7, <2>4
    <3>2. j \in 1 .. Len(x.buf) BY <2>1
    <3>3. Content(y)[i] = v[j] BY <2>2
    <3> HIDE DEF j
    <3>4. v[j] = data[j - x.w] BY <1>3, <3>1, <3>2
    <3>5. (Content(x) \o data)[i] = data[i - n] BY <1>10, <2>4
    <3> QED BY <3>1, <3>3, <3>4, <3>5
  <2> QED BY <2>3, <2>4
<1>12. Content(y) = Content(x) \o data
  BY <1>8, <1>9, <1>10, <1>11, SeqEqual
<1>13. size(y) = size(x) BY <1>3, <1>5 DEF size
<1> QED BY <1>5, <1>6, <1>12, <1>13 DEF v, y

\* append puts the data behind the content.
LEMMA AppendCorrect ==
  ASSUME NEW x \in Buf, NEW data \in Seq(Byte)
  PROVE  /\ append(x, data) \in Buf
         /\ Content(append(x, data)) = Content(x) \o data
         /\ readableBytes(append(x, data)) = readableBytes(x) + Len(data)
         /\ \/ size(append(x, data)) = size(x)
            \/ size(append(x, data))
                 < kCheapPrepend + readableBytes(x) + 2 * Len(data)
<1> DEFINE y == ensureWritableBytes(x, Len(data))
           z == hasWritten([y EXCEPT !.buf = CopyInto(y.buf, y.w, data)],
                           Len(data))
<1>0. Len(data) \in Nat OBVIOUS
<1>1. /\ y \in Buf /\ Content(y) = Content(x)
      /\ readableBytes(y) = readableBytes(x)
      /\ Len(data) <= writableBytes(y)
      /\ \/ size(y) = size(x)
         \/ size(y) < kCheapPrepend + readableBytes(x) + 2 * Len(data)
  <2>1. CASE writableBytes(x) < Len(data)
    <3>1. y = makeSpace(x, Len(data)) BY <2>1 DEF ensureWritableBytes
    <3>2. y \in Buf BY <1>0, <2>1, <3>1, MakeSpaceProperties
    <3>3. writableBytes(y) \in Int
      BY <3>2 DEF writableBytes, size, Buf, Shape
    <3> QED BY <1>0, <2>1, <3>1, <3>3, MakeSpaceProperties
  <2>2. CASE ~(writableBytes(x) < Len(data))
    <3>1. y = x BY <2>2 DEF ensureWritableBytes
    <3>2. writableBytes(x) \in Int BY DEF writableBytes, size, Buf, Shape
    <3> QED BY <1>0, <2>2, <3>1, <3>2
  <2> QED BY <2>1, <2>2
<1>2. append(x, data) = z BY DEF append
<1> HIDE DEF y
<1>3. /\ z \in Buf /\ Content(z) = Content(y) \o data
      /\ z.r = y.r /\ z.w = y.w + Len(data) /\ size(z) = size(y)
  BY <1>1, WriteProperties
<1> HIDE DEF z
<1>4. readableBytes(z) = readableBytes(y) + Len(data)
  BY <1>0, <1>1, <1>3 DEF readableBytes, Buf, Shape
<1> QED BY <1>1, <1>2, <1>3, <1>4

\* readFd puts what the kernel gave behind the content, in order, also when part
\* of it went through extrabuf.
LEMMA ReadFdCorrect ==
  ASSUME NEW x \in Buf, NEW data \in Seq(Byte)
  PROVE  /\ readFd(x, data) \in Buf
         /\ Content(readFd(x, data)) = Content(x) \o data
         /\ readableBytes(readFd(x, data)) = readableBytes(x) + Len(data)
         /\ \/ size(readFd(x, data)) = size(x)
            \/ size(readFd(x, data))
                 < kCheapPrepend + readableBytes(x) + 2 * Len(data)
<1> DEFINE m == writableBytes(x)
<1>1. /\ x.buf \in Seq(Byte) /\ x.r \in Nat /\ x.w \in Nat
      /\ kCheapPrepend <= x.r /\ x.r <= x.w /\ x.w <= Len(x.buf)
      /\ Len(x.buf) \in Nat /\ Len(data) \in Nat /\ kCheapPrepend \in Nat
      /\ x = [buf |-> x.buf, r |-> x.r, w |-> x.w]
      /\ m = Len(x.buf) - x.w /\ m \in Nat
  BY BufferAssumption DEF Buf, Shape, Ordered, writableBytes, size
<1>2. CASE Len(data) <= m
  <2> DEFINE y == hasWritten([x EXCEPT !.buf = CopyInto(x.buf, x.w, data)],
                             Len(data))
  <2>1. readFd(x, data) = y BY <1>2 DEF readFd
  <2>2. /\ y \in Buf /\ Content(y) = Content(x) \o data
        /\ y.r = x.r /\ y.w = x.w + Len(data) /\ size(y) = size(x)
    BY <1>2, WriteProperties
  <2> HIDE DEF y
  <2>3. readableBytes(y) = readableBytes(x) + Len(data)
    BY <1>1, <2>2 DEF readableBytes
  <2> QED BY <2>1, <2>2, <2>3
<1>3. CASE ~(Len(data) <= m)
  <2> DEFINE d1 == SubSeq(data, 1, m)
             d2 == SubSeq(data, m + 1, Len(data))
             full == [buf |-> CopyInto(x.buf, x.w, d1), r |-> x.r, w |-> size(x)]
             put == hasWritten([x EXCEPT !.buf = CopyInto(x.buf, x.w, d1)],
                               Len(d1))
  <2> HIDE DEF m
  <2>1. /\ \A i \in 1 .. m : data[i] \in Byte
        /\ \A i \in m + 1 .. Len(data) : data[i] \in Byte
    BY <1>1, <1>3, ElementOfSeq
  <2>2. d1 \in Seq(Byte) /\ Len(d1) = m
    BY <1>1, <2>1, SubSeqProperties
  <2>3. d2 \in Seq(Byte) /\ Len(d2) = Len(data) - m
    BY <1>1, <1>3, <2>1, SubSeqProperties
  <2>4. d1 \o d2 = SubSeq(data, 1, Len(data))
    <3>1. 1 \in 1 .. Len(data) + 1 /\ m \in 0 .. Len(data)
          /\ Len(data) \in m .. Len(data) /\ 1 - 1 = 0
      BY <1>1, <1>3
    <3> QED BY <3>1, ConcatAdjacentSubSeq
  <2>5. d1 \o d2 = data BY <2>4, SubSeqFull
  <2>6. readFd(x, data) = append(full, d2) BY <1>3 DEF readFd, m
  <2> HIDE DEF d1, d2
  <2>7. /\ put \in Buf /\ Content(put) = Content(x) \o d1
        /\ put.buf = CopyInto(x.buf, x.w, d1)
        /\ put.r = x.r /\ put.w = x.w + Len(d1) /\ size(put) = size(x)
    <3>1. Len(d1) <= writableBytes(x) BY <1>1, <2>2 DEF m
    <3> QED BY <2>2, <3>1, WriteProperties
  <2>8. full = put
    <3> DEFINE v == CopyInto(x.buf, x.w, d1)
    <3> HIDE DEF v
    <3>1. full = [buf |-> v, r |-> x.r, w |-> size(x)] BY DEF v
    <3>2. size(x) = x.w + Len(d1) BY <1>1, <2>2 DEF size
    <3> HIDE DEF full, put
    <3>3. put = [buf |-> put.buf, r |-> put.r, w |-> put.w]
      BY <2>7 DEF Buf, Shape
    <3> QED BY <2>7, <3>1, <3>2, <3>3 DEF v
  <2> HIDE DEF full, put
  <2>9. /\ append(full, d2) \in Buf
        /\ Content(append(full, d2)) = Content(full) \o d2
        /\ readableBytes(append(full, d2)) = readableBytes(full) + Len(d2)
        /\ \/ size(append(full, d2)) = size(full)
           \/ size(append(full, d2))
                < kCheapPrepend + readableBytes(full) + 2 * Len(d2)
    BY <2>3, <2>7, <2>8, AppendCorrect
  <2>10. Content(x) \o data = (Content(x) \o d1) \o d2
    <3> DEFINE c == Content(x)
    <3>1. c \in Seq(Byte) BY ContentProperties
    <3> HIDE DEF c
    <3>2. c \in Seq(Byte) /\ d1 \in Seq(Byte) /\ d2 \in Seq(Byte)
      BY <2>2, <2>3, <3>1
    <3>3. (c \o d1) \o d2 = c \o (d1 \o d2) BY ONLY <3>2, ConcatAssociative
    <3> QED BY <2>5, <3>3 DEF c
  <2>11. readableBytes(full) = readableBytes(x) + m
    BY <1>1, <2>2, <2>7, <2>8 DEF readableBytes
  <2>12. readableBytes(full) + Len(d2) = readableBytes(x) + Len(data)
    BY <1>1, <2>3, <2>11 DEF readableBytes
  <2>13. size(append(full, d2)) \in Nat BY <2>9 DEF size, Buf, Shape
  <2>14. readableBytes(x) \in Nat BY <1>1 DEF readableBytes
  <2>15. size(full) = size(x) BY <2>7, <2>8
  <2>16. \/ size(append(full, d2)) = size(x)
         \/ size(append(full, d2))
              < kCheapPrepend + (readableBytes(x) + m) + 2 * (Len(data) - m)
    BY <2>3, <2>9, <2>11, <2>15
  <2>17. \/ size(append(full, d2)) = size(x)
         \/ size(append(full, d2))
              < kCheapPrepend + readableBytes(x) + 2 * Len(data)
    <3>1. ASSUME NEW k \in Nat, NEW r \in Nat, NEW l \in Nat, NEW h \in Nat,
                 NEW s \in Nat, s < k + (r + h) + 2 * (l - h)
          PROVE s < k + r + 2 * l
      BY <3>1
    <3>2. Len(data) \in Nat /\ m \in Nat /\ kCheapPrepend \in Nat BY <1>1
    <3> QED BY <2>13, <2>14, <2>16, <3>1, <3>2
  <2> QED BY <2>6, <2>7, <2>8, <2>9, <2>10, <2>12, <2>17
<1> QED BY <1>2, <1>3

\* retrieve of n readable bytes drops them from the front of the content.
LEMMA RetrieveCorrect ==
  ASSUME NEW x \in Buf, NEW n \in 0 .. readableBytes(x)
  PROVE  /\ retrieve(x, n) \in Buf
         /\ Content(retrieve(x, n))
              = SubSeq(Content(x), n + 1, Len(Content(x)))
         /\ SubSeq(x.buf, x.r + 1, x.r + n) = SubSeq(Content(x), 1, n)
         /\ size(retrieve(x, n)) = size(x)
<1> DEFINE c == Content(x)
           y == retrieve(x, n)
<1>1. /\ x.buf \in Seq(Byte) /\ x.r \in Nat /\ x.w \in Nat /\ n \in Nat
      /\ kCheapPrepend <= x.r /\ x.r <= x.w /\ x.w <= Len(x.buf)
      /\ Len(x.buf) \in Nat /\ kCheapPrepend \in Nat /\ n <= x.w - x.r
      /\ x = [buf |-> x.buf, r |-> x.r, w |-> x.w]
  BY BufferAssumption DEF Buf, Shape, Ordered, readableBytes
<1>2. y = [buf |-> x.buf, r |-> x.r + n, w |-> x.w]
  BY <1>1 DEF retrieve, readableBytes
<1> HIDE DEF y
<1>3. y.buf = x.buf /\ y.r = x.r + n /\ y.w = x.w BY <1>2
<1>4. y \in Buf BY <1>1, <1>2, <1>3 DEF Buf, Shape, Ordered
<1>5. /\ c \in Seq(Byte) /\ Len(c) = x.w - x.r
      /\ \A i \in 1 .. x.w - x.r : c[i] = x.buf[x.r + i]
  BY ContentProperties
<1>6. /\ Content(y) \in Seq(Byte) /\ Len(Content(y)) = y.w - y.r
      /\ \A i \in 1 .. y.w - y.r : Content(y)[i] = y.buf[y.r + i]
  BY <1>4, ContentProperties
<1> HIDE DEF c
<1>7. Content(y) = SubSeq(c, n + 1, Len(c))
  <2> DEFINE t == SubSeq(c, n + 1, Len(c))
  <2>0. /\ n + 1 \in Int /\ Len(c) \in Int
        /\ \A i \in n + 1 .. Len(c) : c[i] \in Byte
    BY <1>1, <1>5, ElementOfSeq
  <2>1. /\ t \in Seq(Byte)
        /\ Len(t) = IF n + 1 <= Len(c) THEN Len(c) - (n + 1) + 1 ELSE 0
        /\ \A i \in 1 .. Len(c) - (n + 1) + 1 : t[i] = c[n + 1 + i - 1]
    BY <2>0, SubSeqProperties
  <2> HIDE DEF t
  <2>2. Len(t) = x.w - x.r - n /\ Len(Content(y)) = x.w - x.r - n
    BY <1>1, <1>3, <1>5, <1>6, <2>1
  <2>3. ASSUME NEW i \in 1 .. x.w - x.r - n PROVE Content(y)[i] = t[i]
    <3>1. i \in 1 .. y.w - y.r /\ i \in 1 .. Len(c) - (n + 1) + 1
          /\ n + i \in 1 .. x.w - x.r /\ n + 1 + i - 1 = n + i
          /\ x.r + n + i = x.r + (n + i)
      BY <1>1, <1>3, <1>5
    <3>2. Content(y)[i] = x.buf[x.r + n + i] BY <1>3, <1>6, <3>1
    <3>3. t[i] = c[n + i] BY <2>1, <3>1
    <3>4. c[n + i] = x.buf[x.r + (n + i)] BY <1>5, <3>1
    <3> QED BY <3>1, <3>2, <3>3, <3>4
  <2> QED BY <1>6, <2>1, <2>2, <2>3, SeqEqual DEF t
<1>8. SubSeq(x.buf, x.r + 1, x.r + n) = SubSeq(c, 1, n)
  <2> DEFINE u == SubSeq(x.buf, x.r + 1, x.r + n)
             t == SubSeq(c, 1, n)
  <2>1. /\ \A i \in x.r + 1 .. x.r + n : x.buf[i] \in Byte
        /\ \A i \in 1 .. n : c[i] \in Byte
    BY <1>1, <1>5, ElementOfSeq
  <2>2. /\ u \in Seq(Byte)
        /\ Len(u) = IF x.r + 1 <= x.r + n THEN x.r + n - (x.r + 1) + 1 ELSE 0
        /\ \A i \in 1 .. x.r + n - (x.r + 1) + 1 : u[i] = x.buf[x.r + 1 + i - 1]
    BY <1>1, <2>1, SubSeqProperties
  <2>3. /\ t \in Seq(Byte) /\ Len(t) = IF 1 <= n THEN n - 1 + 1 ELSE 0
        /\ \A i \in 1 .. n - 1 + 1 : t[i] = c[1 + i - 1]
    BY <1>1, <2>1, SubSeqProperties
  <2> HIDE DEF u, t
  <2>4. Len(u) = n /\ Len(t) = n BY <1>1, <2>2, <2>3
  <2>5. ASSUME NEW i \in 1 .. n PROVE u[i] = t[i]
    <3>1. i \in 1 .. x.r + n - (x.r + 1) + 1 /\ i \in 1 .. n - 1 + 1
          /\ x.r + 1 + i - 1 = x.r + i /\ 1 + i - 1 = i
          /\ i \in 1 .. x.w - x.r
      BY <1>1
    <3>2. u[i] = x.buf[x.r + i] BY <2>2, <3>1
    <3>3. t[i] = c[i] BY <2>3, <3>1
    <3> QED BY <1>5, <3>1, <3>2, <3>3
  <2> QED BY <2>2, <2>3, <2>4, <2>5, SeqEqual DEF u, t
<1>9. size(y) = size(x) BY <1>3 DEF size
<1> QED BY <1>4, <1>7, <1>8, <1>9 DEF c, y

\* rertrieveAll empties the buffer.
LEMMA RetrieveAllCorrect ==
  ASSUME NEW x \in Buf
  PROVE  /\ rertrieveAll(x) \in Buf
         /\ Content(rertrieveAll(x)) = <<>>
         /\ size(rertrieveAll(x)) = size(x)
<1> DEFINE y == rertrieveAll(x)
<1>1. /\ x.buf \in Seq(Byte) /\ Len(x.buf) \in Nat /\ kCheapPrepend \in Nat
      /\ kCheapPrepend <= Len(x.buf)
      /\ x = [buf |-> x.buf, r |-> x.r, w |-> x.w]
  BY BufferAssumption DEF Buf, Shape, Ordered
<1>2. y = [buf |-> x.buf, r |-> kCheapPrepend, w |-> kCheapPrepend]
  BY <1>1 DEF rertrieveAll
<1> HIDE DEF y
<1>3. y.buf = x.buf /\ y.r = kCheapPrepend /\ y.w = kCheapPrepend BY <1>2
<1>4. y \in Buf BY <1>1, <1>2, <1>3 DEF Buf, Shape, Ordered
<1>5. Content(y) = <<>>
  <2>1. kCheapPrepend < kCheapPrepend + 1 BY <1>1
  <2> QED BY <1>1, <1>3, <2>1, SubSeqEmpty DEF Content
<1>6. size(y) = size(x) BY <1>3 DEF size
<1> QED BY <1>4, <1>5, <1>6 DEF y

-----------------------------------------------------------------------------
(* The invariant and the refinement.                                       *)

BufferInv == /\ b \in Buf
             /\ call.data \in Seq(Byte)
             /\ peak \in Nat
             /\ CapacityBounded

\* The strings a caller may append are sequences of bytes.
LEMMA StringsAreSequences ==
  ASSUME NEW n \in Nat, NEW data \in Strings(n)
  PROVE  data \in Seq(Byte)
<1> PICK m \in 0 .. n : data \in [1 .. m -> Byte] BY DEF Strings
<1> QED OBVIOUS

\* A call that grows the vector only as append and readFd do keeps the
\* invariant.
LEMMA BecomesStep ==
  ASSUME BufferInv, NEW x \in Buf, NEW op, NEW data \in Seq(Byte),
         Becomes(x, op, data),
         NEW len \in Nat, readableBytes(x) \in Nat,
         \/ size(x) = size(b)
         \/ /\ readableBytes(x) = readableBytes(b) + len
            /\ size(x) < kCheapPrepend + readableBytes(b) + 2 * len
  PROVE  BufferInv'
<1>1. /\ b' = x /\ call' = [op |-> op, data |-> data]
      /\ peak' = IF readableBytes(x) > peak THEN readableBytes(x) ELSE peak
  BY DEF Becomes
<1>2. call'.data \in Seq(Byte) BY <1>1
<1>3. /\ peak' \in Nat /\ peak' >= peak /\ peak' >= readableBytes(x)
  BY <1>1 DEF BufferInv
<1>4. /\ size(x) \in Nat /\ size(b) \in Nat /\ kCheapPrepend \in Nat
      /\ kInitialSize \in Nat /\ readableBytes(b) \in Nat
  <2>1. b \in Buf BY DEF BufferInv
  <2>2. readableBytes(b) \in Nat BY <2>1, ContentProperties DEF readableBytes
  <2>3. size(x) \in Nat /\ size(b) \in Nat BY <2>1 DEF size, Buf, Shape
  <2> QED BY <2>2, <2>3, BufferAssumption
<1>5. \/ size(x) = kCheapPrepend + kInitialSize
      \/ size(x) < kCheapPrepend + 2 * peak'
  <2>1. CASE size(x) = size(b)
    BY <1>3, <1>4, <2>1 DEF BufferInv, CapacityBounded
  <2>2. CASE /\ readableBytes(x) = readableBytes(b) + len
             /\ size(x) < kCheapPrepend + readableBytes(b) + 2 * len
    BY <1>3, <1>4, <2>2
  <2> QED BY <2>1, <2>2
<1>6. CapacityBounded' BY <1>1, <1>5 DEF CapacityBounded, size
<1> QED BY <1>1, <1>2, <1>3, <1>6 DEF BufferInv

\* Every call is a Put or a Take of the byte queue and keeps the invariant.
LEMMA CallStep ==
  ASSUME BufferInv, Next
  PROVE  BufferInv' /\ (BQ!Put \/ BQ!Take)
<1> DEFINE c == Content(b)
<1>0. /\ b \in Buf /\ MaxAppend \in Nat
      /\ c \in Seq(Byte) /\ Len(c) = readableBytes(b) /\ readableBytes(b) \in Nat
  BY ContentProperties, BufferAssumption DEF BufferInv, readableBytes
<1>1. ASSUME NEW data \in Seq(Byte), NEW x \in Buf,
             Content(x) = Content(b) \o data,
             readableBytes(x) = readableBytes(b) + Len(data),
             \/ size(x) = size(b)
             \/ size(x) < kCheapPrepend + readableBytes(b) + 2 * Len(data),
             Becomes(x, "put", data)
      PROVE  BufferInv' /\ BQ!Put
  <2>1. Len(data) \in Nat /\ readableBytes(x) \in Nat BY <1>0, <1>1
  <2>2. BufferInv' BY <1>1, <2>1, BecomesStep
  <2>3. b' = x /\ call'.op = "put" /\ call'.data = data
    BY <1>1 DEF Becomes
  <2> QED BY <1>1, <2>2, <2>3 DEF BQ!Put
<1>2. ASSUME NEW n \in 0 .. readableBytes(b), NEW x \in Buf, NEW data,
             Content(x) = SubSeq(c, n + 1, Len(c)),
             data = SubSeq(c, 1, n), size(x) = size(b),
             Becomes(x, "take", data)
      PROVE  BufferInv' /\ BQ!Take
  <2>1. data \in Seq(Byte)
    <3>1. \A i \in 1 .. n : c[i] \in Byte BY <1>0, ElementOfSeq
    <3>2. n \in Int BY <1>0
    <3> QED BY <1>2, <3>1, <3>2, SubSeqProperties
  <2>2. readableBytes(x) \in Nat BY ContentProperties DEF readableBytes
  <2>3. BufferInv' BY <1>2, <2>1, <2>2, BecomesStep
  <2>4. b' = x /\ call'.op = "take" /\ call'.data = data
    BY <1>2 DEF Becomes
  <2>5. n \in 0 .. Len(c) BY <1>0
  <2> QED BY <1>2, <2>3, <2>4, <2>5 DEF BQ!Take
<1>3. CASE AppendCall
  <2> PICK data \in Strings(MaxAppend) : Becomes(append(b, data), "put", data)
    BY <1>3 DEF AppendCall
  <2>1. data \in Seq(Byte) BY <1>0, StringsAreSequences
  <2> QED BY <1>0, <1>1, <2>1, AppendCorrect
<1>4. CASE ReadFd
  <2> PICK data \in Strings(MaxAppend) : Becomes(readFd(b, data), "put", data)
    BY <1>4 DEF ReadFd
  <2>1. data \in Seq(Byte) BY <1>0, StringsAreSequences
  <2> QED BY <1>0, <1>1, <2>1, ReadFdCorrect
<1>5. CASE Retrieve
  <2> PICK n \in 0 .. readableBytes(b) :
        Becomes(retrieve(b, n), "take", SubSeq(b.buf, b.r + 1, b.r + n))
    BY <1>5 DEF Retrieve
  <2> QED BY <1>0, <1>2, RetrieveCorrect
<1>6. ASSUME Becomes(rertrieveAll(b), "take", c)
      PROVE  BufferInv' /\ BQ!Take
  <2> DEFINE n == Len(c)
  <2>1. n \in 0 .. readableBytes(b) /\ n \in Int /\ n + 1 \in Int /\ n < n + 1
    BY <1>0
  <2> HIDE DEF n
  <2>2. SubSeq(c, n + 1, n) = <<>> BY <2>1, SubSeqEmpty
  <2>3. Content(rertrieveAll(b)) = SubSeq(c, n + 1, Len(c))
    BY <1>0, <2>2, RetrieveAllCorrect DEF n
  <2>4. c = SubSeq(c, 1, n) BY <1>0, SubSeqFull DEF n
  <2> HIDE DEF c
  <2> QED BY <1>0, <1>2, <1>6, <2>1, <2>3, <2>4, RetrieveAllCorrect
<1>7. CASE RetrieveTooMuch
  <2>1. ~(readableBytes(b) + 1 <= readableBytes(b)) BY <1>0
  <2>2. retrieve(b, readableBytes(b) + 1) = rertrieveAll(b)
    BY <2>1 DEF retrieve
  <2> QED BY <1>6, <1>7, <2>2 DEF RetrieveTooMuch
<1>8. CASE RetrieveAll BY <1>6, <1>8 DEF RetrieveAll
<1> QED BY <1>3, <1>4, <1>5, <1>7, <1>8 DEF Next

LEMMA FreshBuffer == Init => BufferInv /\ BQ!BQInit
<1> SUFFICES ASSUME Init PROVE BufferInv /\ BQ!BQInit
  OBVIOUS
<1>0. /\ kCheapPrepend \in Nat /\ kInitialSize \in Nat /\ Zero \in Byte
      /\ kCheapPrepend + kInitialSize \in Nat
  BY BufferAssumption
<1> DEFINE n == kCheapPrepend + kInitialSize
           v == [i \in 1 .. n |-> Zero]
<1>1. b = [buf |-> v, r |-> kCheapPrepend, w |-> kCheapPrepend]
  BY DEF Init, Fresh
<1> HIDE DEF n
<1>2. v \in Seq(Byte) /\ Len(v) = n
  <2>1. v \in [1 .. n -> Byte] BY <1>0
  <2>2. n \in Nat BY <1>0 DEF n
  <2> QED BY <2>1, <2>2
<1> HIDE DEF v
<1>3. b.buf = v /\ b.r = kCheapPrepend /\ b.w = kCheapPrepend BY <1>1
<1>4. b \in Buf
  BY <1>0, <1>1, <1>2, <1>3 DEF Buf, Shape, Ordered, n
<1>5. CapacityBounded BY <1>2, <1>3 DEF CapacityBounded, size, n
<1>6. call.data = <<>> /\ peak = 0 BY DEF Init
<1>7. Content(b) = <<>>
  <2>1. kCheapPrepend < kCheapPrepend + 1 /\ kCheapPrepend + 1 \in Int
        /\ kCheapPrepend \in Int
    BY <1>0
  <2> QED BY <1>3, <2>1, SubSeqEmpty DEF Content
<1>8. BufferInv BY <1>4, <1>5, <1>6, EmptySeq DEF BufferInv
<1> QED BY <1>7, <1>8 DEF BQ!BQInit, Init

\* BufferInv is an invariant of the buffer.
THEOREM BufferInvariant == Spec => []BufferInv
<1>1. BufferInv /\ [Next]_vars => BufferInv'
  <2> SUFFICES ASSUME BufferInv, [Next]_vars PROVE BufferInv'
    OBVIOUS
  <2>1. CASE Next BY <2>1, CallStep
  <2>2. CASE UNCHANGED vars
    BY <2>2 DEF vars, BufferInv, CapacityBounded, size
  <2> QED BY <2>1, <2>2
<1> QED BY <1>1, FreshBuffer, PTL DEF Spec

\* For every sequence of calls the indices keep their order and stay behind the
\* prependable bytes.
THEOREM IndicesStayOrdered == Spec => []IndicesOrdered
<1>1. BufferInv => IndicesOrdered
  BY DEF BufferInv, IndicesOrdered, Buf, Ordered, size
<1> QED BY <1>1, BufferInvariant, PTL

\* The vector never outgrows twice the peak of its content.
THEOREM CapacityStaysBounded == Spec => []CapacityBounded
<1>1. BufferInv => CapacityBounded BY DEF BufferInv
<1> QED BY <1>1, BufferInvariant, PTL

\* Buffer implements ByteQueue: bytes come out as they went in.
THEOREM BufferImplementsQueue == Spec => BytesInOrder
<1>1. BufferInv /\ [Next]_vars => [BQ!Put \/ BQ!Take]_(BQ!bqVars)
  <2> SUFFICES ASSUME BufferInv, [Next]_vars
               PROVE [BQ!Put \/ BQ!Take]_(BQ!bqVars)
    OBVIOUS
  <2>1. CASE Next BY <2>1, CallStep
  <2>2. CASE UNCHANGED vars BY <2>2 DEF vars, BQ!bqVars, Content
  <2> QED BY <2>1, <2>2
<1>2. Init => BQ!BQInit BY FreshBuffer
<1> QED BY <1>1, <1>2, BufferInvariant, PTL DEF Spec, BytesInOrder, BQ!BQSpec
=============================================================================
