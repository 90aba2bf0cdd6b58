----------------------------- MODULE TextProofs -----------------------------
(***************************************************************************)
(* Proofs about the parts of the system that handle text: Logger formats   *)
(* it, AsyncLogging carries it to the log file, and HttpServer parses it.  *)
(*                                                                         *)
(* The three models do not interact.  They are in one module because they  *)
(* share the lemmas on recursive definitions that come first: Emitted,     *)
(* TenTo, ValueOf and FlattenSeq are recursive functions, of which TLA+    *)
(* only says that they are chosen to satisfy their equation.               *)
(***************************************************************************)
EXTENDS AsyncLogging, Logger, HttpServer, FiniteSetTheorems, FunctionTheorems,
        SequenceTheorems, WellFoundedInduction, TLAPS

-----------------------------------------------------------------------------
(* Induction and recursion.                                                *)

\* A set of natural numbers that is not empty has a least one.
LEMMA Least == ASSUME NEW T, T \subseteq Nat, T # {}
               PROVE  \E x \in T : \A y \in T : x <= y
<1> DEFINE R == {p \in Nat \X Nat : p[1] < p[2]}
<1>1. IsWellFoundedOn(R, Nat)
  BY NatLessThanWellFounded DEF OpToRel
<1>2. \A x, y \in T : <<y, x>> \in R <=> y < x
  OBVIOUS
<1> HIDE DEF R
<1>3. PICK x \in T : \A y \in T : ~(<<y, x>> \in R)
  BY <1>1, WFMin, Zenon
<1>4. \A y \in T : ~(y < x)
  BY <1>2, <1>3
<1>5. \A y \in T : x <= y
  BY <1>4
<1> QED BY <1>5

\* Induction over the numbers of a set.
LEMMA NatSetInduction ==
  ASSUME NEW S, 0 \in S, \A n \in Nat : n \in S => n + 1 \in S
  PROVE  Nat \subseteq S
<1> DEFINE T == Nat \ S
<1>1. SUFFICES ASSUME T # {} PROVE FALSE
  OBVIOUS
<1>2. T \subseteq Nat
  OBVIOUS
<1>3. PICK x \in T : \A y \in T : x <= y
  <2> HIDE DEF T
  <2> QED BY <1>1, <1>2, Least
<1>4. x \in Nat /\ x # 0 /\ x \notin S
  BY <1>3
<1>5. x - 1 \in Nat /\ x - 1 \notin T
  BY <1>3, <1>4
<1>6. x - 1 \in S
  BY <1>5
<1> QED BY <1>4, <1>5, <1>6

\* F computes a value at x from the values at arguments of lower rank.
IsRecursion(S, V, rank, F) ==
  /\ V # {}
  /\ rank \in [S -> Nat]
  /\ F \in [[S -> V] \X S -> V]
  /\ \A g, h \in [S -> V] : \A x \in S :
       (\A y \in S : rank[y] < rank[x] => g[y] = h[y]) => F[<<g, x>>] = F[<<h, x>>]

\* A recursion defines a function.
LEMMA Recursion ==
  ASSUME NEW S, NEW V, NEW rank, NEW F, IsRecursion(S, V, rank, F)
  PROVE  \E f \in [S -> V] : \A x \in S : f[x] = F[<<f, x>>]
<1>0. PICK v0 : v0 \in V
  BY DEF IsRecursion
<1> USE DEF IsRecursion
<1> DEFINE Good(g, n) == \A x \in S : rank[x] < n => g[x] = F[<<g, x>>]
<1>1. \A n \in Nat : \E g \in [S -> V] : Good(g, n)
  <2> DEFINE T == {n \in Nat : \E g \in [S -> V] : Good(g, n)}
  <2>1. 0 \in T
    <3>1. [x \in S |-> v0] \in [S -> V]
      BY <1>0
    <3>2. Good([x \in S |-> v0], 0)
      OBVIOUS
    <3> QED BY <3>1, <3>2
  <2>2. ASSUME NEW n \in Nat, n \in T PROVE n + 1 \in T
    <3>1. PICK g \in [S -> V] : Good(g, n)
      BY <2>2
    <3>2. PICK h : h = [x \in S |-> IF rank[x] < n THEN g[x] ELSE F[<<g, x>>]]
      OBVIOUS
    <3>3. h \in [S -> V]
      BY <3>2
    <3>4. ASSUME NEW x \in S, rank[x] < n + 1 PROVE h[x] = F[<<h, x>>]
      <4>1. h[x] = F[<<g, x>>]
        BY <3>1, <3>2
      <4>2. \A y \in S : rank[y] < rank[x] => g[y] = h[y]
        BY <3>2, <3>4
      <4> QED BY <3>3, <4>1, <4>2
    <3> QED BY <3>3, <3>4
  <2>3. Nat \subseteq T
    <3> HIDE DEF T
    <3> QED BY <2>1, <2>2, NatSetInduction
  <2> QED BY <2>3
<1>2. ASSUME NEW g \in [S -> V], NEW h \in [S -> V], NEW n \in Nat, Good(g, n), Good(h, n)
      PROVE  \A x \in S : rank[x] < n => g[x] = h[x]
  <2> DEFINE T == {k \in Nat : \A x \in S : rank[x] < k /\ rank[x] < n => g[x] = h[x]}
  <2>1. 0 \in T
    OBVIOUS
  <2>2. ASSUME NEW k \in Nat, k \in T PROVE k + 1 \in T
    <3> SUFFICES ASSUME NEW x \in S, rank[x] < k + 1, rank[x] < n PROVE g[x] = h[x]
      OBVIOUS
    <3>1. \A y \in S : rank[y] < rank[x] => g[y] = h[y]
      BY <2>2
    <3>2. g[x] = F[<<g, x>>] /\ h[x] = F[<<h, x>>]
      BY <1>2
    <3> QED BY <3>1, <3>2
  <2>3. Nat \subseteq T
    <3> HIDE DEF T
    <3> QED BY <2>1, <2>2, NatSetInduction
  <2>4. n \in T
    BY <2>3
  <2> QED BY <2>4
<1> DEFINE G(n) == CHOOSE g \in [S -> V] : Good(g, n)
           f == [x \in S |-> G(rank[x] + 1)[x]]
<1>3. \A n \in Nat : G(n) \in [S -> V] /\ Good(G(n), n)
  BY <1>1
<1> HIDE DEF G
<1>4. f \in [S -> V]
  BY <1>3
<1>5. ASSUME NEW x \in S PROVE f[x] = F[<<f, x>>]
  <2>1. PICK gx : gx = G(rank[x] + 1)
    OBVIOUS
  <2>2. rank[x] + 1 \in Nat /\ rank[x] < rank[x] + 1
    OBVIOUS
  <2>3. gx \in [S -> V] /\ Good(gx, rank[x] + 1)
    <3> HIDE DEF Good
    <3> QED BY <1>3, <2>1, <2>2
  <2>4. ASSUME NEW y \in S, rank[y] < rank[x] PROVE gx[y] = f[y]
    <3>1. PICK gy : gy = G(rank[y] + 1)
      OBVIOUS
    <3>2. rank[y] + 1 \in Nat /\ rank[y] < rank[y] + 1
      OBVIOUS
    <3>3. gy \in [S -> V] /\ Good(gy, rank[y] + 1)
      <4> HIDE DEF Good
      <4> QED BY <1>3, <3>1, <3>2
    <3>4. Good(gx, rank[y] + 1)
      BY <2>3, <2>4
    <3>5. gy[y] = gx[y]
      <4> HIDE DEF Good
      <4> QED BY <1>2, <2>3, <3>2, <3>3, <3>4
    <3> QED BY <3>1, <3>5
  <2>5. f[x] = gx[x]
    BY <2>1
  <2>6. gx[x] = F[<<gx, x>>]
    BY <2>2, <2>3
  <2> HIDE DEF f
  <2> QED BY <1>4, <2>3, <2>4, <2>5, <2>6
<1> HIDE DEF f
<1> QED BY <1>4, <1>5

-----------------------------------------------------------------------------
(* Logger: the recursive definitions.                                      *)

\* The powers of ten.
LEMMA TenToIs ==
  /\ TenTo[0] = 1
  /\ \A n \in Nat : TenTo[n] \in Nat \ {0} /\ TenTo[n + 1] = 10 * TenTo[n]
<1> DEFINE Def(g, n) == IF n = 0 THEN 1 ELSE 10 * g[n - 1]
           F == [p \in [Nat -> Nat] \X Nat |-> Def(p[1], p[2])]
           rank == [n \in Nat |-> n]
<1>1. F \in [[Nat -> Nat] \X Nat -> Nat]
  OBVIOUS
<1>2. \A g \in [Nat -> Nat], n \in Nat : F[<<g, n>>] = Def(g, n)
  OBVIOUS
<1>3. ASSUME NEW g \in [Nat -> Nat], NEW h \in [Nat -> Nat], NEW n \in Nat,
             \A y \in Nat : rank[y] < rank[n] => g[y] = h[y]
      PROVE  F[<<g, n>>] = F[<<h, n>>]
  <2>1. n # 0 => n - 1 \in Nat /\ g[n - 1] = h[n - 1]
    BY <1>3
  <2> HIDE DEF F
  <2> QED BY <2>1, <1>2
<1>4. rank \in [Nat -> Nat]
  OBVIOUS
<1> HIDE DEF F, rank
<1>5. PICK f \in [Nat -> Nat] : \A n \in Nat : f[n] = F[<<f, n>>]
  <2>1. \A g, h \in [Nat -> Nat] : \A x \in Nat :
          (\A y \in Nat : rank[y] < rank[x] => g[y] = h[y])
          => F[<<g, x>>] = F[<<h, x>>]
    BY <1>3
  <2>2. IsRecursion(Nat, Nat, rank, F)
    BY <1>1, <1>4, <2>1 DEF IsRecursion
  <2> QED BY <2>2, Recursion
<1>6. f = [n \in Nat |-> Def(f, n)]
  BY <1>2, <1>5
<1>7. TenTo = [n \in Nat |-> Def(TenTo, n)]
  <2>1. \E t : t = [n \in Nat |-> Def(t, n)]
    BY <1>6
  <2> QED BY <2>1 DEF TenTo
<1>8. \A n \in Nat : TenTo[n] = Def(TenTo, n)
  BY <1>7
<1>9. TenTo[0] = 1 /\ \A n \in Nat : TenTo[n + 1] = 10 * TenTo[n]
  <2>1. \A n \in Nat : n + 1 \in Nat /\ n + 1 # 0 /\ n + 1 - 1 = n
    OBVIOUS
  <2> QED BY <1>8, <2>1
<1>10. Nat \subseteq {n \in Nat : TenTo[n] \in Nat \ {0}}
  <2> DEFINE T == {n \in Nat : TenTo[n] \in Nat \ {0}}
  <2>1. 0 \in T
    BY <1>9
  <2>2. \A n \in Nat : n \in T => n + 1 \in T
    BY <1>9
  <2> HIDE DEF T
  <2>3. Nat \subseteq T
    BY <2>1, <2>2, NatSetInduction
  <2> QED BY <2>3 DEF T
<1> QED BY <1>9, <1>10

\* Division by ten.
LEMMA DivMod ==
  ASSUME NEW k \in Nat
  PROVE  k \div 10 \in Nat /\ k % 10 \in 0 .. 9 /\ k = 10 * (k \div 10) + (k % 10)
OBVIOUS

Abs(n) == IF n < 0 THEN -n ELSE n

\* num % 10 and num / 10 of either sign: the quotient is of the same type, and
\* nearer to zero than num.
LEMMA QuotientIs ==
  ASSUME NEW n \in Int
  PROVE  /\ Quotient(n) \in Int /\ Zero(Remainder(n)) \in 0 .. 9
         /\ Abs(n) = 10 * Abs(Quotient(n)) + Zero(Remainder(n))
         /\ Abs(n) \in Nat /\ Abs(Quotient(n)) \in Nat
         /\ n # 0 => Abs(Quotient(n)) < Abs(n)
         /\ n < 0 => Quotient(n) \in n .. 0
         /\ n >= 0 => Quotient(n) \in 0 .. n
         /\ n = 0 => Quotient(n) = 0
<1>1. CASE n < 0
  <2>1. PICK k \in Nat : k = -n
    BY <1>1
  <2>2. k \div 10 \in Nat /\ k % 10 \in 0 .. 9 /\ k = 10 * (k \div 10) + (k % 10)
    BY DivMod
  <2>3. Quotient(n) = -(k \div 10) /\ Zero(Remainder(n)) = k % 10
    BY <1>1, <2>1, <2>2 DEF Quotient, Remainder, Zero
  <2> QED BY <1>1, <2>1, <2>2, <2>3 DEF Abs
<1>2. CASE n >= 0
  <2>1. n \div 10 \in Nat /\ n % 10 \in 0 .. 9 /\ n = 10 * (n \div 10) + (n % 10)
    BY <1>2, DivMod
  <2>2. Quotient(n) = n \div 10 /\ Zero(Remainder(n)) = n % 10
    BY <1>2, <2>1 DEF Quotient, Remainder, Zero
  <2> QED BY <1>2, <2>1, <2>2 DEF Abs
<1> QED BY <1>1, <1>2

\* The quotient of a value of the type is one, too.
LEMMA ValuesClosed ==
  /\ Values \subseteq Int
  /\ \A n \in Values : Quotient(n) \in Values
<1>1. PICK lo, hi : lo = -(2 ^ (Bits - 1)) /\ hi = 2 ^ Bits - 1
  OBVIOUS
<1>2. lo \in Int /\ hi \in Int
  BY <1>1, LoggerAssumption
<1>3. Values = lo .. hi
  BY <1>1 DEF Values
<1>4. 0 \in lo .. hi
  BY <1>3, DigitsAssumption
<1>5. ASSUME NEW n \in lo .. hi PROVE Quotient(n) \in lo .. hi
  <2>1. n \in Int
    BY <1>2
  <2>2. (n < 0 => Quotient(n) \in n .. 0) /\ (n >= 0 => Quotient(n) \in 0 .. n)
    BY <2>1, QuotientIs
  <2> QED BY <1>2, <1>4, <2>1, <2>2
<1> QED BY <1>2, <1>3, <1>5

\* The loop of formatIntger ends for every value: Emitted satisfies its equation.
LEMMA EmittedIs ==
  \A n \in Values : Emitted[n] \in Seq(0 .. 9) /\ Emitted[n] = Loop(Emitted, n)
<1> DEFINE V == Seq(0 .. 9)
           F == [p \in [Values -> V] \X Values |-> Loop(p[1], p[2])]
           rank == [n \in Values |-> Abs(n)]
<1>1. \A g \in [Values -> V], n \in Values : F[<<g, n>>] = Loop(g, n)
  OBVIOUS
<1>2. ASSUME NEW g \in [Values -> V], NEW n \in Values PROVE Loop(g, n) \in V
  <2>1. n \in Int /\ Quotient(n) \in Values
    BY ValuesClosed
  <2>2. <<Zero(Remainder(n))>> \in V /\ g[Quotient(n)] \in V /\ <<>> \in V
    BY <2>1, QuotientIs
  <2> QED BY <2>2 DEF Loop
<1>3. F \in [[Values -> V] \X Values -> V]
  BY <1>2
<1>4. rank \in [Values -> Nat]
  BY ValuesClosed, QuotientIs
<1>5. ASSUME NEW g \in [Values -> V], NEW h \in [Values -> V], NEW n \in Values,
             \A y \in Values : rank[y] < rank[n] => g[y] = h[y]
      PROVE  F[<<g, n>>] = F[<<h, n>>]
  <2>1. n \in Int /\ Quotient(n) \in Values
    BY ValuesClosed
  <2>2. Quotient(n) # 0 => Abs(Quotient(n)) < Abs(n)
    BY <2>1, QuotientIs
  <2>3. Quotient(n) # 0 => g[Quotient(n)] = h[Quotient(n)]
    BY <1>5, <2>1, <2>2
  <2>4. Loop(g, n) = Loop(h, n)
    BY <2>3 DEF Loop
  <2> HIDE DEF F
  <2> QED BY <2>4, <1>1
<1>6. IsRecursion(Values, V, rank, F)
  <2>1. <<>> \in V
    OBVIOUS
  <2> HIDE DEF V, rank, F
  <2> QED BY <1>3, <1>4, <1>5, <2>1 DEF IsRecursion
<1> HIDE DEF F, rank, V
<1>7. PICK f \in [Values -> V] : \A n \in Values : f[n] = F[<<f, n>>]
  BY <1>6, Recursion
<1>8. f = [n \in Values |-> Loop(f, n)]
  BY <1>1, <1>7
<1>9. Emitted = [n \in Values |-> Loop(Emitted, n)]
  <2>1. \E t : t = [n \in Values |-> Loop(t, n)]
    BY <1>8
  <2> QED BY <2>1 DEF Emitted
<1> DEFINE T == {k \in Nat : \A n \in Values : Abs(n) <= k => Emitted[n] \in V}
<1>10. ASSUME NEW n \in Values, Quotient(n) = 0 \/ Emitted[Quotient(n)] \in V
       PROVE  Emitted[n] \in V
  <2>1. n \in Int /\ Emitted[n] = Loop(Emitted, n)
    BY <1>9, ValuesClosed
  <2>2. <<Zero(Remainder(n))>> \in V /\ <<>> \in V
    BY <2>1, QuotientIs DEF V
  <2> QED BY <2>1, <2>2, <1>10 DEF Loop, V
<1>11. 0 \in T
  <2> SUFFICES ASSUME NEW n \in Values, Abs(n) <= 0 PROVE Emitted[n] \in V
    OBVIOUS
  <2>1. n \in Int
    BY ValuesClosed
  <2>2. n = 0
    BY <2>1 DEF Abs
  <2> QED BY <2>2, <1>10, QuotientIs
<1>12. ASSUME NEW k \in Nat, k \in T PROVE k + 1 \in T
  <2> SUFFICES ASSUME NEW n \in Values, Abs(n) <= k + 1 PROVE Emitted[n] \in V
    OBVIOUS
  <2>1. n \in Int /\ Quotient(n) \in Values
    BY ValuesClosed
  <2>2. Quotient(n) # 0 => Abs(Quotient(n)) <= k
    <3>1. /\ Quotient(n) # 0 => Abs(Quotient(n)) < Abs(n)
          /\ Abs(n) \in Nat /\ Abs(Quotient(n)) \in Nat
      BY <2>1, QuotientIs
    <3> QED BY <3>1
  <2> QED BY <2>1, <2>2, <1>10, <1>12
<1>13. Nat \subseteq T
  <2> HIDE DEF T
  <2> QED BY <1>11, <1>12, NatSetInduction
<1>14. ASSUME NEW n \in Values PROVE Emitted[n] \in V
  <2>1. Abs(n) \in Nat
    BY ValuesClosed, QuotientIs
  <2>2. Abs(n) \in T
    BY <2>1, <1>13
  <2> QED BY <2>1, <2>2
<1> QED BY <1>9, <1>14 DEF V

\* One turn of the loop: a number of one digit, or its last digit in front of
\* those of the quotient.
LEMMA EmittedTurn ==
  ASSUME NEW n \in Values
  PROVE  /\ Quotient(n) \in Values /\ Zero(Remainder(n)) \in 0 .. 9
         /\ Quotient(n) = 0 => Emitted[n] = <<Zero(Remainder(n))>>
         /\ Quotient(n) # 0
            => Emitted[n] = <<Zero(Remainder(n))>> \o Emitted[Quotient(n)]
<1>1. Quotient(n) \in Values /\ n \in Int
  BY ValuesClosed
<1>2. Zero(Remainder(n)) \in 0 .. 9
  BY <1>1, QuotientIs
<1>3. Emitted[n] = Loop(Emitted, n)
  BY EmittedIs
<1>4. <<Zero(Remainder(n))>> \o <<>> = <<Zero(Remainder(n))>>
  BY <1>2
<1> QED BY <1>1, <1>2, <1>3, <1>4 DEF Loop

\* Reversed turns sequences around.
LEMMA ReversedIs ==
  ASSUME NEW S, NEW s \in Seq(S)
  PROVE  Reversed(s) \in Seq(S) /\ Len(Reversed(s)) = Len(s)
         /\ \A i \in 1 .. Len(s) : Reversed(s)[i] = s[Len(s) + 1 - i]
<1>1. \A i \in 1 .. Len(s) : Len(s) + 1 - i \in 1 .. Len(s)
  OBVIOUS
<1>2. Reversed(s) \in [1 .. Len(s) -> S]
  BY <1>1 DEF Reversed
<1> QED BY <1>2 DEF Reversed

\* A number below 10^d has at most d digits, and starts with 0 only if it is 0.
LEMMA EmittedLen ==
  \A d \in Nat : \A n \in Values :
    Abs(n) < TenTo[d + 1]
    => /\ Len(Emitted[n]) \in 1 .. d + 1
       /\ Emitted[n][Len(Emitted[n])] = 0 => n = 0
<1> DEFINE Short(n, d) == /\ Len(Emitted[n]) \in 1 .. d + 1
                          /\ Emitted[n][Len(Emitted[n])] = 0 => n = 0
           T == {d \in Nat : \A n \in Values : Abs(n) < TenTo[d + 1] => Short(n, d)}
<1>1. ASSUME NEW n \in Values, Quotient(n) = 0, NEW d \in Nat PROVE Short(n, d)
  <2>1. Emitted[n] = <<Zero(Remainder(n))>>
    BY <1>1, EmittedTurn
  <2>2. n \in Int
    BY ValuesClosed
  <2>3. Abs(n) = 10 * Abs(0) + Zero(Remainder(n)) /\ Zero(Remainder(n)) \in 0 .. 9
    BY <1>1, <2>2, QuotientIs
  <2>4. Zero(Remainder(n)) = 0 => n = 0
    BY <2>2, <2>3 DEF Abs
  <2> QED BY <2>1, <2>4
<1>2. 0 \in T
  <2> SUFFICES ASSUME NEW n \in Values, Abs(n) < TenTo[0 + 1] PROVE Short(n, 0)
    OBVIOUS
  <2>1. TenTo[0 + 1] = 10
    BY TenToIs
  <2>2. n \in Int
    BY ValuesClosed
  <2>3. Quotient(n) = 0
    <3>1. /\ Abs(n) = 10 * Abs(Quotient(n)) + Zero(Remainder(n))
          /\ Zero(Remainder(n)) \in 0 .. 9 /\ Abs(Quotient(n)) \in Nat
          /\ Quotient(n) \in Int
      BY <2>2, QuotientIs
    <3>2. Abs(Quotient(n)) = 0
      BY <2>1, <3>1
    <3> QED BY <3>1, <3>2 DEF Abs
  <2> QED BY <2>3, <1>1
<1>3. ASSUME NEW d \in Nat, d \in T PROVE d + 1 \in T
  <2> SUFFICES ASSUME NEW n \in Values, Abs(n) < TenTo[d + 1 + 1] PROVE Short(n, d + 1)
    OBVIOUS
  <2>1. CASE Quotient(n) = 0
    BY <2>1, <1>1
  <2>2. CASE Quotient(n) # 0
    <3>1. n \in Int /\ Quotient(n) \in Values
      BY ValuesClosed
    <3>2. TenTo[d + 1 + 1] = 10 * TenTo[d + 1] /\ TenTo[d + 1] \in Nat
      BY TenToIs
    <3>3. /\ Abs(n) = 10 * Abs(Quotient(n)) + Zero(Remainder(n))
          /\ Zero(Remainder(n)) \in 0 .. 9 /\ Abs(Quotient(n)) \in Nat
      BY <3>1, QuotientIs
    <3>4. Abs(Quotient(n)) < TenTo[d + 1]
      BY <3>2, <3>3
    <3>5. Short(Quotient(n), d)
      BY <1>3, <3>1, <3>4
    <3>6. Emitted[Quotient(n)] \in Seq(0 .. 9)
      BY <3>1, EmittedIs
    <3>7. Emitted[n] = <<Zero(Remainder(n))>> \o Emitted[Quotient(n)]
      BY <2>2, EmittedTurn
    <3>8. PICK z, e : z = Zero(Remainder(n)) /\ e = Emitted[Quotient(n)]
      OBVIOUS
    <3>9. /\ Len(Emitted[n]) = Len(e) + 1
          /\ Emitted[n][Len(Emitted[n])] = e[Len(e)]
      BY <3>3, <3>5, <3>6, <3>7, <3>8
    <3> QED BY <2>2, <3>5, <3>8, <3>9
  <2> QED BY <2>1, <2>2
<1>4. Nat \subseteq T
  <2> HIDE DEF T
  <2> QED BY <1>2, <1>3, NatSetInduction
<1> QED BY <1>4

\* what ValueOf is defined for
Numeral == UNION {[1 .. n -> 0 .. 9] : n \in 1 .. Digits}

\* Numerals are the sequences of digits that are not empty and not too long.
LEMMA NumeralIs ==
  \A s : s \in Numeral <=> s \in Seq(0 .. 9) /\ Len(s) \in 1 .. Digits
<1>1. ASSUME NEW s \in Numeral PROVE s \in Seq(0 .. 9) /\ Len(s) \in 1 .. Digits
  <2>1. PICK n \in 1 .. Digits : s \in [1 .. n -> 0 .. 9]
    BY DEF Numeral
  <2>2. n \in Nat
    BY LoggerAssumption
  <2> QED BY <2>1, <2>2
<1>2. ASSUME NEW s \in Seq(0 .. 9), Len(s) \in 1 .. Digits PROVE s \in Numeral
  <2>1. s \in [1 .. Len(s) -> 0 .. 9]
    OBVIOUS
  <2> QED BY <1>2, <2>1 DEF Numeral
<1> QED BY <1>1, <1>2

\* ValueOf satisfies its equation.
LEMMA ValueOfIs ==
  \A s \in Numeral :
    ValueOf[s] = IF Len(s) = 1 THEN s[1]
                 ELSE 10 * ValueOf[SubSeq(s, 1, Len(s) - 1)] + s[Len(s)]
<1> DEFINE Def(g, s) == IF Len(s) = 1 THEN s[1]
                        ELSE 10 * g[SubSeq(s, 1, Len(s) - 1)] + s[Len(s)]
           F == [p \in [Numeral -> Nat] \X Numeral |-> Def(p[1], p[2])]
           rank == [s \in Numeral |-> Len(s)]
<1>1. \A g \in [Numeral -> Nat], s \in Numeral : F[<<g, s>>] = Def(g, s)
  OBVIOUS
<1>2. ASSUME NEW s \in Numeral
      PROVE  /\ Len(s) \in Nat /\ s[1] \in Nat /\ s[Len(s)] \in Nat
             /\ Len(s) # 1 => /\ SubSeq(s, 1, Len(s) - 1) \in Numeral
                              /\ Len(SubSeq(s, 1, Len(s) - 1)) < Len(s)
  <2>1. s \in Seq(0 .. 9) /\ Len(s) \in 1 .. Digits
    BY NumeralIs
  <2>2. Len(s) \in Nat /\ s[1] \in Nat /\ s[Len(s)] \in Nat
    BY <2>1
  <2>d. Digits \in Nat
    BY LoggerAssumption
  <2>4. Len(s) # 1 => Len(s) - 1 \in 1 .. Digits /\ Len(s) - 1 < Len(s)
    <3>1. PICK k \in Int : k = Len(s) /\ k \in 1 .. Digits
      BY <2>1, <2>2
    <3>2. k # 1 => k - 1 \in 1 .. Digits /\ k - 1 < k
      BY ONLY <3>1, <2>d
    <3> QED BY <3>1, <3>2
  <2>3. ASSUME Len(s) # 1
        PROVE  /\ SubSeq(s, 1, Len(s) - 1) \in Seq(0 .. 9)
               /\ Len(SubSeq(s, 1, Len(s) - 1)) = Len(s) - 1
    <3>1. PICK k \in Nat : k = Len(s) - 1 /\ k <= Len(s)
      BY <2>2, <2>3, <2>4
    <3>2. SubSeq(s, 1, k) \in Seq(0 .. 9) /\ Len(SubSeq(s, 1, k)) = k
      BY <2>1, <3>1
    <3> QED BY <3>1, <3>2
  <2> QED BY <2>2, <2>3, <2>4, NumeralIs
<1>3. F \in [[Numeral -> Nat] \X Numeral -> Nat]
  <2>1. ASSUME NEW g \in [Numeral -> Nat], NEW s \in Numeral PROVE Def(g, s) \in Nat
    <3>1. Len(s) # 1 => g[SubSeq(s, 1, Len(s) - 1)] \in Nat
      BY <1>2
    <3> QED BY <3>1, <1>2
  <2> HIDE DEF Def
  <2> QED BY <2>1
<1>4. rank \in [Numeral -> Nat]
  BY <1>2
<1>5. ASSUME NEW g \in [Numeral -> Nat], NEW h \in [Numeral -> Nat], NEW s \in Numeral,
             \A y \in Numeral : rank[y] < rank[s] => g[y] = h[y]
      PROVE  F[<<g, s>>] = F[<<h, s>>]
  <2>1. Len(s) # 1 => g[SubSeq(s, 1, Len(s) - 1)] = h[SubSeq(s, 1, Len(s) - 1)]
    BY <1>2, <1>5
  <2>2. Def(g, s) = Def(h, s)
    BY <2>1
  <2> HIDE DEF F, Def
  <2> QED BY <2>2, <1>1
<1>6. IsRecursion(Numeral, Nat, rank, F)
  <2> HIDE DEF rank, F
  <2> QED BY <1>3, <1>4, <1>5 DEF IsRecursion
<1> HIDE DEF F, rank
<1>7. PICK f \in [Numeral -> Nat] : \A s \in Numeral : f[s] = F[<<f, s>>]
  BY <1>6, Recursion
<1>8. f = [s \in Numeral |-> Def(f, s)]
  <2> HIDE DEF Def
  <2> QED BY <1>1, <1>7
<1>9. ValueOf = [s \in Numeral |-> Def(ValueOf, s)]
  <2>1. \E t : t = [s \in Numeral |-> Def(t, s)]
    BY <1>8
  <2> QED BY <2>1 DEF ValueOf, Numeral
<1> QED BY <1>9

\* The digits from last to first, turned around, mean the number's magnitude.
LEMMA EmittedMeans ==
  \A d \in Nat : \A n \in Values :
    Abs(n) < TenTo[d + 1] /\ d + 1 <= Digits
    => ValueOf[Reversed(Emitted[n])] = Abs(n)
<1> DEFINE Means(n) == ValueOf[Reversed(Emitted[n])] = Abs(n)
           T == {d \in Nat : \A n \in Values :
                   Abs(n) < TenTo[d + 1] /\ d + 1 <= Digits => Means(n)}
<1>1. ASSUME NEW n \in Values, Quotient(n) = 0 PROVE Means(n)
  <2>1. Emitted[n] = <<Zero(Remainder(n))>> /\ n \in Int
    BY <1>1, EmittedTurn, ValuesClosed
  <2>2. Abs(n) = 10 * Abs(0) + Zero(Remainder(n)) /\ Zero(Remainder(n)) \in 0 .. 9
    BY <1>1, <2>1, QuotientIs
  <2>3. PICK r : r = Reversed(Emitted[n])
    OBVIOUS
  <2>4. r \in Seq(0 .. 9) /\ Len(r) = 1 /\ r[1] = Zero(Remainder(n))
    <3>1. Emitted[n] \in Seq(0 .. 9) /\ Len(Emitted[n]) = 1
      BY <2>1, <2>2
    <3>2. /\ r \in Seq(0 .. 9) /\ Len(r) = Len(Emitted[n])
          /\ \A i \in 1 .. Len(Emitted[n]) : r[i] = Emitted[n][Len(Emitted[n]) + 1 - i]
      BY <3>1, <2>3, ReversedIs
    <3> QED BY <3>1, <3>2, <2>1
  <2>5. r \in Numeral
    <3>1. 1 \in 1 .. Digits
      BY LoggerAssumption
    <3> QED BY <2>4, <3>1, NumeralIs
  <2>6. ValueOf[r] = r[1]
    BY <2>4, <2>5, ValueOfIs
  <2> QED BY <2>2, <2>3, <2>4, <2>6 DEF Abs
<1>2. 0 \in T
  <2> SUFFICES ASSUME NEW n \in Values, Abs(n) < TenTo[0 + 1] PROVE Means(n)
    OBVIOUS
  <2>1. TenTo[0 + 1] = 10 /\ n \in Int
    BY TenToIs, ValuesClosed
  <2>2. /\ Abs(n) = 10 * Abs(Quotient(n)) + Zero(Remainder(n))
        /\ Zero(Remainder(n)) \in 0 .. 9 /\ Abs(Quotient(n)) \in Nat
        /\ Quotient(n) \in Int
    BY <2>1, QuotientIs
  <2>3. Abs(Quotient(n)) = 0
    BY <2>1, <2>2
  <2>4. Quotient(n) = 0
    BY <2>2, <2>3 DEF Abs
  <2> QED BY <2>4, <1>1
<1>3. ASSUME NEW d \in Nat, d \in T PROVE d + 1 \in T
  <2> SUFFICES ASSUME NEW n \in Values, Abs(n) < TenTo[d + 1 + 1], d + 1 + 1 <= Digits
               PROVE  Means(n)
    OBVIOUS
  <2>1. CASE Quotient(n) = 0
    BY <2>1, <1>1
  <2>2. CASE Quotient(n) # 0
    <3>1. n \in Int /\ Quotient(n) \in Values
      BY ValuesClosed
    <3>2. TenTo[d + 1 + 1] = 10 * TenTo[d + 1] /\ TenTo[d + 1] \in Nat
      BY TenToIs
    <3>3. /\ Abs(n) = 10 * Abs(Quotient(n)) + Zero(Remainder(n))
          /\ Zero(Remainder(n)) \in 0 .. 9 /\ Abs(Quotient(n)) \in Nat
      BY <3>1, QuotientIs
    <3>4. Abs(Quotient(n)) < TenTo[d + 1]
      BY <3>2, <3>3
    <3>5. Means(Quotient(n))
      <4>1. d + 1 <= Digits
        BY LoggerAssumption
      <4> QED BY <1>3, <3>1, <3>4, <4>1
    <3>6. PICK z, e, s : z = Zero(Remainder(n)) /\ e = Emitted[Quotient(n)] /\ s = Emitted[n]
      OBVIOUS
    <3>7. e \in Seq(0 .. 9) /\ Len(e) \in 1 .. d + 1
      BY <3>1, <3>4, <3>6, EmittedIs, EmittedLen
    <3>8. s = <<z>> \o e /\ z \in 0 .. 9
      BY <2>2, <3>3, <3>6, EmittedTurn
    <3>9. s \in Seq(0 .. 9) /\ Len(s) = Len(e) + 1 /\ s[1] = z
          /\ \A i \in 1 .. Len(e) : s[i + 1] = e[i]
      BY <3>7, <3>8
    <3>10. PICK rs, re : rs = Reversed(s) /\ re = Reversed(e)
      OBVIOUS
    <3>11. /\ rs \in Seq(0 .. 9) /\ Len(rs) = Len(s)
           /\ \A i \in 1 .. Len(s) : rs[i] = s[Len(s) + 1 - i]
           /\ re \in Seq(0 .. 9) /\ Len(re) = Len(e)
           /\ \A i \in 1 .. Len(e) : re[i] = e[Len(e) + 1 - i]
      BY <3>7, <3>9, <3>10, ReversedIs
    <3>12. rs \in Numeral /\ Len(rs) # 1 /\ rs[Len(rs)] = z
      BY <3>7, <3>9, <3>11, NumeralIs, LoggerAssumption
    <3>13. SubSeq(rs, 1, Len(rs) - 1) = re
      <4>1. PICK b : b = SubSeq(rs, 1, Len(rs) - 1)
        OBVIOUS
      <4>2. b \in Seq(0 .. 9) /\ Len(b) = Len(e) /\ \A i \in 1 .. Len(e) : b[i] = rs[i]
        BY <3>7, <3>9, <3>11, <4>1
      <4>3. ASSUME NEW i \in 1 .. Len(e) PROVE b[i] = re[i]
        <5>1. Len(s) + 1 - i = (Len(e) + 1 - i) + 1 /\ Len(e) + 1 - i \in 1 .. Len(e)
          BY <3>7, <3>9
        <5>0. i \in 1 .. Len(s)
          BY ONLY <3>7, <3>9, i \in 1 .. Len(e)
        <5>2. rs[i] = s[Len(s) + 1 - i]
          BY ONLY <3>11, <5>0
        <5>3. s[(Len(e) + 1 - i) + 1] = e[Len(e) + 1 - i]
          BY <3>9, <5>1
        <5> QED BY <4>2, <5>1, <5>2, <5>3, <3>11
      <4>4. Len(b) = Len(re) /\ b \in Seq(0 .. 9) /\ re \in Seq(0 .. 9)
        BY <4>2, <3>11
      <4>5. \A i \in 1 .. Len(b) : b[i] = re[i]
        BY <4>2, <4>3
      <4>6. b = re
        BY ONLY <4>4, <4>5
      <4> QED BY <4>1, <4>6
    <3>14. ValueOf[rs] = 10 * ValueOf[re] + z
      BY <3>12, <3>13, ValueOfIs
    <3> QED BY <3>3, <3>5, <3>6, <3>10, <3>14
  <2> QED BY <2>1, <2>2
<1>4. Nat \subseteq T
  <2> HIDE DEF T
  <2> QED BY <1>2, <1>3, NatSetInduction
<1> QED BY <1>4

\* what the buffer holds: the prefix, characters of texts, signs and digits
Char == {"p", "c", "-"} \cup 0 .. 9

\* formatIntger writes a number of either sign in the digits that mean it, and
\* fits in the room for them and a sign.
LEMMA FormatIs ==
  ASSUME NEW v \in Values
  PROVE  /\ FormatInteger(v) \in Seq(Char)
         /\ Len(FormatInteger(v)) \in 1 .. Digits + 1
         /\ ReadsAs(FormatInteger(v), v)
<1>1. PICK e, r, t : e = Emitted[v] /\ r = Reversed(e) /\ t = FormatInteger(v)
  OBVIOUS
<1>2. v \in Int /\ Digits \in Nat /\ Digits > 0
  BY ValuesClosed, LoggerAssumption
<1>3. Abs(v) < TenTo[(Digits - 1) + 1] /\ Digits - 1 \in Nat
  <2>1. -TenTo[Digits] < v /\ v < TenTo[Digits]
    BY DigitsAssumption
  <2>2. TenTo[Digits] \in Nat /\ (Digits - 1) + 1 = Digits /\ Digits - 1 \in Nat
    BY <1>2, TenToIs
  <2> QED BY <1>2, <2>1, <2>2 DEF Abs
<1>4. e \in Seq(0 .. 9) /\ Len(e) \in 1 .. (Digits - 1) + 1 /\ (e[Len(e)] = 0 => v = 0)
  BY <1>1, <1>3, EmittedIs, EmittedLen
<1>5. ValueOf[r] = Abs(v)
  <2>1. (Digits - 1) + 1 <= Digits
    BY <1>2
  <2> QED BY <1>1, <1>3, <2>1, EmittedMeans
<1>6. /\ r \in Seq(0 .. 9) /\ Len(r) = Len(e)
      /\ \A i \in 1 .. Len(e) : r[i] = e[Len(e) + 1 - i]
  BY <1>1, <1>4, ReversedIs
<1>7. Len(e) \in 1 .. Digits /\ Len(e) \in Nat
  BY <1>2, <1>4
<1>8. r[1] = 0 => Len(r) = 1
  <2>1. r[1] = e[Len(e)]
    BY <1>6, <1>7
  <2>2. v = 0 => Len(e) = 1
    <3>1. v = 0 => Quotient(v) = 0
      BY <1>2, QuotientIs
    <3>2. v = 0 => e = <<Zero(Remainder(v))>>
      BY <3>1, <1>1, EmittedTurn
    <3> QED BY <3>2
  <2> QED BY <2>1, <2>2, <1>4, <1>6
<1>9. \A i \in 1 .. Len(r) : r[i] \in 0 .. 9
  BY <1>6
<1>10. CASE ~(v < 0)
  <2>0. Abs(v) = v
    BY <1>10 DEF Abs
  <2>1. t = r
    <3>1. e \o <<>> = e
      BY <1>4
    <3>2. t = Reversed(e \o <<>>)
      BY <1>1, <1>10 DEF FormatInteger
    <3> QED BY <3>1, <3>2, <1>1
  <2>2. t \in Seq(Char)
    BY <2>1, <1>6 DEF Char
  <2>3. ReadsAs(t, v)
    BY <2>0, <2>1, <1>5, <1>6, <1>7, <1>8, <1>9, <1>10 DEF ReadsAs
  <2> QED BY <2>1, <2>2, <2>3, <1>1, <1>2, <1>6, <1>7
<1>11. CASE v < 0
  <2>1. PICK m : m = e \o <<"-">>
    OBVIOUS
  <2>2. /\ m \in Seq(Char) /\ Len(m) = Len(e) + 1 /\ m[Len(e) + 1] = "-"
        /\ \A i \in 1 .. Len(e) : m[i] = e[i]
    <3>1. e \in Seq(Char) /\ <<"-">> \in Seq(Char)
      BY <1>4 DEF Char
    <3> QED BY <3>1, <2>1, <1>4
  <2>3. t = Reversed(m)
    BY <1>1, <1>11, <2>1 DEF FormatInteger
  <2>4. /\ t \in Seq(Char) /\ Len(t) = Len(m)
        /\ \A i \in 1 .. Len(m) : t[i] = m[Len(m) + 1 - i]
    BY <2>2, <2>3, ReversedIs
  <2>5. t[1] = "-"
    BY <2>2, <2>4, <1>7
  <2>6. PICK d : d = SubSeq(t, 2, Len(t))
    OBVIOUS
  <2>7. d \in Seq(Char) /\ Len(d) = Len(e) /\ \A i \in 1 .. Len(e) : d[i] = t[i + 1]
    BY <2>2, <2>4, <2>6, <1>7
  <2>8. ASSUME NEW i \in 1 .. Len(e) PROVE d[i] = r[i]
    <3>1. i + 1 \in 1 .. Len(m) /\ Len(m) + 1 - (i + 1) = Len(e) + 1 - i
          /\ Len(e) + 1 - i \in 1 .. Len(e)
      BY <2>2, <1>7
    <3>2. t[i + 1] = m[Len(e) + 1 - i]
      BY <2>4, <3>1
    <3> QED BY <2>2, <2>7, <3>1, <3>2, <1>6
  <2>9. d = r
    <3>1. Len(d) = Len(r) /\ \A i \in 1 .. Len(d) : d[i] = r[i]
      BY <2>7, <2>8, <1>6
    <3>2. r \in Seq(Char) /\ d \in Seq(Char)
      BY <2>7, <1>6 DEF Char
    <3> QED BY ONLY <3>1, <3>2
  <2>10. ReadsAs(t, v)
    BY <2>5, <2>6, <2>9, <1>2, <1>5, <1>6, <1>7, <1>8, <1>9, <1>11 DEF ReadsAs, Abs
  <2> QED BY <2>2, <2>4, <2>10, <1>1, <1>2, <1>7
<1> QED BY <1>10, <1>11


-----------------------------------------------------------------------------
(* Logger: the record.                                                     *)

\* what may be inserted, texts of any length included
AnyItem == {Text(n) : n \in Nat} \cup {Number(v) : v \in Values}

\* t is what an item leaves in a buffer that is filled up to from
Faithful(item, from, t) ==
  IF item.number
    THEN \/ t = <<>> /\ Size - from < kMaxNumericSize
         \/ t # <<>> /\ ReadsAs(t, item.arg)
    ELSE \/ t = <<>> /\ Size - from <= item.arg
         \/ Len(t) = item.arg

\* the place in the buffer of what a << wrote
Place(s, p) == SubSeq(s, p.from + 1, p.from + p.len)

\* where the buffer ends after the first k uses of <<
EndOf(ps, k) == IF k = 0 THEN PrefixLen ELSE ps[k].from + ps[k].len

\* InBounds and RecordFaithful with what makes them inductive: while the statement
\* is put together the buffer ends where the last << ended
LogInv ==
  /\ buf \in Seq(Char) /\ Len(buf) < Size
  /\ rest \in Seq(AnyItem)
  /\ parts \in Seq([item : AnyItem, from : Nat, len : Nat])
  /\ stage = "idle" \/ stage = "aborted" \/ Len(buf) = EndOf(parts, Len(parts))
  /\ \A k \in 1 .. Len(parts) :
       /\ parts[k].from = EndOf(parts, k - 1) /\ EndOf(parts, k) <= Len(buf)
       /\ Faithful(parts[k].item, parts[k].from, Place(buf, parts[k]))

\* A text: its test for room, what is written of it, and what it should be.
LEMMA TextIs ==
  ASSUME NEW n, NEW from, NEW t
  PROVE  /\ Fits(Text(n)) <=> Avail > n
         /\ Written(Text(n)) = IF Avail > n THEN [i \in 1 .. n |-> "c"] ELSE <<>>
         /\ Faithful(Text(n), from, t) <=> (t = <<>> /\ Size - from <= n) \/ Len(t) = n
<1>1. Text(n).number = FALSE /\ Text(n).arg = n
  BY DEF Text
<1> QED BY <1>1, Zenon DEF Fits, Written, Faithful

\* A number: the same.
LEMMA NumberIs ==
  ASSUME NEW v, NEW from, NEW t
  PROVE  /\ Fits(Number(v)) <=> Avail >= kMaxNumericSize
         /\ Written(Number(v)) = IF Avail >= kMaxNumericSize THEN FormatInteger(v)
                                 ELSE <<>>
         /\ Faithful(Number(v), from, t) <=> \/ t = <<>> /\ Size - from < kMaxNumericSize
                                             \/ t # <<>> /\ ReadsAs(t, v)
<1>1. Number(v).number = TRUE /\ Number(v).arg = v
  BY DEF Number
<1> QED BY <1>1, Zenon DEF Fits, Written, Faithful

\* << appends an item whole, if it fits with a place to spare.
LEMMA WrittenIs ==
  ASSUME buf \in Seq(Char), Len(buf) < Size, NEW item \in AnyItem
  PROVE  /\ Written(item) \in Seq(Char)
         /\ Len(buf) + Len(Written(item)) < Size
         /\ Faithful(item, Len(buf), Written(item))
<1>1. Size \in Nat /\ kMaxNumericSize \in Nat /\ kMaxNumericSize >= Digits + 2
      /\ Digits \in Nat /\ Len(buf) \in Nat /\ Avail = Size - Len(buf)
  BY LoggerAssumption DEF Avail
<1>2. <<>> \in Seq(Char) /\ Len(<<>>) = 0
  OBVIOUS
<1>3. CASE \E n \in Nat : item = Text(n)
  <2>1. PICK n \in Nat : item = Text(n)
    BY <1>3
  <2>2. Written(item) = IF Avail > n THEN [i \in 1 .. n |-> "c"] ELSE <<>>
    BY <2>1, TextIs
  <2>3. \A t : Faithful(item, Len(buf), t) <=> (t = <<>> /\ Size - Len(buf) <= n) \/ Len(t) = n
    BY <2>1, TextIs
  <2>4. [i \in 1 .. n |-> "c"] \in Seq(Char) /\ Len([i \in 1 .. n |-> "c"]) = n
    BY DEF Char
  <2>5. CASE Avail > n
    BY <2>2, <2>3, <2>4, <2>5, <1>1
  <2>6. CASE ~(Avail > n)
    <3>1. Size - Len(buf) <= n
      BY <2>6, <1>1
    <3> QED BY <2>2, <2>3, <2>6, <3>1, <1>1, <1>2
  <2> QED BY <2>5, <2>6
<1>4. CASE \E v \in Values : item = Number(v)
  <2>1. PICK v \in Values : item = Number(v)
    BY <1>4
  <2>2. Written(item) = IF Avail >= kMaxNumericSize THEN FormatInteger(v) ELSE <<>>
    BY <2>1, NumberIs
  <2>3. \A t : Faithful(item, Len(buf), t)
               <=> \/ t = <<>> /\ Size - Len(buf) < kMaxNumericSize
                   \/ t # <<>> /\ ReadsAs(t, v)
    BY <2>1, NumberIs
  <2>4. PICK t : t = FormatInteger(v)
    OBVIOUS
  <2>5. t \in Seq(Char) /\ Len(t) \in 1 .. Digits + 1 /\ ReadsAs(t, v)
    BY <2>4, FormatIs
  <2>6. CASE Avail >= kMaxNumericSize
    <3>1. Written(item) = t /\ t # <<>>
      BY <2>2, <2>4, <2>5, <2>6
    <3>2. Len(buf) + Len(t) < Size
      BY <2>5, <2>6, <1>1
    <3> QED BY <3>1, <3>2, <2>3, <2>5
  <2>7. CASE ~(Avail >= kMaxNumericSize)
    <3>1. Size - Len(buf) < kMaxNumericSize
      BY <2>7, <1>1
    <3> QED BY <2>2, <2>3, <2>7, <3>1, <1>1, <1>2
  <2> QED BY <2>6, <2>7
<1> QED BY <1>3, <1>4 DEF AnyItem

\* What is appended leaves the places before it alone.
LEMMA PlacesKept ==
  ASSUME NEW S, NEW s \in Seq(S), NEW w \in Seq(S)
  PROVE  /\ \A a, b \in Nat : a + b <= Len(s)
              => SubSeq(s \o w, a + 1, a + b) = SubSeq(s, a + 1, a + b)
         /\ SubSeq(s \o w, Len(s) + 1, Len(s) + Len(w)) = w
<1>1. PICK c : c = s \o w
  OBVIOUS
<1>2. /\ c \in Seq(S) /\ Len(c) = Len(s) + Len(w) /\ Len(s) \in Nat /\ Len(w) \in Nat
      /\ \A i \in 1 .. Len(s) : c[i] = s[i]
      /\ \A i \in 1 .. Len(w) : c[Len(s) + i] = w[i]
  BY <1>1
<1>3. ASSUME NEW a \in Nat, NEW b \in Nat, a + b <= Len(s)
      PROVE  SubSeq(c, a + 1, a + b) = SubSeq(s, a + 1, a + b)
  <2>1. PICK t, u : t = SubSeq(c, a + 1, a + b) /\ u = SubSeq(s, a + 1, a + b)
    OBVIOUS
  <2>2. t \in Seq(S) /\ Len(t) = b /\ \A i \in 1 .. b : t[i] = c[a + i]
    <3>1. a + b <= Len(c) /\ c \in Seq(S)
      BY <1>2, <1>3
    <3> QED BY <2>1, <3>1
  <2>3. u \in Seq(S) /\ Len(u) = b /\ \A i \in 1 .. b : u[i] = s[a + i]
    BY <1>2, <1>3, <2>1
  <2>4. ASSUME NEW i \in 1 .. b PROVE t[i] = u[i]
    <3>1. a + i \in 1 .. Len(s)
      BY <1>2, <1>3
    <3>2. c[a + i] = s[a + i]
      BY ONLY <1>2, <3>1
    <3>3. t[i] = c[a + i] /\ u[i] = s[a + i]
      BY ONLY <2>2, <2>3, i \in 1 .. b
    <3> QED BY ONLY <3>2, <3>3
  <2>5. t = u
    BY ONLY <2>2, <2>3, <2>4
  <2> QED BY <2>1, <2>5
<1>4. SubSeq(c, Len(s) + 1, Len(s) + Len(w)) = w
  <2>1. PICK t : t = SubSeq(c, Len(s) + 1, Len(s) + Len(w))
    OBVIOUS
  <2>2. t \in Seq(S) /\ Len(t) = Len(w) /\ \A i \in 1 .. Len(w) : t[i] = c[Len(s) + i]
    BY <1>2, <2>1
  <2>3. \A i \in 1 .. Len(w) : t[i] = w[i]
    BY <1>2, <2>2
  <2>4. t = w
    BY ONLY <2>2, <2>3, w \in Seq(S)
  <2> QED BY <2>1, <2>4
<1> QED BY <1>1, <1>3, <1>4

\* Put keeps what was written before in its place.
LEMMA PutKeeps ==
  ASSUME LogInv, stage \in {"open", "finish"}, NEW item \in AnyItem, Put(item),
         stage' = stage, rest' \in Seq(AnyItem)
  PROVE  LogInv'
<1> DEFINE Part == [item : AnyItem, from : Nat, len : Nat]
<1>0. buf \in Seq(Char) /\ Len(buf) < Size /\ Len(buf) \in Nat /\ parts \in Seq(Part)
  BY DEF LogInv
<1>1. PICK w : w = Written(item)
  OBVIOUS
<1>2. w \in Seq(Char) /\ Len(buf) + Len(w) < Size /\ Faithful(item, Len(buf), w)
  BY <1>0, <1>1, WrittenIs
<1>3. PICK p : p = [item |-> item, from |-> Len(buf), len |-> Len(w)]
  OBVIOUS
<1>4. buf' = buf \o w /\ parts' = Append(parts, p)
  BY <1>1, <1>3 DEF Put
<1>5. buf' \in Seq(Char) /\ Len(buf') = Len(buf) + Len(w) /\ Len(w) \in Nat
  BY <1>0, <1>2, <1>4
<1>6. PICK N \in Nat : N = Len(parts)
  BY <1>0
<1>7. p \in Part /\ p.from = Len(buf) /\ p.len = Len(w) /\ p.item = item
  BY <1>0, <1>3, <1>5
<1>8. /\ parts' \in Seq(Part) /\ Len(parts') = N + 1 /\ parts'[N + 1] = p
      /\ \A k \in 1 .. N : parts'[k] = parts[k] /\ parts[k] \in Part
  <2> HIDE DEF Part
  <2> QED BY <1>0, <1>4, <1>6, <1>7
<1>9. Len(buf) = EndOf(parts, N)
  BY <1>6 DEF LogInv
<1>10. \A k \in 0 .. N : EndOf(parts', k) = EndOf(parts, k)
  BY <1>8 DEF EndOf
<1>11. EndOf(parts', N + 1) = Len(buf) + Len(w)
  <2>1. N + 1 # 0
    OBVIOUS
  <2>2. EndOf(parts', N + 1) = parts'[N + 1].from + parts'[N + 1].len
    BY <2>1 DEF EndOf
  <2> QED BY <2>2, <1>7, <1>8
<1>12. ASSUME NEW k \in 1 .. N
       PROVE  /\ parts'[k].from = EndOf(parts', k - 1) /\ EndOf(parts', k) <= Len(buf')
              /\ Faithful(parts'[k].item, parts'[k].from, Place(buf', parts'[k]))
  <2>1. /\ parts[k].from = EndOf(parts, k - 1) /\ EndOf(parts, k) <= Len(buf)
        /\ Faithful(parts[k].item, parts[k].from, Place(buf, parts[k]))
    BY <1>6 DEF LogInv
  <2>2. k - 1 \in 0 .. N /\ k \in 0 .. N /\ k # 0
    OBVIOUS
  <2>3. PICK a \in Nat, b \in Nat : a = parts[k].from /\ b = parts[k].len
    BY <1>8
  <2>4. a + b <= Len(buf) /\ EndOf(parts, k) = a + b
    BY <2>1, <2>2, <2>3 DEF EndOf
  <2>5. SubSeq(buf', a + 1, a + b) = SubSeq(buf, a + 1, a + b)
    BY <2>4, <1>0, <1>2, <1>4, PlacesKept
  <2>6. Place(buf', parts[k]) = Place(buf, parts[k])
    BY <2>3, <2>5 DEF Place
  <2>7. EndOf(parts', k) <= Len(buf')
    BY <2>2, <2>4, <1>0, <1>5, <1>10
  <2>8. parts'[k].from = EndOf(parts', k - 1)
    BY <2>1, <2>2, <1>8, <1>10
  <2> QED BY <2>1, <2>6, <2>7, <2>8, <1>8
<1>13. /\ p.from = EndOf(parts', N) /\ EndOf(parts', N + 1) <= Len(buf')
       /\ Faithful(p.item, p.from, Place(buf', p))
  <2>1. Place(buf', p) = w
    BY <1>0, <1>2, <1>4, <1>7, PlacesKept DEF Place
  <2>2. EndOf(parts', N) = Len(buf)
    BY <1>9, <1>10
  <2> QED BY <2>1, <2>2, <1>0, <1>2, <1>5, <1>7, <1>11
<1>14. \A k \in 1 .. Len(parts') :
         /\ parts'[k].from = EndOf(parts', k - 1) /\ EndOf(parts', k) <= Len(buf')
         /\ Faithful(parts'[k].item, parts'[k].from, Place(buf', parts'[k]))
  <2> TAKE k \in 1 .. Len(parts')
  <2>1. CASE k \in 1 .. N
    BY <2>1, <1>12
  <2>2. CASE k = N + 1
    <3>1. k - 1 = N
      BY <2>2
    <3> QED BY <2>2, <3>1, <1>8, <1>13
  <2> QED BY <2>1, <2>2, <1>8
<1>15. Len(buf') = EndOf(parts', Len(parts'))
  BY <1>5, <1>8, <1>11
<1>16. Len(buf') < Size
  BY <1>2, <1>5
<1> QED BY <1>5, <1>8, <1>14, <1>15, <1>16 DEF LogInv

\* Before the first statement the buffer is empty.
LEMMA LogInit == LoggerInit => LogInv
BY LoggerAssumption DEF LoggerInit, LogInv

\* Only << adds to the buffer.
LEMMA LogNext == LogInv /\ [LoggerNext]_loggerVars => LogInv'
<1> SUFFICES ASSUME LogInv, [LoggerNext]_loggerVars PROVE LogInv'
  OBVIOUS
<1>1. ASSUME NEW l \in DOMAIN Levels, SetLogLevel(l) PROVE LogInv'
  BY <1>1 DEF SetLogLevel, LogInv
<1>2. ASSUME NEW l \in DOMAIN Levels, Begin(l) PROVE LogInv'
  <2>1. PrefixLen \in Nat /\ PrefixLen < Size
    BY LoggerAssumption
  <2>2. buf' = [i \in 1 .. PrefixLen |-> "p"] /\ parts' = <<>> /\ rest' = rest
    BY <1>2 DEF Begin
  <2>3. buf' \in Seq(Char) /\ Len(buf') = PrefixLen
    BY <2>1, <2>2 DEF Char
  <2>4. Len(parts') = 0 /\ parts' \in Seq([item : AnyItem, from : Nat, len : Nat])
    BY <2>2
  <2>5. EndOf(parts', Len(parts')) = PrefixLen
    BY <2>4 DEF EndOf
  <2> QED BY <2>1, <2>2, <2>3, <2>4, <2>5 DEF LogInv
<1>3. ASSUME NEW item \in Items, Insert(item) PROVE LogInv'
  <2>1. item \in AnyItem
    BY LoggerAssumption DEF Items, AnyItem
  <2>2. stage = "open" /\ Put(item) /\ stage' = stage /\ rest' = rest
    BY <1>3 DEF Insert
  <2> QED BY <2>1, <2>2, PutKeeps DEF LogInv
<1>4. CASE BeginFinish
  <2>1. Text(1) \in AnyItem /\ Number(LineNumber) \in AnyItem
    BY DigitsAssumption DEF AnyItem
  <2>2. rest' \in Seq(AnyItem)
    BY <2>1, <1>4 DEF BeginFinish
  <2> QED BY <2>2, <1>4 DEF BeginFinish, LogInv
<1>5. CASE Finish
  <2>1. rest \in Seq(AnyItem) /\ rest # <<>>
    BY <1>5 DEF Finish, LogInv
  <2>2. Head(rest) \in AnyItem /\ Tail(rest) \in Seq(AnyItem)
    BY <2>1
  <2>3. stage = "finish" /\ Put(Head(rest)) /\ stage' = stage /\ rest' = Tail(rest)
    BY <1>5 DEF Finish
  <2> QED BY <2>2, <2>3, PutKeeps
<1>6. CASE Output
  BY <1>6 DEF Output, LogInv
<1>7. CASE UNCHANGED loggerVars
  BY <1>7 DEF loggerVars, LogInv
<1> QED BY <1>1, <1>2, <1>3, <1>4, <1>5, <1>6, <1>7 DEF LoggerNext

\* The buffer of a log statement never overflows: whatever is inserted, a number
\* of the largest or smallest value included, the '\0' behind it has a place.
THEOREM StaysInBounds == LoggerSpec => []InBounds
<1>1. LogInv => InBounds
  BY DEF LogInv, InBounds
<1> QED BY <1>1, LogInit, LogNext, PTL DEF LoggerSpec

\* A record consists of what was inserted, each item whole and in its place or
\* left out for lack of room, and every number in the digits that mean it.
THEOREM RecordStaysFaithful == LoggerSpec => []RecordFaithful
<1>1. ASSUME LogInv, NEW k \in DOMAIN parts
      PROVE  LET p == parts[k]
                 t == SubSeq(buf, p.from + 1, p.from + p.len)
                 room == Size - p.from
             IN /\ p.from = IF k = 1 THEN PrefixLen ELSE parts[k-1].from + parts[k-1].len
                /\ IF p.item.number
                     THEN \/ t = <<>> /\ room < kMaxNumericSize
                          \/ t # <<>> /\ ReadsAs(t, p.item.arg)
                     ELSE \/ t = <<>> /\ room <= p.item.arg
                          \/ Len(t) = p.item.arg
  <2>1. k \in 1 .. Len(parts)
    BY <1>1 DEF LogInv
  <2>2. /\ parts[k].from = EndOf(parts, k - 1)
        /\ Faithful(parts[k].item, parts[k].from, Place(buf, parts[k]))
    BY <1>1, <2>1 DEF LogInv
  <2>3. parts[k].from = IF k = 1 THEN PrefixLen ELSE parts[k-1].from + parts[k-1].len
    BY <2>1, <2>2 DEF EndOf
  <2> QED BY <2>2, <2>3, Zenon DEF Faithful, Place
<1>2. LogInv => RecordFaithful
  BY <1>1 DEF RecordFaithful
<1> QED BY <1>2, LogInit, LogNext, PTL DEF LoggerSpec

-----------------------------------------------------------------------------
(* AsyncLogging: no buffer is missing.                                     *)

\* BuffersPresent with what makes it inductive: buffers is a sequence, and lines
\* are numbered within their bound
BuffersInv == /\ BuffersPresent
       /\ buffers \in Seq(Buf)
       /\ accepted \in 0 .. MaxLines

\* A buffer that was cleared, or just allocated, is one.
LEMMA FilledBuffer == ASSUME NEW x \in {Blank, Garbage}
                      PROVE  Filled(x) \in Buf /\ Filled(x).cur = 0
BY LoggingAssumption DEF Filled, Buf, Slot

\* FixedBuffer::append leaves a buffer, never filled to the last slot.
LEMMA AppendKeepsBuffer ==
  ASSUME NEW b \in Buf, NEW put \in 1 .. MaxLines
  PROVE  append(b, put) \in Buf
<1>1. CASE avail(b) > 1
  <2>1. b.cur + 1 \in 0 .. Slots - 1
    BY <1>1, LoggingAssumption DEF avail, Buf
  <2>2. [b.data EXCEPT ![b.cur + 1] = put]
          \in [Slot -> 1 .. MaxLines \cup {Blank, Garbage}]
    BY DEF Buf
  <2> QED BY <1>1, <2>1, <2>2 DEF append, Buf
<1>2. CASE ~(avail(b) > 1)
  BY <1>2 DEF append
<1> QED BY <1>1, <1>2

\* FixedBuffer::reset leaves a buffer.
LEMMA ResetKeepsBuffer == ASSUME NEW b \in Buf PROVE reset(b) \in Buf
BY LoggingAssumption DEF reset, Buf

\* All four buffers are allocated at first.
LEMMA BuffersInit == Init => BuffersInv
BY FilledBuffer, LoggingAssumption, NullAssumption DEF Init, BuffersInv, BuffersPresent

\* append(): _nextBuffer is only given away together with a filled buffer.
LEMMA AppendLineKeeps == BuffersInv /\ AppendLine => BuffersInv'
<1> SUFFICES ASSUME BuffersInv, AppendLine PROVE BuffersInv'
  OBVIOUS
<1> DEFINE put == accepted + 1
           taken == IF next # Null THEN next ELSE Filled(Garbage)
<1>1. put \in 1 .. MaxLines /\ accepted' \in 0 .. MaxLines
  BY LoggingAssumption DEF BuffersInv, AppendLine
<1>2. current \in Buf /\ taken \in Buf
  BY FilledBuffer DEF BuffersInv, BuffersPresent
<1>3. spare1' \in Buf /\ spare2' \in Buf
  BY DEF AppendLine, BuffersInv, BuffersPresent
<1>4. append(current, put) \in Buf /\ append(taken, put) \in Buf
  <2> HIDE DEF put, taken
  <2> QED BY <1>1, <1>2, AppendKeepsBuffer
<1>5. CASE avail(current) > 1 /\ current' = append(current, put)
           /\ UNCHANGED <<pc, next, buffers>>
  BY <1>1, <1>3, <1>4, <1>5 DEF BuffersInv, BuffersPresent
<1>6. CASE /\ buffers' = Append(buffers, current)
           /\ current' = append(taken, put)
           /\ next' = Null
  <2>1. buffers' \in Seq(Buf) /\ buffers' # <<>>
    BY <1>2, <1>6 DEF BuffersInv
  <2>2. \A i \in DOMAIN buffers' : buffers'[i] \in Buf
    BY <2>1
  <2> QED BY <1>1, <1>3, <1>4, <1>6, <2>1, <2>2 DEF BuffersInv, BuffersPresent
<1> QED BY <1>5, <1>6 DEF AppendLine

\* A pass: a missing _nextBuffer means two buffers to take the spares from.
LEMMA PassKeeps == BuffersInv /\ Pass => BuffersInv'
<1> SUFFICES ASSUME BuffersInv, Pass PROVE BuffersInv'
  OBVIOUS
<1> DEFINE toWrite == Append(buffers, current)
           kept == IF Len(toWrite) > 2 THEN 2 ELSE Len(toWrite)
<1>1. /\ toWrite \in Seq(Buf)
      /\ Len(toWrite) = Len(buffers) + 1
      /\ Len(buffers) \in Nat
  BY DEF BuffersInv, BuffersPresent
<1>2. kept \in 1 .. Len(toWrite)
  BY <1>1
<1>3. toWrite[kept] \in Buf /\ toWrite[1] \in Buf
  <2> HIDE DEF toWrite
  <2>1. 1 \in 1 .. Len(toWrite)
    BY <1>1
  <2> QED BY <1>1, <1>2, <2>1
<1>4. reset(toWrite[kept]) \in Buf /\ reset(toWrite[1]) \in Buf
  <2> HIDE DEF toWrite, kept
  <2> QED BY <1>3, ResetKeepsBuffer
<1>5. next = Null => kept = 2
  BY <1>1 DEF BuffersInv, BuffersPresent
<1>6. spare1' \in Buf /\ spare2' \in Buf /\ next' \in Buf
  <2>1. spare1' = reset(toWrite[kept])
    BY DEF Pass
  <2>2. IF next = Null
          THEN next' = spare2 /\ spare2' = IF kept = 2 THEN reset(toWrite[1]) ELSE Null
          ELSE UNCHANGED <<next, spare2>>
    BY DEF Pass
  <2> HIDE DEF toWrite, kept
  <2> QED BY <2>1, <2>2, <1>4, <1>5 DEF BuffersInv, BuffersPresent
<1>7. current' \in Buf /\ buffers' = <<>> /\ accepted' = accepted
  BY DEF Pass, BuffersInv, BuffersPresent
<1>8. buffers' \in Seq(Buf) /\ DOMAIN buffers' = {}
  BY <1>7
<1>9. next' # Null
  BY <1>6, NullAssumption
<1> QED BY <1>6, <1>7, <1>8, <1>9 DEF BuffersInv, BuffersPresent

\* Only append() and a pass of the back end move buffers.
LEMMA BuffersNext == BuffersInv /\ [Next]_vars => BuffersInv'
<1> SUFFICES ASSUME BuffersInv, [Next]_vars PROVE BuffersInv'
  OBVIOUS
<1>1. CASE AppendLine
  BY <1>1, AppendLineKeeps
<1>2. CASE Pass
  BY <1>2, PassKeeps
<1>3. CASE Start \/ Stop \/ StopNotify \/ Join \/ CheckRunning \/ WaitFor \/ WaitEnds
  BY <1>3 DEF Start, Stop, StopNotify, Join, CheckRunning, WaitFor, WaitEnds,
              BuffersInv, BuffersPresent
<1>4. CASE UNCHANGED vars
  BY <1>4 DEF vars, BuffersInv, BuffersPresent
<1> QED BY <1>1, <1>2, <1>3, <1>4 DEF Next, BackEnd

\* append() and ThreadFunc never meet a null buffer, whatever the size of the
\* buffers and however appends, timeouts and passes interleave.
THEOREM BuffersNeverMissing == Spec => []BuffersPresent
<1>1. BuffersInv => BuffersPresent
  BY DEF BuffersInv
<1> QED BY <1>1, BuffersInit, BuffersNext, PTL DEF Spec

-----------------------------------------------------------------------------
(* AsyncLogging: lines in order.                                           *)

\* the lines m + 1 to n are in the places of bs that were filled, in their order
InPlace(bs, m, n) ==
  /\ {LineAt(bs, p) : p \in Filling(bs)} = m + 1 .. n
  /\ \A p, q \in Filling(bs) : Before(p, q) => LineAt(bs, p) < LineAt(bs, q)

\* what a buffer holds behind _cur is not newer than line m
Stale(b, m) == \A j \in Slot : j > b.cur => b.data[j] \in {Blank, Garbage} \cup 1 .. m

\* The places are ordered.
LEMMA BeforeTotal ==
  ASSUME NEW p \in Nat \X Nat, NEW q \in Nat \X Nat, p # q
  PROVE  Before(p, q) \/ Before(q, p)
BY DEF Before

\* A set whose members are numbered m + 1 to n has n - m of them.
LEMMA Numbered ==
  ASSUME NEW P, NEW f \in [P -> Int], NEW m \in Nat, NEW n \in Nat, m <= n,
         {f[p] : p \in P} = m + 1 .. n,
         \A p, q \in P : p # q => f[p] # f[q]
  PROVE  Cardinality(P) = n - m
<1> DEFINE at(x) == CHOOSE p \in P : f[p] = x
           g == [x \in m + 1 .. n |-> at(x)]
<1>1. \A x \in m + 1 .. n : at(x) \in P /\ f[at(x)] = x
  <2> TAKE x \in m + 1 .. n
  <2>1. \E p \in P : f[p] = x
    OBVIOUS
  <2> QED BY <2>1
<1>2. \A p \in P : f[p] \in m + 1 .. n /\ at(f[p]) = p
  <2> TAKE p \in P
  <2>1. f[p] \in m + 1 .. n
    OBVIOUS
  <2> QED BY <2>1, <1>1
<1> HIDE DEF at
<1>3. g \in Bijection(m + 1 .. n, P)
  <2>1. g \in [m + 1 .. n -> P]
    BY <1>1
  <2>2. \A x, y \in m + 1 .. n : g[x] = g[y] => x = y
    BY <1>1
  <2>3. \A p \in P : \E x \in m + 1 .. n : g[x] = p
    BY <1>2
  <2> QED BY <2>1, <2>2, <2>3, Fun_IsBij
<1>4. IsFiniteSet(m + 1 .. n) /\ Cardinality(m + 1 .. n) = n - m
  <2>1. m + 1 \in Int /\ n \in Int
    OBVIOUS
  <2>2. /\ IsFiniteSet(m + 1 .. n)
        /\ Cardinality(m + 1 .. n) = IF m + 1 > n THEN 0 ELSE n - (m + 1) + 1
    BY <2>1, FS_Interval
  <2> QED BY <2>2
<1>5. ExistsBijection(m + 1 .. n, P)
  BY <1>3 DEF ExistsBijection
<1> QED BY <1>4, <1>5, FS_Bijection

\* A line written behind all the others.
LEMMA OneMore ==
  ASSUME NEW bs, NEW cs, NEW m \in Nat, NEW n \in Nat, m <= n, InPlace(bs, m, n),
         NEW p0, p0 \notin Filling(bs), Filling(cs) = Filling(bs) \cup {p0},
         LineAt(cs, p0) = n + 1,
         \A p \in Filling(bs) : /\ LineAt(cs, p) = LineAt(bs, p)
                                /\ Before(p, p0) /\ ~Before(p0, p),
         ~Before(p0, p0)
  PROVE  InPlace(cs, m, n + 1)
<1>1. \A p \in Filling(bs) : LineAt(bs, p) \in m + 1 .. n
  BY DEF InPlace
<1>2. {LineAt(cs, p) : p \in Filling(cs)} = (m + 1 .. n) \cup {n + 1}
  <2>1. {LineAt(cs, p) : p \in Filling(cs)}
          = {LineAt(bs, p) : p \in Filling(bs)} \cup {n + 1}
    OBVIOUS
  <2> QED BY <2>1 DEF InPlace
<1>3. (m + 1 .. n) \cup {n + 1} = m + 1 .. n + 1
  OBVIOUS
<1>4. ASSUME NEW p \in Filling(cs), NEW q \in Filling(cs), Before(p, q)
      PROVE  LineAt(cs, p) < LineAt(cs, q)
  BY <1>1, <1>4 DEF InPlace
<1> QED BY <1>2, <1>3, <1>4 DEF InPlace

\* Of a place and another the lines tell which is first, and which are the same.
LEMMA PlacesNumbered ==
  ASSUME NEW bs \in Seq(Buf), NEW m \in Nat, NEW n \in Nat, InPlace(bs, m, n)
  PROVE  /\ \A p \in Filling(bs) : LineAt(bs, p) \in m + 1 .. n
         /\ \A p, q \in Filling(bs) :
              /\ p # q => LineAt(bs, p) # LineAt(bs, q)
              /\ ~Before(p, q) <=> LineAt(bs, q) <= LineAt(bs, p)
<1>1. \A p \in Filling(bs) : LineAt(bs, p) \in m + 1 .. n
  BY DEF InPlace
<1>2. Filling(bs) \subseteq Nat \X Nat
  BY LoggingAssumption DEF Filling, Slot
<1>3. ASSUME NEW p \in Filling(bs), NEW q \in Filling(bs)
      PROVE  /\ p # q => LineAt(bs, p) # LineAt(bs, q)
             /\ ~Before(p, q) <=> LineAt(bs, q) <= LineAt(bs, p)
  <2>1. Before(p, q) => LineAt(bs, p) < LineAt(bs, q)
    BY DEF InPlace
  <2>2. Before(q, p) => LineAt(bs, q) < LineAt(bs, p)
    BY DEF InPlace
  <2>3. p = q \/ Before(p, q) \/ Before(q, p)
    BY <1>2, BeforeTotal
  <2>4. p = q => ~Before(p, q)
    BY <1>2 DEF Before
  <2>5. LineAt(bs, p) \in Int /\ LineAt(bs, q) \in Int
    BY <1>1
  <2> QED BY <2>1, <2>2, <2>3, <2>4, <2>5
<1> QED BY <1>1, <1>3

\* What a buffer holds behind _cur was in the file before.
LEMMA FreshIsFilling ==
  ASSUME NEW bs \in Seq(Buf), NEW m \in Nat, NEW n \in 0 .. MaxLines, InPlace(bs, m, n),
         \A i \in DOMAIN bs : Stale(bs[i], m),
         Range(written) = 1 .. m
  PROVE  Fresh(bs) = Filling(bs)
<1> SUFFICES ASSUME NEW p \in (DOMAIN bs) \X Slot
             PROVE  p \in Fresh(bs) <=> p \in Filling(bs)
  BY DEF Fresh, Filling
<1>1. p[1] \in DOMAIN bs /\ p[2] \in Slot /\ p[2] \in Int /\ bs[p[1]] \in Buf
  BY DEF Slot
<1>2. bs[p[1]].cur \in Int
  BY <1>1, LoggingAssumption DEF Buf
<1>3. CASE p[2] <= bs[p[1]].cur
  <2>1. p \in Filling(bs)
    BY <1>3 DEF Filling
  <2>2. LineAt(bs, p) \in m + 1 .. n
    BY <2>1 DEF InPlace
  <2>3. LineAt(bs, p) \notin {Blank, Garbage} \cup 1 .. m
    BY <2>2, BlankAssumption, LoggingAssumption
  <2> QED BY <2>1, <2>3 DEF Fresh
<1>4. CASE p[2] > bs[p[1]].cur
  <2>1. p \notin Filling(bs)
    BY <1>1, <1>2, <1>4 DEF Filling
  <2>2. LineAt(bs, p) \in {Blank, Garbage} \cup 1 .. m
    BY <1>1, <1>4 DEF Stale, LineAt
  <2> QED BY <2>1, <2>2 DEF Fresh
<1> QED BY <1>1, <1>2, <1>3, <1>4

\* A pass writes the lines that are not in the file, in order.
LEMMA NewLinesAre ==
  ASSUME NEW bs \in Seq(Buf), NEW m \in Nat, NEW n \in 0 .. MaxLines, m <= n,
         InPlace(bs, m, n), \A i \in DOMAIN bs : Stale(bs[i], m),
         Range(written) = 1 .. m
  PROVE  NewLines(bs) = [k \in 1 .. n - m |-> m + k]
<1> DEFINE P == Filling(bs)
           f == [p \in P |-> LineAt(bs, p)]
<1>n. n \in Nat
  BY LoggingAssumption
<1>1. Fresh(bs) = P
  BY FreshIsFilling
<1>2. /\ \A p \in P : f[p] \in m + 1 .. n
      /\ \A p, q \in P : /\ p # q => f[p] # f[q]
                         /\ ~Before(p, q) <=> f[q] <= f[p]
  BY <1>n, PlacesNumbered
<1>3. {f[p] : p \in P} = m + 1 .. n
  BY DEF InPlace
<1>4. f \in [P -> Int]
  BY <1>2
<1>5. \A p \in P : LineAt(bs, p) = f[p]
  OBVIOUS
<1> HIDE DEF P, f
<1>6. Cardinality(P) = n - m
  <2>1. \A p, q \in P : p # q => f[p] # f[q]
    BY <1>2
  <2> QED BY <1>n, <2>1, <1>3, <1>4, Numbered
<1>7. ASSUME NEW p \in P
      PROVE  Rank(P, p) = f[p] - m
  <2> DEFINE T == {q \in P : ~Before(p, q)}
             g == [q \in T |-> f[q]]
  <2>1. f[p] \in Nat /\ m <= f[p] /\ f[p] <= n
    BY <1>n, <1>2
  <2>2. T = {q \in P : f[q] <= f[p]}
    BY <1>2
  <2>3. {g[q] : q \in T} = m + 1 .. f[p]
    <3>1. \A q \in T : g[q] \in m + 1 .. f[p]
      BY <1>2, <2>1, <2>2
    <3>2. ASSUME NEW x \in m + 1 .. f[p] PROVE \E q \in T : g[q] = x
      <4>1. x \in m + 1 .. n
        BY <1>n, <2>1
      <4>2. PICK q \in P : f[q] = x
        BY <1>3, <4>1
      <4> QED BY <4>2, <2>2
    <3> QED BY <3>1, <3>2
  <2>4. g \in [T -> Int] /\ \A q, r \in T : q # r => g[q] # g[r]
    BY <1>2, <1>4
  <2> HIDE DEF T, g
  <2>5. Cardinality(T) = f[p] - m
    BY ONLY <2>1, <2>3, <2>4, Numbered, m \in Nat, ZenonT(60)
  <2> QED BY <2>5 DEF Rank, T
<1>8. ASSUME NEW k \in 1 .. n - m
      PROVE  LineAt(bs, Nth(bs, k)) = m + k
  <2>1. m + k \in m + 1 .. n
    BY <1>n
  <2>2. \E p \in P : Rank(P, p) = k
    <3>1. PICK p \in P : f[p] = m + k
      BY <2>1, <1>3
    <3> QED BY <3>1, <1>7
  <2>3. Nth(bs, k) \in P /\ Rank(P, Nth(bs, k)) = k
    BY <2>2, <1>1 DEF Nth
  <2>4. f[Nth(bs, k)] - m = k /\ f[Nth(bs, k)] \in Int
    BY <2>3, <1>7, <1>4
  <2> QED BY <2>3, <2>4, <1>5
<1> QED BY <1>1, <1>6, <1>8 DEF NewLines

\* LinesInOrder with what makes it inductive: the buffers that will be used next
\* are empty, and no buffer holds, behind what was put in it since its last
\* reset, a line that is not in the file
OrderInv == /\ LinesInOrder
            /\ written \in Seq(Nat)
            /\ Stale(current, Len(written))
            /\ \A i \in DOMAIN buffers : Stale(buffers[i], Len(written))
            /\ \A b \in {spare1, spare2, next} \ {Null} :
                 b.cur = 0 /\ Stale(b, Len(written))

\* LinesInOrder through InPlace.
LEMMA OrderIs ==
  LinesInOrder <=> /\ written = [i \in 1 .. Len(written) |-> i]
                   /\ Len(written) <= accepted
                   /\ InPlace(Append(buffers, current), Len(written), accepted)
BY DEF LinesInOrder, InPlace

\* The places filled, by buffer and slot.
LEMMA FillingIs ==
  ASSUME NEW bs \in Seq(Buf)
  PROVE  /\ \A p \in Filling(bs) : p = <<p[1], p[2]>>
         /\ \A i, j : <<i, j>> \in Filling(bs)
                      <=> i \in 1 .. Len(bs) /\ j \in Slot /\ j <= bs[i].cur
<1>1. \A p \in (DOMAIN bs) \X Slot : p = <<p[1], p[2]>>
  OBVIOUS
<1>2. \A i, j : <<i, j>> \in (DOMAIN bs) \X Slot <=> i \in DOMAIN bs /\ j \in Slot
  OBVIOUS
<1>3. DOMAIN bs = 1 .. Len(bs)
  OBVIOUS
<1> QED BY <1>1, <1>2, <1>3 DEF Filling

\* FixedBuffer::append on the last buffer: a new one or the one that was last.
LEMMA PutLast ==
  ASSUME NEW bs \in Seq(Buf), NEW cs \in Seq(Buf), NEW b \in Buf, avail(b) > 1,
         NEW m \in Nat, NEW n \in Nat, m <= n, InPlace(bs, m, n),
         NEW k \in Nat, Len(cs) = k, k > 0, cs[k] = append(b, n + 1),
         \A i \in 1 .. k - 1 : cs[i] = bs[i],
         (Len(bs) = k /\ bs[k] = b) \/ (Len(bs) = k - 1 /\ b.cur = 0)
  PROVE  InPlace(cs, m, n + 1)
<1> DEFINE p0 == <<k, b.cur + 1>>
<1>1. b.cur \in 0 .. Slots - 1 /\ b.cur + 1 \in Slot /\ Slots \in Nat
  <2>1. b.cur \in 0 .. Slots - 1 /\ Slots - b.cur > 1
    BY DEF avail, Buf
  <2>2. Slots \in Nat
    BY LoggingAssumption
  <2> QED BY ONLY <2>1, <2>2 DEF Slot
<1>2. cs[k].cur = b.cur + 1 /\ cs[k].data = [b.data EXCEPT ![b.cur + 1] = n + 1]
  BY DEF append
<1>3. cs[k].data[b.cur + 1] = n + 1
  BY <1>1, <1>2 DEF Buf
<1>4. \A j \in Slot : j <= b.cur => cs[k].data[j] = b.data[j]
  <2> SUFFICES ASSUME NEW j \in Slot, j <= b.cur
               PROVE  cs[k].data[j] = b.data[j]
    OBVIOUS
  <2>1. b.cur \in Int /\ j \in Int
    BY ONLY <1>1, LoggingAssumption, j \in Slot DEF Slot
  <2>2. j # b.cur + 1
    BY ONLY <2>1, j <= b.cur
  <2>3. b.data \in [Slot -> 1 .. MaxLines \cup {Blank, Garbage}]
    BY DEF Buf
  <2> QED BY ONLY <1>2, <2>2, <2>3, j \in Slot
<1>5. /\ \A i, j : <<i, j>> \in Filling(bs)
                   <=> i \in 1 .. Len(bs) /\ j \in Slot /\ j <= bs[i].cur
      /\ \A i, j : <<i, j>> \in Filling(cs)
                   <=> i \in 1 .. k /\ j \in Slot /\ j <= cs[i].cur
      /\ \A p \in Filling(bs) \cup Filling(cs) : p = <<p[1], p[2]>>
      /\ Slot \subseteq 1 .. Slots
  BY FillingIs DEF Slot
<1>6. ASSUME NEW p \in Filling(bs)
      PROVE  /\ p[1] \in 1 .. k /\ p[2] \in Slot /\ p[2] <= bs[p[1]].cur
             /\ p[1] = k => p[2] <= b.cur /\ bs[k] = b
             /\ p[1] # k => p[1] \in 1 .. k - 1
  <2>1. p[1] \in 1 .. Len(bs) /\ p[2] \in Slot /\ p[2] <= bs[p[1]].cur
    BY <1>5
  <2> QED BY <2>1
<1>7. Filling(cs) = Filling(bs) \cup {p0}
  <2>1. ASSUME NEW i, NEW j
        PROVE  <<i, j>> \in Filling(cs) <=> <<i, j>> \in Filling(bs) \/ <<i, j>> = p0
    <3>1. CASE i = k /\ j \in Slot
      <4>1. j \in Int /\ j > 0
        BY <3>1, <1>1, <1>5
      <4>2. <<i, j>> \in Filling(cs) <=> j <= b.cur + 1
        BY <1>2, <1>5, <3>1
      <4>3. <<i, j>> \in Filling(bs) <=> j <= b.cur
        BY <1>5, <3>1, <4>1
      <4> QED BY <4>1, <4>2, <4>3, <3>1, <1>1
    <3>2. CASE i # k /\ j \in Slot
      <4>1. (i \in 1 .. k <=> i \in 1 .. k - 1) /\ (i \in 1 .. Len(bs) <=> i \in 1 .. k - 1)
        BY <3>2
      <4>2. <<i, j>> # p0
        BY <3>2
      <4>3. i \in 1 .. k - 1 => cs[i].cur = bs[i].cur
        OBVIOUS
      <4> QED BY <4>1, <4>2, <4>3, <1>5
    <3>3. CASE j \notin Slot
      BY <1>1, <1>5, <3>3
    <3> QED BY <3>1, <3>2, <3>3
  <2>2. \A p \in Filling(cs) \cup Filling(bs) \cup {p0} : p = <<p[1], p[2]>>
    BY <1>5
  <2> HIDE DEF p0
  <2> QED BY <2>1, <2>2
<1>8. ASSUME NEW p \in Filling(bs)
      PROVE  /\ LineAt(cs, p) = LineAt(bs, p)
             /\ Before(p, p0) /\ ~Before(p0, p) /\ p # p0
  <2>1. CASE p[1] = k
    <3>1. p[2] \in Slot /\ p[2] <= b.cur /\ bs[k] = b /\ p[2] \in Int
      BY <2>1, <1>6 DEF Slot
    <3>2. Before(p, p0) /\ ~Before(p0, p) /\ p # p0
      BY <2>1, <3>1, <1>1 DEF Before
    <3> QED BY <2>1, <3>1, <3>2, <1>4 DEF LineAt
  <2>2. CASE p[1] # k
    <3>1. p[1] \in 1 .. k - 1
      BY <2>2, <1>6
    <3>2. Before(p, p0) /\ ~Before(p0, p) /\ p # p0
      BY <3>1 DEF Before
    <3> QED BY <3>1, <3>2 DEF LineAt
  <2> QED BY <2>1, <2>2
<1>9. LineAt(cs, p0) = n + 1 /\ ~Before(p0, p0)
  <2>1. p0[1] = k /\ p0[2] = b.cur + 1
    OBVIOUS
  <2>2. b.cur \in Int
    BY ONLY <1>1
  <2> QED BY ONLY <2>1, <2>2, <1>3, k \in Nat DEF LineAt, Before
<1>10. p0 \notin Filling(bs)
  BY <1>8
<1> HIDE DEF p0
<1> QED BY <1>7, <1>8, <1>9, <1>10, OneMore

\* append leaves what is behind _cur as it was.
LEMMA AppendStale ==
  ASSUME NEW b \in Buf, NEW put, NEW m \in Nat, Stale(b, m)
  PROVE  Stale(append(b, put), m)
<1> SUFFICES ASSUME avail(b) > 1, NEW j \in Slot, j > append(b, put).cur
             PROVE  append(b, put).data[j] \in {Blank, Garbage} \cup 1 .. m
  BY DEF Stale, append
<1>1. b.cur \in Int /\ j \in Int
  BY LoggingAssumption DEF Buf, Slot
<1>2. j > b.cur + 1
  BY DEF append
<1>3. append(b, put).data[j] = b.data[j]
  BY <1>1, <1>2 DEF append, Buf
<1> QED BY <1>1, <1>2, <1>3 DEF Stale

\* At first no line was accepted.
LEMMA OrderInit == Init => OrderInv
<1> SUFFICES ASSUME Init PROVE OrderInv
  OBVIOUS
<1>1. current \in Buf /\ current.cur = 0 /\ buffers = <<>> /\ accepted = 0
  BY FilledBuffer DEF Init
<1>2. written = <<>> /\ Len(written) = 0 /\ written \in Seq(Nat)
      /\ written = [i \in 1 .. Len(written) |-> i]
  BY DEF Init
<1>3. Stale(Filled(Blank), 0) /\ Filled(Blank).cur = 0
  BY FilledBuffer DEF Stale, Filled
<1>4. InPlace(Append(buffers, current), 0, 0)
  <2>1. PICK bs : bs = Append(buffers, current)
    OBVIOUS
  <2>2. bs \in Seq(Buf) /\ Len(bs) = 1 /\ bs[1] = current
    BY <1>1, <2>1
  <2>3. Filling(bs) = {}
    <3>1. ASSUME NEW p \in Filling(bs) PROVE FALSE
      <4>1. <<p[1], p[2]>> \in Filling(bs)
        BY <2>2, FillingIs
      <4>2. p[1] \in 1 .. 1 /\ p[2] \in Slot /\ p[2] <= bs[p[1]].cur
        BY <4>1, <2>2, FillingIs
      <4> QED BY <4>2, <2>2, <1>1, LoggingAssumption DEF Slot
    <3> QED BY <3>1
  <2> QED BY <2>1, <2>3 DEF InPlace
<1>5. LinesInOrder
  BY <1>1, <1>2, <1>4, OrderIs
<1> QED BY <1>1, <1>2, <1>3, <1>5 DEF OrderInv, Init

\* append() puts the line behind all others, in a buffer with room for it.
LEMMA AppendLineOrders == BuffersInv /\ OrderInv /\ AppendLine => OrderInv'
<1> SUFFICES ASSUME BuffersInv, OrderInv, AppendLine PROVE OrderInv'
  OBVIOUS
<1>1. PICK m, taken : m = Len(written)
                      /\ taken = IF next # Null THEN next ELSE Filled(Garbage)
  OBVIOUS
<1>2. /\ m \in Nat /\ accepted \in Nat /\ accepted + 1 \in 1 .. MaxLines /\ m <= accepted
      /\ written' = written /\ accepted' = accepted + 1
      /\ spare1' = spare1 /\ spare2' = spare2
  BY <1>1, LoggingAssumption DEF OrderInv, LinesInOrder, BuffersInv, AppendLine
<1>3. current \in Buf /\ buffers \in Seq(Buf) /\ taken \in Buf
  BY <1>1, FilledBuffer DEF BuffersInv, BuffersPresent
<1>4. taken.cur = 0 /\ Stale(taken, m) /\ avail(taken) > 1
  <2>1. Stale(Filled(Garbage), m) /\ Filled(Garbage).cur = 0
    BY FilledBuffer DEF Stale, Filled
  <2>2. taken.cur = 0 /\ Stale(taken, m)
    BY <1>1, <2>1 DEF OrderInv
  <2> QED BY <2>2, LoggingAssumption DEF avail
<1>5. PICK bs : bs = Append(buffers, current)
  OBVIOUS
<1>6. /\ bs \in Seq(Buf) /\ Len(bs) = Len(buffers) + 1 /\ bs[Len(buffers) + 1] = current
      /\ \A i \in 1 .. Len(buffers) : bs[i] = buffers[i]
      /\ Len(buffers) \in Nat
  BY <1>3, <1>5
<1>7. InPlace(bs, m, accepted) /\ written = [i \in 1 .. m |-> i] /\ written \in Seq(Nat)
  BY <1>1, <1>5, OrderIs DEF OrderInv
<1>8. /\ Stale(current, m) /\ \A i \in DOMAIN buffers : Stale(buffers[i], m)
      /\ \A b \in {spare1, spare2, next} \ {Null} : b.cur = 0 /\ Stale(b, m)
  BY <1>1 DEF OrderInv
<1>9. append(current, accepted + 1) \in Buf /\ append(taken, accepted + 1) \in Buf
  BY <1>2, <1>3, AppendKeepsBuffer
<1>10. PICK cs : cs = Append(buffers', current')
  OBVIOUS
<1>11. CASE /\ avail(current) > 1
            /\ current' = append(current, accepted + 1)
            /\ next' = next /\ buffers' = buffers
  <2>1. /\ cs \in Seq(Buf) /\ Len(cs) = Len(buffers) + 1
        /\ cs[Len(buffers) + 1] = append(current, accepted + 1)
        /\ \A i \in 1 .. Len(buffers) : cs[i] = buffers[i]
    BY <1>3, <1>9, <1>10, <1>11
  <2>2. InPlace(cs, m, accepted + 1)
    <3>1. PICK k \in Nat : k = Len(buffers) + 1
      BY <1>6
    <3>2. \A i \in 1 .. k - 1 : cs[i] = bs[i]
      BY <3>1, <2>1, <1>6
    <3>3. /\ Len(cs) = k /\ k > 0 /\ cs[k] = append(current, accepted + 1)
          /\ Len(bs) = k /\ bs[k] = current
      BY <3>1, <2>1, <1>6
    <3> QED BY <3>2, <3>3, <1>2, <1>3, <1>6, <1>7, <1>11, <2>1, PutLast
  <2>3. Stale(current', m)
    BY <1>2, <1>3, <1>8, <1>11, AppendStale
  <2>4. LinesInOrder'
    BY <1>1, <1>2, <1>7, <1>10, <2>2 DEF LinesInOrder, InPlace
  <2> QED BY <1>1, <1>2, <1>7, <1>8, <1>11, <2>3, <2>4 DEF OrderInv
<1>12. CASE /\ buffers' = Append(buffers, current)
            /\ current' = append(taken, accepted + 1)
            /\ next' = Null
  <2>1. /\ cs \in Seq(Buf) /\ Len(cs) = Len(buffers) + 2
        /\ cs[Len(buffers) + 2] = append(taken, accepted + 1)
        /\ \A i \in 1 .. Len(buffers) + 1 : cs[i] = bs[i]
    BY <1>5, <1>6, <1>9, <1>10, <1>12
  <2>2. InPlace(cs, m, accepted + 1)
    <3>1. PICK k \in Nat : k = Len(buffers) + 2
      BY <1>6
    <3>2. /\ Len(cs) = k /\ k > 0 /\ cs[k] = append(taken, accepted + 1)
          /\ Len(bs) = k - 1 /\ \A i \in 1 .. k - 1 : cs[i] = bs[i]
      BY <3>1, <2>1, <1>6
    <3> QED BY <3>2, <1>2, <1>3, <1>4, <1>6, <1>7, <2>1, PutLast
  <2>3. Stale(current', m)
    BY <1>2, <1>3, <1>4, <1>12, AppendStale
  <2>4. LinesInOrder'
    BY <1>1, <1>2, <1>7, <1>10, <2>2 DEF LinesInOrder, InPlace
  <2>5. \A i \in DOMAIN buffers' : Stale(buffers'[i], m)
    BY <1>3, <1>5, <1>6, <1>8, <1>12
  <2> QED BY <1>1, <1>2, <1>7, <1>8, <1>12, <2>3, <2>4, <2>5 DEF OrderInv
<1> QED BY <1>1, <1>11, <1>12 DEF AppendLine

\* A pass: the file has every line accepted, and the buffers that are kept hold
\* nothing newer.
LEMMA PassOrders == BuffersInv /\ OrderInv /\ Pass => OrderInv'
<1> SUFFICES ASSUME BuffersInv, OrderInv, Pass PROVE OrderInv'
  OBVIOUS
<1>1. PICK m, bs : m = Len(written) /\ bs = Append(buffers, current)
  OBVIOUS
<1>2. /\ m \in Nat /\ accepted \in 0 .. MaxLines /\ m <= accepted /\ accepted \in Nat
      /\ accepted' = accepted /\ written' = written \o NewLines(bs)
  BY <1>1, LoggingAssumption DEF OrderInv, LinesInOrder, BuffersInv, Pass
<1>3. current \in Buf /\ buffers \in Seq(Buf) /\ spare1 \in Buf
  BY DEF BuffersInv, BuffersPresent
<1>4. /\ bs \in Seq(Buf) /\ Len(bs) = Len(buffers) + 1 /\ bs[Len(buffers) + 1] = current
      /\ \A i \in 1 .. Len(buffers) : bs[i] = buffers[i]
      /\ Len(buffers) \in Nat /\ DOMAIN bs = 1 .. Len(buffers) + 1
  BY <1>1, <1>3
<1>5. InPlace(bs, m, accepted) /\ written = [i \in 1 .. m |-> i]
  BY <1>1, OrderIs DEF OrderInv
<1>6. \A i \in DOMAIN bs : Stale(bs[i], m)
  BY <1>1, <1>3, <1>4 DEF OrderInv
<1>7. NewLines(bs) = [k \in 1 .. accepted - m |-> m + k]
  <2>1. Range(written) = 1 .. m
    BY <1>5 DEF Range
  <2> QED BY <2>1, <1>2, <1>4, <1>5, <1>6, NewLinesAre
<1>8. written' = [i \in 1 .. accepted |-> i] /\ Len(written') = accepted
      /\ written' \in Seq(Nat)
  BY <1>2, <1>5, <1>7
<1>9. ASSUME NEW i \in DOMAIN bs
      PROVE  reset(bs[i]).cur = 0 /\ Stale(reset(bs[i]), accepted)
  <2>1. bs[i] \in Buf
    BY <1>4
  <2>2. reset(bs[i]).cur = 0 /\ reset(bs[i]).data = bs[i].data
    BY <2>1 DEF reset, Buf
  <2>3. ASSUME NEW j \in Slot
        PROVE  bs[i].data[j] \in {Blank, Garbage} \cup 1 .. accepted
    <3>1. j \in Int /\ bs[i].cur \in Int
      BY <2>1, LoggingAssumption DEF Slot, Buf
    <3>2. CASE j <= bs[i].cur
      <4>1. <<i, j>> \in Filling(bs)
        BY <1>4, <3>2, FillingIs
      <4>2. LineAt(bs, <<i, j>>) \in m + 1 .. accepted
        BY <4>1, <1>5 DEF InPlace
      <4> QED BY <4>2, <1>2 DEF LineAt
    <3>3. CASE j > bs[i].cur
      <4>1. bs[i].data[j] \in {Blank, Garbage} \cup 1 .. m
        BY <1>6, <3>3 DEF Stale
      <4> QED BY <4>1, <1>2
    <3> QED BY <3>1, <3>2, <3>3
  <2> QED BY <2>2, <2>3 DEF Stale
<1>10. \A b : Stale(b, m) => Stale(b, accepted)
  BY <1>2 DEF Stale
<1>11. PICK kept : kept = IF Len(bs) > 2 THEN 2 ELSE Len(bs)
  OBVIOUS
<1>12. kept \in DOMAIN bs /\ 1 \in DOMAIN bs
  BY <1>4, <1>11
<1>13. /\ current' = spare1 /\ buffers' = <<>> /\ spare1' = reset(bs[kept])
       /\ \/ next' = next /\ spare2' = spare2
          \/ next' = spare2 /\ spare2' = (IF kept = 2 THEN reset(bs[1]) ELSE Null)
  BY <1>1, <1>11 DEF Pass
<1>14. spare1 # Null /\ (spare2 \in Buf => spare2 # Null)
  BY <1>3, NullAssumption
<1>15. \A b \in {spare1, spare2, next} \ {Null} : b.cur = 0 /\ Stale(b, accepted)
  BY <1>1, <1>10 DEF OrderInv
<1>16. current'.cur = 0 /\ Stale(current', accepted)
  BY <1>13, <1>14, <1>15
<1>17. \A b \in {spare1', spare2', next'} \ {Null} : b.cur = 0 /\ Stale(b, accepted)
  BY <1>9, <1>12, <1>13, <1>15
<1>18. InPlace(Append(buffers', current'), accepted, accepted)
  <2>1. PICK cs : cs = Append(buffers', current')
    OBVIOUS
  <2>2. cs \in Seq(Buf) /\ Len(cs) = 1 /\ cs[1] = spare1 /\ spare1.cur = 0
    BY <2>1, <1>3, <1>13, <1>16
  <2>3. Filling(cs) = {}
    <3>1. ASSUME NEW p \in Filling(cs) PROVE FALSE
      <4>1. <<p[1], p[2]>> \in Filling(cs)
        BY <2>2, FillingIs
      <4>2. p[1] \in 1 .. 1 /\ p[2] \in Slot /\ p[2] <= cs[p[1]].cur
        BY <4>1, <2>2, FillingIs
      <4> QED BY <4>2, <2>2, LoggingAssumption DEF Slot
    <3> QED BY <3>1
  <2> QED BY <2>1, <2>3, <1>2 DEF InPlace
<1>19. LinesInOrder'
  BY <1>2, <1>8, <1>18 DEF LinesInOrder, InPlace
<1>20. DOMAIN buffers' = {}
  BY <1>13
<1> QED BY <1>8, <1>16, <1>17, <1>19, <1>20 DEF OrderInv

\* Only append() adds a line, and only a pass moves lines to the file.
LEMMA OrderNext == BuffersInv /\ OrderInv /\ [Next]_vars => OrderInv'
<1> SUFFICES ASSUME BuffersInv, OrderInv, [Next]_vars PROVE OrderInv'
  OBVIOUS
<1>1. CASE AppendLine
  BY <1>1, AppendLineOrders
<1>2. CASE Pass
  BY <1>2, PassOrders
<1>3. CASE Start \/ Stop \/ StopNotify \/ Join \/ CheckRunning \/ WaitFor \/ WaitEnds
           \/ UNCHANGED vars
  <2>1. UNCHANGED <<current, next, buffers, spare1, spare2, accepted, written>>
    BY <1>3 DEF Start, Stop, StopNotify, Join, CheckRunning, WaitFor, WaitEnds, vars
  <2> QED BY <2>1 DEF OrderInv, LinesInOrder, Stale
<1> QED BY <1>1, <1>2, <1>3 DEF Next, BackEnd

\* No line given to append() is lost, written before an earlier one or taken twice
\* for new, for buffers of every size and every interleaving of appends, passes
\* and stop(): what recycled buffers hold behind _cur has been in the file.
THEOREM LinesStayInOrder == Spec => []LinesInOrder
<1>1. Init => BuffersInv /\ OrderInv
  BY BuffersInit, OrderInit
<1>2. BuffersInv /\ OrderInv /\ [Next]_vars => BuffersInv' /\ OrderInv'
  BY BuffersNext, OrderNext
<1>3. BuffersInv /\ OrderInv => LinesInOrder
  BY DEF OrderInv
<1> QED BY <1>1, <1>2, <1>3, PTL DEF Spec

-----------------------------------------------------------------------------
(* HttpServer: the stream.                                                 *)

\* the concatenations of the first members of ss
IsFlattened(f, ss) ==
  \A i \in 1 .. Len(ss) : f[i] = IF i = 1 THEN ss[i] ELSE f[i - 1] \o ss[i]

\* u[n] is what is left of the concatenation of ss from ss[n] on
IsRemaining(u, ss, k) ==
  /\ u[k + 1] = <<>>
  /\ \A n \in 1 .. k : u[n] = ss[n] \o u[n + 1]

\* FlattenSeq is the last of the concatenations of the first members.
LEMMA FlattenIs ==
  ASSUME NEW S, NEW ss \in Seq(Seq(S)), ss # <<>>
  PROVE  \E f : IsFlattened(f, ss) /\ FlattenSeq(ss) = f[Len(ss)]
<1> DEFINE D == 1 .. Len(ss)
           V == Seq(S)
           Def(g, i) == IF i = 1 THEN ss[i] ELSE g[i - 1] \o ss[i]
           F == [p \in [D -> V] \X D |-> Def(p[1], p[2])]
           rank == [i \in D |-> i]
<1>0. Len(ss) \in Nat /\ Len(ss) # 0 /\ \A i \in D : ss[i] \in V /\ i \in Nat
  OBVIOUS
<1>1. \A g \in [D -> V], i \in D : F[<<g, i>>] = Def(g, i)
  OBVIOUS
<1>2. \A i \in D : i # 1 => i - 1 \in D /\ i - 1 < i
  BY <1>0
<1>3. F \in [[D -> V] \X D -> V]
  <2>1. ASSUME NEW g \in [D -> V], NEW i \in D PROVE Def(g, i) \in V
    <3>1. i # 1 => g[i - 1] \in V
      BY <1>2
    <3> QED BY <1>0, <3>1
  <2> HIDE DEF Def, V, D
  <2> QED BY <2>1
<1>4. rank \in [D -> Nat]
  BY <1>0
<1>5. ASSUME NEW g \in [D -> V], NEW h \in [D -> V], NEW i \in D,
             \A y \in D : rank[y] < rank[i] => g[y] = h[y]
      PROVE  F[<<g, i>>] = F[<<h, i>>]
  <2>1. i # 1 => g[i - 1] = h[i - 1]
    BY <1>2, <1>5
  <2>2. Def(g, i) = Def(h, i)
    BY <2>1
  <2> HIDE DEF F, Def
  <2> QED BY <2>2, <1>1
<1>6. IsRecursion(D, V, rank, F)
  <2>1. V # {}
    OBVIOUS
  <2> HIDE DEF D, V, rank, F
  <2> QED BY <1>3, <1>4, <1>5, <2>1 DEF IsRecursion
<1> HIDE DEF F, rank
<1>7. PICK f \in [D -> V] : \A i \in D : f[i] = F[<<f, i>>]
  <2> HIDE DEF D, V
  <2> QED BY <1>6, Recursion
<1>8. f = [i \in D |-> Def(f, i)]
  <2> HIDE DEF Def, D, V
  <2> QED BY <1>1, <1>7
<1> DEFINE c == CHOOSE t : t = [i \in D |-> Def(t, i)]
<1>9. c = [i \in D |-> Def(c, i)]
  <2>1. \E t : t = [i \in D |-> Def(t, i)]
    BY <1>8
  <2> HIDE DEF D, Def
  <2> QED BY <2>1
<1>10. FlattenSeq(ss) = c[Len(ss)]
  BY <1>0 DEF FlattenSeq
<1>11. IsFlattened(c, ss)
  <2> HIDE DEF c
  <2> QED BY <1>9 DEF IsFlattened
<1> HIDE DEF c
<1> QED BY <1>10, <1>11

\* One member more at the end of what is left.
LEMMA OneMoreRemains ==
  ASSUME NEW S, NEW ss \in Seq(Seq(S)), NEW k \in Nat, k + 1 <= Len(ss),
         NEW u \in [1 .. k + 1 -> Seq(S)], IsRemaining(u, ss, k)
  PROVE  \E w \in [1 .. k + 2 -> Seq(S)] :
           IsRemaining(w, ss, k + 1) /\ w[1] = u[1] \o ss[k + 1]
<1>1. PICK w : w = [n \in 1 .. k + 2 |-> IF n = k + 2 THEN <<>> ELSE u[n] \o ss[k + 1]]
  OBVIOUS
<1>2. \A n \in 1 .. k + 1 : ss[n] \in Seq(S) /\ u[n] \in Seq(S)
  BY LenProperties, ElementOfSeq
<1>3. w \in [1 .. k + 2 -> Seq(S)]
  <2>1. <<>> \in Seq(S)
    OBVIOUS
  <2>2. \A n \in 1 .. k + 2 : n # k + 2 => n \in 1 .. k + 1
    OBVIOUS
  <2>3. \A n \in 1 .. k + 1 : u[n] \o ss[k + 1] \in Seq(S)
    BY <1>2
  <2> QED BY <1>1, <2>1, <2>2, <2>3
<1>4. ASSUME NEW n \in 1 .. k + 1 PROVE w[n] = u[n] \o ss[k + 1]
  <2>1. n \in 1 .. k + 2 /\ n # k + 2
    OBVIOUS
  <2> QED BY ONLY <1>1, <2>1
<1>5. w[k + 1 + 1] = <<>>
  BY <1>1
<1>6. ASSUME NEW n \in 1 .. k PROVE w[n] = ss[n] \o w[n + 1]
  <2>1. n \in 1 .. k + 1 /\ n + 1 \in 1 .. k + 1
    OBVIOUS
  <2>2. u[n] = ss[n] \o u[n + 1]
    BY DEF IsRemaining
  <2>3. PICK a \in Seq(S), b \in Seq(S), d \in Seq(S) :
          a = ss[n] /\ b = u[n + 1] /\ d = ss[k + 1]
    BY <1>2, <2>1, SMTT(30)
  <2>4. (a \o b) \o d = a \o (b \o d)
    BY ONLY ConcatAssociative, a \in Seq(S), b \in Seq(S), d \in Seq(S), SMTT(60)
  <2> QED BY <1>4, <2>1, <2>2, <2>3, <2>4
<1>7. w[k + 1] = ss[k + 1] \o w[k + 1 + 1]
  <2>1. u[k + 1] = <<>>
    BY DEF IsRemaining
  <2>2. PICK d \in Seq(S) : d = ss[k + 1]
    BY <1>2
  <2>3. <<>> \o d = d /\ d \o <<>> = d
    BY ConcatEmptySeq
  <2>4. w[k + 1] = u[k + 1] \o ss[k + 1]
    <3>1. k + 1 \in 1 .. k + 1
      OBVIOUS
    <3> QED BY ONLY <1>4, <3>1, Zenon
  <2> QED BY ONLY <1>5, <2>1, <2>2, <2>3, <2>4
<1>8. \A n \in 1 .. k + 1 : n \in 1 .. k \/ n = k + 1
  OBVIOUS
<1>9. IsRemaining(w, ss, k + 1)
  BY <1>5, <1>6, <1>7, <1>8 DEF IsRemaining
<1>10. w[1] = u[1] \o ss[k + 1]
  <2>1. 1 \in 1 .. k + 1
    OBVIOUS
  <2> QED BY ONLY <1>4, <2>1, Zenon
<1> QED BY ONLY <1>3, <1>9, <1>10

\* A concatenation can be taken off from the front.
LEMMA FlattenRemains ==
  ASSUME NEW S, NEW ss \in Seq(Seq(S))
  PROVE  \E u \in [1 .. Len(ss) + 1 -> Seq(S)] :
           IsRemaining(u, ss, Len(ss)) /\ u[1] = FlattenSeq(ss)
<1>1. CASE ss = <<>>
  <2>1. PICK u : u = [n \in 1 .. 1 |-> <<>>]
    OBVIOUS
  <2>2. u \in [1 .. 1 -> Seq(S)] /\ u[1] = <<>> /\ Len(ss) = 0
    BY <2>1, <1>1
  <2>3. FlattenSeq(ss) = <<>>
    BY <1>1, <2>2 DEF FlattenSeq
  <2>4. IsRemaining(u, ss, 0)
    BY <2>2 DEF IsRemaining
  <2> QED BY <2>2, <2>3, <2>4
<1>2. CASE ss # <<>>
  <2>1. PICK f : IsFlattened(f, ss) /\ FlattenSeq(ss) = f[Len(ss)]
    BY <1>2, FlattenIs
  <2>2. Len(ss) \in Nat /\ Len(ss) > 0
    BY <1>2
  <2> DEFINE Rem(k) == \E u \in [1 .. k + 1 -> Seq(S)] : IsRemaining(u, ss, k) /\ u[1] = f[k]
             T == {j \in Nat : j + 1 <= Len(ss) => Rem(j + 1)}
  <2>3. 0 \in T
    <3>1. PICK u : u = [n \in 1 .. 2 |-> IF n = 1 THEN ss[1] ELSE <<>>]
      OBVIOUS
    <3>2. ss[1] \in Seq(S) /\ <<>> \in Seq(S)
      BY <2>2
    <3>3. u \in [1 .. 2 -> Seq(S)] /\ u[1] = ss[1] /\ u[2] = <<>>
      BY <3>1, <3>2
    <3>4. ss[1] = ss[1] \o <<>>
      BY <3>2, ConcatEmptySeq
    <3>5. IsRemaining(u, ss, 1)
      <4>1. u[1] = ss[1] \o u[2] /\ 1 .. 1 = {1} /\ 1 + 1 = 2
        BY ONLY <3>3, <3>4
      <4> QED BY ONLY <4>1, <3>3 DEF IsRemaining
    <3>6. f[1] = ss[1]
      BY <2>1, <2>2 DEF IsFlattened
    <3>7. Rem(1)
      BY <3>3, <3>5, <3>6
    <3> QED BY <3>7
  <2>4. ASSUME NEW j \in Nat, j \in T PROVE j + 1 \in T
    <3> SUFFICES ASSUME j + 2 <= Len(ss) PROVE Rem(j + 2)
      BY <2>2
    <3>1. PICK u \in [1 .. j + 2 -> Seq(S)] : IsRemaining(u, ss, j + 1) /\ u[1] = f[j + 1]
      <4>1. Rem(j + 1)
        BY <2>2, <2>4
      <4>2. j + 1 + 1 = j + 2
        OBVIOUS
      <4> QED BY ONLY <4>1, <4>2
    <3>2. PICK w \in [1 .. j + 3 -> Seq(S)] :
             IsRemaining(w, ss, j + 2) /\ w[1] = u[1] \o ss[j + 2]
      <4>1. PICK k \in Nat : k = j + 1 /\ k + 1 <= Len(ss) /\ k + 1 = j + 2 /\ k + 2 = j + 3
        BY <2>2
      <4>2. u \in [1 .. k + 1 -> Seq(S)] /\ IsRemaining(u, ss, k)
        BY <3>1, <4>1
      <4>a. k + 1 <= Len(ss)
        BY <4>1
      <4>b. u \in [1 .. k + 1 -> Seq(S)]
        BY <4>2
      <4>c. IsRemaining(u, ss, k)
        BY <4>2
      <4>3. \E w \in [1 .. k + 2 -> Seq(S)] :
              IsRemaining(w, ss, k + 1) /\ w[1] = u[1] \o ss[k + 1]
        BY ONLY ss \in Seq(Seq(S)), k \in Nat, <4>a, <4>b, <4>c, OneMoreRemains, ZenonT(60)
      <4> QED BY <4>1, <4>3
    <3>3. f[j + 2] = f[j + 1] \o ss[j + 2]
      <4>1. PICK i \in 1 .. Len(ss) : i = j + 2 /\ i # 1 /\ i - 1 = j + 1
        BY <2>2
      <4>2. f[i] = IF i = 1 THEN ss[i] ELSE f[i - 1] \o ss[i]
        BY <2>1 DEF IsFlattened
      <4> QED BY ONLY <4>1, <4>2
    <3>4. w[1] = f[j + 2] /\ j + 2 + 1 = j + 3
      BY <3>1, <3>2, <3>3
    <3> QED BY <3>2, <3>4
  <2>5. Nat \subseteq T
    <3> HIDE DEF T
    <3> QED BY <2>3, <2>4, NatSetInduction
  <2>6. PICK j \in Nat : j + 1 = Len(ss)
    <3>1. Len(ss) - 1 \in Nat /\ (Len(ss) - 1) + 1 = Len(ss)
      BY <2>2
    <3> QED BY <3>1
  <2>7. Rem(Len(ss))
    <3>1. j \in T
      BY <2>5
    <3> HIDE DEF Rem
    <3> QED BY <2>2, <2>6, <3>1
  <2> QED BY <2>1, <2>7
<1> QED BY <1>1, <1>2

-----------------------------------------------------------------------------
(* HttpServer: requests and lines.                                         *)

\* the requests as they are sent
Encoded(rs) == [n \in DOMAIN rs |-> Encode(rs[n], n)]

\* The pieces of a line are told apart by their kinds.
LEMMA Kinds ==
  /\ CRLF.kind = "crlf" /\ Body.kind = "body"
  /\ \A m, n, v : Words(m, n, v).kind = "words" /\ Words(m, n, v).words = <<m, n, v>>
  /\ \A f, c : /\ Header(f, c).kind = "header"
               /\ Header(f, c).field = f /\ Header(f, c).value = c
BY DEF CRLF, Body, Words, Header

\* A request starts with its request line.
LEMMA EncodeIs ==
  ASSUME NEW r \in Request, NEW n \in Nat
  PROVE  /\ Words(r.method, n, r.version) \in Token /\ CRLF \in Token
         /\ HeadersOf(r) \in Seq(Token) /\ r.body \in Seq(Token)
         /\ HeadersOf(r) \o r.body \in Seq(Token)
         /\ Encode(r, n) \in Seq(Token)
         /\ Encode(r, n) = <<Words(r.method, n, r.version), CRLF>>
                           \o (HeadersOf(r) \o r.body)
<1>1. /\ r.method \in MethodsSent /\ r.version \in VersionsSent
      /\ r.connection \in Connections
  BY DEF Request
<1>2. PICK w \in Token : w = Words(r.method, n, r.version)
  <2>1. Words(r.method, n, r.version) \in Token
    BY <1>1 DEF Token, Words, Header
  <2> QED BY <2>1
<1>3. PICK e \in Token : e = CRLF
  <2>1. CRLF \in Token
    BY DEF Token
  <2> QED BY <2>1
<1>4. PICK d \in Token : d = Header("Connection", r.connection)
  <2>1. Header("Connection", r.connection) \in Token
    BY <1>1 DEF Token, Words, Header
  <2> QED BY <2>1
<1>6. HeadersOf(r) \in Seq(Token)
  <2>1. <<e>> \in Seq(Token) /\ <<d, e, e>> \in Seq(Token)
    OBVIOUS
  <2> QED BY <1>3, <1>4, <2>1 DEF HeadersOf
<1>7. r.body \in Seq(Token)
  BY HttpAssumption DEF Request
<1>8. PICK x \in Seq(Token), y \in Seq(Token), z \in Seq(Token) :
        x = <<w, e>> /\ y = HeadersOf(r) /\ z = r.body
  <2>1. <<w, e>> \in Seq(Token)
    OBVIOUS
  <2> QED BY <1>6, <1>7, <2>1
<1>9. (x \o y) \o z = x \o (y \o z) /\ y \o z \in Seq(Token) /\ (x \o y) \o z \in Seq(Token)
  <2>1. (x \o y) \o z = x \o (y \o z)
    BY ONLY ConcatAssociative, x \in Seq(Token), y \in Seq(Token), z \in Seq(Token)
  <2>2. y \o z \in Seq(Token) /\ (x \o y) \o z \in Seq(Token)
    BY ONLY x \in Seq(Token), y \in Seq(Token), z \in Seq(Token)
  <2> QED BY <2>1, <2>2
<1>10. Encode(r, n) = (x \o y) \o z
  BY <1>2, <1>3, <1>8 DEF Encode
<1> QED BY <1>2, <1>3, <1>8, <1>9, <1>10

\* what is sent from request n on
From(rs, n) ==
  (CHOOSE u \in [1 .. Len(rs) + 1 -> Seq(Token)] :
     IsRemaining(u, Encoded(rs), Len(rs)) /\ u[1] = FlattenSeq(Encoded(rs)))[n]

\* The stream is the requests one behind the other, up to its end.
LEMMA FromIs ==
  ASSUME NEW rs \in Seq(Request)
  PROVE  /\ From(rs, 1) = FlattenSeq(Encoded(rs))
         /\ From(rs, Len(rs) + 1) = <<>>
         /\ \A n \in 1 .. Len(rs) + 1 : From(rs, n) \in Seq(Token)
         /\ \A n \in 1 .. Len(rs) : From(rs, n) = Encode(rs[n], n) \o From(rs, n + 1)
<1>1. PICK ss : ss = Encoded(rs)
  OBVIOUS
<1>2. ss \in Seq(Seq(Token)) /\ Len(ss) = Len(rs)
      /\ \A n \in 1 .. Len(rs) : ss[n] = Encode(rs[n], n)
  <2>1. DOMAIN rs = 1 .. Len(rs) /\ Len(rs) \in Nat
    OBVIOUS
  <2>2. \A n \in 1 .. Len(rs) : rs[n] \in Request /\ n \in Nat
    BY <2>1
  <2>3. \A n \in 1 .. Len(rs) : Encode(rs[n], n) \in Seq(Token)
    BY <2>2, EncodeIs
  <2>4. ss = [n \in 1 .. Len(rs) |-> Encode(rs[n], n)]
    BY <1>1, <2>1 DEF Encoded
  <2>5. ss \in [1 .. Len(rs) -> Seq(Token)]
    BY <2>3, <2>4
  <2> QED BY <2>1, <2>4, <2>5
<1> DEFINE Is(u) == IsRemaining(u, ss, Len(rs)) /\ u[1] = FlattenSeq(ss)
           D == [1 .. Len(rs) + 1 -> Seq(Token)]
           c == CHOOSE u \in D : Is(u)
<1>3. \E u \in D : Is(u)
  <2>1. \E u \in [1 .. Len(ss) + 1 -> Seq(Token)] :
          IsRemaining(u, ss, Len(ss)) /\ u[1] = FlattenSeq(ss)
    BY <1>2, FlattenRemains
  <2> QED BY ONLY <2>1, <1>2
<1>4. c \in D /\ Is(c)
  <2> HIDE DEF D, Is
  <2> QED BY <1>3
<1>5. \A n : From(rs, n) = c[n]
  BY <1>1 DEF From
<1> HIDE DEF c
<1>6. /\ c[1] = FlattenSeq(ss) /\ c[Len(rs) + 1] = <<>>
      /\ \A n \in 1 .. Len(rs) : c[n] = ss[n] \o c[n + 1]
  BY <1>4 DEF IsRemaining
<1>7. \A n \in 1 .. Len(rs) + 1 : c[n] \in Seq(Token)
  BY <1>4
<1>8. \A n \in 1 .. Len(rs) : From(rs, n) = Encode(rs[n], n) \o From(rs, n + 1)
  <2> TAKE n \in 1 .. Len(rs)
  <2>1. From(rs, n) = c[n] /\ From(rs, n + 1) = c[n + 1]
    BY <1>5
  <2>2. ss[n] = Encode(rs[n], n)
    BY <1>2
  <2>3. c[n] = ss[n] \o c[n + 1]
    BY <1>6
  <2> QED BY ONLY <2>1, <2>2, <2>3
<1>9. \A n \in 1 .. Len(rs) + 1 : From(rs, n) \in Seq(Token)
  BY ONLY <1>5, <1>7
<1>10. From(rs, 1) = FlattenSeq(Encoded(rs)) /\ From(rs, Len(rs) + 1) = <<>>
  BY ONLY <1>1, <1>5, <1>6
<1> QED BY <1>8, <1>9, <1>10

\* findCRLF finds the first end of a line.
LEMMA FindCRLFIs ==
  ASSUME input \in Seq(Token)
  PROVE  /\ FindCRLF = 0 \/ FindCRLF \in 1 .. Len(input)
         /\ (\A j \in 1 .. Len(input) : input[j] # CRLF) => FindCRLF = 0
         /\ \A k \in 1 .. Len(input) :
              input[k] = CRLF /\ (\A j \in 1 .. k - 1 : input[j] # CRLF) => FindCRLF = k
<1> DEFINE I == {i \in 1 .. Len(input) : input[i] = CRLF}
<1>1. FindCRLF = IF I # {} THEN Min(I) ELSE 0
  <2>1. Contains(input, CRLF) <=> I # {}
    BY DEF Contains
  <2>2. SelectInSeq(input, LAMBDA t : t = CRLF) = IF I # {} THEN Min(I) ELSE 0
    BY DEF SelectInSeq
  <2> QED BY <2>1, <2>2 DEF FindCRLF
<1>2. ASSUME I # {} PROVE Min(I) \in I /\ \A y \in I : Min(I) <= y
  <2>1. I \subseteq Nat
    OBVIOUS
  <2>2. \E x \in I : \A y \in I : x <= y
    <3> HIDE DEF I
    <3> QED BY <1>2, <2>1, Least
  <2> HIDE DEF I
  <2> QED BY <2>2 DEF Min
<1>3. FindCRLF = 0 \/ FindCRLF \in 1 .. Len(input)
  BY <1>1, <1>2
<1>4. (\A j \in 1 .. Len(input) : input[j] # CRLF) => FindCRLF = 0
  BY <1>1
<1>5. ASSUME NEW k \in 1 .. Len(input), input[k] = CRLF,
             \A j \in 1 .. k - 1 : input[j] # CRLF
      PROVE  FindCRLF = k
  <2>1. k \in I
    BY <1>5
  <2>2. PICK m : m = Min(I)
    OBVIOUS
  <2>3. m \in I /\ m <= k
    BY <1>2, <2>1, <2>2
  <2>4. m \in 1 .. Len(input) /\ input[m] = CRLF
    BY <2>3
  <2>5. m = k
    BY <2>3, <2>4, <1>5
  <2> QED BY <2>1, <2>2, <2>5, <1>1
<1> QED BY <1>3, <1>4, <1>5

\* The members of a concatenation.
LEMMA ConcatIs ==
  ASSUME NEW S, NEW a \in Seq(S), NEW b \in Seq(S), NEW k \in Nat, NEW l \in Nat,
         k = Len(a), l = Len(b)
  PROVE  /\ a \o b \in Seq(S) /\ Len(a \o b) = k + l
         /\ \A i \in 1 .. k : (a \o b)[i] = a[i]
         /\ \A i \in 1 .. l : (a \o b)[k + i] = b[i]
OBVIOUS

\* Two ways to cut a sequence in two: the shorter front is part of the longer.
LEMMA Fronts ==
  ASSUME NEW S, NEW a \in Seq(S), NEW b \in Seq(S), NEW p \in Seq(S), NEW z \in Seq(S),
         a \o b = p \o z
  PROVE  /\ \A i \in 1 .. Len(a) : i <= Len(p) => a[i] = p[i]
         /\ \A i \in 1 .. Len(p) : (a \o b)[i] = p[i]
         /\ Len(a \o b) >= Len(p)
<1>1. PICK c : c = a \o b
  OBVIOUS
<1>2. PICK k \in Nat, l \in Nat, m \in Nat, n \in Nat :
        k = Len(a) /\ l = Len(b) /\ m = Len(p) /\ n = Len(z)
  OBVIOUS
<1>3. /\ c \in Seq(S) /\ Len(c) = k + l
      /\ \A i \in 1 .. k : c[i] = a[i]
      /\ \A i \in 1 .. l : c[k + i] = b[i]
  <2>1. /\ a \o b \in Seq(S) /\ Len(a \o b) = k + l
        /\ \A i \in 1 .. k : (a \o b)[i] = a[i]
        /\ \A i \in 1 .. l : (a \o b)[k + i] = b[i]
    BY ONLY <1>2, k \in Nat, l \in Nat, a \in Seq(S), b \in Seq(S), ConcatIs
  <2> QED BY ONLY <1>1, <2>1
<1>4. /\ Len(c) = m + n
      /\ \A i \in 1 .. m : c[i] = p[i]
      /\ \A i \in 1 .. n : c[m + i] = z[i]
  BY <1>1, <1>2
<1>5. \A i \in 1 .. Len(a) : i <= Len(p) => a[i] = p[i]
  BY ONLY <1>2, <1>3, <1>4, k \in Nat, m \in Nat
<1>6. \A i \in 1 .. Len(p) : (a \o b)[i] = p[i]
  BY ONLY <1>1, <1>2, <1>4
<1>7. Len(a \o b) >= Len(p)
  BY ONLY <1>1, <1>2, <1>4, m \in Nat, n \in Nat
<1> QED BY ONLY <1>5, <1>6, <1>7

\* What is behind the shorter front.
LEMMA TakeFront ==
  ASSUME NEW S, NEW a \in Seq(S), NEW b \in Seq(S), NEW p \in Seq(S), NEW z \in Seq(S),
         a \o b = p \o z, Len(p) <= Len(a)
  PROVE  /\ SubSeq(a, Len(p) + 1, Len(a)) \in Seq(S)
         /\ SubSeq(a, Len(p) + 1, Len(a)) \o b = z
<1>1. PICK c : c = a \o b
  OBVIOUS
<1>2. PICK k \in Nat, l \in Nat, m \in Nat, n \in Nat :
        k = Len(a) /\ l = Len(b) /\ m = Len(p) /\ n = Len(z)
  OBVIOUS
<1>3. /\ c \in Seq(S) /\ Len(c) = k + l
      /\ \A i \in 1 .. k : c[i] = a[i]
      /\ \A i \in 1 .. l : c[k + i] = b[i]
  <2>1. /\ a \o b \in Seq(S) /\ Len(a \o b) = k + l
        /\ \A i \in 1 .. k : (a \o b)[i] = a[i]
        /\ \A i \in 1 .. l : (a \o b)[k + i] = b[i]
    BY ONLY <1>2, k \in Nat, l \in Nat, a \in Seq(S), b \in Seq(S), ConcatIs
  <2> QED BY ONLY <1>1, <2>1
<1>4. /\ Len(c) = m + n
      /\ \A i \in 1 .. m : c[i] = p[i]
      /\ \A i \in 1 .. n : c[m + i] = z[i]
  <2>1. /\ p \o z \in Seq(S) /\ Len(p \o z) = m + n
        /\ \A i \in 1 .. m : (p \o z)[i] = p[i]
        /\ \A i \in 1 .. n : (p \o z)[m + i] = z[i]
    BY ONLY <1>2, m \in Nat, n \in Nat, p \in Seq(S), z \in Seq(S), ConcatIs, SMTT(60)
  <2> QED BY ONLY <1>1, <2>1, a \o b = p \o z
<1>5. m <= k
  BY <1>2
<1>6. SubSeq(a, m + 1, k) \in Seq(S) /\ SubSeq(a, m + 1, k) \o b = z
  <2>1. PICK d : d = SubSeq(a, m + 1, k)
    OBVIOUS
  <2>2. d \in Seq(S) /\ Len(d) = k - m /\ \A i \in 1 .. k - m : d[i] = a[m + i]
    BY <1>2, <1>5, <2>1
  <2>3. PICK e : e = d \o b
    OBVIOUS
  <2>4. /\ e \in Seq(S) /\ Len(e) = (k - m) + l
        /\ \A i \in 1 .. k - m : e[i] = d[i]
        /\ \A i \in 1 .. l : e[(k - m) + i] = b[i]
    <3>1. PICK j \in Nat : j = k - m
      BY <1>5
    <3>2. j = Len(d) /\ l = Len(b) /\ d \in Seq(S) /\ b \in Seq(S)
      BY <1>2, <2>2, <3>1
    <3>3. /\ d \o b \in Seq(S) /\ Len(d \o b) = j + l
          /\ \A i \in 1 .. j : (d \o b)[i] = d[i]
          /\ \A i \in 1 .. l : (d \o b)[j + i] = b[i]
      BY ONLY <3>2, j \in Nat, l \in Nat, ConcatIs
    <3> QED BY ONLY <2>3, <3>1, <3>3
  <2>5. Len(e) = n
    BY <1>3, <1>4, <2>4
  <2>6. ASSUME NEW i \in 1 .. n PROVE e[i] = z[i]
    <3>1. CASE i <= k - m
      <4>1. e[i] = a[m + i]
        BY <2>2, <2>4, <3>1
      <4>2. a[m + i] = c[m + i]
        BY <1>3, <3>1
      <4> QED BY <4>1, <4>2, <1>4
    <3>2. CASE i > k - m
      <4>1. PICK j \in 1 .. l : i = (k - m) + j /\ m + i = k + j
        <5>1. i - (k - m) \in 1 .. l /\ i = (k - m) + (i - (k - m))
              /\ m + i = k + (i - (k - m))
          BY <1>3, <1>4, <1>5, <3>2
        <5> QED BY <5>1
      <4>2. e[i] = b[j] /\ c[m + i] = b[j]
        BY <2>4, <1>3, <4>1
      <4> QED BY <4>2, <1>4
    <3> QED BY <3>1, <3>2, <1>5
  <2>7. e = z
    BY ONLY <1>2, <2>4, <2>5, <2>6, z \in Seq(S)
  <2> QED BY <2>1, <2>2, <2>3, <2>7
<1> QED BY ONLY <1>2, <1>6

-----------------------------------------------------------------------------
(* HttpServer: where the server is in the stream.                          *)

\* the request that is read or is to be read next
Current == requests[Len(replies) + 1]

\* X, and then the requests from the n-th on, is what the server has yet to
\* parse; with a read for each request, it has X in its buffer
At(X, n) == /\ input \o stream = X \o From(requests, n)
            /\ whole => input = X

\* X is what is left of the current request
Reading(X) == /\ Len(replies) < Len(requests)
              /\ At(X, Len(replies) + 2)
              /\ whole => Current.body = <<>>

\* the rest of a request that was cut comes first
Spoiled == /\ ~whole
           /\ input \o stream # <<>> => ~StartsRequest((input \o stream)[1])

\* the context holds the request line of the current request ...
HasLine == /\ ok
           /\ Len(replies) < Len(requests) /\ Valid(Current)
           /\ line = [path |-> Len(replies) + 1, version |-> Current.version]

\* ... and what its headers say
HasHeaders == headers["Connection"] = Current.connection

\* While the connection is up and no body was taken for a request, it has answered
\* the first requests, and where it is in the stream depends on where it is in
\* onMessage
Serving ==
  /\ input \in Seq(Token) /\ stream \in Seq(Token) /\ reads \in Nat
  /\ Len(replies) <= Len(requests)
  /\ whole => reads = IF phase = "idle" THEN Len(replies) ELSE Len(replies) + 1
  /\ \/ phase = "idle" /\ (At(<<>>, Len(replies) + 1) \/ Spoiled)
     \/ /\ phase = "parse" /\ parse = "kExpectRequestLine"
        /\ input # <<>> /\ headers = NoHeaders
        /\ Reading(Encode(Current, Len(replies) + 1)) \/ Spoiled
     \/ /\ phase = "parse" /\ parse = "kExpectHeaders"
        /\ HasLine
        /\ \/ headers = NoHeaders /\ Current.connection # ""
              /\ Reading(HeadersOf(Current) \o Current.body)
           \/ HasHeaders /\ Reading(<<CRLF>> \o Current.body)
     \/ /\ phase = "answer" /\ ~ok
        /\ whole => Len(replies) < Len(requests) /\ ~Valid(Current)
     \/ /\ phase = "answer" /\ ok /\ parse = "kGotAll"
        /\ HasLine /\ HasHeaders /\ Reading(Current.body)
     \/ phase = "answer" /\ ok /\ parse = "kExpectHeaders" /\ Spoiled

\* no reply so far was to end the connection
Open == \A i \in DOMAIN replies :
          /\ replies[i] # Status400
          /\ PlainBodies(i - 1) /\ WantsClose(requests[i]) => i \in cleared

\* a client that was served as WholeAnswered has it
Answers == whole => \A i \in DOMAIN replies :
                      (replies[i] = Status400) <=> ~Valid(requests[i])

\* Both properties with what makes them inductive: Serving while the connection
\* is up; later nothing is sent
HttpInv ==
  /\ requests \in Seq(Request) /\ replies \in Seq(Int)
  /\ input \in Seq(Token) /\ stream \in Seq(Token) /\ line.path \in Nat
  /\ state \in {"kConnected", "kDisconnecting"}
  /\ RepliesFaithful /\ Answers
  /\ state = "kConnected" => /\ Open
                             /\ whole => PlainBodies(Len(replies))
                             /\ PlainBodies(Len(replies)) => Serving

\* retrieveUntil takes a front off what there is to parse.
LEMMA Retrieved ==
  ASSUME input \in Seq(Token), stream \in Seq(Token),
         NEW p \in Seq(Token), NEW X \in Seq(Token), NEW n,
         From(requests, n) \in Seq(Token), At(p \o X, n), Len(p) <= Len(input),
         input' = SubSeq(input, Len(p) + 1, Len(input)),
         UNCHANGED <<stream, requests, whole>>
  PROVE  input' \in Seq(Token) /\ At(X, n)'
<1>1. PICK F \in Seq(Token) : F = From(requests, n)
  OBVIOUS
<1>2. input \o stream = p \o (X \o F)
  <2>1. (p \o X) \o F = p \o (X \o F)
    BY ONLY ConcatAssociative, p \in Seq(Token), X \in Seq(Token), F \in Seq(Token)
  <2> QED BY <1>1, <2>1 DEF At
<1>3. X \o F \in Seq(Token)
  BY <1>1
<1>4. input' \in Seq(Token) /\ input' \o stream = X \o F
  <2>1. PICK z \in Seq(Token) : z = X \o F
    BY <1>3
  <2>2. input \o stream = p \o z
    BY ONLY <1>2, <2>1
  <2>3. /\ SubSeq(input, Len(p) + 1, Len(input)) \in Seq(Token)
        /\ SubSeq(input, Len(p) + 1, Len(input)) \o stream = z
    BY ONLY <2>2, TakeFront, input \in Seq(Token), stream \in Seq(Token), p \in Seq(Token),
            z \in Seq(Token), Len(p) <= Len(input), ZenonT(60)
  <2> QED BY ONLY <2>1, <2>3, input' = SubSeq(input, Len(p) + 1, Len(input))
<1>5. ASSUME whole PROVE input' = X
  <2>1. input = p \o X
    BY <1>5 DEF At
  <2>2. input \o <<>> = p \o X /\ <<>> \in Seq(Token)
    BY <2>1, ConcatEmptySeq
  <2>3. input' \o <<>> = X
    BY <2>2, TakeFront, SMTT(30)
  <2> QED BY <2>3, <1>4, ConcatEmptySeq
<1> QED BY <1>1, <1>4, <1>5 DEF At

\* The line x at the front: either its end has not arrived, or it is found.
LEMMA LineFirst ==
  ASSUME input \in Seq(Token), stream \in Seq(Token), NEW x \in Token, x # CRLF,
         NEW X \in Seq(Token), NEW n, From(requests, n) \in Seq(Token),
         At(<<x, CRLF>> \o X, n)
  PROVE  /\ input \o stream # <<>> /\ (input \o stream)[1] = x
         /\ Len(input) < 2 => FindCRLF = 0 /\ ~whole
         /\ Len(input) >= 2 => FindCRLF = 2 /\ FrontLine = <<x>>
<1>1. PICK F \in Seq(Token) : F = From(requests, n)
  OBVIOUS
<1>2. PICK p \in Seq(Token) : p = <<x, CRLF>> /\ Len(p) = 2 /\ p[1] = x /\ p[2] = CRLF
  <2>1. PICK e \in Token : e = CRLF
    <3>1. CRLF \in Token
      BY DEF Token
    <3> QED BY <3>1
  <2>2. <<x, e>> \in Seq(Token) /\ Len(<<x, e>>) = 2 /\ <<x, e>>[1] = x /\ <<x, e>>[2] = e
    OBVIOUS
  <2> QED BY <2>1, <2>2
<1>3. input \o stream = p \o (X \o F)
  <2>1. (p \o X) \o F = p \o (X \o F)
    BY ONLY ConcatAssociative, p \in Seq(Token), X \in Seq(Token), F \in Seq(Token)
  <2> QED BY <1>1, <1>2, <2>1 DEF At
<1>4. X \o F \in Seq(Token)
  BY <1>1
<1>5. /\ \A i \in 1 .. Len(input) : i <= Len(p) => input[i] = p[i]
      /\ \A i \in 1 .. Len(p) : (input \o stream)[i] = p[i]
      /\ Len(input \o stream) >= Len(p)
  BY <1>3, <1>4, Fronts
<1>6. input \o stream # <<>> /\ (input \o stream)[1] = x
  BY <1>2, <1>5
<1>7. ASSUME Len(input) < 2 PROVE FindCRLF = 0 /\ ~whole
  <2>1. \A j \in 1 .. Len(input) : j = 1
    BY <1>7
  <2>2. \A j \in 1 .. Len(input) : input[j] # CRLF
    BY <1>2, <1>5, <2>1
  <2>3. whole => Len(input) = 2 + Len(X) /\ Len(X) \in Nat
    BY <1>2 DEF At
  <2>4. FindCRLF = 0
    BY <2>2, FindCRLFIs
  <2> QED BY <1>7, <2>3, <2>4
<1>8. ASSUME Len(input) >= 2 PROVE FindCRLF = 2 /\ FrontLine = <<x>>
  <2>1. input[1] = x /\ input[2] = CRLF /\ 2 \in 1 .. Len(input)
    BY <1>2, <1>5, <1>8
  <2>2. \A j \in 1 .. 2 - 1 : input[j] # CRLF
    BY <2>1
  <2>3. FindCRLF = 2
    BY <2>1, <2>2, FindCRLFIs
  <2>4. SubSeq(input, 1, 1) = <<x>>
    <3>1. PICK s : s = SubSeq(input, 1, 1)
      OBVIOUS
    <3>2. s \in Seq(Token) /\ Len(s) = 1 /\ s[1] = x
      BY <1>8, <2>1, <3>1
    <3>3. s = <<x>>
      BY ONLY <3>2, x \in Token
    <3> QED BY <3>1, <3>3
  <2> QED BY <2>3, <2>4 DEF FrontLine
<1> QED BY <1>6, <1>7, <1>8

\* An empty line at the front: it has not arrived, or it is found.
LEMMA EndFirst ==
  ASSUME input \in Seq(Token), stream \in Seq(Token),
         NEW X \in Seq(Token), NEW n, From(requests, n) \in Seq(Token),
         At(<<CRLF>> \o X, n)
  PROVE  /\ input \o stream # <<>> /\ (input \o stream)[1] = CRLF
         /\ Len(input) < 1 => FindCRLF = 0 /\ ~whole
         /\ Len(input) >= 1 => FindCRLF = 1 /\ FrontLine = <<>>
<1>1. PICK F \in Seq(Token) : F = From(requests, n)
  OBVIOUS
<1>2. PICK p \in Seq(Token) : p = <<CRLF>> /\ Len(p) = 1 /\ p[1] = CRLF
  <2>1. PICK e \in Token : e = CRLF
    <3>1. CRLF \in Token
      BY DEF Token
    <3> QED BY <3>1
  <2>2. <<e>> \in Seq(Token) /\ Len(<<e>>) = 1 /\ <<e>>[1] = e
    OBVIOUS
  <2> QED BY <2>1, <2>2
<1>3. input \o stream = p \o (X \o F)
  <2>1. (p \o X) \o F = p \o (X \o F)
    BY ONLY ConcatAssociative, p \in Seq(Token), X \in Seq(Token), F \in Seq(Token)
  <2> QED BY <1>1, <1>2, <2>1 DEF At
<1>4. X \o F \in Seq(Token)
  BY <1>1
<1>5. /\ \A i \in 1 .. Len(input) : i <= Len(p) => input[i] = p[i]
      /\ \A i \in 1 .. Len(p) : (input \o stream)[i] = p[i]
      /\ Len(input \o stream) >= Len(p)
  BY <1>3, <1>4, Fronts
<1>6. input \o stream # <<>> /\ (input \o stream)[1] = CRLF
  BY <1>2, <1>5
<1>7. ASSUME Len(input) < 1 PROVE FindCRLF = 0 /\ ~whole
  <2>1. \A j \in 1 .. Len(input) : input[j] # CRLF
    BY <1>7
  <2>2. whole => Len(input) = 1 + Len(X) /\ Len(X) \in Nat
    BY <1>2 DEF At
  <2>3. FindCRLF = 0
    BY <2>1, FindCRLFIs
  <2> QED BY <1>7, <2>2, <2>3
<1>8. ASSUME Len(input) >= 1 PROVE FindCRLF = 1 /\ FrontLine = <<>>
  <2>1. input[1] = CRLF /\ 1 \in 1 .. Len(input)
    BY <1>2, <1>5, <1>8
  <2>2. \A j \in 1 .. 1 - 1 : input[j] # CRLF
    OBVIOUS
  <2>3. FindCRLF = 1
    BY <2>1, <2>2, FindCRLFIs
  <2>4. SubSeq(input, 1, 0) = <<>>
    OBVIOUS
  <2> QED BY <2>3, <2>4 DEF FrontLine
<1> QED BY <1>6, <1>7, <1>8

\* Two lines behind each other.
LEMMA Three ==
  ASSUME NEW S, NEW d \in S, NEW e \in S
  PROVE  <<d, e>> \o <<e>> = <<d, e, e>>
<1>1. PICK x \in Seq(S), y \in Seq(S) : x = <<d, e>> /\ y = <<e>>
  <2>1. <<d, e>> \in Seq(S) /\ <<e>> \in Seq(S)
    OBVIOUS
  <2> QED BY <2>1
<1>2. Len(x) = 2 /\ x[1] = d /\ x[2] = e /\ Len(y) = 1 /\ y[1] = e
  BY <1>1
<1>3. PICK c : c = x \o y
  OBVIOUS
<1>4. /\ c \in Seq(S) /\ Len(c) = Len(x) + Len(y)
      /\ \A i \in 1 .. Len(x) + Len(y) : c[i] = IF i <= Len(x) THEN x[i] ELSE y[i - Len(x)]
  BY ONLY <1>3, x \in Seq(S), y \in Seq(S), ConcatProperties
<1>5. /\ Len(c) = 3 /\ \A i \in 1 .. 3 : c[i] = IF i <= 2 THEN x[i] ELSE y[i - 2]
  BY ONLY <1>2, <1>4
<1>6. c[1] = d /\ c[2] = e /\ c[3] = e
  <2>1. 1 \in 1 .. 3 /\ 2 \in 1 .. 3 /\ 3 \in 1 .. 3 /\ 3 - 2 = 1
    OBVIOUS
  <2> QED BY ONLY <1>2, <1>5, <2>1
<1>7. c = <<d, e, e>>
  <2>1. c \in Seq(S) /\ Len(c) = 3
    BY ONLY <1>4, <1>5
  <2> QED BY ONLY <2>1, <1>6, d \in S, e \in S
<1> QED BY ONLY <1>1, <1>3, <1>7

\* What follows the request line.
LEMMA HeadersIs ==
  ASSUME NEW r \in Request
  PROVE  /\ <<CRLF>> \o r.body \in Seq(Token)
         /\ r.connection = "" => HeadersOf(r) \o r.body = <<CRLF>> \o r.body
         /\ Header("Connection", r.connection) \in Token
         /\ r.connection # ""
            => HeadersOf(r) \o r.body = <<Header("Connection", r.connection), CRLF>>
                                           \o (<<CRLF>> \o r.body)
<1>1. PICK e \in Token : e = CRLF
  <2>1. CRLF \in Token
    BY DEF Token
  <2> QED BY <2>1
<1>2. PICK d \in Token : d = Header("Connection", r.connection)
  <2>1. Header("Connection", r.connection) \in Token
    BY DEF Token, Header, Request
  <2> QED BY <2>1
<1>3. PICK B \in Seq(Token) : B = r.body
  BY EncodeIs
<1>4. PICK x \in Seq(Token), y \in Seq(Token) : x = <<d, e>> /\ y = <<e>>
  <2>1. <<d, e>> \in Seq(Token) /\ <<e>> \in Seq(Token)
    OBVIOUS
  <2> QED BY <2>1
<1>5. (x \o y) \o B = x \o (y \o B) /\ y \o B \in Seq(Token)
  <2>1. (x \o y) \o B = x \o (y \o B)
    BY ONLY ConcatAssociative, x \in Seq(Token), y \in Seq(Token), B \in Seq(Token)
  <2>2. y \o B \in Seq(Token)
    BY ONLY y \in Seq(Token), B \in Seq(Token)
  <2> QED BY <2>1, <2>2
<1>6. x \o y = <<d, e, e>>
  <2>1. <<d, e>> \o <<e>> = <<d, e, e>>
    BY ONLY d \in Token, e \in Token, Three
  <2> QED BY ONLY <1>4, <2>1
<1>7. HeadersOf(r) = IF r.connection = "" THEN y ELSE x \o y
  BY <1>1, <1>2, <1>4, <1>6 DEF HeadersOf
<1> QED BY <1>1, <1>2, <1>3, <1>4, <1>5, <1>7

\* A read gets a part of the stream.
LEMMA ReadServes ==
  ASSUME HttpInv, Serving, Read
  PROVE  Serving'
<1>1. /\ requests \in Seq(Request) /\ replies \in Seq(Int) /\ phase = "idle"
      /\ input \in Seq(Token) /\ stream \in Seq(Token) /\ reads \in Nat
      /\ Len(replies) <= Len(requests)
      /\ whole => reads = Len(replies)
      /\ At(<<>>, Len(replies) + 1) \/ Spoiled
  BY DEF HttpInv, Serving, Read
<1>2. PICK k \in 1 .. Len(stream) :
        /\ input' = input \o SubSeq(stream, 1, k)
        /\ stream' = SubSeq(stream, k + 1, Len(stream))
        /\ whole' = /\ whole
                    /\ reads < Len(requests)
                    /\ SubSeq(stream, 1, k) = Encode(requests[reads + 1], reads + 1)
                    /\ requests[reads + 1].body = <<>>
  BY DEF Read
<1>3. /\ reads' = reads + 1 /\ phase' = "parse" /\ parse' = "kExpectRequestLine"
      /\ headers' = NoHeaders /\ requests' = requests /\ replies' = replies
  BY DEF Read, NewContext
<1>4. PICK a, b : a = SubSeq(stream, 1, k) /\ b = SubSeq(stream, k + 1, Len(stream))
  OBVIOUS
<1>5. a \in Seq(Token) /\ b \in Seq(Token) /\ a \o b = stream /\ Len(a) = k
  <2>1. SubSeq(stream, 1, k) \o SubSeq(stream, k + 1, Len(stream))
          = SubSeq(stream, 1, Len(stream))
    BY <1>1, ConcatAdjacentSubSeq
  <2>2. SubSeq(stream, 1, Len(stream)) = stream
    BY <1>1
  <2>3. a \in Seq(Token) /\ Len(a) = k
    BY <1>1, <1>4
  <2>4. b \in Seq(Token)
    BY <1>1, <1>4
  <2> QED BY <1>4, <2>1, <2>2, <2>3, <2>4
<1>6. /\ input' = input \o a /\ stream' = b
      /\ input' \in Seq(Token) /\ stream' \in Seq(Token) /\ input' # <<>>
      /\ input' \o stream' = input \o stream
  <2>1. input' = input \o a /\ stream' = b
    BY <1>2, <1>4
  <2>2. input \o a \in Seq(Token) /\ Len(input \o a) = Len(input) + k
    <3>1. input \in Seq(Token) /\ a \in Seq(Token) /\ Len(a) = k
      BY <1>1, <1>5
    <3> QED BY ONLY <3>1
  <2>3. (input \o a) \o b = input \o (a \o b)
    <3>1. input \in Seq(Token) /\ a \in Seq(Token) /\ b \in Seq(Token)
      BY <1>1, <1>5
    <3> QED BY ONLY <3>1, ConcatAssociative, SMTT(60)
  <2>4. input \o a # <<>>
    <3>1. Len(input) + k # 0
      BY <1>1
    <3> QED BY <2>2, <3>1
  <2> QED BY <1>5, <2>1, <2>2, <2>3, <2>4
<1>7. input \o stream # <<>>
  <2>1. Len(input \o stream) = Len(input) + Len(stream) /\ Len(stream) # 0
    BY <1>1
  <2>2. Len(input) + Len(stream) # 0
    BY <1>1, <2>1
  <2> QED BY <2>1, <2>2
<1>8. CASE Spoiled
  <2>1. ~whole /\ ~whole'
    BY <1>2, <1>8 DEF Spoiled
  <2>2. Spoiled'
    BY <2>1, <1>6, <1>8 DEF Spoiled
  <2>3. reads' \in Nat /\ Len(replies') <= Len(requests')
    BY <1>1, <1>3
  <2> QED BY <2>1, <2>2, <2>3, <1>1, <1>3, <1>6 DEF Serving
<1>9. CASE At(<<>>, Len(replies) + 1)
  <2>1. PICK n \in Nat : n = Len(replies) + 1
    BY <1>1
  <2>2. From(requests, n) \in Seq(Token) /\ n \in 1 .. Len(requests) + 1
    <3>1. n \in 1 .. Len(requests) + 1
      BY <1>1, <2>1
    <3> QED BY <1>1, <3>1, FromIs
  <2>3. input \o stream = From(requests, n)
    BY <1>9, <2>1, <2>2, ConcatEmptySeq DEF At
  <2>4. n \in 1 .. Len(requests)
    <3>1. n # Len(requests) + 1
      BY <1>1, <1>7, <2>3, FromIs
    <3> QED BY <1>1, <2>2, <3>1
  <2>5. input \o stream = Encode(requests[n], n) \o From(requests, n + 1)
    BY <1>1, <2>3, <2>4, FromIs
  <2>6. ASSUME whole'
        PROVE  /\ whole /\ reads + 1 = n /\ requests[n].body = <<>>
               /\ input' = Encode(requests[n], n)
    <3>1. whole /\ a = Encode(requests[reads + 1], reads + 1) /\ requests[reads + 1].body = <<>>
      BY <1>2, <1>4, <2>6
    <3>2. reads + 1 = n
      BY <1>1, <2>1, <3>1
    <3>3. input = <<>>
      BY <3>1, <1>9 DEF At
    <3>4. input' = a
      BY <3>3, <1>5, <1>6, ConcatEmptySeq
    <3> QED BY <3>1, <3>2, <3>4
  <2>7. n + 1 = Len(replies) + 2 /\ Len(replies) < Len(requests)
    BY <1>1, <2>1, <2>4
  <2>8. At(Encode(requests[n], n), n + 1)'
    BY <1>3, <1>6, <2>5, <2>6 DEF At
  <2>9. Reading(Encode(Current, Len(replies) + 1))'
    BY <1>3, <2>1, <2>6, <2>7, <2>8 DEF Reading, Current
  <2>10. reads' \in Nat /\ Len(replies') <= Len(requests')
    BY <1>1, <1>3
  <2>11. whole' => reads' = Len(replies') + 1
    BY <1>3, <2>1, <2>6
  <2> QED BY <2>9, <2>10, <2>11, <1>1, <1>3, <1>6 DEF Serving
<1> QED BY <1>1, <1>8, <1>9

\* parseRequest at a request line: it is bad, incomplete or cut off the input.
LEMMA RequestLineServes ==
  ASSUME HttpInv, Serving, ParseRequestLine
  PROVE  Serving'
<1>1. /\ requests \in Seq(Request) /\ replies \in Seq(Int)
      /\ phase = "parse" /\ parse = "kExpectRequestLine"
      /\ input \in Seq(Token) /\ stream \in Seq(Token) /\ reads \in Nat
      /\ Len(replies) <= Len(requests)
      /\ whole => reads = Len(replies) + 1
      /\ input # <<>> /\ headers = NoHeaders
      /\ Reading(Encode(Current, Len(replies) + 1)) \/ Spoiled
  BY DEF HttpInv, Serving, ParseRequestLine
<1>2. /\ requests' = requests /\ stream' = stream /\ headers' = headers
      /\ replies' = replies /\ reads' = reads /\ whole' = whole
  BY DEF ParseRequestLine
<1> DEFINE Good == FindCRLF # 0 /\ IsRequestLine(FrontLine)
<1>3. Good => /\ ok' = TRUE
              /\ line' = [path |-> FrontLine[1].words[2], version |-> FrontLine[1].words[3]]
              /\ input' = SubSeq(input, FindCRLF + 1, Len(input))
              /\ parse' = "kExpectHeaders" /\ phase' = "parse"
  BY <1>1 DEF ParseRequestLine, RetrieveLine
<1>4. ~Good => /\ ok' = FALSE /\ phase' = "answer"
               /\ line' = line /\ input' = input /\ parse' = parse
  BY DEF ParseRequestLine
<1> HIDE DEF Good
<1>5. ASSUME ~Good, whole => Len(replies) < Len(requests) /\ ~Valid(Current)
      PROVE  Serving'
  <2>1. whole' => Len(replies') < Len(requests') /\ ~Valid(Current')
    BY <1>2, <1>5 DEF Current
  <2> QED BY <1>1, <1>2, <1>4, <1>5, <2>1 DEF Serving
<1>6. CASE Spoiled
  <2>1. ~whole /\ ~StartsRequest(input[1])
    <3>1. Len(input) \in Nat /\ Len(input) # 0
      BY <1>1
    <3>2. (input \o stream)[1] = input[1] /\ input \o stream # <<>>
      BY <1>1, <3>1, ConcatProperties
    <3> QED BY <3>2, <1>6 DEF Spoiled
  <2>2. ~Good
    <3>1. SUFFICES ASSUME FindCRLF # 0, IsRequestLine(FrontLine) PROVE FALSE
      BY DEF Good
    <3>2. PICK f \in 1 .. Len(input) : f = FindCRLF
      BY <1>1, <3>1, FindCRLFIs
    <3>3. Len(FrontLine) = f - 1 /\ (f = 2 => FrontLine[1] = input[1])
      BY <1>1, <3>2 DEF FrontLine
    <3>4. Len(FrontLine) = 1 /\ StartsRequest(FrontLine[1])
      BY <3>1 DEF IsRequestLine
    <3>5. f = 2
      <4>1. f \in Int
        BY <1>1
      <4>2. f - 1 = 1
        BY ONLY <3>3, <3>4
      <4> QED BY ONLY <4>1, <4>2
    <3> QED BY <2>1, <3>3, <3>4, <3>5
  <2> QED BY <1>5, <2>1, <2>2
<1>7. CASE Reading(Encode(Current, Len(replies) + 1))
  <2>1. PICK n \in Nat : n = Len(replies) + 1 /\ n + 1 = Len(replies) + 2
    BY <1>1
  <2>2. PICK r \in Request : r = Current /\ r = requests[n]
    <3>1. Len(replies) + 1 \in 1 .. Len(requests)
      BY <1>1, <1>7 DEF Reading
    <3>2. requests[n] \in Request
      BY <1>1, <2>1, <3>1
    <3> QED BY <2>1, <3>2 DEF Current
  <2>3. PICK x \in Token, X \in Seq(Token) :
          x = Words(r.method, n, r.version) /\ X = HeadersOf(r) \o r.body
    BY EncodeIs
  <2>4. /\ Len(replies) < Len(requests) /\ (whole => r.body = <<>>)
        /\ At(<<x, CRLF>> \o X, n + 1)
    <3>1. Encode(r, n) = <<x, CRLF>> \o X
      BY <2>3, EncodeIs
    <3> QED BY <1>7, <2>1, <2>2, <3>1 DEF Reading
  <2>5. From(requests, n + 1) \in Seq(Token)
    <3>1. n + 1 \in 1 .. Len(requests) + 1
      BY <1>1, <2>1, <2>4
    <3> QED BY <1>1, <3>1, FromIs
  <2>6. x # CRLF /\ x.kind = "words" /\ x.words = <<r.method, n, r.version>>
    BY <2>3, Kinds
  <2>7. /\ Len(input) < 2 => FindCRLF = 0 /\ ~whole
        /\ Len(input) >= 2 => FindCRLF = 2 /\ FrontLine = <<x>>
    BY <1>1, <2>4, <2>5, <2>6, LineFirst
  <2>8. CASE Len(input) < 2
    BY <1>5, <2>7, <2>8 DEF Good
  <2>9. CASE Len(input) >= 2
    <3>1. /\ FindCRLF = 2 /\ Len(FrontLine) = 1 /\ FrontLine[1].kind = "words"
          /\ FrontLine[1].words[1] = r.method /\ FrontLine[1].words[2] = n
          /\ FrontLine[1].words[3] = r.version
      BY <2>6, <2>7, <2>9
    <3>2. Good <=> Valid(r)
      BY <3>1 DEF Good, IsRequestLine, StartsRequest, Valid
    <3>3. CASE ~Good
      BY <3>2, <3>3, <2>2, <2>4, <1>5
    <3>4. CASE Good
      <4>1. PICK p \in Seq(Token) : p = <<x, CRLF>> /\ Len(p) = 2
        <5>1. CRLF \in Token
          BY DEF Token
        <5>2. <<x, CRLF>> \in Seq(Token) /\ Len(<<x, CRLF>>) = 2
          BY <5>1
        <5> QED BY <5>2
      <4>2. input' = SubSeq(input, Len(p) + 1, Len(input))
        BY <1>3, <3>1, <3>4, <4>1
      <4>3. input' \in Seq(Token) /\ At(X, n + 1)'
        BY <1>1, <1>2, <2>4, <2>5, <2>9, <4>1, <4>2, Retrieved
      <4>4. Current' = r /\ Len(replies') = Len(replies) /\ Len(replies') < Len(requests')
        BY <1>2, <2>2, <2>4 DEF Current
      <4>5. HasLine'
        <5>1. ok' = TRUE /\ line' = [path |-> n, version |-> r.version]
          BY <1>3, <3>1, <3>4
        <5>2. line' = [path |-> Len(replies') + 1, version |-> Current'.version]
          BY <5>1, <4>4, <2>1
        <5> QED BY <5>1, <5>2, <4>4, <3>2, <3>4 DEF HasLine
      <4>6. Reading(X)'
        BY <1>2, <2>1, <2>4, <4>3, <4>4 DEF Reading
      <4>7. \/ headers' = NoHeaders /\ Current'.connection # ""
               /\ Reading(HeadersOf(Current) \o Current.body)'
            \/ HasHeaders' /\ Reading(<<CRLF>> \o Current.body)'
        <5>1. CASE r.connection # ""
          BY <5>1, <1>1, <1>2, <2>3, <4>4, <4>6
        <5>2. CASE r.connection = ""
          <6>1. X = <<CRLF>> \o r.body
            BY <5>2, <2>3, HeadersIs
          <6>2. headers'["Connection"] = ""
            BY <1>1, <1>2 DEF NoHeaders
          <6> QED BY <5>2, <6>1, <6>2, <4>4, <4>6 DEF HasHeaders
        <5> QED BY <5>1, <5>2
      <4>8. phase' = "parse" /\ parse' = "kExpectHeaders"
        BY <1>3, <3>4
      <4> QED BY <1>1, <1>2, <4>3, <4>5, <4>7, <4>8 DEF Serving
    <3> QED BY <3>3, <3>4
  <2> QED BY <1>1, <2>8, <2>9
<1> QED BY <1>1, <1>6, <1>7

\* parseRequest behind a request line: the header is complete and taken, the
\* headers end, or the rest of them has not arrived.
LEMMA HeaderServes ==
  ASSUME HttpInv, Serving, ParseHeader
  PROVE  Serving'
<1>1. /\ requests \in Seq(Request) /\ replies \in Seq(Int)
      /\ phase = "parse" /\ parse = "kExpectHeaders"
      /\ input \in Seq(Token) /\ stream \in Seq(Token) /\ reads \in Nat
      /\ Len(replies) <= Len(requests)
      /\ whole => reads = Len(replies) + 1
      /\ HasLine
      /\ \/ headers = NoHeaders /\ Current.connection # ""
            /\ Reading(HeadersOf(Current) \o Current.body)
         \/ HasHeaders /\ Reading(<<CRLF>> \o Current.body)
  BY DEF HttpInv, Serving, ParseHeader
<1>2. /\ requests' = requests /\ stream' = stream /\ ok' = ok /\ line' = line
      /\ replies' = replies /\ reads' = reads /\ whole' = whole
  BY DEF ParseHeader
<1>3. FindCRLF = 0 => /\ phase' = "answer" /\ headers' = headers
                      /\ parse' = parse /\ input' = input
  BY DEF ParseHeader
<1>4. FindCRLF # 0 /\ HasColon(FrontLine)
      => /\ AddHeader(FrontLine)
         /\ input' = SubSeq(input, FindCRLF + 1, Len(input))
         /\ phase' = phase /\ parse' = parse
  BY DEF ParseHeader, RetrieveLine
<1>5. FindCRLF # 0 /\ ~HasColon(FrontLine)
      => /\ headers' = headers
         /\ input' = SubSeq(input, FindCRLF + 1, Len(input))
         /\ phase' = "answer" /\ parse' = "kGotAll"
  BY DEF ParseHeader, RetrieveLine
<1>0. requests \in Seq(Request) /\ Len(requests) \in Nat /\ Len(replies) \in Nat
      /\ Len(replies) < Len(requests) /\ Len(input) \in Nat
      /\ phase = "parse" /\ parse = "kExpectHeaders"
  <2>1. requests \in Seq(Request) /\ replies \in Seq(Int) /\ input \in Seq(Token)
    BY ONLY <1>1
  <2>2. Len(requests) \in Nat /\ Len(replies) \in Nat /\ Len(input) \in Nat
    BY ONLY <2>1
  <2>3. Len(replies) < Len(requests) /\ phase = "parse" /\ parse = "kExpectHeaders"
    BY ONLY <1>1, Zenon DEF HasLine
  <2> QED BY ONLY <2>1, <2>2, <2>3
<1>6. PICK n \in Nat : n = Len(replies) + 2
  BY <1>0
<1>7. PICK r \in Request : r = Current
  <2>1. Len(replies) + 1 \in 1 .. Len(requests)
    BY <1>0
  <2> QED BY <1>0, <2>1 DEF Current
<1>8. From(requests, n) \in Seq(Token)
  <2>1. n \in 1 .. Len(requests) + 1
    BY <1>0, <1>6
  <2> QED BY <1>0, <2>1, FromIs
<1>9. Current' = r /\ HasLine' /\ ok' /\ ok
  BY <1>1, <1>2, <1>7 DEF HasLine, Current
<1>10. PICK B \in Seq(Token), C \in Seq(Token) : B = r.body /\ C = <<CRLF>> \o B
  BY HeadersIs, EncodeIs
<1>11. ASSUME FindCRLF = 0, ~whole,
              input \o stream # <<>>, (input \o stream)[1].kind # "words"
       PROVE  Serving'
  <2>1. Spoiled'
    BY <1>2, <1>3, <1>11 DEF Spoiled, StartsRequest
  <2> QED BY <2>1, <1>1, <1>2, <1>3, <1>9, <1>11 DEF Serving
<1>12. CASE /\ headers = NoHeaders /\ r.connection # ""
            /\ Reading(HeadersOf(r) \o r.body)
  <2>1. PICK x \in Token : x = Header("Connection", r.connection)
    BY HeadersIs
  <2>2. /\ Len(replies) < Len(requests) /\ (whole => r.body = <<>>)
        /\ At(<<x, CRLF>> \o C, n)
    <3>1. HeadersOf(r) \o r.body = <<x, CRLF>> \o C
      BY <1>10, <1>12, <2>1, HeadersIs
    <3> QED BY <1>6, <1>7, <1>12, <3>1 DEF Reading
  <2>3. x # CRLF /\ x.kind = "header" /\ x.field = "Connection" /\ x.value = r.connection
    BY <2>1, Kinds
  <2>4. /\ input \o stream # <<>> /\ (input \o stream)[1] = x
        /\ Len(input) < 2 => FindCRLF = 0 /\ ~whole
        /\ Len(input) >= 2 => FindCRLF = 2 /\ FrontLine = <<x>>
    BY <1>1, <1>8, <2>2, <2>3, LineFirst
  <2>5. CASE Len(input) < 2
    BY <2>3, <2>4, <2>5, <1>11
  <2>6. CASE Len(input) >= 2
    <3>1. FindCRLF = 2 /\ FrontLine[1] = x /\ Len(FrontLine) = 1 /\ HasColon(FrontLine)
      BY <2>3, <2>4, <2>6 DEF HasColon
    <3>2. PICK p \in Seq(Token) : p = <<x, CRLF>> /\ Len(p) = 2
      <4>1. CRLF \in Token
        BY DEF Token
      <4>2. <<x, CRLF>> \in Seq(Token) /\ Len(<<x, CRLF>>) = 2
        BY <4>1
      <4> QED BY <4>2
    <3>3. input' = SubSeq(input, Len(p) + 1, Len(input))
      BY <1>4, <3>1, <3>2
    <3>4. input' \in Seq(Token) /\ At(C, n)'
      BY <1>1, <1>2, <1>8, <2>2, <2>6, <3>2, <3>3, Retrieved
    <3>5. headers' = [headers EXCEPT !["Connection"] = r.connection]
      BY <1>4, <2>3, <3>1 DEF AddHeader
    <3>6. HasHeaders'
      BY <1>9, <1>12, <3>5 DEF HasHeaders, NoHeaders
    <3>7. Reading(<<CRLF>> \o Current.body)'
      BY <1>2, <1>6, <1>9, <1>10, <2>2, <3>4 DEF Reading
    <3>8. phase' = "parse" /\ parse' = "kExpectHeaders"
      BY <1>0, <1>4, <3>1
    <3> QED BY <1>1, <1>2, <1>9, <3>4, <3>6, <3>7, <3>8 DEF Serving
  <2> QED BY <1>0, <2>5, <2>6
<1>13. CASE HasHeaders /\ Reading(<<CRLF>> \o r.body)
  <2>1. /\ Len(replies) < Len(requests) /\ (whole => r.body = <<>>)
        /\ At(<<CRLF>> \o B, n)
    BY <1>6, <1>7, <1>10, <1>13 DEF Reading
  <2>2. /\ input \o stream # <<>> /\ (input \o stream)[1] = CRLF
        /\ Len(input) < 1 => FindCRLF = 0 /\ ~whole
        /\ Len(input) >= 1 => FindCRLF = 1 /\ FrontLine = <<>>
    BY <1>1, <1>8, <2>1, EndFirst
  <2>3. CASE Len(input) < 1
    BY <2>2, <2>3, <1>11, Kinds
  <2>4. CASE Len(input) >= 1
    <3>1. FindCRLF = 1 /\ ~HasColon(FrontLine)
      BY <2>2, <2>4 DEF HasColon
    <3>2. PICK p \in Seq(Token) : p = <<CRLF>> /\ Len(p) = 1
      <4>1. CRLF \in Token
        BY DEF Token
      <4>2. <<CRLF>> \in Seq(Token) /\ Len(<<CRLF>>) = 1
        BY <4>1
      <4> QED BY <4>2
    <3>3. input' = SubSeq(input, Len(p) + 1, Len(input))
      BY <1>5, <3>1, <3>2
    <3>4. input' \in Seq(Token) /\ At(B, n)'
      BY <1>1, <1>2, <1>8, <2>1, <2>4, <3>2, <3>3, Retrieved
    <3>5. Reading(Current.body)'
      BY <1>2, <1>6, <1>9, <1>10, <2>1, <3>4 DEF Reading
    <3>6. HasHeaders' /\ phase' = "answer" /\ parse' = "kGotAll"
      BY <1>5, <1>7, <1>9, <1>13, <3>1 DEF HasHeaders
    <3> QED BY <1>1, <1>2, <1>9, <3>4, <3>5, <3>6 DEF Serving
  <2> QED BY <1>0, <2>3, <2>4
<1> QED BY <1>1, <1>7, <1>12, <1>13

\* A request whose headers have not all arrived is given up, and its rest comes
\* first in what is parsed next.
LEMMA UnansweredServes ==
  ASSUME HttpInv, Serving, Unanswered
  PROVE  Serving'
<1>1. /\ input \in Seq(Token) /\ stream \in Seq(Token) /\ reads \in Nat
      /\ Len(replies) <= Len(requests)
      /\ Spoiled
  BY DEF HttpInv, Serving, Unanswered
<1>2. /\ input' = input /\ stream' = stream /\ reads' = reads /\ whole' = whole
      /\ requests' = requests /\ replies' = replies /\ phase' = "idle"
  BY DEF Unanswered
<1>3. Spoiled' /\ ~whole'
  BY <1>1, <1>2 DEF Spoiled
<1> QED BY <1>1, <1>2, <1>3 DEF Serving

\* With one more request the bodies are plain if they were and its body is.
LEMMA PlainOneMore ==
  ASSUME requests \in Seq(Request), NEW n \in Nat
  PROVE  /\ PlainBodies(n + 1) => PlainBodies(n)
         /\ PlainBodies(n) /\ requests[n + 1].body = <<>> => PlainBodies(n + 1)
<1>1. \A k \in DOMAIN requests : k \in Int
  OBVIOUS
<1>2. \A k \in DOMAIN requests : (k <= n => k <= n + 1) /\ (k <= n + 1 => k <= n \/ k = n + 1)
  BY <1>1
<1> QED BY ONLY <1>2 DEF PlainBodies

\* A piece that begins a request has a path.
LEMMA PathIs ==
  ASSUME NEW t \in Token, StartsRequest(t)
  PROVE  t.words[2] \in Nat
<1>1. t.kind = "words"
  BY DEF StartsRequest
<1>2. t \in [kind : {"words"}, words : MethodsSent \X Nat \X VersionsSent]
  BY <1>1, Kinds DEF Token
<1> QED BY <1>2

\* The buffers hold pieces, and the context a path, whatever is parsed.
LEMMA PiecesStay ==
  ASSUME HttpInv, [HttpNext]_httpVars
  PROVE  /\ requests' = requests
         /\ input' \in Seq(Token) /\ stream' \in Seq(Token) /\ line'.path \in Nat
<1>1. input \in Seq(Token) /\ stream \in Seq(Token) /\ line.path \in Nat
  BY DEF HttpInv
<1>2. CASE Read
  <2>1. PICK k \in 1 .. Len(stream) : /\ input' = input \o SubSeq(stream, 1, k)
                                      /\ stream' = SubSeq(stream, k + 1, Len(stream))
    BY <1>2 DEF Read
  <2>2. requests' = requests /\ line' = NoLine
    BY <1>2 DEF Read, NewContext
  <2>3. SubSeq(stream, 1, k) \in Seq(Token) /\ SubSeq(stream, k + 1, Len(stream)) \in Seq(Token)
    BY <1>1
  <2>4. input \o SubSeq(stream, 1, k) \in Seq(Token)
    BY <1>1, <2>3
  <2> QED BY <2>1, <2>2, <2>3, <2>4 DEF NoLine
<1>3. ASSUME FindCRLF # 0
      PROVE  /\ FindCRLF \in 1 .. Len(input)
             /\ SubSeq(input, FindCRLF + 1, Len(input)) \in Seq(Token)
  <2>1. PICK f \in 1 .. Len(input) : f = FindCRLF
    BY <1>1, <1>3, FindCRLFIs
  <2>2. SubSeq(input, f + 1, Len(input)) \in Seq(Token)
    BY <1>1
  <2> QED BY <2>1, <2>2
<1>4. CASE ParseRequestLine
  <2>1. requests' = requests /\ stream' = stream
    BY <1>4 DEF ParseRequestLine
  <2>2. CASE FindCRLF # 0 /\ IsRequestLine(FrontLine)
    <3>1. /\ line' = [path |-> FrontLine[1].words[2], version |-> FrontLine[1].words[3]]
          /\ input' = SubSeq(input, FindCRLF + 1, Len(input))
      BY <1>4, <2>2 DEF ParseRequestLine, RetrieveLine
    <3>2. PICK f \in 1 .. Len(input) : f = FindCRLF
      BY <1>3, <2>2
    <3>3. FrontLine \in Seq(Token)
      BY <1>1, <3>2 DEF FrontLine
    <3>4. Len(FrontLine) = 1 /\ StartsRequest(FrontLine[1])
      BY <2>2 DEF IsRequestLine
    <3>5. FrontLine[1] \in Token
      BY <3>3, <3>4
    <3>6. FrontLine[1].words[2] \in Nat
      BY <3>4, <3>5, PathIs
    <3> QED BY <1>1, <1>3, <2>1, <2>2, <3>1, <3>6
  <2>3. CASE ~(FindCRLF # 0 /\ IsRequestLine(FrontLine))
    BY <1>1, <1>4, <2>1, <2>3 DEF ParseRequestLine
  <2> QED BY <2>2, <2>3
<1>5. CASE ParseHeader
  <2>1. requests' = requests /\ stream' = stream /\ line' = line
    BY <1>5 DEF ParseHeader
  <2>2. \/ input' = input
        \/ FindCRLF # 0 /\ input' = SubSeq(input, FindCRLF + 1, Len(input))
    BY <1>5 DEF ParseHeader, RetrieveLine
  <2> QED BY <1>1, <1>3, <2>1, <2>2
<1>6. CASE BadRequest \/ OnRequest \/ Unanswered \/ UNCHANGED httpVars
  BY <1>1, <1>6 DEF BadRequest, OnRequest, Unanswered, httpVars
<1> QED BY <1>2, <1>4, <1>5, <1>6 DEF HttpNext

\* What onRequest does, whatever it answers.
LEMMA OnRequestSends ==
  ASSUME HttpInv, state = "kConnected", OnRequest
  PROVE  /\ requests' = requests /\ whole' = whole
         /\ replies' = Append(replies, line.path)
         /\ state' \in {"kConnected", "kDisconnecting"}
         /\ cleared \subseteq cleared'
         /\ /\ state' = "kConnected"
            /\ \/ headers["Connection"] = "close"
               \/ line.version = "HTTP/1.0" /\ headers["Connection"] # "Keep-Alive"
            => Len(replies) + 1 \in cleared'
<1>1. PICK closeConnection \in BOOLEAN :
        /\ ShutdownIf(closeConnection)
        /\ cleared' = IF /\ \/ headers["Connection"] = "close"
                            \/ /\ line.version = "HTTP/1.0"
                               /\ headers["Connection"] # "Keep-Alive"
                         /\ ~closeConnection
                        THEN cleared \cup {Len(replies) + 1} ELSE cleared
  BY DEF OnRequest
<1>2. state' = IF closeConnection THEN "kDisconnecting" ELSE "kConnected"
  BY <1>1 DEF ShutdownIf
<1>3. requests' = requests /\ whole' = whole /\ replies' = Append(replies, line.path)
  BY DEF OnRequest, Send
<1> QED BY <1>1, <1>2, <1>3

\* onRequest answers the current request, and keeps the connection only if it
\* may; what follows is the next request, or a body.
LEMMA OnRequestServes ==
  ASSUME HttpInv, state = "kConnected", Serving, OnRequest
  PROVE  /\ line.path = Len(replies) + 1
         /\ Len(replies) < Len(requests) /\ Valid(requests[Len(replies) + 1])
         /\ whole => requests[Len(replies) + 1].body = <<>>
         /\ state' = "kConnected" /\ WantsClose(requests[Len(replies) + 1])
            => Len(replies) + 1 \in cleared'
         /\ PlainBodies(Len(replies) + 1) => Serving'
<1>1. /\ requests \in Seq(Request) /\ replies \in Seq(Int)
      /\ input \in Seq(Token) /\ stream \in Seq(Token) /\ reads \in Nat
  BY DEF HttpInv, Serving
<1>2. /\ whole => reads = Len(replies) + 1
      /\ HasLine /\ HasHeaders /\ Reading(Current.body)
  BY DEF Serving, OnRequest
<1>3. /\ requests' = requests /\ stream' = stream /\ input' = input
      /\ reads' = reads /\ whole' = whole /\ phase' = "idle"
      /\ replies' = Append(replies, line.path)
  BY DEF OnRequest, Send
<1>4. PICK n \in Nat : n = Len(replies) + 1 /\ n + 1 = Len(replies) + 2 /\ n # 0
  <2>1. Len(replies) \in Nat
    BY <1>1
  <2> QED BY ONLY <2>1
<1>5. n \in 1 .. Len(requests) /\ n + 1 \in 1 .. Len(requests) + 1
  <2>1. Len(replies) < Len(requests)
    BY <1>2 DEF HasLine
  <2> QED BY <1>1, <1>4, <2>1
<1>6. PICK r \in Request : r = Current /\ r = requests[n]
  BY <1>1, <1>4, <1>5 DEF Current
<1>7. Valid(r) /\ line.path = n /\ line.version = r.version
      /\ headers["Connection"] = r.connection
  BY <1>2, <1>4, <1>6 DEF HasLine, HasHeaders
<1>8. Len(replies') = n
  BY <1>1, <1>3, <1>4
<1>9. state' = "kConnected" /\ WantsClose(r) => Len(replies) + 1 \in cleared'
  BY <1>7, OnRequestSends DEF WantsClose
<1>10. /\ input \o stream = r.body \o From(requests, n + 1)
       /\ whole => input = r.body /\ r.body = <<>>
  BY <1>2, <1>4, <1>6 DEF Reading, At
<1>11. ASSUME PlainBodies(Len(replies) + 1) PROVE Serving'
  <2>1. r.body # <<>> => ~StartsRequest(r.body[1])
    <3>1. n \in DOMAIN requests /\ n <= Len(replies) + 1
      BY <1>1, <1>4, <1>5
    <3> QED BY <1>6, <1>11, <3>1 DEF PlainBodies
  <2>2. Len(replies') <= Len(requests') /\ (whole' => reads' = Len(replies'))
    BY <1>1, <1>2, <1>3, <1>4, <1>5, <1>8
  <2>3. From(requests, n + 1) \in Seq(Token)
    BY <1>1, <1>5, FromIs
  <2>4. At(<<>>, Len(replies) + 1)' \/ Spoiled'
    <3>1. CASE r.body # <<>>
      <4>1. r.body \in Seq(Token)
        BY EncodeIs
      <4>2. 1 \in 1 .. Len(r.body)
        BY <3>1, <4>1
      <4>3. (input \o stream)[1] = r.body[1]
        <5>1. PICK b \in Seq(Token), F \in Seq(Token) :
                 b = r.body /\ F = From(requests, n + 1)
          BY ONLY <2>3, <4>1
        <5>2. 1 \in 1 .. Len(b)
          BY ONLY <4>2, <5>1
        <5>3. \A i \in 1 .. Len(b) : (b \o F)[i] = b[i]
          <6>1. PICK k \in Nat, l \in Nat : k = Len(b) /\ l = Len(F)
            BY ONLY b \in Seq(Token), F \in Seq(Token)
          <6>2. \A i \in 1 .. k : (b \o F)[i] = b[i]
            BY ONLY <6>1, b \in Seq(Token), F \in Seq(Token), k \in Nat, l \in Nat, ConcatIs
          <6> QED BY ONLY <6>1, <6>2
        <5>4. (b \o F)[1] = b[1]
          BY ONLY <5>2, <5>3
        <5>5. input \o stream = b \o F
          BY ONLY <1>10, <5>1
        <5> QED BY ONLY <5>1, <5>4, <5>5, Zenon
      <4> QED BY <1>3, <1>10, <2>1, <3>1, <4>3 DEF Spoiled
    <3>2. CASE r.body = <<>>
      <4>1. Len(replies') + 1 = n + 1
        BY <1>8
      <4> QED BY <1>3, <1>10, <3>2, <4>1 DEF At
    <3> QED BY <3>1, <3>2
  <2> QED BY <1>1, <1>3, <2>2, <2>4 DEF Serving
<1>12. Len(replies) < Len(requests) /\ Valid(requests[Len(replies) + 1])
  BY <1>2 DEF HasLine, Current
<1> QED BY <1>4, <1>6, <1>7, <1>9, <1>10, <1>11, <1>12

\* A connection that is shutting down sends nothing.
LEMMA NothingSent ==
  ASSUME HttpInv, state # "kConnected", [HttpNext]_httpVars
  PROVE  /\ replies' = replies /\ cleared \subseteq cleared'
         /\ state' \in {"kConnected", "kDisconnecting"} /\ state' # "kConnected"
         /\ whole' => whole
<1>0. state = "kDisconnecting"
  BY DEF HttpInv
<1>1. CASE Read
  BY <1>0, <1>1 DEF Read
<1>2. CASE ParseRequestLine \/ ParseHeader \/ Unanswered \/ UNCHANGED httpVars
  BY <1>0, <1>2 DEF ParseRequestLine, ParseHeader, Unanswered, httpVars
<1>3. CASE BadRequest
  BY <1>0, <1>3 DEF BadRequest, Send, ShutdownIf
<1>4. CASE OnRequest
  BY <1>0, <1>4 DEF OnRequest, Send, ShutdownIf
<1> QED BY <1>1, <1>2, <1>3, <1>4 DEF HttpNext

\* A reply behind those to the requests before it: to the next request or a 400,
\* as long as no body was taken for a request.
LEMMA ReplySent ==
  ASSUME HttpInv, state = "kConnected", requests' = requests, whole' = whole,
         cleared \subseteq cleared', NEW x \in Int, replies' = Append(replies, x),
         PlainBodies(Len(replies)) =>
           \/ x = Status400 /\ (whole => ~Valid(requests[Len(replies) + 1]))
           \/ /\ x = Len(replies) + 1 /\ Len(replies) < Len(requests)
              /\ Valid(requests[Len(replies) + 1])
  PROVE  replies' \in Seq(Int) /\ RepliesFaithful' /\ Answers'
<1>1. requests \in Seq(Request) /\ replies \in Seq(Int) /\ Open
      /\ (whole => PlainBodies(Len(replies))) /\ RepliesFaithful /\ Answers
  BY DEF HttpInv
<1>2. PICK m \in Nat : m = Len(replies)
  BY <1>1
<1>4. /\ replies' \in Seq(Int) /\ Len(replies') = m + 1 /\ replies'[m + 1] = x
      /\ \A i \in 1 .. m : replies'[i] = replies[i]
      /\ DOMAIN replies' = 1 .. m + 1 /\ DOMAIN replies = 1 .. m
  BY <1>1, <1>2
<1>6. \A i \in 1 .. m + 1 : i # Status400 /\ (i \in 1 .. m \/ i = m + 1)
  BY DEF Status400
<1>7. RepliesFaithful'
  <2>1. ASSUME NEW i \in 1 .. m + 1
        PROVE  /\ i < m + 1 => replies'[i] # Status400
               /\ PlainBodies(i - 1) =>
                    /\ replies'[i] \in {i, Status400}
                    /\ replies'[i] = i => i <= Len(requests) /\ Valid(requests[i])
                    /\ i < m + 1 /\ WantsClose(requests[i]) => i \in cleared'
    <3>1. CASE i \in 1 .. m
      <4>1. /\ replies[i] # Status400
            /\ PlainBodies(i - 1) =>
                 /\ replies[i] \in {i, Status400}
                 /\ replies[i] = i => i <= Len(requests) /\ Valid(requests[i])
                 /\ WantsClose(requests[i]) => i \in cleared
        BY ONLY <1>1, <1>4, <3>1 DEF Open, RepliesFaithful
      <4> QED BY ONLY <4>1, <1>4, <3>1, cleared \subseteq cleared'
    <3>2. CASE i = m + 1
      <4>1. i - 1 = m /\ ~(i < m + 1)
        BY <3>2
      <4>2. PlainBodies(m) => \/ x = Status400
                              \/ x = m + 1 /\ m < Len(requests) /\ Valid(requests[m + 1])
        BY <1>2
      <4>3. Len(requests) \in Nat
        BY <1>1
      <4>4. m < Len(requests) => i <= Len(requests)
        BY ONLY <3>2, <4>3, m \in Nat
      <4> QED BY ONLY <3>2, <4>1, <4>2, <4>4, <1>4, <1>6, i \in 1 .. m + 1
    <3> QED BY <3>1, <3>2, <1>6
  <2>2. \A i : PlainBodies(i - 1)' <=> PlainBodies(i - 1)
    BY DEF PlainBodies
  <2> QED BY ONLY <2>1, <2>2, <1>4, requests' = requests DEF RepliesFaithful
<1>8. ASSUME whole, NEW i \in 1 .. m + 1
      PROVE  (replies'[i] = Status400) <=> ~Valid(requests[i])
  <2>1. CASE i \in 1 .. m
    BY <2>1, <1>1, <1>4, <1>8 DEF Answers
  <2>2. CASE i = m + 1
    <3>0. PlainBodies(m)
      BY <1>1, <1>2, <1>8
    <3>1. CASE x = Status400
      BY <2>2, <3>0, <3>1, <1>2, <1>4, <1>6, <1>8
    <3>2. CASE x = m + 1 /\ Valid(requests[m + 1])
      BY <2>2, <3>2, <1>4, <1>6
    <3> QED BY <3>0, <3>1, <3>2, <1>2
  <2> QED BY <2>1, <2>2, <1>6
<1>9. Answers'
  BY ONLY <1>4, <1>8, whole' = whole, requests' = requests DEF Answers
<1> QED BY <1>4, <1>7, <1>9

\* At first nothing has been parsed, and the stream holds all requests.
LEMMA HttpInitInv == HttpInit => HttpInv
<1> SUFFICES ASSUME HttpInit PROVE HttpInv
  OBVIOUS
<1>1. requests \in Seq(Request)
  <2>1. PICK k \in 0 .. MaxRequests : requests \in [1 .. k -> Request]
    BY DEF HttpInit, BoundedSeq, SeqOf
  <2>2. k \in Nat
    BY HttpAssumption
  <2> QED BY <2>1, <2>2
<1>2. /\ input = <<>> /\ replies = <<>> /\ reads = 0 /\ phase = "idle"
      /\ state = "kConnected" /\ line.path \in Nat
  BY DEF HttpInit, NoLine
<1>3. Len(replies) = 0 /\ replies \in Seq(Int) /\ DOMAIN replies = {} /\ input \in Seq(Token)
  BY <1>2
<1>4. stream = From(requests, 1) /\ stream \in Seq(Token)
  <2>1. stream = FlattenSeq(Encoded(requests))
    BY DEF HttpInit, Encoded
  <2>2. 1 \in 1 .. Len(requests) + 1
    BY <1>1
  <2> QED BY <1>1, <2>1, <2>2, FromIs
<1>5. At(<<>>, Len(replies) + 1)
  BY <1>2, <1>3, <1>4 DEF At
<1>6. Len(replies) <= Len(requests)
  BY <1>1, <1>3
<1>7. Serving
  BY <1>2, <1>3, <1>4, <1>5, <1>6 DEF Serving
<1>8. PlainBodies(Len(replies))
  <2>1. \A k \in DOMAIN requests : ~(k <= 0)
    BY <1>1
  <2> QED BY <1>3, <2>1 DEF PlainBodies
<1> QED BY <1>1, <1>2, <1>3, <1>4, <1>7, <1>8 DEF HttpInv, RepliesFaithful, Answers, Open

\* Every step of onMessage keeps the server in its place in the stream.
LEMMA HttpNextInv == HttpInv /\ [HttpNext]_httpVars => HttpInv'
<1> SUFFICES ASSUME HttpInv, [HttpNext]_httpVars PROVE HttpInv'
  OBVIOUS
<1>0. /\ requests \in Seq(Request) /\ replies \in Seq(Int) /\ RepliesFaithful
      /\ Answers /\ state \in {"kConnected", "kDisconnecting"} /\ line.path \in Nat
      /\ Len(replies) \in Nat
  BY DEF HttpInv
<1>p. /\ requests' = requests /\ requests' \in Seq(Request)
      /\ input' \in Seq(Token) /\ stream' \in Seq(Token) /\ line'.path \in Nat
  BY <1>0, PiecesStay
<1>1. ASSUME replies' = replies, whole' => whole, cleared \subseteq cleared',
             state' \in {"kConnected", "kDisconnecting"},
             state' = "kConnected" =>
               state = "kConnected" /\ (PlainBodies(Len(replies)) => Serving')
      PROVE  HttpInv'
  <2>0. \A n : PlainBodies(n)' <=> PlainBodies(n)
    BY <1>p DEF PlainBodies
  <2>1. RepliesFaithful'
    BY ONLY <1>0, <1>1, <1>p, <2>0 DEF RepliesFaithful
  <2>2. Answers'
    BY ONLY <1>0, <1>1, <1>p DEF Answers
  <2>3. PlainBodies(Len(replies))' <=> PlainBodies(Len(replies))
    BY ONLY <1>1, <1>p DEF PlainBodies
  <2>4. ASSUME state' = "kConnected"
        PROVE  /\ Open' /\ (whole' => PlainBodies(Len(replies))')
               /\ (PlainBodies(Len(replies))' => Serving')
    <3>1. Open /\ (whole => PlainBodies(Len(replies)))
      BY <1>1, <2>4 DEF HttpInv
    <3>2. Open'
      BY ONLY <1>1, <1>p, <2>0, <3>1 DEF Open
    <3> QED BY <1>1, <2>3, <2>4, <3>1, <3>2
  <2> QED BY <1>0, <1>1, <1>p, <2>1, <2>2, <2>4 DEF HttpInv
<1>2. CASE state # "kConnected"
  BY <1>1, <1>2, NothingSent
<1>3. CASE state = "kConnected" /\ (Read \/ ParseRequestLine \/ ParseHeader \/ Unanswered)
  <2>1. PlainBodies(Len(replies)) => Serving
    BY <1>3 DEF HttpInv
  <2>2. Serving => Serving'
    BY <1>3, ReadServes, RequestLineServes, HeaderServes, UnansweredServes
  <2>3. replies' = replies /\ state' = state /\ cleared' = cleared /\ (whole' => whole)
    <3>1. CASE Read
      BY <3>1 DEF Read
    <3>2. CASE ParseRequestLine \/ ParseHeader \/ Unanswered
      BY <3>2 DEF ParseRequestLine, ParseHeader, Unanswered
    <3> QED BY <1>3, <3>1, <3>2
  <2> QED BY <1>0, <1>1, <1>3, <2>1, <2>2, <2>3
<1>4. CASE state = "kConnected" /\ BadRequest
  <2>1. PlainBodies(Len(replies)) => (whole => ~Valid(requests[Len(replies) + 1]))
    BY <1>4 DEF HttpInv, Serving, BadRequest, Current
  <2>2. /\ whole' = whole /\ state' = "kDisconnecting" /\ cleared' = cleared
        /\ replies' = Append(replies, Status400)
    BY <1>4 DEF BadRequest, Send, ShutdownIf
  <2>3. Status400 \in Int
    BY DEF Status400
  <2>4. replies' \in Seq(Int) /\ RepliesFaithful' /\ Answers'
    BY <1>4, <1>p, <2>1, <2>2, <2>3, ReplySent
  <2> QED BY <1>p, <2>2, <2>4 DEF HttpInv
<1>5. CASE state = "kConnected" /\ OnRequest
  <2>1. /\ whole' = whole /\ replies' = Append(replies, line.path)
        /\ state' \in {"kConnected", "kDisconnecting"} /\ cleared \subseteq cleared'
    BY <1>5, OnRequestSends
  <2>2. PICK m \in Nat : m = Len(replies)
    BY <1>0
  <2>3. PlainBodies(m) =>
          /\ line.path = m + 1 /\ m < Len(requests) /\ Valid(requests[m + 1])
          /\ whole => requests[m + 1].body = <<>>
          /\ state' = "kConnected" /\ WantsClose(requests[m + 1]) => m + 1 \in cleared'
          /\ PlainBodies(m + 1) => Serving'
    <3>1. PlainBodies(Len(replies)) => Serving
      BY <1>5 DEF HttpInv
    <3> QED BY <1>5, <2>2, <3>1, OnRequestServes
  <2>4. line.path \in Int
    BY <1>0
  <2>5. replies' \in Seq(Int) /\ RepliesFaithful' /\ Answers'
    BY <1>5, <1>p, <2>1, <2>2, <2>3, <2>4, ReplySent
  <2>6. /\ Len(replies') = m + 1 /\ DOMAIN replies' = 1 .. m + 1 /\ DOMAIN replies = 1 .. m
        /\ replies'[m + 1] = line.path /\ \A i \in 1 .. m : replies'[i] = replies[i]
    BY <1>0, <2>1, <2>2, <2>4
  <2>7. \A n : PlainBodies(n)' <=> PlainBodies(n)
    BY <1>p DEF PlainBodies
  <2>8. PlainBodies(Len(replies))' <=> PlainBodies(m + 1)
    BY ONLY <1>p, <2>6 DEF PlainBodies
  <2>9. ASSUME state' = "kConnected" PROVE Open'
    <3>1. Open
      BY <1>5 DEF HttpInv
    <3>2. ASSUME NEW i \in 1 .. m + 1
          PROVE  /\ replies'[i] # Status400
                 /\ PlainBodies(i - 1) /\ WantsClose(requests[i]) => i \in cleared'
      <4>1. CASE i \in 1 .. m
        <5>1. /\ replies[i] # Status400
              /\ PlainBodies(i - 1) /\ WantsClose(requests[i]) => i \in cleared
          BY ONLY <3>1, <4>1, <2>6 DEF Open
        <5> QED BY ONLY <5>1, <4>1, <2>1, <2>6
      <4>2. CASE i = m + 1
        <5>1. i - 1 = m
          BY <4>2
        <5>2. line.path # Status400
          BY <1>0 DEF Status400
        <5> QED BY ONLY <4>2, <5>1, <5>2, <2>3, <2>6, <2>9
      <4>3. i \in 1 .. m \/ i = m + 1
        BY ONLY m \in Nat, i \in 1 .. m + 1
      <4> QED BY ONLY <4>1, <4>2, <4>3
    <3> QED BY ONLY <3>2, <1>p, <2>6, <2>7 DEF Open
  <2>10. state' = "kConnected" /\ whole' => PlainBodies(Len(replies))'
    <3>1. whole => PlainBodies(m)
      BY <1>5, <2>2 DEF HttpInv
    <3>2. PlainBodies(m) /\ requests[m + 1].body = <<>> => PlainBodies(m + 1)
      BY <1>0, PlainOneMore
    <3> QED BY ONLY <3>1, <3>2, <2>1, <2>3, <2>8
  <2>11. PlainBodies(Len(replies))' => Serving'
    <3>1. PlainBodies(m + 1) => PlainBodies(m)
      BY <1>0, PlainOneMore
    <3> QED BY ONLY <3>1, <2>3, <2>8
  <2> QED BY ONLY <1>p, <2>1, <2>5, <2>9, <2>10, <2>11 DEF HttpInv
<1>6. CASE UNCHANGED httpVars
  <2>1. Serving => Serving'
    BY <1>6 DEF httpVars, Serving, At, Spoiled, Reading, Current, HasLine, HasHeaders
  <2>2. replies' = replies /\ state' = state /\ cleared' = cleared /\ whole' = whole
    BY <1>6 DEF httpVars
  <2>3. state = "kConnected" /\ PlainBodies(Len(replies)) => Serving
    BY DEF HttpInv
  <2> QED BY <1>0, <1>1, <2>1, <2>2, <2>3
<1> QED BY <1>2, <1>3, <1>4, <1>5, <1>6 DEF HttpNext

\* However the stream is cut into reads, the replies are those to the client's
\* requests, in order, each once and to a whole and valid request, up to the first
\* whose body begins like a request, and nothing follows a 400 or, unless the
\* callback takes the close back, the reply to a request that asks for it: for any
\* number of requests with any bodies.
THEOREM RepliesStayFaithful == HttpSpec => []RepliesFaithful
<1>1. HttpInv => RepliesFaithful
  BY DEF HttpInv
<1> QED BY <1>1, HttpInitInv, HttpNextInv, PTL DEF HttpSpec

\* A client whose requests arrive one to a read, without bodies, gets its reply
\* to each of any number of them.
THEOREM WholeRequestsAnswered == HttpSpec => []WholeAnswered
<1>1. HttpInv => WholeAnswered
  <2> SUFFICES ASSUME HttpInv, phase = "idle", whole
               PROVE  /\ state = "kConnected" => Len(replies) = reads /\ input = <<>>
                      /\ \A i \in DOMAIN replies :
                           (replies[i] = Status400) <=> ~Valid(requests[i])
    BY DEF WholeAnswered
  <2>1. state = "kConnected" => reads = Len(replies) /\ At(<<>>, Len(replies) + 1)
    BY DEF HttpInv, Serving, Spoiled
  <2> QED BY <2>1 DEF HttpInv, At, Answers
<1> QED BY <1>1, HttpInitInv, HttpNextInv, PTL DEF HttpSpec
=============================================================================
