------------------------- MODULE DissectionProofs -------------------------
(***************************************************************************)
(* One direction of a conversation and the tracking of its segments, for   *)
(* sequence spaces, caps and tables of any size and segments cut, repeated *)
(* and reordered in any way; and the decoding of a packet, for frames of   *)
(* any headers and any part of them captured.                              *)
(***************************************************************************)
EXTENDS Conversation, SegmentTracker, Decode, FiniteSetTheorems, SequenceTheorems, WellFoundedInduction, TLAPS

(***************************************************************************)
(* Serial-number arithmetic: what numbers say of the positions they name.  *)
(***************************************************************************)
\* r is left of x when whole laps are taken away.
Laps(x, r) == \E q \in Int : x = SeqSpan * q + r

LEMMA LapsFrom ==
    ASSUME NEW x, NEW r, NEW q \in Int, x = SeqSpan * q + r
    PROVE  Laps(x, r)
BY DEF Laps

LEMMA Division ==
    ASSUME NEW m \in Nat \ {0}, NEW x \in Int
    PROVE  x = m * (x \div m) + (x % m)
OBVIOUS

LEMMA Modulus ==
    ASSUME NEW x \in Int
    PROVE  x % SeqSpan \in SeqNums /\ x % SeqSpan \in Int /\ Laps(x, x % SeqSpan)
<1>1. SeqSpan \in Nat \ {0}
  BY SeqAssumption
<1>2. x % SeqSpan \in Int /\ x \div SeqSpan \in Int
  BY <1>1
<1>3. 0 <= x % SeqSpan /\ x % SeqSpan < SeqSpan
  BY <1>1
<1>4. x = SeqSpan * (x \div SeqSpan) + (x % SeqSpan)
  BY <1>1, Division
<1> DEFINE r == x % SeqSpan
           q == x \div SeqSpan
<1>5. r \in Int /\ 0 <= r /\ r < SeqSpan /\ q \in Int /\ x = SeqSpan * q + r
  BY <1>2, <1>3, <1>4
<1> HIDE DEF r, q
<1>6. Laps(x, r)
  BY <1>5, LapsFrom
<1>7. r \in SeqNums
  BY <1>1, <1>5 DEF SeqNums
<1> QED BY <1>5, <1>6, <1>7 DEF r

LEMMA Remainder ==
    ASSUME NEW q \in Int, NEW r \in SeqNums
    PROVE  (SeqSpan * q + r) % SeqSpan = r
<1>1. SeqSpan \in Nat \ {0} /\ r \in Int /\ 0 <= r /\ r < SeqSpan
  BY SeqAssumption DEF SeqNums
<1> QED BY <1>1

LEMMA Shifted ==
    ASSUME NEW x \in Int, NEW q \in Int
    PROVE  (x + SeqSpan * q) % SeqSpan = x % SeqSpan
<1>1. SeqSpan \in Nat
  BY SeqAssumption
<1> DEFINE r == x % SeqSpan
<1>2. r \in SeqNums /\ r \in Int /\ Laps(x, r)
  BY Modulus
<1> HIDE DEF r
<1>3. PICK p \in Int : x = SeqSpan * p + r
  BY <1>2 DEF Laps
<1> DEFINE a == SeqSpan * p
           b == SeqSpan * q
           c == SeqSpan * (p + q)
<1>4. a \in Int /\ b \in Int /\ c = a + b /\ x = a + r
  BY <1>1, <1>3
<1> HIDE DEF a, b, c
<1>5. x + b = c + r
  BY <1>2, <1>4
<1>6. (c + r) % SeqSpan = r
  <2>1. p + q \in Int
    OBVIOUS
  <2> QED BY <1>2, <2>1, Remainder DEF c
<1> QED BY <1>5, <1>6 DEF b, r

\* The distance from one position to another, less than a lap away.
LEMMA Distance ==
    ASSUME NEW d \in Int, d < SeqSpan, -d < SeqSpan
    PROVE  d % SeqSpan = IF d >= 0 THEN d ELSE d + SeqSpan
<1>1. SeqSpan \in Nat
  BY SeqAssumption
<1>2. CASE d >= 0
  <2>1. d \in SeqNums /\ SeqSpan * 0 + d = d
    BY <1>1, <1>2 DEF SeqNums
  <2> QED BY <1>2, <2>1, Remainder
<1>3. CASE ~(d >= 0)
  <2>1. d + SeqSpan \in SeqNums /\ SeqSpan * (-1) + (d + SeqSpan) = d
    BY <1>1, <1>3 DEF SeqNums
  <2>2. (SeqSpan * (-1) + (d + SeqSpan)) % SeqSpan = d + SeqSpan
    BY <2>1, Remainder
  <2> QED BY <1>3, <2>1, <2>2
<1> QED BY <1>2, <1>3

LEMMA NumberOf ==
    ASSUME NEW a \in Nat
    PROVE  /\ SeqAt(a) \in SeqNums /\ SeqAt(a) \in Nat /\ Isn + a \in Nat
           /\ Laps(Isn + a, SeqAt(a))
<1>1. Isn + a \in Nat /\ SeqSpan \in Nat
  BY SeqAssumption
<1> DEFINE x == Isn + a
<1>2. SeqAt(a) = x % SeqSpan
  BY DEF SeqAt
<1> HIDE DEF x
<1>3. x \in Int
  BY <1>1 DEF x
<1>4. SeqAt(a) \in SeqNums /\ Laps(x, SeqAt(a))
  BY <1>2, <1>3, Modulus
<1>5. SeqAt(a) \in Nat
  BY <1>1, <1>4 DEF SeqNums
<1> QED BY <1>1, <1>4, <1>5 DEF x

LEMMA PlusOf ==
    ASSUME NEW a \in Nat, NEW n \in Nat
    PROVE  Plus(SeqAt(a), n) = SeqAt(a + n)
<1>1. SeqSpan \in Nat /\ Isn \in Nat /\ SeqAt(a) \in Nat
  BY SeqAssumption, NumberOf
<1>2. PICK q \in Int : Isn + a = SeqSpan * q + SeqAt(a)
  BY NumberOf DEF Laps
<1> DEFINE b == SeqSpan * q
           y == SeqAt(a) + n
<1>3. b \in Int /\ y \in Int /\ y + b = Isn + (a + n)
  BY <1>1, <1>2
<1>4. (y + b) % SeqSpan = y % SeqSpan
  BY <1>3, Shifted
<1> HIDE DEF b, y
<1>5. SeqAt(a + n) = (Isn + (a + n)) % SeqSpan
  BY DEF SeqAt
<1>6. Plus(SeqAt(a), n) = y % SeqSpan
  BY DEF Plus, y
<1> QED BY <1>3, <1>4, <1>5, <1>6

LEMMA MinusOf ==
    ASSUME NEW a \in Nat, NEW b \in Nat, b - a < SeqSpan, a - b < SeqSpan
    PROVE  Minus(SeqAt(b), SeqAt(a)) = IF b >= a THEN b - a ELSE b - a + SeqSpan
<1>1. SeqSpan \in Nat /\ Isn \in Nat /\ SeqAt(a) \in Nat /\ SeqAt(b) \in Nat
  BY SeqAssumption, NumberOf
<1>2. PICK p \in Int : Isn + a = SeqSpan * p + SeqAt(a)
  BY NumberOf DEF Laps
<1>3. PICK q \in Int : Isn + b = SeqSpan * q + SeqAt(b)
  BY NumberOf DEF Laps
<1> DEFINE k == p - q + 1
           x == SeqSpan * p
           y == SeqSpan * q
           z == SeqSpan * k
           d == b - a
<1>4. /\ x \in Int /\ y \in Int /\ z = x - y + SeqSpan
      /\ Isn + a = x + SeqAt(a) /\ Isn + b = y + SeqAt(b)
  BY <1>1, <1>2, <1>3
<1>5. k \in Int /\ d \in Int
  OBVIOUS
<1>6. (d + z) % SeqSpan = d % SeqSpan
  BY <1>5, Shifted
<1> HIDE DEF x, y, z, k
<1>7. SeqAt(b) + SeqSpan - SeqAt(a) = d + z
  BY <1>1, <1>4
<1>8. d % SeqSpan = IF d >= 0 THEN d ELSE d + SeqSpan
  <2>1. -d < SeqSpan
    BY <1>1
  <2> QED BY <1>5, <2>1, Distance
<1>9. Minus(SeqAt(b), SeqAt(a)) = IF d >= 0 THEN d ELSE d + SeqSpan
  BY <1>6, <1>7, <1>8 DEF Minus
<1> QED BY <1>1, <1>9

LEMMA LtOf ==
    ASSUME NEW a \in Nat, NEW b \in Nat, b - a < SeqSpan, a - b < SeqSpan
    PROVE  SeqLt(SeqAt(a), SeqAt(b)) <=>
             \/ a < b /\ b - a <= SeqSpan \div 2
             \/ b <= a /\ a - b >= SeqSpan \div 2
<1>1. SeqSpan \in Nat /\ SeqSpan = 2 * (SeqSpan \div 2) /\ SeqSpan \div 2 \in Nat
  BY SeqAssumption
<1>2. Minus(SeqAt(a), SeqAt(b)) = IF a >= b THEN a - b ELSE a - b + SeqSpan
  BY MinusOf
<1> QED BY <1>1, <1>2 DEF SeqLt

LEMMA SamePosition ==
    ASSUME NEW a \in Nat, NEW b \in Nat, b - a < SeqSpan, a - b < SeqSpan,
           SeqAt(a) = SeqAt(b)
    PROVE  a = b
<1>1. SeqSpan \in Nat
  BY SeqAssumption
<1>2. Minus(SeqAt(b), SeqAt(a)) = Minus(SeqAt(a), SeqAt(a))
  OBVIOUS
<1>3. Minus(SeqAt(a), SeqAt(a)) = 0
  <2>1. a - a < SeqSpan /\ a - a = 0 /\ a >= a
    BY SeqAssumption
  <2> QED BY <2>1, MinusOf
<1>4. Minus(SeqAt(b), SeqAt(a)) = IF b >= a THEN b - a ELSE b - a + SeqSpan
  BY MinusOf
<1> QED BY <1>1, <1>2, <1>3, <1>4

-----------------------------------------------------------------------------
(***************************************************************************)
(* Bytes held: a sum over a finite set, in whatever order it is taken.     *)
(***************************************************************************)
LEMMA LeastOf ==
    ASSUME NEW T \in SUBSET Nat, T # {}
    PROVE  \E n \in T : \A m \in T : n <= m
<1>1. PICK n \in T : \A m \in T : ~(<<m, n>> \in OpToRel(<, Nat))
  BY NatLessThanWellFounded, WFMin
<1>2. \A m \in T : ~(m < n)
  BY <1>1 DEF OpToRel
<1> QED BY <1>2

\* One step of the recursion, and a function that takes it at every set of at
\* most n keys.
SumStep(h, f, s) ==
    IF s = {} THEN 0 ELSE LET x == CHOOSE x \in s : TRUE IN Len(h[x]) + f[s \ {x}]

Subsets(T, n) == {s \in SUBSET T : Cardinality(s) <= n}
IsSum(f, h, T, n) ==
    f = [s \in Subsets(T, n) |-> f[s]] /\ \A s \in Subsets(T, n) : f[s] = SumStep(h, f, s)

Sums(f, h, T) == \A s \in SUBSET T : f[s] = SumStep(h, f, s)

\* Bytes of h at the keys T.
Sum(h, T) ==
    LET iter[s \in SUBSET T] ==
            IF s = {} THEN 0
            ELSE LET x == CHOOSE x \in s : TRUE IN Len(h[x]) + iter[s \ {x}]
    IN  iter[T]

LEMMA HeldIsSum == HeldBytes = Sum(held, DOMAIN held)
BY Zenon DEF HeldBytes, MapThenSumSet, MapThenFoldSet, Sum

LEMMA SizeOf ==
    ASSUME NEW T, IsFiniteSet(T), NEW s \in SUBSET T
    PROVE  /\ IsFiniteSet(s) /\ Cardinality(s) \in Nat /\ Cardinality(s) <= Cardinality(T)
           /\ Cardinality(T) \in Nat
           /\ Cardinality(s) = 0 <=> s = {}
           /\ \A x \in s : Cardinality(s \ {x}) = Cardinality(s) - 1
BY FS_Subset, FS_CardinalityType, FS_EmptySet, FS_RemoveElement

LEMMA SumExists ==
    ASSUME NEW h, NEW T, IsFiniteSet(T), NEW n \in Nat
    PROVE  \E f : IsSum(f, h, T, n)
<1> DEFINE Bad == {k \in Nat : ~\E f : IsSum(f, h, T, k)}
<1> SUFFICES ASSUME n \in Bad PROVE FALSE
  OBVIOUS
<1>1. PICK k \in Bad : \A m \in Bad : k <= m
  BY LeastOf
<1>2. CASE k = 0
  <2> DEFINE f == [s \in Subsets(T, 0) |-> 0]
  <2>1. \A s \in Subsets(T, 0) : s = {}
    BY SizeOf DEF Subsets
  <2>2. \A s \in Subsets(T, 0) : f[s] = SumStep(h, f, s)
    BY <2>1 DEF SumStep
  <2>3. f = [s \in Subsets(T, 0) |-> f[s]]
    OBVIOUS
  <2> HIDE DEF f
  <2> QED BY <1>1, <1>2, <2>2, <2>3 DEF IsSum
<1>3. CASE k # 0
  <2>1. k \in Nat /\ k - 1 \in Nat /\ k - 1 \notin Bad
    BY <1>1, <1>3
  <2>2. PICK g : IsSum(g, h, T, k - 1)
    BY <2>1
  <2> DEFINE f == [s \in Subsets(T, k) |-> SumStep(h, g, s)]
  <2>3. \A s \in Subsets(T, k - 1) : f[s] = g[s]
    <3>1. \A s \in Subsets(T, k - 1) : s \in Subsets(T, k)
      BY <2>1, SizeOf DEF Subsets
    <3> QED BY <2>2, <3>1 DEF IsSum
  <2>4. \A s \in Subsets(T, k) : f[s] = SumStep(h, f, s)
    <3> TAKE s \in Subsets(T, k)
    <3>1. CASE s = {}
      BY <3>1 DEF SumStep
    <3>2. CASE s # {}
      <4> DEFINE x == CHOOSE x \in s : TRUE
      <4>1. x \in s
        BY <3>2
      <4> HIDE DEF x
      <4>2. s \ {x} \in Subsets(T, k - 1)
        BY <2>1, <4>1, SizeOf DEF Subsets
      <4>3. f[s \ {x}] = g[s \ {x}]
        BY <2>3, <4>2
      <4> HIDE DEF f
      <4>4. SumStep(h, f, s) = SumStep(h, g, s)
        BY <4>3 DEF SumStep, x
      <4> QED BY <4>4 DEF f
    <3> QED BY <3>1, <3>2
  <2>5. f = [s \in Subsets(T, k) |-> f[s]]
    OBVIOUS
  <2> HIDE DEF f
  <2> QED BY <1>1, <2>4, <2>5 DEF IsSum
<1> QED BY <1>2, <1>3

LEMMA SumIs ==
    ASSUME NEW h, NEW T, IsFiniteSet(T)
    PROVE  \E f : Sums(f, h, T) /\ Sum(h, T) = f[T]
<1> DEFINE P(f) == f = [s \in SUBSET T |->
            IF s = {} THEN 0
            ELSE LET x == CHOOSE x \in s : TRUE IN Len(h[x]) + f[s \ {x}]]
           n == Cardinality(T)
<1>1. n \in Nat /\ Subsets(T, n) = SUBSET T
  BY SizeOf DEF Subsets
<1>2. PICK g : IsSum(g, h, T, n)
  BY <1>1, SumExists
<1>3. /\ g = [s \in SUBSET T |-> g[s]]
      /\ \A s \in SUBSET T : g[s] = SumStep(h, g, s)
  BY <1>1, <1>2 DEF IsSum
<1>4. P(g)
  BY <1>3, Zenon DEF SumStep
<1>5. P(CHOOSE f : P(f))
  BY <1>4, Zenon
<1>6. Sum(h, T) = (CHOOSE f : P(f))[T]
  BY Zenon DEF Sum
<1> DEFINE f == CHOOSE f : P(f)
<1>7. P(f)
  BY <1>5
<1> HIDE DEF f
<1>8. Sums(f, h, T)
  BY <1>7, Zenon DEF Sums, SumStep
<1> QED BY <1>6, <1>8 DEF f

\* It does not matter which key is taken first.
Lengths(h, T) == \A k \in T : Len(h[k]) \in Nat
AnyOrder(f, h, T) ==
    \A s \in SUBSET T : f[s] \in Nat /\ \A y \in s : f[s] = Len(h[y]) + f[s \ {y}]

LEMMA AnyFirst ==
    ASSUME NEW h, NEW T, IsFiniteSet(T), Lengths(h, T), NEW f, Sums(f, h, T)
    PROVE  AnyOrder(f, h, T)
<1> DEFINE Fine(s) == f[s] \in Nat /\ \A y \in s : f[s] = Len(h[y]) + f[s \ {y}]
           Bad == {n \in Nat : \E s \in SUBSET T : Cardinality(s) = n /\ ~Fine(s)}
<1> SUFFICES ASSUME NEW s0 \in SUBSET T, ~Fine(s0) PROVE FALSE
  BY Zenon DEF AnyOrder
<1>1. Cardinality(s0) \in Bad
  BY SizeOf
<1>2. PICK n \in Bad : \A m \in Bad : n <= m
  BY <1>1, LeastOf
<1>3. PICK s \in SUBSET T : Cardinality(s) = n /\ ~Fine(s)
  BY <1>2
<1>4. \A t \in SUBSET T : Cardinality(t) < n => Fine(t)
  <2> SUFFICES ASSUME NEW t \in SUBSET T, Cardinality(t) < n, ~Fine(t) PROVE FALSE
    BY Zenon
  <2>1. Cardinality(t) \in Nat
    BY SizeOf
  <2>2. Cardinality(t) \in Bad
    BY <2>1
  <2> QED BY <1>2, <2>1, <2>2
<1>5. \A y \in s : s \ {y} \in SUBSET T /\ Fine(s \ {y})
  <2> TAKE y \in s
  <2>1. s \ {y} \in SUBSET T /\ Cardinality(s \ {y}) = n - 1 /\ n \in Nat
    BY <1>3, SizeOf
  <2>2. Cardinality(s \ {y}) < n
    BY <2>1
  <2> QED BY <1>4, <2>1, <2>2
<1> HIDE DEF Bad
<1>6. CASE s = {}
  <2>1. f[s] = 0
    BY <1>6 DEF Sums, SumStep
  <2> QED BY <1>3, <1>6, <2>1
<1>7. CASE s # {}
  <2> DEFINE x == CHOOSE x \in s : TRUE
  <2>1. x \in s
    BY <1>7
  <2>2. f[s] = Len(h[x]) + f[s \ {x}]
    BY <1>7 DEF Sums, SumStep
  <2> HIDE DEF x
  <2>3. f[s] \in Nat
    <3> DEFINE a == Len(h[x])
               b == f[s \ {x}]
    <3>1. a \in Nat /\ b \in Nat
      BY <1>5, <2>1 DEF Lengths
    <3> HIDE DEF a, b
    <3>2. a + b \in Nat
      BY <3>1
    <3> QED BY <2>2, <3>2 DEF a, b
  <2>4. \A y \in s : f[s] = Len(h[y]) + f[s \ {y}]
    <3> SUFFICES ASSUME NEW y \in s, y # x PROVE f[s] = Len(h[y]) + f[s \ {y}]
      BY <2>2
    <3>1. (s \ {x}) \ {y} = (s \ {y}) \ {x}
      OBVIOUS
    <3>2. f[s \ {x}] = Len(h[y]) + f[(s \ {x}) \ {y}]
      <4>1. Fine(s \ {x}) /\ y \in s \ {x}
        BY <1>5, <2>1
      <4> QED BY <4>1
    <3>3. f[s \ {y}] = Len(h[x]) + f[(s \ {y}) \ {x}]
      BY <1>5, <2>1
    <3>4. /\ Len(h[x]) \in Nat /\ Len(h[y]) \in Nat
      BY <2>1 DEF Lengths
    <3>5. f[(s \ {y}) \ {x}] \in Nat
      <4>1. (s \ {y}) \ {x} \in SUBSET T /\ Cardinality((s \ {y}) \ {x}) < n
        <5>1. s \ {y} \in SUBSET T /\ x \in s \ {y} /\ n \in Nat
          <6>1. n \in Nat
            BY <1>3, SizeOf
          <6> QED BY <2>1, <6>1
        <5>2. Cardinality(s \ {y}) = n - 1
          BY <1>3, SizeOf
        <5>3. Cardinality((s \ {y}) \ {x}) = (n - 1) - 1
          BY <5>1, <5>2, SizeOf
        <5>4. (s \ {y}) \ {x} \in SUBSET T
          OBVIOUS
        <5>5. (n - 1) - 1 < n
          BY <5>1
        <5>6. Cardinality((s \ {y}) \ {x}) < n
          BY <5>3, <5>5, Zenon
        <5> QED BY <5>4, <5>6
      <4> QED BY <1>4, <4>1
    <3> DEFINE a == f[s \ {x}]
               b == f[s \ {y}]
               c == f[(s \ {y}) \ {x}]
               lx == Len(h[x])
               ly == Len(h[y])
    <3>6. /\ f[s] = lx + a /\ a = ly + c /\ b = lx + c
          /\ lx \in Nat /\ ly \in Nat /\ c \in Nat
      BY <2>2, <3>1, <3>2, <3>3, <3>4, <3>5, Zenon
    <3> HIDE DEF a, b, c, lx, ly
    <3>7. f[s] = ly + b
      BY <3>6
    <3> QED BY <3>7 DEF b, ly
  <2> QED BY <1>3, <2>3, <2>4
<1> QED BY <1>6, <1>7

\* Nor what h holds at other keys.
LEMMA SameSum ==
    ASSUME NEW h, NEW T, IsFiniteSet(T), NEW f, Sums(f, h, T),
           NEW g, NEW U, IsFiniteSet(U), NEW e, Sums(e, g, U),
           U \subseteq T, \A k \in U : g[k] = h[k]
    PROVE  \A s \in SUBSET U : f[s] = e[s]
<1> DEFINE Bad == {n \in Nat : \E s \in SUBSET U : Cardinality(s) = n /\ f[s] # e[s]}
<1> SUFFICES ASSUME NEW s0 \in SUBSET U, f[s0] # e[s0] PROVE FALSE
  OBVIOUS
<1>1. Cardinality(s0) \in Bad
  BY SizeOf
<1>2. PICK n \in Bad : \A m \in Bad : n <= m
  BY <1>1, LeastOf
<1>3. PICK s \in SUBSET U : Cardinality(s) = n /\ f[s] # e[s]
  BY <1>2
<1>4. s \in SUBSET T
  OBVIOUS
<1>5. CASE s = {}
  BY <1>3, <1>4, <1>5 DEF Sums, SumStep
<1>6. CASE s # {}
  <2> DEFINE x == CHOOSE x \in s : TRUE
  <2>1. x \in s
    BY <1>6
  <2>2. f[s] = Len(h[x]) + f[s \ {x}] /\ e[s] = Len(g[x]) + e[s \ {x}]
    BY <1>4, <1>6 DEF Sums, SumStep
  <2> HIDE DEF x
  <2>3. f[s \ {x}] = e[s \ {x}]
    <3>1. s \ {x} \in SUBSET U /\ Cardinality(s \ {x}) = n - 1 /\ n \in Nat
      BY <1>3, <2>1, SizeOf
    <3>2. Cardinality(s \ {x}) \in Nat /\ ~(n <= Cardinality(s \ {x}))
      BY <3>1, SizeOf
    <3>3. Cardinality(s \ {x}) \notin Bad
      BY <1>2, <3>2
    <3> QED BY <3>1, <3>2, <3>3
  <2> QED BY <1>3, <2>1, <2>2, <2>3
<1> QED BY <1>5, <1>6

LEMMA SumOfNone ==
    ASSUME NEW h PROVE Sum(h, {}) = 0
<1>1. PICK f : Sums(f, h, {}) /\ Sum(h, {}) = f[{}]
  BY SumIs, FS_EmptySet
<1> QED BY <1>1 DEF Sums, SumStep

LEMMA SumWithout ==
    ASSUME NEW h, NEW T, IsFiniteSet(T), Lengths(h, T), NEW y \in T,
           NEW g, NEW U, U = T \ {y}, \A k \in U : g[k] = h[k]
    PROVE  Sum(h, T) = Len(h[y]) + Sum(g, U) /\ Sum(h, T) \in Nat /\ Sum(g, U) \in Nat
<1>1. PICK f : Sums(f, h, T) /\ Sum(h, T) = f[T]
  BY SumIs
<1>2. IsFiniteSet(U)
  BY FS_Subset
<1>3. PICK e : Sums(e, g, U) /\ Sum(g, U) = e[U]
  BY <1>2, SumIs
<1>4. f[U] = e[U]
  <2>1. U \subseteq T
    OBVIOUS
  <2>2. \A s \in SUBSET U : f[s] = e[s]
    BY <1>1, <1>2, <1>3, <2>1, SameSum
  <2> QED BY <2>2
<1>5. f[T] \in Nat /\ f[U] \in Nat /\ f[T] = Len(h[y]) + f[T \ {y}]
  <2>1. AnyOrder(f, h, T)
    BY <1>1, AnyFirst
  <2> QED BY <2>1 DEF AnyOrder
<1> QED BY <1>1, <1>3, <1>4, <1>5

LEMMA SumIsNat ==
    ASSUME NEW h, NEW T, IsFiniteSet(T), Lengths(h, T)
    PROVE  Sum(h, T) \in Nat
<1>1. PICK f : Sums(f, h, T) /\ Sum(h, T) = f[T]
  BY SumIs
<1>2. AnyOrder(f, h, T)
  BY <1>1, AnyFirst
<1>3. f[T] \in Nat
  BY <1>2 DEF AnyOrder
<1> QED BY <1>1, <1>3

LEMMA SumAgrees ==
    ASSUME NEW h, NEW T, IsFiniteSet(T), Lengths(h, T),
           NEW g, \A k \in T : g[k] = h[k]
    PROVE  Sum(g, T) = Sum(h, T) /\ Sum(h, T) \in Nat
<1>1. PICK f : Sums(f, h, T) /\ Sum(h, T) = f[T]
  BY SumIs
<1>2. PICK e : Sums(e, g, T) /\ Sum(g, T) = e[T]
  BY SumIs
<1>3. f[T] = e[T]
  <2>1. \A s \in SUBSET T : f[s] = e[s]
    BY <1>1, <1>2, SameSum
  <2> QED BY <2>1
<1>4. Sum(h, T) \in Nat
  BY SumIsNat
<1> QED BY <1>1, <1>2, <1>3, <1>4

-----------------------------------------------------------------------------
(***************************************************************************)
(* Runs of consecutive bytes.                                              *)
(***************************************************************************)
\* n bytes from position q on.
Run(q, n) == [i \in 1..n |-> q + i - 1]

LEMMA RunIs ==
    ASSUME NEW q \in Nat, NEW n \in Nat
    PROVE  /\ Run(q, n) \in Seq(Nat) /\ Len(Run(q, n)) = n
           /\ \A i \in 1..n : Run(q, n)[i] = q + i - 1
           /\ DOMAIN Run(q, n) = 1..n
           /\ Run(q, n) = <<>> <=> n = 0
<1>1. \A i \in 1..n : q + i - 1 \in Nat
  OBVIOUS
<1>2. Run(q, n) \in Seq(Nat) /\ Len(Run(q, n)) = n
  BY <1>1, IsASeq DEF Run
<1>3. Run(q, n) = <<>> <=> n = 0
  BY <1>2, EmptySeq
<1> QED BY <1>2, <1>3 DEF Run

LEMMA RunOfNone == \A q \in Nat : Run(q, 0) = <<>>
BY RunIs

LEMMA RunsJoin ==
    ASSUME NEW q \in Nat, NEW n \in Nat, NEW m \in Nat
    PROVE  Run(q, n) \o Run(q + n, m) = Run(q, n + m)
<1> DEFINE s == Run(q, n)
           t == Run(q + n, m)
           u == Run(q, n + m)
<1>1. s \in Seq(Nat) /\ Len(s) = n /\ \A i \in 1..n : s[i] = q + i - 1
  BY RunIs
<1>2. t \in Seq(Nat) /\ Len(t) = m /\ \A i \in 1..m : t[i] = (q + n) + i - 1
  <2>1. q + n \in Nat
    OBVIOUS
  <2> QED BY <2>1, RunIs
<1>3. u \in Seq(Nat) /\ Len(u) = n + m /\ \A i \in 1..(n + m) : u[i] = q + i - 1
  BY RunIs
<1> HIDE DEF s, t, u
<1>4. /\ s \o t \in Seq(Nat) /\ Len(s \o t) = n + m
      /\ \A i \in 1..(n + m) : (s \o t)[i] = IF i <= n THEN s[i] ELSE t[i - n]
  BY <1>1, <1>2, ConcatProperties
<1>5. \A i \in 1..(n + m) : (s \o t)[i] = u[i]
  <2> TAKE i \in 1..(n + m)
  <2>1. CASE i <= n
    <3>1. i \in 1..n
      BY <2>1
    <3> QED BY <1>1, <1>3, <1>4, <2>1, <3>1
  <2>2. CASE ~(i <= n)
    <3>1. i - n \in 1..m
      BY <2>2
    <3>2. t[i - n] = (q + n) + (i - n) - 1
      BY <1>2, <3>1
    <3>3. (q + n) + (i - n) - 1 = q + i - 1
      OBVIOUS
    <3> QED BY <1>3, <1>4, <2>2, <3>2, <3>3
  <2> QED BY <2>1, <2>2
<1>6. s \o t = u
  BY <1>3, <1>4, <1>5, SeqEqual
<1> QED BY <1>6 DEF s, t, u

LEMMA Joined ==
    ASSUME NEW s \in Seq(Nat), NEW t \in Seq(Nat), NEW u \in Seq(Nat)
    PROVE  s \o (t \o u) = (s \o t) \o u
<1> DEFINE v == t \o u
           w == s \o t
           x == s \o v
           y == w \o u
<1>1. Len(s) \in Nat /\ Len(t) \in Nat /\ Len(u) \in Nat
  BY LenProperties
<1> DEFINE a == Len(s)
           b == Len(t)
           c == Len(u)
<1>2. v \in Seq(Nat) /\ Len(v) = b + c /\ \A i \in 1..(b + c) : v[i] = IF i <= b THEN t[i] ELSE u[i - b]
  BY ConcatProperties
<1>3. w \in Seq(Nat) /\ Len(w) = a + b /\ \A i \in 1..(a + b) : w[i] = IF i <= a THEN s[i] ELSE t[i - a]
  BY ConcatProperties
<1> HIDE DEF v, w
<1>4. x \in Seq(Nat) /\ Len(x) = a + Len(v)
      /\ \A i \in 1..(a + Len(v)) : x[i] = IF i <= a THEN s[i] ELSE v[i - a]
  <2>1. v \in Seq(Nat)
    BY <1>2
  <2> QED BY <2>1, ConcatProperties
<1>5. y \in Seq(Nat) /\ Len(y) = Len(w) + c
      /\ \A i \in 1..(Len(w) + c) : y[i] = IF i <= Len(w) THEN w[i] ELSE u[i - Len(w)]
  <2>1. w \in Seq(Nat)
    BY <1>3
  <2> QED BY <2>1, ConcatProperties
<1> HIDE DEF a, b, c, x, y
<1>6. Len(x) = Len(y)
  BY <1>1, <1>2, <1>3, <1>4, <1>5 DEF a, b, c
<1>7. a \in Nat /\ b \in Nat /\ c \in Nat
  BY <1>1 DEF a, b, c
<1>8. \A i \in 1..Len(x) : x[i] = y[i]
  <2> TAKE i \in 1..Len(x)
  <2>0. i \in Nat /\ 1 <= i /\ i <= a + b + c /\ i \in 1..(a + Len(v)) /\ i \in 1..(Len(w) + c)
    BY <1>2, <1>3, <1>4, <1>7
  <2>1. CASE i <= a
    <3>1. i \in 1..(a + b) /\ i <= Len(w)
      BY <1>3, <1>7, <2>0, <2>1
    <3> QED BY <1>3, <1>4, <1>5, <2>0, <2>1, <3>1
  <2>2. CASE ~(i <= a) /\ i <= a + b
    <3>1. i \in 1..(a + b) /\ i <= Len(w) /\ i - a \in 1..(b + c) /\ i - a <= b
      BY <1>3, <1>7, <2>0, <2>2
    <3>2. x[i] = t[i - a]
      BY <1>2, <1>4, <2>0, <2>2, <3>1
    <3>3. y[i] = t[i - a]
      BY <1>3, <1>5, <2>0, <2>2, <3>1
    <3> QED BY <3>2, <3>3
  <2>3. CASE ~(i <= a) /\ ~(i <= a + b)
    <3>1. ~(i <= Len(w)) /\ i - a \in 1..(b + c) /\ ~(i - a <= b) /\ (i - a) - b = i - Len(w)
      BY <1>3, <1>7, <2>0, <2>3
    <3>2. x[i] = u[(i - a) - b]
      BY <1>2, <1>4, <2>0, <2>3, <3>1
    <3>3. y[i] = u[i - Len(w)]
      BY <1>5, <2>0, <3>1
    <3> QED BY <3>1, <3>2, <3>3
  <2> QED BY <2>1, <2>2, <2>3
<1>9. x = y
  BY <1>4, <1>5, <1>6, <1>8, SeqEqual
<1> QED BY <1>9 DEF x, y, v, w

LEMMA RunCut ==
    ASSUME NEW q \in Nat, NEW n \in Nat, NEW k \in 0..n
    PROVE  SubSeq(Run(q, n), k + 1, n) = Run(q + k, n - k)
<1> DEFINE s == Run(q, n)
           u == Run(q + k, n - k)
           t == SubSeq(s, k + 1, n)
<1>1. s \in Seq(Nat) /\ Len(s) = n /\ \A i \in 1..n : s[i] = q + i - 1
  BY RunIs
<1>2. u \in Seq(Nat) /\ Len(u) = n - k /\ \A i \in 1..(n - k) : u[i] = (q + k) + i - 1
  <2>1. q + k \in Nat /\ n - k \in Nat
    OBVIOUS
  <2> QED BY <2>1, RunIs
<1> HIDE DEF s, u
<1>3. t = [i \in 1..(n - k) |-> s[k + 1 + i - 1]]
  <2>1. n - (k + 1) + 1 = n - k /\ k + 1 \in Nat
    OBVIOUS
  <2> QED BY <1>1, <2>1
<1>4. \A i \in 1..(n - k) : t[i] = u[i]
  <2> TAKE i \in 1..(n - k)
  <2>1. k + i \in 1..n /\ k + 1 + i - 1 = k + i
    OBVIOUS
  <2>2. t[i] = s[k + i]
    BY <1>3, <2>1
  <2> QED BY <1>1, <1>2, <2>1, <2>2
<1>5. t \in Seq(Nat) /\ Len(t) = n - k
  <2>1. \A i \in 1..(n - k) : s[k + 1 + i - 1] \in Nat
    <3> TAKE i \in 1..(n - k)
    <3>1. k + i \in 1..n /\ k + 1 + i - 1 = k + i
      OBVIOUS
    <3> QED BY <1>1, <3>1
  <2> HIDE DEF t
  <2> QED BY <1>3, <2>1, IsASeq
<1> HIDE DEF t
<1>6. t = u
  BY <1>2, <1>4, <1>5, SeqEqual
<1> QED BY <1>6 DEF s, t, u

-----------------------------------------------------------------------------
(***************************************************************************)
(* Segments, and the loop that pulls in held ones.                         *)
(***************************************************************************)
LEMMA SegmentIs ==
    ASSUME NEW s \in Segments
    PROVE  /\ s.off \in Nat /\ s.len \in Nat /\ s.len > 0
           /\ End(s) \in Nat /\ s.off < End(s) /\ End(s) = s.off + s.len
           /\ Payload(s) = Run(s.off, s.len)
           /\ Payload(s) \in Seq(Nat) /\ Len(Payload(s)) = s.len /\ Payload(s) # <<>>
<1>1. s.off \in Nat /\ s.len \in Nat /\ s.len > 0
  BY CaptureAssumption
<1>2. End(s) \in Nat /\ s.off < End(s) /\ End(s) = s.off + s.len
  BY <1>1 DEF End
<1>3. Payload(s) = Run(s.off, s.len)
  BY DEF Payload, Run
<1>4. /\ Run(s.off, s.len) \in Seq(Nat) /\ Len(Run(s.off, s.len)) = s.len
      /\ Run(s.off, s.len) # <<>>
  <2> DEFINE q == s.off
             n == s.len
  <2>1. q \in Nat /\ n \in Nat /\ n # 0
    BY <1>1
  <2> HIDE DEF q, n
  <2>2. Run(q, n) \in Seq(Nat) /\ Len(Run(q, n)) = n /\ (Run(q, n) = <<>> <=> n = 0)
    BY <2>1, RunIs
  <2> QED BY <2>1, <2>2 DEF q, n
<1> QED BY <1>1, <1>2, <1>3, <1>4

\* The end of one segment and the beginning of another.
LEMMA Nearby ==
    ASSUME NEW s \in Segments, NEW t \in Segments
    PROVE  /\ End(s) - t.off < SeqSpan - MaxGap
           /\ End(s) - t.off < SeqSpan /\ t.off - End(s) < SeqSpan
           /\ s.off - t.off < SeqSpan /\ End(s) - End(t) < SeqSpan
<1>1. /\ s.off \in Nat /\ t.off \in Nat /\ End(s) \in Nat /\ End(t) \in Nat
      /\ s.off < End(s) /\ t.off < End(t)
  BY SegmentIs
<1>2. End(s) < t.off + SeqSpan - MaxGap /\ End(t) < s.off + SeqSpan - MaxGap
  BY LapAssumption
<1>3. SeqSpan \in Nat /\ MaxGap \in Nat
  BY SeqAssumption, BufferAssumption
<1> QED BY <1>1, <1>2, <1>3

LEMMA BeginsAt ==
    ASSUME NEW s \in Segments, NEW t \in Segments, SeqAt(End(s)) = SeqAt(t.off)
    PROVE  End(s) = t.off
<1>1. End(s) \in Nat /\ t.off \in Nat
  BY SegmentIs
<1>2. End(s) - t.off < SeqSpan /\ t.off - End(s) < SeqSpan
  BY Nearby
<1> QED BY <1>1, <1>2, SamePosition

\* The bytes from position a to before b are all in segments of C.
Covered(i, C) == \E t \in C : t.off <= i /\ i < End(t)
Filled(a, b, C) == \A i \in a..(b - 1) : Covered(i, C)

LEMMA FilledBy ==
    ASSUME NEW C \in SUBSET Segments, NEW s \in C, NEW a \in Nat, s.off <= a
    PROVE  Filled(a, End(s), C)
<1> SUFFICES ASSUME NEW i \in a..(End(s) - 1) PROVE Covered(i, C)
  BY DEF Filled
<1>1. s.off \in Nat /\ End(s) \in Nat
  BY SegmentIs
<1>2. s.off <= i /\ i < End(s)
  BY <1>1
<1> QED BY <1>2 DEF Covered

LEMMA FilledJoins ==
    ASSUME NEW C, NEW a \in Nat, NEW b \in Nat, NEW c \in Nat,
           Filled(a, b, C), Filled(b, c, C)
    PROVE  Filled(a, c, C)
<1> SUFFICES ASSUME NEW i \in a..(c - 1) PROVE Covered(i, C)
  BY DEF Filled
<1>1. i \in a..(b - 1) \/ i \in b..(c - 1)
  OBVIOUS
<1> QED BY <1>1 DEF Filled

LEMMA FilledMore ==
    ASSUME NEW C, NEW D, C \subseteq D, NEW a, NEW b, Filled(a, b, C)
    PROVE  Filled(a, b, D)
BY DEF Filled, Covered

LEMMA FilledNone == \A C : \A a \in Nat : Filled(a, a, C)
BY DEF Filled

HeldFrom(C) == \A k \in DOMAIN held : \E s \in C : k = SeqAt(s.off) /\ held[k] = Payload(s)

PullStart(n) == [next |-> n, bytes |-> <<>>, used |-> {}]
PullStep(p) ==
    IF p.next \notin DOMAIN held \ p.used THEN p
    ELSE [next  |-> Plus(p.next, Len(held[p.next])),
          bytes |-> p.bytes \o held[p.next],
          used  |-> p.used \cup {p.next}]

IsPull(f, n, k) ==
    /\ f = [i \in 0..k |-> f[i]]
    /\ \A i \in 0..k : f[i] = IF i = 0 THEN PullStart(n) ELSE PullStep(f[i - 1])

LEMMA PullExists ==
    ASSUME NEW n, NEW k0 \in Nat
    PROVE  \E f : IsPull(f, n, k0)
<1> DEFINE Bad == {k \in Nat : ~\E f : IsPull(f, n, k)}
<1> SUFFICES ASSUME k0 \in Bad PROVE FALSE
  OBVIOUS
<1>1. PICK k \in Bad : \A m \in Bad : k <= m
  BY LeastOf
<1>2. CASE k = 0
  <2> DEFINE f == [i \in 0..0 |-> PullStart(n)]
  <2>1. \A i \in 0..0 : i = 0
    OBVIOUS
  <2>2. \A i \in 0..0 : f[i] = IF i = 0 THEN PullStart(n) ELSE PullStep(f[i - 1])
    BY <2>1
  <2>3. f = [i \in 0..0 |-> f[i]]
    OBVIOUS
  <2> HIDE DEF f
  <2> QED BY <1>1, <1>2, <2>2, <2>3 DEF IsPull
<1>3. CASE k # 0
  <2>1. k \in Nat /\ k - 1 \in Nat /\ k - 1 \notin Bad
    BY <1>1, <1>3
  <2>2. PICK g : IsPull(g, n, k - 1)
    BY <2>1
  <2> DEFINE f == [i \in 0..k |-> IF i = k THEN PullStep(g[k - 1]) ELSE g[i]]
  <2>3. \A i \in 0..(k - 1) :
          f[i] = g[i] /\ g[i] = IF i = 0 THEN PullStart(n) ELSE PullStep(g[i - 1])
    <3>1. \A i \in 0..(k - 1) : g[i] = IF i = 0 THEN PullStart(n) ELSE PullStep(g[i - 1])
      BY <2>2 DEF IsPull
    <3>2. \A i \in 0..(k - 1) : i \in 0..k /\ i # k
      BY <2>1
    <3>3. \A i \in 0..(k - 1) : f[i] = g[i]
      BY <3>2
    <3> HIDE DEF f
    <3> QED BY <3>1, <3>3
  <2>4. f[k] = PullStep(g[k - 1])
    BY <2>1
  <2>5. f = [i \in 0..k |-> f[i]]
    OBVIOUS
  <2> HIDE DEF f
  <2>6. \A i \in 0..k : f[i] = IF i = 0 THEN PullStart(n) ELSE PullStep(f[i - 1])
    <3> TAKE i \in 0..k
    <3>1. CASE i = k
      <4>1. k - 1 \in 0..(k - 1)
        BY <2>1
      <4>2. f[k - 1] = g[k - 1]
        BY <2>3, <4>1
      <4> QED BY <1>3, <2>4, <3>1, <4>2
    <3>2. CASE i # k /\ i # 0
      <4>1. i \in 0..(k - 1) /\ i - 1 \in 0..(k - 1)
        BY <2>1, <3>2
      <4>2. f[i - 1] = g[i - 1] /\ f[i] = PullStep(g[i - 1])
        BY <2>3, <3>2, <4>1
      <4> QED BY <3>2, <4>2
    <3>3. CASE i # k /\ i = 0
      <4>1. 0 \in 0..(k - 1)
        BY <2>1, SMTT(30)
      <4> QED BY <2>3, <3>3, <4>1
    <3> QED BY <3>1, <3>2, <3>3
  <2> QED BY <1>1, <2>5, <2>6 DEF IsPull
<1> QED BY <1>2, <1>3

LEMMA PullIs ==
    ASSUME NEW n, IsFiniteSet(DOMAIN held)
    PROVE  \E f : /\ IsPull(f, n, Cardinality(DOMAIN held))
                  /\ Pull(n) = f[Cardinality(DOMAIN held)]
<1> DEFINE k == Cardinality(DOMAIN held)
           P(f) == f = [i \in 0..k |->
               IF i = 0 THEN [next |-> n, bytes |-> <<>>, used |-> {}]
               ELSE LET p == f[i - 1]
                    IN  IF p.next \notin DOMAIN held \ p.used THEN p
                        ELSE [next  |-> Plus(p.next, Len(held[p.next])),
                              bytes |-> p.bytes \o held[p.next],
                              used  |-> p.used \cup {p.next}]]
<1>1. k \in Nat
  BY FS_CardinalityType
<1>2. PICK g : IsPull(g, n, k)
  BY <1>1, PullExists
<1>3. P(g)
  BY <1>2, Zenon DEF IsPull, PullStart, PullStep
<1>4. P(CHOOSE f : P(f))
  BY <1>3, Zenon
<1>5. Pull(n) = (CHOOSE f : P(f))[k]
  BY Zenon DEF Pull
<1> DEFINE h == CHOOSE f : P(f)
<1>6. P(h)
  BY <1>4
<1> HIDE DEF h
<1>7. h = [i \in 0..k |-> h[i]]
  BY <1>6
<1>8. \A i \in 0..k : h[i] = IF i = 0 THEN PullStart(n) ELSE PullStep(h[i - 1])
  BY <1>6, Zenon DEF PullStart, PullStep
<1>9. IsPull(h, n, k)
  BY <1>7, <1>8 DEF IsPull
<1> QED BY <1>5, <1>9 DEF h

\* What was pulled in so far: L bytes that follow position q, up to the end of
\* a segment of C, and what was used for them.
PullTo(p, q, C, L) ==
    /\ L \in Nat /\ p.bytes = Run(q, L) /\ p.next = SeqAt(q + L)
    /\ Filled(q, q + L, C) /\ \E t \in C : q + L = End(t)
    /\ p.used \subseteq DOMAIN held
    /\ \A k \in p.used :
         \E s \in C : k = SeqAt(s.off) /\ held[k] = Payload(s) /\ End(s) <= q + L
    /\ Sum(held, DOMAIN held) = L + Sum(held, DOMAIN held \ p.used)

LEMMA HeldLengths ==
    ASSUME NEW C \in SUBSET Segments, HeldFrom(C)
    PROVE  Lengths(held, DOMAIN held)
<1> SUFFICES ASSUME NEW k \in DOMAIN held PROVE Len(held[k]) \in Nat
  BY DEF Lengths
<1>1. PICK s \in C : held[k] = Payload(s)
  BY DEF HeldFrom
<1>2. Len(Payload(s)) = s.len /\ s.len \in Nat
  BY SegmentIs
<1> QED BY <1>1, <1>2

LEMMA PullStepKeeps ==
    ASSUME NEW C \in SUBSET Segments, HeldFrom(C), IsFiniteSet(DOMAIN held),
           NEW q \in Nat, NEW p, NEW L, PullTo(p, q, C, L)
    PROVE  \E M : PullTo(PullStep(p), q, C, M)
<1>1. CASE p.next \notin DOMAIN held \ p.used
  BY <1>1 DEF PullStep
<1>2. CASE p.next \in DOMAIN held \ p.used
  <2> DEFINE k == p.next
             r == PullStep(p)
             T == DOMAIN held \ p.used
  <2>0. L \in Nat /\ q + L \in Nat
    BY DEF PullTo
  <2>1. PICK s \in C : k = SeqAt(s.off) /\ held[k] = Payload(s)
    BY <1>2 DEF HeldFrom
  <2>2. PICK t \in C : q + L = End(t)
    BY DEF PullTo
  <2>3. q + L = s.off
    <3>1. SeqAt(End(t)) = SeqAt(s.off)
      BY <2>1, <2>2 DEF PullTo
    <3> QED BY <2>2, <3>1, BeginsAt
  <2>4. /\ s.len \in Nat /\ End(s) = s.off + s.len /\ Len(Payload(s)) = s.len
        /\ Payload(s) = Run(s.off, s.len)
    BY SegmentIs
  <2> DEFINE M == L + s.len
  <2>5. M \in Nat /\ q + M = End(s) /\ (q + L) + s.len = q + M
    BY <2>0, <2>3, <2>4
  <2>6. /\ r.next = Plus(k, s.len) /\ r.bytes = Run(q, L) \o Payload(s)
        /\ r.used = p.used \cup {k}
    BY <1>2, <2>1, <2>4 DEF PullStep, PullTo
  <2>7. r.bytes = Run(q, M)
    <3>1. Payload(s) = Run(q + L, s.len)
      BY <2>3, <2>4
    <3>2. Run(q, L) \o Run(q + L, s.len) = Run(q, L + s.len)
      BY <2>0, <2>4, RunsJoin
    <3> QED BY <2>6, <3>1, <3>2
  <2>8. r.next = SeqAt(q + M)
    <3>1. k = SeqAt(q + L)
      BY DEF PullTo
    <3>2. Plus(SeqAt(q + L), s.len) = SeqAt((q + L) + s.len)
      BY <2>0, <2>4, PlusOf
    <3> QED BY <2>5, <2>6, <3>1, <3>2
  <2>9. r.used \subseteq DOMAIN held
    BY <1>2, <2>6 DEF PullTo
  <2>10. \A j \in r.used :
           \E u \in C : j = SeqAt(u.off) /\ held[j] = Payload(u) /\ End(u) <= q + M
    <3> TAKE j \in r.used
    <3>1. CASE j = k
      <4>1. End(s) <= q + M
        BY <2>0, <2>5
      <4> QED BY <2>1, <3>1, <4>1
    <3>2. CASE j \in p.used
      <4>1. PICK u \in C : j = SeqAt(u.off) /\ held[j] = Payload(u) /\ End(u) <= q + L
        BY <3>2 DEF PullTo
      <4>2. End(u) \in Nat
        BY SegmentIs
      <4>3. End(u) <= q + M
        BY <2>0, <2>4, <4>1, <4>2
      <4> QED BY <4>1, <4>3
    <3> QED BY <2>6, <3>1, <3>2
  <2>11. Sum(held, DOMAIN held) = M + Sum(held, DOMAIN held \ r.used)
    <3>1. IsFiniteSet(T) /\ Lengths(held, T)
      BY HeldLengths, FS_Subset DEF Lengths
    <3>2. DOMAIN held \ r.used = T \ {k}
      BY <2>6
    <3>3. k \in T
      BY <1>2
    <3> HIDE DEF T, k
    <3> DEFINE U == T \ {k}
    <3>4. /\ Sum(held, T) = Len(held[k]) + Sum(held, U)
          /\ Sum(held, T) \in Nat /\ Sum(held, U) \in Nat
      BY <3>1, <3>3, SumWithout
    <3>5. Len(held[k]) = s.len
      BY <2>1, <2>4
    <3>6. Sum(held, DOMAIN held) = L + Sum(held, T)
      BY DEF PullTo, T
    <3> DEFINE a == Sum(held, U)
    <3>7. Sum(held, DOMAIN held \ r.used) = a
      BY <3>2
    <3> HIDE DEF U, a, M
    <3>8. Sum(held, DOMAIN held) = L + (s.len + a) /\ a \in Nat
      BY <3>4, <3>5, <3>6 DEF a
    <3>9. Sum(held, DOMAIN held) = M + a
      BY <2>0, <2>4, <3>8 DEF M
    <3> QED BY <3>7, <3>9
  <2> HIDE DEF M, r
  <2>12. \E u \in C : q + M = End(u)
    BY <2>5
  <2>13. Filled(q, q + M, C)
    <3>1. Filled(q, q + L, C)
      BY DEF PullTo
    <3>2. Filled(q + L, End(s), C)
      <4>1. q + L \in Nat /\ s.off <= q + L
        BY <2>0, <2>3
      <4> DEFINE x == q + L
      <4> HIDE DEF x
      <4>2. Filled(x, End(s), C)
        BY <4>1, FilledBy DEF x
      <4> QED BY <4>2 DEF x
    <3>3. End(s) \in Nat
      BY SegmentIs
    <3> DEFINE x == q + L
    <3>4. x \in Nat /\ Filled(q, x, C) /\ Filled(x, End(s), C)
      BY <2>0, <3>1, <3>2
    <3> HIDE DEF x
    <3>5. Filled(q, End(s), C)
      BY <3>3, <3>4, FilledJoins
    <3> QED BY <2>5, <3>5
  <2>14. PullTo(r, q, C, M)
    BY <2>5, <2>7, <2>8, <2>9, <2>10, <2>11, <2>12, <2>13 DEF PullTo
  <2> QED BY <2>14 DEF r
<1> QED BY <1>1, <1>2

\* As long as there is something to use, each pass uses one more.
PullCount(p, i) == p.next \in DOMAIN held \ p.used => Cardinality(p.used) = i

LEMMA PullStepCounts ==
    ASSUME IsFiniteSet(DOMAIN held), NEW p, p.used \subseteq DOMAIN held,
           NEW i \in Nat, PullCount(p, i)
    PROVE  PullCount(PullStep(p), i + 1)
<1>1. CASE p.next \notin DOMAIN held \ p.used
  BY <1>1 DEF PullStep, PullCount
<1>2. CASE p.next \in DOMAIN held \ p.used
  <2>1. PullStep(p).used = p.used \cup {p.next}
    BY <1>2 DEF PullStep
  <2>2. Cardinality(p.used) = i /\ IsFiniteSet(p.used)
    BY <1>2, FS_Subset DEF PullCount
  <2>3. Cardinality(p.used \cup {p.next}) = Cardinality(p.used) + 1
    BY <1>2, <2>2, FS_AddElement
  <2> QED BY <2>1, <2>2, <2>3 DEF PullCount
<1> QED BY <1>1, <1>2

\* Behind the end of a segment the loop takes whatever is held there, and
\* leaves nothing that would follow.
LEMMA PullResult ==
    ASSUME NEW C \in SUBSET Segments, HeldFrom(C), IsFiniteSet(DOMAIN held),
           NEW t \in C
    PROVE  /\ \E L : PullTo(Pull(SeqAt(End(t))), End(t), C, L)
           /\ Pull(SeqAt(End(t))).next
                \notin DOMAIN held \ Pull(SeqAt(End(t))).used
<1> DEFINE q == End(t)
           k == Cardinality(DOMAIN held)
<1>1. PICK f : IsPull(f, SeqAt(q), k) /\ Pull(SeqAt(q)) = f[k]
  BY PullIs
<1>2. k \in Nat /\ q \in Nat /\ q + 0 = q
  BY FS_CardinalityType, SegmentIs
<1> DEFINE Good(i) == (\E L : PullTo(f[i], q, C, L)) /\ PullCount(f[i], i)
           Bad == {i \in 0..k : ~Good(i)}
<1>0. \A i \in 0..k : f[i] = IF i = 0 THEN PullStart(SeqAt(q)) ELSE PullStep(f[i - 1])
  BY <1>1 DEF IsPull
<1>3. Good(0)
  <2>1. f[0] = PullStart(SeqAt(q))
    <3>1. 0 \in 0..k
      BY <1>2
    <3> QED BY <1>0, <3>1
  <2>2. PullTo(PullStart(SeqAt(q)), q, C, 0)
    <3>1. Run(q, 0) = <<>>
      BY <1>2, RunIs
    <3>2. Sum(held, DOMAIN held) \in Nat
      BY HeldLengths, SumIsNat
    <3>3. Sum(held, DOMAIN held \ {}) = Sum(held, DOMAIN held)
      <4>1. DOMAIN held \ {} = DOMAIN held
        OBVIOUS
      <4> QED BY <4>1
    <3> DEFINE a == Sum(held, DOMAIN held)
    <3>4. a = 0 + a
      BY <3>2
    <3> HIDE DEF a
    <3>5. Filled(q, q + 0, C)
      BY <1>2, FilledNone
    <3> QED BY <1>2, <3>1, <3>3, <3>4, <3>5 DEF PullTo, PullStart, a
  <2>3. PullCount(PullStart(SeqAt(q)), 0)
    BY FS_EmptySet DEF PullCount, PullStart
  <2> QED BY <2>1, <2>2, <2>3
<1>4. \A i \in 1..k : Good(i - 1) => Good(i)
  <2> SUFFICES ASSUME NEW i \in 1..k, Good(i - 1) PROVE Good(i)
    OBVIOUS
  <2>1. f[i] = PullStep(f[i - 1])
    <3>1. i \in 0..k /\ i # 0
      BY <1>2
    <3> QED BY <1>0, <3>1
  <2>2. PICK L : PullTo(f[i - 1], q, C, L)
    OBVIOUS
  <2>3. \E M : PullTo(f[i], q, C, M)
    BY <1>2, <2>1, <2>2, PullStepKeeps
  <2>4. PullCount(f[i], i)
    <3>1. f[i - 1].used \subseteq DOMAIN held
      BY <2>2 DEF PullTo
    <3>2. i - 1 \in Nat /\ (i - 1) + 1 = i
      OBVIOUS
    <3>3. PullCount(PullStep(f[i - 1]), (i - 1) + 1)
      BY <3>1, <3>2, PullStepCounts
    <3> QED BY <2>1, <3>2, <3>3
  <2> QED BY <2>3, <2>4
<1> HIDE DEF Good
<1>5. Bad = {}
  <2> SUFFICES ASSUME Bad # {} PROVE FALSE
    OBVIOUS
  <2>1. Bad \in SUBSET Nat
    OBVIOUS
  <2>2. PICK i \in Bad : \A j \in Bad : i <= j
    BY <2>1, LeastOf
  <2>3. i # 0
    BY <1>3, <2>2
  <2>4. i \in 1..k /\ i - 1 \in 0..k /\ ~(i <= i - 1)
    BY <1>2, <2>2, <2>3
  <2>5. Good(i - 1)
    BY <2>2, <2>4
  <2> QED BY <1>4, <2>2, <2>4, <2>5
<1>6. Good(k)
  BY <1>2, <1>5
<1>7. PICK L : PullTo(f[k], q, C, L)
  BY <1>6 DEF Good
<1>8. f[k].next \notin DOMAIN held \ f[k].used
  <2> SUFFICES ASSUME f[k].next \in DOMAIN held \ f[k].used PROVE FALSE
    OBVIOUS
  <2>1. f[k].used \subseteq DOMAIN held /\ Cardinality(f[k].used) = k
    BY <1>6, <1>7 DEF Good, PullTo, PullCount
  <2>2. f[k].used = DOMAIN held
    BY <2>1, FS_Subset
  <2> QED BY <2>2
<1> QED BY <1>1, <1>7, <1>8

-----------------------------------------------------------------------------
(***************************************************************************)
(* The inductive invariant of the buffer.  What was handed out and what is *)
(* pending is one run of bytes from the first segment's on, up to the end  *)
(* of a captured segment, where the next byte is expected; what is held    *)
(* are captured segments as they were captured; and the total counts both. *)
(***************************************************************************)
Out == drained \o pending

\* From position a on, n bytes came out and those from a + n on are expected.
Came(a, n, seq, C) ==
    /\ n \in Nat /\ Out = Run(a, n) /\ seq = SeqAt(a + n)
    /\ Filled(a, a + n, C) /\ (n = 0 \/ \E t \in C : a + n = End(t))

ReassemblyInv ==
    /\ captured \subseteq Segments
    /\ drained \in Seq(Nat) /\ pending \in Seq(Nat)
    /\ begun \in BOOLEAN /\ capped \in BOOLEAN
    /\ IsFiniteSet(DOMAIN held) /\ HeldFrom(captured)
    /\ begun <=> captured # {}
    /\ ~begun => drained = <<>> /\ pending = <<>> /\ DOMAIN held = {} /\ nextSeq \in SeqNums
    /\ begun => first \in captured /\ \E n : Came(first.off, n, nextSeq, captured)
    /\ total = Len(pending) + Sum(held, DOMAIN held) /\ total <= MaxBuffer

\* Where segment s finds the stream: position e is expected.
Expects(s, e) ==
    /\ e \in Nat /\ Expected(SeqAt(s.off)) = SeqAt(e)
    /\ e - s.off < SeqSpan - MaxGap /\ End(s) - e < SeqSpan /\ s.off - e < SeqSpan

LEMMA Half ==
    /\ SeqSpan \in Nat /\ SeqSpan \div 2 \in Nat /\ SeqSpan = 2 * (SeqSpan \div 2)
    /\ MaxGap \in Nat /\ MaxGap < SeqSpan \div 2
<1>1. SeqSpan \in Nat /\ SeqSpan > 1 /\ SeqSpan = 2 * (SeqSpan \div 2) /\ SeqSpan \div 2 \in Nat
  BY SeqAssumption
<1> DEFINE h == SeqSpan \div 2
<1> HIDE DEF h
<1>2. h \in Nat /\ SeqSpan = 2 * h
  BY <1>1 DEF h
<1>3. MaxGap \in Nat /\ 4 * MaxGap <= SeqSpan
  BY BufferAssumption
<1>4. MaxGap < h
  BY <1>1, <1>2, <1>3
<1> QED BY <1>1, <1>3, <1>4 DEF h

LEMMA GapInside == SeqSpan \in Int /\ MaxGap \in Nat /\ SeqSpan - MaxGap <= SeqSpan
<1>1. SeqSpan \in Nat /\ MaxGap \in Nat
  BY Half
<1> QED BY <1>1

\* The bytes of a segment that is not consumed: it goes on where the stream
\* ends, or lies ahead of it.
LEMMA FreshBytes ==
    ASSUME NEW s \in Segments, NEW e, Expects(s, e),
           ~Consumed(SeqAt(s.off), Payload(s))
    PROVE  IF SeqLt(SeqAt(e), SeqAt(s.off))
           THEN /\ e < s.off /\ s.off - e <= MaxGap
                /\ Fresh(SeqAt(s.off), Payload(s)) = Payload(s)
           ELSE /\ s.off <= e /\ e < End(s)
                /\ Fresh(SeqAt(s.off), Payload(s)) = Run(e, End(s) - e)
<1> DEFINE seq == SeqAt(s.off)
           h == SeqSpan \div 2
<1>1. /\ s.off \in Nat /\ s.len \in Nat /\ End(s) \in Nat /\ s.off < End(s)
      /\ End(s) = s.off + s.len
      /\ Payload(s) = Run(s.off, s.len) /\ Len(Payload(s)) = s.len
  BY SegmentIs
<1>2. e \in Nat /\ Expected(seq) = SeqAt(e)
  BY DEF Expects
<1>3. e - s.off < SeqSpan /\ s.off - e < SeqSpan /\ e - End(s) < SeqSpan /\ End(s) - e < SeqSpan
  <2> DEFINE x == s.off
             y == End(s)
             m == SeqSpan - MaxGap
  <2>1. /\ x \in Nat /\ y \in Nat /\ x < y /\ e \in Nat /\ m \in Int /\ m <= SeqSpan
        /\ SeqSpan \in Int /\ e - x < m /\ y - e < SeqSpan /\ x - e < SeqSpan
    BY <1>1, <1>2, GapInside DEF Expects
  <2> HIDE DEF x, y, m
  <2>2. e - x < SeqSpan /\ e - y < SeqSpan
    BY <2>1
  <2> QED BY <2>1, <2>2 DEF x, y
<1>4. SeqSpan \in Nat /\ h \in Nat /\ SeqSpan = 2 * h /\ MaxGap \in Nat /\ MaxGap < h
  BY Half
<1> HIDE DEF h
<1>5. SeqLt(SeqAt(e), seq) <=> (e < s.off /\ s.off - e <= h) \/ (s.off <= e /\ e - s.off >= h)
  BY <1>1, <1>2, <1>3, LtOf DEF h
<1>6. SeqLt(seq, SeqAt(e)) <=> (s.off < e /\ e - s.off <= h) \/ (e <= s.off /\ s.off - e >= h)
  BY <1>1, <1>2, <1>3, LtOf DEF h
<1>7. SeqLt(SeqAt(e), SeqAt(End(s))) <=>
        (e < End(s) /\ End(s) - e <= h) \/ (End(s) <= e /\ e - End(s) >= h)
  BY <1>1, <1>2, <1>3, LtOf DEF h
<1>8. /\ Minus(seq, SeqAt(e)) = IF s.off >= e THEN s.off - e ELSE s.off - e + SeqSpan
      /\ Minus(SeqAt(e), seq) = IF e >= s.off THEN e - s.off ELSE e - s.off + SeqSpan
  BY <1>1, <1>2, <1>3, MinusOf
<1>9. Plus(seq, Len(Payload(s))) = SeqAt(End(s))
  BY <1>1, PlusOf
<1>10. /\ ~(SeqLt(SeqAt(e), seq) /\ Minus(seq, SeqAt(e)) > MaxGap)
       /\ SeqLt(SeqAt(e), SeqAt(End(s)))
       /\ Fresh(seq, Payload(s)) # <<>>
  BY <1>2, <1>9 DEF Consumed, Implausible
<1>11. CASE SeqLt(SeqAt(e), seq)
  <2>1. e < s.off /\ s.off - e <= MaxGap
    <3>1. e - s.off < SeqSpan - MaxGap
      BY DEF Expects
    <3> QED BY <1>1, <1>2, <1>4, <1>5, <1>8, <1>10, <1>11, <3>1
  <2>2. ~SeqLt(seq, SeqAt(e))
    BY <1>1, <1>2, <1>4, <1>6, <2>1
  <2>3. Fresh(seq, Payload(s)) = Payload(s)
    BY <1>2, <2>2 DEF Fresh
  <2> QED BY <1>11, <2>1, <2>3
<1>12. CASE ~SeqLt(SeqAt(e), seq)
  <2>1. s.off <= e /\ e - s.off < h
    <3>1. CASE e < s.off
      <4>1. s.off - e > h
        BY <1>1, <1>2, <1>4, <1>5, <1>12, <3>1
      <4>2. End(s) - e > h /\ ~(End(s) <= e)
        BY <1>1, <1>2, <1>4, <3>1, <4>1
      <4> QED BY <1>1, <1>2, <1>4, <1>7, <1>10, <4>2
    <3>2. CASE ~(e < s.off)
      BY <1>1, <1>2, <1>4, <1>5, <1>12, <3>2
    <3> QED BY <3>1, <3>2
  <2>2. CASE s.off = e
    <3>1. ~SeqLt(seq, SeqAt(e))
      BY <1>1, <1>2, <1>4, <1>6, <2>1, <2>2
    <3>2. Fresh(seq, Payload(s)) = Payload(s)
      BY <1>2, <3>1 DEF Fresh
    <3>3. End(s) - e = s.len
      BY <1>1, <2>2
    <3> QED BY <1>1, <1>12, <2>2, <3>2, <3>3
  <2>3. CASE s.off # e
    <3>1. s.off < e /\ SeqLt(seq, SeqAt(e)) /\ Minus(SeqAt(e), seq) = e - s.off
      BY <1>1, <1>2, <1>4, <1>6, <1>8, <2>1, <2>3
    <3>2. Fresh(seq, Payload(s)) = SubSeq(Payload(s), (e - s.off) + 1, s.len)
      BY <1>1, <1>2, <3>1 DEF Fresh
    <3>3. e < End(s)
      <4> SUFFICES ASSUME ~(e < End(s)) PROVE FALSE
        OBVIOUS
      <4>1. (e - s.off) + 1 > s.len /\ (e - s.off) + 1 \in Nat
        BY <1>1, <1>2, <3>1
      <4>2. Payload(s) \in Seq(Nat)
        BY SegmentIs
      <4>3. SubSeq(Payload(s), (e - s.off) + 1, s.len) = <<>>
        BY <1>1, <4>1, <4>2, SubSeqEmpty
      <4> QED BY <1>10, <3>2, <4>3
    <3> DEFINE k == e - s.off
    <3>4. k \in 0..s.len /\ s.off + k = e /\ s.len - k = End(s) - e
      BY <1>1, <1>2, <3>1, <3>3
    <3>5. SubSeq(Run(s.off, s.len), k + 1, s.len) = Run(s.off + k, s.len - k)
      BY <1>1, <3>4, RunCut
    <3>6. Fresh(seq, Payload(s)) = Run(e, End(s) - e)
      BY <1>1, <3>2, <3>4, <3>5
    <3> QED BY <1>12, <2>1, <3>3, <3>6
  <2> QED BY <2>2, <2>3
<1> QED BY <1>11, <1>12

LEMMA ExpectsAt ==
    ASSUME ReassemblyInv, NEW s \in Segments, Capture(s)
    PROVE  /\ captured' = captured \cup {s} /\ captured' \in SUBSET Segments
           /\ first' \in captured' /\ first' \in Segments
           /\ begun => first' = first
           /\ \E n : /\ Came(first'.off, n, Expected(SeqAt(s.off)), captured)
                     /\ Expects(s, first'.off + n)
<1>1. /\ captured' = captured \cup {s}
      /\ first' = IF captured = {} THEN s ELSE first
  BY DEF Capture
<1>2. captured' \in SUBSET Segments
  BY <1>1 DEF ReassemblyInv
<1>3. first' \in captured' /\ (begun => first' = first)
  BY <1>1 DEF ReassemblyInv
<1> DEFINE a == first'.off
<1>4. first' \in Segments /\ a \in Nat
  BY <1>2, <1>3, SegmentIs
<1>5. PICK n : Came(a, n, Expected(SeqAt(s.off)), captured)
  <2>1. CASE begun
    <3>1. PICK n : Came(first.off, n, nextSeq, captured)
      BY <2>1 DEF ReassemblyInv
    <3> QED BY <1>3, <2>1, <3>1 DEF Expected
  <2>2. CASE ~begun
    <3>1. first' = s /\ Expected(SeqAt(s.off)) = SeqAt(s.off)
      BY <1>1, <2>2 DEF ReassemblyInv, Expected
    <3>2. Out = <<>>
      BY <2>2 DEF ReassemblyInv, Out
    <3>3. a + 0 = a /\ Run(a, 0) = <<>>
      BY <1>4, RunOfNone
    <3>4. Filled(a, a + 0, captured)
      BY <1>4, <3>3, FilledNone
    <3> QED BY <3>1, <3>2, <3>3, <3>4 DEF Came
  <2> QED BY <2>1, <2>2
<1> DEFINE e == a + n
<1>6. Expects(s, e)
  <2>1. n \in Nat /\ e \in Nat /\ Expected(SeqAt(s.off)) = SeqAt(e)
    BY <1>4, <1>5 DEF Came
  <2>2. e - s.off < SeqSpan - MaxGap
    <3>1. CASE n = 0
      <4>1. End(first') - s.off < SeqSpan - MaxGap /\ first'.off < End(first')
        BY <1>4, Nearby, SegmentIs
      <4> DEFINE x == s.off
                 y == End(first')
                 m == SeqSpan - MaxGap
      <4>2. a \in Nat /\ x \in Nat /\ y \in Nat /\ m \in Int /\ e = a /\ y - x < m /\ a < y
        BY <1>4, <3>1, <4>1, GapInside, SegmentIs
      <4> HIDE DEF a, e, x, y, m
      <4>3. e - x < m
        BY <4>2
      <4> QED BY <4>3 DEF x, m
    <3>2. CASE n # 0
      <4>1. PICK t \in captured : e = End(t)
        BY <1>5, <3>2 DEF Came
      <4> QED BY <4>1, Nearby DEF ReassemblyInv
    <3> QED BY <3>1, <3>2
  <2>3. End(s) - a < SeqSpan
    BY <1>4, Nearby
  <2>4. End(s) - e < SeqSpan /\ s.off - e < SeqSpan
    <3>1. s.off \in Nat /\ End(s) \in Nat /\ s.off < End(s)
      BY SegmentIs
    <3> QED BY <1>4, <2>1, <2>3, <3>1, Half
  <2> QED BY <2>1, <2>2, <2>4 DEF Expects
<1> QED BY <1>1, <1>2, <1>3, <1>4, <1>5, <1>6

\* What is the same whichever way the segment goes.
LEMMA CaptureFrame ==
    ASSUME ReassemblyInv, NEW s \in Segments, Capture(s)
    PROVE  /\ begun' = TRUE /\ drained' = drained /\ captured' # {}
           /\ InsertSegment(SeqAt(s.off), Payload(s))
           /\ \A k \in DOMAIN held : \E t \in captured' : k = SeqAt(t.off) /\ held[k] = Payload(t)
<1>1. InsertSegment(SeqAt(s.off), Payload(s)) /\ captured' = captured \cup {s}
  BY DEF Capture
<1> QED BY <1>1 DEF InsertSegment, ReassemblyInv, HeldFrom

\* A segment that is ignored or refused.
LEMMA IgnoreInv ==
    ASSUME ReassemblyInv, NEW s \in Segments, Capture(s),
           UNCHANGED <<pending, held, total>>, capped' \in BOOLEAN,
           nextSeq' = Expected(SeqAt(s.off))
    PROVE  ReassemblyInv'
<1>1. /\ begun' = TRUE /\ drained' = drained /\ captured' # {}
      /\ \A k \in DOMAIN held : \E t \in captured' : k = SeqAt(t.off) /\ held[k] = Payload(t)
  BY CaptureFrame
<1>2. /\ captured' = captured \cup {s} /\ captured' \in SUBSET Segments
      /\ first' \in captured'
  BY ExpectsAt
<1>3. PICK n : Came(first'.off, n, Expected(SeqAt(s.off)), captured)
  BY ExpectsAt
<1>4. Came(first.off, n, nextSeq, captured)'
  <2>1. Out' = Out
    BY <1>1 DEF Out
  <2>2. \A t \in captured : t \in captured'
    BY <1>2
  <2>3. Filled(first'.off, first'.off + n, captured')
    BY <1>2, <1>3, FilledMore DEF Came
  <2> QED BY <1>3, <2>1, <2>2, <2>3 DEF Came
<1>5. HeldFrom(captured)'
  BY <1>1 DEF HeldFrom
<1>6. Sum(held, DOMAIN held)' = Sum(held, DOMAIN held)
  BY DEF Sum
<1> QED BY <1>1, <1>2, <1>4, <1>5, <1>6 DEF ReassemblyInv

\* A segment ahead of a gap.
LEMMA HoldInv ==
    ASSUME ReassemblyInv, NEW s \in Segments, Capture(s),
           Hold(SeqAt(s.off), Payload(s))
    PROVE  ReassemblyInv'
<1> DEFINE seq == SeqAt(s.off)
           data == Payload(s)
<1>1. /\ begun' = TRUE /\ drained' = drained /\ captured' # {}
      /\ \A k \in DOMAIN held : \E t \in captured' : k = SeqAt(t.off) /\ held[k] = Payload(t)
  BY CaptureFrame
<1>2. /\ captured' = captured \cup {s} /\ captured' \in SUBSET Segments
      /\ first' \in captured'
  BY ExpectsAt
<1>3. PICK n : Came(first'.off, n, Expected(SeqAt(s.off)), captured) /\ Expects(s, first'.off + n)
  BY ExpectsAt
<1>4. UNCHANGED <<pending, capped>> /\ nextSeq' = Expected(seq)
  BY DEF Hold
<1>5. Came(first.off, n, nextSeq, captured)'
  <2>1. Out' = Out
    BY <1>1, <1>4 DEF Out
  <2>2. \A t \in captured : t \in captured'
    BY <1>2
  <2>3. Filled(first'.off, first'.off + n, captured')
    BY <1>2, <1>3, FilledMore DEF Came
  <2> QED BY <1>3, <1>4, <2>1, <2>2, <2>3 DEF Came
<1>6. CASE seq \in DOMAIN held
  <2>1. UNCHANGED <<held, total>>
    BY <1>6 DEF Hold
  <2>2. HeldFrom(captured)'
    BY <1>1, <2>1 DEF HeldFrom
  <2>3. Sum(held, DOMAIN held)' = Sum(held, DOMAIN held)
    BY <2>1 DEF Sum
  <2> QED BY <1>1, <1>2, <1>4, <1>5, <2>1, <2>2, <2>3 DEF ReassemblyInv
<1>7. CASE seq \notin DOMAIN held
  <2> DEFINE T == DOMAIN held \cup {seq}
             new == [k \in T |-> IF k = seq THEN data ELSE held[k]]
  <2>1. held' = new /\ total' = total + Len(data)
    BY <1>7 DEF Hold
  <2>2. DOMAIN new = T /\ new[seq] = data /\ \A k \in DOMAIN held : new[k] = held[k]
    BY <1>7
  <2>3. HeldFrom(captured)'
    <3> SUFFICES ASSUME NEW k \in T
                 PROVE \E t \in captured' : k = SeqAt(t.off) /\ new[k] = Payload(t)
      BY <2>1, <2>2 DEF HeldFrom
    <3>1. CASE k = seq
      BY <1>2, <2>2, <3>1
    <3>2. CASE k # seq
      BY <1>1, <2>2, <3>2
    <3> QED BY <3>1, <3>2
  <2>4. IsFiniteSet(T)
    BY FS_AddElement DEF ReassemblyInv
  <2>5. Len(data) \in Nat
    BY SegmentIs
  <2>6. Lengths(new, T)
    <3>1. Lengths(held, DOMAIN held)
      BY HeldLengths DEF ReassemblyInv
    <3> QED BY <2>2, <2>5, <3>1 DEF Lengths
  <2> HIDE DEF new
  <2>7. /\ Sum(new, T) = Len(data) + Sum(held, DOMAIN held)
        /\ Sum(held, DOMAIN held) \in Nat
    <3>1. DOMAIN held = T \ {seq} /\ seq \in T
      BY <1>7
    <3>2. \A k \in DOMAIN held : held[k] = new[k]
      BY <2>2
    <3> HIDE DEF T, data, seq
    <3>3. /\ Sum(new, T) = Len(new[seq]) + Sum(held, DOMAIN held)
          /\ Sum(held, DOMAIN held) \in Nat
      BY <2>4, <2>6, <3>1, <3>2, SumWithout
    <3> QED BY <2>2, <3>3
  <2>8. Sum(held, DOMAIN held)' = Sum(new, T)
    <3>1. \A h : h = new => Sum(h, DOMAIN h) = Sum(new, T)
      BY <2>2
    <3>2. Sum(held', DOMAIN held') = Sum(new, T)
      BY <2>1, <3>1
    <3> QED BY <3>2 DEF Sum
  <2>9. total' = Len(pending') + Sum(held, DOMAIN held)' /\ total' <= MaxBuffer
    <3>1. ~Consumed(seq, data) /\ ~Refused(seq, data) /\ SeqLt(Expected(seq), seq)
      BY DEF Hold
    <3>2. Fresh(seq, data) = data
      <4>1. Expected(seq) = SeqAt(first'.off + n)
        BY <1>3 DEF Expects
      <4> QED BY <1>3, <3>1, <4>1, FreshBytes
    <3>3. /\ total = Len(pending) + Sum(held, DOMAIN held) /\ Len(pending) \in Nat
      BY LenProperties DEF ReassemblyInv
    <3> DEFINE a == Sum(held, DOMAIN held)
               l == Len(data)
               m == Len(pending)
    <3>4. total = m + a /\ m \in Nat /\ a \in Nat /\ l \in Nat /\ total' = total + l
      BY <2>1, <2>5, <2>7, <3>3
    <3>5. ~(total + l > MaxBuffer) /\ MaxBuffer \in Nat
      BY <3>1, <3>2, BufferAssumption DEF Refused
    <3>6. Sum(held, DOMAIN held)' = l + a /\ Len(pending') = m
      BY <1>4, <2>7, <2>8
    <3> HIDE DEF a, l, m
    <3> QED BY <3>4, <3>5, <3>6
  <2>10. IsFiniteSet(DOMAIN held')
    BY <2>1, <2>2, <2>4
  <2> QED BY <1>1, <1>2, <1>4, <1>5, <2>3, <2>9, <2>10 DEF ReassemblyInv
<1> QED BY <1>6, <1>7

\* A segment that goes on where the stream ends, and what it lets in.
LEMMA ContinueTo ==
    ASSUME ReassemblyInv, NEW s \in Segments, Capture(s),
           Continue(SeqAt(s.off), Payload(s))
    PROVE  \E n, L, k :
             /\ Came(first'.off, n, Expected(SeqAt(s.off)), captured)
             /\ s.off <= first'.off + n /\ first'.off + n < End(s)
             /\ Fresh(SeqAt(s.off), Payload(s))
                  = Run(first'.off + n, End(s) - (first'.off + n))
             /\ PullTo(Pull(SeqAt(End(s))), End(s), captured', L)
             /\ Pull(SeqAt(End(s))).next \notin DOMAIN held \ Pull(SeqAt(End(s))).used
             /\ pending' = pending \o Run(first'.off + n, End(s) - (first'.off + n))
                                   \o Pull(SeqAt(End(s))).bytes
             /\ held' = [j \in DOMAIN held \ Pull(SeqAt(End(s))).used |-> held[j]]
             /\ total' = total + Len(Run(first'.off + n, End(s) - (first'.off + n)))
             /\ Came(first.off, k, nextSeq, captured)' /\ first'.off + k = End(s) + L
<1> DEFINE seq == SeqAt(s.off)
           data == Payload(s)
           a == first'.off
           z == End(s)
           after == Pull(SeqAt(z))
<1>1. /\ begun' = TRUE /\ drained' = drained /\ captured' # {}
      /\ \A k \in DOMAIN held : \E t \in captured' : k = SeqAt(t.off) /\ held[k] = Payload(t)
  BY CaptureFrame
<1>2. /\ captured' = captured \cup {s} /\ captured' \in SUBSET Segments
      /\ first' \in captured' /\ first' \in Segments
  BY ExpectsAt
<1>3. PICK n : Came(a, n, Expected(seq), captured) /\ Expects(s, a + n)
  BY ExpectsAt
<1> DEFINE e == a + n
           m == z - e
<1>4. /\ ~Consumed(seq, data) /\ ~Refused(seq, data) /\ ~SeqLt(Expected(seq), seq)
      /\ capped' = capped
  BY DEF Continue
<1>5. e < z /\ s.off <= e /\ Fresh(seq, data) = Run(e, m)
  <2>1. Expected(seq) = SeqAt(e)
    BY <1>3 DEF Expects
  <2> QED BY <1>3, <1>4, <2>1, FreshBytes
<1>6. /\ n \in Nat /\ a \in Nat /\ e \in Nat /\ z \in Nat /\ m \in Nat /\ e + m = z
      /\ a + (n + m) = z
  <2>1. a \in Nat /\ z \in Nat
    BY <1>2, SegmentIs
  <2>2. n \in Nat
    BY <1>3 DEF Came
  <2> QED BY <1>5, <2>1, <2>2
<1>7. Plus(Expected(seq), Len(Run(e, m))) = SeqAt(z)
  <2> HIDE DEF e, m, z
  <2>1. Len(Run(e, m)) = m
    BY <1>6, RunIs
  <2>2. Plus(SeqAt(e), m) = SeqAt(e + m)
    BY <1>6, PlusOf
  <2>3. Expected(seq) = SeqAt(e)
    BY <1>3 DEF Expects, e
  <2> QED BY <1>6, <2>1, <2>2, <2>3
<1>8. /\ pending' = pending \o Run(e, m) \o after.bytes
      /\ nextSeq' = after.next
      /\ held' = [k \in DOMAIN held \ after.used |-> held[k]]
      /\ total' = total + Len(Run(e, m))
  <2> HIDE DEF e, m, z
  <2>1. Pull(Plus(Expected(seq), Len(Fresh(seq, data)))) = after
    BY <1>5, <1>7
  <2> QED BY <1>5, <2>1, Zenon DEF Continue
<1>9. IsFiniteSet(DOMAIN held) /\ HeldFrom(captured')
  BY <1>1 DEF ReassemblyInv, HeldFrom
<1>10. /\ \E L : PullTo(after, z, captured', L)
      /\ after.next \notin DOMAIN held \ after.used
  <2>1. s \in captured'
    BY <1>2
  <2> QED BY <1>2, <1>9, <2>1, PullResult
<1>13. PICK L : PullTo(after, z, captured', L)
  BY <1>10
<1>11. L \in Nat /\ after.bytes = Run(z, L) /\ after.next = SeqAt(z + L)
  BY <1>13 DEF PullTo
<1> HIDE DEF m, z, after
<1>12. \E k : Came(first.off, k, nextSeq, captured)' /\ a + k = z + L
  <2> DEFINE b == n + m
             r == Run(e, m)
             l == Run(z, L)
  <2>1. /\ b \in Nat /\ b + L \in Nat /\ a + (b + L) = z + L
    BY <1>6, <1>11
  <2>2. Run(a, n) \o r = Run(a, b)
    BY <1>6, RunsJoin
  <2>3. Run(a, b) \o l = Run(a, b + L)
    <3>1. a + b = z
      BY <1>6
    <3> HIDE DEF a, b
    <3>2. Run(a, b) \o Run(a + b, L) = Run(a, b + L)
      BY <1>6, <1>11, <2>1, RunsJoin, ZenonT(60)
    <3> QED BY <3>1, <3>2
  <2>4. Out' = Run(a, b + L)
    <3>1. drained \in Seq(Nat) /\ pending \in Seq(Nat)
      BY DEF ReassemblyInv
    <3>2. r \in Seq(Nat) /\ l \in Seq(Nat)
      BY <1>6, <1>11, RunIs
    <3> HIDE DEF r, l
    <3>3. pending \o r \in Seq(Nat)
      BY <3>1, <3>2, ConcatProperties
    <3>4. drained \o ((pending \o r) \o l) = (drained \o (pending \o r)) \o l
      BY <3>1, <3>2, <3>3, Joined, SMTT(30)
    <3>5. drained \o (pending \o r) = (drained \o pending) \o r
      BY <3>1, <3>2, Joined
    <3>6. drained \o pending = Run(a, n)
      BY <1>3 DEF Came, Out
    <3>7. drained' = drained /\ pending' = (pending \o r) \o l
      BY <1>1, <1>8, <1>11 DEF r, l
    <3> QED BY <2>2, <2>3, <3>4, <3>5, <3>6, <3>7 DEF Out
  <2>5. nextSeq' = SeqAt(a + (b + L))
    BY <1>8, <1>11, <2>1
  <2>6. PICK t \in captured' : z + L = End(t)
    BY <1>13 DEF PullTo
  <2>7. a + (b + L) = End(t)
    BY <2>1, <2>6
  <2>8. PICK k \in Nat : k = b + L
    BY <2>1
  <2> HIDE DEF b
  <2>9. Filled(a, a + k, captured')
    <3>1. s \in captured' /\ s.off <= e
      BY <1>2, <1>5
    <3>2. Filled(a, e, captured')
      <4>1. Filled(a, e, captured)
        BY <1>3 DEF Came
      <4>2. captured \subseteq captured'
        BY <1>2
      <4> HIDE DEF a, e
      <4> QED BY <4>1, <4>2, FilledMore
    <3>3. Filled(e, z, captured')
      <4> HIDE DEF e
      <4> QED BY <1>2, <1>6, <3>1, FilledBy DEF z
    <3>4. Filled(z, z + L, captured')
      BY <1>13 DEF PullTo
    <3>5. a + k = z + L /\ a + k \in Nat
      BY <1>6, <2>1, <2>8
    <3> HIDE DEF a, e
    <3>6. Filled(a, z, captured')
      BY <1>6, <3>2, <3>3, FilledJoins
    <3> DEFINE y == z + L
    <3>7. y \in Nat /\ Filled(z, y, captured')
      BY <1>6, <1>11, <3>4
    <3> HIDE DEF y
    <3>8. Filled(a, y, captured')
      BY <1>6, <3>6, <3>7, FilledJoins
    <3> QED BY <3>5, <3>8 DEF y
  <2>10. Came(first.off, k, nextSeq, captured)'
    BY <2>4, <2>5, <2>7, <2>8, <2>9 DEF Came
  <2>11. a + k = z + L
    BY <2>1, <2>8 DEF b
  <2> QED BY <2>10, <2>11
<1> QED BY <1>3, <1>5, <1>8, <1>10, <1>12, <1>13 DEF m, z, after

LEMMA ContinueInv ==
    ASSUME ReassemblyInv, NEW s \in Segments, Capture(s),
           Continue(SeqAt(s.off), Payload(s))
    PROVE  ReassemblyInv'
<1> DEFINE seq == SeqAt(s.off)
           data == Payload(s)
           a == first'.off
           z == End(s)
           after == Pull(SeqAt(z))
<1>1. /\ begun' = TRUE /\ drained' = drained /\ captured' # {}
      /\ \A k \in DOMAIN held : \E t \in captured' : k = SeqAt(t.off) /\ held[k] = Payload(t)
  BY CaptureFrame
<1>2. /\ captured' = captured \cup {s} /\ captured' \in SUBSET Segments
      /\ first' \in captured' /\ first' \in Segments
  BY ExpectsAt
<1>3. PICK n, L, j :
             /\ Came(a, n, Expected(seq), captured)
             /\ a + n < z
             /\ Fresh(seq, data) = Run(a + n, z - (a + n))
             /\ PullTo(after, z, captured', L)
             /\ pending' = pending \o Run(a + n, z - (a + n)) \o after.bytes
             /\ held' = [i \in DOMAIN held \ after.used |-> held[i]]
             /\ total' = total + Len(Run(a + n, z - (a + n)))
             /\ Came(first.off, j, nextSeq, captured)'
  BY ContinueTo
<1> DEFINE e == a + n
           m == z - e
<1>4. ~Refused(seq, data) /\ capped' = capped
  BY DEF Continue
<1>5. Fresh(seq, data) = Run(e, m)
  BY <1>3
<1>6. e \in Nat /\ z \in Nat /\ m \in Nat
  <2>1. a \in Nat /\ z \in Nat
    BY <1>2, SegmentIs
  <2>2. n \in Nat
    BY <1>3 DEF Came
  <2> QED BY <1>3, <2>1, <2>2
<1>8. /\ pending' = pending \o Run(e, m) \o after.bytes
      /\ held' = [i \in DOMAIN held \ after.used |-> held[i]]
      /\ total' = total + Len(Run(e, m))
  BY <1>3
<1>9. IsFiniteSet(DOMAIN held) /\ HeldFrom(captured')
  BY <1>1 DEF ReassemblyInv, HeldFrom
<1>10. PullTo(after, z, captured', L)
  BY <1>3
<1>11. L \in Nat /\ after.bytes = Run(z, L)
  BY <1>10 DEF PullTo
<1>12. \E k : Came(first.off, k, nextSeq, captured)'
  BY <1>3
<1> HIDE DEF m, z, after
<1> DEFINE D == DOMAIN held
           R == D \ after.used
           new == [k \in R |-> held[k]]
<1>13. DOMAIN new = R /\ \A k \in R : new[k] = held[k]
  OBVIOUS
<1>14. IsFiniteSet(R) /\ Lengths(held, R) /\ Lengths(held, D)
  <2>1. Lengths(held, D)
    BY <1>2, <1>9, HeldLengths
  <2> QED BY <1>9, <2>1, FS_Subset DEF Lengths
<1>15. held' = new
  BY <1>8
<1> HIDE DEF new
<1>16. HeldFrom(captured)'
  <2> SUFFICES ASSUME NEW k \in R
               PROVE \E t \in captured' : k = SeqAt(t.off) /\ new[k] = Payload(t)
    BY <1>13, <1>15 DEF HeldFrom
  <2> QED BY <1>1, <1>13
<1>17. /\ Sum(held, DOMAIN held)' = Sum(held, R)
       /\ Sum(held, R) \in Nat
  <2>1. Sum(new, R) = Sum(held, R) /\ Sum(held, R) \in Nat
    <3> HIDE DEF R
    <3> QED BY <1>13, <1>14, SumAgrees
  <2>2. \A h : h = new => Sum(h, DOMAIN h) = Sum(new, R)
    BY <1>13
  <2>3. Sum(held', DOMAIN held') = Sum(new, R)
    BY <1>15, <2>2
  <2> QED BY <2>1, <2>3 DEF Sum
<1>18. total' = Len(pending') + Sum(held, DOMAIN held)' /\ total' <= MaxBuffer
  <2> DEFINE u == Sum(held, R)
             v == Sum(held, D)
             p == Len(pending)
  <2>1. Len(Run(e, m)) = m /\ Len(Run(z, L)) = L
    BY <1>6, <1>11, RunIs
  <2>2. Len(pending') = p + m + L /\ p \in Nat
    <3>1. pending \in Seq(Nat)
      BY DEF ReassemblyInv
    <3>2. Run(e, m) \in Seq(Nat) /\ Run(z, L) \in Seq(Nat)
      BY <1>6, <1>11, RunIs
    <3> DEFINE x == pending \o Run(e, m)
    <3>3. x \in Seq(Nat) /\ Len(x) = p + Len(Run(e, m))
      BY <3>1, <3>2, ConcatProperties
    <3> HIDE DEF x
    <3>4. Len(x \o Run(z, L)) = Len(x) + Len(Run(z, L))
      BY <3>2, <3>3, ConcatProperties
    <3>5. pending' = x \o Run(z, L)
      BY <1>8, <1>11 DEF x
    <3>6. p \in Nat
      BY <3>1, LenProperties
    <3> HIDE DEF p
    <3> QED BY <2>1, <3>3, <3>4, <3>5, <3>6
  <2>3. v = L + u
    BY <1>10 DEF PullTo
  <2>4. total = p + v
    BY DEF ReassemblyInv
  <2>5. total' = total + m
    BY <1>8, <2>1
  <2>6. ~(total + m > MaxBuffer) /\ MaxBuffer \in Nat
    BY <1>4, <1>5, <2>1, BufferAssumption DEF Refused
  <2>7. Sum(held, DOMAIN held)' = u /\ u \in Nat
    BY <1>17
  <2> HIDE DEF u, v, p, e
  <2> QED BY <1>6, <1>11, <2>2, <2>3, <2>4, <2>5, <2>6, <2>7
<1>19. IsFiniteSet(DOMAIN held')
  BY <1>13, <1>14, <1>15
<1>20. pending' \in Seq(Nat)
  <2>1. pending \in Seq(Nat) /\ Run(e, m) \in Seq(Nat) /\ Run(z, L) \in Seq(Nat)
    BY <1>6, <1>11, RunIs DEF ReassemblyInv
  <2>2. pending \o Run(e, m) \in Seq(Nat)
    BY <2>1, ConcatProperties
  <2>3. (pending \o Run(e, m)) \o Run(z, L) \in Seq(Nat)
    BY <2>1, <2>2, ConcatProperties
  <2> QED BY <1>8, <1>11, <2>3
<1>21. capped' \in BOOLEAN /\ drained' \in Seq(Nat)
  BY <1>1, <1>4 DEF ReassemblyInv
<1> QED BY <1>1, <1>2, <1>12, <1>16, <1>18, <1>19, <1>20, <1>21 DEF ReassemblyInv

\* Everything pending is handed out.
LEMMA DrainInv ==
    ASSUME ReassemblyInv, Read
    PROVE  ReassemblyInv'
<1>1. /\ drained' = drained \o pending /\ pending' = <<>> /\ total' = total - Len(pending)
      /\ begun' = begun /\ nextSeq' = nextSeq /\ held' = held /\ capped' = capped
      /\ captured' = captured /\ first' = first /\ pending # <<>>
  BY DEF Read, Drain
<1>2. drained \in Seq(Nat) /\ pending \in Seq(Nat) /\ begun
  BY <1>1 DEF ReassemblyInv
<1>3. Out \in Seq(Nat)
  BY <1>2, ConcatProperties DEF Out
<1>4. Out' = Out
  <2>1. Out \o <<>> = Out
    BY <1>3, ConcatEmptySeq
  <2> QED BY <1>1, <2>1 DEF Out
<1>5. drained' \in Seq(Nat) /\ pending' \in Seq(Nat)
  BY <1>1, <1>3 DEF Out
<1>6. begun' => first' \in captured' /\ \E n : Came(first.off, n, nextSeq, captured)'
  <2>1. PICK n : Came(first.off, n, nextSeq, captured)
    BY <1>2 DEF ReassemblyInv
  <2>2. Came(first.off, n, nextSeq, captured)'
    BY <1>1, <1>4, <2>1 DEF Came
  <2> QED BY <1>1, <1>2, <2>2 DEF ReassemblyInv
<1>7. Sum(held, DOMAIN held)' = Sum(held, DOMAIN held) /\ HeldFrom(captured)'
  BY <1>1 DEF Sum, HeldFrom, ReassemblyInv
<1>8. total' = Len(pending') + Sum(held, DOMAIN held)' /\ total' <= MaxBuffer
  <2> DEFINE a == Sum(held, DOMAIN held)
             m == Len(pending)
  <2>1. total = m + a /\ total <= MaxBuffer /\ m \in Nat
    BY <1>2, LenProperties DEF ReassemblyInv
  <2>2. a \in Nat
    <3>1. Lengths(held, DOMAIN held)
      BY HeldLengths DEF ReassemblyInv
    <3> QED BY <3>1, SumIsNat DEF ReassemblyInv
  <2>3. total' = total - m /\ Len(pending') = 0
    BY <1>1
  <2>4. Sum(held, DOMAIN held)' = a
    BY <1>7
  <2> HIDE DEF a, m
  <2> QED BY <2>1, <2>2, <2>3, <2>4, BufferAssumption
<1> QED BY <1>1, <1>2, <1>5, <1>6, <1>7, <1>8 DEF ReassemblyInv

LEMMA KeepInv ==
    ASSUME ReassemblyInv, UNCHANGED <<bufferVars, captured, first>>
    PROVE  ReassemblyInv'
<1>1. /\ drained' = drained /\ pending' = pending /\ total' = total
      /\ begun' = begun /\ nextSeq' = nextSeq /\ held' = held /\ capped' = capped
      /\ captured' = captured /\ first' = first
  BY DEF bufferVars
<1>2. Out' = Out
  BY <1>1 DEF Out
<1>3. \A n : Came(first.off, n, nextSeq, captured) => Came(first.off, n, nextSeq, captured)'
  BY <1>1, <1>2 DEF Came
<1>4. Sum(held, DOMAIN held)' = Sum(held, DOMAIN held)
  BY <1>1 DEF Sum
<1>5. HeldFrom(captured) => HeldFrom(captured)'
  BY <1>1 DEF HeldFrom
<1>6. begun => \E n : Came(first.off, n, nextSeq, captured)'
  BY <1>3 DEF ReassemblyInv
<1> QED BY <1>1, <1>4, <1>5, <1>6 DEF ReassemblyInv

LEMMA ReassemblyInit == Init => ReassemblyInv
<1> SUFFICES ASSUME Init PROVE ReassemblyInv
  OBVIOUS
<1>1. /\ begun = FALSE /\ nextSeq = 0 /\ pending = <<>> /\ held = [k \in {} |-> <<>>]
      /\ total = 0 /\ capped = FALSE /\ drained = <<>> /\ captured = {}
  BY DEF Init, BufferInit
<1>2. DOMAIN held = {}
  BY <1>1
<1>3. Sum(held, DOMAIN held) = 0
  BY <1>2, SumOfNone
<1>4. 0 \in SeqNums
  BY SeqAssumption DEF SeqNums
<1>5. IsFiniteSet(DOMAIN held)
  BY <1>2, FS_EmptySet
<1>6. total = Len(pending) + Sum(held, DOMAIN held) /\ total <= MaxBuffer
  BY <1>1, <1>3, BufferAssumption
<1>7. <<>> \in Seq(Nat)
  OBVIOUS
<1> QED BY <1>1, <1>2, <1>4, <1>5, <1>6, <1>7 DEF ReassemblyInv, HeldFrom

\* Every segment goes one of four ways.
LEMMA CaptureInv ==
    ASSUME ReassemblyInv, NEW s \in Segments, Capture(s)
    PROVE  ReassemblyInv'
<1> DEFINE seq == SeqAt(s.off)
           data == Payload(s)
<1>0. InsertSegment(seq, data)
  BY CaptureFrame
<1>1. CASE Ignore(seq, data)
  <2>1. UNCHANGED <<pending, held, total>> /\ capped' = capped /\ nextSeq' = Expected(seq)
    BY <1>1 DEF Ignore
  <2>2. capped' \in BOOLEAN
    BY <2>1 DEF ReassemblyInv
  <2> QED BY <2>1, <2>2, IgnoreInv
<1>2. CASE Refuse(seq, data)
  <2>1. /\ UNCHANGED <<pending, held, total>> /\ capped' \in BOOLEAN
        /\ nextSeq' = Expected(seq)
    BY <1>2 DEF Refuse
  <2> QED BY <2>1, IgnoreInv
<1>3. CASE Continue(seq, data)
  BY <1>3, ContinueInv
<1>4. CASE Hold(seq, data)
  BY <1>4, HoldInv
<1> QED BY <1>0, <1>1, <1>2, <1>3, <1>4 DEF InsertSegment

\* The buffer keeps its invariant through every way insert_segment can end.
THEOREM ReassemblySound == Spec => []ReassemblyInv
<1>1. ReassemblyInv /\ [Next]_vars => ReassemblyInv'
  <2> SUFFICES ASSUME ReassemblyInv, [Next]_vars PROVE ReassemblyInv'
    OBVIOUS
  <2>1. ASSUME NEW s \in Segments, Capture(s) PROVE ReassemblyInv'
    BY <2>1, CaptureInv
  <2>2. CASE Read
    BY <2>2, DrainInv
  <2>3. CASE UNCHANGED vars
    BY <2>3, KeepInv DEF vars
  <2> QED BY <2>1, <2>2, <2>3 DEF Next
<1> QED BY <1>1, ReassemblyInit, PTL DEF Spec

\* What is handed out is the sender's stream from its first captured byte on:
\* however its segments are cut, repeated, reordered or lost, and wherever the
\* numbers wrap (insert_segment, try_drain).
THEOREM HandedOutExactly == Spec => []StreamExact
<1>1. ReassemblyInv => StreamExact
  <2> SUFFICES ASSUME ReassemblyInv PROVE StreamExact
    OBVIOUS
  <2>1. CASE begun
    <3>1. PICK n : Came(first.off, n, nextSeq, captured)
      BY <2>1 DEF ReassemblyInv
    <3>2. first.off \in Nat /\ n \in Nat
      BY <2>1, <3>1, SegmentIs DEF ReassemblyInv, Came
    <3>3. Len(Run(first.off, n)) = n
      BY <3>2, RunIs
    <3>4. Out = Run(first.off, Len(Out))
      BY <3>1, <3>3 DEF Came
    <3> QED BY <3>4, Zenon DEF StreamExact, Out, Run
  <2>2. CASE ~begun
    <3>1. drained \o pending = <<>>
      BY <2>2 DEF ReassemblyInv
    <3>2. <<>> = [i \in 1..Len(<<>>) |-> first.off + i - 1]
      OBVIOUS
    <3> QED BY <3>1, <3>2 DEF StreamExact
  <2> QED BY <2>1, <2>2
<1> QED BY <1>1, ReassemblySound, PTL

\* total_buffered is what is stored and not handed out, within the cap: the
\* subtraction of try_drain never goes below zero.
THEOREM BufferSound == Spec => []BufferInv
<1>1. ReassemblyInv => BufferInv
  <2> SUFFICES ASSUME ReassemblyInv PROVE BufferInv
    OBVIOUS
  <2>1. nextSeq \in SeqNums
    <3>1. CASE begun
      <4>1. PICK n : Came(first.off, n, nextSeq, captured)
        BY <3>1 DEF ReassemblyInv
      <4>2. first.off \in Nat /\ n \in Nat
        BY <3>1, <4>1, SegmentIs DEF ReassemblyInv, Came
      <4>3. first.off + n \in Nat
        BY <4>2
      <4> QED BY <4>1, <4>3, NumberOf DEF Came
    <3>2. CASE ~begun
      BY <3>2 DEF ReassemblyInv
    <3> QED BY <3>1, <3>2
  <2>2. DOMAIN held \subseteq SeqNums
    <3> SUFFICES ASSUME NEW k \in DOMAIN held PROVE k \in SeqNums
      OBVIOUS
    <3>1. PICK s \in captured : k = SeqAt(s.off)
      BY DEF ReassemblyInv, HeldFrom
    <3>2. s.off \in Nat
      BY SegmentIs DEF ReassemblyInv
    <3> QED BY <3>1, <3>2, NumberOf
  <2> DEFINE a == Sum(held, DOMAIN held)
             m == Len(pending)
  <2>3. total = m + a /\ total <= MaxBuffer /\ a \in Nat /\ m \in Nat
    <3>1. Lengths(held, DOMAIN held)
      BY HeldLengths DEF ReassemblyInv
    <3> QED BY <3>1, SumIsNat, LenProperties DEF ReassemblyInv
  <2>4. HeldBytes = a
    BY HeldIsSum
  <2> HIDE DEF a, m
  <2>5. total \in Nat /\ total = m + HeldBytes
    BY <2>3, <2>4
  <2>6. capped \in BOOLEAN /\ begun \in BOOLEAN
    BY DEF ReassemblyInv
  <2> QED BY <2>1, <2>2, <2>3, <2>5, <2>6
          DEF BufferInv, ConversationTypeOK, BufferAccounted, m
<1> QED BY <1>1, ReassemblySound, PTL

-----------------------------------------------------------------------------
(***************************************************************************)
(* The tracker.  Its largest number is that of the farthest byte seen, in  *)
(* whichever lap of the space, as long as segments end near each other; an *)
(* entry of the send-time table is filed under its own number, and at most *)
(* MaxUnacked of them are there; what was timed has no larger number than  *)
(* what was acknowledged.                                                  *)
(***************************************************************************)
Farthest(z) == z \in tracked /\ \A t \in tracked : End(t) <= End(z)

TableOK(f) ==
    /\ IsFiniteSet(DOMAIN f) /\ DOMAIN f \subseteq SeqNums
    /\ \A k \in DOMAIN f : f[k] \in Nat /\ k = SeqAt(f[k])

TrackerInv ==
    /\ tracked \subseteq Sendings /\ near \in BOOLEAN
    /\ maxSeq \in SeqNums \cup {NoSeq}
    /\ tracked = {} <=> maxSeq = NoSeq
    /\ near /\ tracked # {} => \E z : Farthest(z) /\ maxSeq = SeqAt(End(z))
    /\ TableOK(unacked) /\ Cardinality(DOMAIN unacked) <= MaxUnacked
    /\ \A x \in samples : x.end \in Nat /\ x.ack \in Nat /\ SeqAt(x.end) <= SeqAt(x.ack)

LEMMA SendingIs ==
    ASSUME NEW s \in Sendings
    PROVE  End(s) \in Nat /\ SeqAt(End(s)) \in SeqNums
<1>1. s.off \in Nat /\ s.len \in Nat
  BY TrackerAssumption
<1>2. End(s) \in Nat
  BY <1>1 DEF End
<1> QED BY <1>2, NumberOf

\* Serial order of two positions less than half of the space apart is the order
\* in the stream.
LEMMA LeqOf ==
    ASSUME NEW a \in Nat, NEW b \in Nat,
           a < b + SeqSpan \div 2, b <= a + SeqSpan \div 2
    PROVE  SeqLeq(SeqAt(a), SeqAt(b)) <=> a <= b
<1> DEFINE h == SeqSpan \div 2
<1>1. SeqSpan \in Nat /\ h \in Nat /\ SeqSpan = 2 * h /\ SeqSpan > 1
  BY SeqAssumption
<1>2. a < b + h /\ b <= a + h
  OBVIOUS
<1> HIDE DEF h
<1>3. Minus(SeqAt(a), SeqAt(b)) = IF a >= b THEN a - b ELSE a - b + SeqSpan
  <2>1. b - a < SeqSpan /\ a - b < SeqSpan
    BY <1>1, <1>2
  <2> QED BY <2>1, MinusOf
<1>4. Minus(SeqAt(a), SeqAt(b)) = 0 \/ Minus(SeqAt(a), SeqAt(b)) >= h <=> a <= b
  BY <1>1, <1>2, <1>3
<1> QED BY <1>4 DEF SeqLeq, h

\* Of any table the largest numbers are kept, as many as there is room for.
LEMMA TrimmedFits ==
    ASSUME NEW f, TableOK(f)
    PROVE  TableOK(Trimmed(f)) /\ Cardinality(DOMAIN Trimmed(f)) <= MaxUnacked
<1> DEFINE D == DOMAIN f
           Above(k) == {j \in D : j > k}
           kept == {k \in D : Cardinality(Above(k)) < MaxUnacked}
<1>1. Trimmed(f) = [k \in kept |-> f[k]]
  BY Zenon DEF Trimmed
<1>2. IsFiniteSet(D) /\ D \subseteq Nat
  BY SeqAssumption DEF TableOK, SeqNums
<1>3. kept \subseteq D /\ IsFiniteSet(kept)
  BY <1>2, FS_Subset
<1>4. DOMAIN Trimmed(f) = kept /\ \A k \in kept : Trimmed(f)[k] = f[k]
  BY <1>1
<1>5. Cardinality(kept) <= MaxUnacked
  <2>1. CASE kept = {}
    <3>1. Cardinality({}) = 0
      BY FS_EmptySet
    <3> HIDE DEF kept
    <3> QED BY <2>1, <3>1, TrackerAssumption
  <2>2. CASE kept # {}
    <3>1. PICK m \in kept : \A k \in kept : m <= k
      <4>1. kept \in SUBSET Nat
        BY <1>2, <1>3
      <4> HIDE DEF kept
      <4> QED BY <2>2, <4>1, LeastOf
    <3>2. kept \ {m} \subseteq Above(m)
      <4> SUFFICES ASSUME NEW k \in kept, k # m PROVE k \in Above(m)
        OBVIOUS
      <4>1. k \in D /\ k \in Nat /\ m \in Nat /\ m <= k
        BY <1>2, <1>3, <3>1
      <4>2. k > m
        BY <4>1
      <4> QED BY <4>1, <4>2
    <3>3. Cardinality(Above(m)) < MaxUnacked
      BY <3>1
    <3> DEFINE A == Above(m)
    <3>4. IsFiniteSet(A)
      BY <1>2, FS_Subset
    <3> HIDE DEF A, kept
    <3>5. Cardinality(kept \ {m}) <= Cardinality(A) /\ Cardinality(A) \in Nat
      BY <3>2, <3>4, FS_Subset, FS_CardinalityType DEF A
    <3>6. /\ Cardinality(kept \ {m}) = Cardinality(kept) - 1
          /\ Cardinality(kept) \in Nat
      BY <1>3, <3>1, FS_RemoveElement, FS_CardinalityType
    <3> QED BY <3>3, <3>5, <3>6, TrackerAssumption DEF A
  <2> QED BY <2>1, <2>2
<1> HIDE DEF kept
<1> QED BY <1>3, <1>4, <1>5 DEF TableOK

\* What a segment does to the tracker.
LEMMA TrackInv ==
    ASSUME TrackerInv, NEW s \in Sendings, Track(s)
    PROVE  TrackerInv' /\ (near' => (marked' <=> \E t \in tracked : End(t) >= End(s)))
<1> DEFINE z == End(s)
           end == SeqAt(z)
           again == maxSeq # NoSeq /\ SeqLeq(end, maxSeq)
<1>1. /\ marked' = again /\ maxSeq' = IF again THEN maxSeq ELSE end
      /\ unacked' = Trimmed(Entered(end, z)) /\ samples' = samples
      /\ tracked' = tracked \cup {s} /\ near' = (near /\ Near(s))
  BY DEF Track
<1>2. z \in Nat /\ end \in SeqNums
  BY SendingIs
<1>3. NoSeq \notin SeqNums
  BY SeqAssumption DEF SeqNums, NoSeq
<1>4. tracked \subseteq Sendings /\ tracked' \subseteq Sendings
  BY <1>1 DEF TrackerInv
<1>5. \A t \in tracked' : End(t) \in Nat
  BY <1>4, SendingIs
<1>6. ASSUME near'
      PROVE  /\ marked' <=> \E t \in tracked : End(t) >= z
             /\ \E y : Farthest(y)' /\ maxSeq' = SeqAt(End(y))
  <2>1. CASE tracked = {}
    <3>1. ~again /\ tracked' = {s}
      BY <1>1, <2>1 DEF TrackerInv
    <3>2. Farthest(s)'
      BY <1>2, <3>1 DEF Farthest
    <3> QED BY <1>1, <2>1, <3>1, <3>2
  <2>2. CASE tracked # {}
    <3>0. near /\ Near(s)
      BY <1>1, <1>6
    <3>1. PICK y : Farthest(y) /\ maxSeq = SeqAt(End(y))
      BY <2>2, <3>0 DEF TrackerInv
    <3>2. y \in tracked /\ y \in Sendings /\ \A t \in tracked : End(t) <= End(y)
      BY <1>4, <3>1 DEF Farthest
    <3>3. again <=> z <= End(y)
      <4>1. z < End(y) + SeqSpan \div 2 /\ End(y) <= z + SeqSpan \div 2
        BY <3>0, <3>2 DEF Near
      <4>2. End(y) \in Nat /\ SeqAt(End(y)) # NoSeq
        BY <1>3, <3>2, SendingIs
      <4>3. SeqLeq(end, SeqAt(End(y))) <=> z <= End(y)
        BY <1>2, <4>1, <4>2, LeqOf
      <4> QED BY <3>1, <4>2, <4>3
    <3>4. CASE z <= End(y)
      <4>1. \A t \in tracked' : End(t) <= End(y)
        BY <1>1, <3>2, <3>4
      <4>2. Farthest(y)'
        BY <1>1, <3>2, <4>1 DEF Farthest
      <4>3. End(y) >= z
        BY <1>2, <3>4
      <4> QED BY <1>1, <3>1, <3>2, <3>3, <3>4, <4>2, <4>3
    <3>5. CASE ~(z <= End(y))
      <4>1. \A t \in tracked : End(t) < z
        BY <1>1, <1>2, <1>5, <3>2, <3>5
      <4>2. \A t \in tracked' : End(t) <= z
        BY <1>1, <1>2, <1>5, <4>1
      <4>3. Farthest(s)'
        BY <1>1, <4>2 DEF Farthest
      <4>4. ~\E t \in tracked : End(t) >= z
        BY <1>1, <1>2, <1>5, <4>1
      <4> QED BY <1>1, <3>3, <3>5, <4>3, <4>4
    <3> QED BY <3>4, <3>5
  <2> QED BY <2>1, <2>2
<1>7. maxSeq' \in SeqNums /\ maxSeq' # NoSeq /\ tracked' # {} /\ near' \in BOOLEAN
  <2>1. again => maxSeq \in SeqNums
    BY DEF TrackerInv
  <2>2. maxSeq' \in SeqNums
    BY <1>1, <1>2, <2>1
  <2>3. near' \in BOOLEAN
    BY <1>1
  <2> QED BY <1>1, <1>3, <2>2, <2>3
<1>8. TableOK(Entered(end, z))
  <2> DEFINE f == Entered(end, z)
             D == DOMAIN unacked
  <2>1. f = [j \in D \cup {end} |-> IF j \in D THEN unacked[j] ELSE z]
    BY DEF Entered
  <2>2. TableOK(unacked)
    BY DEF TrackerInv
  <2>3. IsFiniteSet(D \cup {end}) /\ D \cup {end} \subseteq SeqNums
    BY <1>2, <2>2, FS_AddElement DEF TableOK
  <2>4. DOMAIN f = D \cup {end} /\ \A j \in DOMAIN f : f[j] = IF j \in D THEN unacked[j] ELSE z
    BY <2>1
  <2> HIDE DEF f
  <2>5. \A k \in DOMAIN f : f[k] \in Nat /\ k = SeqAt(f[k])
    BY <1>2, <2>2, <2>4 DEF TableOK
  <2> QED BY <2>3, <2>4, <2>5 DEF TableOK, f
<1>9. TableOK(unacked') /\ Cardinality(DOMAIN unacked') <= MaxUnacked
  BY <1>1, <1>8, TrimmedFits
<1>10. TableOK(unacked)'
  BY <1>9 DEF TableOK
<1>11. TrackerInv'
  BY <1>1, <1>4, <1>6, <1>7, <1>9, <1>10 DEF TrackerInv, NoSeq, SeqNums
<1> QED BY <1>6, <1>11

\* What an acknowledgement does to it.
LEMMA TrackAckInv ==
    ASSUME TrackerInv, NEW a \in Acks, TrackAck(a)
    PROVE  TrackerInv'
<1> DEFINE D == DOMAIN unacked
           acked == {k \in D : k <= SeqAt(a)}
           R == D \ acked
<1>1. /\ samples' = samples \cup {[end |-> unacked[k], ack |-> a] : k \in acked}
      /\ unacked' = [k \in R |-> unacked[k]]
      /\ maxSeq' = maxSeq /\ tracked' = tracked /\ near' = near
  BY DEF TrackAck
<1>2. TableOK(unacked) /\ Cardinality(D) <= MaxUnacked
  BY DEF TrackerInv
<1>3. DOMAIN unacked' = R /\ \A k \in R : unacked'[k] = unacked[k]
  BY <1>1
<1>4. TableOK(unacked)'
  <2>1. IsFiniteSet(R)
    BY <1>2, FS_Subset DEF TableOK
  <2> QED BY <1>2, <1>3, <2>1 DEF TableOK
<1>5. Cardinality(DOMAIN unacked') <= MaxUnacked
  <2>1. /\ Cardinality(R) <= Cardinality(D)
        /\ Cardinality(R) \in Nat /\ Cardinality(D) \in Nat
    <3>1. R \subseteq D /\ IsFiniteSet(D)
      BY <1>2 DEF TableOK
    <3> QED BY <3>1, FS_Subset, FS_CardinalityType
  <2> HIDE DEF R, D
  <2> QED BY <1>2, <1>3, <2>1, TrackerAssumption
<1>6. \A x \in samples' : x.end \in Nat /\ x.ack \in Nat /\ SeqAt(x.end) <= SeqAt(x.ack)
  <2> TAKE x \in samples'
  <2>1. CASE x \in samples
    BY <2>1 DEF TrackerInv
  <2>2. CASE x \notin samples
    <3>1. PICK k \in acked : x = [end |-> unacked[k], ack |-> a]
      BY <1>1, <2>2
    <3>2. unacked[k] \in Nat /\ k = SeqAt(unacked[k]) /\ k <= SeqAt(a)
      BY <1>2, <3>1 DEF TableOK
    <3>3. a \in Nat
      BY TrackerAssumption
    <3> QED BY <3>1, <3>2, <3>3
  <2> QED BY <2>1, <2>2
<1>7. \A y : Farthest(y) => Farthest(y)'
  BY <1>1 DEF Farthest
<1> QED BY <1>1, <1>4, <1>5, <1>6, <1>7 DEF TrackerInv, NoSeq

LEMMA TrackerKeep ==
    ASSUME TrackerInv, UNCHANGED trackVars
    PROVE  TrackerInv'
<1>1. /\ maxSeq' = maxSeq /\ unacked' = unacked /\ samples' = samples
      /\ tracked' = tracked /\ near' = near
  BY DEF trackVars
<1>2. \A y : Farthest(y) => Farthest(y)'
  BY <1>1 DEF Farthest
<1>3. TableOK(unacked)'
  BY <1>1 DEF TrackerInv, TableOK
<1> QED BY <1>1, <1>2, <1>3 DEF TrackerInv, NoSeq, SeqNums

LEMMA TrackerInit == TrackInit => TrackerInv
<1> SUFFICES ASSUME TrackInit PROVE TrackerInv
  OBVIOUS
<1>1. /\ maxSeq = NoSeq /\ unacked = [k \in {} |-> 0] /\ samples = {}
      /\ tracked = {} /\ near = TRUE
  BY DEF TrackInit
<1>2. DOMAIN unacked = {}
  BY <1>1
<1>3. IsFiniteSet({}) /\ Cardinality({}) = 0
  BY FS_EmptySet
<1>4. TableOK(unacked)
  BY <1>2, <1>3 DEF TableOK
<1>5. Cardinality(DOMAIN unacked) <= MaxUnacked
  BY <1>2, <1>3, TrackerAssumption
<1> QED BY <1>1, <1>4, <1>5 DEF TrackerInv

\* The tracker keeps its invariant through update and record_rtt.
THEOREM TrackerSound == TrackSpec => []TrackerInv
<1>1. TrackerInv /\ [TrackNext]_trackVars => TrackerInv'
  <2> SUFFICES ASSUME TrackerInv, [TrackNext]_trackVars PROVE TrackerInv'
    OBVIOUS
  <2>1. ASSUME NEW s \in Sendings, Track(s) PROVE TrackerInv'
    BY <2>1, TrackInv
  <2>2. ASSUME NEW a \in Acks, TrackAck(a) PROVE TrackerInv'
    BY <2>2, TrackAckInv
  <2>3. CASE UNCHANGED trackVars
    BY <2>3, TrackerKeep
  <2> QED BY <2>1, <2>2, <2>3 DEF TrackNext
<1> QED BY <1>1, TrackerInit, PTL DEF TrackSpec

\* While captured segments end within half of the space from the farthest end
\* seen before, in a stream of any number of laps, a segment is marked as a
\* retransmission exactly if the stream was captured to its end or further
\* before; and a round trip is not timed on an acknowledgement of earlier bytes
\* of the same lap (update, record_rtt).  Across laps it may be.
THEOREM TrackingSound == TrackSpec => TrackingExact
<1>1. TrackerInv /\ [TrackNext]_trackVars =>
        [\A s \in Sendings : Track(s) /\ near'
            => (marked' <=> \E t \in tracked : End(t) >= End(s))]_trackVars
  BY TrackInv
<1>2. TrackerInv => TrackTypeOK
  BY DEF TrackerInv, TableOK, TrackTypeOK
<1>3. TrackerInv => TimedWhenAcked
  <2> SUFFICES ASSUME TrackerInv, NEW x \in samples, SameLap(x.end, x.ack)
               PROVE  x.end <= x.ack
    BY DEF TimedWhenAcked
  <2> DEFINE i == Isn + x.end
             j == Isn + x.ack
             p == SeqSpan * (i \div SeqSpan)
             q == SeqSpan * (j \div SeqSpan)
  <2>1. x.end \in Nat /\ x.ack \in Nat /\ SeqAt(x.end) <= SeqAt(x.ack)
    BY DEF TrackerInv
  <2>2. SeqSpan \in Nat \ {0} /\ Isn \in Nat /\ i \in Nat /\ j \in Nat
    BY <2>1, SeqAssumption
  <2>3. p = q
    BY DEF SameLap
  <2>4. i = p + SeqAt(x.end) /\ j = q + SeqAt(x.ack)
    <3>1. \A k \in Nat : k = SeqSpan * (k \div SeqSpan) + (k % SeqSpan)
      BY <2>2
    <3> QED BY <2>2, <3>1 DEF SeqAt
  <2>5. p \in Int /\ SeqAt(x.end) \in Nat /\ SeqAt(x.ack) \in Nat
    <3>1. i \div SeqSpan \in Int
      BY <2>2
    <3>2. SeqSpan * (i \div SeqSpan) \in Int
      BY <2>2, <3>1
    <3> QED BY <2>1, <3>2, NumberOf
  <2> HIDE DEF p, q
  <2>6. i <= j
    BY <2>1, <2>2, <2>3, <2>4, <2>5
  <2> QED BY <2>1, <2>2, <2>6
<1> QED BY <1>1, <1>2, <1>3, TrackerSound, PTL DEF TrackSpec, TrackingExact, MarkExact

-----------------------------------------------------------------------------
(***************************************************************************)
(* A sender that cuts its stream in one way.  As long as the cap is not    *)
(* met, every captured segment is handed out up to its end, or waits       *)
(* behind the next byte, or lies behind a byte that is never sent.         *)
(***************************************************************************)
Place == first.off + Len(Out)

OneWay == \A s, t \in captured : s # t => End(s) <= t.off \/ End(t) <= s.off

Waits(t) == t.off > Place /\ SeqAt(t.off) \in DOMAIN held

Beyond(a, t) == \E i \in a..t.off : Unsent(i)

FlowInv ==
    /\ captured = {} => first = NoSegment
    /\ captured # {} /\ ~capped /\ OneWay =>
         /\ Out # <<>>
         /\ \A t \in captured : End(t) <= Place \/ Waits(t) \/ Beyond(first.off, t)

LEMMA CameAll ==
    ASSUME NEW a \in Nat, NEW n, NEW q, NEW C, Came(a, n, q, C)
    PROVE  n = Len(Out) /\ n \in Nat /\ (Out = <<>> <=> n = 0)
BY RunIs DEF Came

\* What is consumed lies before the next byte, or farther ahead than the gap
\* limit.
LEMMA ConsumedMeans ==
    ASSUME NEW s \in Segments, NEW e, Expects(s, e),
           Consumed(SeqAt(s.off), Payload(s))
    PROVE  End(s) <= e \/ s.off - e > MaxGap
<1> DEFINE seq == SeqAt(s.off)
           h == SeqSpan \div 2
<1>1. /\ s.off \in Nat /\ s.len \in Nat /\ End(s) \in Nat /\ s.off < End(s)
      /\ End(s) = s.off + s.len
      /\ Payload(s) = Run(s.off, s.len) /\ Len(Payload(s)) = s.len /\ Payload(s) # <<>>
  BY SegmentIs
<1>2. e \in Nat /\ Expected(seq) = SeqAt(e)
  BY DEF Expects
<1>3. e - s.off < SeqSpan /\ s.off - e < SeqSpan /\ e - End(s) < SeqSpan /\ End(s) - e < SeqSpan
  BY <1>1, Half DEF Expects
<1>4. SeqSpan \in Nat /\ h \in Nat /\ SeqSpan = 2 * h /\ MaxGap \in Nat /\ MaxGap < h
  BY Half
<1>5. s.len + MaxGap <= h
  BY GapAssumption
<1> HIDE DEF h
<1>6. SeqLt(SeqAt(e), seq) <=> (e < s.off /\ s.off - e <= h) \/ (s.off <= e /\ e - s.off >= h)
  BY <1>1, <1>2, <1>3, LtOf DEF h
<1>7. SeqLt(seq, SeqAt(e)) <=> (s.off < e /\ e - s.off <= h) \/ (e <= s.off /\ s.off - e >= h)
  BY <1>1, <1>2, <1>3, LtOf DEF h
<1>8. SeqLt(SeqAt(e), SeqAt(End(s))) <=>
        (e < End(s) /\ End(s) - e <= h) \/ (End(s) <= e /\ e - End(s) >= h)
  BY <1>1, <1>2, <1>3, LtOf DEF h
<1>9. /\ Minus(seq, SeqAt(e)) = IF s.off >= e THEN s.off - e ELSE s.off - e + SeqSpan
      /\ Minus(SeqAt(e), seq) = IF e >= s.off THEN e - s.off ELSE e - s.off + SeqSpan
  BY <1>1, <1>2, <1>3, MinusOf
<1>10. Plus(seq, Len(Payload(s))) = SeqAt(End(s))
  BY <1>1, PlusOf
<1>11. \/ SeqLt(SeqAt(e), seq) /\ Minus(seq, SeqAt(e)) > MaxGap
       \/ ~SeqLt(SeqAt(e), SeqAt(End(s)))
       \/ Fresh(seq, Payload(s)) = <<>>
  BY <1>2, <1>10 DEF Consumed, Implausible
<1>12. CASE SeqLt(SeqAt(e), seq) /\ Minus(seq, SeqAt(e)) > MaxGap
  BY <1>1, <1>2, <1>4, <1>5, <1>6, <1>9, <1>12
<1>13. CASE ~SeqLt(SeqAt(e), SeqAt(End(s)))
  BY <1>1, <1>2, <1>4, <1>5, <1>8, <1>13
<1>14. CASE Fresh(seq, Payload(s)) = <<>>
  <2>1. SeqLt(seq, SeqAt(e))
    BY <1>1, <1>2, <1>14 DEF Fresh
  <2>2. CASE e <= s.off /\ s.off - e >= h
    BY <1>1, <1>2, <1>4, <2>2
  <2>3. CASE s.off < e
    <3> DEFINE k == e - s.off
    <3>1. SubSeq(Payload(s), k + 1, s.len) = <<>>
      <4>1. Minus(SeqAt(e), seq) = k
        BY <1>1, <1>2, <1>9, <2>3
      <4> HIDE DEF k
      <4>2. Fresh(seq, Payload(s)) = SubSeq(Payload(s), k + 1, s.len)
        BY <1>1, <1>2, <2>1, <4>1 DEF Fresh
      <4> QED BY <1>14, <4>2
    <3>2. k \in Nat
      BY <1>1, <1>2, <2>3
    <3>3. ~(k < s.len)
      <4> SUFFICES ASSUME k < s.len PROVE FALSE
        OBVIOUS
      <4> HIDE DEF k
      <4>1. k \in 0..s.len /\ s.len - k \in Nat /\ s.len - k # 0 /\ s.off + k \in Nat
        BY <1>1, <3>2
      <4>2. SubSeq(Run(s.off, s.len), k + 1, s.len) = Run(s.off + k, s.len - k)
        BY <1>1, <4>1, RunCut
      <4> DEFINE x == s.off + k
                 y == s.len - k
      <4>3. x \in Nat /\ y \in Nat /\ y # 0
        BY <4>1
      <4> HIDE DEF x, y
      <4>4. Run(x, y) # <<>>
        BY <4>3, RunIs
      <4> QED BY <1>1, <3>1, <4>2, <4>4 DEF x, y
    <3> QED BY <1>1, <1>2, <3>3
  <2> QED BY <1>1, <1>2, <1>7, <2>1, <2>2, <2>3
<1> QED BY <1>11, <1>12, <1>13, <1>14

\* What is too far ahead to be a legitimate segment lies beyond a byte that is
\* never sent.
LEMMA FarBeyond ==
    ASSUME NEW s \in Segments, NEW t \in Segments, NEW n \in Nat,
           s.off - (t.off + n) > MaxGap
    PROVE  Beyond(t.off, s)
<1>1. s.off \in Nat /\ t.off \in Nat /\ MaxGap \in Nat
  BY SegmentIs, Half
<1>2. s.off > t.off + MaxGap
  BY <1>1
<1> QED BY <1>2, GapAssumption DEF Beyond

\* What a segment finds: the stream's end, and where the captured ones stand.
LEMMA FlowBefore ==
    ASSUME ReassemblyInv, FlowInv, NEW s \in Segments, Capture(s), ~capped, OneWay'
    PROVE  /\ Expects(s, first'.off + Len(Out)) /\ first' \in Segments
           /\ Came(first'.off, Len(Out), Expected(SeqAt(s.off)), captured)
           /\ captured = {} => Out = <<>> /\ first'.off = s.off
           /\ captured # {} => first' = first /\ Out # <<>>
           /\ \A t \in captured :
                \/ End(t) <= first'.off + Len(Out)
                \/ t.off > first'.off + Len(Out) /\ SeqAt(t.off) \in DOMAIN held
                \/ Beyond(first'.off, t)
<1>1. captured' = captured \cup {s} /\ first' \in Segments /\ (begun => first' = first)
  BY ExpectsAt
<1>2. PICK n : Came(first'.off, n, Expected(SeqAt(s.off)), captured) /\ Expects(s, first'.off + n)
  BY ExpectsAt
<1>3. n = Len(Out)
  <2>1. first'.off \in Nat
    BY <1>1, SegmentIs
  <2> QED BY <1>2, <2>1, CameAll
<1>4. OneWay
  BY <1>1 DEF OneWay
<1>5. CASE captured = {}
  <2>1. Out = <<>>
    BY <1>5 DEF ReassemblyInv, Out
  <2>2. first' = s
    BY <1>5 DEF Capture
  <2> QED BY <1>1, <1>2, <1>3, <1>5, <2>1, <2>2
<1>6. CASE captured # {}
  <2>1. first' = first
    BY <1>1, <1>6 DEF ReassemblyInv
  <2>2. /\ Out # <<>>
        /\ \A t \in captured : End(t) <= Place \/ Waits(t) \/ Beyond(first.off, t)
    BY <1>4, <1>6 DEF FlowInv
  <2> QED BY <1>1, <1>2, <1>3, <1>6, <2>1, <2>2 DEF Place, Waits
<1> QED BY <1>5, <1>6

LEMMA FlowCapture ==
    ASSUME ReassemblyInv, FlowInv, NEW s \in Segments, Capture(s)
    PROVE  FlowInv'
<1> DEFINE seq == SeqAt(s.off)
           data == Payload(s)
           a == first'.off
           e == a + Len(Out)
<1>1. /\ captured' = captured \cup {s} /\ captured' \in SUBSET Segments /\ captured' # {}
      /\ drained' = drained /\ InsertSegment(seq, data)
  BY CaptureFrame, ExpectsAt
<1> SUFFICES ASSUME ~capped', OneWay'
             PROVE  /\ Out' # <<>>
                    /\ \A t \in captured' : End(t) <= Place' \/ Waits(t)' \/ Beyond(a, t)
  BY <1>1 DEF FlowInv
<1>2. ~capped
  BY <1>1 DEF InsertSegment, Ignore, Refuse, Continue, Hold
<1>3. /\ Expects(s, e) /\ first' \in Segments
      /\ Came(a, Len(Out), Expected(seq), captured)
      /\ captured = {} => Out = <<>> /\ a = s.off
      /\ captured # {} => first' = first /\ Out # <<>>
      /\ \A t \in captured :
           \/ End(t) <= e
           \/ t.off > e /\ SeqAt(t.off) \in DOMAIN held
           \/ Beyond(a, t)
  BY <1>2, FlowBefore
<1>4. s.off \in Nat /\ End(s) \in Nat /\ s.off < End(s) /\ a \in Nat
  BY <1>3, SegmentIs
<1>5. Len(Out) \in Nat /\ e \in Nat /\ (Out = <<>> <=> Len(Out) = 0) /\ Expected(seq) = SeqAt(e)
  BY <1>3, <1>4, CameAll DEF Expects
<1>6. captured = {} => e = s.off
  BY <1>3, <1>4, <1>5
<1>7. ASSUME pending' = pending
      PROVE  Out' = Out /\ Place' = e
  BY <1>1, <1>7 DEF Out, Place
<1>8. CASE Ignore(seq, data)
  <2>1. Out' = Out /\ Place' = e /\ held' = held
    BY <1>7, <1>8 DEF Ignore
  <2>2. End(s) <= e \/ s.off - e > MaxGap
    BY <1>3, <1>8, ConsumedMeans DEF Ignore
  <2>3. captured # {}
    BY <1>4, <1>6, <2>2, Half
  <2>4. End(s) <= e \/ Beyond(a, s)
    BY <1>3, <1>5, <2>2, FarBeyond
  <2>5. \A t \in captured' :
           \/ End(t) <= e
           \/ t.off > e /\ SeqAt(t.off) \in DOMAIN held
           \/ Beyond(a, t)
    BY <1>1, <1>3, <2>4
  <2> HIDE DEF e, a
  <2> QED BY <1>3, <2>1, <2>3, <2>5 DEF Waits
<1>9. CASE Refuse(seq, data)
  BY <1>9 DEF Refuse
<1>10. CASE Hold(seq, data)
  <2>1. Out' = Out /\ Place' = e
    BY <1>7, <1>10 DEF Hold
  <2>2. DOMAIN held \subseteq DOMAIN held' /\ seq \in DOMAIN held'
    BY <1>10 DEF Hold
  <2>3. e < s.off
    <3>1. ~Consumed(seq, data) /\ SeqLt(SeqAt(e), seq)
      BY <1>5, <1>10 DEF Hold
    <3> QED BY <1>3, <3>1, FreshBytes
  <2>4. captured # {}
    BY <1>4, <1>6, <2>3
  <2>5. s.off > e
    BY <1>4, <1>5, <2>3
  <2>6. \A t \in captured' :
           \/ End(t) <= e
           \/ t.off > e /\ SeqAt(t.off) \in DOMAIN held'
           \/ Beyond(a, t)
    BY <1>1, <1>3, <2>2, <2>5
  <2> HIDE DEF e, a
  <2> QED BY <1>3, <2>1, <2>4, <2>6 DEF Waits
<1>11. CASE Continue(seq, data)
  <2> DEFINE z == End(s)
             after == Pull(SeqAt(z))
  <2>1. PICK n, L, k :
          /\ Came(a, n, Expected(seq), captured)
          /\ s.off <= a + n /\ a + n < z
          /\ PullTo(after, z, captured', L)
          /\ after.next \notin DOMAIN held \ after.used
          /\ held' = [j \in DOMAIN held \ after.used |-> held[j]]
          /\ Came(first.off, k, nextSeq, captured)' /\ a + k = z + L
    BY <1>11, ContinueTo
  <2> DEFINE x == z + L
  <2>2. a + n = e
    BY <1>3, <1>4, <2>1, CameAll
  <2>3. L \in Nat /\ k \in Nat /\ x \in Nat /\ a + k = x /\ z <= x /\ e < x /\ e < z
    <3>1. L \in Nat /\ k \in Nat
      BY <2>1 DEF PullTo, Came
    <3> QED BY <1>4, <1>5, <2>1, <2>2, <3>1
  <2>4. Out' # <<>> /\ Place' = x
    <3>1. Out' = Run(a, k)
      BY <2>1 DEF Came
    <3>2. k # 0
      BY <1>4, <1>5, <2>3
    <3>3. Run(a, k) # <<>> /\ Len(Run(a, k)) = k
      BY <1>4, <2>3, <3>2, RunIs
    <3> QED BY <2>3, <3>1, <3>3 DEF Place
  <2>5. /\ after.next = SeqAt(x)
        /\ \E y \in captured' : x = End(y)
        /\ \A j \in after.used : \E u \in captured' : j = SeqAt(u.off) /\ End(u) <= x
    BY <2>1 DEF PullTo
  <2>6. DOMAIN held' = DOMAIN held \ after.used
    BY <2>1
  <2> HIDE DEF x, z, after, e
  <2>7. ASSUME NEW t \in captured', t.off > e, SeqAt(t.off) \in DOMAIN held
        PROVE  End(t) <= x \/ (t.off > x /\ SeqAt(t.off) \in DOMAIN held')
    <3>0. t \in Segments /\ t.off \in Nat /\ End(t) \in Nat /\ t.off < End(t)
      BY <1>1, SegmentIs
    <3>1. CASE SeqAt(t.off) \in after.used
      <4>1. PICK u \in captured' : SeqAt(t.off) = SeqAt(u.off) /\ End(u) <= x
        BY <2>5, <3>1
      <4>2. u \in Segments /\ u.off \in Nat /\ End(u) \in Nat /\ u.off < End(u)
        BY <1>1, SegmentIs
      <4>3. t.off = u.off
        <5>1. t.off - u.off < SeqSpan /\ u.off - t.off < SeqSpan
          BY <3>0, <4>2, Nearby
        <5> QED BY <3>0, <4>1, <4>2, <5>1, SamePosition
      <4>4. t = u
        <5> SUFFICES ASSUME t # u PROVE FALSE
          OBVIOUS
        <5>1. End(t) <= u.off \/ End(u) <= t.off
          BY DEF OneWay
        <5> QED BY <3>0, <4>2, <4>3, <5>1
      <4> QED BY <4>1, <4>4
    <3>2. CASE SeqAt(t.off) \notin after.used
      <4>1. SeqAt(t.off) \in DOMAIN held' /\ t.off # x
        <5>1. SeqAt(t.off) \in DOMAIN held \ after.used
          BY <2>7, <3>2
        <5>2. t.off # x
          BY <2>1, <2>5, <5>1
        <5> QED BY <2>6, <5>1, <5>2
      <4>2. PICK y \in captured' : x = End(y)
        BY <2>5
      <4>3. y.off \in Nat /\ y.off < End(y)
        BY <1>1, <4>2, SegmentIs
      <4>4. ASSUME t.off < x PROVE End(t) <= x
        <5>1. CASE t = y
          BY <2>3, <4>2, <5>1
        <5>2. CASE t # y
          <6>1. End(t) <= y.off \/ End(y) <= t.off
            BY <5>2 DEF OneWay
          <6> QED BY <2>3, <3>0, <4>2, <4>3, <4>4, <6>1
        <5> QED BY <5>1, <5>2
      <4> QED BY <2>3, <3>0, <4>1, <4>4
    <3> QED BY <3>1, <3>2
  <2>8. \A t \in captured' :
           \/ End(t) <= x
           \/ t.off > x /\ SeqAt(t.off) \in DOMAIN held'
           \/ Beyond(a, t)
    <3> TAKE t \in captured'
    <3>1. CASE t = s
      BY <2>3, <3>1 DEF z
    <3>2. CASE t \in captured
      <4>1. End(t) \in Nat
        BY <1>1, SegmentIs
      <4>2. CASE End(t) <= e
        BY <1>5, <2>3, <4>1, <4>2
      <4>3. CASE t.off > e /\ SeqAt(t.off) \in DOMAIN held
        BY <2>7, <4>3
      <4>4. \/ End(t) <= e
            \/ t.off > e /\ SeqAt(t.off) \in DOMAIN held
            \/ Beyond(a, t)
        BY <1>3, <3>2 DEF e
      <4> QED BY <4>2, <4>3, <4>4
    <3> QED BY <1>1, <3>1, <3>2
  <2> HIDE DEF a
  <2> QED BY <2>4, <2>8 DEF Waits
<1> QED BY <1>1, <1>8, <1>9, <1>10, <1>11 DEF InsertSegment

LEMMA FlowKeep ==
    ASSUME FlowInv, UNCHANGED <<held, capped, captured, first>>, Out' = Out
    PROVE  FlowInv'
<1>1. Place' = Place
  BY DEF Place
<1>2. \A t : Waits(t)' <=> Waits(t)
  BY <1>1 DEF Waits
<1>3. OneWay' <=> OneWay
  BY DEF OneWay
<1>4. \A t : Beyond(first.off, t)' <=> Beyond(first.off, t)
  BY DEF Beyond
<1> QED BY <1>1, <1>2, <1>3, <1>4 DEF FlowInv, NoSegment

\* No captured segment is left behind by insert_segment.
THEOREM FlowSound == Spec => []FlowInv
<1>1. Init => FlowInv
  BY DEF Init, FlowInv
<1>2. ReassemblyInv /\ FlowInv /\ [Next]_vars => FlowInv'
  <2> SUFFICES ASSUME ReassemblyInv, FlowInv, [Next]_vars PROVE FlowInv'
    OBVIOUS
  <2>1. ASSUME NEW s \in Segments, Capture(s) PROVE FlowInv'
    BY <2>1, FlowCapture
  <2>2. CASE Read
    <3>1. drained' = drained \o pending /\ pending' = <<>>
      BY <2>2 DEF Read, Drain
    <3>2. Out \in Seq(Nat)
      BY ConcatProperties DEF ReassemblyInv, Out
    <3>3. Out \o <<>> = Out
      BY <3>2, ConcatEmptySeq
    <3>4. Out' = Out
      BY <3>1, <3>3 DEF Out
    <3> QED BY <2>2, <3>4, FlowKeep DEF Read, Drain
  <2>3. CASE UNCHANGED vars
    <3>1. Out' = Out
      BY <2>3 DEF vars, bufferVars, Out
    <3> QED BY <2>3, <3>1, FlowKeep DEF vars, bufferVars
  <2> QED BY <2>1, <2>2, <2>3 DEF Next
<1> QED BY <1>1, <1>2, ReassemblySound, PTL DEF Spec

\* A sender that cuts its stream in one way gets it through: once a gap is
\* filled, everything up to the next one is handed out (insert_segment, whose
\* test says: "Fill the gap -> the rest becomes contiguous").
THEOREM CleanFlow == Spec => []CleanStreamFlows
<1>1. ReassemblyInv /\ FlowInv => CleanStreamFlows
  <2> SUFFICES ASSUME ReassemblyInv, FlowInv, ~capped, OneWay
               PROVE  Place = Reach
    BY DEF CleanStreamFlows, OneWay, Place, Out
  <2>1. CASE captured = {}
    <3>1. Out = <<>> /\ first.off = 0
      BY <2>1 DEF ReassemblyInv, FlowInv, NoSegment, Out
    <3>2. Place = 0
      BY <3>1 DEF Place
    <3> QED BY <2>1, <3>2 DEF Reach
  <2>2. CASE captured # {}
    <3>1. /\ captured \subseteq Segments /\ first \in captured
          /\ \E n : Came(first.off, n, nextSeq, captured)
      BY <2>2 DEF ReassemblyInv
    <3>2. PICK n : Came(first.off, n, nextSeq, captured)
      BY <3>1
    <3> DEFINE a == first.off
               p == Place
    <3>3. a \in Nat /\ End(first) \in Nat /\ a < End(first) /\ first \in Segments
      BY <3>1, SegmentIs
    <3>4. n = Len(Out) /\ n \in Nat /\ n # 0
      <4>1. Out # <<>>
        BY <2>2 DEF FlowInv
      <4> QED BY <3>2, <3>3, <4>1, CameAll
    <3>5. p = a + n /\ p \in Nat
      BY <3>3, <3>4 DEF Place
    <3>6. p \in {End(s) : s \in captured}
      BY <3>2, <3>4, <3>5 DEF Came
    <3>7. Filled(a, p, captured)
      BY <3>2, <3>5 DEF Came
    <3>8. \A t \in captured : End(t) <= p \/ t.off > p \/ Beyond(a, t)
      BY <2>2 DEF FlowInv, Waits
    <3> HIDE DEF p
    <3>9. \A i \in Nat : i \in Bytes <=> Covered(i, captured)
      <4> TAKE i \in Nat
      <4>1. \A t \in captured : i \in t.off..(End(t) - 1) <=> t.off <= i /\ i < End(t)
        BY <3>1, SegmentIs
      <4> QED BY <4>1 DEF Bytes, Covered
    <3>10. a..(p - 1) \subseteq Bytes
      <4> SUFFICES ASSUME NEW i \in a..(p - 1) PROVE i \in Bytes
        OBVIOUS
      <4>1. i \in Nat
        BY <3>3, <3>5
      <4> QED BY <3>7, <3>9, <4>1 DEF Filled
    <3>11. \A i \in Nat : Unsent(i) => ~Covered(i, captured)
      <4> SUFFICES ASSUME NEW i \in Nat, Unsent(i), NEW t \in captured, t.off <= i, i < End(t)
                   PROVE  FALSE
        BY DEF Covered
      <4>1. t \in Segments /\ t.off \in Nat /\ End(t) \in Nat
        BY <3>1, SegmentIs
      <4>2. i \in t.off..(End(t) - 1)
        BY <4>1
      <4> QED BY <4>1, <4>2 DEF Unsent
    <3>12. \A t \in captured : Beyond(a, t) => t.off > p
      <4> SUFFICES ASSUME NEW t \in captured, NEW i \in a..t.off, Unsent(i), ~(t.off > p)
                   PROVE  FALSE
        BY DEF Beyond
      <4>1. t.off \in Nat /\ End(t) \in Nat /\ t.off < End(t) /\ i \in Nat
        BY <3>1, <3>3, SegmentIs
      <4>2. CASE i = t.off
        <5>1. Covered(i, captured)
          BY <4>1, <4>2 DEF Covered
        <5> QED BY <3>11, <4>1, <5>1
      <4>3. CASE i # t.off
        <5>1. i \in a..(p - 1)
          BY <3>3, <3>5, <4>1, <4>3
        <5> QED BY <3>7, <3>11, <4>1, <5>1 DEF Filled
      <4> QED BY <4>2, <4>3
    <3>13. End(first) <= p
      BY <3>1, <3>3, <3>4, <3>5, <3>8, <3>12
    <3>14. p \notin Bytes
      <4> SUFFICES ASSUME NEW t \in captured, t.off <= p, p < End(t) PROVE FALSE
        BY <3>5, <3>9 DEF Covered
      <4>1. t.off \in Nat /\ End(t) \in Nat
        BY <3>1, SegmentIs
      <4> QED BY <3>5, <3>8, <3>12, <4>1
    <3> DEFINE R(m) == a..(m - 1) \subseteq Bytes /\ m >= End(first) /\ m \notin Bytes
               E == {End(s) : s \in captured}
    <3>15. p \in E /\ R(p)
      BY <3>3, <3>5, <3>6, <3>10, <3>13, <3>14
    <3>16. \A m \in E : R(m) => m = p
      <4> SUFFICES ASSUME NEW m \in E, R(m), m # p PROVE FALSE
        OBVIOUS
      <4>1. m \in Nat
        BY <3>1, SegmentIs
      <4>2. CASE m < p
        <5>1. m \in a..(p - 1)
          BY <3>3, <3>5, <4>1, <4>2
        <5> QED BY <3>10, <5>1
      <4>3. CASE ~(m < p)
        <5>1. p \in a..(m - 1)
          BY <3>3, <3>5, <3>13, <4>1, <4>3
        <5> QED BY <3>14, <5>1
      <4> QED BY <4>2, <4>3
    <3>17. Reach = CHOOSE m \in E : R(m)
      BY <2>2, Zenon DEF Reach
    <3> HIDE DEF R, E
    <3>18. (CHOOSE m \in E : R(m)) \in E /\ R(CHOOSE m \in E : R(m))
      BY <3>15
    <3>19. Reach = p
      BY <3>16, <3>17, <3>18
    <3> QED BY <3>19 DEF p
  <2> QED BY <2>1, <2>2
<1> QED BY <1>1, ReassemblySound, FlowSound, PTL

-----------------------------------------------------------------------------
(***************************************************************************)
(* A fold from the left over n places: G[i] is what place i makes of the   *)
(* values A.  The folds of the decoders take a step of this kind, and what *)
(* they come to is reached place by place.                                 *)
(***************************************************************************)
LEMMA LargestOf ==
    ASSUME NEW n \in Nat, NEW s \in SUBSET (1..n), s # {}
    PROVE  Max(s) \in s /\ \A x \in s : x <= Max(s)
<1> DEFINE Above == {m \in Nat : \A x \in s : x <= m}
<1>1. n \in Above
  OBVIOUS
<1>2. PICK m \in Above : \A k \in Above : m <= k
  BY <1>1, LeastOf
<1>3. m \in s
  <2> SUFFICES ASSUME m \notin s PROVE FALSE
    OBVIOUS
  <2>1. \A x \in s : x < m /\ x \in Nat /\ x > 0
    BY <1>2
  <2>2. m > 0 /\ m \in Nat
    <3>1. PICK x \in s : TRUE
      OBVIOUS
    <3> QED BY <1>2, <2>1, <3>1
  <2>3. m - 1 \in Nat /\ \A x \in s : x <= m - 1
    BY <2>1, <2>2
  <2> QED BY <1>2, <2>2, <2>3
<1>4. \A x \in s : m >= x
  BY <1>2
<1>5. \E x \in s : \A y \in s : x >= y
  BY <1>3, <1>4
<1>6. Max(s) \in s /\ \A y \in s : Max(s) >= y
  BY <1>5, Zenon DEF Max
<1> QED BY <1>6

FoldStep(G, b, f, s) == IF s = {} THEN b ELSE G[Max(s)][f[s \ {Max(s)}]]

IsFold(f, G, b, n, m) ==
    /\ f = [s \in Subsets(1..n, m) |-> f[s]]
    /\ \A s \in Subsets(1..n, m) : f[s] = FoldStep(G, b, f, s)

LEMMA FoldExists ==
    ASSUME NEW A, NEW b \in A, NEW n \in Nat, NEW G \in [1..n -> [A -> A]], NEW m \in Nat
    PROVE  \E f \in [Subsets(1..n, m) -> A] : IsFold(f, G, b, n, m)
<1> DEFINE T == 1..n
           Bad == {k \in Nat : ~\E f \in [Subsets(T, k) -> A] : IsFold(f, G, b, n, k)}
<1> SUFFICES ASSUME m \in Bad PROVE FALSE
  OBVIOUS
<1>0. IsFiniteSet(T) /\ Cardinality(T) = n
  BY FS_Interval
<1>1. PICK k \in Bad : \A j \in Bad : k <= j
  BY LeastOf
<1>l. \A s \in SUBSET T : s # {} => Max(s) \in s
  BY LargestOf
<1> HIDE DEF T
<1>2. CASE k = 0
  <2> DEFINE f == [s \in Subsets(T, 0) |-> b]
  <2>1. \A s \in Subsets(T, 0) : s = {}
    BY <1>0, SizeOf DEF Subsets
  <2>2. \A s \in Subsets(T, 0) : f[s] = FoldStep(G, b, f, s)
    BY <2>1 DEF FoldStep
  <2>3. f = [s \in Subsets(T, 0) |-> f[s]] /\ f \in [Subsets(T, 0) -> A]
    OBVIOUS
  <2> HIDE DEF f
  <2> QED BY <1>1, <1>2, <2>2, <2>3 DEF IsFold, T
<1>3. CASE k # 0
  <2>1. k \in Nat /\ k - 1 \in Nat /\ k - 1 \notin Bad
    BY <1>1, <1>3
  <2>2. PICK g \in [Subsets(T, k - 1) -> A] : IsFold(g, G, b, n, k - 1)
    BY <2>1
  <2> DEFINE f == [s \in Subsets(T, k) |-> FoldStep(G, b, g, s)]
  <2>3. \A s \in Subsets(T, k - 1) : f[s] = g[s]
    <3>1. \A s \in Subsets(T, k - 1) : s \in Subsets(T, k)
      BY <1>0, <2>1, SizeOf DEF Subsets
    <3> QED BY <2>2, <3>1 DEF IsFold, T
  <2>4. ASSUME NEW s \in Subsets(T, k), s # {}
        PROVE  Max(s) \in T /\ s \ {Max(s)} \in Subsets(T, k - 1)
    <3> DEFINE x == Max(s)
    <3>1. s \in SUBSET T /\ Cardinality(s) <= k
      BY DEF Subsets
    <3>2. x \in s
      BY <1>l, <2>4, <3>1
    <3> HIDE DEF x
    <3>3. Cardinality(s \ {x}) = Cardinality(s) - 1 /\ Cardinality(s) \in Nat
      BY <1>0, <3>1, <3>2, SizeOf
    <3>4. x \in T /\ s \ {x} \in Subsets(T, k - 1)
      BY <2>1, <3>1, <3>2, <3>3 DEF Subsets
    <3> QED BY <3>4 DEF x
  <2>5. \A s \in Subsets(T, k) : f[s] = FoldStep(G, b, f, s)
    <3> TAKE s \in Subsets(T, k)
    <3>1. CASE s = {}
      BY <3>1 DEF FoldStep
    <3>2. CASE s # {}
      <4>1. f[s \ {Max(s)}] = g[s \ {Max(s)}]
        BY <2>3, <2>4, <3>2
      <4> HIDE DEF f
      <4>2. FoldStep(G, b, f, s) = FoldStep(G, b, g, s)
        BY <4>1 DEF FoldStep
      <4> QED BY <4>2 DEF f
    <3> QED BY <3>1, <3>2
  <2>6. f = [s \in Subsets(T, k) |-> f[s]]
    OBVIOUS
  <2>7. \A s \in Subsets(T, k) : FoldStep(G, b, g, s) \in A
    <3> TAKE s \in Subsets(T, k)
    <3>1. CASE s = {}
      BY <3>1 DEF FoldStep
    <3>2. CASE s # {}
      <4>1. Max(s) \in T /\ g[s \ {Max(s)}] \in A
        BY <2>2, <2>4, <3>2
      <4>2. G[Max(s)] \in [A -> A]
        BY <4>1 DEF T
      <4> QED BY <3>2, <4>1, <4>2 DEF FoldStep
    <3> QED BY <3>1, <3>2
  <2>8. f \in [Subsets(T, k) -> A]
    BY <2>7
  <2> HIDE DEF f
  <2> QED BY <1>1, <2>5, <2>6, <2>8 DEF IsFold, T
<1> QED BY <1>2, <1>3

\* A fold over all places, and its values from place to place.
Folds(f, G, b, n) ==
    f = [s \in SUBSET (1..n) |-> FoldStep(G, b, f, s)]

LEMMA FoldThere ==
    ASSUME NEW A, NEW b \in A, NEW n \in Nat, NEW G \in [1..n -> [A -> A]]
    PROVE  \E f \in [SUBSET (1..n) -> A] : Folds(f, G, b, n)
<1> DEFINE T == 1..n
<1>1. IsFiniteSet(T) /\ Cardinality(T) = n
  BY FS_Interval
<1> HIDE DEF T
<1>2. Subsets(T, n) = SUBSET T
  BY <1>1, SizeOf DEF Subsets
<1>3. PICK f \in [Subsets(T, n) -> A] : IsFold(f, G, b, n, n)
  BY FoldExists DEF T
<1>4. f = [s \in SUBSET T |-> f[s]] /\ \A s \in SUBSET T : f[s] = FoldStep(G, b, f, s)
  BY <1>2, <1>3 DEF IsFold, T
<1>5. f = [s \in SUBSET T |-> FoldStep(G, b, f, s)]
  BY <1>4
<1> QED BY <1>2, <1>3, <1>5 DEF Folds, T

\* The largest of the first k places is the last of them.
LEMMA FirstPlaces ==
    ASSUME NEW n \in Nat, NEW k \in 1..n
    PROVE  /\ 1..k \in SUBSET (1..n) /\ 1..k # {} /\ Max(1..k) = k
           /\ (1..k) \ {k} = 1..(k - 1) /\ 1..(k - 1) \in SUBSET (1..n)
<1>1. k \in Nat /\ k \in 1..k /\ 1..k \in SUBSET (1..n)
  OBVIOUS
<1> DEFINE s == 1..k
<1>2. s \in SUBSET (1..k) /\ k \in s
  BY <1>1
<1> HIDE DEF s
<1>3. Max(s) \in s /\ k <= Max(s)
  BY <1>1, <1>2, LargestOf
<1>4. Max(1..k) = k
  BY <1>1, <1>3 DEF s
<1>5. (1..k) \ {k} = 1..(k - 1) /\ 1..(k - 1) \in SUBSET (1..n)
  OBVIOUS
<1>6. 1..k # {}
  BY <1>1
<1> QED BY <1>1, <1>4, <1>5, <1>6

Climbs(f, G, b, n) ==
    /\ f[1..0] = b
    /\ \A k \in 1..n : f[1..k] = G[k][f[1..(k - 1)]]

LEMMA FoldClimbs ==
    ASSUME NEW A, NEW b \in A, NEW n \in Nat, NEW G \in [1..n -> [A -> A]],
           NEW f \in [SUBSET (1..n) -> A], Folds(f, G, b, n)
    PROVE  Climbs(f, G, b, n)
<1>1. \A s \in SUBSET (1..n) : f[s] = FoldStep(G, b, f, s)
  BY DEF Folds
<1>2. 1..0 = {} /\ 1..0 \in SUBSET (1..n)
  OBVIOUS
<1>3. f[1..0] = b
  BY <1>1, <1>2 DEF FoldStep
<1>4. ASSUME NEW k \in 1..n PROVE f[1..k] = G[k][f[1..(k - 1)]]
  <2>1. /\ 1..k \in SUBSET (1..n) /\ 1..k # {} /\ Max(1..k) = k
        /\ (1..k) \ {k} = 1..(k - 1)
    BY FirstPlaces
  <2>2. f[1..k] = FoldStep(G, b, f, 1..k)
    BY <1>1, <2>1
  <2>3. FoldStep(G, b, f, 1..k) = G[Max(1..k)][f[(1..k) \ {Max(1..k)}]]
    BY <2>1 DEF FoldStep
  <2> QED BY <2>1, <2>2, <2>3
<1> QED BY <1>3, <1>4 DEF Climbs

-----------------------------------------------------------------------------
(***************************************************************************)
(* Where the headers of a frame begin.                                     *)
(***************************************************************************)
IsLadder(S, c, m) ==
    /\ S \in [0..m -> Nat] /\ S[0] = 0
    /\ \A k \in 1..m : S[k] = S[k - 1] + c[k].len

LEMMA LadderThere ==
    ASSUME NEW m \in Nat, NEW c, DOMAIN c = 1..m, \A i \in 1..m : c[i].len \in Nat
    PROVE  /\ \E S : IsLadder(S, c, m)
           /\ \A S : IsLadder(S, c, m) =>
                 FoldLeft(LAMBDA n, h : n + h.len, 0, c) = S[m]
<1> DEFINE G == [i \in 1..m |-> [a \in Nat |-> a + c[i].len]]
           P(f) == f = [s \in SUBSET DOMAIN c |->
                          IF s = {} THEN 0 ELSE f[s \ {Max(s)}] + c[Max(s)].len]
           X == FoldLeft(LAMBDA n, h : n + h.len, 0, c)
<1>1. X = (CHOOSE f : P(f))[DOMAIN c]
  BY Zenon DEF X, FoldLeft, MapThenFoldSet
<1> HIDE DEF X
<1>2. G \in [1..m -> [Nat -> Nat]]
  OBVIOUS
<1>3. PICK f0 \in [SUBSET (1..m) -> Nat] : Folds(f0, G, 0, m)
  <2> HIDE DEF G
  <2> QED BY <1>2, FoldThere
<1>s. ASSUME NEW g, NEW s \in SUBSET (1..m), s # {} => g[s \ {Max(s)}] \in Nat
      PROVE  FoldStep(G, 0, g, s) = IF s = {} THEN 0 ELSE g[s \ {Max(s)}] + c[Max(s)].len
  <2>1. s # {} => Max(s) \in 1..m
    BY LargestOf
  <2> QED BY <1>s, <2>1 DEF FoldStep
<1>4. P(f0)
  <2>1. f0 = [s \in SUBSET (1..m) |-> FoldStep(G, 0, f0, s)]
    BY <1>3 DEF Folds
  <2>2. \A s \in SUBSET (1..m) : s \ {Max(s)} \in SUBSET (1..m)
    OBVIOUS
  <2>3. \A s \in SUBSET (1..m) :
           FoldStep(G, 0, f0, s) = IF s = {} THEN 0 ELSE f0[s \ {Max(s)}] + c[Max(s)].len
    <3> HIDE DEF G
    <3> QED BY <1>3, <1>s, <2>2
  <2> HIDE DEF G
  <2> QED BY <2>1, <2>3
<1> DEFINE f == CHOOSE f : P(f)
<1>5. P(f)
  <2> HIDE DEF P
  <2> QED BY <1>4
<1> HIDE DEF f
<1>6. f[1..0] = 0
  <2>1. 1..0 = {} /\ 1..0 \in SUBSET (1..m)
    OBVIOUS
  <2> QED BY <1>5, <2>1
<1>7. ASSUME NEW k \in 1..m PROVE f[1..k] = f[1..(k - 1)] + c[k].len
  <2>1. /\ 1..k \in SUBSET (1..m) /\ 1..k # {} /\ Max(1..k) = k
        /\ (1..k) \ {k} = 1..(k - 1)
    BY FirstPlaces
  <2> QED BY <1>5, <2>1
<1>8. ASSUME NEW S, IsLadder(S, c, m) PROVE X = S[m]
  <2> DEFINE Bad == {k \in 0..m : f[1..k] # S[k]}
  <2>1. SUFFICES ASSUME Bad # {} PROVE FALSE
    <3>1. m \in 0..m
      OBVIOUS
    <3> QED BY <1>1, <2>1, <3>1 DEF f
  <2>2. PICK k \in Bad : \A j \in Bad : k <= j
    <3>1. Bad \in SUBSET Nat
      OBVIOUS
    <3> HIDE DEF Bad
    <3> QED BY <2>1, <3>1, LeastOf
  <2>3. k # 0
    BY <1>6, <1>8, <2>2 DEF IsLadder
  <2>4. k \in 1..m /\ k - 1 \in 0..m /\ k - 1 \notin Bad
    BY <2>2, <2>3
  <2>5. f[1..(k - 1)] = S[k - 1]
    BY <2>4
  <2>6. S[k] = S[k - 1] + c[k].len
    BY <1>8, <2>4 DEF IsLadder
  <2> QED BY <1>7, <2>2, <2>4, <2>5, <2>6
<1>9. \E S : IsLadder(S, c, m)
  <2> DEFINE S == [k \in 0..m |-> f0[1..k]]
  <2>1. f0[1..0] = 0 /\ \A k \in 1..m : f0[1..k] = G[k][f0[1..(k - 1)]]
    <3> HIDE DEF G
    <3>1. Climbs(f0, G, 0, m)
      BY <1>2, <1>3, FoldClimbs
    <3> QED BY <3>1 DEF Climbs
  <2>2. \A k \in 0..m : 1..k \in SUBSET (1..m)
    OBVIOUS
  <2>3. S \in [0..m -> Nat] /\ S[0] = 0
    BY <2>1, <2>2
  <2>4. ASSUME NEW k \in 1..m PROVE S[k] = S[k - 1] + c[k].len
    <3>1. k - 1 \in 0..m /\ k \in 0..m
      OBVIOUS
    <3>2. f0[1..(k - 1)] \in Nat
      BY <2>2, <3>1
    <3> QED BY <2>1, <3>1, <3>2
  <2> HIDE DEF S
  <2> QED BY <2>3, <2>4 DEF IsLadder
<1> QED BY <1>8, <1>9 DEF X

\* Each header begins where the one before it ends.
LEMMA Starts ==
    ASSUME NEW f, NEW n \in Nat, f.headers \in Seq(Range(f.headers)), Len(f.headers) = n,
           \A i \in 1..n : f.headers[i].len \in Nat
    PROVE  /\ \A i \in 1..(n + 1) : StartOf(f, i) \in Nat
           /\ StartOf(f, 1) = 0
           /\ \A i \in 1..n : StartOf(f, i + 1) = StartOf(f, i) + f.headers[i].len
<1> DEFINE c == f.headers
<1>1. DOMAIN c = 1..n
  OBVIOUS
<1>2. PICK S : IsLadder(S, c, n)
  BY <1>1, LadderThere
<1>3. ASSUME NEW i \in 1..(n + 1) PROVE StartOf(f, i) = S[i - 1]
  <2> DEFINE d == SubSeq(c, 1, i - 1)
             T == [k \in 0..(i - 1) |-> S[k]]
  <2>1. i - 1 \in Nat /\ i - 1 <= n
    OBVIOUS
  <2>2. DOMAIN d = 1..(i - 1) /\ \A k \in 1..(i - 1) : d[k] = c[k]
    BY <2>1
  <2>3. \A k \in 1..(i - 1) : d[k].len \in Nat
    BY <2>1, <2>2
  <2>4. IsLadder(T, d, i - 1)
    BY <1>2, <2>1, <2>2 DEF IsLadder
  <2>5. FoldLeft(LAMBDA m, h : m + h.len, 0, d) = T[i - 1]
    <3> HIDE DEF d, T
    <3> QED BY <2>1, <2>2, <2>3, <2>4, LadderThere
  <2>6. StartOf(f, i) = FoldLeft(LAMBDA m, h : m + h.len, 0, d)
    BY Zenon DEF StartOf
  <2>7. T[i - 1] = S[i - 1]
    BY <2>1
  <2> QED BY <2>5, <2>6, <2>7
<1>4. S \in [0..n -> Nat] /\ S[0] = 0 /\ \A k \in 1..n : S[k] = S[k - 1] + c[k].len
  BY <1>2 DEF IsLadder
<1>5. \A i \in 1..n : i \in 1..(n + 1) /\ i + 1 \in 1..(n + 1) /\ (i + 1) - 1 = i
  OBVIOUS
<1>6. 1 \in 1..(n + 1) /\ 1 - 1 = 0 /\ \A i \in 1..(n + 1) : i - 1 \in 0..n
  OBVIOUS
<1> HIDE DEF c
<1> QED BY <1>3, <1>4, <1>5, <1>6 DEF c

-----------------------------------------------------------------------------
(***************************************************************************)
(* Decoding.                                                               *)
(***************************************************************************)
Headers == Junk \cup UNION {Range(f.headers) : f \in Frames}
Layers == [kind : Chain \cup Applications \cup {"payload"}, start : Nat, end : Nat, head : Headers]

\* The order the decoders come in.
Rank ==
    [kind \in Chain \cup Applications \cup {"payload", "application"} |->
        IF kind = "ethernet" THEN 1
        ELSE IF kind \in {"arp", "ipv4", "ipv6"} THEN 2
        ELSE IF kind \in Chain THEN 3
        ELSE IF kind = "payload" THEN 5 ELSE 4]

DecodeType ==
    /\ frame \in Frames \cup {NoFrame} /\ caplen \in Nat
    /\ next \in Chain \cup {"application", "none"}
    /\ offset \in Nat /\ touched \in Nat
    /\ layers \in Seq(Layers)
    /\ frame = NoFrame => layers = <<>> /\ next = "none" /\ offset = 0 /\ touched = 0
    /\ frame # NoFrame => caplen <= Extent(frame)

\* Each layer is of a higher rank than those before it, and so is the next.
Rising ==
    /\ \A i, j \in DOMAIN layers : i < j => Rank[layers[i].kind] < Rank[layers[j].kind]
    /\ next # "none" => \A i \in DOMAIN layers : Rank[layers[i].kind] < Rank[next]
    /\ next = "application" => layers # <<>> /\ layers[Len(layers)].kind \in {"tcp", "udp"}

\* The next decoder starts where the last header ends.
Continues ==
    next # "none" =>
        offset = IF layers = <<>> THEN 0 ELSE layers[Len(layers)].end

\* The first k headers of the frame were found, and there is a reason to stop.
Follows(k) ==
    LET f == frame
        n == Len(f.headers)
    IN  /\ OfKind(Chain) = 1..k
        /\ offset = StartOf(f, k + 1)
        /\ \A i \in 1..k :
              /\ layers[i].head = f.headers[i]
              /\ layers[i].start = StartOf(f, i) /\ layers[i].end = StartOf(f, i + 1)
        /\ next \in Chain => k < n /\ next = f.headers[k + 1].kind /\ k = Len(layers)
        /\ next = "application" => k = n /\ k = Len(layers)
        /\ next = "none" => k = n \/ StartOf(f, k + 2) > caplen
        /\ OfKind({"payload"}) # {} => k = n

Found ==
    frame # NoFrame /\ ~frame.fragment /\ frame.link # "other" =>
        \E k \in 0..Len(frame.headers) : Follows(k)

DecodeInv == DecodeType /\ Rising /\ RangesTile /\ Continues /\ ApplicationPlaced /\ Found

-----------------------------------------------------------------------------
\* What is known of the frames and of the bytes that are none.
LEMMA HeaderTypes ==
    ASSUME NEW f \in Frames
    PROVE  /\ Len(f.headers) \in Nat /\ DOMAIN f.headers = 1..Len(f.headers)
           /\ f.headers \in Seq(Range(f.headers))
           /\ f.body \in Nat /\ f.padding \in Nat
           /\ \A i \in 1..Len(f.headers) :
                 f.headers[i].len \in Nat /\ f.headers[i] \in Headers
<1>1. f.headers \in Seq(UNION {Range(g.headers) : g \in Frames})
  BY DecodeAssumption
<1>2. Len(f.headers) \in Nat /\ DOMAIN f.headers = 1..Len(f.headers)
  BY <1>1
<1>3. f.headers \in Seq(Range(f.headers))
  <2> DEFINE c == f.headers
             S == UNION {Range(g.headers) : g \in Frames}
  <2>1. c \in Seq(S)
    BY <1>1
  <2> HIDE DEF c, S
  <2>2. c \in Seq(Range(c))
    BY <2>1 DEF Range
  <2> QED BY <2>2 DEF c
<1>4. f.body \in Nat /\ f.padding \in Nat
      /\ \A i \in 1..Len(f.headers) : f.headers[i].len \in Nat
  BY <1>2, DecodeAssumption DEF IsHeader
<1>5. \A i \in 1..Len(f.headers) : f.headers[i] \in Headers
  <2> TAKE i \in 1..Len(f.headers)
  <2>1. f.headers[i] \in Range(f.headers)
    BY <1>2 DEF Range
  <2> QED BY <2>1 DEF Headers
<1> QED BY <1>2, <1>3, <1>4, <1>5

LEMMA HeadersAreHeaders ==
    ASSUME NEW h \in Headers
    PROVE  h.len \in Nat
<1>1. CASE h \in Junk
  BY <1>1, DecodeAssumption DEF IsHeader
<1>2. CASE h \notin Junk
  <2>1. PICK f \in Frames : h \in Range(f.headers)
    BY <1>2 DEF Headers
  <2>2. PICK i \in DOMAIN f.headers : h = f.headers[i]
    BY <2>1 DEF Range
  <2> QED BY <2>2, DecodeAssumption DEF IsHeader
<1> QED BY <1>1, <1>2

\* The headers of a frame follow one another: none is empty.
LEMMA StartsOf ==
    ASSUME NEW f \in Frames
    PROVE  /\ \A i \in 1..(Len(f.headers) + 1) : StartOf(f, i) \in Nat
           /\ StartOf(f, 1) = 0
           /\ \A i \in 1..Len(f.headers) :
                 /\ StartOf(f, i + 1) = StartOf(f, i) + f.headers[i].len
                 /\ StartOf(f, i) < StartOf(f, i + 1)
           /\ Extent(f) \in Nat /\ Extent(f) = StartOf(f, Len(f.headers) + 1) + f.body + f.padding
<1> DEFINE n == Len(f.headers)
<1>1. /\ n \in Nat /\ f.headers \in Seq(Range(f.headers))
      /\ f.body \in Nat /\ f.padding \in Nat
      /\ \A i \in 1..n : f.headers[i].len \in Nat
  BY HeaderTypes
<1>2. /\ \A i \in 1..(n + 1) : StartOf(f, i) \in Nat
      /\ StartOf(f, 1) = 0
      /\ \A i \in 1..n : StartOf(f, i + 1) = StartOf(f, i) + f.headers[i].len
  BY <1>1, Starts
<1>3. \A i \in 1..n : f.headers[i].len > 0
  <2>1. \A i \in 1..n : IsSent(f.headers[i])
    BY HeaderTypes, SentAssumption DEF AreSent
  <2>2. \A k \in Chain : Fixed[k] \in Nat /\ Fixed[k] > 0
    BY DEF Fixed, Chain
  <2>3. \A i \in 1..n : f.headers[i].kind \in Chain /\ Fixed[f.headers[i].kind] <= f.headers[i].len
    BY <2>1 DEF IsSent
  <2> TAKE i \in 1..n
  <2> DEFINE k == f.headers[i].kind
             l == f.headers[i].len
  <2>4. l \in Nat /\ k \in Chain /\ Fixed[k] <= l
    BY <1>1, <2>3
  <2>5. Fixed[k] \in Nat /\ Fixed[k] > 0
    BY <2>2, <2>4, Zenon
  <2> HIDE DEF k, l
  <2> DEFINE m == Fixed[k]
  <2>6. m \in Nat /\ m > 0 /\ l \in Nat /\ m <= l
    BY <2>4, <2>5
  <2> HIDE DEF m
  <2>7. l > 0
    BY <2>6
  <2> QED BY <2>7 DEF l
<1>4. n + 1 \in 1..(n + 1) /\ \A i \in 1..n : i \in 1..(n + 1) /\ i + 1 \in 1..(n + 1)
  BY <1>1
<1>5. Extent(f) = StartOf(f, n + 1) + f.body + f.padding
  BY DEF Extent, BodyOf
<1>6. Extent(f) \in Nat
  <2>1. StartOf(f, n + 1) \in Nat
    BY <1>2, <1>4
  <2> QED BY <1>1, <1>5, <2>1
<1>7. ASSUME NEW i \in 1..n PROVE StartOf(f, i) < StartOf(f, i + 1)
  <2>1. StartOf(f, i) \in Nat /\ StartOf(f, i + 1) = StartOf(f, i) + f.headers[i].len
    BY <1>2, <1>4
  <2>2. f.headers[i].len \in Nat /\ f.headers[i].len > 0
    BY <1>1, <1>3
  <2> QED BY <2>1, <2>2
<1> QED BY <1>2, <1>5, <1>6, <1>7

\* So they begin at growing positions.
LEMMA StartsGrow ==
    ASSUME NEW f \in Frames, NEW i \in 1..(Len(f.headers) + 1), NEW j \in 1..(Len(f.headers) + 1), i < j
    PROVE  StartOf(f, i) < StartOf(f, j)
<1> DEFINE n == Len(f.headers)
           Bad == {k \in (i + 1)..(n + 1) : ~(StartOf(f, i) < StartOf(f, k))}
<1>0. n \in Nat
  BY HeaderTypes
<1>1. SUFFICES ASSUME Bad # {} PROVE FALSE
  BY <1>0
<1>2. PICK k \in Bad : \A m \in Bad : k <= m
  <2>1. Bad \in SUBSET Nat
    BY <1>0
  <2> HIDE DEF Bad
  <2> QED BY <1>1, <2>1, LeastOf
<1>3. /\ \A m \in 1..(n + 1) : StartOf(f, m) \in Nat
      /\ \A m \in 1..n : StartOf(f, m) < StartOf(f, m + 1)
  BY StartsOf
<1>4. CASE k = i + 1
  BY <1>0, <1>2, <1>3, <1>4
<1>5. CASE k # i + 1
  <2>1. k - 1 \in (i + 1)..(n + 1) /\ k - 1 \notin Bad /\ k - 1 \in 1..n /\ (k - 1) + 1 = k
    BY <1>0, <1>2, <1>5
  <2>2. StartOf(f, i) < StartOf(f, k - 1) /\ StartOf(f, k - 1) < StartOf(f, k)
    BY <1>3, <2>1
  <2>3. k \in 1..(n + 1) /\ k - 1 \in 1..(n + 1)
    BY <1>0, <1>2, <2>1
  <2> QED BY <1>2, <1>3, <2>2, <2>3
<1> QED BY <1>4, <1>5

\* What a decoder makes of a header: nothing, or a layer within the capture and
\* the name of the next decoder.
IsResult(r, kind, h, o) ==
    \/ r = Fail
    \/ \E n \in Nat, following \in Chain \cup {"application", "none"} :
          /\ r = Result(kind, o, n, h, following)
          /\ Fixed[kind] <= n /\ o + n <= caplen
          /\ following \in Chain => kind \in DOMAIN Carries /\ following \in Carries[kind]
          /\ following = "application" => kind \in {"tcp", "udp"}

\* What stands behind a header that was sent.
Behind(h, o) ==
    IF h.kind \in DOMAIN Carries THEN Following(h.kind, h.type)
    ELSE IF h.kind \in {"tcp", "udp"} /\ o + h.len < caplen THEN "application" ELSE "none"

LEMMA Decoders ==
    ASSUME NEW kind \in Chain, NEW h, h.len \in Nat, NEW o \in Nat, caplen \in Nat
    PROVE  /\ IsResult(Decoded(kind, h, o), kind, h, o)
           /\ IsSent(h) /\ h.kind = kind =>
                 Decoded(kind, h, o) =
                    IF o + h.len <= caplen THEN Result(kind, o, h.len, h, Behind(h, o)) ELSE Fail
<1>0. DOMAIN Carries = {"ethernet", "ipv4", "ipv6"}
  BY DEF Carries
<1>1. \A k \in DOMAIN Carries :
         \/ Following(k, h.type) = "none"
         \/ Following(k, h.type) \in Carries[k] /\ Following(k, h.type) \in Chain
  BY DEF Following, Carries, Chain
<1> DEFINE Granted(n, following) ==
              /\ n \in Nat /\ following \in Chain \cup {"application", "none"}
              /\ Fixed[kind] <= n /\ o + n <= caplen
              /\ following \in Chain => kind \in DOMAIN Carries /\ following \in Carries[kind]
              /\ following = "application" => kind \in {"tcp", "udp"}
<1>2. ASSUME NEW n, NEW following, Granted(n, following)
      PROVE  IsResult(Result(kind, o, n, h, following), kind, h, o)
  BY <1>2 DEF IsResult
<1>3. IsResult(Fail, kind, h, o)
  BY DEF IsResult
<1>4. Fixed[kind] \in Nat
  BY DEF Fixed, Chain
<1>5. CASE kind = "ethernet"
  <2>1. Decoded(kind, h, o) = decode_ethernet(h, o)
    BY <1>5 DEF Decoded
  <2>2. CASE o + 14 <= caplen
    <3>1. Decoded(kind, h, o) = Result(kind, o, 14, h, Following(kind, h.type))
      BY <1>5, <2>1, <2>2 DEF decode_ethernet, Remaining
    <3>2. Granted(14, Following(kind, h.type))
      BY <1>0, <1>1, <1>5, <2>2 DEF Fixed, Chain
    <3> QED BY <1>0, <1>2, <1>5, <2>2, <3>1, <3>2 DEF IsSent, Fixed, Behind
  <2>3. CASE ~(o + 14 <= caplen)
    <3>1. Decoded(kind, h, o) = Fail
      BY <2>1, <2>3 DEF decode_ethernet, Remaining
    <3> QED BY <1>3, <1>5, <2>3, <3>1 DEF IsSent, Fixed
  <2> QED BY <2>2, <2>3
<1>6. CASE kind = "arp"
  <2>1. Decoded(kind, h, o) = decode_arp(h, o)
    BY <1>6 DEF Decoded
  <2>2. CASE o + 28 <= caplen
    <3>1. Decoded(kind, h, o) = Result(kind, o, 28, h, "none")
      BY <1>6, <2>1, <2>2 DEF decode_arp, Remaining
    <3>2. Granted(28, "none")
      BY <1>6, <2>2 DEF Fixed, Chain
    <3> QED BY <1>0, <1>2, <1>6, <2>2, <3>1, <3>2 DEF IsSent, Fixed, Behind
  <2>3. CASE ~(o + 28 <= caplen)
    <3>1. Decoded(kind, h, o) = Fail
      BY <2>1, <2>3 DEF decode_arp, Remaining
    <3> QED BY <1>3, <1>6, <2>3, <3>1 DEF IsSent, Fixed
  <2> QED BY <2>2, <2>3
<1>7. CASE kind = "ipv4"
  <2>1. Decoded(kind, h, o) = decode_ipv4(h, o)
    BY <1>7 DEF Decoded
  <2>2. CASE h.version = 4 /\ 20 <= h.len /\ o + h.len <= caplen
    <3>1. Decoded(kind, h, o) = Result(kind, o, h.len, h, Following(kind, h.type))
      BY <1>7, <2>1, <2>2 DEF decode_ipv4, Remaining
    <3>2. Granted(h.len, Following(kind, h.type))
      BY <1>0, <1>1, <1>7, <2>2 DEF Fixed, Chain
    <3> QED BY <1>0, <1>2, <1>7, <2>2, <3>1, <3>2 DEF Behind
  <2>3. CASE ~(h.version = 4 /\ 20 <= h.len /\ o + h.len <= caplen)
    <3>1. Decoded(kind, h, o) = Fail
      BY <2>1, <2>3 DEF decode_ipv4, Remaining
    <3> QED BY <1>3, <1>7, <2>3, <3>1 DEF IsSent, Fixed
  <2> QED BY <2>2, <2>3
<1>8. CASE kind = "ipv6"
  <2>1. Decoded(kind, h, o) = decode_ipv6(h, o)
    BY <1>8 DEF Decoded
  <2>2. CASE h.version = 6 /\ o + 40 <= caplen
    <3>1. Decoded(kind, h, o) = Result(kind, o, 40, h, Following(kind, h.type))
      BY <1>8, <2>1, <2>2 DEF decode_ipv6, Remaining
    <3>2. Granted(40, Following(kind, h.type))
      BY <1>0, <1>1, <1>8, <2>2 DEF Fixed, Chain
    <3> QED BY <1>0, <1>2, <1>8, <2>2, <3>1, <3>2 DEF IsSent, Fixed, Behind
  <2>3. CASE ~(h.version = 6 /\ o + 40 <= caplen)
    <3>1. Decoded(kind, h, o) = Fail
      BY <2>1, <2>3 DEF decode_ipv6, Remaining
    <3> QED BY <1>3, <1>8, <2>3, <3>1 DEF IsSent, Fixed
  <2> QED BY <2>2, <2>3
<1>9. CASE kind = "tcp"
  <2> DEFINE rest == IF o + h.len < caplen THEN "application" ELSE "none"
  <2>1. Decoded(kind, h, o) = decode_tcp(h, o)
    BY <1>9 DEF Decoded
  <2>2. CASE 20 <= h.len /\ o + h.len <= caplen
    <3>1. Decoded(kind, h, o) = Result(kind, o, h.len, h, rest)
      BY <1>9, <2>1, <2>2 DEF decode_tcp, Remaining
    <3>2. Granted(h.len, rest)
      BY <1>9, <2>2 DEF Fixed, Chain
    <3> QED BY <1>0, <1>2, <1>9, <2>2, <3>1, <3>2 DEF Behind
  <2>3. CASE ~(20 <= h.len /\ o + h.len <= caplen)
    <3>1. Decoded(kind, h, o) = Fail
      BY <2>1, <2>3 DEF decode_tcp, Remaining
    <3> QED BY <1>3, <1>9, <2>3, <3>1 DEF IsSent, Fixed
  <2> QED BY <2>2, <2>3
<1>10. CASE kind = "udp"
  <2> DEFINE rest == IF o + 8 < caplen THEN "application" ELSE "none"
  <2>1. Decoded(kind, h, o) = decode_udp(h, o)
    BY <1>10 DEF Decoded
  <2>2. CASE o + 8 <= caplen
    <3>1. Decoded(kind, h, o) = Result(kind, o, 8, h, rest)
      BY <1>10, <2>1, <2>2 DEF decode_udp, Remaining
    <3>2. Granted(8, rest)
      BY <1>10, <2>2 DEF Fixed, Chain
    <3> QED BY <1>0, <1>2, <1>10, <2>2, <3>1, <3>2 DEF IsSent, Fixed, Behind
  <2>3. CASE ~(o + 8 <= caplen)
    <3>1. Decoded(kind, h, o) = Fail
      BY <2>1, <2>3 DEF decode_udp, Remaining
    <3> QED BY <1>3, <1>10, <2>3, <3>1 DEF IsSent, Fixed
  <2> QED BY <2>2, <2>3
<1>11. CASE kind \in {"icmp", "icmpv6"}
  <2>1. Decoded(kind, h, o) = IF o + 8 <= caplen THEN Result(kind, o, 8, h, "none") ELSE Fail
    BY <1>11 DEF Decoded, decode_icmp, decode_icmpv6, Remaining
  <2>2. CASE o + 8 <= caplen
    <3>1. Decoded(kind, h, o) = Result(kind, o, 8, h, "none")
      BY <2>1, <2>2
    <3>2. Granted(8, "none")
      BY <1>11, <2>2 DEF Fixed, Chain
    <3> QED BY <1>0, <1>2, <1>11, <2>2, <3>1, <3>2 DEF IsSent, Fixed, Behind
  <2>3. CASE ~(o + 8 <= caplen)
    <3>1. Decoded(kind, h, o) = Fail
      BY <2>1, <2>3
    <3> QED BY <1>3, <1>11, <2>3, <3>1 DEF IsSent, Fixed
  <2> QED BY <2>2, <2>3
<1> QED BY <1>5, <1>6, <1>7, <1>8, <1>9, <1>10, <1>11 DEF Chain

\* What stands behind a header that was sent is the next header, if there is one.
LEMMA BehindSent ==
    ASSUME NEW f \in Frames, ~f.fragment, NEW k \in Nat, k < Len(f.headers), NEW o
    PROVE  LET h == f.headers[k + 1]
           IN  /\ IsSent(h) /\ h \in Headers /\ h.len \in Nat
               /\ Behind(h, o) \in Chain =>
                     k + 1 < Len(f.headers) /\ Behind(h, o) = f.headers[k + 2].kind
               /\ Behind(h, o) \in {"application", "none"} => k + 1 = Len(f.headers)
<1> DEFINE n == Len(f.headers)
           i == k + 1
           h == f.headers[i]
<1>1. n \in Nat /\ i \in 1..n /\ i + 1 = k + 2 /\ (i # n => i < n)
  BY HeaderTypes
<1>2. /\ IsSent(h)
      /\ IF i = n
         THEN h.kind \in DOMAIN Carries /\ ~f.fragment => h.type \notin Carries[h.kind]
         ELSE /\ h.kind \in DOMAIN Carries /\ h.type \in Carries[h.kind]
              /\ f.headers[i + 1].kind = h.type
  BY <1>1, HeaderTypes, SentAssumption DEF AreSent
<1>3. h \in Headers /\ h.len \in Nat
  BY <1>1, HeaderTypes
<1>4. \A x \in DOMAIN Carries : \A y \in Carries[x] : y \in Chain
  BY DEF Carries, Chain
<1>5. "none" \notin Chain /\ "application" \notin Chain
  BY DEF Chain
<1> HIDE DEF n, i, h
<1>6. CASE i = n
  <2>1. Behind(h, o) \in {"application", "none"}
    BY <1>2, <1>6 DEF Behind, Following
  <2>2. Behind(h, o) \notin Chain
    BY <1>5, <2>1
  <2> QED BY <1>1, <1>2, <1>3, <1>6, <2>1, <2>2 DEF n, i, h
<1>7. CASE i # n
  <2>1. Behind(h, o) = h.type /\ h.type \in Chain
    BY <1>2, <1>4, <1>7 DEF Behind, Following
  <2>2. Behind(h, o) \notin {"application", "none"}
    BY <1>5, <2>1
  <2> QED BY <1>1, <1>2, <1>3, <1>7, <2>1, <2>2 DEF n, i, h
<1> QED BY <1>6, <1>7

LEMMA Ranks ==
    /\ \A x \in Chain : Rank[x] \in 1..3
    /\ \A x \in Applications \cup {"application"} : Rank[x] = 4
    /\ Rank["payload"] = 5
    /\ \A x \in {"tcp", "udp", "icmp", "icmpv6"} : Rank[x] = 3
    /\ \A x \in {"arp", "ipv4", "ipv6"} : Rank[x] = 2
    /\ Rank["ethernet"] = 1
    /\ \A x \in DOMAIN Carries : \A y \in Carries[x] : Rank[x] < Rank[y]
BY DEF Rank, Chain, Applications, Carries

\* As long as there is a next decoder, only headers were found.
LEMMA OnlyHeaders ==
    ASSUME DecodeType, Rising, next # "none"
    PROVE  /\ \A i \in DOMAIN layers : layers[i].kind \in Chain
           /\ OfKind(Chain) = DOMAIN layers
           /\ OfKind({"payload"}) = {}
<1>1. \A i \in DOMAIN layers : layers[i].kind \in Chain \cup Applications \cup {"payload"}
  <2>1. \A i \in DOMAIN layers : layers[i] \in Layers
    BY DEF DecodeType
  <2> QED BY <2>1 DEF Layers
<1>2. Rank[next] <= 4 /\ Rank[next] \in Nat
  BY Ranks DEF DecodeType
<1>3. \A i \in DOMAIN layers : Rank[layers[i].kind] < Rank[next]
  BY DEF Rising
<1>4. \A i \in DOMAIN layers : layers[i].kind \in Chain
  BY <1>1, <1>2, <1>3, Ranks
<1>5. "payload" \notin Chain
  BY DEF Chain
<1> QED BY <1>4, <1>5 DEF OfKind

LEMMA DecodeInitInv == DecodeInit => DecodeInv
<1> SUFFICES ASSUME DecodeInit PROVE DecodeInv
  OBVIOUS
<1> USE DEF DecodeInit
<1>1. DecodeType
  BY DEF DecodeType
<1>2. Rising /\ RangesTile /\ Continues /\ ApplicationPlaced /\ Found
  BY DEF Rising, RangesTile, Continues, ApplicationPlaced, Found
<1> QED BY <1>1, <1>2 DEF DecodeInv

LEMMA ArriveInv ==
    ASSUME DecodeInv, NEW f \in Frames, NEW n \in 0..Extent(f), Arrive(f, n)
    PROVE  DecodeInv'
<1>1. /\ frame' = f /\ caplen' = n /\ next' = Initial(f, n)
      /\ layers' = <<>> /\ offset' = 0 /\ touched' = touched
  BY DEF Arrive, DecodeInv, DecodeType
<1>2. Extent(f) \in Nat /\ n \in Nat /\ n <= Extent(f)
  BY StartsOf
<1>3. f # NoFrame /\ f.link \in {"ethernet", "raw", "other"} /\ AreSent(f)
  BY SentAssumption DEF NoFrame
<1>4. Initial(f, n) \in {"ethernet", "ipv4", "ipv6", "none"}
  BY <1>3 DEF Initial
<1>t. touched = 0
  BY DEF DecodeInv, DecodeType, Arrive
<1>5. DecodeType'
  <2>1. Extent(f)' = Extent(f)
    OBVIOUS
  <2> QED BY <1>1, <1>2, <1>3, <1>4, <1>t DEF DecodeType, Chain
<1>6. Rising' /\ Continues' /\ ApplicationPlaced'
  BY <1>1, <1>4 DEF Rising, Continues, ApplicationPlaced
<1>7. RangesTile'
  BY <1>1, <1>2, <1>t DEF RangesTile
<1>8. Found'
  <2> SUFFICES ASSUME ~f.fragment, f.link # "other"
               PROVE  \E k \in 0..Len(f.headers) : Follows(k)'
    BY <1>1 DEF Found
  <2> DEFINE m == Len(f.headers)
             h == f.headers[1]
  <2>1. m \in Nat /\ m > 0 /\ h.kind \in {"ethernet", "ipv4", "ipv6"} /\ IsSent(h)
        /\ (f.link = "ethernet" => h.kind = "ethernet")
        /\ (f.link = "raw" => h.kind \in {"ipv4", "ipv6"})
    <3>1. f.headers # <<>> /\ m \in Nat /\ DOMAIN f.headers = 1..m
      BY <1>3, HeaderTypes DEF AreSent
    <3>2. m > 0 /\ 1 \in 1..m
      BY <3>1, HeaderTypes
    <3> QED BY <1>3, <3>1, <3>2 DEF AreSent
  <2>2. /\ StartOf(f, 1) = 0 /\ StartOf(f, 2) = h.len
        /\ h.len \in Nat /\ h.len > 0
    <3>1. 1 \in 1..m /\ 1 + 1 = 2
      BY <2>1
    <3>2. StartOf(f, 1) = 0 /\ StartOf(f, 1 + 1) = StartOf(f, 1) + f.headers[1].len
          /\ StartOf(f, 1) < StartOf(f, 1 + 1) /\ f.headers[1].len \in Nat
      BY <3>1, StartsOf, HeaderTypes
    <3> QED BY <3>1, <3>2
  <2>3. \/ Initial(f, n) = h.kind
        \/ Initial(f, n) = "none" /\ n = 0
    <3>1. CASE f.link = "ethernet"
      BY <2>1, <3>1 DEF Initial
    <3>2. CASE f.link = "raw"
      <4>1. (h.kind = "ipv4" => h.version = 4) /\ (h.kind = "ipv6" => h.version = 6)
        BY <2>1 DEF IsSent
      <4> QED BY <1>2, <2>1, <3>2, <4>1 DEF Initial
    <3> QED BY <1>3, <3>1, <3>2
  <2>4. OfKind(Chain)' = {} /\ OfKind({"payload"})' = {} /\ layers' = <<>>
    BY <1>1 DEF OfKind
  <2>5. 1..0 = {} /\ 0 + 1 = 1 /\ 0 + 2 = 2 /\ 0 \in 0..m /\ Len(<<>>) = 0
    BY <2>1
  <2>6. h.kind # "application" /\ h.kind # "none" /\ h.kind \in Chain /\ "none" \notin Chain
    BY <2>1 DEF Chain
  <2> HIDE DEF h, m
  <2>8. (StartOf(f, 1) = StartOf(f, 1)') /\ (StartOf(f, 2) = StartOf(f, 2)')
    OBVIOUS
  <2>7. Follows(0)'
    BY <1>1, <2>1, <2>2, <2>3, <2>4, <2>5, <2>6 DEF Follows, h, m
  <2> QED BY <2>5, <2>7 DEF m
<1> QED BY <1>5, <1>6, <1>7, <1>8 DEF DecodeInv

\* There is one header at a position.
LEMMA OnlyOne ==
    ASSUME frame \in Frames, NEW k \in Nat, k + 1 \in 1..Len(frame.headers),
           offset = StartOf(frame, k + 1), next = frame.headers[k + 1].kind,
           NEW h \in HeadersAt(next, offset)
    PROVE  h = frame.headers[k + 1]
<1> DEFINE f == frame
           m == Len(f.headers)
           own == {i \in DOMAIN f.headers : f.headers[i].kind = next /\ StartOf(f, i) = offset}
<1>1. m \in Nat /\ DOMAIN f.headers = 1..m
  BY HeaderTypes
<1>2. k + 1 \in own
  BY <1>1
<1>3. ASSUME NEW i \in own PROVE i = k + 1
  <2>1. i \in 1..m /\ i \in 1..(m + 1) /\ k + 1 \in 1..(m + 1) /\ StartOf(f, i) = StartOf(f, k + 1)
    BY <1>1
  <2>2. StartOf(f, i) \in Nat
    BY <2>1, StartsOf
  <2>3. ~(i < k + 1) /\ ~(k + 1 < i)
    BY <2>1, <2>2, StartsGrow
  <2> QED BY <1>1, <2>1, <2>3
<1>4. own = {k + 1}
  BY <1>2, <1>3
<1> QED BY <1>4 DEF HeadersAt

\* A header was found: a layer is added and decoding goes on behind it.
LEMMA FoundInv ==
    ASSUME DecodeInv, next \in Chain, NEW h \in HeadersAt(next, offset),
           Decoded(next, h, offset).ok,
           layers' = Append(layers, Decoded(next, h, offset).layer),
           offset' = Decoded(next, h, offset).layer.end,
           next' = Decoded(next, h, offset).next,
           touched' \in Nat, touched' <= caplen,
           UNCHANGED <<frame, caplen>>
    PROVE  DecodeInv'
<1> DEFINE N == Len(layers)
<1>1. /\ frame \in Frames /\ caplen \in Nat /\ offset \in Nat /\ layers \in Seq(Layers)
      /\ caplen <= Extent(frame) /\ frame # NoFrame
      /\ "none" \notin Chain /\ "application" \notin Chain /\ next # "none"
      /\ frame' = frame /\ caplen' = caplen
  BY DEF DecodeInv, DecodeType, Chain
<1>2. h \in Headers /\ h.len \in Nat
  <2>1. ASSUME NEW i \in DOMAIN frame.headers PROVE frame.headers[i] \in Headers
    BY <1>1, HeaderTypes
  <2>2. h \in Headers
    BY <2>1 DEF HeadersAt, Headers
  <2> QED BY <2>2, HeadersAreHeaders
<1> DEFINE r == Decoded(next, h, offset)
<1>3. IsResult(r, next, h, offset)
  BY <1>1, <1>2, Decoders
<1>4. PICK n \in Nat, following \in Chain \cup {"application", "none"} :
          /\ r = Result(next, offset, n, h, following)
          /\ Fixed[next] <= n /\ offset + n <= caplen
          /\ following \in Chain => next \in DOMAIN Carries /\ following \in Carries[next]
          /\ following = "application" => next \in {"tcp", "udp"}
  <2>1. r # Fail
    BY DEF Fail
  <2> HIDE DEF r
  <2> QED BY <1>3, <2>1 DEF IsResult
<1> DEFINE l == Layer(next, offset, offset + n, h)
<1>5. /\ layers' = Append(layers, l) /\ offset' = offset + n /\ next' = following
      /\ l.kind = next /\ l.start = offset /\ l.end = offset + n /\ l.head = h
  BY <1>4 DEF Result, Layer
<1>6. n > 0 /\ offset + n \in Nat
  <2>1. Fixed[next] \in Nat /\ Fixed[next] > 0
    BY DEF Fixed, Chain
  <2> QED BY <1>1, <1>4, <2>1
<1>7. l \in Layers
  BY <1>1, <1>2, <1>6 DEF Layers, Layer
<1> HIDE DEF l, r
<1>8. /\ N \in Nat /\ DOMAIN layers = 1..N /\ DOMAIN layers' = 1..(N + 1) /\ Len(layers') = N + 1
      /\ layers'[N + 1] = l /\ \A i \in 1..N : layers'[i] = layers[i]
      /\ layers' \in Seq(Layers) /\ layers' # <<>>
  BY <1>1, <1>5, <1>7
<1>9. /\ \A i \in 1..N : layers[i].kind \in Chain
      /\ OfKind(Chain) = 1..N /\ OfKind({"payload"}) = {}
  BY <1>1, <1>8, OnlyHeaders DEF DecodeInv
<1>10. DecodeType'
  <2>1. Extent(frame)' = Extent(frame)
    BY <1>1
  <2> QED BY <1>1, <1>4, <1>5, <1>6, <1>8, <2>1 DEF DecodeType
<1>11. Rising'
  <2>1. /\ \A i, j \in 1..N : i < j => Rank[layers[i].kind] < Rank[layers[j].kind]
        /\ \A i \in 1..N : Rank[layers[i].kind] < Rank[next]
        /\ \A i \in 1..N : Rank[layers[i].kind] \in Nat
    <3>1. \A x \in Chain : Rank[x] \in Nat
      BY Ranks
    <3>2. \A i \in 1..N : Rank[layers[i].kind] \in Nat
      BY <1>9, <3>1
    <3>3. \A i, j \in 1..N : i < j => Rank[layers[i].kind] < Rank[layers[j].kind]
      BY <1>8 DEF DecodeInv, Rising
    <3>4. \A i \in 1..N : Rank[layers[i].kind] < Rank[next]
      BY <1>1, <1>8 DEF DecodeInv, Rising
    <3> QED BY <3>2, <3>3, <3>4
  <2>2. \A i, j \in 1..(N + 1) : i < j =>
           i \in 1..N /\ (j \in 1..N \/ j = N + 1)
    BY <1>8
  <2>3. \A i, j \in 1..(N + 1) : i < j => Rank[layers'[i].kind] < Rank[layers'[j].kind]
    BY <1>5, <1>8, <2>1, <2>2
  <2>4. following # "none" => Rank[next] < Rank[following] /\ Rank[following] \in Nat /\ Rank[next] \in Nat
    BY <1>1, <1>4, Ranks
  <2>5. following # "none" => \A i \in 1..(N + 1) : Rank[layers'[i].kind] < Rank[following]
    <3> SUFFICES ASSUME following # "none", NEW i \in 1..(N + 1)
                 PROVE  Rank[layers'[i].kind] < Rank[following]
      OBVIOUS
    <3>1. CASE i = N + 1
      BY <1>5, <1>8, <2>4, <3>1
    <3>2. CASE i # N + 1
      <4>1. i \in 1..N
        BY <1>8, <3>2
      <4>2. Rank[layers[i].kind] < Rank[next] /\ Rank[layers[i].kind] \in Nat /\ layers'[i] = layers[i]
        BY <1>8, <2>1, <4>1
      <4> QED BY <2>4, <4>2
    <3> QED BY <3>1, <3>2
  <2> QED BY <1>4, <1>5, <1>8, <2>3, <2>5 DEF Rising
<1>12. offset = IF layers = <<>> THEN 0 ELSE layers[N].end
  BY <1>1 DEF DecodeInv, Continues
<1>13. RangesTile'
  <2>1. ASSUME NEW i \in 1..(N + 1)
        PROVE  IsTile(i)' /\ layers'[i].kind \in Chain
    <3>1. CASE i = N + 1
      <4>1. layers'[i].kind \in Chain
        BY <1>5, <1>8, <3>1
      <4>2. offset = IF i = 1 THEN 0 ELSE layers'[i - 1].end
        <5>1. CASE N = 0
          BY <1>1, <1>12, <3>1, <5>1
        <5>2. CASE N # 0
          <6>1. layers # <<>> /\ N \in 1..N /\ i - 1 = N /\ i # 1
            BY <1>1, <1>8, <3>1, <5>2
          <6> QED BY <1>8, <1>12, <6>1
        <5> QED BY <5>1, <5>2
      <4>3. layers'[i].start = offset /\ layers'[i].end = offset + n
        BY <1>5, <1>8, <3>1
      <4> QED BY <1>1, <1>4, <1>6, <4>1, <4>2, <4>3 DEF IsTile
    <3>2. CASE i # N + 1
      <4>1. i \in 1..N /\ (i # 1 => i - 1 \in 1..N)
        BY <1>8, <3>2
      <4>2. IsTile(i)
        BY <1>8, <4>1 DEF DecodeInv, RangesTile
      <4>3. layers'[i] = layers[i] /\ (i # 1 => layers'[i - 1] = layers[i - 1])
        BY <1>8, <4>1
      <4> QED BY <1>1, <1>9, <4>1, <4>2, <4>3 DEF IsTile
    <3> QED BY <3>1, <3>2
  <2>2. "payload" \notin Chain
    BY DEF Chain
  <2> QED BY <1>1, <1>4, <1>5, <1>8, <2>1, <2>2 DEF RangesTile
<1>14. Continues'
  <2>1. N + 1 \in 1..(N + 1)
    BY <1>8
  <2> QED BY <1>5, <1>8, <2>1 DEF Continues
<1>15. ApplicationPlaced'
  <2>1. \A i \in 1..(N + 1) : layers'[i].kind \in Chain
    <3> TAKE i \in 1..(N + 1)
    <3>1. i = N + 1 \/ i \in 1..N
      BY <1>8
    <3> QED BY <1>5, <1>8, <1>9, <3>1
  <2>2. \A x \in Chain : x \notin Applications
    BY DEF Chain, Applications
  <2> QED BY <1>8, <2>1, <2>2 DEF ApplicationPlaced
<1>16. Found'
  <2> SUFFICES ASSUME ~frame.fragment, frame.link # "other"
               PROVE  \E k \in 0..Len(frame.headers) : Follows(k)'
    BY <1>1 DEF Found
  <2> DEFINE f == frame
             m == Len(f.headers)
  <2>1. PICK k \in 0..m : Follows(k)
    BY <1>1 DEF DecodeInv, Found
  <2>2. /\ offset = StartOf(f, k + 1) /\ k = N /\ k < m /\ next = f.headers[k + 1].kind
        /\ \A i \in 1..k :
              /\ layers[i].head = f.headers[i]
              /\ layers[i].start = StartOf(f, i) /\ layers[i].end = StartOf(f, i + 1)
    BY <1>1, <2>1 DEF Follows
  <2>3. m \in Nat /\ k \in Nat /\ k + 1 \in 1..m /\ k + 1 \in 0..m
    BY <1>1, <2>2, HeaderTypes
  <2>4. h = f.headers[k + 1]
    BY <1>1, <2>2, <2>3, OnlyOne
  <2>5. /\ IsSent(h)
        /\ Behind(h, offset) \in Chain => k + 1 < m /\ Behind(h, offset) = f.headers[k + 2].kind
        /\ Behind(h, offset) \in {"application", "none"} => k + 1 = m
    <3>1. k + 1 <= m /\ k < Len(f.headers)
      BY <2>2, <2>3
    <3> QED BY <1>1, <2>3, <2>4, <3>1, BehindSent
  <2>6. r = IF offset + h.len <= caplen THEN Result(next, offset, h.len, h, Behind(h, offset)) ELSE Fail
    BY <1>1, <1>2, <2>2, <2>4, <2>5, Decoders DEF r
  <2>7. n = h.len /\ following = Behind(h, offset)
    <3>1. r.ok
      BY DEF r
    <3>2. r = Result(next, offset, h.len, h, Behind(h, offset))
      BY <2>6, <3>1 DEF Fail
    <3>3. r.next = Behind(h, offset) /\ r.layer.end = offset + h.len
      BY <3>2 DEF Result, Layer
    <3>4. r.next = following /\ r.layer.end = offset + n
      BY <1>4 DEF Result, Layer
    <3> QED BY <1>1, <1>2, <3>3, <3>4
  <2>8. offset + n = StartOf(f, k + 2)
    <3>1. (k + 1) + 1 = k + 2
      BY <2>3
    <3> QED BY <1>1, <2>2, <2>3, <2>4, <2>7, <3>1, StartsOf
  <2>9. OfKind(Chain)' = 1..(k + 1) /\ OfKind({"payload"})' = {}
    <3>1. \A i \in 1..(N + 1) : layers'[i].kind \in Chain
      <4> TAKE i \in 1..(N + 1)
      <4>1. i = N + 1 \/ i \in 1..N
        BY <1>8
      <4> QED BY <1>5, <1>8, <1>9, <4>1
    <3>2. "payload" \notin Chain
      BY DEF Chain
    <3> QED BY <1>8, <2>2, <3>1, <3>2 DEF OfKind
  <2>10. ASSUME NEW i \in 1..(k + 1)
         PROVE  /\ layers'[i].head = f.headers[i]
                /\ layers'[i].start = StartOf(f, i) /\ layers'[i].end = StartOf(f, i + 1)
    <3>1. CASE i = k + 1
      <4>1. i + 1 = k + 2
        BY <2>3, <3>1
      <4> QED BY <1>5, <1>8, <2>2, <2>4, <2>8, <3>1, <4>1
    <3>2. CASE i # k + 1
      <4>1. i \in 1..k
        BY <2>3, <3>2
      <4> QED BY <1>8, <2>2, <4>1
    <3> QED BY <3>1, <3>2
  <2>11. (k + 1) + 1 = k + 2
    BY <2>3
  <2>12. following \in Chain => k + 1 < m /\ following = f.headers[(k + 1) + 1].kind /\ k + 1 = Len(layers')
    BY <1>8, <2>2, <2>5, <2>7, <2>11
  <2>13. following \in {"application", "none"} => k + 1 = m /\ k + 1 = Len(layers')
    BY <1>8, <2>2, <2>5, <2>7
  <2>14. \A i : (StartOf(frame, i) = StartOf(f, i)) /\ (StartOf(frame, i)' = StartOf(f, i))
    BY <1>1
  <2>15. Follows(k + 1)'
    <3> HIDE DEF m
    <3> QED BY <1>1, <1>5, <2>8, <2>9, <2>10, <2>11, <2>12, <2>13, <2>14 DEF Follows, m
  <2> QED BY <2>3, <2>15
<1> QED BY <1>10, <1>11, <1>13, <1>14, <1>15, <1>16 DEF DecodeInv

\* No header was found: decoding stops, and behind the part that was captured.
LEMMA NotFoundInv ==
    ASSUME DecodeInv, next \in Chain, NEW h \in HeadersAt(next, offset),
           ~Decoded(next, h, offset).ok, next' = "none",
           touched' \in Nat, touched' <= caplen,
           UNCHANGED <<frame, caplen, layers, offset>>
    PROVE  DecodeInv'
<1> DEFINE N == Len(layers)
<1>1. /\ frame \in Frames /\ caplen \in Nat /\ offset \in Nat /\ layers \in Seq(Layers)
      /\ caplen <= Extent(frame) /\ frame # NoFrame
      /\ "none" \notin Chain /\ "application" \notin Chain /\ next # "none"
      /\ frame' = frame /\ caplen' = caplen /\ layers' = layers /\ offset' = offset
  BY DEF DecodeInv, DecodeType, Chain
<1>2. h \in Headers /\ h.len \in Nat
  <2>1. ASSUME NEW i \in DOMAIN frame.headers PROVE frame.headers[i] \in Headers
    BY <1>1, HeaderTypes
  <2>2. h \in Headers
    BY <2>1 DEF HeadersAt, Headers
  <2> QED BY <2>2, HeadersAreHeaders
<1>3. DecodeType'
  <2>1. Extent(frame)' = Extent(frame)
    BY <1>1
  <2> QED BY <1>1, <2>1 DEF DecodeInv, DecodeType
<1>4. Rising' /\ Continues'
  BY <1>1 DEF DecodeInv, Rising, Continues
<1>5. RangesTile'
  <2>1. \A i \in DOMAIN layers : IsTile(i)' <=> IsTile(i)
    BY <1>1 DEF IsTile
  <2> QED BY <1>1, <2>1 DEF DecodeInv, RangesTile
<1>6. ApplicationPlaced'
  BY <1>1 DEF DecodeInv, ApplicationPlaced
<1>7. Found'
  <2> SUFFICES ASSUME ~frame.fragment, frame.link # "other"
               PROVE  \E k \in 0..Len(frame.headers) : Follows(k)'
    BY <1>1 DEF Found
  <2> DEFINE f == frame
             m == Len(f.headers)
  <2>1. PICK k \in 0..m : Follows(k)
    BY <1>1 DEF DecodeInv, Found
  <2>2. /\ offset = StartOf(f, k + 1) /\ k = N /\ k < m /\ next = f.headers[k + 1].kind
    BY <1>1, <2>1 DEF Follows
  <2>3. m \in Nat /\ k \in Nat /\ k + 1 \in 1..m /\ k + 1 \in 0..m
    BY <1>1, <2>2, HeaderTypes
  <2>4. h = f.headers[k + 1]
    BY <1>1, <2>2, <2>3, OnlyOne
  <2>5. IsSent(h)
    <3>1. k + 1 <= m /\ k < Len(f.headers)
      BY <2>2, <2>3
    <3> QED BY <1>1, <2>3, <2>4, <3>1, BehindSent
  <2> DEFINE r == Decoded(next, h, offset)
  <2>6. r = IF offset + h.len <= caplen THEN Result(next, offset, h.len, h, Behind(h, offset)) ELSE Fail
    BY <1>1, <1>2, <2>2, <2>4, <2>5, Decoders
  <2>7. offset + h.len > caplen
    <3>1. ~r.ok
      OBVIOUS
    <3> HIDE DEF r
    <3> QED BY <1>1, <1>2, <2>6, <3>1 DEF Result
  <2>8. offset + h.len = StartOf(f, k + 2)
    <3>1. (k + 1) + 1 = k + 2
      BY <2>3
    <3> QED BY <1>1, <2>2, <2>3, <2>4, <3>1, StartsOf
  <2>9. OfKind({"payload"})' = {} /\ OfKind(Chain)' = OfKind(Chain)
    <3>1. OfKind({"payload"}) = {}
      BY <1>1, OnlyHeaders DEF DecodeInv
    <3> QED BY <1>1, <3>1 DEF OfKind
  <2>10. \A i : (StartOf(frame, i) = StartOf(f, i)) /\ (StartOf(frame, i)' = StartOf(f, i))
    BY <1>1
  <2>11. Follows(k)'
    <3> HIDE DEF m
    <3> QED BY <1>1, <2>1, <2>7, <2>8, <2>9, <2>10 DEF Follows, m
  <2> QED BY <2>3, <2>11
<1> QED BY <1>3, <1>4, <1>5, <1>6, <1>7 DEF DecodeInv

LEMMA LayerInv == DecodeInv /\ DecodeLayer => DecodeInv'
<1> SUFFICES ASSUME DecodeInv, DecodeLayer PROVE DecodeInv'
  OBVIOUS
<1>1. PICK h \in HeadersAt(next, offset) :
         IF Decoded(next, h, offset).ok
         THEN /\ layers' = Append(layers, Decoded(next, h, offset).layer)
              /\ offset' = Decoded(next, h, offset).layer.end
              /\ next' = Decoded(next, h, offset).next
         ELSE next' = "none" /\ UNCHANGED <<layers, offset>>
  BY DEF DecodeLayer
<1>2. next \in Chain /\ UNCHANGED <<frame, caplen>>
  BY DEF DecodeLayer
<1>3. touched' \in Nat /\ touched' <= caplen
  <2>1. /\ touched \in Nat /\ offset \in Nat /\ caplen \in Nat /\ touched <= caplen
        /\ Fixed[next] \in Nat
    BY <1>2 DEF DecodeInv, DecodeType, RangesTile, Fixed, Chain
  <2>2. touched' = IF caplen - offset >= Fixed[next] /\ touched < offset + Fixed[next]
                   THEN offset + Fixed[next] ELSE touched
    BY DEF DecodeLayer, Remaining
  <2> QED BY <2>1, <2>2
<1>4. CASE Decoded(next, h, offset).ok
  BY <1>1, <1>2, <1>3, <1>4, FoundInv
<1>5. CASE ~Decoded(next, h, offset).ok
  BY <1>1, <1>2, <1>3, <1>5, NotFoundInv
<1> QED BY <1>4, <1>5

\* The payload behind TCP or UDP, with what it was recognised as.
LEMMA ApplicationInv == DecodeInv /\ DecodeApplication => DecodeInv'
<1> SUFFICES ASSUME DecodeInv, DecodeApplication PROVE DecodeInv'
  OBVIOUS
<1> DEFINE N == Len(layers)
           t == layers[N]
           p == Layer("payload", offset, caplen, t.head)
<1>1. /\ next = "application" /\ next' = "none" /\ next # "none" /\ next \notin Chain
      /\ frame' = frame /\ caplen' = caplen /\ offset' = offset /\ touched' = touched
  BY DEF DecodeApplication, Chain
<1>2. PICK c \in ContentsAt(offset) :
         layers' = layers \o (IF c \in Attempted(t) THEN <<Layer(c, offset, caplen, t.head)>> ELSE <<>>)
                   \o <<p>>
  BY DEF DecodeApplication
<1> DEFINE a == Layer(c, offset, caplen, t.head)
           M == IF c \in Attempted(t) THEN N + 2 ELSE N + 1
<1>3. /\ frame \in Frames /\ caplen \in Nat /\ offset \in Nat /\ layers \in Seq(Layers)
      /\ caplen <= Extent(frame) /\ frame # NoFrame /\ offset <= caplen
      /\ layers # <<>> /\ t.kind \in {"tcp", "udp"}
  BY <1>1 DEF DecodeInv, DecodeType, Rising, RangesTile
<1>4. N \in Nat /\ N > 0 /\ DOMAIN layers = 1..N /\ N \in 1..N
  BY <1>3
<1>5. t.head \in Headers /\ t \in Layers
  <2>1. t \in Layers
    BY <1>3, <1>4
  <2> QED BY <2>1 DEF Layers
<1>6. p \in Layers /\ p.kind = "payload" /\ p.start = offset /\ p.end = caplen
  BY <1>3, <1>5 DEF Layers, Layer
<1>7. a.kind = c /\ a.start = offset /\ a.end = caplen
      /\ (c \in Attempted(t) => c \in Applications /\ a \in Layers)
  <2>1. c \in Attempted(t) => c \in Applications
    BY DEF Attempted, Applications
  <2> QED BY <1>3, <1>5, <2>1 DEF Layers, Layer
<1> HIDE DEF p, a, t
<1>8. /\ M \in Nat /\ N < M /\ DOMAIN layers' = 1..M /\ Len(layers') = M
      /\ layers'[M] = p /\ \A i \in 1..N : layers'[i] = layers[i]
      /\ c \in Attempted(t) => M = N + 2 /\ layers'[N + 1] = a
      /\ c \notin Attempted(t) => M = N + 1
      /\ layers' \in Seq(Layers)
  <2>1. CASE c \in Attempted(t)
    <3>1. layers' = Append(Append(layers, a), p)
      BY <1>2, <1>3, <1>6, <1>7, <2>1 DEF a
    <3>2. M = N + 2
      BY <2>1
    <3> HIDE DEF M
    <3> QED BY <1>3, <1>4, <1>6, <1>7, <2>1, <3>1, <3>2
  <2>2. CASE c \notin Attempted(t)
    <3>1. layers' = Append(layers, p)
      BY <1>2, <1>3, <1>6, <2>2
    <3>2. M = N + 1
      BY <2>2
    <3> HIDE DEF M
    <3> QED BY <1>3, <1>4, <1>6, <2>2, <3>1, <3>2
  <2> QED BY <2>1, <2>2
<1> HIDE DEF M
<1>9. /\ \A i \in 1..N : layers[i].kind \in Chain
      /\ OfKind(Chain) = 1..N /\ OfKind({"payload"}) = {}
  BY <1>1, <1>4, OnlyHeaders DEF DecodeInv
<1>10. \A i \in 1..M : \/ i \in 1..N
                       \/ i = M /\ i \notin 1..N
                       \/ i = N + 1 /\ c \in Attempted(t) /\ i \notin 1..N /\ i # M
  BY <1>4, <1>8
<1>11. "payload" \notin Chain /\ "payload" \notin Applications /\ \A x \in Applications : x \notin Chain
  BY DEF Chain, Applications
<1>12. DecodeType'
  <2>1. Extent(frame)' = Extent(frame)
    BY <1>1
  <2> QED BY <1>1, <1>3, <1>8, <2>1 DEF DecodeInv, DecodeType
<1>13. Rising'
  <2>1. /\ \A i, j \in 1..N : i < j => Rank[layers[i].kind] < Rank[layers[j].kind]
        /\ \A i \in 1..N : Rank[layers[i].kind] \in 1..3
    BY <1>4, <1>9, Ranks DEF DecodeInv, Rising
  <2>2. Rank[layers'[M].kind] = 5
    BY <1>6, <1>8, Ranks
  <2>3. c \in Attempted(t) => Rank[layers'[N + 1].kind] = 4
    BY <1>7, <1>8, Ranks
  <2>4. ASSUME NEW i \in 1..M, NEW j \in 1..M, i < j
        PROVE  Rank[layers'[i].kind] < Rank[layers'[j].kind]
    <3>1. CASE j \in 1..N
      <4>1. i \in 1..N
        BY <1>4, <1>8, <2>4, <3>1
      <4> QED BY <1>8, <2>1, <2>4, <3>1, <4>1
    <3>2. CASE j = M
      <4>1. i \in 1..N \/ (i = N + 1 /\ c \in Attempted(t))
        BY <1>8, <1>10, <2>4, <3>2
      <4>2. CASE i \in 1..N
        BY <1>8, <2>1, <2>2, <3>2, <4>2
      <4>3. CASE i = N + 1 /\ c \in Attempted(t)
        BY <2>2, <2>3, <3>2, <4>3
      <4> QED BY <4>1, <4>2, <4>3
    <3>3. CASE j = N + 1 /\ c \in Attempted(t)
      <4>1. i \in 1..N
        BY <1>4, <1>8, <2>4, <3>3
      <4> QED BY <1>8, <2>1, <2>3, <3>3, <4>1
    <3> QED BY <1>10, <3>1, <3>2, <3>3
  <2> QED BY <1>1, <1>8, <2>4 DEF Rising
<1>14. RangesTile'
  <2> DEFINE Tiled(i) ==
                layers'[i].kind \in Chain =>
                   /\ layers'[i].start = (IF i = 1 THEN 0 ELSE layers'[i - 1].end)
                   /\ layers'[i].start < layers'[i].end /\ layers'[i].end <= caplen
  <2>1. ASSUME NEW i \in 1..N PROVE Tiled(i) /\ layers'[i].kind # "payload"
    <3>1. IsTile(i)
      BY <1>4 DEF DecodeInv, RangesTile
    <3>2. layers'[i] = layers[i] /\ (i # 1 => layers'[i - 1] = layers[i - 1])
      BY <1>4, <1>8
    <3> QED BY <1>1, <1>9, <1>11, <3>1, <3>2 DEF IsTile
  <2>2. Tiled(M) /\ layers'[M].start = offset /\ layers'[M].end = caplen
    BY <1>6, <1>8, <1>11
  <2>3. c \in Attempted(t) => Tiled(N + 1) /\ layers'[N + 1].kind # "payload"
    BY <1>7, <1>8, <1>11
  <2>4. touched <= caplen
    BY DEF DecodeInv, RangesTile
  <2>5. ASSUME NEW i \in 1..M
        PROVE  Tiled(i) /\ (layers'[i].kind = "payload" =>
                                layers'[i].start = offset /\ layers'[i].end = caplen)
    <3> HIDE DEF Tiled
    <3> QED BY <1>10, <2>1, <2>2, <2>3
  <2> QED BY <1>1, <1>3, <1>8, <2>4, <2>5 DEF RangesTile, IsTile
<1>15. Continues'
  BY <1>1 DEF Continues
<1>16. ApplicationPlaced'
  <2> SUFFICES ASSUME NEW i \in 1..M, layers'[i].kind \in Applications
               PROVE  /\ i = M - 1 /\ i > 1 /\ layers'[i + 1].kind = "payload"
                      /\ layers'[i].kind \in Attempted(layers'[i - 1])
    BY <1>8 DEF ApplicationPlaced
  <2>1. i = N + 1 /\ c \in Attempted(t)
    BY <1>6, <1>8, <1>9, <1>10, <1>11
  <2>2. i + 1 = M /\ i - 1 = N /\ i = M - 1 /\ i > 1
    BY <1>4, <1>8, <2>1
  <2>3. layers'[N] = t /\ layers'[i].kind = c
    BY <1>4, <1>7, <1>8, <2>1 DEF t
  <2> QED BY <1>6, <1>8, <2>1, <2>2, <2>3
<1>17. Found'
  <2> SUFFICES ASSUME ~frame.fragment, frame.link # "other"
               PROVE  \E k \in 0..Len(frame.headers) : Follows(k)'
    BY <1>1 DEF Found
  <2> DEFINE f == frame
             m == Len(f.headers)
  <2>1. PICK k \in 0..m : Follows(k)
    BY <1>3 DEF DecodeInv, Found
  <2>2. /\ offset = StartOf(f, k + 1) /\ k = N /\ k = m
        /\ \A i \in 1..k :
              /\ layers[i].head = f.headers[i]
              /\ layers[i].start = StartOf(f, i) /\ layers[i].end = StartOf(f, i + 1)
    BY <1>1, <2>1 DEF Follows
  <2>3. OfKind(Chain)' = 1..N
    <3>1. \A i \in 1..M : layers'[i].kind \in Chain <=> i \in 1..N
      BY <1>6, <1>7, <1>8, <1>9, <1>10, <1>11
    <3>2. \A i \in 1..N : i \in 1..M
      BY <1>4, <1>8
    <3> QED BY <1>8, <3>1, <3>2 DEF OfKind
  <2>4. \A i : (StartOf(frame, i) = StartOf(f, i)) /\ (StartOf(frame, i)' = StartOf(f, i))
    BY <1>1
  <2>5. "none" \notin Chain
    BY DEF Chain
  <2>6. Follows(k)'
    <3> HIDE DEF m
    <3> QED BY <1>1, <1>8, <2>2, <2>3, <2>4, <2>5 DEF Follows, m
  <2> QED BY <2>6
<1> QED BY <1>12, <1>13, <1>14, <1>15, <1>16, <1>17 DEF DecodeInv

LEMMA DecodeStep == DecodeInv /\ [DecodeNext]_decodeVars => DecodeInv'
<1> SUFFICES ASSUME DecodeInv, [DecodeNext]_decodeVars PROVE DecodeInv'
  OBVIOUS
<1>1. ASSUME NEW f \in Frames, NEW n \in 0..Extent(f), Arrive(f, n) PROVE DecodeInv'
  BY <1>1, ArriveInv
<1>2. CASE DecodeLayer
  BY <1>2, LayerInv
<1>3. CASE DecodeApplication
  BY <1>3, ApplicationInv
<1>4. CASE UNCHANGED decodeVars
  <2> USE <1>4 DEF decodeVars
  <2>1. DecodeType'
    <3>1. Extent(frame)' = Extent(frame)
      OBVIOUS
    <3> QED BY <3>1 DEF DecodeInv, DecodeType
  <2>2. Rising' /\ Continues' /\ ApplicationPlaced'
    BY DEF DecodeInv, Rising, Continues, ApplicationPlaced
  <2>3. RangesTile'
    <3>1. \A i \in DOMAIN layers : IsTile(i)' <=> IsTile(i)
      BY DEF IsTile
    <3> QED BY <3>1 DEF DecodeInv, RangesTile
  <2>4. Found'
    <3>1. \A k : Follows(k)' <=> Follows(k)
      <4> TAKE k
      <4>1. \A i : StartOf(frame, i)' = StartOf(frame, i)
        OBVIOUS
      <4>2. OfKind(Chain)' = OfKind(Chain) /\ OfKind({"payload"})' = OfKind({"payload"})
        BY DEF OfKind
      <4> QED BY <4>1, <4>2 DEF Follows
    <3> QED BY <3>1 DEF DecodeInv, Found
  <2> QED BY <2>1, <2>2, <2>3, <2>4 DEF DecodeInv
<1> QED BY <1>1, <1>2, <1>3, <1>4 DEF DecodeNext

LEMMA ChainIsExact == DecodeInv => ChainExact
<1> SUFFICES ASSUME DecodeInv, Finished, ~frame.fragment, frame.link # "other"
             PROVE  LET end == BodyOf(frame)
                    IN  /\ OfKind(Chain) = Captured(frame)
                        /\ \A i \in Captured(frame) :
                              /\ layers[i].head = frame.headers[i]
                              /\ layers[i].start = StartOf(frame, i)
                              /\ layers[i].end = StartOf(frame, i + 1)
                        /\ \A i \in OfKind({"payload"}) :
                              /\ layers[i].start = end
                              /\ frame.padding = 0 => layers[i].end <= end + frame.body
  BY DEF ChainExact
<1> DEFINE f == frame
           m == Len(f.headers)
<1>1. /\ frame \in Frames /\ caplen \in Nat /\ offset \in Nat /\ next = "none"
      /\ caplen <= Extent(frame) /\ offset <= caplen /\ "none" \notin Chain
  BY DEF DecodeInv, DecodeType, Finished, RangesTile, Chain
<1>2. PICK k \in 0..m : Follows(k)
  BY DEF DecodeInv, Found, Finished
<1>3. /\ OfKind(Chain) = 1..k /\ offset = StartOf(f, k + 1)
      /\ \A i \in 1..k :
            /\ layers[i].head = f.headers[i]
            /\ layers[i].start = StartOf(f, i) /\ layers[i].end = StartOf(f, i + 1)
      /\ k = m \/ StartOf(f, k + 2) > caplen
      /\ OfKind({"payload"}) # {} => k = m
  BY <1>1, <1>2 DEF Follows
<1>4. m \in Nat /\ k \in Nat /\ DOMAIN f.headers = 1..m /\ k + 1 \in 1..(m + 1)
      /\ f.body \in Nat /\ f.padding \in Nat
  BY <1>1, HeaderTypes
<1>5. \A i \in 1..(m + 1) : StartOf(f, i) \in Nat
  BY <1>1, StartsOf
<1>6. \A i, j \in 1..(m + 1) : i < j => StartOf(f, i) < StartOf(f, j)
  BY <1>1, StartsGrow
<1>7. Extent(f) = StartOf(f, m + 1) + f.body + f.padding
  BY <1>1, StartsOf
<1>8. BodyOf(f) = StartOf(f, m + 1)
  BY DEF BodyOf
<1>9. Captured(f) = 1..k
  <2>1. ASSUME NEW i \in 1..k PROVE i \in 1..m /\ StartOf(f, i + 1) <= caplen
    <3>1. i \in 1..m /\ i + 1 \in 1..(m + 1) /\ (i + 1 = k + 1 \/ i + 1 < k + 1)
      BY <1>4
    <3>2. StartOf(f, i + 1) = StartOf(f, k + 1) \/ StartOf(f, i + 1) < StartOf(f, k + 1)
      <4> HIDE DEF m
      <4> QED BY <1>4, <1>6, <3>1
    <3> HIDE DEF m
    <3> QED BY <1>1, <1>3, <1>4, <1>5, <3>1, <3>2
  <2>2. ASSUME NEW i \in 1..m, i \notin 1..k PROVE ~(StartOf(f, i + 1) <= caplen)
    <3>1. k # m /\ i + 1 \in 1..(m + 1) /\ k + 2 \in 1..(m + 1) /\ (k + 2 = i + 1 \/ k + 2 < i + 1)
      BY <1>4, <2>2
    <3>2. StartOf(f, k + 2) = StartOf(f, i + 1) \/ StartOf(f, k + 2) < StartOf(f, i + 1)
      <4> HIDE DEF m
      <4> QED BY <1>6, <3>1
    <3> HIDE DEF m
    <3> QED BY <1>1, <1>3, <1>5, <3>1, <3>2
  <2> HIDE DEF m
  <2> QED BY <1>4, <2>1, <2>2 DEF Captured
<1>10. ASSUME NEW i \in OfKind({"payload"})
       PROVE  /\ layers[i].start = BodyOf(f)
              /\ f.padding = 0 => layers[i].end <= BodyOf(f) + f.body
  <2>1. i \in DOMAIN layers /\ layers[i].kind = "payload" /\ k = m
    BY <1>3, <1>10 DEF OfKind
  <2>2. layers[i].start = offset /\ layers[i].end = caplen
    BY <2>1 DEF DecodeInv, RangesTile
  <2>3. m + 1 \in 1..(m + 1)
    BY <1>4
  <2> HIDE DEF m
  <2> QED BY <1>1, <1>3, <1>4, <1>5, <1>7, <1>8, <2>1, <2>2, <2>3
<1> QED BY <1>3, <1>9, <1>10

-----------------------------------------------------------------------------
(***************************************************************************)
(* The summary, layer by layer.                                            *)
(***************************************************************************)
Summed(s, l) ==
    [source |-> IF l.kind \in {"arp", "ipv4", "ipv6"} \/ s.source = <<>>
                THEN <<l.head.from, l.head.to>> ELSE s.source,
     protocol |-> IF l.kind \in {"ethernet", "payload"} THEN s.protocol ELSE l.kind,
     color |-> Shade(l.kind, s.color)]

Unsummed == [source |-> <<>>, protocol |-> "???", color |-> "other"]

LEMMA SummaryClimbs ==
    ASSUME layers \in Seq(Layers)
    PROVE  \E g : /\ g[0] = Unsummed /\ Summary = g[Len(layers)]
                  /\ \A k \in 1..Len(layers) : g[k] = Summed(g[k - 1], layers[k])
<1> DEFINE n == Len(layers)
           c == layers
           P(f) == f = [s \in SUBSET DOMAIN c |->
                          IF s = {} THEN Unsummed
                          ELSE Summed(f[s \ {Max(s)}], c[Max(s)])]
           Sources == {<<>>} \cup {<<c[i].head.from, c[i].head.to>> : i \in 1..n}
           Colors == {"other", "arp", "tcp", "udp", "dns", "icmp", "tls"}
           Names == {"???"} \cup {c[i].kind : i \in 1..n}
           A == [source : Sources, protocol : Names, color : Colors]
           G == [i \in 1..n |-> [a \in A |-> Summed(a, c[i])]]
<1>0. n \in Nat /\ DOMAIN c = 1..n
  OBVIOUS
<1>1. Summary = (CHOOSE f : P(f))[DOMAIN c]
  BY Zenon DEF Summary, FoldLeft, MapThenFoldSet, Summed, Unsummed
<1>2. Unsummed \in A
  BY DEF Unsummed
<1>3. ASSUME NEW a \in A, NEW i \in 1..n PROVE Summed(a, c[i]) \in A
  <2>1. Shade(c[i].kind, a.color) \in Colors
    BY DEF Shade
  <2>2. <<c[i].head.from, c[i].head.to>> \in Sources /\ c[i].kind \in Names
    OBVIOUS
  <2>3. a.source \in Sources /\ a.protocol \in Names
    OBVIOUS
  <2> HIDE DEF Sources, Names, Colors
  <2> QED BY <2>1, <2>2, <2>3 DEF Summed
<1> HIDE DEF A
<1>4. G \in [1..n -> [A -> A]]
  BY <1>3
<1>5. PICK f0 \in [SUBSET (1..n) -> A] : Folds(f0, G, Unsummed, n)
  <2> HIDE DEF G, n
  <2> QED BY <1>0, <1>2, <1>4, FoldThere
<1>6. P(f0)
  <2>1. f0 = [s \in SUBSET (1..n) |-> FoldStep(G, Unsummed, f0, s)]
    BY <1>5 DEF Folds
  <2>2. ASSUME NEW s \in SUBSET (1..n)
        PROVE  FoldStep(G, Unsummed, f0, s) =
                  IF s = {} THEN Unsummed ELSE Summed(f0[s \ {Max(s)}], c[Max(s)])
    <3>1. s # {} => Max(s) \in 1..n
      BY <1>0, LargestOf
    <3>2. f0[s \ {Max(s)}] \in A
      BY <1>5
    <3> QED BY <3>1, <3>2 DEF FoldStep
  <2> HIDE DEF G
  <2> QED BY <1>0, <2>1, <2>2
<1> DEFINE f == CHOOSE f : P(f)
<1>7. P(f)
  <2> HIDE DEF P
  <2> QED BY <1>6
<1> HIDE DEF f
<1>8. f[1..0] = Unsummed
  <2>1. 1..0 = {} /\ 1..0 \in SUBSET (1..n)
    OBVIOUS
  <2> QED BY <1>0, <1>7, <2>1
<1>9. ASSUME NEW k \in 1..n PROVE f[1..k] = Summed(f[1..(k - 1)], c[k])
  <2>1. /\ 1..k \in SUBSET (1..n) /\ 1..k # {} /\ Max(1..k) = k
        /\ (1..k) \ {k} = 1..(k - 1)
    BY <1>0, FirstPlaces
  <2> QED BY <1>0, <1>7, <2>1
<1> DEFINE g == [k \in 0..n |-> f[1..k]]
<1>10. /\ g[0] = Unsummed /\ g[n] = f[1..n]
       /\ \A k \in 1..n : g[k] = f[1..k] /\ g[k - 1] = f[1..(k - 1)]
  <2>1. 0 \in 0..n /\ n \in 0..n /\ \A k \in 1..n : k \in 0..n /\ k - 1 \in 0..n
    BY <1>0
  <2> QED BY <1>8, <2>1
<1>11. Summary = f[1..n]
  BY <1>0, <1>1 DEF f
<1> HIDE DEF g
<1>12. \A k \in 1..n : g[k] = Summed(g[k - 1], layers[k])
  BY <1>9, <1>10
<1>13. g[0] = Unsummed /\ Summary = g[Len(layers)]
  BY <1>10, <1>11
<1> WITNESS g
<1> QED BY <1>12, <1>13

LEMMA SmallestOne == ASSUME NEW j \in Nat PROVE Min({j}) = j
<1>1. \E x \in {j} : \A y \in {j} : x <= y
  OBVIOUS
<1>2. Min({j}) \in {j}
  BY <1>1, Zenon DEF Min
<1> QED BY <1>2

LEMMA SummaryIsExact == DecodeInv => SummaryExact
<1> SUFFICES ASSUME DecodeInv PROVE SummaryExact
  OBVIOUS
<1> DEFINE n == Len(layers)
<1>1. layers \in Seq(Layers) /\ n \in Nat /\ DOMAIN layers = 1..n
  BY DEF DecodeInv, DecodeType
<1>2. PICK g : /\ g[0] = Unsummed /\ Summary = g[n]
               /\ \A k \in 1..n : g[k] = Summed(g[k - 1], layers[k])
  BY <1>1, SummaryClimbs
<1> HIDE DEF n
<1>3. \A i \in 1..n : layers[i].kind \in Chain \cup Applications \cup {"payload"}
  <2>1. \A i \in 1..n : layers[i] \in Layers
    BY <1>1
  <2> QED BY <2>1 DEF Layers
<1>4. \A i, j \in 1..n : i < j => Rank[layers[i].kind] < Rank[layers[j].kind]
  BY <1>1 DEF DecodeInv, Rising
<1>5. ASSUME IpPair # <<>>
      PROVE  Summary.source = IpPair
  <2> DEFINE ip == OfKind({"ipv4", "ipv6"})
  <2>1. ip # {}
    BY <1>5 DEF IpPair
  <2>2. PICK j \in 1..n : layers[j].kind \in {"ipv4", "ipv6"}
    BY <1>1, <2>1 DEF OfKind
  <2>3. \A i \in 1..n : layers[i].kind \in {"arp", "ipv4", "ipv6"} => i = j
    <3> SUFFICES ASSUME NEW i \in 1..n, layers[i].kind \in {"arp", "ipv4", "ipv6"} PROVE i = j
      OBVIOUS
    <3>1. Rank[layers[i].kind] = 2 /\ Rank[layers[j].kind] = 2
      BY <2>2, Ranks
    <3>2. ~(i < j) /\ ~(j < i)
      BY <1>4, <3>1
    <3> QED BY <1>1, <3>2
  <2>4. ip = {j}
    BY <1>1, <2>2, <2>3 DEF OfKind
  <2>5. IpPair = <<layers[j].head.from, layers[j].head.to>>
    <3>1. j \in Nat
      BY <1>1
    <3>2. Min(ip) = j
      BY <2>4, <3>1, SmallestOne
    <3> HIDE DEF ip
    <3>3. IpPair = <<layers[Min(ip)].head.from, layers[Min(ip)].head.to>>
      BY <2>1 DEF IpPair, ip
    <3> QED BY <3>2, <3>3
  <2>6. g[j].source = IpPair
    <3>1. g[j] = Summed(g[j - 1], layers[j])
      BY <1>2
    <3> QED BY <2>2, <2>5, <3>1 DEF Summed
  <2> DEFINE Bad == {k \in j..n : g[k].source # IpPair}
  <2>7. Bad = {}
    <3> SUFFICES ASSUME Bad # {} PROVE FALSE
      OBVIOUS
    <3>1. PICK k \in Bad : \A m \in Bad : k <= m
      <4>1. Bad \in SUBSET Nat
        BY <1>1
      <4> HIDE DEF Bad
      <4> QED BY <4>1, LeastOf
    <3>2. k # j
      BY <2>6, <3>1
    <3>3. k \in 1..n /\ k - 1 \in j..n /\ k - 1 \notin Bad /\ k # j
      BY <1>1, <2>2, <3>1, <3>2
    <3>4. g[k - 1].source = IpPair /\ g[k] = Summed(g[k - 1], layers[k])
      BY <1>2, <3>3
    <3>5. layers[k].kind \notin {"arp", "ipv4", "ipv6"}
      BY <2>3, <3>3
    <3>6. g[k].source = IpPair
      BY <1>5, <3>4, <3>5 DEF Summed
    <3> QED BY <3>1, <3>6
  <2>8. n \in j..n
    BY <1>1, <2>2
  <2> QED BY <1>2, <2>7, <2>8
<1>6. ASSUME IpPair # <<>>
      PROVE  LET ours == IF LocalIps # {} THEN LocalIps ELSE PrivateIps
             IN  Direction = "in" <=> Way(<<IpPair[2], IpPair[1]>>, ours) = "out"
  <2> DEFINE ours == IF LocalIps # {} THEN LocalIps ELSE PrivateIps
  <2>1. Direction = Way(IpPair, ours)
    BY <1>6 DEF Direction
  <2>2. ASSUME NEW x, NEW y, NEW S
        PROVE  Way(<<x, y>>, S) = "in" <=> Way(<<y, x>>, S) = "out"
    BY DEF Way
  <2>3. \E x, y : IpPair = <<x, y>>
    BY <1>6 DEF IpPair
  <2>4. PICK x, y : IpPair = <<x, y>>
    BY <2>3
  <2>5. IpPair[1] = x /\ IpPair[2] = y
    BY <2>4
  <2> HIDE DEF ours
  <2>6. Way(<<x, y>>, ours) = "in" <=> Way(<<y, x>>, ours) = "out"
    BY <2>2
  <2> QED BY <2>1, <2>4, <2>5, <2>6 DEF ours
\* What is called TCP has its color.
<1>7. Summary.protocol = "tcp" => Summary.color = "tcp"
  <2> DEFINE Bad == {k \in 0..n : ~(g[k].protocol = "tcp" => g[k].color = "tcp")}
  <2>1. Bad = {}
    <3> SUFFICES ASSUME Bad # {} PROVE FALSE
      OBVIOUS
    <3>1. PICK k \in Bad : \A m \in Bad : k <= m
      <4>1. Bad \in SUBSET Nat
        BY <1>1
      <4> HIDE DEF Bad
      <4> QED BY <4>1, LeastOf
    <3>2. k # 0
      BY <1>2, <3>1 DEF Unsummed
    <3>3. k \in 1..n /\ k - 1 \in 0..n /\ k - 1 \notin Bad
      BY <1>1, <3>1, <3>2
    <3>4. (g[k - 1].protocol = "tcp" => g[k - 1].color = "tcp") /\ g[k] = Summed(g[k - 1], layers[k])
      BY <1>2, <3>3
    <3>5. g[k].protocol = "tcp" => g[k].color = "tcp"
      <4>1. CASE layers[k].kind \in {"ethernet", "payload"}
        BY <3>4, <4>1 DEF Summed, Shade
      <4>2. CASE layers[k].kind \notin {"ethernet", "payload"}
        BY <3>4, <4>2 DEF Summed, Shade
      <4> QED BY <4>1, <4>2
    <3> QED BY <3>1, <3>5
  <2>2. n \in 0..n
    BY <1>1
  <2> QED BY <1>2, <2>1, <2>2
<1>8. OfKind({"dns", "hello", "handshake"}) # {} => Summary.color \notin {"tcp", "udp"}
  <2> SUFFICES ASSUME OfKind({"dns", "hello", "handshake"}) # {} PROVE Summary.color \notin {"tcp", "udp"}
    OBVIOUS
  <2>1. PICK i \in 1..n : layers[i].kind \in {"dns", "hello", "handshake"}
    BY <1>1, SMTT(30) DEF OfKind
  <2>2. i = n - 1 /\ layers[i + 1].kind = "payload"
    <3>1. layers[i].kind \in Applications
      BY <2>1 DEF Applications
    <3> QED BY <1>1, <3>1 DEF DecodeInv, ApplicationPlaced, n
  <2>3. i + 1 = n /\ n \in 1..n /\ n - 1 = i
    BY <1>1, <2>1, <2>2
  <2>4. g[i].color \in {"dns", "tls"}
    <3>1. g[i] = Summed(g[i - 1], layers[i])
      BY <1>2
    <3>2. \A x : Shade(layers[i].kind, x) \in {"dns", "tls"}
      BY <2>1 DEF Shade
    <3> QED BY <3>1, <3>2 DEF Summed
  <2>5. g[n].color = g[i].color
    <3>1. g[n] = Summed(g[i], layers[n])
      BY <1>2, <2>3
    <3>2. \A x : Shade("payload", x) = x
      BY DEF Shade
    <3> QED BY <2>2, <2>3, <3>1, <3>2 DEF Summed
  <2> QED BY <1>2, <2>4, <2>5
<1> QED BY <1>5, <1>6, <1>7, <1>8 DEF SummaryExact

\* decode_layers takes the headers of a frame one behind the other, in the
\* order of the decoders, and knows why it stops.
THEOREM DecodeSound == DecodeSpec => []DecodeInv
BY DecodeInitInv, DecodeStep, PTL DEF DecodeSpec

\* What decode_layers and compute_summary take a packet for is what was sent:
\* every header that was captured whole and no other, no byte looked at behind
\* the capture, and the addresses it travels between.
THEOREM DecodeIsExact == DecodeSpec => []DecodeExact
<1>1. DecodeInv => DecodeExact
  BY ChainIsExact, SummaryIsExact DEF DecodeInv, DecodeExact
<1> QED BY <1>1, DecodeSound, PTL
=============================================================================
