---------------------------- MODULE BorderProofs -----------------------------
(***************************************************************************)
(* What the package converts at its border to Windows comes out right, for *)
(* values of any length, coordinates of any width, sub-authorities of any  *)
(* size and numerals to any base:                                          *)
(*   - the three readers return one value, whole, within their buffers;    *)
(*   - a signature becomes the strict DER form of the two numbers that the *)
(*     KSP returned, and a key is read from the blobs written for it;      *)
(*   - a service SID goes through decimal text and binary form unchanged,  *)
(*     and only such SIDs are recognized.                                  *)
(*                                                                         *)
(* The last two rest on what the recursive functions of Numerals compute.  *)
(* Induction is used on sets of numbers: the numbers outside of the set    *)
(* would have a least one, which the step puts into it.                    *)
(***************************************************************************)
EXTENDS Border, WellFoundedInduction, TLAPS

-----------------------------------------------------------------------------
(***************************************************************************)
(* Induction and recursion, in a form that speaks of sets and functions.   *)
(***************************************************************************)
\* A set that takes in a number when it has all smaller ones has them all.
LEMMA StrongInduction ==
    ASSUME NEW S, \A n \in Nat : (\A m \in 0..(n - 1) : m \in S) => n \in S
    PROVE  Nat \subseteq S
<1> DEFINE T == Nat \ S
           R == OpToRel(<, Nat)
<1>1. SUFFICES ASSUME T # {} PROVE FALSE
  OBVIOUS
<1>2. IsWellFoundedOn(R, Nat)
  BY NatLessThanWellFounded
<1>3. PICK n \in T : \A m \in T : ~(<<m, n>> \in R)
  <2> T \subseteq Nat
    OBVIOUS
  <2> HIDE DEF R
  <2> QED BY <1>1, <1>2, WFMin
<1>4. \A m \in Nat : m < n => <<m, n>> \in R
  BY DEF OpToRel
<1>5. ASSUME NEW m \in 0..(n - 1) PROVE m \in S
  <2>1. m \in Nat /\ m < n
    OBVIOUS
  <2> HIDE DEF R
  <2>2. m \notin T
    BY <1>3, <1>4, <2>1
  <2> QED BY <2>1, <2>2
<1> QED BY <1>5

LEMMA Induction ==
    ASSUME NEW S, 0 \in S, \A n \in Nat : n \in S => n + 1 \in S
    PROVE  Nat \subseteq S
<1>1. ASSUME NEW n \in Nat, \A m \in 0..(n - 1) : m \in S PROVE n \in S
  <2>1. CASE n # 0
    <3>1. n - 1 \in Nat /\ n - 1 \in 0..(n - 1) /\ (n - 1) + 1 = n
      BY <2>1
    <3> QED BY <1>1, <3>1
  <2> QED BY <2>1
<1> QED BY <1>1, StrongInduction

\* A step that computes a function at each point from the values at points of
\* a lower rank has a fixpoint: what it computes when it is repeated.
Descends(step, rank, S, T) ==
    /\ T # {} /\ rank \in [S -> Nat] /\ step \in [[S -> T] -> [S -> T]]
    /\ \A f, g \in [S -> T] : \A x \in S :
          (\A y \in S : rank[y] < rank[x] => f[y] = g[y]) => step[f][x] = step[g][x]

LEMMA Recursion ==
    ASSUME NEW S, NEW T, NEW rank, NEW step, Descends(step, rank, S, T)
    PROVE  \E f \in [S -> T] : f = step[f]
<1> PICK t : t \in T
  BY DEF Descends
<1>1. /\ rank \in [S -> Nat] /\ step \in [[S -> T] -> [S -> T]]
      /\ \A f, g \in [S -> T] : \A x \in S :
            (\A y \in S : rank[y] < rank[x] => f[y] = g[y]) => step[f][x] = step[g][x]
  BY DEF Descends
<1> USE <1>1
<1> DEFINE Fixed(f, n) == \A x \in S : rank[x] < n => f[x] = step[f][x]
<1>2. \A n \in Nat : \E f \in [S -> T] : Fixed(f, n)
  <2> DEFINE N == {n \in Nat : \E f \in [S -> T] : Fixed(f, n)}
  <2>1. 0 \in N
    <3>1. [x \in S |-> t] \in [S -> T] /\ Fixed([x \in S |-> t], 0)
      OBVIOUS
    <3> QED BY <3>1
  <2>2. ASSUME NEW n \in Nat, n \in N PROVE n + 1 \in N
    <3>1. PICK f \in [S -> T] : Fixed(f, n)
      BY <2>2
    <3>2. step[f] \in [S -> T]
      OBVIOUS
    <3>3. ASSUME NEW x \in S, rank[x] < n + 1 PROVE step[f][x] = step[step[f]][x]
      <4>1. \A y \in S : rank[y] < rank[x] => f[y] = step[f][y]
        BY <3>1, <3>3
      <4> QED BY <3>2, <4>1
    <3> QED BY <3>2, <3>3
  <2> HIDE DEF N
  <2>3. Nat \subseteq N
    BY <2>1, <2>2, Induction
  <2> QED BY <2>3 DEF N
<1>3. \A n \in Nat : \A f, g \in [S -> T] :
         Fixed(f, n) /\ Fixed(g, n) => \A x \in S : rank[x] < n => f[x] = g[x]
  <2> DEFINE N == {n \in Nat : \A f, g \in [S -> T] :
                      Fixed(f, n) /\ Fixed(g, n) => \A x \in S : rank[x] < n => f[x] = g[x]}
  <2>1. 0 \in N
    OBVIOUS
  <2>2. ASSUME NEW n \in Nat, n \in N PROVE n + 1 \in N
    <3>1. ASSUME NEW f \in [S -> T], NEW g \in [S -> T], Fixed(f, n + 1), Fixed(g, n + 1),
                 NEW x \in S, rank[x] < n + 1
          PROVE  f[x] = g[x]
      <4>1. Fixed(f, n) /\ Fixed(g, n)
        BY <3>1
      <4>2. \A y \in S : rank[y] < rank[x] => f[y] = g[y]
        BY <2>2, <3>1, <4>1
      <4>3. step[f][x] = step[g][x]
        BY <4>2
      <4>4. f[x] = step[f][x] /\ g[x] = step[g][x]
        BY <3>1
      <4> QED BY <4>3, <4>4
    <3>2. \A f, g \in [S -> T] :
             Fixed(f, n + 1) /\ Fixed(g, n + 1) =>
                \A x \in S : rank[x] < n + 1 => f[x] = g[x]
      <4> HIDE DEF Fixed
      <4> QED BY <3>1
    <3> HIDE DEF Fixed
    <3>3. n + 1 \in Nat
      OBVIOUS
    <3> QED BY <3>2, <3>3, Zenon
  <2> HIDE DEF N
  <2>3. Nat \subseteq N
    BY <2>1, <2>2, Induction
  <2> QED BY <2>3 DEF N
<1> DEFINE fix == [n \in Nat |-> CHOOSE f \in [S -> T] : Fixed(f, n)]
           F == [x \in S |-> fix[rank[x] + 1][x]]
<1>4. \A n \in Nat : fix[n] \in [S -> T] /\ Fixed(fix[n], n)
  <2> HIDE DEF Fixed
  <2> QED BY <1>2
<1> HIDE DEF fix
<1>5. F \in [S -> T]
  BY <1>4
<1>6. ASSUME NEW x \in S PROVE F[x] = step[F][x]
  <2>1. PICK f \in [S -> T] : f = fix[rank[x] + 1] /\ Fixed(f, rank[x] + 1)
    BY <1>4
  <2>2. F[x] = f[x] /\ f[x] = step[f][x]
    BY <2>1
  <2>3. ASSUME NEW y \in S, rank[y] < rank[x] PROVE F[y] = f[y]
    <3>1. PICK g \in [S -> T] : g = fix[rank[y] + 1] /\ Fixed(g, rank[y] + 1)
      BY <1>4
    <3>2. Fixed(f, rank[y] + 1)
      BY <2>1, <2>3
    <3>3. rank[y] + 1 \in Nat /\ rank[y] < rank[y] + 1 /\ F[y] = g[y]
      BY <3>1
    <3> HIDE DEF Fixed
    <3>4. g[y] = f[y]
      BY <1>3, <3>1, <3>2, <3>3
    <3> QED BY <3>3, <3>4
  <2>4. step[F][x] = step[f][x]
    <3> HIDE DEF F
    <3> QED BY <1>5, <2>3
  <2> QED BY <2>2, <2>4
<1>7. F = step[F]
  <2> HIDE DEF F
  <2>1. step[F] \in [S -> T]
    BY <1>5
  <2> QED BY <1>5, <1>6, <2>1
<1> QED BY <1>5, <1>7

-----------------------------------------------------------------------------
(***************************************************************************)
(* Division by the base.                                                   *)
(***************************************************************************)
LEMMA BaseFacts ==
    ASSUME NEW b \in Nat, b > 1
    PROVE  DigitsTo(b) = 0..(b - 1) /\ 0 \in DigitsTo(b)
BY DEF DigitsTo

LEMMA Division ==
    ASSUME NEW b \in Nat, b > 1, NEW v \in Nat
    PROVE  \E q \in Nat, r \in DigitsTo(b) :
              v \div b = q /\ v % b = r /\ v = b * q + r
<1>1. PICK q : q = v \div b
  OBVIOUS
<1>2. PICK r : r = v % b
  OBVIOUS
<1>3. q \in Nat /\ r \in DigitsTo(b)
  BY <1>1, <1>2, BaseFacts
<1>4. v % b = v - b * (v \div b)
  BY BaseFacts, SMTT(30)
<1>5. r = v - b * q
  BY <1>1, <1>2, <1>4, Zenon
<1>6. v = b * q + r
  BY <1>3, <1>5, BaseFacts
<1> QED BY <1>1, <1>2, <1>3, <1>6

LEMMA Multiples ==
    ASSUME NEW b \in Nat, b > 1, NEW p \in Nat, NEW q \in Nat, p > q
    PROVE  b * p \in Nat /\ b * q \in Nat /\ b * p >= b * q + b
<1>1. p >= q + 1
  OBVIOUS
<1>2. b * p >= b * (q + 1)
  BY <1>1, BaseFacts
<1>3. b * (q + 1) = b * q + b
  BY BaseFacts
<1>4. b * p \in Nat /\ b * q \in Nat
  BY BaseFacts
<1> QED BY <1>2, <1>3, <1>4, BaseFacts

LEMMA Apart ==
    ASSUME NEW b \in Nat, b > 1, NEW p \in Nat, NEW q \in Nat, p > q,
           NEW r \in DigitsTo(b), NEW s \in DigitsTo(b)
    PROVE  b * p + s # b * q + r
<1>1. PICK x : x = b * p
  OBVIOUS
<1>2. PICK y : y = b * q
  OBVIOUS
<1>3. x \in Nat /\ y \in Nat /\ x >= y + b
  BY <1>1, <1>2, Multiples
<1>4. r \in Nat /\ s \in Nat /\ r < b
  BY BaseFacts
<1>5. x + s # y + r
  BY <1>3, <1>4, BaseFacts
<1> QED BY <1>1, <1>2, <1>5

\* A number is put together from its quotient and its remainder only.
LEMMA Composition ==
    ASSUME NEW b \in Nat, b > 1, NEW q \in Nat, NEW r \in DigitsTo(b)
    PROVE  /\ b * q + r \in Nat
           /\ (b * q + r) \div b = q /\ (b * q + r) % b = r
           /\ q > 0 => b * q + r >= b /\ b * q + r > q
<1>1. r \in Nat /\ r < b /\ b * q \in Nat
  BY BaseFacts
<1>2. PICK v : v = b * q + r
  OBVIOUS
<1>3. v \in Nat
  BY <1>1, <1>2
<1>4. PICK p \in Nat, s \in DigitsTo(b) : v \div b = p /\ v % b = s /\ v = b * p + s
  BY <1>3, Division
<1>5. s \in Nat /\ b * p \in Nat
  BY BaseFacts
<1>6. p = q
  <2>1. ~(p > q)
    BY <1>2, <1>4, Apart
  <2>2. ~(q > p)
    BY <1>2, <1>4, Apart
  <2> QED BY <1>4, <2>1, <2>2
<1>7. s = r
  BY <1>1, <1>2, <1>4, <1>5, <1>6
<1>8. ASSUME q > 0 PROVE v >= b /\ v > q
  <2>1. b * q >= b
    <3>1. b * q >= b * 0 + b /\ b * 0 = 0
      BY <1>8, Multiples, BaseFacts
    <3> QED BY <3>1, BaseFacts
  <2>2. b * q >= 2 * q
    BY BaseFacts
  <2> QED BY <1>1, <1>2, <1>8, <2>1, <2>2
<1> QED BY <1>2, <1>3, <1>4, <1>6, <1>7, <1>8, Zenon

LEMMA Quotient ==
    ASSUME NEW b \in Nat, b > 1, NEW v \in Nat, v >= b
    PROVE  \E q \in Nat : v \div b = q /\ 0 < q /\ q < v
<1>1. PICK q \in Nat, r \in DigitsTo(b) : v \div b = q /\ v % b = r /\ v = b * q + r
  BY Division
<1>2. v = b * q + r
  BY <1>1
<1>3. q # 0
  <2>1. ASSUME q = 0 PROVE FALSE
    <3>1. b * 0 = 0 /\ r < b /\ r \in Nat
      BY <1>2, BaseFacts
    <3>2. v = 0 + r
      BY <1>2, <2>1, <3>1
    <3> QED BY <3>1, <3>2, BaseFacts
  <2> QED BY <2>1
<1>4. v > q
  <2>1. q > 0
    BY <1>2, <1>3
  <2>2. b * q + r > q
    BY <1>2, <2>1, Composition
  <2> QED BY <1>2, <2>2, Zenon
<1> QED BY <1>1, <1>3, <1>4

-----------------------------------------------------------------------------
(***************************************************************************)
(* What NumeralOf(b) and NumberOf(b) compute.                              *)
(***************************************************************************)
\* The recursive definitions have the functions they describe for solutions.
LEMMA NumeralDef ==
    ASSUME NEW b \in Nat, b > 1
    PROVE  NumeralOf(b) = [v \in Nat |->
                 IF v < b THEN <<v>> ELSE Append(NumeralOf(b)[v \div b], v % b)]
<1> DEFINE Parts == Seq(DigitsTo(b))
           rank == [v \in Nat |-> v]
           step == [f \in [Nat -> Parts] |->
                      [v \in Nat |-> IF v < b THEN <<v>>
                                     ELSE Append(f[v \div b], v % b)]]
<1>1. step \in [[Nat -> Parts] -> [Nat -> Parts]]
  <2> SUFFICES ASSUME NEW f \in [Nat -> Parts], NEW v \in Nat
               PROVE  (IF v < b THEN <<v>> ELSE Append(f[v \div b], v % b))
                         \in Parts
    OBVIOUS
  <2>1. CASE v < b
    BY <2>1, BaseFacts
  <2>2. CASE ~(v < b)
    <3>1. f[v \div b] \in Parts /\ v % b \in DigitsTo(b)
      BY Division
    <3> QED BY <2>2, <3>1
  <2> QED BY <2>1, <2>2
<1>2. ASSUME NEW f \in [Nat -> Parts], NEW g \in [Nat -> Parts],
             NEW v \in Nat, \A w \in Nat : rank[w] < rank[v] => f[w] = g[w]
      PROVE  step[f][v] = step[g][v]
  <2>1. CASE v < b
    BY <2>1
  <2>2. CASE ~(v < b)
    <3>1. v >= b
      BY <2>2, BaseFacts
    <3>2. PICK q \in Nat : v \div b = q /\ q < v
      BY <3>1, Quotient
    <3>3. f[q] = g[q]
      BY <1>2, <3>2
    <3> QED BY <2>2, <3>2, <3>3
  <2> QED BY <2>1, <2>2
<1>3. <<>> \in Parts /\ rank \in [Nat -> Nat]
  OBVIOUS
<1>4. \E f \in [Nat -> Parts] : f = step[f]
  <2> HIDE DEF rank, step, Parts
  <2>1. \A f, g \in [Nat -> Parts] : \A x \in Nat :
           (\A y \in Nat : rank[y] < rank[x] => f[y] = g[y]) => step[f][x] = step[g][x]
    BY <1>2
  <2>2. Descends(step, rank, Nat, Parts)
    BY <1>1, <1>3, <2>1 DEF Descends
  <2> QED BY <2>2, Recursion
<1>5. \E f : f = [v \in Nat |-> IF v < b THEN <<v>> ELSE Append(f[v \div b], v % b)]
  BY <1>4
<1> QED BY <1>5, Zenon DEF NumeralOf

LEMMA NumberDef ==
    ASSUME NEW b \in Nat, b > 1
    PROVE  NumberOf(b) = [digits \in Seq(DigitsTo(b)) |->
               IF digits = <<>> THEN 0
               ELSE b * NumberOf(b)[SubSeq(digits, 1, Len(digits) - 1)] + digits[Len(digits)]]
<1> DEFINE rank == [digits \in Seq(DigitsTo(b)) |-> Len(digits)]
           step == [f \in [Seq(DigitsTo(b)) -> Nat] |->
                      [digits \in Seq(DigitsTo(b)) |->
                         IF digits = <<>> THEN 0
                         ELSE b * f[SubSeq(digits, 1, Len(digits) - 1)] + digits[Len(digits)]]]
<1>1. \A digits \in Seq(DigitsTo(b)) : digits # <<>> =>
         /\ SubSeq(digits, 1, Len(digits) - 1) \in Seq(DigitsTo(b))
         /\ Len(SubSeq(digits, 1, Len(digits) - 1)) < Len(digits)
         /\ digits[Len(digits)] \in DigitsTo(b)
  OBVIOUS
<1>2. step \in [[Seq(DigitsTo(b)) -> Nat] -> [Seq(DigitsTo(b)) -> Nat]]
  <2> SUFFICES ASSUME NEW f \in [Seq(DigitsTo(b)) -> Nat],
                      NEW digits \in Seq(DigitsTo(b)), digits # <<>>
               PROVE  b * f[SubSeq(digits, 1, Len(digits) - 1)] + digits[Len(digits)] \in Nat
    OBVIOUS
  <2>1. f[SubSeq(digits, 1, Len(digits) - 1)] \in Nat
    BY <1>1
  <2> QED BY <1>1, <2>1, Composition
<1>3. ASSUME NEW f \in [Seq(DigitsTo(b)) -> Nat], NEW g \in [Seq(DigitsTo(b)) -> Nat],
             NEW digits \in Seq(DigitsTo(b)),
             \A other \in Seq(DigitsTo(b)) : rank[other] < rank[digits] => f[other] = g[other]
      PROVE  step[f][digits] = step[g][digits]
  <2>1. digits # <<>> =>
           f[SubSeq(digits, 1, Len(digits) - 1)] = g[SubSeq(digits, 1, Len(digits) - 1)]
    BY <1>1, <1>3
  <2> QED BY <2>1
<1>4. 0 \in Nat /\ rank \in [Seq(DigitsTo(b)) -> Nat]
  OBVIOUS
<1>5. \E f \in [Seq(DigitsTo(b)) -> Nat] : f = step[f]
  <2> HIDE DEF rank, step
  <2>1. \A f, g \in [Seq(DigitsTo(b)) -> Nat] : \A x \in Seq(DigitsTo(b)) :
           (\A y \in Seq(DigitsTo(b)) : rank[y] < rank[x] => f[y] = g[y]) => step[f][x] = step[g][x]
    BY <1>3
  <2>2. Descends(step, rank, Seq(DigitsTo(b)), Nat)
    BY <1>2, <1>4, <2>1 DEF Descends
  <2> QED BY <2>2, Recursion
<1>6. \E f : f = [digits \in Seq(DigitsTo(b)) |->
                    IF digits = <<>> THEN 0
                    ELSE b * f[SubSeq(digits, 1, Len(digits) - 1)] + digits[Len(digits)]]
  BY <1>5
<1> QED BY <1>6, Zenon DEF NumberOf

\* A text is a shorter one and a last digit.
LEMMA LastDigit ==
    ASSUME NEW b \in Nat, b > 1, NEW digits \in Seq(DigitsTo(b)), digits # <<>>
    PROVE  \E front \in Seq(DigitsTo(b)), d \in DigitsTo(b) :
              /\ digits = Append(front, d) /\ Len(digits) = Len(front) + 1
              /\ front = SubSeq(digits, 1, Len(digits) - 1) /\ d = digits[Len(digits)]
<1> DEFINE front == SubSeq(digits, 1, Len(digits) - 1)
           d == digits[Len(digits)]
<1>1. Len(digits) \in Nat /\ Len(digits) > 0
  OBVIOUS
<1>2. front \in Seq(DigitsTo(b)) /\ d \in DigitsTo(b)
  BY <1>1
<1>3. Len(front) = Len(digits) - 1
  <2>1. PICK n \in Nat : n = Len(digits) - 1
    BY <1>1
  <2>2. Len(SubSeq(digits, 1, n)) = n
    BY <1>1, <2>1
  <2> QED BY <2>1, <2>2
<1>4. \A i \in 1..(Len(digits) - 1) : front[i] = digits[i]
  BY <1>1
<1>5. digits = Append(front, d)
  <2> HIDE DEF front, d
  <2>1. Len(Append(front, d)) = Len(digits) /\ Append(front, d) \in Seq(DigitsTo(b))
    BY <1>1, <1>2, <1>3
  <2>2. \A i \in 1..Len(digits) : Append(front, d)[i] = digits[i]
    BY <1>1, <1>2, <1>3, <1>4 DEF d
  <2> QED BY <2>1, <2>2
<1>6. Len(digits) = Len(front) + 1
  BY <1>1, <1>3
<1> QED BY <1>2, <1>5, <1>6

LEMMA NumberStep ==
    ASSUME NEW b \in Nat, b > 1
    PROVE  /\ NumberOf(b)[<<>>] = 0
    /\ \A front \in Seq(DigitsTo(b)), d \in DigitsTo(b) :
          NumberOf(b)[Append(front, d)] = b * NumberOf(b)[front] + d
<1>1. \A digits \in Seq(DigitsTo(b)) :
         NumberOf(b)[digits] = IF digits = <<>> THEN 0
                       ELSE b * NumberOf(b)[SubSeq(digits, 1, Len(digits) - 1)] + digits[Len(digits)]
  BY NumberDef, Zenon
<1>2. ASSUME NEW front \in Seq(DigitsTo(b)), NEW d \in DigitsTo(b)
      PROVE  NumberOf(b)[Append(front, d)] = b * NumberOf(b)[front] + d
  <2>1. PICK digits : digits = Append(front, d)
    OBVIOUS
  <2>2. /\ digits \in Seq(DigitsTo(b)) /\ digits # <<>>
        /\ SubSeq(digits, 1, Len(digits) - 1) = front /\ digits[Len(digits)] = d
    BY <2>1
  <2> QED BY <1>1, <2>1, <2>2
<1>3. NumberOf(b)[<<>>] = 0
  <2>1. <<>> \in Seq(DigitsTo(b))
    OBVIOUS
  <2> QED BY <1>1, <2>1, Zenon
<1> QED BY <1>2, <1>3

LEMMA NumberOfDigit ==
    ASSUME NEW b \in Nat, b > 1
    PROVE  \A d \in DigitsTo(b) : NumberOf(b)[<<d>>] = d
<1> SUFFICES ASSUME NEW d \in DigitsTo(b) PROVE NumberOf(b)[<<d>>] = d
  OBVIOUS
<1>1. <<>> \in Seq(DigitsTo(b)) /\ Append(<<>>, d) = <<d>>
  OBVIOUS
<1>2. NumberOf(b)[<<d>>] = b * NumberOf(b)[<<>>] + d
  BY <1>1, NumberStep, Zenon
<1>3. b * 0 = 0 /\ d \in Nat
  BY BaseFacts
<1>4. NumberOf(b)[<<d>>] = 0 + d
  BY <1>2, <1>3, NumberStep, Zenon
<1> QED BY <1>3, <1>4

\* Digits stand for a number.
LEMMA NumberType ==
    ASSUME NEW b \in Nat, b > 1
    PROVE  \A digits \in Seq(DigitsTo(b)) : NumberOf(b)[digits] \in Nat
<1> DEFINE N == {n \in Nat : \A digits \in Seq(DigitsTo(b)) :
                    Len(digits) = n => NumberOf(b)[digits] \in Nat}
<1>1. 0 \in N
  BY NumberStep
<1>2. ASSUME NEW n \in Nat, n \in N PROVE n + 1 \in N
  <2> SUFFICES ASSUME NEW digits \in Seq(DigitsTo(b)), Len(digits) = n + 1
               PROVE  NumberOf(b)[digits] \in Nat
    OBVIOUS
  <2>1. PICK front \in Seq(DigitsTo(b)), d \in DigitsTo(b) :
           digits = Append(front, d) /\ Len(digits) = Len(front) + 1
    <3>1. digits # <<>>
      OBVIOUS
    <3> QED BY <3>1, LastDigit
  <2>2. NumberOf(b)[front] \in Nat
    BY <1>2, <2>1
  <2> QED BY <2>1, <2>2, NumberStep, Composition
<1> HIDE DEF N
<1>3. Nat \subseteq N
  BY <1>1, <1>2, Induction
<1> QED BY <1>3 DEF N

LEMMA NumeralStep ==
    ASSUME NEW b \in Nat, b > 1
    PROVE  /\ \A v \in Nat : v < b => NumeralOf(b)[v] = <<v>>
    /\ \A q \in Nat, r \in DigitsTo(b) :
          q > 0 => NumeralOf(b)[b * q + r] = Append(NumeralOf(b)[q], r)
<1>1. \A v \in Nat :
         NumeralOf(b)[v] = IF v < b THEN <<v>> ELSE Append(NumeralOf(b)[v \div b], v % b)
  BY NumeralDef, Zenon
<1>2. ASSUME NEW q \in Nat, NEW r \in DigitsTo(b), q > 0
      PROVE  NumeralOf(b)[b * q + r] = Append(NumeralOf(b)[q], r)
  <2>1. PICK v : v = b * q + r
    OBVIOUS
  <2>2. v \in Nat /\ v >= b /\ v \div b = q /\ v % b = r
    BY <1>2, <2>1, Composition
  <2>3. ~(v < b)
    BY <2>2, BaseFacts
  <2> QED BY <1>1, <2>1, <2>2, <2>3, Zenon
<1> QED BY <1>1, <1>2

\* How a number is written: in digits, without a leading zero, and so that its
\* value is the number again.
Written(b, v) ==
    /\ NumeralOf(b)[v] \in Seq(DigitsTo(b)) /\ Len(NumeralOf(b)[v]) > 0
    /\ v > 0 => NumeralOf(b)[v][1] # 0
    /\ Len(NumeralOf(b)[v]) > 1 => NumeralOf(b)[v][1] # 0
    /\ NumberOf(b)[NumeralOf(b)[v]] = v

LEMMA NumeralIsWritten ==
    ASSUME NEW b \in Nat, b > 1
    PROVE  \A v \in Nat : Written(b, v)
<1> DEFINE N == {v \in Nat : Written(b, v)}
<1>1. ASSUME NEW v \in Nat, \A w \in 0..(v - 1) : w \in N PROVE v \in N
  <2>1. CASE v < b
    <3>1. NumeralOf(b)[v] = <<v>>
      BY <2>1, NumeralStep
    <3>2. v \in DigitsTo(b)
      BY <2>1, BaseFacts
    <3>3. NumberOf(b)[<<v>>] = v
      BY <3>2, NumberOfDigit
    <3>4. <<v>> \in Seq(DigitsTo(b)) /\ Len(<<v>>) = 1 /\ <<v>>[1] = v
      BY <3>2
    <3>5. v > 0 => v # 0
      OBVIOUS
    <3>6. Written(b, v)
      BY <3>1, <3>3, <3>4, <3>5 DEF Written
    <3> QED BY <3>6
  <2>2. CASE ~(v < b)
    <3>1. v >= b
      BY <2>2, BaseFacts
    <3>2. PICK q \in Nat, r \in DigitsTo(b) : v \div b = q /\ v % b = r /\ v = b * q + r
      BY Division
    <3>3. 0 < q /\ q < v
      BY <3>1, <3>2, Quotient
    <3>4. Written(b, q)
      BY <1>1, <3>3
    <3>5. NumeralOf(b)[v] = Append(NumeralOf(b)[q], r)
      <4>1. NumeralOf(b)[b * q + r] = Append(NumeralOf(b)[q], r)
        BY <3>2, <3>3, NumeralStep
      <4> QED BY <3>2, <4>1, Zenon
    <3>6. PICK front : front = NumeralOf(b)[q]
      OBVIOUS
    <3>7. /\ front \in Seq(DigitsTo(b)) /\ Len(front) > 0
          /\ front[1] # 0 /\ NumberOf(b)[front] = q
      BY <3>3, <3>4, <3>6 DEF Written
    <3>8. /\ Append(front, r) \in Seq(DigitsTo(b)) /\ Len(Append(front, r)) > 0
          /\ Append(front, r)[1] # 0
      BY <3>7
    <3>9. NumberOf(b)[Append(front, r)] = v
      BY <3>2, <3>7, NumberStep
    <3> QED BY <3>5, <3>6, <3>8, <3>9 DEF Written
  <2> QED BY <2>1, <2>2
<1> HIDE DEF N
<1>2. Nat \subseteq N
  BY <1>1, StrongInduction
<1> QED BY <1>2 DEF N

\* No other text without a leading zero has that value.
Canonical(digits) == Len(digits) > 0 /\ (Len(digits) > 1 => digits[1] # 0)

\* A text of digits without a leading zero is how its value is written.
LEMMA CanonicalIsNumeral ==
    ASSUME NEW b \in Nat, b > 1
    PROVE  \A digits \in Seq(DigitsTo(b)) :
              Canonical(digits) => NumeralOf(b)[NumberOf(b)[digits]] = digits
<1> DEFINE N == {n \in Nat : \A digits \in Seq(DigitsTo(b)) :
                    Len(digits) = n /\ Canonical(digits) => NumeralOf(b)[NumberOf(b)[digits]] = digits}
<1>1. 0 \in N
  BY DEF Canonical
<1>2. ASSUME NEW n \in Nat, n \in N PROVE n + 1 \in N
  <2> SUFFICES ASSUME NEW digits \in Seq(DigitsTo(b)), Len(digits) = n + 1, Canonical(digits)
               PROVE  NumeralOf(b)[NumberOf(b)[digits]] = digits
    OBVIOUS
  <2>1. PICK front \in Seq(DigitsTo(b)), d \in DigitsTo(b) :
           digits = Append(front, d) /\ Len(digits) = Len(front) + 1
    <3>1. digits # <<>>
      OBVIOUS
    <3> QED BY <3>1, LastDigit
  <2>2. PICK w \in Nat : w = NumberOf(b)[front]
    BY NumberType
  <2>3. NumberOf(b)[digits] = b * w + d
    BY <2>1, <2>2, NumberStep
  <2>4. CASE n = 0
    <3>1. front = <<>>
      BY <2>1, <2>4
    <3>2. digits = <<d>>
      BY <2>1, <3>1
    <3>3. NumberOf(b)[digits] = d /\ d \in Nat /\ d < b
      BY <3>2, NumberOfDigit, BaseFacts
    <3> QED BY <3>3, <3>2, NumeralStep
  <2>5. CASE n > 0
    <3>1. Len(front) = n /\ Len(digits) > 1 /\ front[1] = digits[1]
      BY <2>1, <2>5
    <3>2. Canonical(front) /\ front[1] # 0
      BY <2>5, <3>1 DEF Canonical
    <3>3. NumeralOf(b)[w] = front
      BY <1>2, <2>2, <3>1, <3>2
    <3>4. w > 0
      <4>1. NumeralOf(b)[0] = <<0>>
        BY NumeralStep, BaseFacts
      <4> QED BY <3>2, <3>3, <4>1
    <3>5. NumeralOf(b)[b * w + d] = Append(front, d)
      BY <3>3, <3>4, NumeralStep
    <3> QED BY <2>1, <2>3, <3>5
  <2> QED BY <2>4, <2>5
<1> HIDE DEF N
<1>3. Nat \subseteq N
  BY <1>1, <1>2, Induction
<1> QED BY <1>3 DEF N


-----------------------------------------------------------------------------
(***************************************************************************)
(* A fixed number of digits, and zeros in front.                           *)
(***************************************************************************)
LEMMA LastDigitsDef ==
    ASSUME NEW b \in Nat, b > 1
    PROVE  LastDigitsOf(b) =
             [w \in Nat |-> [n \in Nat |->
                IF w = 0 THEN <<>> ELSE Append(LastDigitsOf(b)[w - 1][n \div b], n % b)]]
<1> DEFINE Parts == [Nat -> Seq(DigitsTo(b))]
           rank == [w \in Nat |-> w]
           step == [f \in [Nat -> Parts] |->
                      [w \in Nat |-> [n \in Nat |->
                         IF w = 0 THEN <<>> ELSE Append(f[w - 1][n \div b], n % b)]]]
<1>1. step \in [[Nat -> Parts] -> [Nat -> Parts]]
  <2> SUFFICES ASSUME NEW f \in [Nat -> Parts], NEW w \in Nat, NEW n \in Nat
               PROVE  (IF w = 0 THEN <<>> ELSE Append(f[w - 1][n \div b], n % b))
                         \in Seq(DigitsTo(b))
    OBVIOUS
  <2>1. CASE w = 0
    BY <2>1
  <2>2. CASE w # 0
    <3>1. PICK q \in Nat, r \in DigitsTo(b) : n \div b = q /\ n % b = r
      BY Division
    <3>2. w - 1 \in Nat
      BY <2>2
    <3>3. PICK g \in Parts : g = f[w - 1]
      BY <3>2
    <3>4. g[q] \in Seq(DigitsTo(b))
      OBVIOUS
    <3>5. Append(g[q], r) \in Seq(DigitsTo(b))
      BY <3>1, <3>4
    <3> QED BY <2>2, <3>1, <3>3, <3>5
  <2> QED BY <2>1, <2>2
<1>2. ASSUME NEW f \in [Nat -> Parts], NEW g \in [Nat -> Parts],
             NEW w \in Nat, \A v \in Nat : rank[v] < rank[w] => f[v] = g[v]
      PROVE  step[f][w] = step[g][w]
  <2>1. CASE w = 0
    BY <2>1
  <2>2. CASE w # 0
    <3>1. f[w - 1] = g[w - 1]
      BY <1>2, <2>2
    <3> QED BY <3>1
  <2> QED BY <2>1, <2>2
<1>3. rank \in [Nat -> Nat]
  OBVIOUS
<1>4. Parts # {}
  <2>1. [n \in Nat |-> <<>>] \in Parts
    OBVIOUS
  <2> QED BY <2>1
<1>5. \E f \in [Nat -> Parts] : f = step[f]
  <2> HIDE DEF rank, step, Parts
  <2>1. \A f, g \in [Nat -> Parts] : \A x \in Nat :
           (\A y \in Nat : rank[y] < rank[x] => f[y] = g[y]) => step[f][x] = step[g][x]
    BY <1>2
  <2>2. Descends(step, rank, Nat, Parts)
    BY <1>1, <1>3, <1>4, <2>1 DEF Descends
  <2> QED BY <2>2, Recursion
<1>6. \E f : f = [w \in Nat |-> [n \in Nat |->
                    IF w = 0 THEN <<>> ELSE Append(f[w - 1][n \div b], n % b)]]
  BY <1>5
<1> QED BY <1>6, Zenon DEF LastDigitsOf

\* Digits, as many as there are, are the last digits of the number they stand for.
LEMMA LastDigitsOfNumber ==
    ASSUME NEW b \in Nat, b > 1
    PROVE  \A digits \in Seq(DigitsTo(b)) :
              LastDigitsOf(b)[Len(digits)][NumberOf(b)[digits]] = digits
<1> DEFINE N == {k \in Nat : \A digits \in Seq(DigitsTo(b)) :
                    Len(digits) = k => LastDigitsOf(b)[k][NumberOf(b)[digits]] = digits}
<1>1. \A w \in Nat : \A n \in Nat :
         LastDigitsOf(b)[w][n] =
            IF w = 0 THEN <<>> ELSE Append(LastDigitsOf(b)[w - 1][n \div b], n % b)
  <2>1. \A w \in Nat : LastDigitsOf(b)[w] = [n \in Nat |->
           IF w = 0 THEN <<>> ELSE Append(LastDigitsOf(b)[w - 1][n \div b], n % b)]
    BY LastDigitsDef, Zenon
  <2> QED BY <2>1, Zenon
<1>2. 0 \in N
  <2>1. ASSUME NEW digits \in Seq(DigitsTo(b)), Len(digits) = 0
        PROVE  LastDigitsOf(b)[0][NumberOf(b)[digits]] = digits
    <3>1. NumberOf(b)[digits] \in Nat
      BY NumberType
    <3>2. digits = <<>>
      BY <2>1
    <3>3. LastDigitsOf(b)[0][NumberOf(b)[digits]] = <<>>
      BY <1>1, <3>1
    <3> QED BY <3>2, <3>3
  <2> QED BY <2>1
<1>3. ASSUME NEW k \in Nat, k \in N PROVE k + 1 \in N
  <2> SUFFICES ASSUME NEW digits \in Seq(DigitsTo(b)), Len(digits) = k + 1
               PROVE  LastDigitsOf(b)[k + 1][NumberOf(b)[digits]] = digits
    OBVIOUS
  <2>1. PICK front \in Seq(DigitsTo(b)), d \in DigitsTo(b) :
           digits = Append(front, d) /\ Len(digits) = Len(front) + 1
    <3>1. digits # <<>>
      OBVIOUS
    <3> QED BY <3>1, LastDigit
  <2>2. PICK q \in Nat : q = NumberOf(b)[front]
    BY NumberType
  <2>3. PICK v : v = NumberOf(b)[digits]
    OBVIOUS
  <2>4. v = b * q + d
    BY <2>1, <2>2, <2>3, NumberStep
  <2>5. v \in Nat /\ v \div b = q /\ v % b = d
    BY <2>4, Composition
  <2>6. LastDigitsOf(b)[k][q] = front
    <3>1. Len(front) = k
      BY <2>1
    <3> QED BY <1>3, <2>2, <3>1
  <2>7. LastDigitsOf(b)[k + 1][v] = Append(LastDigitsOf(b)[k][q], d)
    <3>1. k + 1 \in Nat /\ k + 1 # 0 /\ (k + 1) - 1 = k
      OBVIOUS
    <3> QED BY <1>1, <2>5, <3>1
  <2> QED BY <2>1, <2>3, <2>6, <2>7
<1> HIDE DEF N
<1>4. Nat \subseteq N
  BY <1>2, <1>3, Induction
<1>5. \A digits \in Seq(DigitsTo(b)) : Len(digits) \in N
  BY <1>4
<1> QED BY <1>5 DEF N

Zeros(digits) == \A i \in DOMAIN digits : digits[i] = 0

\* Only zeros stand for zero.
LEMMA ZeroIsZeros ==
    ASSUME NEW b \in Nat, b > 1
    PROVE  \A digits \in Seq(DigitsTo(b)) : NumberOf(b)[digits] = 0 <=> Zeros(digits)
<1> DEFINE N == {k \in Nat : \A digits \in Seq(DigitsTo(b)) :
                    Len(digits) = k => (NumberOf(b)[digits] = 0 <=> Zeros(digits))}
<1>1. 0 \in N
  BY NumberStep DEF Zeros
<1>2. ASSUME NEW k \in Nat, k \in N PROVE k + 1 \in N
  <2> SUFFICES ASSUME NEW digits \in Seq(DigitsTo(b)), Len(digits) = k + 1
               PROVE  NumberOf(b)[digits] = 0 <=> Zeros(digits)
    OBVIOUS
  <2>1. PICK front \in Seq(DigitsTo(b)), d \in DigitsTo(b) :
           digits = Append(front, d) /\ Len(digits) = Len(front) + 1
    <3>1. digits # <<>>
      OBVIOUS
    <3> QED BY <3>1, LastDigit
  <2>2. PICK q \in Nat : q = NumberOf(b)[front]
    BY NumberType
  <2>3. NumberOf(b)[digits] = b * q + d
    BY <2>1, <2>2, NumberStep
  <2>4. q = 0 <=> Zeros(front)
    BY <1>2, <2>1, <2>2
  <2>5. d \in Nat /\ b * q \in Nat /\ (b * q = 0 <=> q = 0)
    <3>1. d \in Nat /\ b * q \in Nat /\ b * 0 = 0
      BY BaseFacts
    <3>2. q > 0 => b * q >= b * 0 + b
      BY Multiples
    <3> QED BY <3>1, <3>2
  <2>6. NumberOf(b)[digits] = 0 <=> q = 0 /\ d = 0
    <3>1. PICK x : x = b * q
      OBVIOUS
    <3>2. x + d = 0 <=> x = 0 /\ d = 0
      BY <2>5, <3>1
    <3> QED BY <2>3, <2>5, <3>1, <3>2
  <2>7. Zeros(digits) <=> Zeros(front) /\ d = 0
    BY <2>1 DEF Zeros
  <2> QED BY <2>4, <2>6, <2>7
<1> HIDE DEF N
<1>3. Nat \subseteq N
  BY <1>1, <1>2, Induction
<1>4. \A digits \in Seq(DigitsTo(b)) : Len(digits) \in N
  BY <1>3
<1> QED BY <1>4 DEF N

\* Zeros in front do not change what digits stand for.
LEMMA LeadingZeros ==
    ASSUME NEW b \in Nat, b > 1, NEW zeros \in Seq(DigitsTo(b)), Zeros(zeros)
    PROVE  \A digits \in Seq(DigitsTo(b)) : NumberOf(b)[zeros \o digits] = NumberOf(b)[digits]
<1> DEFINE N == {k \in Nat : \A digits \in Seq(DigitsTo(b)) :
                    Len(digits) = k => NumberOf(b)[zeros \o digits] = NumberOf(b)[digits]}
<1>1. 0 \in N
  <2>1. NumberOf(b)[zeros] = 0
    BY ZeroIsZeros
  <2>2. ASSUME NEW digits \in Seq(DigitsTo(b)), Len(digits) = 0
        PROVE  NumberOf(b)[zeros \o digits] = NumberOf(b)[digits]
    <3>1. digits = <<>> /\ zeros \o digits = zeros
      BY <2>2
    <3> QED BY <2>1, <3>1, NumberStep
  <2> QED BY <2>2
<1>2. ASSUME NEW k \in Nat, k \in N PROVE k + 1 \in N
  <2> SUFFICES ASSUME NEW digits \in Seq(DigitsTo(b)), Len(digits) = k + 1
               PROVE  NumberOf(b)[zeros \o digits] = NumberOf(b)[digits]
    OBVIOUS
  <2>1. PICK front \in Seq(DigitsTo(b)), d \in DigitsTo(b) :
           digits = Append(front, d) /\ Len(digits) = Len(front) + 1
    <3>1. digits # <<>>
      OBVIOUS
    <3> QED BY <3>1, LastDigit
  <2>2. zeros \o digits = Append(zeros \o front, d) /\ zeros \o front \in Seq(DigitsTo(b))
    BY <2>1
  <2>3. NumberOf(b)[zeros \o digits] = b * NumberOf(b)[zeros \o front] + d
    BY <2>2, NumberStep
  <2>4. NumberOf(b)[zeros \o front] = NumberOf(b)[front]
    BY <1>2, <2>1
  <2>5. NumberOf(b)[digits] = b * NumberOf(b)[front] + d
    BY <2>1, NumberStep
  <2> QED BY <2>3, <2>4, <2>5, Zenon
<1> HIDE DEF N
<1>3. Nat \subseteq N
  BY <1>1, <1>2, Induction
<1>4. \A digits \in Seq(DigitsTo(b)) : Len(digits) \in N
  BY <1>3
<1> QED BY <1>4 DEF N

-----------------------------------------------------------------------------
(***************************************************************************)
(* Bytes, and their concatenation.                                         *)
(***************************************************************************)
LEMMA ByteFacts ==
    /\ Byte \in Nat /\ Byte > 3 /\ Width \in Nat /\ Width > 0 /\ 2 * Width + 6 < Byte
    /\ High \in Nat /\ 2 * High <= Byte /\ Byte <= 2 * High + 1
    /\ Bytes = 0..(Byte - 1) /\ Bytes = DigitsTo(Byte) /\ Bytes \subseteq Nat
    /\ SequenceTag \in Bytes /\ IntegerTag \in Bytes /\ High + 1 \in Bytes
<1>1. Byte \in Nat /\ Byte > 3 /\ Width \in Nat /\ Width > 0 /\ 2 * Width + 6 < Byte
  BY EncodingAssumption
<1>2. High \in Nat /\ 2 * High <= Byte /\ Byte <= 2 * High + 1
  BY <1>1 DEF High
<1>3. Bytes = 0..(Byte - 1) /\ Bytes = DigitsTo(Byte) /\ Bytes \subseteq Nat
  BY <1>1 DEF Bytes, DigitsTo
<1>4. High + 1 \in Bytes
  BY <1>1, <1>2, <1>3
<1> QED BY <1>1, <1>2, <1>3, <1>4, EncodingAssumption

\* The same of bytes.
LEMMA NumberFacts ==
    /\ Number(<<>>) = 0
    /\ \A t \in Seq(Bytes) : Number(t) \in Nat /\ (Number(t) = 0 <=> Zeros(t))
    /\ \A z, t \in Seq(Bytes) : Zeros(z) => Number(z \o t) = Number(t)
<1>1. Byte \in Nat /\ Byte > 1 /\ Bytes = DigitsTo(Byte)
  BY ByteFacts
<1>2. NumberOf(Byte)[<<>>] = 0
  BY <1>1, NumberStep
<1>3. \A t \in Seq(Bytes) : NumberOf(Byte)[t] \in Nat
  BY <1>1, NumberType
<1>4. \A t \in Seq(Bytes) : NumberOf(Byte)[t] = 0 <=> Zeros(t)
  BY <1>1, ZeroIsZeros
<1>5. \A z, t \in Seq(Bytes) : Zeros(z) => NumberOf(Byte)[z \o t] = NumberOf(Byte)[t]
  BY <1>1, LeadingZeros
<1> QED BY <1>2, <1>3, <1>4, <1>5 DEF Number

LEMMA SameText ==
    ASSUME NEW S, NEW x \in Seq(S), NEW y \in Seq(S), Len(x) = Len(y),
           \A i \in 1..Len(x) : x[i] = y[i]
    PROVE  x = y
<1>1. x = [i \in 1..Len(x) |-> x[i]] /\ y = [i \in 1..Len(y) |-> y[i]]
  OBVIOUS
<1>2. [i \in 1..Len(x) |-> x[i]] = [i \in 1..Len(y) |-> y[i]]
  OBVIOUS
<1> QED BY <1>1, <1>2, Zenon

\* What is in front of, in, and behind a part of a text.
LEMMA Middle ==
    ASSUME NEW S, NEW pre \in Seq(S), NEW x \in Seq(S), NEW post \in Seq(S)
    PROVE  /\ pre \o x \o post \in Seq(S)
           /\ Len(pre \o x \o post) = Len(pre) + Len(x) + Len(post)
           /\ \A i \in 1..Len(pre) : (pre \o x \o post)[i] = pre[i]
           /\ \A i \in 1..Len(x) : (pre \o x \o post)[Len(pre) + i] = x[i]
<1>1. PICK y : y = pre \o x
  OBVIOUS
<1>2. /\ y \in Seq(S) /\ Len(y) = Len(pre) + Len(x)
      /\ \A i \in 1..Len(pre) : y[i] = pre[i]
      /\ \A i \in 1..Len(x) : y[Len(pre) + i] = x[i]
  BY <1>1
<1>3. y \in Seq(S)
  BY <1>2
<1>4. /\ y \o post \in Seq(S) /\ Len(y \o post) = Len(y) + Len(post)
      /\ \A i \in 1..Len(y) : (y \o post)[i] = y[i]
  BY <1>3
<1>5. \A i \in 1..Len(pre) : i \in 1..Len(y)
  BY <1>2
<1>6. \A i \in 1..Len(x) : Len(pre) + i \in 1..Len(y)
  BY <1>2
<1> QED BY <1>1, <1>2, <1>4, <1>5, <1>6

\* Two texts after one another.
LEMMA Joined ==
    ASSUME NEW S, NEW x \in Seq(S), NEW y \in Seq(S), NEW m \in Nat, NEW n \in Nat,
           Len(x) = m, Len(y) = n
    PROVE  /\ x \o y \in Seq(S) /\ Len(x \o y) = m + n
           /\ \A i \in 1..m : (x \o y)[i] = x[i]
           /\ \A i \in 1..n : (x \o y)[m + i] = y[i]
<1>1. PICK z : z = x \o y
  OBVIOUS
<1>2. z \in Seq(S) /\ Len(z) = m + n
  BY <1>1
<1>3. \A i \in 1..Len(x) : z[i] = x[i]
  BY <1>1
<1>4. \A i \in 1..Len(y) : z[Len(x) + i] = y[i]
  BY <1>1
<1> QED BY <1>1, <1>2, <1>3, <1>4

LEMMA Behind ==
    ASSUME NEW S, NEW x \in Seq(S), NEW y \in Seq(S)
    PROVE  \A i \in 1..Len(y) : (x \o y)[Len(x) + i] = y[i]
<1>1. PICK z : z = x \o y
  OBVIOUS
<1>2. \A j \in 1..Len(y) : z[Len(x) + j] = y[j]
  BY <1>1
<1> QED BY <1>1, <1>2

\* A part is cut out of a text by its place.
LEMMA CutOut ==
    ASSUME NEW S, NEW y \in Seq(S), NEW x \in Seq(S), NEW k \in Nat,
           k + Len(x) <= Len(y), \A i \in 1..Len(x) : y[k + i] = x[i]
    PROVE  SubSeq(y, k + 1, k + Len(x)) = x
<1>1. PICK n \in Nat : n = Len(x)
  OBVIOUS
<1>2. \A i \in 1..n : k + i \in 1..Len(y)
  BY <1>1
<1>3. PICK z : z = SubSeq(y, k + 1, k + n)
  OBVIOUS
<1>4. z \in Seq(S) /\ Len(z) = n
  BY <1>1, <1>2, <1>3
<1>5. \A i \in 1..n : z[i] = y[k + i]
  BY <1>1, <1>3
<1>6. \A i \in 1..Len(z) : z[i] = x[i]
  BY <1>1, <1>4, <1>5
<1>7. z = x
  BY <1>1, <1>4, <1>6, SameText
<1> QED BY <1>1, <1>3, <1>7

\* Any set of numbers has a least one.
LEMMA Least ==
    ASSUME NEW S \in SUBSET Nat, S # {}
    PROVE  \E i \in S : \A j \in S : i <= j
<1> SUFFICES ASSUME \A i \in S : \E j \in S : ~(i <= j) PROVE FALSE
  OBVIOUS
<1> DEFINE N == Nat \ S
<1>1. ASSUME NEW n \in Nat, \A m \in 0..(n - 1) : m \in N PROVE n \in N
  <2>1. ASSUME n \in S PROVE FALSE
    <3>1. PICK j \in S : ~(n <= j)
      BY <2>1
    <3>2. j \in 0..(n - 1)
      BY <3>1
    <3> QED BY <1>1, <3>1, <3>2
  <2> QED BY <2>1
<1> HIDE DEF N
<1>2. Nat \subseteq N
  BY <1>1, StrongInduction
<1> QED BY <1>2 DEF N

-----------------------------------------------------------------------------
(***************************************************************************)
(* Numbers as DER writes them.                                             *)
(***************************************************************************)
LEMMA TrimmedNumber ==
    ASSUME NEW bytes \in Seq(Bytes)
    PROVE  /\ Trimmed(bytes) \in Seq(Bytes) /\ Len(Trimmed(bytes)) <= Len(bytes)
           /\ Number(Trimmed(bytes)) = Number(bytes)
           /\ Trimmed(bytes) = <<>> <=> Number(bytes) = 0
           /\ Trimmed(bytes) # <<>> => Trimmed(bytes)[1] # 0
<1> DEFINE nonzero == {i \in DOMAIN bytes : bytes[i] # 0}
<1>1. Number(<<>>) = 0 /\ (Number(bytes) = 0 <=> Zeros(bytes))
  BY NumberFacts
<1>2. CASE nonzero = {}
  <2>1. Trimmed(bytes) = <<>>
    BY <1>2 DEF Trimmed
  <2>2. Zeros(bytes)
    BY <1>2 DEF Zeros
  <2> QED BY <1>1, <2>1, <2>2
<1>3. CASE nonzero # {}
  <2>1. PICK k : k = CHOOSE i \in nonzero : \A j \in nonzero : i <= j
    OBVIOUS
  <2>2. nonzero \in SUBSET Nat
    OBVIOUS
  <2>3. k \in nonzero /\ \A j \in nonzero : k <= j
    <3> HIDE DEF nonzero
    <3>1. \E i \in nonzero : \A j \in nonzero : i <= j
      BY <1>3, <2>2, Least
    <3> QED BY <2>1, <3>1, Zenon
  <2>4. k \in 1..Len(bytes) /\ bytes[k] # 0 /\ \A j \in 1..(k - 1) : bytes[j] = 0
    BY <2>3
  <2>5. PICK t : t = SubSeq(bytes, k, Len(bytes))
    OBVIOUS
  <2>6. Trimmed(bytes) = t
    BY <1>3, <2>1, <2>5 DEF Trimmed
  <2>7. PICK zeros : zeros = SubSeq(bytes, 1, k - 1)
    OBVIOUS
  <2>8. /\ t \in Seq(Bytes) /\ Len(t) = Len(bytes) - k + 1
        /\ \A i \in 1..Len(t) : t[i] = bytes[k - 1 + i]
    BY <2>4, <2>5
  <2>9. /\ zeros \in Seq(Bytes) /\ Len(zeros) = k - 1
        /\ \A i \in 1..(k - 1) : zeros[i] = 0
    BY <2>4, <2>7
  <2>10. zeros \o t = bytes
    <3>1. zeros \o t \in Seq(Bytes) /\ Len(zeros \o t) = Len(bytes)
      BY <2>4, <2>8, <2>9
    <3>2. \A i \in 1..Len(bytes) : (zeros \o t)[i] = bytes[i]
      <4>1. ASSUME NEW i \in 1..(k - 1) PROVE (zeros \o t)[i] = bytes[i]
        BY <2>4, <2>8, <2>9
      <4>2. ASSUME NEW i \in k..Len(bytes) PROVE (zeros \o t)[i] = bytes[i]
        <5>1. PICK j \in 1..Len(t) : i = k - 1 + j
          <6>1. i - (k - 1) \in 1..Len(t) /\ i = k - 1 + (i - (k - 1))
            BY <2>4, <2>8
          <6> QED BY <6>1
        <5>2. (zeros \o t)[i] = t[j]
          BY <2>4, <2>8, <2>9, <5>1
        <5> QED BY <2>8, <5>1, <5>2
      <4>3. \A i \in 1..Len(bytes) : i \in 1..(k - 1) \/ i \in k..Len(bytes)
        BY <2>4
      <4> QED BY <4>1, <4>2, <4>3, Zenon
    <3> QED BY <3>1, <3>2, SameText
  <2>11. Zeros(zeros)
    BY <2>9 DEF Zeros
  <2>12. Number(t) = Number(bytes)
    BY <2>8, <2>9, <2>10, <2>11, NumberFacts
  <2>13. t[1] # 0 /\ t # <<>>
    BY <2>4, <2>8
  <2>14. ~Zeros(bytes)
    BY <2>4 DEF Zeros
  <2> QED BY <1>1, <2>4, <2>6, <2>8, <2>12, <2>13, <2>14
<1> QED BY <1>2, <1>3

\* The content of a strict INTEGER: minimal and not negative.
StrictContent(t, n) ==
    /\ t \in Seq(Bytes) /\ Len(t) \in 1..(Width + 1)
    /\ t[1] < High
    /\ t[1] = 0 /\ Len(t) > 1 => t[2] >= High
    /\ Number(t) = n

LEMMA IntegerContent ==
    ASSUME NEW bytes \in Seq(Bytes), Len(bytes) = Width, Number(bytes) # 0
    PROVE  StrictContent(IntegerBytes(bytes), Number(bytes))
<1>1. PICK t : t = Trimmed(bytes)
  OBVIOUS
<1>2. /\ t \in Seq(Bytes) /\ Len(t) <= Width /\ Number(t) = Number(bytes)
      /\ t # <<>> /\ t[1] # 0
  BY <1>1, TrimmedNumber
<1>3. Len(t) \in 1..Width /\ t[1] \in Bytes
  BY <1>2, ByteFacts
<1>4. CASE t[1] >= High
  <2>1. IntegerBytes(bytes) = <<0>> \o t
    BY <1>1, <1>2, <1>4 DEF IntegerBytes
  <2>2. PICK u : u = <<0>> \o t
    OBVIOUS
  <2>3. 0 \in Bytes /\ <<0>> \in Seq(Bytes) /\ Zeros(<<0>>)
    BY ByteFacts DEF Zeros
  <2>4. u \in Seq(Bytes) /\ Len(u) = Len(t) + 1 /\ u[1] = 0 /\ u[2] = t[1]
    BY <1>2, <1>3, <2>2, <2>3
  <2>5. Number(u) = Number(bytes)
    BY <1>2, <2>2, <2>3, NumberFacts
  <2>6. 0 < High
    BY ByteFacts
  <2> QED BY <1>3, <1>4, <2>1, <2>2, <2>4, <2>5, <2>6, ByteFacts DEF StrictContent
<1>5. CASE ~(t[1] >= High)
  <2>1. IntegerBytes(bytes) = t
    BY <1>1, <1>5 DEF IntegerBytes
  <2>2. t[1] < High
    BY <1>3, <1>5, ByteFacts
  <2> QED BY <1>2, <1>3, <2>1, <2>2, ByteFacts DEF StrictContent
<1> QED BY <1>4, <1>5

\* Tag and length in front of the content.
LEMMA IntegerForm ==
    ASSUME NEW bytes, NEW n, StrictContent(IntegerBytes(bytes), n)
    PROVE  LET t == IntegerBytes(bytes)
           IN  /\ Integer(bytes) = <<IntegerTag, Len(t)>> \o t
               /\ Integer(bytes) \in Seq(Bytes) /\ Len(Integer(bytes)) = Len(t) + 2
               /\ Integer(bytes)[1] = IntegerTag /\ Integer(bytes)[2] = Len(t)
               /\ \A i \in 1..Len(t) : Integer(bytes)[2 + i] = t[i]
<1>1. PICK t : t = IntegerBytes(bytes)
  OBVIOUS
<1>2. t \in Seq(Bytes) /\ Len(t) \in 1..(Width + 1)
  BY <1>1 DEF StrictContent
<1>3. Len(t) \in Bytes /\ Len(t) % Byte = Len(t)
  BY <1>2, ByteFacts
<1>4. Integer(bytes) = <<IntegerTag, Len(t)>> \o t
  BY <1>1, <1>3 DEF Integer
<1>5. <<IntegerTag, Len(t)>> \in Seq(Bytes)
  BY <1>3, ByteFacts
<1>6. PICK x : x = <<IntegerTag, Len(t)>> \o t
  OBVIOUS
<1>7. /\ x \in Seq(Bytes) /\ Len(x) = Len(t) + 2 /\ x[1] = IntegerTag /\ x[2] = Len(t)
      /\ \A i \in 1..Len(t) : x[2 + i] = t[i]
  BY <1>2, <1>5, <1>6
<1> QED BY <1>1, <1>4, <1>6, <1>7

LEMMA IntegerSize ==
    ASSUME NEW bytes, NEW n, StrictContent(IntegerBytes(bytes), n)
    PROVE  Integer(bytes) \in Seq(Bytes) /\ Len(Integer(bytes)) \in 3..(Width + 3)
<1>1. PICK t : t = IntegerBytes(bytes)
  OBVIOUS
<1>2. Len(t) \in 1..(Width + 1)
  BY <1>1 DEF StrictContent
<1>3. Integer(bytes) \in Seq(Bytes) /\ Len(Integer(bytes)) = Len(t) + 2
  BY <1>1, IntegerForm
<1> QED BY <1>2, <1>3, ByteFacts

\* A strict reader finds the INTEGER where it was put.
LEMMA ReadInteger ==
    ASSUME NEW pre \in Seq(Bytes), NEW post \in Seq(Bytes), NEW bytes, NEW n,
           StrictContent(IntegerBytes(bytes), n)
    PROVE  LET der == pre \o Integer(bytes) \o post
               at == Len(pre) + 1
           IN  /\ DerInteger(der, at, n)
               /\ EndOf(der, at) = Len(pre) + Len(Integer(bytes)) + 1
<1>1. PICK t : t = IntegerBytes(bytes)
  OBVIOUS
<1>2. PICK x : x = Integer(bytes)
  OBVIOUS
<1>3. /\ x \in Seq(Bytes) /\ Len(x) = Len(t) + 2 /\ x[1] = IntegerTag /\ x[2] = Len(t)
      /\ \A i \in 1..Len(t) : x[2 + i] = t[i]
  BY <1>1, <1>2, IntegerForm
<1>4. /\ t \in Seq(Bytes) /\ Len(t) \in 1..(Width + 1) /\ t[1] < High
      /\ t[1] = 0 /\ Len(t) > 1 => t[2] >= High
      /\ Number(t) = n
  BY <1>1 DEF StrictContent
<1>5. PICK der : der = pre \o x \o post
  OBVIOUS
<1>6. PICK k \in Nat : k = Len(pre)
  OBVIOUS
<1>7. PICK c \in Nat : c = Len(t)
  BY <1>4
<1>8. /\ der \in Seq(Bytes) /\ Len(der) \in Nat /\ Len(der) >= k + c + 2
      /\ \A i \in 1..(c + 2) : der[k + i] = x[i]
  <2>1. Len(x) = c + 2 /\ Len(pre) = k /\ Len(post) \in Nat
    BY <1>3, <1>6, <1>7
  <2>2. x \in Seq(Bytes)
    BY <1>3
  <2>3. /\ der \in Seq(Bytes) /\ Len(der) = Len(pre) + Len(x) + Len(post)
        /\ \A i \in 1..Len(x) : der[Len(pre) + i] = x[i]
    <3>1. /\ pre \o x \o post \in Seq(Bytes)
          /\ Len(pre \o x \o post) = Len(pre) + Len(x) + Len(post)
          /\ \A i \in 1..Len(x) : (pre \o x \o post)[Len(pre) + i] = x[i]
      BY <2>2, Middle
    <3> QED BY <1>5, <3>1
  <2>4. Len(der) = k + (c + 2) + Len(post)
    BY <2>1, <2>3, Zenon
  <2>5. \A i \in 1..(c + 2) : der[k + i] = x[i]
    BY <2>1, <2>3, Zenon
  <2> QED BY <2>1, <2>3, <2>4, <2>5
<1>9. c >= 1 /\ c <= High - 1 /\ High \in Nat /\ c \in 1..(High - 1)
  BY <1>4, <1>7, ByteFacts
<1>10. der[k + 1] = IntegerTag /\ der[k + 2] = c
  <2>1. der[k + 1] = x[1] /\ der[k + 2] = x[2]
    BY <1>8, <1>9
  <2> QED BY <2>1, <1>3, <1>7
<1>11. \A i \in 1..c : der[(k + 2) + i] = t[i]
  <2>1. ASSUME NEW i \in 1..c PROVE der[(k + 2) + i] = t[i]
    <3>1. 2 + i \in 1..(c + 2) /\ (k + 2) + i = k + (2 + i)
      OBVIOUS
    <3>2. der[k + (2 + i)] = x[2 + i]
      BY <1>8, <3>1
    <3> QED BY <1>3, <1>7, <3>1, <3>2
  <2> QED BY <2>1
<1>12. SubSeq(der, (k + 2) + 1, (k + 2) + Len(t)) = t
  <2>1. k + 2 \in Nat /\ (k + 2) + Len(t) <= Len(der)
    BY <1>7, <1>8
  <2>2. \A i \in 1..Len(t) : der[(k + 2) + i] = t[i]
    BY <1>7, <1>11
  <2> QED BY <1>4, <1>8, <2>1, <2>2, CutOut
<1>13. EndOf(der, k + 1) = (k + 1) + 2 + c
  BY <1>10 DEF EndOf
<1>14. EndOf(der, k + 1) - 1 = (k + 2) + c /\ (k + 1) + 2 = (k + 2) + 1
  BY <1>13
<1>15. der[(k + 1) + 2] = t[1]
  BY <1>9, <1>11, <1>14
<1>16. c > 1 => der[(k + 1) + 3] = t[2]
  BY <1>9, <1>11
<1>17. (k + 1) + 1 = k + 2 /\ (k + 1) + 2 <= Len(der) /\ EndOf(der, k + 1) <= Len(der) + 1
  BY <1>8, <1>9, <1>13
<1>18. DerInteger(der, k + 1, n)
  <2>1. Number(SubSeq(der, (k + 1) + 2, EndOf(der, k + 1) - 1)) = n
    BY <1>4, <1>7, <1>12, <1>14, Zenon
  <2> QED BY <1>4, <1>7, <1>9, <1>10, <1>15, <1>16, <1>17, <2>1, Zenon DEF DerInteger
<1>19. EndOf(der, k + 1) = k + Len(x) + 1
  BY <1>3, <1>7, <1>13
<1> QED BY <1>2, <1>5, <1>6, <1>18, <1>19, Zenon

-----------------------------------------------------------------------------
(***************************************************************************)
(* The whole signature.                                                    *)
(***************************************************************************)
LEMMA HeaderForm ==
    ASSUME NEW n \in Nat, n < Byte
    PROVE  /\ Header(n) \in Seq(Bytes) /\ Header(n)[1] = SequenceTag
           /\ n < High => Len(Header(n)) = 2 /\ Header(n)[2] = n
           /\ n >= High => /\ Len(Header(n)) = 3
                           /\ Header(n)[2] = High + 1 /\ Header(n)[3] = n
<1>1. n \in Bytes /\ n % Byte = n /\ High \in Nat
  BY ByteFacts
<1>2. SequenceTag \in Bytes /\ High + 1 \in Bytes
  BY ByteFacts
<1>3. CASE n < High
  <2>1. Header(n) = <<SequenceTag, n>>
    BY <1>1, <1>3 DEF Header
  <2> QED BY <1>1, <1>2, <1>3, <2>1
<1>4. CASE ~(n < High)
  <2>1. Header(n) = <<SequenceTag, High + 1, n>>
    BY <1>1, <1>4 DEF Header
  <2>2. n >= High
    BY <1>1, <1>4
  <2> QED BY <1>1, <1>2, <1>4, <2>1, <2>2
<1> QED BY <1>3, <1>4

\* Two numbers that are not zero become one strict signature.
LEMMA SignatureForm ==
    ASSUME NEW r \in Seq(Bytes), NEW s \in Seq(Bytes), Len(r) = Width, Len(s) = Width,
           Number(r) # 0, Number(s) # 0
    PROVE  /\ marshalECDSASig(r, s) \in Seq(Bytes)
           /\ DerSignature(marshalECDSASig(r, s), Number(r), Number(s))
<1>1. /\ StrictContent(IntegerBytes(r), Number(r))
      /\ StrictContent(IntegerBytes(s), Number(s))
  BY IntegerContent
<1>2. PICK x : x = Integer(r)
  OBVIOUS
<1>3. PICK y : y = Integer(s)
  OBVIOUS
<1>4. x \in Seq(Bytes) /\ Len(x) \in 3..(Width + 3)
  BY <1>1, <1>2, IntegerSize
<1>5. y \in Seq(Bytes) /\ Len(y) \in 3..(Width + 3)
  BY <1>1, <1>3, IntegerSize
<1>6. PICK n \in Nat : n = Len(x) + Len(y)
  BY <1>4, <1>5
<1>7. n < Byte /\ n >= 6
  BY <1>4, <1>5, <1>6, ByteFacts
<1>8. PICK h : h = Header(n)
  OBVIOUS
<1>9. /\ h \in Seq(Bytes) /\ h[1] = SequenceTag
      /\ n < High => Len(h) = 2 /\ h[2] = n
      /\ n >= High => Len(h) = 3 /\ h[2] = High + 1 /\ h[3] = n
  BY <1>7, <1>8, HeaderForm
<1>10. PICK der : der = h \o x \o y
  OBVIOUS
<1>11. marshalECDSASig(r, s) = der
  <2>1. Trimmed(r) # <<>> /\ Trimmed(s) # <<>>
    BY TrimmedNumber
  <2> QED BY <1>2, <1>3, <1>6, <1>8, <1>10, <2>1 DEF marshalECDSASig
<1>12. /\ der \in Seq(Bytes) /\ Len(der) = Len(h) + Len(x) + Len(y)
       /\ \A i \in 1..Len(h) : der[i] = h[i]
  <2>1. /\ h \o x \o y \in Seq(Bytes) /\ Len(h \o x \o y) = Len(h) + Len(x) + Len(y)
        /\ \A i \in 1..Len(h) : (h \o x \o y)[i] = h[i]
    BY <1>4, <1>5, <1>9, Middle
  <2> QED BY <1>10, <2>1
<1>13. PICK k \in {2, 3} : k = Len(h)
  BY <1>7, <1>9, ByteFacts
<1>14. Len(der) = k + n /\ Len(x) \in Nat /\ Len(y) \in Nat
  BY <1>4, <1>5, <1>6, <1>12, <1>13
<1>15. DerInteger(der, k + 1, Number(r)) /\ EndOf(der, k + 1) = k + Len(x) + 1
  <2>1. LET d == h \o Integer(r) \o y
            at == Len(h) + 1
        IN  DerInteger(d, at, Number(r)) /\ EndOf(d, at) = Len(h) + Len(Integer(r)) + 1
    BY <1>1, <1>5, <1>9, ReadInteger
  <2> QED BY <1>2, <1>10, <1>13, <2>1
<1>16. /\ DerInteger(der, k + Len(x) + 1, Number(s))
       /\ EndOf(der, k + Len(x) + 1) = Len(der) + 1
  <2>1. PICK pre : pre = h \o x
    OBVIOUS
  <2>2. pre \in Seq(Bytes) /\ Len(pre) = k + Len(x)
    BY <1>4, <1>9, <1>13, <2>1
  <2>3. <<>> \in Seq(Bytes)
    OBVIOUS
  <2>4. LET d == pre \o Integer(s) \o <<>>
            at == Len(pre) + 1
        IN  DerInteger(d, at, Number(s)) /\ EndOf(d, at) = Len(pre) + Len(Integer(s)) + 1
    BY <1>1, <2>2, <2>3, ReadInteger
  <2>5. pre \o y \in Seq(Bytes) /\ pre \o y \o <<>> = pre \o y
    BY <1>5, <2>2
  <2>6. pre \o Integer(s) \o <<>> = der
    BY <1>3, <1>10, <2>1, <2>5
  <2>7. Len(pre) + Len(Integer(s)) + 1 = Len(der) + 1
    BY <1>3, <1>6, <1>14, <2>2
  <2> QED BY <2>2, <2>4, <2>6, <2>7
<1>17. der[1] = SequenceTag /\ Len(der) > 3
  <2>1. 1 \in 1..Len(h)
    BY <1>13
  <2>2. der[1] = h[1]
    BY <1>12, <2>1
  <2>3. Len(der) > 3
    BY <1>7, <1>14, <1>13
  <2> QED BY <1>9, <2>2, <2>3
<1>18. CASE n < High
  <2>1. k = 2 /\ der[2] = n /\ Len(der) - 2 = n
    <3>1. Len(h) = 2 /\ h[2] = n
      BY <1>9, <1>18
    <3>2. 2 \in 1..Len(h)
      BY <3>1
    <3>3. der[2] = h[2]
      BY <1>12, <3>2
    <3>4. k = 2
      BY <1>13, <3>1
    <3>5. Len(der) - 2 = n
      BY <1>7, <1>14, <3>4
    <3> QED BY <3>1, <3>3, <3>4, <3>5
  <2>2. 2 + 1 = 3
    OBVIOUS
  <2> QED BY <1>11, <1>12, <1>15, <1>16, <1>17, <1>18, <2>1, <2>2 DEF DerSignature
<1>19. CASE ~(n < High)
  <2>1. n >= High /\ High \in Nat
    BY <1>19, ByteFacts
  <2>2. k = 3 /\ der[2] = High + 1 /\ der[3] = n /\ Len(der) - 3 = n
    <3>1. Len(h) = 3 /\ h[2] = High + 1 /\ h[3] = n
      BY <1>9, <2>1
    <3>2. 2 \in 1..Len(h) /\ 3 \in 1..Len(h)
      BY <3>1
    <3>3. der[2] = h[2] /\ der[3] = h[3]
      BY <1>12, <3>2
    <3>4. k = 3
      BY <1>13, <3>1
    <3>5. Len(der) - 3 = n
      BY <1>7, <1>14, <3>4
    <3> QED BY <3>1, <3>3, <3>4, <3>5
  <2>3. ~(der[2] < High) /\ 3 + 1 = 4
    BY <2>1, <2>2
  <2> QED BY <1>11, <1>12, <1>15, <1>16, <1>17, <2>1, <2>2, <2>3 DEF DerSignature
<1> QED BY <1>18, <1>19

\* What Sign makes of what NCryptSignHash returned.
LEMMA ConvertedSignature ==
    ASSUME NEW sig \in Seq(Bytes)
    PROVE  LET r == Number(SubSeq(sig, 1, Width))
               s == Number(SubSeq(sig, Width + 1, Len(sig)))
           IN  /\ p1363ToASN1(sig) \in Seq(Bytes)
               /\ IF Len(sig) # 2 * Width \/ r = 0 \/ s = 0
                  THEN p1363ToASN1(sig) = Refused
                  ELSE DerSignature(p1363ToASN1(sig), r, s)
<1>1. Refused \in Seq(Bytes)
  BY DEF Refused
<1>2. CASE Len(sig) # 2 * Width
  BY <1>1, <1>2 DEF p1363ToASN1
<1>3. CASE Len(sig) = 2 * Width
  <2>1. PICK r : r = SubSeq(sig, 1, Width)
    OBVIOUS
  <2>2. PICK s : s = SubSeq(sig, Width + 1, Len(sig))
    OBVIOUS
  <2>3. r \in Seq(Bytes) /\ Len(r) = Width
    BY <1>3, <2>1, ByteFacts
  <2>4. s \in Seq(Bytes) /\ Len(s) = Width
    BY <1>3, <2>2, ByteFacts
  <2>5. p1363ToASN1(sig) = marshalECDSASig(r, s)
    BY <1>3, <2>1, <2>2 DEF p1363ToASN1, First, Second
  <2>6. CASE Number(r) = 0 \/ Number(s) = 0
    <3>1. marshalECDSASig(r, s) = Refused
      BY <2>3, <2>4, <2>6, TrimmedNumber DEF marshalECDSASig
    <3> QED BY <1>1, <1>3, <2>1, <2>2, <2>5, <2>6, <3>1
  <2>7. CASE ~(Number(r) = 0 \/ Number(s) = 0)
    BY <1>3, <2>1, <2>2, <2>3, <2>4, <2>5, <2>7, SignatureForm
  <2> QED BY <2>6, <2>7
<1> QED BY <1>2, <1>3

-----------------------------------------------------------------------------
(***************************************************************************)
(* Public keys.                                                            *)
(***************************************************************************)
\* A coordinate has the bytes its number was read from.
LEMMA CoordinateOfNumber ==
    ASSUME NEW bytes \in Seq(Bytes), Len(bytes) = Width
    PROVE  Coordinate(Number(bytes)) = bytes
<1>1. Byte \in Nat /\ Byte > 1 /\ bytes \in Seq(DigitsTo(Byte))
  BY ByteFacts
<1>2. LastDigitsOf(Byte)[Len(bytes)][NumberOf(Byte)[bytes]] = bytes
  BY <1>1, LastDigitsOfNumber
<1> QED BY <1>2 DEF Coordinate, Number

\* A point of the curve is given by its coordinates as bytes.
LEMMA CurvePoint ==
    ASSUME NEW point \in Curve
    PROVE  /\ point = <<point[1], point[2]>> /\ point # Refused
           /\ \A i \in {1, 2} : /\ Coordinate(point[i]) \in Seq(Bytes)
                               /\ Len(Coordinate(point[i])) = Width
                               /\ Number(Coordinate(point[i])) = point[i]
<1>1. point = <<point[1], point[2]>> /\ point # Refused
  BY CurveAssumption DEF Refused
<1>2. ASSUME NEW i \in {1, 2}
      PROVE  /\ Coordinate(point[i]) \in Seq(Bytes)
             /\ Len(Coordinate(point[i])) = Width
             /\ Number(Coordinate(point[i])) = point[i]
  <2>1. PICK bytes \in [1..Width -> Bytes] : point[i] = Number(bytes)
    BY CurveAssumption
  <2>2. bytes \in Seq(Bytes) /\ Len(bytes) = Width
    BY <2>1, ByteFacts
  <2> QED BY <2>1, <2>2, CoordinateOfNumber
<1> QED BY <1>1, <1>2

\* What is read from a blob.
LEMMA ReadKey ==
    ASSUME NEW blob \in Blobs
    PROVE  /\ parseECCPublicBlob(blob) \in Curve \cup {Refused}
           /\ \A point \in Curve :
                 parseECCPublicBlob(blob) = point <=>
                    /\ blob.header /\ blob.magic /\ blob.cbKey = Width
                    /\ IsPrefix(Coordinate(point[1]) \o Coordinate(point[2]), blob.body)
<1>1. parseECCPublicBlob(blob) \in Curve \cup {Refused}
  BY DEF parseECCPublicBlob
<1>2. PICK body : body = blob.body
  OBVIOUS
<1>3. body \in Seq(Bytes)
  BY <1>2, EncodingAssumption DEF BlobFields
<1>4. PICK u : u = SubSeq(body, 1, Width)
  OBVIOUS
<1>5. PICK v : v = SubSeq(body, Width + 1, 2 * Width)
  OBVIOUS
<1>6. Point(blob) = <<Number(u), Number(v)>>
  BY <1>2, <1>4, <1>5 DEF Point
<1>7. ASSUME Len(body) >= 2 * Width
      PROVE  /\ u \in Seq(Bytes) /\ Len(u) = Width /\ v \in Seq(Bytes) /\ Len(v) = Width
             /\ \A i \in 1..Width : u[i] = body[i] /\ v[i] = body[Width + i]
  BY <1>3, <1>4, <1>5, <1>7, ByteFacts
<1>8. ASSUME NEW point \in Curve, parseECCPublicBlob(blob) = point
      PROVE  /\ blob.header /\ blob.magic /\ blob.cbKey = Width
             /\ IsPrefix(Coordinate(point[1]) \o Coordinate(point[2]), body)
  <2>1. point # Refused
    BY CurvePoint
  <2>2. /\ blob.header /\ blob.magic /\ blob.cbKey = Width
        /\ BlobHeld(blob) /\ point = Point(blob)
    BY <1>8, <2>1 DEF parseECCPublicBlob
  <2>3. Len(body) >= 2 * Width
    BY <1>2, <2>2 DEF BlobHeld
  <2>4. point[1] = Number(u) /\ point[2] = Number(v)
    BY <1>6, <2>2
  <2>5. Coordinate(point[1]) = u /\ Coordinate(point[2]) = v
    BY <1>7, <2>3, <2>4, CoordinateOfNumber
  <2>6. IsPrefix(u \o v, body)
    <3>1. PICK z : z = u \o v
      OBVIOUS
    <3>2. z \in Seq(Bytes) /\ Len(z) = 2 * Width
      <4>1. z \in Seq(Bytes) /\ Len(z) = Width + Width
        BY <1>7, <2>3, <3>1, ByteFacts, Joined
      <4> QED BY <4>1, ByteFacts
    <3>3. \A i \in 1..(2 * Width) : z[i] = body[i]
      <4>1. ASSUME NEW i \in 1..Width PROVE z[i] = body[i]
        BY <1>7, <2>3, <3>1, ByteFacts, Joined
      <4>2. ASSUME NEW i \in (Width + 1)..(2 * Width) PROVE z[i] = body[i]
        <5>1. PICK j \in 1..Width : i = Width + j
          <6>1. i - Width \in 1..Width /\ i = Width + (i - Width)
            BY ByteFacts
          <6> QED BY <6>1
        <5>2. z[i] = v[j]
          <6>1. u \in Seq(Bytes) /\ v \in Seq(Bytes) /\ Len(u) = Width /\ Len(v) = Width
            BY <1>7, <2>3
          <6>2. \A k \in 1..Len(v) : (u \o v)[Len(u) + k] = v[k]
            BY <6>1, Behind, Zenon
          <6> QED BY <3>1, <5>1, <6>1, <6>2, Zenon
        <5> QED BY <1>7, <2>3, <5>1, <5>2
      <4>3. \A i \in 1..(2 * Width) : i \in 1..Width \/ i \in (Width + 1)..(2 * Width)
        BY ByteFacts
      <4> QED BY <4>1, <4>2, <4>3, Zenon
    <3>4. SubSeq(z, 1, 2 * Width) = z /\ SubSeq(body, 1, 2 * Width) = z
      <4>1. 0 \in Nat /\ 0 + 1 = 1 /\ 0 + Len(z) = 2 * Width
        BY <3>2, ByteFacts
      <4>2. \A i \in 1..Len(z) : z[0 + i] = z[i] /\ body[0 + i] = z[i]
        BY <3>2, <3>3
      <4>3. SubSeq(z, 0 + 1, 0 + Len(z)) = z
        BY <3>2, <4>2, CutOut
      <4>4. SubSeq(body, 0 + 1, 0 + Len(z)) = z
        BY <1>3, <2>3, <3>2, <4>2, CutOut
      <4> QED BY <4>1, <4>3, <4>4
    <3> QED BY <2>3, <3>1, <3>2, <3>4 DEF IsPrefix
  <2> QED BY <2>2, <2>5, <2>6
<1>9. ASSUME NEW point \in Curve, blob.header, blob.magic, blob.cbKey = Width,
             IsPrefix(Coordinate(point[1]) \o Coordinate(point[2]), body)
      PROVE  parseECCPublicBlob(blob) = point
  <2>1. PICK x : x = Coordinate(point[1])
    OBVIOUS
  <2>2. PICK y : y = Coordinate(point[2])
    OBVIOUS
  <2>3. /\ x \in Seq(Bytes) /\ Len(x) = Width /\ Number(x) = point[1]
        /\ y \in Seq(Bytes) /\ Len(y) = Width /\ Number(y) = point[2]
    BY <2>1, <2>2, CurvePoint
  <2>4. PICK z : z = x \o y
    OBVIOUS
  <2>5. z \in Seq(Bytes) /\ Len(z) = 2 * Width
    <3>1. x \in Seq(Bytes) /\ y \in Seq(Bytes)
      BY <2>3
    <3>2. z \in Seq(Bytes) /\ Len(z) = Len(x) + Len(y)
      BY <2>4, <3>1
    <3>3. Len(z) = Width + Width
      BY <2>3, <3>2
    <3> QED BY <3>2, <3>3, ByteFacts
  <2>6. Len(body) >= 2 * Width /\ SubSeq(z, 1, 2 * Width) = SubSeq(body, 1, 2 * Width)
    BY <1>9, <2>1, <2>2, <2>4, <2>5 DEF IsPrefix
  <2>7. \A i \in 1..(2 * Width) : z[i] = body[i]
    <3>1. PICK n \in Nat : n = 2 * Width
      BY ByteFacts
    <3>2. ASSUME NEW i \in 1..n PROVE z[i] = body[i]
      <4>1. SubSeq(z, 1, n)[i] = z[i]
        BY <2>5, <3>1
      <4>2. SubSeq(body, 1, n)[i] = body[i]
        BY <1>3, <2>6, <3>1
      <4> QED BY <2>6, <3>1, <4>1, <4>2
    <3> QED BY <3>1, <3>2
  <2>8. u = x /\ v = y
    <3>1. \A i \in 1..Width : x[i] = z[i] /\ y[i] = z[Width + i]
      <4>1. \A i \in 1..Width : z[i] = x[i]
        BY <2>3, <2>4, ByteFacts, Joined
      <4>2. \A i \in 1..Len(y) : (x \o y)[Len(x) + i] = y[i]
        <5>1. x \in Seq(Bytes) /\ y \in Seq(Bytes)
          BY <2>3
        <5> QED BY <5>1, Behind, Zenon
      <4>3. \A i \in 1..Width : (x \o y)[Width + i] = y[i]
        BY <2>3, <4>2, Zenon
      <4> QED BY <2>4, <4>1, <4>3
    <3>2. \A i \in 1..Width : i \in 1..(2 * Width) /\ Width + i \in 1..(2 * Width)
      BY ByteFacts
    <3>3. \A i \in 1..Width : u[i] = x[i] /\ v[i] = y[i]
      BY <1>7, <2>6, <2>7, <3>1, <3>2
    <3> QED BY <1>7, <2>3, <2>6, <3>3, SameText
  <2>9. Point(blob) = point
    BY <1>6, <2>3, <2>8, CurvePoint
  <2>10. BlobHeld(blob)
    BY <1>2, <1>9, <2>6 DEF BlobHeld
  <2> QED BY <1>9, <2>9, <2>10 DEF parseECCPublicBlob
<1> QED BY <1>1, <1>2, <1>8, <1>9

-----------------------------------------------------------------------------
(***************************************************************************)
(* Signatures and public keys: the conversions are right, so every step is. *)
(***************************************************************************)
EncodingInv == EncodingTypeOK /\ SignaturesAreStrictDer /\ KeysAreRead

LEMMA EncodingInitInv == EncodingInit => EncodingInv
<1> SUFFICES ASSUME EncodingInit PROVE EncodingInv
  OBVIOUS
<1>1. Refused \in Seq(Bytes)
  BY DEF Refused
<1> QED BY <1>1
        DEF EncodingInit, EncodingInv, EncodingTypeOK, SignaturesAreStrictDer, KeysAreRead

LEMMA EncodingInductive == EncodingInv /\ [EncodingNext]_encodingVars => EncodingInv'
<1> SUFFICES ASSUME EncodingInv, [EncodingNext]_encodingVars PROVE EncodingInv'
  OBVIOUS
<1>1. CASE ConvertSignature
  <2>1. /\ kind = "signature" /\ kind' = kind /\ input' = input /\ decided' = TRUE
        /\ result' = p1363ToASN1(input)
    BY <1>1 DEF ConvertSignature
  <2>2. input \in Outputs /\ input \in Seq(Bytes)
    BY <2>1, EncodingAssumption DEF EncodingInv, EncodingTypeOK
  <2>3. result' \in Seq(Bytes)
    BY <2>1, <2>2, ConvertedSignature
  <2>4. SignaturesAreStrictDer'
    BY <2>1, <2>2, ConvertedSignature DEF SignaturesAreStrictDer
  <2> QED BY <2>1, <2>2, <2>3, <2>4 DEF EncodingInv, EncodingTypeOK, KeysAreRead
<1>2. CASE ReadPublicKey
  <2>1. /\ kind = "key" /\ kind' = kind /\ input' = input /\ decided' = TRUE
        /\ result' = parseECCPublicBlob(input)
    BY <1>2 DEF ReadPublicKey
  <2>2. input \in Blobs
    BY <2>1 DEF EncodingInv, EncodingTypeOK
  <2>3. result' \in Curve \cup {Refused}
    BY <2>1, <2>2, ReadKey
  <2>4. KeysAreRead'
    BY <2>1, <2>2, ReadKey DEF KeysAreRead
  <2> QED BY <2>1, <2>2, <2>3, <2>4 DEF EncodingInv, EncodingTypeOK, SignaturesAreStrictDer
<1>3. CASE UNCHANGED encodingVars
  BY <1>3 DEF encodingVars, EncodingInv, EncodingTypeOK, SignaturesAreStrictDer, KeysAreRead
<1> QED BY <1>1, <1>2, <1>3 DEF EncodingNext

LEMMA EncodingInvCorrect == EncodingSpec => []EncodingInv
BY EncodingInitInv, EncodingInductive, PTL DEF EncodingSpec

\* The type invariant; a point that is returned is one of the curve.
THEOREM EncodingTypes == EncodingSpec => []EncodingTypeOK
BY EncodingInvCorrect, PTL DEF EncodingInv

\* Sign returns the strict DER form of the two numbers the KSP returned, for any
\* width whose signatures need at most one length byte.
THEOREM StrictDer == EncodingSpec => []SignaturesAreStrictDer
BY EncodingInvCorrect, PTL DEF EncodingInv

\* A public key is read from a blob exactly if the blob was written for it.
THEOREM ReadsKeys == EncodingSpec => []KeysAreRead
BY EncodingInvCorrect, PTL DEF EncodingInv

-----------------------------------------------------------------------------
(***************************************************************************)
(* Texts of SIDs.                                                          *)
(***************************************************************************)
Numbers == [1..Count -> SubAuthorities]

\* What the two conversions compute.
LEMMA DecimalTexts ==
    /\ \A v \in Nat : /\ Decimal[v] \in Seq(Digits) /\ Len(Decimal[v]) > 0
                      /\ Len(Decimal[v]) > 1 => Decimal[v][1] # 0
                      /\ Value[Decimal[v]] = v
    /\ \A part \in Seq(Digits) :
          Value[part] \in Nat /\ (Canonical(part) => Decimal[Value[part]] = part)
<1>1. Base \in Nat /\ Base > 1
  BY ServiceSidAssumption
<1>2. \A v \in Nat : Written(Base, v)
  BY <1>1, NumeralIsWritten
<1>3. \A part \in Seq(Digits) : NumberOf(Base)[part] \in Nat
  BY <1>1, NumberType DEF Digits
<1>4. \A part \in Seq(Digits) :
         Canonical(part) => NumeralOf(Base)[NumberOf(Base)[part]] = part
  BY <1>1, CanonicalIsNumeral DEF Digits
<1> QED BY <1>2, <1>3, <1>4 DEF Written, Decimal, Value, Digits

LEMMA CountType == Count \in Nat /\ SubAuthorities \subseteq Nat
BY ServiceSidAssumption DEF SubAuthorities

\* Five numbers are written as a SID, and can be read from it again.
LEMMA Rendered ==
    ASSUME NEW numbers \in Numbers
    PROVE  /\ Render(numbers) \in Seq(Seq(Digits))
           /\ Len(Render(numbers)) = Count
           /\ \A i \in 1..Count : /\ Render(numbers)[i] = Decimal[numbers[i]]
                                  /\ Value[Render(numbers)[i]] = numbers[i]
           /\ isServiceSID(Render(numbers))
<1>1. \A i \in 1..Count : numbers[i] \in SubAuthorities /\ numbers[i] \in Nat
  BY CountType DEF Numbers
<1>2. DOMAIN numbers = 1..Count
  BY DEF Numbers
<1>3. Render(numbers) = [i \in 1..Count |-> Decimal[numbers[i]]]
  BY <1>2 DEF Render
<1>4. \A i \in 1..Count : Decimal[numbers[i]] \in Seq(Digits)
  BY <1>1, DecimalTexts
<1>5. Render(numbers) \in [1..Count -> Seq(Digits)]
  BY <1>3, <1>4
<1>6. Render(numbers) \in Seq(Seq(Digits)) /\ Len(Render(numbers)) = Count
  BY <1>5, CountType
<1>7. ASSUME NEW i \in 1..Count
      PROVE  /\ Render(numbers)[i] = Decimal[numbers[i]]
             /\ Value[Render(numbers)[i]] = numbers[i]
             /\ CanonicalPart(Render(numbers)[i])
  <2>1. PICK v : v = numbers[i]
    OBVIOUS
  <2>2. /\ v \in SubAuthorities /\ Len(Decimal[v]) <= MaxDigits
        /\ Decimal[v] \in Seq(Digits) /\ Len(Decimal[v]) > 0
        /\ Len(Decimal[v]) > 1 => Decimal[v][1] # 0
        /\ Value[Decimal[v]] = v
    BY <1>1, <2>1, DecimalTexts, MaxDigitsSuffice
  <2>3. v < Limit
    BY <2>2, ServiceSidAssumption DEF SubAuthorities
  <2>4. Len(Decimal[v]) \in 1..MaxDigits
    BY <2>2, ServiceSidAssumption
  <2>5. CanonicalPart(Decimal[v])
    BY <2>2, <2>3, <2>4 DEF CanonicalPart
  <2>6. Render(numbers)[i] = Decimal[v]
    BY <1>3, <2>1
  <2> QED BY <2>1, <2>2, <2>5, <2>6
<1>8. isServiceSID(Render(numbers))
  BY <1>5, <1>6, <1>7 DEF isServiceSID
<1> QED BY <1>6, <1>7, <1>8

\* No other text passes for one.
LEMMA OnlyRendered ==
    ASSUME NEW t \in Seq(Seq(Digits)), isServiceSID(t)
    PROVE  \E numbers \in Numbers : t = Render(numbers)
<1> DEFINE numbers == [i \in 1..Count |-> Value[t[i]]]
<1>1. Len(t) = Count /\ DOMAIN t = 1..Count
  BY DEF isServiceSID
<1>2. ASSUME NEW i \in 1..Count
      PROVE  Value[t[i]] \in SubAuthorities /\ Decimal[Value[t[i]]] = t[i]
  <2>1. PICK part \in Seq(Digits) : part = t[i]
    BY <1>1
  <2>2. CanonicalPart(part)
    BY <1>1, <2>1 DEF isServiceSID
  <2>3. Canonical(part) /\ Value[part] < Limit
    BY <2>2, ServiceSidAssumption DEF CanonicalPart, Canonical
  <2>4. Value[part] \in SubAuthorities
    BY <2>3, DecimalTexts, ServiceSidAssumption DEF SubAuthorities
  <2> QED BY <2>1, <2>3, <2>4, DecimalTexts
<1>3. numbers \in Numbers /\ DOMAIN numbers = 1..Count
  BY <1>2 DEF Numbers
<1>4. \A i \in 1..Count : Decimal[numbers[i]] = t[i]
  BY <1>2
<1>5. Render(numbers) = [i \in 1..Count |-> t[i]]
  <2> HIDE DEF numbers
  <2> QED BY <1>3, <1>4 DEF Render
<1>6. t = [i \in 1..Count |-> t[i]]
  BY <1>1
<1> QED BY <1>3, <1>5, <1>6

\* Two SIDs are one text only if they are the same five numbers.
LEMMA RenderInjective ==
    ASSUME NEW a \in Numbers, NEW b \in Numbers, Render(a) = Render(b)
    PROVE  a = b
<1>1. \A i \in 1..Count : Value[Render(a)[i]] = a[i]
  BY Rendered
<1>2. \A i \in 1..Count : Value[Render(b)[i]] = b[i]
  BY Rendered
<1>3. \A i \in 1..Count : a[i] = b[i]
  BY <1>1, <1>2
<1>4. a \in [1..Count -> SubAuthorities] /\ b \in [1..Count -> SubAuthorities]
  BY DEF Numbers
<1>5. a = [i \in 1..Count |-> a[i]] /\ b = [i \in 1..Count |-> b[i]]
  BY <1>4
<1>6. [i \in 1..Count |-> a[i]] = [i \in 1..Count |-> b[i]]
  BY <1>3
<1> QED BY <1>5, <1>6, Zenon

\* Names have one upper case exactly if they are names of one service.
LEMMA UpperCaseOfService ==
    ASSUME NEW m \in Names, NEW n \in Names, WellFormedName(m), WellFormedName(n)
    PROVE  UpperCase(m) = UpperCase(n) <=> SameService(m, n)
<1>1. /\ m \in Seq(DOMAIN Letter) /\ n \in Seq(DOMAIN Letter)
      /\ DOMAIN m = 1..Len(m) /\ DOMAIN n = 1..Len(n) /\ Len(m) \in Nat /\ Len(n) \in Nat
  BY ServiceSidAssumption
<1>2. \A i \in DOMAIN m : m[i] \in Supported
  BY DEF WellFormedName
<1>3. \A i \in DOMAIN n : n[i] \in Supported
  BY DEF WellFormedName
<1>4. \A c, d \in Supported : Upcase[c] = Upcase[d] <=> Letter[c] = Letter[d]
  BY ServiceSidAssumption
<1>5. ASSUME UpperCase(m) = UpperCase(n) PROVE SameService(m, n)
  <2>1. DOMAIN m = DOMAIN n
    BY <1>5 DEF UpperCase
  <2>2. Len(m) = Len(n)
    <3>1. PICK x \in Nat : x = Len(m)
      BY <1>1
    <3>2. PICK y \in Nat : y = Len(n)
      BY <1>1
    <3>3. 1..x = 1..y
      BY <1>1, <2>1, <3>1, <3>2, Zenon
    <3>4. MaxNameLength \in Nat /\ x \in 1..MaxNameLength /\ y \in 1..MaxNameLength
      BY <3>1, <3>2, ServiceSidAssumption, Zenon DEF WellFormedName
    <3>5. x \in 1..y /\ y \in 1..x
      BY <3>4, <3>3
    <3> QED BY <3>1, <3>2, <3>5
  <2>3. \A i \in DOMAIN m : Upcase[m[i]] = Upcase[n[i]]
    BY <1>5, <2>1 DEF UpperCase
  <2> QED BY <1>2, <1>3, <1>4, <2>1, <2>2, <2>3 DEF SameService
<1>6. ASSUME SameService(m, n) PROVE UpperCase(m) = UpperCase(n)
  <2>1. DOMAIN m = DOMAIN n
    BY <1>1, <1>6 DEF SameService
  <2>2. \A i \in DOMAIN m : Upcase[m[i]] = Upcase[n[i]]
    BY <1>2, <1>3, <1>4, <1>6, <2>1 DEF SameService
  <2> QED BY <2>1, <2>2 DEF UpperCase
<1> QED BY <1>5, <1>6

-----------------------------------------------------------------------------
(***************************************************************************)
(* From a name to a key and back.                                          *)
(***************************************************************************)
\* The sub-authorities of the service a key is made for.
Authorities(name) == Digest[UpperCase(name)]

\* What has been converted so far.
Converted ==
    /\ phase \in {"persist", "read"} =>
          WellFormedName(owner) /\ text = Render(Authorities(owner))
    /\ phase = "read" => persisted = Authorities(owner)
    /\ owner # <<>> /\ phase \in {"compare", "opened", "mismatch", "unrecognized"} =>
          /\ WellFormedName(owner) /\ text = Render(Authorities(owner))
          /\ Valid(policy)
    /\ phase \in {"opened", "mismatch", "unrecognized"} =>
          phase = IF ~isServiceSID(text) THEN "unrecognized"
                  ELSE IF text = policy.sid THEN "opened" ELSE "mismatch"

SidInv == SidTypeOK /\ Converted

LEMMA AuthoritiesType ==
    ASSUME NEW n \in Names, WellFormedName(n)
    PROVE  Authorities(n) \in Numbers /\ ServiceSID(n) = Render(Authorities(n))
BY ServiceSidAssumption DEF Authorities, Numbers, ServiceSID

\* A policy is valid, or the zero value.
LEMMA PolicyOfService ==
    ASSUME NEW n \in Names, NEW p, p = NewServicePolicy(n)
    PROVE  /\ p = ZeroPolicy \/ (p.name \in Names /\ Valid(p))
           /\ Valid(p) => WellFormedName(n) /\ p.sid = Render(Authorities(n))
<1>1. ~Valid(ZeroPolicy)
  <2>1. ~WellFormedName(<<>>)
    BY DEF WellFormedName
  <2> QED BY <2>1 DEF Valid, ZeroPolicy, ServiceSID
<1>2. CASE ServiceSID(n) = NoSid
  <2>1. p = ZeroPolicy
    BY <1>2 DEF NewServicePolicy
  <2> QED BY <1>1, <2>1, Zenon
<1>3. CASE ServiceSID(n) # NoSid
  <2>1. WellFormedName(n)
    BY <1>3 DEF ServiceSID
  <2>2. p = [name |-> n, sid |-> ServiceSID(n)]
    BY <1>3 DEF NewServicePolicy
  <2>3. Valid(p)
    BY <1>3, <2>2 DEF Valid
  <2> QED BY <2>1, <2>2, <2>3, AuthoritiesType
<1> QED BY <1>2, <1>3

LEMMA SidInitInv == SidInit => SidInv
<1> SUFFICES ASSUME SidInit PROVE SidInv
  OBVIOUS
<1>1. persisted \in Seq(SubAuthorities) /\ <<>> \in Seq(Seq(Digits))
  BY DEF SidInit
<1>2. CASE owner \in Names /\ phase = "provision" /\ text = <<>>
           /\ policy \in {NewServicePolicy(name) : name \in Names}
  BY <1>1, <1>2, PolicyOfService DEF SidInv, SidTypeOK, Converted
<1>3. CASE owner = <<>> /\ policy = ZeroPolicy /\ phase = "compare" /\ text \in Texts
  BY <1>1, <1>3, ServiceSidAssumption DEF SidInv, SidTypeOK, Converted
<1> QED BY <1>2, <1>3 DEF SidInit

LEMMA ProvisionInv == SidInv /\ Provision => SidInv'
<1> SUFFICES ASSUME SidInv, Provision PROVE SidInv'
  OBVIOUS
<1> DEFINE p == NewServicePolicy(owner)
<1>1. owner \in Names \/ owner = <<>>
  BY DEF SidInv, SidTypeOK
<1>2. UNCHANGED <<owner, policy, persisted>>
  BY DEF Provision
<1>3. CASE Valid(p) /\ phase' = "persist" /\ text' = p.sid
  <2>1. owner \in Names
    <3>1. ServiceSID(<<>>) = NoSid
      BY DEF ServiceSID, WellFormedName
    <3>2. NewServicePolicy(<<>>) = ZeroPolicy /\ ~Valid(ZeroPolicy)
      BY <3>1 DEF NewServicePolicy, Valid, ZeroPolicy
    <3> QED BY <1>1, <1>3, <3>2
  <2>2. WellFormedName(owner) /\ text' = Render(Authorities(owner))
    BY <1>3, <2>1, PolicyOfService
  <2>3. text' \in Seq(Seq(Digits))
    BY <2>1, <2>2, AuthoritiesType, Rendered
  <2> QED BY <1>2, <1>3, <2>2, <2>3
          DEF SidInv, SidTypeOK, Converted, Valid, Authorities, UpperCase
<1>4. CASE phase' = "refused" /\ UNCHANGED text
  BY <1>2, <1>4 DEF SidInv, SidTypeOK, Converted, Valid
<1> QED BY <1>3, <1>4 DEF Provision

LEMMA PersistInv == SidInv /\ Persist => SidInv'
<1> SUFFICES ASSUME SidInv, Persist PROVE SidInv'
  OBVIOUS
<1>1. UNCHANGED <<owner, policy, text>> /\ phase = "persist" /\ phase' = "read"
  BY DEF Persist
<1>2. owner \in Names /\ WellFormedName(owner) /\ text = Render(Authorities(owner))
  BY <1>1 DEF SidInv, SidTypeOK, Converted, WellFormedName
<1>3. PICK numbers \in Numbers : numbers = Authorities(owner)
  BY <1>2, AuthoritiesType
<1>4. DOMAIN text = 1..Count /\ \A i \in 1..Count : Value[text[i]] = numbers[i]
  BY <1>2, <1>3, Rendered
<1>5. persisted' = [i \in 1..Count |-> numbers[i]]
  BY <1>4 DEF Persist
<1>6. persisted' = numbers /\ numbers \in Seq(SubAuthorities)
  BY <1>5, CountType DEF Numbers
<1> QED BY <1>1, <1>2, <1>3, <1>6
        DEF SidInv, SidTypeOK, Converted, Valid, Authorities, UpperCase

LEMMA ReadSidInv == SidInv /\ ReadSid => SidInv'
<1> SUFFICES ASSUME SidInv, ReadSid PROVE SidInv'
  OBVIOUS
<1>1. UNCHANGED <<owner, policy, persisted>> /\ phase = "read"
  BY DEF ReadSid
<1>2. CASE Valid(policy) /\ text' = Render(persisted) /\ phase' = "compare"
  <2>1. text' = text /\ WellFormedName(owner)
    BY <1>1, <1>2 DEF SidInv, Converted
  <2> QED BY <1>1, <1>2, <2>1
          DEF SidInv, SidTypeOK, Converted, Valid, Authorities, UpperCase
<1>3. CASE phase' = "refused" /\ UNCHANGED text
  BY <1>1, <1>3 DEF SidInv, SidTypeOK, Converted, Valid
<1> QED BY <1>2, <1>3 DEF ReadSid

LEMMA CompareInv == SidInv /\ Compare => SidInv'
<1> SUFFICES ASSUME SidInv, Compare PROVE SidInv'
  OBVIOUS
<1>1. UNCHANGED <<owner, policy, text, persisted>> /\ phase = "compare"
  BY DEF Compare
<1>2. phase' = IF ~isServiceSID(text) THEN "unrecognized"
               ELSE IF text = policy.sid THEN "opened" ELSE "mismatch"
  BY DEF Compare
<1>3. phase' \in {"opened", "mismatch", "unrecognized"}
  BY <1>2
<1> QED BY <1>1, <1>2, <1>3 DEF SidInv, SidTypeOK, Converted, Valid, Authorities, UpperCase

LEMMA SidInductive == SidInv /\ [SidNext]_sidVars => SidInv'
<1>1. SidInv /\ UNCHANGED sidVars => SidInv'
  BY DEF SidInv, SidTypeOK, Converted, sidVars, Valid, Authorities, UpperCase
<1> QED BY <1>1, ProvisionInv, PersistInv, ReadSidInv, CompareInv DEF SidNext

LEMMA SidInvCorrect == SidSpec => []SidInv
BY SidInitInv, SidInductive, PTL DEF SidSpec

\* The type invariant, by which a policy is always valid or the zero value
\* (NewServicePolicy, validate).
THEOREM SidTypes == SidSpec => []SidTypeOK
BY SidInvCorrect, PTL DEF SidInv

LEMMA OpensForService ==
    ASSUME SidInv, owner # <<>>, phase \in {"opened", "mismatch", "unrecognized"}
    PROVE  phase = "opened" <=> SameService(owner, policy.name)
<1>1. /\ WellFormedName(owner) /\ text = Render(Authorities(owner)) /\ Valid(policy)
      /\ phase = IF ~isServiceSID(text) THEN "unrecognized"
                 ELSE IF text = policy.sid THEN "opened" ELSE "mismatch"
  BY DEF SidInv, Converted
<1>2. owner \in Names
  BY DEF SidInv, SidTypeOK
<1>3. PICK n : n = policy.name
  OBVIOUS
<1>4. ServiceSID(n) # NoSid /\ policy.sid = ServiceSID(n)
  BY <1>1, <1>3 DEF Valid
<1>5. WellFormedName(n)
  BY <1>4 DEF ServiceSID
<1>6. n \in Names
  <2>1. policy # ZeroPolicy
    BY <1>3, <1>5 DEF ZeroPolicy, WellFormedName
  <2> QED BY <1>3, <2>1 DEF SidInv, SidTypeOK
<1>7. policy.sid = Render(Authorities(n)) /\ Authorities(n) \in Numbers
  BY <1>4, <1>5, <1>6, AuthoritiesType
<1>8. Authorities(owner) \in Numbers
  BY <1>1, <1>2, AuthoritiesType
<1>9. isServiceSID(text)
  BY <1>1, <1>8, Rendered
<1>10. phase = "opened" <=> Authorities(owner) = Authorities(n)
  BY <1>1, <1>7, <1>8, <1>9, RenderInjective
<1>11. Authorities(owner) = Authorities(n) <=> UpperCase(owner) = UpperCase(n)
  BY <1>1, <1>2, <1>5, <1>6, ServiceSidAssumption DEF Authorities
<1> QED BY <1>1, <1>2, <1>3, <1>5, <1>6, <1>10, <1>11, UpperCaseOfService

\* A key made for a service opens under the policy of that service, in whatever
\* spelling, and under no other: for all names, and however many digits the
\* numbers of a SID take (ServiceSID, parseSID, checkDACLState).
THEOREM OpensForOneService == SidSpec => []OpensForItsServiceOnly
<1>1. SidInv => OpensForItsServiceOnly
  BY OpensForService DEF OpensForItsServiceOnly
<1> QED BY <1>1, SidInvCorrect, PTL

\* Exactly the renderings of as many numbers as a service SID has are taken for
\* one, each below the limit (isServiceSID).
THEOREM Recognizes == SidSpec => []RecognizesServiceSids
<1>1. SidInv => RecognizesServiceSids
  <2> SUFFICES ASSUME SidInv, phase \in {"opened", "mismatch", "unrecognized"}
               PROVE  phase # "unrecognized" <=> \E numbers \in Numbers : text = Render(numbers)
    BY DEF RecognizesServiceSids, Numbers
  <2>1. phase # "unrecognized" <=> isServiceSID(text)
    BY DEF SidInv, Converted
  <2>2. text \in Seq(Seq(Digits))
    BY DEF SidInv, SidTypeOK
  <2> QED BY <2>1, <2>2, Rendered, OnlyRendered
<1> QED BY <1>1, SidInvCorrect, PTL

-----------------------------------------------------------------------------
(***************************************************************************)
(* Values read into buffers.  The inductive invariant says what buffer and *)
(* reported length are at each point, relative to the value as it is for   *)
(* the readers whose value does not change, and as it was read for the     *)
(* descriptor.                                                             *)
(***************************************************************************)
\* Before a value is taken from the buffer.
AfterTwoCalls ==
    /\ held \in Values
    /\ reported = held.length
    /\ held.length <= buffer
    /\ protocol = "fixed" => held = value

AfterPath ==
    /\ Fits => held = value /\ reported = value.length
    /\ ~Fits /\ protocol = "module" => reported = buffer
    /\ ~Fits /\ protocol = "directory" => reported = value.length + 1

Progress ==
    /\ pc = "query" => protocol \in TwoCalls
    /\ protocol = "fixed" /\ pc \in {"read", "take"} => buffer = value.length
    /\ pc = "take" /\ protocol \in TwoCalls => AfterTwoCalls
    /\ pc = "take" /\ protocol \in Growing => AfterPath /\ buffer > 0
    /\ pc # "done" => outcome = NothingRead

ReadInv == ReadTypeOK /\ Progress /\ ReturnsOneValue /\ StaysInBuffer

LEMMA ValueTypes ==
    ASSUME NEW v \in Values
    PROVE  /\ v.length \in Nat /\ v.length > 0 /\ v.length \in Lengths
           /\ v \in Results /\ v # NothingRead
           /\ [v EXCEPT !.length = v.length] = v
BY ReadAssumption DEF Values, Results

LEMMA InitReadInv == ReadInit => ReadInv
<1> SUFFICES ASSUME ReadInit PROVE ReadInv
  OBVIOUS
<1>1. MaxPath \in Nat /\ MaxPath > 0 /\ GrowthLimit \in Nat /\ MaxPath < 2 * GrowthLimit
      /\ Changes \in Nat /\ protocol \in TwoCalls \cup Growing
  BY ReadAssumption DEF ReadInit
<1>2. ReadTypeOK
  BY <1>1 DEF ReadInit, ReadTypeOK, TwoCalls
<1>3. Progress
  BY <1>1 DEF ReadInit, Progress, TwoCalls, Growing
<1>4. ReturnsOneValue /\ StaysInBuffer
  BY <1>1 DEF ReadInit, ReturnsOneValue, StaysInBuffer
<1> QED BY <1>2, <1>3, <1>4 DEF ReadInv

\* A failed call returns nothing.
LEMMA FailInv ==
    ASSUME ReadInv, pc # "done", Fail, UNCHANGED <<protocol, value, changes>>
    PROVE  ReadInv'
<1>1. outcome' = NothingRead /\ pc' = "done"
  BY DEF Fail, ReadInv, Progress
<1>2. ReadTypeOK'
  BY DEF ReadInv, ReadTypeOK, Fail
<1>3. Progress'
  BY <1>1 DEF Progress
<1>4. ReturnsOneValue' /\ StaysInBuffer'
  BY <1>1 DEF ReturnsOneValue, StaysInBuffer
<1> QED BY <1>2, <1>3, <1>4 DEF ReadInv

LEMMA ReplaceInv == ReadInv /\ ReplaceValue => ReadInv'
<1> SUFFICES ASSUME ReadInv, ReplaceValue PROVE ReadInv'
  OBVIOUS
<1>1. /\ protocol = "descriptor" /\ value' \in Values
      /\ UNCHANGED <<protocol, pc, buffer, reported, held, outcome>>
      /\ changes' = changes + 1 /\ changes < Changes
  BY DEF ReplaceValue
<1>2. ReadTypeOK'
  BY <1>1, ReadAssumption DEF ReadInv, ReadTypeOK
<1>3. Progress'
  BY <1>1 DEF ReadInv, Progress, AfterTwoCalls, TwoCalls, Growing
<1>4. ReturnsOneValue' /\ StaysInBuffer'
  BY <1>1 DEF ReadInv, ReturnsOneValue, StaysInBuffer
<1> QED BY <1>2, <1>3, <1>4 DEF ReadInv

LEMMA QueryInv == ReadInv /\ QuerySize => ReadInv'
<1> SUFFICES ASSUME ReadInv, QuerySize PROVE ReadInv'
  OBVIOUS
<1>1. pc = "query" /\ UNCHANGED <<protocol, value, changes>>
  BY DEF QuerySize
<1>2. CASE Fail
  BY <1>1, <1>2, FailInv
<1>3. ASSUME NEW n \in ReportedSizes, UsableSize(n), reported' = n, buffer' = n,
             pc' = "read", UNCHANGED <<held, outcome>>
      PROVE  ReadInv'
  <2>1. value \in Values /\ value.length \in Nat /\ value.length > 0
    BY ValueTypes DEF ReadInv, ReadTypeOK
  <2>2. n \in Nat /\ n > 0 /\ (protocol # "descriptor" => n = value.length)
    BY <1>3, <2>1 DEF ReportedSizes, UsableSize
  <2>3. protocol # "module"
    BY <1>1 DEF ReadInv, Progress, TwoCalls
  <2>4. ReadTypeOK'
    BY <1>1, <1>3, <2>2, <2>3 DEF ReadInv, ReadTypeOK
  <2>5. Progress'
    BY <1>1, <1>3, <2>2 DEF ReadInv, Progress
  <2>6. ReturnsOneValue' /\ StaysInBuffer'
    BY <1>1, <1>3, <2>2 DEF ReadInv, Progress, ReturnsOneValue, StaysInBuffer
  <2> QED BY <2>4, <2>5, <2>6 DEF ReadInv
<1> QED BY <1>2, <1>3 DEF QuerySize

LEMMA ReadValueInv == ReadInv /\ ReadValue => ReadInv'
<1> SUFFICES ASSUME ReadInv, ReadValue PROVE ReadInv'
  OBVIOUS
<1>1. /\ pc = "read" /\ protocol \in TwoCalls /\ UNCHANGED <<protocol, value, changes>>
  BY DEF ReadValue
<1>2. CASE Fail
  BY <1>1, <1>2, FailInv
<1>3. CASE /\ value.length <= buffer /\ held' = value /\ reported' = value.length
           /\ pc' = "take" /\ UNCHANGED <<buffer, outcome>>
  <2>1. value \in Values /\ value.length \in Nat /\ value \in Results
    BY ValueTypes DEF ReadInv, ReadTypeOK
  <2>2. ReadTypeOK'
    BY <1>1, <1>3, <2>1 DEF ReadInv, ReadTypeOK
  <2>3. outcome' = NothingRead
    BY <1>1, <1>3 DEF ReadInv, Progress
  <2>4. Progress'
    BY <1>1, <1>3, <2>1, <2>3 DEF ReadInv, Progress, AfterTwoCalls, TwoCalls, Growing
  <2>5. ReturnsOneValue' /\ StaysInBuffer'
    BY <1>3, <2>3 DEF ReturnsOneValue, StaysInBuffer
  <2> QED BY <2>2, <2>4, <2>5 DEF ReadInv
<1> QED BY <1>2, <1>3 DEF ReadValue

LEMMA TakeValueInv == ReadInv /\ TakeValue => ReadInv'
<1> SUFFICES ASSUME ReadInv, TakeValue PROVE ReadInv'
  OBVIOUS
<1>1. /\ pc = "take" /\ protocol \in TwoCalls /\ pc' = "done"
      /\ UNCHANGED <<protocol, value, changes, buffer, reported, held>>
      /\ outcome' = [held EXCEPT !.length = Returned]
  BY DEF TakeValue
<1>2. AfterTwoCalls /\ (protocol = "fixed" => buffer = value.length)
  BY <1>1 DEF ReadInv, Progress
<1>3. held \in Values /\ held.length \in Lengths /\ held \in Results
      /\ [held EXCEPT !.length = held.length] = held
  BY <1>2, ValueTypes DEF AfterTwoCalls
<1>4. Returned = held.length
  BY <1>1, <1>2 DEF Returned, AfterTwoCalls, TwoCalls
<1>5. outcome' = held
  BY <1>1, <1>3, <1>4
<1>6. ReadTypeOK'
  BY <1>1, <1>3, <1>5 DEF ReadInv, ReadTypeOK
<1>7. Progress'
  BY <1>1 DEF Progress
<1>8. ReturnsOneValue' /\ StaysInBuffer'
  BY <1>1, <1>2, <1>3, <1>5 DEF ReturnsOneValue, StaysInBuffer, AfterTwoCalls, TwoCalls
<1> QED BY <1>6, <1>7, <1>8 DEF ReadInv

-----------------------------------------------------------------------------
LEMMA ReadPathInv == ReadInv /\ ReadPath => ReadInv'
<1> SUFFICES ASSUME ReadInv, ReadPath PROVE ReadInv'
  OBVIOUS
<1>1. pc = "read" /\ protocol \in Growing /\ UNCHANGED <<protocol, value, changes>>
  BY DEF ReadPath
<1>2. CASE Fail
  BY <1>1, <1>2, FailInv
<1>3. CASE ~Fail
  <2>1. /\ pc' = "take" /\ UNCHANGED <<buffer, outcome>>
        /\ reported' = IF Fits THEN value.length
                       ELSE IF protocol = "module" THEN buffer
                       ELSE value.length + 1
        /\ held' = IF Fits THEN value
                   ELSE IF protocol = "module"
                   THEN [value EXCEPT !.length = buffer - 1]
                   ELSE NothingRead
    BY <1>3 DEF ReadPath
  <2>2. value \in Values /\ value.length \in Nat /\ value \in Results
        /\ buffer \in Nat /\ buffer > 0
    BY <1>1, ValueTypes DEF ReadInv, ReadTypeOK, StaysInBuffer
  <2>3. [value EXCEPT !.length = buffer - 1] \in Results
    <3>1. buffer - 1 \in Nat
      BY <2>2
    <3> QED BY <2>2, <3>1 DEF Results
  <2>4. ReadTypeOK'
    BY <1>1, <2>1, <2>2, <2>3 DEF ReadInv, ReadTypeOK
  <2>5. outcome' = NothingRead
    BY <1>1, <2>1 DEF ReadInv, Progress
  <2>6. Progress'
    BY <1>1, <2>1, <2>2, <2>5 DEF Progress, AfterPath, Fits, TwoCalls, Growing
  <2>7. ReturnsOneValue' /\ StaysInBuffer'
    BY <2>1, <2>5 DEF ReturnsOneValue, StaysInBuffer
  <2> QED BY <2>4, <2>6, <2>7 DEF ReadInv
<1> QED BY <1>2, <1>3

LEMMA TakePathInv == ReadInv /\ TakePath => ReadInv'
<1> SUFFICES ASSUME ReadInv, TakePath PROVE ReadInv'
  OBVIOUS
<1>1. /\ pc = "take" /\ protocol \in Growing /\ pc' = "done" /\ reported < buffer
      /\ UNCHANGED <<protocol, value, changes, buffer, reported, held>>
      /\ outcome' = [held EXCEPT !.length = reported]
  BY DEF TakePath, AcceptsPath
<1>2. AfterPath /\ value \in Values /\ value.length \in Nat /\ buffer \in Nat
  BY <1>1, ValueTypes DEF ReadInv, Progress, ReadTypeOK
<1>3. Fits
  BY <1>1, <1>2 DEF AfterPath, Fits, Growing
<1>4. outcome' = value /\ held = value /\ value \in Results /\ value.length \in Lengths
  BY <1>1, <1>2, <1>3, ValueTypes DEF AfterPath
<1>5. ReadTypeOK'
  BY <1>1, <1>4 DEF ReadInv, ReadTypeOK
<1>6. Progress'
  BY <1>1 DEF Progress
<1>7. ReturnsOneValue'
  BY <1>1, <1>4 DEF ReturnsOneValue
<1>8. StaysInBuffer'
  <2>1. outcome'.length = value.length /\ buffer' = buffer /\ pc' # "read"
    BY <1>1, <1>4
  <2> QED BY <1>2, <1>3, <2>1 DEF StaysInBuffer, Fits
<1> QED BY <1>5, <1>6, <1>7, <1>8 DEF ReadInv

LEMMA GrowBufferInv == ReadInv /\ GrowBuffer => ReadInv'
<1> SUFFICES ASSUME ReadInv, GrowBuffer PROVE ReadInv'
  OBVIOUS
<1>1. /\ pc = "take" /\ protocol \in Growing /\ ~(reported < buffer)
      /\ UNCHANGED <<protocol, value, changes>>
  BY DEF GrowBuffer, AcceptsPath
<1>2. CASE StopsGrowing
  <2>1. Fail
    BY <1>2 DEF GrowBuffer
  <2> QED BY <1>1, <2>1, FailInv
<1>3. CASE ~StopsGrowing
  <2>1. buffer' = NextSize /\ pc' = "read" /\ UNCHANGED <<reported, held, outcome>>
    BY <1>3 DEF GrowBuffer
  <2>2. buffer \in Nat /\ reported \in Nat /\ buffer > 0 /\ GrowthLimit \in Nat
        /\ outcome = NothingRead
    BY <1>1, ReadAssumption DEF ReadInv, ReadTypeOK, Progress
  <2>3. NextSize \in Nat /\ NextSize > 0
        /\ (protocol = "module" => NextSize < 2 * GrowthLimit)
    BY <1>1, <1>3, <2>2 DEF NextSize, StopsGrowing
  <2>4. ReadTypeOK'
    BY <1>1, <2>1, <2>3 DEF ReadInv, ReadTypeOK
  <2>5. Progress'
    BY <1>1, <2>1, <2>2 DEF Progress, Growing
  <2>6. ReturnsOneValue' /\ StaysInBuffer'
    BY <2>1, <2>2, <2>3 DEF ReturnsOneValue, StaysInBuffer
  <2> QED BY <2>4, <2>5, <2>6 DEF ReadInv
<1> QED BY <1>2, <1>3

LEMMA ReadInductive == ReadInv /\ [ReadNext]_readVars => ReadInv'
<1> SUFFICES ASSUME ReadInv, [ReadNext]_readVars PROVE ReadInv'
  OBVIOUS
<1>1. CASE ReplaceValue
  BY <1>1, ReplaceInv
<1>2. CASE QuerySize
  BY <1>2, QueryInv
<1>3. CASE ReadValue
  BY <1>3, ReadValueInv
<1>4. CASE TakeValue
  BY <1>4, TakeValueInv
<1>5. CASE ReadPath
  BY <1>5, ReadPathInv
<1>6. CASE TakePath
  BY <1>6, TakePathInv
<1>7. CASE GrowBuffer
  BY <1>7, GrowBufferInv
<1>8. CASE UNCHANGED readVars
  BY <1>8 DEF readVars, ReadInv, ReadTypeOK, Progress, AfterTwoCalls, AfterPath, Fits,
     ReturnsOneValue, StaysInBuffer
<1> QED BY <1>1, <1>2, <1>3, <1>4, <1>5, <1>6, <1>7, <1>8 DEF ReadNext, ReadStep

\* The buffers, lengths and results are of the kinds the code computes with, and
\* the buffer of moduleFileName stays below twice its limit.
THEOREM ReadTypes == ReadSpec => []ReadTypeOK
<1>1. ReadInv => ReadTypeOK
  BY DEF ReadInv
<1> QED BY <1>1, InitReadInv, ReadInductive, PTL DEF ReadSpec

\* getSecurityDescriptor and the other readers return one value that was there,
\* whole, however often the value is replaced between their calls.
THEOREM OneValueIsReturned == ReadSpec => []ReturnsOneValue
<1>1. ReadInv => ReturnsOneValue
  BY DEF ReadInv
<1> QED BY <1>1, InitReadInv, ReadInductive, PTL DEF ReadSpec

\* No reader slices its buffer beyond its end or points into an empty one.
THEOREM ReadersStayInBuffer == ReadSpec => []StaysInBuffer
<1>1. ReadInv => StaysInBuffer
  BY DEF ReadInv
<1> QED BY <1>1, InitReadInv, ReadInductive, PTL DEF ReadSpec

\* The last size is not below the limit, so the path does not fit into the limit.
LEMMA LongPaths == ReadInv => LongPathsAreRead
<1> SUFFICES ASSUME ReadInv, pc = "take", protocol = "module", ~AcceptsPath, StopsGrowing
             PROVE  value.length >= GrowthLimit
  BY DEF LongPathsAreRead
<1>1. AfterPath /\ value.length \in Nat /\ buffer \in Nat /\ GrowthLimit \in Nat
  BY ValueTypes, ReadAssumption DEF ReadInv, Progress, ReadTypeOK, Growing
<1>2. ~Fits
  BY <1>1 DEF AfterPath, AcceptsPath, Fits
<1> QED BY <1>1, <1>2 DEF Fits, StopsGrowing

\* moduleFileName gives up only on paths that do not fit into its limit, for
\* every limit and first size.
THEOREM OnlyLongPathsFail == ReadSpec => []LongPathsAreRead
BY LongPaths, InitReadInv, ReadInductive, PTL DEF ReadSpec

-----------------------------------------------------------------------------
(***************************************************************************)
(* The three together: those that are not run satisfy their invariants     *)
(* where they stand.                                                       *)
(***************************************************************************)
BorderInv == ReadInv /\ EncodingInv /\ SidInv

LEMMA IdleInv ==
    /\ ReaderIdle => ReadInv
    /\ EncodingIdle => EncodingInv
    /\ SidIdle => SidInv
<1>1. ASSUME ReaderIdle PROVE ReadInv
  BY <1>1, IdleAssumption, ReadAssumption
     DEF ReaderIdle, ReadInv, ReadTypeOK, Progress, ReturnsOneValue, StaysInBuffer
<1>2. ASSUME EncodingIdle PROVE EncodingInv
  <2>1. EncodingInit
    BY <1>2, IdleAssumption DEF EncodingIdle, EncodingInit
  <2> QED BY <2>1, EncodingInitInv
<1>3. ASSUME SidIdle PROVE SidInv
  <2>1. persisted \in Seq(SubAuthorities) /\ text \in Seq(Seq(Digits))
    BY <1>3 DEF SidIdle
  <2> QED BY <1>3, <2>1 DEF SidIdle, SidInv, SidTypeOK, Converted
<1> QED BY <1>1, <1>2, <1>3

LEMMA BorderInvCorrect == BorderSpec => []BorderInv
<1>1. BorderInit => BorderInv
  BY IdleInv, InitReadInv, EncodingInitInv, SidInitInv, Zenon DEF BorderInit, BorderInv
<1>2. BorderInv /\ [BorderNext]_borderVars => BorderInv'
  <2>1. [BorderNext]_borderVars =>
          [ReadNext]_readVars /\ [EncodingNext]_encodingVars /\ [SidNext]_sidVars
    BY DEF BorderNext, borderVars
  <2> QED BY <2>1, ReadInductive, EncodingInductive, SidInductive, Zenon DEF BorderInv
<1> QED BY <1>1, <1>2, PTL DEF BorderSpec

\* The types and the limit of moduleFileName, wherever the three stand: what the
\* results above rest on.
THEOREM BorderCorrect == BorderSpec => []BorderOK
<1>1. BorderInv => BorderOK
  BY LongPaths DEF BorderInv, BorderOK, ReadInv, EncodingInv, SidInv
<1> QED BY <1>1, BorderInvCorrect, PTL
=============================================================================
