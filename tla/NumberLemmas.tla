---------------------------- MODULE NumberLemmas ----------------------------
(***************************************************************************)
(* Facts about numbers and finite sets that the proofs share: the least    *)
(* element, by which they argue inductively, the largest one, division     *)
(* rounded down and up, and the sums of sequences.                         *)
(***************************************************************************)
EXTENDS Totals, FiniteSetTheorems, TLAPS

\* A set of numbers that is not empty has a least one: no descending sequence
\* is infinite.  An inductive proof takes the least counterexample.
LEMMA LeastNumber ==
    ASSUME NEW S \in SUBSET Nat, S # {}
    PROVE  \E n \in S : \A m \in S : n <= m
<1>1. PICK n \in S : \A m \in S : ~ (<<m, n>> \in OpToRel(<, Nat))
  BY NatLessThanWellFounded, WFMin
<1>2. \A m \in S : ~ (m < n)
  BY <1>1 DEF OpToRel
<1> QED  BY <1>2

\* S holds 0, and the successor of each of its numbers below N.
Inductive(S, N) == 0 \in S /\ \A n \in 0..(N - 1) : n \in S => n + 1 \in S

\* Induction up to N, over the set of the numbers that have a property.
LEMMA UptoInduction ==
    ASSUME NEW N \in Nat, NEW S, Inductive(S, N)
    PROVE  \A n \in 0..N : n \in S
<1> DEFINE Bad == (0..N) \ S
<1> SUFFICES ASSUME Bad # {} PROVE FALSE
  OBVIOUS
<1>1. Bad \in SUBSET Nat
  OBVIOUS
<1>2. PICK k \in Bad : \A m \in Bad : k <= m
  <2> HIDE DEF Bad
  <2> QED  BY <1>1, LeastNumber
<1>3. k # 0
  BY DEF Inductive
<1>4. k - 1 \in S /\ k - 1 \in 0..(N - 1)
  BY <1>2, <1>3
<1> QED  BY <1>4 DEF Inductive

\* A finite set of integers that is not empty has a largest element.
LEMMA LargestNumber ==
    ASSUME NEW S \in SUBSET Int, IsFiniteSet(S), S # {}
    PROVE  \E n \in S : \A m \in S : n >= m
<1> DEFINE Bad == {T \in SUBSET S : T # {} /\ ~ \E n \in T : \A m \in T : n >= m}
<1> SUFFICES ASSUME Bad # {} PROVE FALSE
  OBVIOUS
<1>1. Bad \subseteq FiniteSubsetsOf(S)
  BY FS_Subset DEF FiniteSubsetsOf
<1>2. PICK T \in Bad : \A U \in Bad : ~ (<<U, T>> \in StrictSubsetOrdering(S))
  BY <1>1, FS_StrictSubsetOrderingWellFounded, WFMin
<1>3. PICK x \in T : TRUE
  OBVIOUS
<1>4. T \ {x} # {}
  BY <1>2, <1>3
<1>5. PICK n \in T \ {x} : \A m \in T \ {x} : n >= m
  <2>1. <<T \ {x}, T>> \in StrictSubsetOrdering(S)
    BY <1>3 DEF StrictSubsetOrdering
  <2>2. T \ {x} \notin Bad
    BY <1>2, <2>1
  <2> QED  BY <1>4, <2>2
<1>6. \A m \in T : (IF n >= x THEN n ELSE x) >= m
  BY <1>5
<1> QED  BY <1>2, <1>3, <1>5, <1>6

-----------------------------------------------------------------------------
\* Division by a positive number, rounded down.
LEMMA Division ==
    ASSUME NEW a \in Int, NEW b \in Nat \ {0}
    PROVE  /\ a \div b \in Int
           /\ b * (a \div b) <= a
           /\ a < b * (a \div b) + b
OBVIOUS

\* A quotient lies below q + 1 when q + 1 times the divisor exceeds the
\* dividend, and reaches q when q times the divisor does not.
LEMMA QuotientBounds ==
    ASSUME NEW a \in Int, NEW b \in Nat \ {0}, NEW q \in Int
    PROVE  /\ b * q <= a => q <= a \div b
           /\ a < b * q + b => a \div b <= q
OBVIOUS

\* A product grows with either factor.
LEMMA ProductGrows ==
    ASSUME NEW a \in Int, NEW b \in Int, NEW c \in Nat, a <= b
    PROVE  a * c <= b * c
OBVIOUS

-----------------------------------------------------------------------------
(* Sums.                                                                   *)

\* t adds up the elements of s, one by one.
AddsUp(t, s) ==
    /\ t \in [0..Len(s) -> Int]
    /\ \A n \in 0..Len(s) : t[n] = IF n = 0 THEN 0 ELSE t[n - 1] + s[n]

\* The partial sums of a sequence exist: those of a shorter one are extended.
LEMMA TotalExists ==
    ASSUME NEW s \in Seq(Int)
    PROVE  \E t : AddsUp(t, s)
<1> DEFINE Upto(t, k) == \A n \in 0..k : t[n] = IF n = 0 THEN 0 ELSE t[n - 1] + s[n]
           Good == {k \in 0..Len(s) : \E t \in [0..k -> Int] : Upto(t, k)}
<1>1. 0 \in Good
  <2> DEFINE t == [n \in 0..0 |-> 0]
  <2>1. t \in [0..0 -> Int] /\ Upto(t, 0)
    OBVIOUS
  <2> HIDE DEF t, Upto
  <2> QED  BY <2>1
<1>2. ASSUME NEW k \in 0..(Len(s) - 1), k \in Good PROVE k + 1 \in Good
  <2>1. PICK t \in [0..k -> Int] : Upto(t, k)
    BY <1>2
  <2> DEFINE u == [n \in 0..(k + 1) |-> IF n = k + 1 THEN t[k] + s[k + 1] ELSE t[n]]
  <2>2. s[k + 1] \in Int /\ t[k] \in Int
    BY <2>1
  <2>3. u \in [0..(k + 1) -> Int]
    BY <2>1, <2>2
  <2>4. Upto(u, k + 1)
    BY <2>1
  <2> HIDE DEF u, Upto
  <2> QED  BY <2>3, <2>4
<1>3. Len(s) \in Good
  <2> HIDE DEF Good
  <2>1. Inductive(Good, Len(s))
    BY <1>1, <1>2 DEF Inductive
  <2> QED  BY <2>1, UptoInduction
<1> QED  BY <1>3 DEF AddsUp

\* Each partial sum is the one before it and one element.
LEMMA AddsUpStep ==
    ASSUME NEW s \in Seq(Int), NEW t, AddsUp(t, s)
    PROVE  /\ t[0] = 0
           /\ \A n \in 0..Len(s) : t[n] \in Int
           /\ \A n \in 0..(Len(s) - 1) : s[n + 1] \in Int /\ t[n + 1] = t[n] + s[n + 1]
<1>1. t[0] = 0 /\ \A n \in 0..Len(s) : t[n] \in Int
  BY DEF AddsUp
<1>2. ASSUME NEW n \in 0..(Len(s) - 1)
      PROVE  s[n + 1] \in Int /\ t[n + 1] = t[n] + s[n + 1]
  <2>1. n + 1 \in 1..Len(s) /\ n + 1 \in 0..Len(s) /\ n + 1 # 0 /\ (n + 1) - 1 = n
    OBVIOUS
  <2>2. \A i \in 1..Len(s) : s[i] \in Int
    OBVIOUS
  <2>3. t[n + 1] = IF n + 1 = 0 THEN 0 ELSE t[(n + 1) - 1] + s[n + 1]
    BY <2>1 DEF AddsUp
  <2> QED  BY <2>1, <2>2, <2>3
<1> QED  BY <1>1, <1>2

\* Total is the last of the partial sums.
LEMMA TotalAddsUp ==
    ASSUME NEW s \in Seq(Int)
    PROVE  \E t : AddsUp(t, s) /\ Total(s) = t[Len(s)]
<1> DEFINE Fits(t) == t = [n \in 0..Len(s) |-> IF n = 0 THEN 0 ELSE t[n - 1] + s[n]]
           total == CHOOSE t : Fits(t)
<1>1. PICK t : AddsUp(t, s)
  BY TotalExists
<1>2. Fits(t)
  BY <1>1 DEF AddsUp
<1>3. Fits(total)
  <2> HIDE DEF Fits
  <2> QED  BY <1>2
<1>4. AddsUp(total, s)
  <2> HIDE DEF total
  <2>1. DOMAIN total = 0..Len(s) /\ \A n \in 0..Len(s) : total[n] = IF n = 0 THEN 0 ELSE total[n - 1] + s[n]
    BY <1>3
  <2> DEFINE Good == {k \in 0..Len(s) : total[k] \in Int}
  <2>2. ASSUME NEW n \in 0..(Len(s) - 1), total[n] \in Int PROVE total[n + 1] \in Int
    <3>1. total[n + 1] = total[n] + s[n + 1]
      <4>1. n + 1 \in 0..Len(s) /\ n + 1 # 0 /\ (n + 1) - 1 = n
        OBVIOUS
      <4> QED  BY <2>1, <4>1
    <3> QED  BY <2>2, <3>1
  <2>3. Inductive(Good, Len(s))
    BY <2>1, <2>2 DEF Inductive
  <2>4. \A n \in 0..Len(s) : n \in Good
    <3> HIDE DEF Good
    <3> QED  BY <2>3, UptoInduction
  <2>5. total = [n \in 0..Len(s) |-> total[n]]
    BY <1>3
  <2> QED  BY <2>1, <2>4, <2>5 DEF AddsUp
<1>5. Total(s) = total[Len(s)]
  BY DEF Total
<1> QED  BY <1>4, <1>5

\* One more element is added to the sum.
LEMMA TotalAppend ==
    ASSUME NEW s \in Seq(Int), NEW x \in Int
    PROVE  Total(Append(s, x)) = Total(s) + x
<1> DEFINE r == Append(s, x)
<1>1. r \in Seq(Int) /\ Len(r) = Len(s) + 1 /\ r[Len(s) + 1] = x
  OBVIOUS
<1>2. \A i \in 1..Len(s) : r[i] = s[i]
  OBVIOUS
<1> HIDE DEF r
<1>3. PICK t : AddsUp(t, s) /\ Total(s) = t[Len(s)]
  BY TotalAddsUp
<1>4. PICK u : AddsUp(u, r) /\ Total(r) = u[Len(r)]
  BY <1>1, TotalAddsUp
<1> DEFINE Good == {n \in 0..Len(s) : u[n] = t[n]}
<1>5. Inductive(Good, Len(s))
  <2>1. 0 \in Good
    BY <1>1, <1>3, <1>4 DEF AddsUp
  <2>2. ASSUME NEW n \in 0..(Len(s) - 1), n \in Good PROVE n + 1 \in Good
    <3>1. t[n + 1] = t[n] + s[n + 1]
      BY <1>3, AddsUpStep
    <3>2. n \in 0..(Len(r) - 1)
      BY <1>1
    <3>3. u[n + 1] = u[n] + r[n + 1]
      BY <1>1, <1>4, <3>2, AddsUpStep
    <3> QED  BY <1>2, <2>2, <3>1, <3>3
  <2> HIDE DEF Good
  <2> QED  BY <2>1, <2>2 DEF Inductive
<1>6. u[Len(s)] = t[Len(s)]
  <2> HIDE DEF Good
  <2>1. Len(s) \in Good
    BY <1>5, UptoInduction
  <2> QED  BY <2>1 DEF Good
<1>7. u[Len(s) + 1] = u[Len(s)] + x
  BY <1>1, <1>4, AddsUpStep
<1> QED  BY <1>1, <1>3, <1>4, <1>6, <1>7 DEF r

\* Where one element differs, the sums differ by as much.
LEMMA TotalChange ==
    ASSUME NEW s \in Seq(Int), NEW r \in Seq(Int), Len(r) = Len(s), NEW k \in 1..Len(s),
           \A i \in 1..Len(s) : i # k => r[i] = s[i]
    PROVE  Total(r) = Total(s) + (r[k] - s[k])
<1>1. PICK t : AddsUp(t, s) /\ Total(s) = t[Len(s)]
  BY TotalAddsUp
<1>2. PICK u : AddsUp(u, r) /\ Total(r) = u[Len(r)]
  BY TotalAddsUp
<1> DEFINE Good == {n \in 0..Len(s) : u[n] = t[n] + (IF n < k THEN 0 ELSE r[k] - s[k])}
<1>3. Inductive(Good, Len(s))
  <2>1. 0 \in Good
    BY <1>1, <1>2 DEF AddsUp
  <2>2. ASSUME NEW n \in 0..(Len(s) - 1), n \in Good PROVE n + 1 \in Good
    <3>1. u[n + 1] = u[n] + r[n + 1] /\ t[n + 1] = t[n] + s[n + 1]
      BY <1>1, <1>2, AddsUpStep
    <3>2. /\ t[n] \in Int /\ u[n] \in Int /\ r[n + 1] \in Int /\ s[n + 1] \in Int
          /\ r[k] \in Int /\ s[k] \in Int
      BY <1>1, <1>2, AddsUpStep
    <3>3. u[n] = t[n] + (IF n < k THEN 0 ELSE r[k] - s[k])
      BY <2>2
    <3>4. /\ n + 1 # k => r[n + 1] = s[n + 1]
          /\ n + 1 = k => r[n + 1] = r[k] /\ s[n + 1] = s[k]
      <4> HIDE DEF Good
      <4>1. n + 1 \in 1..Len(s)
        OBVIOUS
      <4> QED  BY <4>1
    <3>5. n \in Nat /\ k \in Nat
      OBVIOUS
    <3>6. u[n] + r[n + 1] = (t[n] + s[n + 1]) + (IF n + 1 < k THEN 0 ELSE r[k] - s[k])
      <4> HIDE DEF Good
      <4>1. PICK a \in Int, b \in Int : a = s[k] /\ b = r[k]
        BY <3>2
      <4>2. PICK v \in Int, w \in Int : v = t[n] /\ w = u[n]
        BY <3>2
      <4>3. PICK x \in Int, y \in Int : x = s[n + 1] /\ y = r[n + 1]
        BY <3>2
      <4>4. w = v + (IF n < k THEN 0 ELSE b - a) /\ (n + 1 # k => y = x) /\ (n + 1 = k => y = b /\ x = a)
        BY <3>3, <3>4, <4>1, <4>2, <4>3
      <4>5. /\ n + 1 < k => n < k
            /\ n + 1 = k => n < k /\ ~ (n + 1 < k)
            /\ n + 1 # k /\ ~ (n + 1 < k) => ~ (n < k)
        BY <3>5
      <4>6. w + y = (v + x) + (IF n + 1 < k THEN 0 ELSE b - a)
        <5>1. CASE n + 1 < k
          BY <4>4, <4>5, <5>1
        <5>2. CASE n + 1 = k
          <6>1. w = v /\ y = b /\ x = a
            BY <4>4, <4>5, <5>2
          <6>2. v + b = (v + a) + (b - a)
            OBVIOUS
          <6> QED  BY <4>5, <5>2, <6>1, <6>2
        <5>3. CASE n + 1 # k /\ ~ (n + 1 < k)
          <6>1. w = v + (b - a) /\ y = x
            BY <4>4, <4>5, <5>3
          <6>2. (v + (b - a)) + x = (v + x) + (b - a)
            OBVIOUS
          <6> QED  BY <5>3, <6>1, <6>2
        <5> QED  BY <5>1, <5>2, <5>3
      <4> QED  BY <4>1, <4>2, <4>3, <4>6
    <3> QED  BY <3>1, <3>6
  <2> HIDE DEF Good
  <2> QED  BY <2>1, <2>2 DEF Inductive
<1>4. Len(s) \in Good
  <2> HIDE DEF Good
  <2> QED  BY <1>3, UptoInduction
<1> QED  BY <1>1, <1>2, <1>4

\* A sum of natural numbers is not negative.
LEMMA TotalNat == ASSUME NEW s \in Seq(Nat) PROVE Total(s) \in Nat
<1>1. s \in Seq(Int)
  OBVIOUS
<1>2. PICK t : AddsUp(t, s) /\ Total(s) = t[Len(s)]
  BY <1>1, TotalAddsUp
<1> DEFINE Good == {n \in 0..Len(s) : t[n] \in Nat}
<1>3. Inductive(Good, Len(s))
  <2>1. 0 \in Good
    BY <1>1, <1>2, AddsUpStep
  <2>2. ASSUME NEW n \in 0..(Len(s) - 1), n \in Good PROVE n + 1 \in Good
    <3>1. t[n + 1] = t[n] + s[n + 1]
      BY <1>1, <1>2, AddsUpStep
    <3>2. s[n + 1] \in Nat
      OBVIOUS
    <3> QED  BY <2>2, <3>1, <3>2
  <2> HIDE DEF Good
  <2> QED  BY <2>1, <2>2 DEF Inductive
<1>4. Len(s) \in Good
  <2> HIDE DEF Good
  <2> QED  BY <1>3, UptoInduction
<1> QED  BY <1>2, <1>4

\* A sum of integers is an integer.
LEMMA TotalType == ASSUME NEW s \in Seq(Int) PROVE Total(s) \in Int
BY TotalAddsUp DEF AddsUp

\* The empty sum is zero.
LEMMA TotalEmpty == Total(<<>>) = 0
<1>1. <<>> \in Seq(Int) /\ Len(<<>>) = 0
  OBVIOUS
<1> QED  BY <1>1, TotalAddsUp, AddsUpStep
=============================================================================
