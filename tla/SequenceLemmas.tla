------------------------------ MODULE SequenceLemmas -----------------------------
(* Sequences without some of their elements, and the facts about sequences and  *)
(* numbers that the proofs need beyond those of the library: what a recursion   *)
(* along a sequence computes is shown by induction over a set of numbers.       *)
EXTENDS Naturals, Sequences, SequenceTheorems, WellFoundedInduction, TLAPS

(* The elements of s that are not in S, in order. *)
Without(s, S) ==
  LET rest[i \in 0..Len(s)] ==
        IF i = 0 THEN <<>>
        ELSE IF s[i] \in S THEN rest[i - 1] ELSE Append(rest[i - 1], s[i])
  IN rest[Len(s)]
--------------------------------------------------------------------------------
(* A function on 1..n is a sequence of length n. *)
LEMMA FunctionIsSeq ==
  ASSUME NEW S, NEW n \in Nat, NEW f \in [1..n -> S]
  PROVE  f \in Seq(S) /\ Len(f) = n /\ DOMAIN f = 1..n
<1>1. f \in Seq(S)
  BY SeqDef
<1>2. QED
  BY <1>1, LenProperties

(* A set of naturals that is not empty has a smallest member. *)
LEMMA Smallest ==
  ASSUME NEW I \in SUBSET Nat, I # {}
  PROVE  \E x \in I : \A y \in I : x <= y
<1>1. \E x \in I : \A y \in I : ~(<<y, x>> \in OpToRel(<, Nat))
  BY WFMin, NatLessThanWellFounded
<1>2. PICK x \in I : \A y \in I : ~(<<y, x>> \in OpToRel(<, Nat))
  BY <1>1
<1>3. \A y \in I : x <= y
  <2> SUFFICES ASSUME NEW y \in I, ~(x <= y)
               PROVE  FALSE
    OBVIOUS
  <2>1. <<y, x>> \in Nat \X Nat /\ <<y, x>>[1] = y /\ <<y, x>>[2] = x
    OBVIOUS
  <2>2. y < x
    BY <2>1
  <2>3. OpToRel(<, Nat) = {ss \in Nat \X Nat : ss[1] < ss[2]}
    BY DEF OpToRel
  <2>4. <<y, x>> \in OpToRel(<, Nat)
    BY <2>1, <2>2, <2>3
  <2> QED
    BY <1>2, <2>4
<1> QED
  BY <1>3

(* A set that holds 0 and with a number its successor holds them all, up   *)
(* to n.                                                                   *)
LEMMA UpTo ==
  ASSUME NEW n \in Nat, NEW S \in SUBSET Nat, 0 \in S,
         \A i \in S : i < n => i + 1 \in S
  PROVE  0..n \subseteq S
<1> DEFINE B == {i \in 0..n : i \notin S}
<1>1. CASE B = {}
  BY <1>1
<1>2. CASE B # {}
  <2>0. B \in SUBSET Nat
    OBVIOUS
  <2> HIDE DEF B
  <2>1. PICK x \in B : \A y \in B : x <= y
    BY <1>2, <2>0, Smallest
  <2> USE DEF B
  <2>2. x \in 0..n /\ x \notin S /\ x # 0
    BY <2>1
  <2>3. x - 1 \in 0..n /\ x - 1 \notin B /\ x - 1 < n
    BY <2>1, <2>2
  <2>4. x - 1 \in S
    BY <2>3
  <2>5. x - 1 + 1 \in S /\ x - 1 + 1 = x
    BY <2>2, <2>3, <2>4
  <2> QED
    BY <2>2, <2>5
<1> QED
  BY <1>1, <1>2

(* A set that holds 1 and with a number its successor holds 1..n. *)
LEMMA FromOne ==
  ASSUME NEW n \in Nat, NEW S \in SUBSET Nat, 1 \in S,
         \A i \in 2..n : i - 1 \in S => i \in S
  PROVE  1..n \subseteq S
<1> DEFINE Z == S \cup {0}
<1>1. Z \in SUBSET Nat /\ 0 \in Z
  OBVIOUS
<1>2. ASSUME NEW i \in Z, i < n PROVE i + 1 \in Z
  <2>1. CASE i = 0
    BY <2>1
  <2>2. CASE i # 0
    <3>1. i \in S /\ i \in Nat
      BY <2>2
    <3>2. i + 1 \in 2..n /\ i + 1 - 1 = i
      BY <1>2, <2>2, <3>1
    <3> QED
      BY <3>1, <3>2
  <2> QED
    BY <2>1, <2>2
<1> HIDE DEF Z
<1>3. 0..n \subseteq Z
  BY <1>1, <1>2, UpTo
<1> QED
  BY <1>3 DEF Z

(* What is left of s after its first i elements. *)
Remains(s, S, m, f) ==
  f = [i \in 0..m |->
         IF i = 0 THEN <<>>
         ELSE IF s[i] \in S THEN f[i - 1] ELSE Append(f[i - 1], s[i])]

LEMMA RemainsExist ==
  ASSUME NEW T, NEW s \in Seq(T), NEW S
  PROVE  \E f : Remains(s, S, Len(s), f) /\ Without(s, S) = f[Len(s)]
<1> DEFINE n == Len(s)
           Go(i, r) == IF s[i] \in S THEN r ELSE Append(r, s[i])
           M == {m \in Nat : \E f : Remains(s, S, m, f)}
<1>1. n \in Nat
  BY LenProperties
<1>2. 0 \in M
  <2> DEFINE f == [i \in 0..0 |-> <<>>]
  <2>1. Remains(s, S, 0, f)
    BY DEF Remains
  <2> QED
    BY <2>1
<1>3. ASSUME NEW m \in M
      PROVE  m + 1 \in M
  <2>1. PICK f : Remains(s, S, m, f)
    OBVIOUS
  <2> DEFINE last == Go(m + 1, f[m])
             g == [i \in 0..(m + 1) |-> IF i = m + 1 THEN last ELSE f[i]]
  <2> HIDE DEF Go
  <2>2. \A i \in 0..m : f[i] = IF i = 0 THEN <<>> ELSE Go(i, f[i - 1])
    BY <2>1 DEF Remains, Go
  <2>3. ASSUME NEW i \in 0..(m + 1)
        PROVE  g[i] = IF i = 0 THEN <<>> ELSE Go(i, g[i - 1])
    <3>1. CASE i = m + 1
      <4>1. i # 0 /\ g[i] = Go(m + 1, f[m])
        BY <3>1
      <4>2. g[i - 1] = f[m]
        BY <3>1
      <4> QED
        BY <3>1, <4>1, <4>2
    <3>2. CASE i # m + 1 /\ i # 0
      <4>1. i \in 0..m /\ i - 1 \in 0..m
        BY <3>2
      <4>2. g[i] = f[i] /\ g[i - 1] = f[i - 1]
        BY <4>1
      <4> QED
        BY <2>2, <3>2, <4>1, <4>2
    <3>3. CASE i = 0
      <4>1. i \in 0..m /\ g[i] = f[i]
        BY <3>3
      <4> QED
        BY <2>2, <3>3, <4>1
    <3> QED
      BY <3>1, <3>2, <3>3
  <2>4. Remains(s, S, m + 1, g)
    <3>1. g = [i \in 0..(m + 1) |-> g[i]]
      OBVIOUS
    <3> HIDE DEF g
    <3>2. g = [i \in 0..(m + 1) |-> IF i = 0 THEN <<>> ELSE Go(i, g[i - 1])]
      BY <2>3, <3>1
    <3> QED
      BY <3>2 DEF Remains, Go
  <2> QED
    BY <2>4
<1>4. n \in M
  <2>1. M \in SUBSET Nat /\ \A m \in M : m < n => m + 1 \in M
    BY <1>3
  <2> HIDE DEF M, n
  <2>2. 0..n \subseteq M
    BY <1>1, <1>2, <2>1, UpTo
  <2> QED
    BY <1>1, <2>2
<1>5. \E f : Remains(s, S, Len(s), f)
  BY <1>4
<1>6. Without(s, S) = (CHOOSE f : Remains(s, S, Len(s), f))[Len(s)]
  BY DEF Without, Remains
<1> QED
  BY <1>5, <1>6

(* The remains one element after the other; all are sequences over T. *)
LeftOver(s, S, i, r) == IF s[i] \in S THEN r ELSE Append(r, s[i])

Stepwise(s, S, w) ==
  /\ w[0] = <<>>
  /\ \A i \in 1..Len(s) : w[i] = LeftOver(s, S, i, w[i - 1])

LEMMA WithoutSteps ==
  ASSUME NEW T, NEW s \in Seq(T), NEW S
  PROVE  \E w : /\ Stepwise(s, S, w) /\ Without(s, S) = w[Len(s)]
                /\ \A i \in 0..Len(s) : w[i] \in Seq(T)
<1> DEFINE n == Len(s)
<1>1. PICK w : Remains(s, S, n, w) /\ Without(s, S) = w[n]
  BY RemainsExist
<1>2. n \in Nat /\ \A i \in 1..n : s[i] \in T
  BY LenProperties, ElementOfSeq
<1>3. \A i \in 0..n : w[i] = IF i = 0 THEN <<>> ELSE LeftOver(s, S, i, w[i - 1])
  BY <1>1 DEF Remains, LeftOver
<1>4. Stepwise(s, S, w)
  <2>1. w[0] = <<>>
    BY <1>2, <1>3
  <2>2. \A i \in 1..n : i \in 0..n /\ i # 0
    BY <1>2
  <2> QED
    BY <1>3, <2>1, <2>2 DEF Stepwise
<1> DEFINE M == {m \in 0..n : w[m] \in Seq(T)}
<1>5. 0 \in M
  <2>1. <<>> \in Seq(T)
    OBVIOUS
  <2> QED
    <3>1. 0 \in 0..n /\ w[0] = <<>>
      BY <1>2, <1>4 DEF Stepwise
    <3>2. w[0] \in Seq(T)
      BY <2>1, <3>1
    <3> QED
      BY <3>1, <3>2
<1>6. ASSUME NEW m \in M, m < n
      PROVE  m + 1 \in M
  <2>1. m + 1 \in 1..n /\ m + 1 \in 0..n /\ m + 1 - 1 = m /\ w[m] \in Seq(T)
    BY <1>2, <1>6
  <2>2. w[m + 1] = IF s[m + 1] \in S THEN w[m] ELSE Append(w[m], s[m + 1])
    BY <1>4, <2>1 DEF Stepwise, LeftOver
  <2>3. Append(w[m], s[m + 1]) \in Seq(T)
    BY <1>2, <2>1, AppendProperties
  <2> QED
    BY <2>1, <2>2, <2>3
<1>7. 0..n \subseteq M
  <2>1. M \in SUBSET Nat /\ \A m \in M : m < n => m + 1 \in M
    BY <1>6
  <2> HIDE DEF M, n
  <2> QED
    BY <1>2, <1>5, <2>1, UpTo
<1> QED
  BY <1>1, <1>4, <1>7

(* Whatever takes these steps ends where Without does. *)
LEMMA WithoutIs ==
  ASSUME NEW T, NEW s \in Seq(T), NEW S, NEW f, Stepwise(s, S, f)
  PROVE  f[Len(s)] = Without(s, S)
<1> DEFINE n == Len(s)
<1>1. PICK w : Stepwise(s, S, w) /\ Without(s, S) = w[n]
  BY WithoutSteps
<1>2. n \in Nat
  BY LenProperties
<1> DEFINE M == {m \in 0..n : f[m] = w[m]}
<1>3. 0 \in M
  BY <1>1, <1>2 DEF Stepwise
<1>4. ASSUME NEW m \in M, m < n
      PROVE  m + 1 \in M
  <2>1. m + 1 \in 1..n /\ m + 1 \in 0..n /\ m + 1 - 1 = m /\ f[m] = w[m]
    BY <1>2, <1>4
  <2>2. /\ f[m + 1] = LeftOver(s, S, m + 1, f[m])
        /\ w[m + 1] = LeftOver(s, S, m + 1, w[m])
    BY <1>1, <2>1 DEF Stepwise
  <2> QED
    BY <2>1, <2>2
<1>5. 0..n \subseteq M
  <2>1. M \in SUBSET Nat /\ \A m \in M : m < n => m + 1 \in M
    BY <1>4
  <2> HIDE DEF M, n
  <2> QED
    BY <1>2, <1>3, <2>1, UpTo
<1> QED
  BY <1>1, <1>2, <1>5

LEMMA WithoutEmpty ==
  ASSUME NEW S
  PROVE  Without(<<>>, S) = <<>>
<1>1. <<>> \in Seq({}) /\ Len(<<>>) = 0
  BY EmptySeq
<1> DEFINE f == [i \in {0} |-> <<>>]
<1>2. Stepwise(<<>>, S, f) /\ f[0] = <<>>
  BY <1>1 DEF Stepwise
<1> HIDE DEF f
<1> QED
  BY <1>1, <1>2, WithoutIs

LEMMA WithoutAppend ==
  ASSUME NEW T, NEW s \in Seq(T), NEW x \in T, NEW S
  PROVE  Without(Append(s, x), S) =
           IF x \in S THEN Without(s, S) ELSE Append(Without(s, S), x)
<1> DEFINE a == Append(s, x)
           n == Len(s)
<1>1. /\ a \in Seq(T) /\ Len(a) = n + 1 /\ n \in Nat /\ a[n + 1] = x
      /\ \A i \in 1..n : a[i] = s[i]
  BY AppendProperties, LenProperties
<1> HIDE DEF a
<1>2. PICK w : Stepwise(a, S, w) /\ Without(a, S) = w[n + 1]
  BY <1>1, WithoutSteps
<1>3. Stepwise(s, S, w)
  <2>1. \A i \in 1..n : i \in 1..(n + 1)
    BY <1>1
  <2> QED
    BY <1>1, <1>2, <2>1 DEF Stepwise, LeftOver
<1>4. w[n] = Without(s, S)
  BY <1>3, WithoutIs
<1>5. w[n + 1] = IF x \in S THEN w[n] ELSE Append(w[n], x)
  <2>1. n + 1 \in 1..Len(a) /\ n + 1 - 1 = n
    BY <1>1
  <2> QED
    BY <1>1, <1>2, <2>1 DEF Stepwise, LeftOver
<1> QED
  BY <1>2, <1>4, <1>5 DEF a

(* Two sets that hold the same elements of s leave the same. *)
LEMMA WithoutSame ==
  ASSUME NEW T, NEW s \in Seq(T), NEW S, NEW R,
         \A i \in 1..Len(s) : s[i] \in S <=> s[i] \in R
  PROVE  Without(s, S) = Without(s, R)
<1>1. PICK w : Stepwise(s, S, w) /\ Without(s, S) = w[Len(s)]
  BY WithoutSteps
<1>2. Stepwise(s, R, w)
  BY <1>1 DEF Stepwise, LeftOver
<1> QED
  BY <1>1, <1>2, WithoutIs

LEMMA WithoutTwice ==
  ASSUME NEW T, NEW s \in Seq(T), NEW S, NEW R
  PROVE  Without(Without(s, S), R) = Without(s, S \cup R)
<1>1. PICK w : /\ Stepwise(s, S, w) /\ Without(s, S) = w[Len(s)]
               /\ \A i \in 0..Len(s) : w[i] \in Seq(T)
  BY WithoutSteps
<1>2. Len(s) \in Nat /\ \A i \in 1..Len(s) : s[i] \in T
  BY LenProperties, ElementOfSeq
<1> DEFINE f == [i \in 0..Len(s) |-> Without(w[i], R)]
<1>3. f[0] = <<>>
  BY <1>1, <1>2, WithoutEmpty DEF Stepwise
<1>4. ASSUME NEW i \in 1..Len(s)
      PROVE  f[i] = LeftOver(s, S \cup R, i, f[i - 1])
  <2>1. i \in 0..Len(s) /\ i - 1 \in 0..Len(s)
    BY <1>2
  <2>2. f[i] = Without(w[i], R) /\ f[i - 1] = Without(w[i - 1], R)
    BY <2>1
  <2>3. w[i - 1] \in Seq(T) /\ s[i] \in T
    BY <1>1, <1>2, <2>1
  <2>4. w[i] = IF s[i] \in S THEN w[i - 1] ELSE Append(w[i - 1], s[i])
    BY <1>1 DEF Stepwise, LeftOver
  <2>5. Without(Append(w[i - 1], s[i]), R) =
          IF s[i] \in R THEN Without(w[i - 1], R)
          ELSE Append(Without(w[i - 1], R), s[i])
    <3> DEFINE v == w[i - 1]
               x == s[i]
    <3>1. v \in Seq(T) /\ x \in T
      BY <2>3
    <3> HIDE DEF v, x
    <3>2. Without(Append(v, x), R) =
            IF x \in R THEN Without(v, R) ELSE Append(Without(v, R), x)
      BY <3>1, WithoutAppend
    <3> QED
      BY <3>2 DEF v, x
  <2> QED
    BY <2>2, <2>4, <2>5 DEF LeftOver
<1> HIDE DEF f
<1>5. Stepwise(s, S \cup R, f)
  BY <1>3, <1>4 DEF Stepwise
<1>6. f[Len(s)] = Without(s, S \cup R)
  BY <1>5, WithoutIs
<1>7. f[Len(s)] = Without(Without(s, S), R)
  BY <1>1, <1>2 DEF f
<1> QED
  BY <1>6, <1>7

(* What is left is of s and not in S, and there is no more of it. *)
LEMMA WithoutFrom ==
  ASSUME NEW T, NEW s \in Seq(T), NEW S
  PROVE  /\ Without(s, S) \in Seq(T) /\ Len(Without(s, S)) <= Len(s)
         /\ \A k \in 1..Len(Without(s, S)) :
              /\ Without(s, S)[k] \notin S
              /\ \E i \in 1..Len(s) : Without(s, S)[k] = s[i]
<1>1. PICK w : /\ Stepwise(s, S, w) /\ Without(s, S) = w[Len(s)]
               /\ \A i \in 0..Len(s) : w[i] \in Seq(T)
  BY WithoutSteps
<1> DEFINE n == Len(s)
           Good(m) == /\ Len(w[m]) <= m
                      /\ \A k \in 1..Len(w[m]) :
                           w[m][k] \notin S /\ \E i \in 1..m : w[m][k] = s[i]
           M == {m \in 0..n : Good(m)}
<1>2. n \in Nat /\ \A i \in 1..n : s[i] \in T
  BY LenProperties, ElementOfSeq
<1>3. 0 \in M
  <2>1. w[0] = <<>> /\ Len(w[0]) = 0
    BY <1>1, EmptySeq DEF Stepwise
  <2> QED
    BY <1>2, <2>1
<1>4. ASSUME NEW m \in M, m < n
      PROVE  m + 1 \in M
  <2>1. /\ m + 1 \in 1..n /\ m + 1 \in 0..n /\ m + 1 - 1 = m /\ Good(m)
        /\ m \in Nat /\ \A i \in 1..m : i \in 1..(m + 1)
    BY <1>2, <1>4
  <2>2. w[m + 1] = IF s[m + 1] \in S THEN w[m] ELSE Append(w[m], s[m + 1])
    BY <1>1, <2>1 DEF Stepwise, LeftOver
  <2>3. w[m] \in Seq(T) /\ Len(w[m]) \in Nat
    BY <1>1, <1>2, LenProperties
  <2>4. CASE s[m + 1] \in S
    <3>1. w[m + 1] = w[m]
      BY <2>2, <2>4
    <3>2. Len(w[m]) <= m + 1
      BY <2>1, <2>3
    <3>3. Good(m + 1)
      BY <2>1, <3>1, <3>2
    <3> QED
      BY <2>1, <3>3
  <2>5. CASE s[m + 1] \notin S
    <3> DEFINE v == w[m + 1]
    <3>1. /\ Len(v) = Len(w[m]) + 1 /\ v[Len(w[m]) + 1] = s[m + 1]
          /\ \A k \in 1..Len(w[m]) : v[k] = w[m][k]
      BY <1>2, <2>1, <2>2, <2>3, <2>5, AppendProperties
    <3> HIDE DEF v
    <3>2. ASSUME NEW k \in 1..Len(v)
          PROVE  v[k] \notin S /\ \E i \in 1..(m + 1) : v[k] = s[i]
      <4>1. CASE k \in 1..Len(w[m])
        BY <2>1, <3>1, <4>1
      <4>2. CASE k \notin 1..Len(w[m])
        <5>1. k = Len(w[m]) + 1 /\ m + 1 \in 1..(m + 1)
          BY <2>1, <2>3, <3>1, <4>2
        <5> QED
          BY <2>5, <3>1, <5>1
      <4> QED
        BY <4>1, <4>2
    <3>3. Len(v) <= m + 1
      BY <2>1, <2>3, <3>1
    <3>4. Good(m + 1)
      BY <3>2, <3>3 DEF v
    <3> QED
      BY <2>1, <3>4
  <2> QED
    BY <2>4, <2>5
<1>5. n \in M
  <2>1. M \in SUBSET Nat /\ \A m \in M : m < n => m + 1 \in M
    BY <1>4
  <2> HIDE DEF M, n
  <2>2. 0..n \subseteq M
    BY <1>2, <1>3, <2>1, UpTo
  <2> QED
    BY <1>2, <2>2
<1> QED
  BY <1>1, <1>2, <1>5

(* What is of s and not in S is left. *)
LEMMA WithoutKeeps ==
  ASSUME NEW T, NEW s \in Seq(T), NEW S, NEW j \in 1..Len(s), s[j] \notin S
  PROVE  \E k \in 1..Len(Without(s, S)) : Without(s, S)[k] = s[j]
<1>1. PICK w : /\ Stepwise(s, S, w) /\ Without(s, S) = w[Len(s)]
               /\ \A i \in 0..Len(s) : w[i] \in Seq(T)
  BY WithoutSteps
<1> DEFINE n == Len(s)
           Has(m) == \E k \in 1..Len(w[m]) : w[m][k] = s[j]
           M == {m \in 0..n : j <= m => Has(m)}
<1>2. n \in Nat /\ \A i \in 1..n : s[i] \in T
  BY LenProperties, ElementOfSeq
<1>3. 0 \in M
  BY <1>2
<1>4. ASSUME NEW m \in M, m < n
      PROVE  m + 1 \in M
  <2>1. /\ m + 1 \in 1..n /\ m + 1 \in 0..n /\ m + 1 - 1 = m /\ m \in Nat
        /\ j <= m => Has(m)
    BY <1>2, <1>4
  <2>2. w[m + 1] = IF s[m + 1] \in S THEN w[m] ELSE Append(w[m], s[m + 1])
    BY <1>1, <2>1 DEF Stepwise, LeftOver
  <2>3. w[m] \in Seq(T) /\ Len(w[m]) \in Nat
    BY <1>1, <1>2, LenProperties
  <2>4. CASE s[m + 1] \in S
    <3>1. w[m + 1] = w[m] /\ j # m + 1
      BY <2>2, <2>4
    <3>2. j <= m + 1 => j <= m
      BY <2>1, <3>1
    <3> QED
      BY <2>1, <3>1, <3>2
  <2>5. CASE s[m + 1] \notin S
    <3> DEFINE v == w[m + 1]
               l == Len(w[m])
    <3>1. /\ Len(v) = l + 1 /\ v[l + 1] = s[m + 1]
          /\ \A k \in 1..l : v[k] = w[m][k]
      BY <1>2, <2>1, <2>2, <2>3, <2>5, AppendProperties
    <3>2. l \in Nat
      BY <2>3
    <3> HIDE DEF v
    <3>3. CASE j = m + 1
      <4>1. l + 1 \in 1..Len(v) /\ v[l + 1] = s[j]
        BY <3>1, <3>2, <3>3
      <4> QED
        BY <2>1, <4>1 DEF v
    <3>4. CASE j # m + 1
      <4> SUFFICES ASSUME j <= m + 1
                   PROVE  Has(m + 1)
        BY <2>1
      <4>1. j <= m
        BY <2>1, <3>4
      <4>2. PICK k \in 1..l : w[m][k] = s[j]
        BY <2>1, <4>1
      <4>3. k \in 1..Len(v) /\ v[k] = s[j]
        BY <3>1, <3>2, <4>2
      <4> QED
        BY <4>3 DEF v
    <3> QED
      BY <3>3, <3>4
  <2> QED
    BY <2>4, <2>5
<1>5. n \in M
  <2>1. M \in SUBSET Nat /\ \A m \in M : m < n => m + 1 \in M
    BY <1>4
  <2> HIDE DEF M, n
  <2>2. 0..n \subseteq M
    BY <1>2, <1>3, <2>1, UpTo
  <2> QED
    BY <1>2, <2>2
<1> QED
  BY <1>1, <1>2, <1>5

(* What is left of a sequence that ascends does, too. *)
Ascending(s) == \A i, j \in 1..Len(s) : i < j => s[i] < s[j]

LEMMA WithoutAscends ==
  ASSUME NEW s \in Seq(Int), NEW S, Ascending(s)
  PROVE  Ascending(Without(s, S))
<1>1. PICK w : /\ Stepwise(s, S, w) /\ Without(s, S) = w[Len(s)]
               /\ \A i \in 0..Len(s) : w[i] \in Seq(Int)
  BY WithoutSteps
<1> DEFINE n == Len(s)
           Good(m) == /\ Ascending(w[m])
                      /\ \A k \in 1..Len(w[m]) : \E i \in 1..m : w[m][k] = s[i]
           M == {m \in 0..n : Good(m)}
<1>2. n \in Nat /\ \A i \in 1..n : s[i] \in Int
  BY LenProperties, ElementOfSeq
<1>3. 0 \in M
  <2>1. w[0] = <<>> /\ Len(w[0]) = 0 /\ 0 \in 0..n
    BY <1>1, <1>2, EmptySeq DEF Stepwise
  <2> QED
    BY <2>1 DEF Ascending
<1>4. ASSUME NEW m \in M, m < n
      PROVE  m + 1 \in M
  <2>1. m + 1 \in 1..n /\ m + 1 \in 0..n /\ m + 1 - 1 = m /\ m \in Nat /\ Good(m)
    BY <1>2, <1>4
  <2> HIDE DEF M
  <2>2. w[m + 1] = IF s[m + 1] \in S THEN w[m] ELSE Append(w[m], s[m + 1])
    BY <1>1, <2>1 DEF Stepwise, LeftOver
  <2>3. w[m] \in Seq(Int) /\ Len(w[m]) \in Nat /\ s[m + 1] \in Int
    BY <1>1, <1>2, <2>1, LenProperties
  <2>4. CASE s[m + 1] \in S
    <3>1. w[m + 1] = w[m]
      BY <2>2, <2>4
    <3>2. \A k \in 1..Len(w[m]) : \E i \in 1..(m + 1) : w[m][k] = s[i]
      BY <2>1
    <3> QED
      BY <2>1, <3>1, <3>2 DEF M
  <2>5. CASE s[m + 1] \notin S
    <3> DEFINE v == w[m + 1]
               l == Len(w[m])
               u == w[m]
    <3>1. /\ Len(v) = l + 1 /\ v[l + 1] = s[m + 1]
          /\ \A k \in 1..l : v[k] = u[k]
      BY <2>2, <2>3, <2>5, AppendProperties
    <3>2. l \in Nat /\ Ascending(u) /\ \A k \in 1..l : \E i \in 1..m : u[k] = s[i]
      BY <2>1, <2>3
    <3>3. ASSUME NEW k \in 1..l PROVE u[k] < s[m + 1]
      <4> HIDE DEF u, l
      <4>1. PICK i \in 1..m : u[k] = s[i]
        BY <3>2, <3>3
      <4>2. i \in 1..n /\ i < m + 1
        BY <1>2, <2>1
      <4> QED
        BY <2>1, <4>1, <4>2 DEF Ascending
    <3>4. l = Len(u)
      OBVIOUS
    <3> HIDE DEF v, l, u
    <3>5. Ascending(v)
      <4> SUFFICES ASSUME NEW i \in 1..(l + 1), NEW j \in 1..(l + 1), i < j
                   PROVE  v[i] < v[j]
        BY <3>1 DEF Ascending
      <4>1. CASE j = l + 1
        BY <3>1, <3>2, <3>3, <4>1
      <4>2. CASE j # l + 1
        <5>1. i \in 1..l /\ j \in 1..l
          BY <3>2, <4>2
        <5> QED
          BY <3>1, <3>2, <3>4, <5>1 DEF Ascending
      <4> QED
        BY <4>1, <4>2
    <3>6. ASSUME NEW k \in 1..Len(v) PROVE \E i \in 1..(m + 1) : v[k] = s[i]
      <4>1. CASE k = l + 1
        BY <2>1, <3>1, <4>1
      <4>2. CASE k # l + 1
        <5>1. k \in 1..l
          BY <3>1, <3>2, <4>2
        <5>2. PICK i \in 1..m : u[k] = s[i]
          BY <3>2, <5>1
        <5>3. i \in 1..(m + 1) /\ v[k] = s[i]
          BY <2>1, <3>1, <5>1, <5>2
        <5> QED
          BY <5>3
      <4> QED
        BY <4>1, <4>2
    <3> QED
      BY <2>1, <3>5, <3>6 DEF M, v
  <2> QED
    BY <2>4, <2>5
<1>5. n \in M
  <2>1. M \in SUBSET Nat
    OBVIOUS
  <2>2. \A m \in M : m < n => m + 1 \in M
    <3> HIDE DEF M, n
    <3> QED
      BY <1>4
  <2> HIDE DEF M, n
  <2>3. 0..n \subseteq M
    BY <1>2, <1>3, <2>1, <2>2, UpTo
  <2> QED
    BY <1>2, <2>3
<1> QED
  BY <1>1, <1>2, <1>5
--------------------------------------------------------------------------------
(* A recursion along 1..n whose steps stay in V has a result; the step is a     *)
(* function G of the place and the value before.                                *)
Follows(f, b, n, G) == f[0] = b /\ \A i \in 1..n : f[i] = G[<<i, f[i - 1]>>]

LEMMA Recursion ==
  ASSUME NEW V, NEW b \in V, NEW n \in Nat, NEW G \in [(1..n) \X V -> V]
  PROVE  \E f \in [0..n -> V] : Follows(f, b, n, G)
<1> DEFINE M == {m \in 0..n : \E f \in [0..m -> V] : Follows(f, b, m, G)}
<1>1. 0 \in M
  <2> DEFINE f == [i \in 0..0 |-> b]
  <2>1. f \in [0..0 -> V] /\ Follows(f, b, 0, G)
    BY DEF Follows
  <2> HIDE DEF f
  <2>2. 0 \in 0..n
    OBVIOUS
  <2> QED
    BY <2>1, <2>2
<1>2. ASSUME NEW m \in M, m < n
      PROVE  m + 1 \in M
  <2>1. PICK f \in [0..m -> V] : Follows(f, b, m, G)
    OBVIOUS
  <2>2. m + 1 \in 1..n /\ m \in 0..m /\ m \in Nat /\ f[m] \in V
    BY <1>2
  <2> HIDE DEF M
  <2>3. PICK x \in V : x = G[<<m + 1, f[m]>>]
    BY <2>2
  <2> DEFINE g == [i \in 0..(m + 1) |-> IF i = m + 1 THEN x ELSE f[i]]
  <2>4. g \in [0..(m + 1) -> V]
    BY <2>2
  <2>5. g[0] = b
    BY <2>1, <2>2 DEF Follows
  <2>6. ASSUME NEW i \in 1..(m + 1) PROVE g[i] = G[<<i, g[i - 1]>>]
    <3>1. CASE i = m + 1
      <4>1. g[i] = x /\ i - 1 = m
        BY <2>2, <3>1
      <4>2. g[m] = f[m]
        BY <2>2
      <4> HIDE DEF g
      <4> QED
        BY <2>3, <3>1, <4>1, <4>2
    <3>2. CASE i # m + 1
      <4>1. i \in 1..m /\ i \in 0..m /\ i - 1 \in 0..m
        BY <2>2, <3>2
      <4>2. g[i] = f[i] /\ g[i - 1] = f[i - 1]
        BY <2>2, <4>1
      <4> HIDE DEF g
      <4> QED
        BY <2>1, <4>1, <4>2 DEF Follows
    <3> QED
      BY <3>1, <3>2
  <2> HIDE DEF g
  <2>7. Follows(g, b, m + 1, G)
    BY <2>5, <2>6 DEF Follows
  <2>8. m + 1 \in 0..n
    BY <2>2
  <2> QED
    BY <2>4, <2>7, <2>8 DEF M
<1>3. 0..n \subseteq M
  <2>1. M \in SUBSET Nat /\ \A m \in M : m < n => m + 1 \in M
    BY <1>2
  <2> HIDE DEF M
  <2> QED
    BY <1>1, <2>1, UpTo
<1>4. n \in M
  BY <1>3
<1> QED
  BY <1>4
================================================================================
