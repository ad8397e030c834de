----------------------------- MODULE LauncherProofs -----------------------------
(* What holds of the worker pool and of the reader of standard input for every  *)
(* number of threads, rows, icons and parts, and for every input.               *)
EXTENDS WorkerPool, DmenuReader, FiniteSetTheorems

(* Sequences put one after the other. *)
JoinSteps(ss, f) ==
  /\ f[1] = ss[1]
  /\ \A i \in 2..Len(ss) : f[i] = f[i - 1] \o ss[i]

LEMMA FlattenSteps ==
  ASSUME NEW T, NEW ss \in Seq(Seq(T)), Len(ss) > 0
  PROVE  \E f : /\ JoinSteps(ss, f) /\ FlattenSeq(ss) = f[Len(ss)]
                /\ \A i \in 1..Len(ss) : f[i] \in Seq(T)
<1> DEFINE n == Len(ss)
           m == n - 1
           V == Seq(T)
           G == [p \in (1..m) \X V |-> p[2] \o ss[p[1] + 1]]
<1>1. n \in Nat /\ m \in Nat /\ \A i \in 1..n : ss[i] \in V
  BY LenProperties, ElementOfSeq
<1>2. G \in [(1..m) \X V -> V]
  <2>1. \A p \in (1..m) \X V : p[2] \o ss[p[1] + 1] \in V
    <3> SUFFICES ASSUME NEW i \in 1..m, NEW s \in V PROVE s \o ss[i + 1] \in V
      OBVIOUS
    <3>1. i + 1 \in 1..n
      BY <1>1
    <3> QED
      BY <1>1, <3>1, ConcatProperties
  <2> QED
    BY <2>1
<1>3. \A i \in 1..m, s \in V : G[<<i, s>>] = s \o ss[i + 1]
  OBVIOUS
<1>4. ss[1] \in V
  BY <1>1
<1> HIDE DEF G, V, m
<1>5. PICK g \in [0..m -> V] : Follows(g, ss[1], m, G)
  BY <1>1, <1>2, <1>4, Recursion
<1> DEFINE h == [i \in 1..n |-> g[i - 1]]
<1>6. h[1] = ss[1] /\ \A i \in 1..n : h[i] \in V
  <2>1. \A i \in 1..n : i - 1 \in 0..m /\ h[i] = g[i - 1]
    BY <1>1 DEF m
  <2> HIDE DEF h
  <2>2. 1 \in 1..n /\ h[1] = g[0]
    BY <1>1, <2>1
  <2> QED
    BY <1>5, <2>1, <2>2 DEF Follows
<1>7. ASSUME NEW i \in 2..n PROVE h[i] = h[i - 1] \o ss[i]
  <2>1. /\ i - 1 \in 1..m /\ i - 1 + 1 = i /\ i \in 1..n /\ i - 1 \in 1..n
        /\ i - 1 - 1 \in 0..m
    BY <1>1 DEF m
  <2>2. h[i] = g[i - 1] /\ h[i - 1] = g[i - 1 - 1] /\ g[i - 1 - 1] \in V
    BY <2>1, <1>5
  <2>3. g[i - 1] = G[<<i - 1, g[i - 1 - 1]>>]
    BY <1>5, <2>1 DEF Follows
  <2> HIDE DEF h
  <2> QED
    BY <1>3, <2>1, <2>2, <2>3
<1>8. h = [i \in 1..n |-> IF i = 1 THEN ss[i] ELSE h[i - 1] \o ss[i]]
  <2>1. ASSUME NEW i \in 1..n
        PROVE  h[i] = IF i = 1 THEN ss[i] ELSE h[i - 1] \o ss[i]
    <3>1. CASE i = 1
      BY <1>6, <3>1
    <3>2. CASE i # 1
      <4>1. i \in 2..n
        BY <3>2
      <4> HIDE DEF h
      <4> QED
        BY <1>7, <3>2, <4>1
    <3> QED
      BY <3>1, <3>2
  <2>2. h = [i \in 1..n |-> h[i]]
    OBVIOUS
  <2> HIDE DEF h
  <2> QED
    BY <2>1, <2>2
<1> DEFINE Flat(f) == f = [i \in 1..n |-> IF i = 1 THEN ss[i] ELSE f[i - 1] \o ss[i]]
<1>9. FlattenSeq(ss) = (CHOOSE f : Flat(f))[n]
  BY <1>1 DEF FlattenSeq
<1>10. Flat(h)
  BY <1>8
<1> HIDE DEF h
<1>11. PICK f : Flat(f) /\ FlattenSeq(ss) = f[n]
  BY <1>9, <1>10
<1>12. JoinSteps(ss, f)
  <2>1. \A i \in 1..n : f[i] = IF i = 1 THEN ss[i] ELSE f[i - 1] \o ss[i]
    BY <1>11
  <2>2. 1 \in 1..n /\ \A i \in 2..n : i \in 1..n /\ i # 1
    BY <1>1
  <2> QED
    BY <2>1, <2>2 DEF JoinSteps
<1>13. \A i \in 1..n : f[i] = h[i]
  <2> DEFINE M == {k \in 1..n : f[k] = h[k]}
  <2>1. M \in SUBSET Nat /\ 1 \in M
    BY <1>1, <1>6, <1>12 DEF JoinSteps
  <2>2. ASSUME NEW k \in 2..n, k - 1 \in M PROVE k \in M
    <3>1. f[k - 1] = h[k - 1] /\ k \in 1..n
      BY <2>2
    <3>2. f[k] = f[k - 1] \o ss[k]
      BY <1>12 DEF JoinSteps
    <3>3. h[k] = h[k - 1] \o ss[k]
      BY <1>7
    <3> QED
      BY <3>1, <3>2, <3>3
  <2>3. 1..n \subseteq M
    <3> HIDE DEF M
    <3> QED
      BY <1>1, <2>1, <2>2, FromOne
  <2> QED
    BY <2>3
<1> QED
  BY <1>6, <1>11, <1>12, <1>13 DEF V

LEMMA FlattenEmpty == FlattenSeq(<<>>) = <<>>
BY EmptySeq DEF FlattenSeq

(* One more sequence is put at the end. *)
LEMMA FlattenAppend ==
  ASSUME NEW T, NEW ss \in Seq(Seq(T)), NEW s \in Seq(T)
  PROVE  /\ FlattenSeq(ss) \in Seq(T)
         /\ FlattenSeq(Append(ss, s)) = FlattenSeq(ss) \o s
<1> DEFINE n == Len(ss)
           a == Append(ss, s)
<1>1. /\ n \in Nat /\ a \in Seq(Seq(T)) /\ Len(a) = n + 1 /\ a[n + 1] = s
      /\ \A i \in 1..n : a[i] = ss[i]
  BY LenProperties, AppendProperties
<1> HIDE DEF a
<1>2. PICK f : JoinSteps(a, f) /\ FlattenSeq(a) = f[n + 1]
  BY <1>1, FlattenSteps
<1>3. CASE n = 0
  <2>1. ss = <<>> /\ FlattenSeq(ss) = <<>>
    BY <1>3, FlattenEmpty, EmptySeq
  <2>2. f[n + 1] = s /\ FlattenSeq(a) = s
    BY <1>1, <1>2, <1>3 DEF JoinSteps
  <2>3. <<>> \in Seq(T) /\ <<>> \o s = s
    BY ConcatEmptySeq, EmptySeq
  <2> QED
    BY <2>1, <2>2, <2>3 DEF a
<1>4. CASE n > 0
  <2>1. PICK g : /\ JoinSteps(ss, g) /\ FlattenSeq(ss) = g[n]
                 /\ \A i \in 1..n : g[i] \in Seq(T)
    BY <1>4, FlattenSteps
  <2> DEFINE M == {k \in 1..n : f[k] = g[k]}
  <2>2. M \in SUBSET Nat /\ 1 \in M
    <3>1. 1 \in 1..n /\ f[1] = a[1] /\ g[1] = ss[1] /\ a[1] = ss[1]
      BY <1>1, <1>2, <1>4, <2>1 DEF JoinSteps
    <3> QED
      BY <3>1
  <2>3. ASSUME NEW k \in 2..n, k - 1 \in M PROVE k \in M
    <3>1. f[k - 1] = g[k - 1] /\ k \in 1..n /\ k \in 2..(n + 1)
      BY <1>1, <2>3
    <3>2. f[k] = f[k - 1] \o a[k]
      BY <1>1, <1>2, <3>1 DEF JoinSteps
    <3>3. g[k] = g[k - 1] \o ss[k]
      BY <2>1 DEF JoinSteps
    <3>4. a[k] = ss[k]
      BY <1>1, <3>1
    <3>5. f[k] = g[k]
      BY <3>1, <3>2, <3>3, <3>4
    <3> QED
      BY <3>1, <3>5
  <2>4. 1..n \subseteq M
    <3> HIDE DEF M
    <3> QED
      BY <1>1, <2>2, <2>3, FromOne
  <2>7. f[n] = g[n]
    <3>1. n \in 1..n
      BY <1>1, <1>4
    <3> QED
      BY <2>4, <3>1
  <2>8. f[n + 1] = f[n] \o s
    <3>1. PICK k \in 2..Len(a) : k = n + 1 /\ k - 1 = n
      BY <1>1, <1>4
    <3>2. f[k] = f[k - 1] \o a[k]
      BY <1>2 DEF JoinSteps
    <3> QED
      BY <1>1, <3>1, <3>2
  <2>9. g[n] \in Seq(T)
    BY <1>1, <1>4, <2>1
  <2> QED
    BY <1>2, <2>1, <2>7, <2>8, <2>9 DEF a
<1> QED
  BY <1>1, <1>3, <1>4
--------------------------------------------------------------------------------
(* The parts of a list. *)

(* There is at least one part, and together they go beyond the last row.       *)
LEMMA PartsCover ==
  ASSUME NEW n \in Nat
  PROVE  /\ Parts(n) \in Nat \ {0} /\ Steps(n) \in Nat
         /\ Parts(n) * Steps(n) > n
<1>1. Chunk \in Nat \ {0} /\ MaxParts \in Nat \ {0}
  BY PoolAssumption
<1> DEFINE c == n \div Chunk
<1>2. c \in Int
  BY <1>1
<1> HIDE DEF c
<1>3. Parts(n) = Lesser(IF c > 1 THEN c ELSE 1, MaxParts)
  BY DEF Parts, c
<1>4. Parts(n) \in Nat \ {0}
  BY <1>1, <1>2, <1>3 DEF Lesser
<1> DEFINE p == Parts(n)
           q == (n + p) \div p
<1>5. \A x, y \in Nat : y > 0 => x \div y \in Nat /\ y * (x \div y) > x - y
  OBVIOUS
<1>6. Steps(n) = q
  BY DEF Steps
<1> HIDE DEF p
<1>7. p \in Nat /\ p > 0 /\ n + p \in Nat
  BY <1>4 DEF p
<1>8. q \in Nat /\ p * q > (n + p) - p
  BY <1>5, <1>7
<1> HIDE DEF q
<1>9. p * q > n
  BY <1>7, <1>8
<1> QED
  BY <1>4, <1>6, <1>8, <1>9 DEF p

LEMMA SpanIs ==
  ASSUME NEW from \in Nat, NEW to \in Nat
  PROVE  /\ Span(from, to) \in Seq(Int) /\ Ascending(Span(from, to))
         /\ \A m \in 1..Len(Span(from, to)) : Span(from, to)[m] \in from..(to - 1)
         /\ \A x \in from..(to - 1) :
              \E m \in 1..Len(Span(from, to)) : Span(from, to)[m] = x
<1> DEFINE d == IF from < to THEN to - from ELSE 0
           s == Span(from, to)
<1>1. d \in Nat /\ s = [m \in 1..d |-> from + m - 1]
  BY DEF Span
<1> HIDE DEF s
<1>2. s \in [1..d -> Int] /\ \A m \in 1..d : s[m] = from + m - 1
  BY <1>1
<1>3. s \in Seq(Int) /\ Len(s) = d
  <2> HIDE DEF d
  <2> QED
    BY <1>1, <1>2, FunctionIsSeq
<1>4. Ascending(s)
  <2> HIDE DEF d
  <2> QED
    BY <1>1, <1>2, <1>3 DEF Ascending
<1>5. \A m \in 1..d : s[m] \in from..(to - 1)
  BY <1>2
<1>6. ASSUME NEW x \in from..(to - 1) PROVE \E m \in 1..d : s[m] = x
  <2>1. x - from + 1 \in 1..d
    OBVIOUS
  <2>2. s[x - from + 1] = x
    BY <1>2, <2>1
  <2> QED
    BY <2>1, <2>2
<1> QED
  BY <1>3, <1>4, <1>5, <1>6 DEF s

(* A part is the matching rows of its places, in order.                        *)
LEMMA PartIs ==
  ASSUME NEW l \in Lists, NEW k \in Nat
  PROVE  /\ Part(l, k) \in Seq(Int) /\ Ascending(Part(l, k))
         /\ \A x : x \in ToSet(Part(l, k)) <=>
                     /\ x \in l.match
                     /\ Start(l.rows, k) <= x /\ x < Stop(l.rows, k)
<1> DEFINE n == l.rows
           a == Start(n, k)
           b == Stop(n, k)
           s == Span(a, b)
           S == (0..(n - 1)) \ l.match
           p == Without(s, S)
<1>1. n \in Nat /\ l.match \subseteq 0..(n - 1)
  BY PoolAssumption
<1>2. a \in Nat /\ b \in Nat /\ b <= n
  <2> DEFINE q == Steps(n)
  <2>1. q \in Nat
    BY <1>1, PartsCover
  <2> HIDE DEF q, n
  <2>2. k * q \in Nat /\ (k + 1) * q \in Nat
    BY <2>1
  <2>3. a = k * q /\ b = Lesser(n, (k + 1) * q)
    BY DEF Start, Stop, q
  <2> QED
    BY <1>1, <2>2, <2>3 DEF Lesser
<1>3. Part(l, k) = p
  BY DEF Part
<1> HIDE DEF a, b
<1>4. /\ s \in Seq(Int) /\ Ascending(s)
      /\ \A m \in 1..Len(s) : s[m] \in a..(b - 1)
      /\ \A x \in a..(b - 1) : \E m \in 1..Len(s) : s[m] = x
  BY <1>2, SpanIs
<1> HIDE DEF s, n
<1>5. p \in Seq(Int) /\ Ascending(p)
  BY <1>4, WithoutFrom, WithoutAscends
<1>6. DOMAIN p = 1..Len(p)
  BY <1>5, LenProperties
<1>7. ASSUME NEW x \in ToSet(p) PROVE x \in l.match /\ a <= x /\ x < b
  <2>1. PICK m \in 1..Len(p) : x = p[m]
    BY <1>6 DEF ToSet
  <2>2. p[m] \notin S /\ \E i \in 1..Len(s) : p[m] = s[i]
    <3> HIDE DEF S
    <3>1. /\ s \in Seq(Int)
          /\ \A h \in 1..Len(p) : p[h] \notin S /\ \E i \in 1..Len(s) : p[h] = s[i]
      BY <1>4, WithoutFrom
    <3> QED
      BY <3>1
  <2>3. x \in a..(b - 1) /\ x \notin S
    BY <1>4, <2>1, <2>2
  <2>4. x \in 0..(n - 1)
    BY <1>1, <1>2, <2>3
  <2> QED
    BY <1>1, <1>2, <2>3, <2>4
<1>8. ASSUME NEW x, x \in l.match, a <= x, x < b PROVE x \in ToSet(p)
  <2>1. x \in a..(b - 1) /\ x \notin S
    BY <1>1, <1>2, <1>8
  <2>2. PICK m \in 1..Len(s) : s[m] = x
    BY <1>4, <2>1
  <2> HIDE DEF S
  <2>3. PICK j \in 1..Len(p) : p[j] = s[m]
    <3>1. s \in Seq(Int) /\ s[m] \notin S
      BY <1>4, <2>1, <2>2
    <3> HIDE <1>4, <2>1, <2>2
    <3> QED
      BY <3>1, WithoutKeeps
  <2> HIDE DEF p
  <2> QED
    BY <1>6, <2>2, <2>3 DEF ToSet
<1> HIDE DEF p
<1> QED
  BY <1>3, <1>5, <1>7, <1>8 DEF a, b, n

LEMMA ConcatAscends ==
  ASSUME NEW s \in Seq(Int), NEW t \in Seq(Int), Ascending(s), Ascending(t),
         \A x \in ToSet(s), y \in ToSet(t) : x < y
  PROVE  Ascending(s \o t) /\ ToSet(s \o t) = ToSet(s) \cup ToSet(t)
<1> DEFINE u == s \o t
           m == Len(s)
           n == Len(t)
<1>1. /\ u \in Seq(Int) /\ Len(u) = m + n /\ m \in Nat /\ n \in Nat
      /\ \A i \in 1..(m + n) : u[i] = IF i <= m THEN s[i] ELSE t[i - m]
  BY ConcatProperties, LenProperties
<1>2. /\ DOMAIN u = 1..(m + n) /\ DOMAIN s = 1..m /\ DOMAIN t = 1..n
  BY <1>1, LenProperties
<1> HIDE DEF u
<1>3. \A i \in 1..m : u[i] = s[i] /\ i \in 1..(m + n)
  BY <1>1
<1>4. ASSUME NEW i \in 1..n PROVE u[i + m] = t[i] /\ i + m \in 1..(m + n)
  <2> DEFINE j == i + m
  <2>1. j \in 1..(m + n) /\ ~(j <= m) /\ j - m = i
    BY <1>1
  <2> HIDE DEF j, m, n
  <2>2. u[j] = t[j - m]
    BY <1>1, <2>1
  <2> QED
    BY <2>1, <2>2 DEF j
<1>5. \A i \in 1..(m + n) : i \in 1..m \/ (i - m \in 1..n /\ u[i] = t[i - m])
  <2> TAKE i \in 1..(m + n)
  <2>1. CASE i <= m
    BY <1>1, <2>1
  <2>2. CASE ~(i <= m)
    <3>1. i - m \in 1..n
      BY <1>1, <2>2
    <3>2. u[i] = t[i - m]
      BY <1>1, <2>2
    <3> QED
      BY <3>1, <3>2
  <2> QED
    BY <2>1, <2>2
<1> HIDE DEF m, n
<1>6. Ascending(u)
  <2> SUFFICES ASSUME NEW i \in 1..(m + n), NEW j \in 1..(m + n), i < j
               PROVE  u[i] < u[j]
    BY <1>1 DEF Ascending
  <2>1. CASE j \in 1..m
    <3>1. i \in 1..m
      BY <1>1, <2>1
    <3> QED
      BY <1>3, <2>1, <3>1 DEF Ascending, m
  <2>2. CASE i \in 1..m /\ j \notin 1..m
    <3>1. u[i] = s[i] /\ u[j] = t[j - m] /\ j - m \in 1..n
      BY <1>3, <1>5, <2>2
    <3>2. s[i] \in ToSet(s) /\ t[j - m] \in ToSet(t)
      BY <1>2, <2>2, <3>1 DEF ToSet
    <3> QED
      BY <3>1, <3>2
  <2>3. CASE i \notin 1..m /\ j \notin 1..m
    <3>1. /\ u[i] = t[i - m] /\ u[j] = t[j - m]
          /\ i - m \in 1..n /\ j - m \in 1..n /\ i - m < j - m
      BY <1>1, <1>5, <2>3
    <3> QED
      BY <3>1 DEF Ascending, n
  <2> QED
    BY <2>1, <2>2, <2>3
<1>7. ASSUME NEW x PROVE x \in ToSet(u) <=> x \in ToSet(s) \cup ToSet(t)
  <2>1. ASSUME x \in ToSet(u) PROVE x \in ToSet(s) \cup ToSet(t)
    <3>1. PICK i \in 1..(m + n) : x = u[i]
      BY <1>2, <2>1 DEF ToSet
    <3> QED
      BY <1>2, <1>3, <1>5, <3>1 DEF ToSet
  <2>2. ASSUME x \in ToSet(s) PROVE x \in ToSet(u)
    BY <1>2, <1>3, <2>2 DEF ToSet
  <2>3. ASSUME x \in ToSet(t) PROVE x \in ToSet(u)
    <3>1. PICK i \in 1..n : x = t[i]
      BY <1>2, <2>3 DEF ToSet
    <3>2. i + m \in DOMAIN u /\ u[i + m] = x
      BY <1>2, <1>4, <3>1
    <3> QED
      BY <3>2 DEF ToSet
  <2> QED
    BY <2>1, <2>2, <2>3
<1> QED
  BY <1>6, <1>7 DEF u

(* All parts, one after the other, are the matching rows, in order.            *)
LEMMA PartsJoin ==
  ASSUME NEW l \in Lists,
         NEW ss, ss = [k \in 1..Parts(l.rows) |-> Part(l, k - 1)]
  PROVE  /\ FlattenSeq(ss) \in Seq(Int) /\ Ascending(FlattenSeq(ss))
         /\ ToSet(FlattenSeq(ss)) = l.match
<1> DEFINE n == l.rows
           p == Parts(n)
           q == Steps(n)
           End(k) == Lesser(n, k * q)
<1>1. n \in Nat /\ l.match \subseteq 0..(n - 1)
  BY PoolAssumption
<1>2. p \in Nat \ {0} /\ q \in Nat /\ p * q > n
  BY <1>1, PartsCover
<1>3. ASSUME NEW k \in 1..p
      PROVE  /\ Part(l, k - 1) \in Seq(Int) /\ Ascending(Part(l, k - 1))
             /\ \A x : x \in ToSet(Part(l, k - 1)) <=>
                         x \in l.match /\ (k - 1) * q <= x /\ x < End(k)
  <2>1. k - 1 \in Nat /\ k - 1 + 1 = k
    BY <1>2
  <2>2. Start(n, k - 1) = (k - 1) * q
    BY DEF Start
  <2>3. Stop(n, k - 1) = Lesser(n, (k - 1 + 1) * q)
    BY DEF Stop
  <2> HIDE DEF p, q
  <2> QED
    BY <2>1, <2>2, <2>3, PartIs
<1>4. ss = [k \in 1..p |-> Part(l, k - 1)]
  OBVIOUS
<1> HIDE DEF n, p, q
<1>5. ss \in [1..p -> Seq(Int)] /\ \A k \in 1..p : ss[k] = Part(l, k - 1)
  BY <1>3, <1>4
<1>6. ss \in Seq(Seq(Int)) /\ Len(ss) = p
  BY <1>2, <1>5, FunctionIsSeq
<1>7. PICK f : /\ JoinSteps(ss, f) /\ FlattenSeq(ss) = f[p]
               /\ \A k \in 1..p : f[k] \in Seq(Int)
  <2>1. Len(ss) > 0
    <3>1. p > 0
      BY <1>2
    <3> QED
      BY <1>6, <3>1, Zenon
  <2>2. \E f : /\ JoinSteps(ss, f) /\ FlattenSeq(ss) = f[Len(ss)]
               /\ \A k \in 1..Len(ss) : f[k] \in Seq(Int)
    BY <1>6, <2>1, FlattenSteps
  <2> QED
    BY <1>6, <2>2
<1> DEFINE Good(k) == /\ Ascending(f[k])
                      /\ \A x : x \in ToSet(f[k]) <=> x \in l.match /\ x < End(k)
           M == {k \in 1..p : Good(k)}
<1>8. M \in SUBSET Nat
  <2>1. 1..p \in SUBSET Nat /\ M \subseteq 1..p
    OBVIOUS
  <2> HIDE DEF M
  <2> QED
    BY <2>1
<1>9. 1 \in M
  <2>1. 1 \in 1..p /\ f[1] = Part(l, 1 - 1)
    BY <1>2, <1>5, <1>7 DEF JoinSteps
  <2>2. \A x \in l.match : (1 - 1) * q <= x
    BY <1>1, <1>2
  <2>3. Good(1)
    <3> HIDE DEF End
    <3> QED
      BY <1>3, <2>1, <2>2
  <2> QED
    BY <2>1, <2>3
<1>10. ASSUME NEW k \in 2..p, k - 1 \in M PROVE k \in M
  <2> DEFINE s == f[k - 1]
             t == ss[k]
  <2>1. k \in 1..p /\ Good(k - 1) /\ k - 1 \in 1..p
    BY <1>10
  <2>2. f[k] = s \o t
    BY <1>6, <1>7 DEF JoinSteps
  <2>3. /\ t \in Seq(Int) /\ Ascending(t)
        /\ \A x : x \in ToSet(t) <=> x \in l.match /\ (k - 1) * q <= x /\ x < End(k)
    <3> HIDE DEF End
    <3> QED
      BY <1>3, <1>5, <2>1
  <2>4. s \in Seq(Int)
    BY <1>7, <2>1
  <2>5. PICK a \in Nat, b \in Nat : a = (k - 1) * q /\ b = k * q /\ a <= b
    <3>1. k - 1 \in Nat /\ k \in Nat
      OBVIOUS
    <3>2. (k - 1) * q \in Nat /\ k * q \in Nat
      BY <1>2, <3>1
    <3>3. k * q = (k - 1) * q + q
      BY <1>2
    <3> QED
      BY <1>2, <3>2, <3>3
  <2>6. End(k - 1) = Lesser(n, a) /\ End(k) = Lesser(n, b)
    BY <2>5
  <2> HIDE DEF End, M
  <2>7. \A x : x \in ToSet(s) <=> x \in l.match /\ x < Lesser(n, a)
    BY <2>1, <2>6
  <2>8. \A x : x \in ToSet(t) <=> x \in l.match /\ a <= x /\ x < Lesser(n, b)
    BY <2>3, <2>5, <2>6
  <2> HIDE DEF s, t
  <2>9. \A x \in ToSet(s), y \in ToSet(t) : x < y
    BY <1>1, <2>7, <2>8 DEF Lesser
  <2>10. Ascending(s \o t) /\ ToSet(s \o t) = ToSet(s) \cup ToSet(t)
    <3>1. Ascending(s)
      BY <2>1 DEF s
    <3> QED
      BY <2>3, <2>4, <2>9, <3>1, ConcatAscends
  <2>11. \A x : x \in ToSet(s \o t) <=> x \in l.match /\ x < Lesser(n, b)
    <3>1. \A x \in l.match :
            x < Lesser(n, b) <=> x < Lesser(n, a) \/ (a <= x /\ x < Lesser(n, b))
      BY <1>1, <2>5 DEF Lesser
    <3> QED
      BY <2>7, <2>8, <2>10, <3>1
  <2> QED
    BY <2>1, <2>2, <2>6, <2>10, <2>11 DEF M
<1>11. p \in M
  <2> HIDE DEF M
  <2>1. 1..p \subseteq M
    BY <1>2, <1>8, <1>9, <1>10, FromOne
  <2> QED
    BY <1>2, <2>1
<1>12. \A x \in l.match : x < End(p)
  <2>1. End(p) = n
    BY <1>1, <1>2 DEF Lesser
  <2> QED
    BY <1>1, <2>1
<1> QED
  <2> HIDE DEF End
  <2> QED
    BY <1>2, <1>7, <1>11, <1>12
--------------------------------------------------------------------------------
(* The pool.                                                                    *)

PoolSpec == PoolInit(TRUE) /\ [][PoolNext]_poolVars

Jobs == {LoadJob(i) : i \in Icons} \cup {PartJob(k) : k \in Nat}
Places == {"idle", "start", "loaded", "done", "failed", "arm", "store"}
JobsTyped ==
  /\ queue \in Seq(Jobs) /\ pool \in 1..MaxPools
  /\ running \in [Slots -> [at : Places, job : Jobs \cup {NoJob}]]

Memories == [asked : BOOLEAN, choice : Nat \ {0}, drawn : BOOLEAN]
RowsTyped == row \in [Rows -> Memories]

(* The strengthening of FilterExact: while a list is filtered the main thread  *)
(* waits, what was found are parts of that list; and each job for a part, in   *)
(* the queue or with a thread, is for a part that is not found yet and that no *)
(* other job is for.  So when all parts are found no job is left, and the next *)
(* list is not given a part of this one.                                       *)
Searching == filter.at = "parts"
IsPart(j) == j.kind = "part"
Owed(j) == /\ Searching /\ j.part \in 0..(Parts(filter.list.rows) - 1)
           /\ j.part \notin DOMAIN filter.found

FilterForm ==
  /\ main.at = "wait" <=> Searching
  /\ Searching =>
       /\ filter = [at |-> "parts", list |-> filter.list, found |-> filter.found]
       /\ filter.list \in Lists
       /\ DOMAIN filter.found \subseteq 0..(Parts(filter.list.rows) - 1)
       /\ \A k \in DOMAIN filter.found : filter.found[k] = Part(filter.list, k)

PartsOwed ==
  /\ \A i \in 1..Len(queue) : IsPart(queue[i]) => Owed(queue[i])
  /\ \A s \in Slots : IsPart(running[s].job) => Owed(running[s].job)
PartsOnce ==
  /\ \A i, j \in 1..Len(queue) :
       IsPart(queue[i]) /\ IsPart(queue[j]) /\ i # j => queue[i].part # queue[j].part
  /\ \A s, r \in Slots :
       IsPart(running[s].job) /\ IsPart(running[r].job) /\ s # r =>
         running[s].job.part # running[r].job.part
  /\ \A i \in 1..Len(queue), s \in Slots :
       IsPart(queue[i]) /\ IsPart(running[s].job) =>
         queue[i].part # running[s].job.part

FilterIInv == JobsTyped /\ FilterForm /\ PartsOwed /\ PartsOnce /\ FilterExact

LEMMA JobsAre ==
  /\ \A i \in Icons : LoadJob(i) \in Jobs /\ ~IsPart(LoadJob(i)) /\ LoadJob(i).name = i
                      /\ LoadJob(i).kind = "icon"
  /\ \A k \in Nat : PartJob(k) \in Jobs /\ IsPart(PartJob(k)) /\ PartJob(k).part = k
                    /\ PartJob(k).kind = "part"
  /\ ~IsPart(NoJob) /\ NoJob.kind = "none"
  /\ \A j \in Jobs : j.kind = "icon" => j.name \in Icons
<1>1. ASSUME NEW i \in Icons
      PROVE  LoadJob(i) \in Jobs /\ LoadJob(i).kind = "icon" /\ LoadJob(i).name = i
  BY DEF Jobs, LoadJob
<1>2. ASSUME NEW k \in Nat
      PROVE  PartJob(k) \in Jobs /\ PartJob(k).kind = "part" /\ PartJob(k).part = k
  BY DEF Jobs, PartJob
<1>3. NoJob.kind = "none"
  BY DEF NoJob
<1>4. ASSUME NEW j \in Jobs, j.kind = "icon" PROVE j.name \in Icons
  <2>1. PICK i \in Icons : j = LoadJob(i)
    BY <1>2, <1>4 DEF Jobs
  <2> QED
    BY <1>1, <2>1
<1> QED
  BY <1>1, <1>2, <1>3, <1>4 DEF IsPart

(* Where no part is added, taken or found, all stays as it is.                 *)
LEMMA PartsStay ==
  ASSUME FilterIInv, JobsTyped',
         main'.at = "wait" <=> main.at = "wait",
         UNCHANGED filter \/ (filter' = Unfiltered /\ ~Searching),
         \A i \in 1..Len(queue') : IsPart(queue'[i]) =>
           i \in 1..Len(queue) /\ queue'[i] = queue[i],
         \A s \in Slots : IsPart(running'[s].job) => running'[s].job = running[s].job
  PROVE  FilterIInv'
<1> USE DEF FilterIInv
<1>1. (filter' = filter /\ Searching' = Searching) \/ (~Searching /\ ~Searching')
  BY DEF Searching, Unfiltered
<1>2. FilterForm'
  BY <1>1 DEF FilterForm, Searching
<1>3. \A j : Owed(j) => Owed(j)'
  BY <1>1 DEF Owed, Searching
<1>4. PartsOwed'
  <2>1. ASSUME NEW i \in 1..Len(queue'), IsPart(queue'[i]) PROVE Owed(queue[i])'
    <3>1. i \in 1..Len(queue) /\ queue'[i] = queue[i]
      BY <2>1
    <3>2. Owed(queue'[i])
      BY <2>1, <3>1 DEF PartsOwed
    <3> QED
      BY <1>1, <3>2 DEF Owed, Searching
  <2>2. ASSUME NEW s \in Slots, IsPart(running'[s].job) PROVE Owed(running[s].job)'
    <3>1. running'[s].job = running[s].job
      BY <2>2
    <3>2. Owed(running'[s].job)
      BY <2>2, <3>1 DEF PartsOwed
    <3> QED
      BY <1>1, <3>2 DEF Owed, Searching
  <2> QED
    BY <2>1, <2>2 DEF PartsOwed, IsPart
<1>5. PartsOnce'
  BY DEF PartsOnce, IsPart
<1>6. FilterExact'
  BY DEF FilterExact, Unfiltered
<1> QED
  BY <1>2, <1>4, <1>5, <1>6

(* A thread that ends its job, or goes on with it, or waits, has no other part. *)
LEMMA SlotMoves ==
  ASSUME JobsTyped, NEW s \in Slots,
         \/ \E place \in Places : Goto(s, place)
         \/ running' = [running EXCEPT ![s] = Idle]
         \/ UNCHANGED running
  PROVE  /\ running' \in [Slots -> [at : Places, job : Jobs \cup {NoJob}]]
         /\ \A r \in Slots : \/ running'[r].job = running[r].job
                             \/ r = s /\ running'[r].job = NoJob
<1>1. CASE \E place \in Places : Goto(s, place)
  BY <1>1 DEF JobsTyped, Goto
<1>2. CASE running' = [running EXCEPT ![s] = Idle]
  <2>1. Idle \in [at : Places, job : Jobs \cup {NoJob}] /\ Idle.job = NoJob
    BY DEF Idle, Places
  <2> QED
    BY <1>2, <2>1 DEF JobsTyped
<1>3. CASE UNCHANGED running
  BY <1>3 DEF JobsTyped
<1> QED
  BY <1>1, <1>2, <1>3

(* What the main thread does with icons does not touch the parts.              *)
LEMMA QueryAppends ==
  ASSUME JobsTyped, NEW i \in Icons, Query(i)
  PROVE  /\ queue' \in Seq(Jobs)
         /\ \A k \in 1..Len(queue') : IsPart(queue'[k]) =>
              k \in 1..Len(queue) /\ queue'[k] = queue[k]
<1>1. CASE UNCHANGED queue
  BY <1>1 DEF JobsTyped
<1>2. CASE queue' = Append(queue, LoadJob(i))
  <2>1. LoadJob(i) \in Jobs /\ ~IsPart(LoadJob(i))
    BY JobsAre
  <2>2. /\ queue' \in Seq(Jobs) /\ Len(queue') = Len(queue) + 1
        /\ queue'[Len(queue) + 1] = LoadJob(i)
        /\ \A k \in 1..Len(queue) : queue'[k] = queue[k]
    BY <1>2, <2>1, AppendProperties DEF JobsTyped
  <2>3. Len(queue) \in Nat
    BY LenProperties DEF JobsTyped
  <2>4. ASSUME NEW k \in 1..Len(queue'), IsPart(queue'[k]) PROVE k \in 1..Len(queue)
    <3>1. k # Len(queue) + 1
      BY <2>1, <2>2, <2>4
    <3> QED
      BY <2>2, <2>3, <3>1
  <2> QED
    BY <2>2, <2>4
<1> QED
  BY <1>1, <1>2 DEF Query

LEMMA DrawsKeepParts ==
  ASSUME FilterIInv, RowsTyped, Draw
  PROVE  FilterIInv'
<1> USE DEF FilterIInv
<1>1. CASE StartDraw
  <2>1. main.at = "loop" /\ main'.at = "draw" /\ UNCHANGED <<queue, running, pool>>
        /\ filter' = Unfiltered
    BY <1>1 DEF StartDraw, Free
  <2>2. JobsTyped'
    BY <2>1 DEF JobsTyped
  <2>3. ~Searching
    BY <2>1 DEF FilterForm
  <2> QED
    BY <2>1, <2>2, <2>3, PartsStay
<1>2. ASSUME NEW r \in Rows, DrawRow(r) \/ AskRow(r) PROVE FilterIInv'
  <2>1. UNCHANGED <<running, pool, filter>> /\ main.at = "draw"
    BY <1>2 DEF DrawRow, AskRow
  <2>2. main'.at # "wait"
    BY <1>2 DEF DrawRow, AskRow, DrawRows, Free
  <2>3. UNCHANGED queue \/ \E i \in Icons : Query(i)
    <3>1. Names[r] \in Seq(Icons)
      BY PoolAssumption
    <3>2. CASE DrawRow(r)
      <4>1. Names[r][1] \in Icons
        <5>1. Kind[r] # "fallback" /\ Names[r] # <<>>
          BY <3>2, PoolAssumption DEF DrawRow
        <5>2. 1 \in 1..Len(Names[r])
          BY <3>1, <5>1, EmptySeq
        <5> QED
          BY <3>1, <5>2, ElementOfSeq
      <4> QED
        BY <3>2, <4>1 DEF DrawRow
    <3>3. CASE AskRow(r)
      <4>1. ASSUME row[r].choice <= Len(Names[r]) PROVE Names[r][row[r].choice] \in Icons
        <5>1. row[r].choice \in 1..Len(Names[r])
          BY <3>1, <4>1, LenProperties DEF RowsTyped, Memories
        <5> QED
          BY <3>1, <5>1, ElementOfSeq
      <4> QED
        BY <3>3, <4>1 DEF AskRow
    <3> QED
      BY <1>2, <3>2, <3>3
  <2>4. /\ queue' \in Seq(Jobs)
        /\ \A k \in 1..Len(queue') : IsPart(queue'[k]) =>
             k \in 1..Len(queue) /\ queue'[k] = queue[k]
    BY <2>3, QueryAppends DEF JobsTyped
  <2>5. JobsTyped'
    BY <2>1, <2>4 DEF JobsTyped
  <2> QED
    BY <2>1, <2>2, <2>4, <2>5, PartsStay
<1>3. ASSUME ReadSurface \/ \E r \in Rows : ReadFlag(r) PROVE FilterIInv'
  <2>1. UNCHANGED <<queue, running, pool, filter>> /\ main.at # "wait"
    BY <1>3 DEF ReadSurface, ReadFlag
  <2>2. main'.at # "wait"
    <3>1. CASE ReadSurface
      <4>1. main' = [at |-> "draw", rows |-> main.rows] \/ DrawRows(main.row)
        BY <3>1 DEF ReadSurface
      <4> QED
        BY <4>1 DEF DrawRows, Free
    <3>2. CASE \E r \in Rows : ReadFlag(r)
      <4>1. main'.at = "got"
        BY <3>2 DEF ReadFlag
      <4> QED
        BY <4>1
    <3> QED
      BY <1>3, <3>1, <3>2
  <2>3. JobsTyped'
    BY <2>1 DEF JobsTyped
  <2> QED
    BY <2>1, <2>2, <2>3, PartsStay
<1> QED
  BY <1>1, <1>2, <1>3 DEF Draw

LEMMA LoopKeepsParts ==
  ASSUME FilterIInv,
         ReloadIdle \/ ReloadDue \/ Leave \/ DestroyIcons \/ \E p \in Pages : TurnPage(p)
  PROVE  FilterIInv'
<1> USE DEF FilterIInv
<1>1. UNCHANGED <<running, filter>> /\ (UNCHANGED queue \/ queue' = <<>>)
      /\ (UNCHANGED pool \/ (pool' = pool + 1 /\ pool < MaxPools))
  BY DEF ReloadIdle, ReloadDue, Leave, DestroyIcons, TurnPage
<1>2. main'.at = "wait" <=> main.at = "wait"
  BY DEF ReloadIdle, ReloadDue, Leave, DestroyIcons, TurnPage, Free
<1>3. queue' \in Seq(Jobs) /\ \A k \in 1..Len(queue') : k \in 1..Len(queue) /\ queue'[k] = queue[k]
  <2>1. <<>> \in Seq(Jobs) /\ Len(<<>>) = 0
    BY EmptySeq
  <2>2. CASE queue' = <<>>
    BY <2>1, <2>2
  <2>3. CASE UNCHANGED queue
    BY <2>3 DEF JobsTyped
  <2> QED
    BY <1>1, <2>2, <2>3
<1>4. JobsTyped'
  <2>1. pool' \in 1..MaxPools
    BY <1>1, PoolAssumption DEF JobsTyped
  <2> QED
    BY <1>1, <1>3, <2>1 DEF JobsTyped
<1> QED
  BY <1>1, <1>2, <1>3, <1>4, PartsStay

(* A thread at work on an icon. *)
Loads(s) ==
  \/ Publish(s) \/ Finished(s) \/ AskReload(s) \/ Fail(s)
  \/ TestReload(s) \/ ArmReload(s) \/ StoreReload(s)

LEMMA LoadsKeepParts ==
  ASSUME FilterIInv, NEW s \in Slots, Loads(s)
  PROVE  FilterIInv'
<1> USE DEF FilterIInv
<1>1. UNCHANGED <<queue, pool, filter, main>>
  BY DEF Loads, Publish, Finished, AskReload, Fail, TestReload, ArmReload, StoreReload
<1>2. \/ \E place \in Places : Goto(s, place)
      \/ running' = [running EXCEPT ![s] = Idle]
  BY DEF Loads, Publish, Finished, AskReload, Fail, TestReload, ArmReload, StoreReload,
    EndJob, Places
<1>3. /\ running' \in [Slots -> [at : Places, job : Jobs \cup {NoJob}]]
      /\ \A r \in Slots : \/ running'[r].job = running[r].job
                          \/ r = s /\ running'[r].job = NoJob
  BY <1>2, SlotMoves
<1>4. JobsTyped'
  BY <1>1, <1>3 DEF JobsTyped
<1>5. \A r \in Slots : IsPart(running'[r].job) => running'[r].job = running[r].job
  BY <1>3, JobsAre
<1> QED
  BY <1>1, <1>4, <1>5, PartsStay

(* A thread takes the first job: it is the thread's instead of the queue's.    *)
LEMMA TakeKeepsParts ==
  ASSUME FilterIInv, NEW n \in 1..Threads, Take(n)
  PROVE  FilterIInv'
<1> USE DEF FilterIInv
<1> DEFINE me == <<pool, n>>
           job == Head(queue)
<1>1. /\ UNCHANGED <<pool, filter, main>> /\ queue # <<>> /\ queue' = Tail(queue)
      /\ running' = [running EXCEPT ![me] = [at |-> "start", job |-> job]]
      /\ running[me] = Idle
  BY DEF Take
<1>2. me \in Slots
  BY DEF Slots, JobsTyped
<1>3. Len(queue) \in Nat \ {0} /\ job \in Jobs /\ job = queue[1] /\ 1 \in 1..Len(queue)
  BY <1>1, EmptySeq, HeadTailProperties DEF JobsTyped
<1>4. /\ queue' \in Seq(Jobs) /\ Len(queue') = Len(queue) - 1
      /\ \A i \in 1..Len(queue') : queue'[i] = queue[i + 1]
  BY <1>1, HeadTailProperties DEF JobsTyped
<1> HIDE DEF me, job
<1>5. [at |-> "start", job |-> job] \in [at : Places, job : Jobs \cup {NoJob}]
  BY <1>3 DEF Places
<1>6. /\ running' \in [Slots -> [at : Places, job : Jobs \cup {NoJob}]]
      /\ running'[me].job = job
      /\ \A s \in Slots : s # me => running'[s] = running[s]
  BY <1>1, <1>2, <1>5 DEF JobsTyped
<1>7. JobsTyped'
  BY <1>1, <1>4, <1>6 DEF JobsTyped
<1>8. FilterForm' /\ FilterExact' /\ Searching' = Searching
  BY <1>1 DEF FilterForm, FilterExact, Searching
<1>9. \A i \in 1..Len(queue') : i + 1 \in 1..Len(queue) /\ i + 1 # 1
  BY <1>3, <1>4
<1>10. PartsOwed'
  <2>1. ASSUME NEW i \in 1..Len(queue'), IsPart(queue'[i]) PROVE Owed(queue[i])'
    <3>1. Owed(queue'[i])
      BY <1>4, <1>9, <2>1 DEF PartsOwed
    <3> QED
      BY <1>1, <3>1 DEF Owed, Searching
  <2>2. ASSUME NEW s \in Slots, IsPart(running'[s].job) PROVE Owed(running[s].job)'
    <3>1. Owed(running'[s].job)
      BY <1>3, <1>6, <2>2 DEF PartsOwed
    <3> QED
      BY <1>1, <3>1 DEF Owed, Searching
  <2> QED
    BY <2>1, <2>2 DEF PartsOwed, IsPart
<1>11. PartsOnce'
  <2>1. ASSUME NEW i \in 1..Len(queue'), NEW j \in 1..Len(queue'), i # j,
               IsPart(queue'[i]), IsPart(queue'[j])
        PROVE  queue'[i].part # queue'[j].part
    <3>1. i + 1 # j + 1
      BY <2>1
    <3> QED
      BY <1>4, <1>9, <2>1, <3>1 DEF PartsOnce
  <2>2. ASSUME NEW s \in Slots, NEW r \in Slots, s # r,
               IsPart(running'[s].job), IsPart(running'[r].job)
        PROVE  running'[s].job.part # running'[r].job.part
    BY <1>3, <1>6, <2>2 DEF PartsOnce
  <2>3. ASSUME NEW i \in 1..Len(queue'), NEW s \in Slots,
               IsPart(queue'[i]), IsPart(running'[s].job)
        PROVE  queue'[i].part # running'[s].job.part
    <3>1. CASE s = me
      BY <1>3, <1>4, <1>6, <1>9, <2>3, <3>1 DEF PartsOnce
    <3>2. CASE s # me
      BY <1>4, <1>6, <1>9, <2>3, <3>2 DEF PartsOnce
    <3> QED
      BY <3>1, <3>2
  <2> QED
    BY <2>1, <2>2, <2>3 DEF PartsOnce, IsPart
<1> QED
  BY <1>7, <1>8, <1>10, <1>11

(* A part that a thread has filtered is found, and only that job was for it.   *)
LEMMA FoundKeepsParts ==
  ASSUME FilterIInv, NEW s \in Slots, FilterPart(s)
  PROVE  FilterIInv'
<1> USE DEF FilterIInv
<1> DEFINE k == running[s].job.part
           part == Part(filter.list, k)
           found == [j \in DOMAIN filter.found \cup {k} |->
                       IF j = k THEN part ELSE filter.found[j]]
<1>1. IsPart(running[s].job)
  BY DEF FilterPart, At, IsPart
<1>2. Searching /\ k \in 0..(Parts(filter.list.rows) - 1)
  BY <1>1 DEF PartsOwed, Owed
<1>3. UNCHANGED <<pool, queue, main>> /\ filter' = [filter EXCEPT !.found = found]
      /\ running' = [running EXCEPT ![s] = Idle]
  BY DEF FilterPart, EndJob
<1> HIDE DEF part
<1>4. /\ DOMAIN found = DOMAIN filter.found \cup {k}
      /\ \A j \in DOMAIN found : found[j] = IF j = k THEN part ELSE filter.found[j]
  OBVIOUS
<1> HIDE DEF found, k
<1>5. filter' = [at |-> "parts", list |-> filter.list, found |-> found]
  BY <1>2, <1>3 DEF FilterForm
<1>6. Searching' /\ FilterForm'
  <2>1. filter'.at = "parts" /\ filter'.list = filter.list /\ filter'.found = found
    BY <1>5
  <2>2. \A j \in DOMAIN found :
          j \in 0..(Parts(filter.list.rows) - 1) /\ found[j] = Part(filter.list, j)
    BY <1>2, <1>4 DEF FilterForm, part
  <2>3. main.at = "wait" /\ filter.list \in Lists
    BY <1>2 DEF FilterForm
  <2> QED
    BY <1>3, <1>5, <2>1, <2>2, <2>3 DEF FilterForm, Searching
<1>7. /\ running' \in [Slots -> [at : Places, job : Jobs \cup {NoJob}]]
      /\ \A r \in Slots : \/ running'[r].job = running[r].job
                          \/ r = s /\ running'[r].job = NoJob
  BY <1>3, SlotMoves
<1>8. JobsTyped'
  BY <1>3, <1>7 DEF JobsTyped
<1>9. running'[s].job = NoJob
  BY <1>3 DEF JobsTyped, Idle
<1>10. \A r \in Slots : IsPart(running'[r].job) => r # s /\ running'[r].job = running[r].job
  BY <1>7, <1>9, JobsAre
<1>11. \A j : Owed(j) /\ j.part # k => /\ Searching' /\ j.part \notin DOMAIN found
                                       /\ j.part \in 0..(Parts(filter.list.rows) - 1)
  BY <1>4, <1>6 DEF Owed
<1>12. filter'.found = found /\ filter'.list = filter.list
  BY <1>5
<1>13. PartsOwed'
  <2>1. ASSUME NEW i \in 1..Len(queue), IsPart(queue[i]) PROVE Owed(queue[i])'
    <3>1. Owed(queue[i]) /\ queue[i].part # k
      BY <1>1, <2>1 DEF PartsOwed, PartsOnce, k
    <3> QED
      BY <1>3, <1>11, <1>12, <3>1 DEF Owed
  <2>2. ASSUME NEW r \in Slots, IsPart(running'[r].job) PROVE Owed(running[r].job)'
    <3>1. Owed(running'[r].job) /\ running'[r].job.part # k
      BY <1>1, <1>10, <2>2 DEF PartsOwed, PartsOnce, k
    <3> QED
      BY <1>11, <1>12, <3>1 DEF Owed
  <2> QED
    BY <1>3, <2>1, <2>2 DEF PartsOwed, IsPart
<1>14. PartsOnce'
  BY <1>3, <1>10 DEF PartsOnce, IsPart
<1>15. FilterExact'
  BY <1>6 DEF FilterExact, Searching
<1> QED
  BY <1>6, <1>8, <1>13, <1>14, <1>15

(* The first part is filtered, there is one job for each other.                *)
LEMMA StartKeepsParts ==
  ASSUME FilterIInv, NEW l \in Lists, StartFilter(l)
  PROVE  FilterIInv'
<1> USE DEF FilterIInv
<1> DEFINE p == Parts(l.rows)
           first == Part(l, 0)
           found == [k \in {0} |-> first]
           js == PartJobs(l.rows)
           m == p - 1
<1>1. /\ UNCHANGED <<pool, running>> /\ main.at = "loop" /\ main'.at = "wait"
      /\ filter' = [at |-> "parts", list |-> l, found |-> found]
      /\ queue' = js \o queue
  BY DEF StartFilter, Free
<1>2. ~Searching
  BY <1>1 DEF FilterForm
<1>3. p \in Nat \ {0}
  <2>1. l.rows \in Nat
    BY PoolAssumption
  <2> QED
    BY <2>1, PartsCover
<1>4. found = [k \in {0} |-> Part(l, k)]
  OBVIOUS
<1>5. js = [k \in 1..m |-> PartJob(k)]
  BY DEF PartJobs
<1> HIDE DEF first, found, p, js
<1>6. m \in Nat
  BY <1>3
<1> HIDE DEF m
<1>7. js \in [1..m -> Jobs] /\ \A k \in 1..m : js[k] = PartJob(k) /\ k \in Nat
  BY <1>5, <1>6, JobsAre
<1>8. js \in Seq(Jobs) /\ Len(js) = m
  BY <1>6, <1>7, FunctionIsSeq
<1>9. /\ queue' \in Seq(Jobs) /\ Len(queue') = m + Len(queue) /\ Len(queue) \in Nat
      /\ \A i \in 1..(m + Len(queue)) :
           queue'[i] = IF i <= m THEN js[i] ELSE queue[i - m]
  <2> DEFINE u == js \o queue
  <2>1. queue \in Seq(Jobs) /\ Len(queue) \in Nat
    BY LenProperties DEF JobsTyped
  <2>2. /\ u \in Seq(Jobs) /\ Len(u) = Len(js) + Len(queue)
        /\ \A i \in 1..(Len(js) + Len(queue)) :
             u[i] = IF i <= Len(js) THEN js[i] ELSE queue[i - Len(js)]
    BY <1>8, <2>1, ConcatProperties
  <2>3. queue' = u
    BY <1>1
  <2> HIDE DEF u
  <2> QED
    BY <1>8, <2>1, <2>2, <2>3
<1>10. \A i \in 1..Len(queue) : ~IsPart(queue[i])
  BY <1>2 DEF PartsOwed, Owed
<1>11. \A s \in Slots : ~IsPart(running[s].job)
  BY <1>2 DEF PartsOwed, Owed
<1>12. ASSUME NEW i \in 1..Len(queue'), IsPart(queue'[i])
       PROVE  i \in 1..m /\ queue'[i].part = i
  <2>1. CASE i <= m
    <3>1. i \in 1..m /\ queue'[i] = js[i]
      BY <1>6, <1>9, <2>1
    <3> QED
      BY <1>7, <3>1, JobsAre
  <2>2. CASE ~(i <= m)
    <3>1. i - m \in 1..Len(queue) /\ queue'[i] = queue[i - m]
      BY <1>6, <1>9, <2>2
    <3> QED
      BY <1>10, <1>12, <3>1
  <2> QED
    BY <2>1, <2>2
<1>13. filter'.at = "parts" /\ filter'.list = l /\ filter'.found = found
  BY <1>1
<1>14. FilterForm'
  <2>1. \A k \in DOMAIN found : k \in 0..(p - 1) /\ found[k] = Part(l, k)
    BY <1>3, <1>4
  <2> QED
    BY <1>1, <1>13, <2>1 DEF FilterForm, Searching, p
<1>15. JobsTyped'
  BY <1>1, <1>9 DEF JobsTyped
<1>16. PartsOwed'
  <2>1. ASSUME NEW i \in 1..Len(queue'), IsPart(queue'[i]) PROVE Owed(queue[i])'
    <3>1. queue'[i].part \in 0..(p - 1) /\ queue'[i].part # 0
      BY <1>3, <1>12, <2>1 DEF m
    <3>2. DOMAIN found = {0}
      BY <1>4
    <3> QED
      BY <1>13, <3>1, <3>2 DEF Owed, Searching, p
  <2> QED
    BY <1>1, <1>11, <2>1 DEF PartsOwed, IsPart
<1>17. PartsOnce'
  BY <1>1, <1>11, <1>12 DEF PartsOnce, IsPart
<1>18. FilterExact'
  BY <1>13 DEF FilterExact
<1> QED
  BY <1>14, <1>15, <1>16, <1>17, <1>18

(* All parts are found: no job for one is left, and they are the list.         *)
LEMMA EndKeepsParts ==
  ASSUME FilterIInv, EndFilter
  PROVE  FilterIInv'
<1> USE DEF FilterIInv
<1> DEFINE l == filter.list
           p == Parts(l.rows)
           ss == [k \in 1..p |-> filter.found[k - 1]]
           lines == FlattenSeq(ss)
<1>1. /\ UNCHANGED <<pool, queue, running>> /\ main.at = "wait" /\ main'.at = "loop"
      /\ Cardinality(DOMAIN filter.found) = p
      /\ filter' = [at |-> "done", list |-> l, lines |-> lines]
  BY DEF EndFilter, Free
<1>2. Searching /\ l \in Lists
  BY <1>1 DEF FilterForm
<1>3. p \in Nat \ {0}
  <2>1. l.rows \in Nat
    BY <1>2, PoolAssumption
  <2> QED
    BY <2>1, PartsCover
<1>4. DOMAIN filter.found = 0..(p - 1)
  <2>1. DOMAIN filter.found \subseteq 0..(p - 1)
    BY <1>2 DEF FilterForm
  <2>2. IsFiniteSet(0..(p - 1)) /\ Cardinality(0..(p - 1)) = p
    <3>1. p - 1 \in Int /\ 0 \in Int /\ ~(0 > p - 1) /\ p - 1 - 0 + 1 = p
      BY <1>3
    <3> HIDE DEF p
    <3> QED
      BY <3>1, FS_Interval
  <2> HIDE DEF p
  <2> QED
    BY <1>1, <2>1, <2>2, FS_Subset
<1>5. \A i \in 1..Len(queue) : ~IsPart(queue[i])
  BY <1>4 DEF PartsOwed, Owed
<1>6. \A s \in Slots : ~IsPart(running[s].job)
  BY <1>4 DEF PartsOwed, Owed
<1>7. ss = [k \in 1..p |-> Part(l, k - 1)]
  <2>1. ASSUME NEW k \in 1..p PROVE filter.found[k - 1] = Part(l, k - 1)
    <3>1. k - 1 \in DOMAIN filter.found
      BY <1>3, <1>4
    <3> QED
      BY <1>2, <3>1 DEF FilterForm
  <2> QED
    BY <2>1
<1>8. lines \in Seq(Int) /\ Ascending(lines) /\ ToSet(lines) = l.match
  <2> HIDE DEF ss, l
  <2> QED
    BY <1>2, <1>7, PartsJoin
<1>9. DOMAIN lines = 1..Len(lines)
  BY <1>8, LenProperties
<1> HIDE DEF lines, l
<1>10. filter'.at = "done" /\ filter'.list = l /\ filter'.lines = lines
  BY <1>1
<1>11. FilterExact'
  BY <1>8, <1>9, <1>10 DEF FilterExact, Ascending
<1>12. FilterForm' /\ JobsTyped'
  BY <1>1, <1>10 DEF FilterForm, Searching, JobsTyped
<1>13. PartsOwed' /\ PartsOnce'
  BY <1>1, <1>5, <1>6 DEF PartsOwed, PartsOnce, IsPart
<1> QED
  BY <1>11, <1>12, <1>13

LEMMA PartsStart == PoolInit(TRUE) => FilterIInv
<1> SUFFICES ASSUME PoolInit(TRUE) PROVE FilterIInv
  OBVIOUS
<1>1. /\ queue = <<>> /\ running = [s \in Slots |-> Idle] /\ filter.at = "none"
      /\ main.at = "loop" /\ pool = 1
  BY DEF PoolInit, Unfiltered, Free
<1>2. <<>> \in Seq(Jobs) /\ Len(queue) = 0
  BY <1>1, EmptySeq
<1>3. Idle \in [at : Places, job : Jobs \cup {NoJob}] /\ Idle.job = NoJob /\ ~IsPart(NoJob)
  BY JobsAre DEF Idle, Places
<1>4. JobsTyped
  BY <1>1, <1>2, <1>3, PoolAssumption DEF JobsTyped
<1>5. FilterForm /\ FilterExact
  BY <1>1 DEF FilterForm, FilterExact, Searching
<1>6. PartsOwed /\ PartsOnce
  <2>1. \A s \in Slots : ~IsPart(running[s].job)
    BY <1>1, <1>3
  <2> QED
    BY <1>2, <2>1 DEF PartsOwed, PartsOnce
<1> QED
  BY <1>4, <1>5, <1>6 DEF FilterIInv

--------------------------------------------------------------------------------
(* Icons and the rows that show them.                                           *)

(* The strengthening of OnlyMissingPassed: an entry has a flag or a surface    *)
(* only once it is known, so that asking again does not take them back; it is  *)
(* done without a surface only when its icon cannot be loaded; a thread's and  *)
(* a queued job's icon is known; a row that was asked for has a choice; and    *)
(* the flag that the main thread holds in its hand is still set when it reads  *)
(* the surface.                                                                *)
Marks == [known : BOOLEAN, started : BOOLEAN, done : BOOLEAN, surface : BOOLEAN]
IconsTyped == icon \in [Icons -> Marks]
MarksAdd ==
  \A i \in Icons : /\ icon[i].done \/ icon[i].surface => icon[i].known
                   /\ icon[i].done /\ ~icon[i].surface => i \in Missing
JobsKnown ==
  /\ \A k \in 1..Len(queue) : queue[k].kind = "icon" => icon[queue[k].name].known
  /\ \A s \in Slots : running[s].job.kind = "icon" => icon[running[s].job.name].known
AskedHave ==
  \A r \in Rows : row[r].asked /\ Kind[r] = "fallback" => row[r].choice <= Len(Names[r])
FlagHolds ==
  main.at = "got" =>
    /\ main.row \in Rows /\ Kind[main.row] = "fallback" /\ row[main.row].asked
    /\ main.flag => icon[Names[main.row][row[main.row].choice]].done

IconIInv ==
  /\ RowsTyped /\ IconsTyped /\ MarksAdd /\ JobsKnown /\ AskedHave /\ FlagHolds
  /\ OnlyMissingPassed

(* What is known, done or loaded stays so. *)
MarksStay ==
  \A i \in Icons : /\ icon[i].known => icon'[i].known
                   /\ icon[i].done => icon'[i].done
                   /\ icon[i].surface => icon'[i].surface

(* A step that only marks icons more, and takes no new job on, keeps it all.   *)
LEMMA MarksKeep ==
  ASSUME JobsTyped, IconIInv, IconsTyped', MarksAdd', MarksStay,
         \/ UNCHANGED row
         \/ main'.at # "got" /\ row' = [r \in Rows |-> [row[r] EXCEPT !.drawn = FALSE]],
         main' = main \/ main'.at # "got",
         JobsKnown'
  PROVE  IconIInv'
<1> USE DEF IconIInv
<1>1. \A r \in Rows : row'[r].choice = row[r].choice /\ row'[r].asked = row[r].asked
  BY DEF RowsTyped, Memories
<1>2. RowsTyped'
  <2>1. \A r \in Rows : [row[r] EXCEPT !.drawn = FALSE] \in Memories
    BY DEF RowsTyped, Memories
  <2> QED
    BY <2>1 DEF RowsTyped
<1>4. AskedHave' /\ OnlyMissingPassed'
  BY <1>1 DEF AskedHave, OnlyMissingPassed
<1>5. FlagHolds'
  <2>1. CASE main'.at # "got"
    BY <2>1 DEF FlagHolds
  <2>2. CASE main'.at = "got"
    <3>1. main' = main /\ row' = row /\ main.at = "got" /\ main.row \in Rows
      BY <2>2 DEF FlagHolds
    <3>2. Names[main.row][row[main.row].choice] \in Icons
      <4>1. /\ Names[main.row] \in Seq(Icons) /\ row[main.row].choice \in Nat \ {0}
            /\ row[main.row].choice <= Len(Names[main.row])
        BY <3>1, PoolAssumption DEF FlagHolds, AskedHave, RowsTyped, Memories
      <4>2. row[main.row].choice \in 1..Len(Names[main.row])
        BY <4>1, LenProperties
      <4> QED
        BY <4>1, <4>2, ElementOfSeq
    <3> QED
      BY <3>1, <3>2 DEF FlagHolds, MarksStay
  <2> QED
    BY <2>1, <2>2
<1> QED
  BY <1>2, <1>4, <1>5

(* A queue whose jobs were in the queue, and threads that go on with theirs or *)
(* none, have known icons.                                                     *)
LEMMA KnownStay ==
  ASSUME JobsTyped, JobsKnown, MarksStay,
         \A k \in 1..Len(queue') : \E i \in 1..Len(queue) : queue'[k] = queue[i],
         \A s \in Slots : running'[s].job \in {running[s].job, NoJob}
  PROVE  JobsKnown'
<1>1. \A j \in Jobs : j.kind = "icon" /\ icon[j.name].known => icon'[j.name].known
  BY JobsAre DEF MarksStay
<1>2. ASSUME NEW k \in 1..Len(queue'), queue'[k].kind = "icon"
      PROVE  icon'[queue'[k].name].known
  <2>1. PICK i \in 1..Len(queue) : queue'[k] = queue[i]
    OBVIOUS
  <2>2. queue[i] \in Jobs
    BY ElementOfSeq DEF JobsTyped
  <2> QED
    BY <1>1, <1>2, <2>1, <2>2 DEF JobsKnown
<1>3. ASSUME NEW s \in Slots, running'[s].job.kind = "icon"
      PROVE  icon'[running'[s].job.name].known
  <2>1. running'[s].job = running[s].job
    BY <1>3, JobsAre
  <2>2. running[s].job \in Jobs
    BY <1>3, <2>1, JobsAre DEF JobsTyped
  <2> QED
    BY <1>1, <1>3, <2>1, <2>2 DEF JobsKnown
<1> QED
  BY <1>2, <1>3 DEF JobsKnown

LEMMA UnstartedMarks ==
  ASSUME IconsTyped, MarksAdd, NEW names,
         icon' = [i \in Icons |-> IF i \in names THEN [icon[i] EXCEPT !.started = FALSE]
                                  ELSE icon[i]]
  PROVE  IconsTyped' /\ MarksAdd' /\ MarksStay
<1>1. ASSUME NEW i \in Icons
      PROVE  /\ icon'[i] \in Marks /\ icon'[i].known = icon[i].known
             /\ icon'[i].done = icon[i].done /\ icon'[i].surface = icon[i].surface
  <2>1. icon[i] \in Marks /\ [icon[i] EXCEPT !.started = FALSE] \in Marks
    BY DEF IconsTyped, Marks
  <2> QED
    BY <2>1 DEF Marks
<1>2. IconsTyped'
  BY <1>1 DEF IconsTyped
<1> QED
  BY <1>1, <1>2 DEF MarksAdd, MarksStay

(* The end of a job changes what is started, and nothing else of an entry.     *)
LEMMA JobEnds ==
  ASSUME IconsTyped, MarksAdd, NEW s \in Slots, EndJob(s, icon)
  PROVE  IconsTyped' /\ MarksAdd' /\ MarksStay
<1>1. CASE UNCHANGED icon
  BY <1>1 DEF IconsTyped, MarksAdd, MarksStay
<1>2. CASE icon' = [i \in Icons |->
                      IF i \in dropped[s[1]] THEN [icon[i] EXCEPT !.started = FALSE]
                      ELSE icon[i]]
  BY <1>2, UnstartedMarks
<1> QED
  BY <1>1, <1>2 DEF EndJob

(* What a thread does to an entry: a surface for one that can be loaded, a     *)
(* flag with the surface, or a flag for one that cannot.                       *)
LEMMA LoadsMark ==
  ASSUME JobsTyped, IconsTyped, MarksAdd, JobsKnown, NEW s \in Slots, Loads(s)
  PROVE  IconsTyped' /\ MarksAdd' /\ MarksStay
<1> DEFINE i == running[s].job.name
<1>1. running[s].job.kind = "icon"
  BY DEF Loads, Publish, Finished, AskReload, Fail, TestReload, ArmReload, StoreReload, At
<1>2. i \in Icons /\ icon[i].known
  <2>1. running[s].job \in Jobs
    BY <1>1, JobsAre DEF JobsTyped
  <2> QED
    BY <1>1, <2>1, JobsAre DEF JobsKnown
<1> HIDE DEF i
<1>3. CASE EndJob(s, icon)
  BY <1>3, JobEnds
<1>4. CASE UNCHANGED icon
  BY <1>4 DEF IconsTyped, MarksAdd, MarksStay
<1>5. ASSUME NEW d \in BOOLEAN, NEW f \in BOOLEAN,
             icon' = [icon EXCEPT ![i] = [icon[i] EXCEPT !.done = d, !.surface = f]],
             icon[i].done => d, icon[i].surface => f, d /\ ~f => i \in Missing
      PROVE  IconsTyped' /\ MarksAdd' /\ MarksStay
  <2> DEFINE e == [icon[i] EXCEPT !.done = d, !.surface = f]
  <2>1. /\ e \in Marks /\ e.known = icon[i].known /\ e.done = d /\ e.surface = f
    BY <1>2 DEF IconsTyped, Marks
  <2> HIDE DEF e
  <2>2. icon' = [icon EXCEPT ![i] = e]
    BY <1>5 DEF e
  <2>3. icon' \in [Icons -> Marks] /\ icon'[i] = e /\ \A j \in Icons : j # i => icon'[j] = icon[j]
    BY <1>2, <2>1, <2>2 DEF IconsTyped
  <2> QED
    BY <1>2, <1>5, <2>1, <2>3 DEF IconsTyped, MarksAdd, MarksStay
<1>6. icon[i] = [known |-> icon[i].known, started |-> icon[i].started,
                 done |-> icon[i].done, surface |-> icon[i].surface]
      /\ icon[i].done \in BOOLEAN /\ icon[i].surface \in BOOLEAN
  BY <1>2 DEF IconsTyped, Marks
<1>7. CASE Publish(s)
  <2>1. icon' = [icon EXCEPT ![i] = [icon[i] EXCEPT !.done = icon[i].done,
                                                    !.surface = TRUE]]
    <3>1. icon' = [icon EXCEPT ![i] = [icon[i] EXCEPT !.surface = TRUE]]
      BY <1>7 DEF Publish, i
    <3>2. [icon[i] EXCEPT !.done = icon[i].done, !.surface = TRUE]
            = [icon[i] EXCEPT !.surface = TRUE]
      BY <1>6
    <3> QED
      BY <3>1, <3>2
  <2> QED
    BY <1>5, <1>6, <2>1
<1>8. CASE Finished(s)
  <2>1. icon' = [icon EXCEPT ![i] = [icon[i] EXCEPT !.done = TRUE, !.surface = TRUE]]
    BY <1>2, <1>8 DEF Finished, i, IconsTyped
  <2> QED
    BY <1>5, <2>1
<1>9. CASE Fail(s)
  <2>1. icon' = [icon EXCEPT ![i] = [icon[i] EXCEPT !.done = TRUE,
                                                    !.surface = icon[i].surface]]
    <3>1. icon' = [icon EXCEPT ![i] = [icon[i] EXCEPT !.done = TRUE]]
      BY <1>9 DEF Fail, i
    <3>2. [icon[i] EXCEPT !.done = TRUE, !.surface = icon[i].surface]
            = [icon[i] EXCEPT !.done = TRUE]
      BY <1>6
    <3> QED
      BY <3>1, <3>2
  <2>2. i \in Missing
    BY <1>9 DEF Fail, i
  <2> QED
    BY <1>5, <1>6, <2>1, <2>2
<1> QED
  BY <1>3, <1>4, <1>7, <1>8, <1>9 DEF Loads, AskReload, TestReload, ArmReload, StoreReload

LEMMA LoadsKeepIcons ==
  ASSUME JobsTyped, IconIInv, NEW s \in Slots, Loads(s)
  PROVE  IconIInv'
<1> USE DEF IconIInv
<1>1. UNCHANGED <<queue, row, main>>
  BY DEF Loads, Publish, Finished, AskReload, Fail, TestReload, ArmReload, StoreReload
<1>2. IconsTyped' /\ MarksAdd' /\ MarksStay
  BY LoadsMark
<1>3. \/ \E place \in Places : Goto(s, place)
      \/ running' = [running EXCEPT ![s] = Idle]
  BY DEF Loads, Publish, Finished, AskReload, Fail, TestReload, ArmReload, StoreReload,
    EndJob, Places
<1>4. \A r \in Slots : running'[r].job \in {running[r].job, NoJob}
  BY <1>3, SlotMoves
<1>5. JobsKnown'
  BY <1>1, <1>2, <1>4, KnownStay
<1> QED
  BY <1>1, <1>2, <1>5, MarksKeep

(* Turning the page frees what was queued, and leaving does.                   *)
LEMMA LoopKeepsIcons ==
  ASSUME JobsTyped, IconIInv,
         ReloadIdle \/ ReloadDue \/ Leave \/ DestroyIcons \/ \E p \in Pages : TurnPage(p)
  PROVE  IconIInv'
<1> USE DEF IconIInv
<1>1. UNCHANGED running /\ (UNCHANGED queue \/ queue' = <<>>)
  BY DEF ReloadIdle, ReloadDue, Leave, DestroyIcons, TurnPage
<1>2. /\ main' = main \/ main'.at # "got"
      /\ \/ UNCHANGED row
         \/ main'.at # "got" /\ row' = [r \in Rows |-> [row[r] EXCEPT !.drawn = FALSE]]
  BY DEF ReloadIdle, ReloadDue, Leave, DestroyIcons, TurnPage
<1>3. UNCHANGED icon \/ icon' = Unstarted(LoadsOf(queue))
  BY DEF ReloadIdle, ReloadDue, Leave, DestroyIcons, TurnPage
<1>4. IconsTyped' /\ MarksAdd' /\ MarksStay
  <2>1. CASE UNCHANGED icon
    BY <2>1 DEF IconsTyped, MarksAdd, MarksStay
  <2>2. CASE icon' = Unstarted(LoadsOf(queue))
    <3> DEFINE names == LoadsOf(queue)
    <3> HIDE DEF names
    <3>1. icon' = [i \in Icons |-> IF i \in names THEN [icon[i] EXCEPT !.started = FALSE]
                                   ELSE icon[i]]
      BY <2>2 DEF Unstarted, names
    <3> QED
      BY <3>1, UnstartedMarks
  <2> QED
    BY <1>3, <2>1, <2>2
<1>5. JobsKnown'
  <2>1. \A k \in 1..Len(queue') : k \in 1..Len(queue) /\ queue'[k] = queue[k]
    BY <1>1, EmptySeq
  <2> QED
    BY <1>1, <1>4, <2>1, KnownStay
<1> QED
  BY <1>2, <1>4, <1>5, MarksKeep

LEMMA TakeKeepsIcons ==
  ASSUME JobsTyped, IconIInv, NEW n \in 1..Threads, Take(n)
  PROVE  IconIInv'
<1> USE DEF IconIInv
<1> DEFINE me == <<pool, n>>
           job == Head(queue)
<1>1. /\ UNCHANGED <<icon, row, main>> /\ queue # <<>> /\ queue' = Tail(queue)
      /\ running' = [running EXCEPT ![me] = [at |-> "start", job |-> job]]
  BY DEF Take
<1>2. /\ Len(queue) \in Nat \ {0} /\ job = queue[1] /\ Len(queue') = Len(queue) - 1
      /\ \A i \in 1..Len(queue') : queue'[i] = queue[i + 1]
  BY <1>1, EmptySeq, HeadTailProperties DEF JobsTyped
<1> HIDE DEF me, job
<1>3. JobsKnown'
  <2>1. ASSUME NEW i \in 1..Len(queue'), queue'[i].kind = "icon"
        PROVE  icon[queue'[i].name].known
    <3>1. i + 1 \in 1..Len(queue)
      BY <1>2
    <3> QED
      BY <1>2, <2>1, <3>1 DEF JobsKnown
  <2>2. ASSUME NEW s \in Slots, running'[s].job.kind = "icon"
        PROVE  icon[running'[s].job.name].known
    <3>1. CASE s = me
      <4>1. running'[s].job = job
        BY <1>1, <3>1 DEF JobsTyped
      <4>2. 1 \in 1..Len(queue)
        BY <1>2
      <4> QED
        BY <1>2, <2>2, <4>1, <4>2 DEF JobsKnown
    <3>2. CASE s # me
      <4>1. running'[s] = running[s]
        BY <1>1, <3>2 DEF JobsTyped
      <4> QED
        BY <2>2, <4>1 DEF JobsKnown
    <3> QED
      BY <3>1, <3>2
  <2> QED
    BY <1>1, <2>1, <2>2 DEF JobsKnown
<1>4. IconsTyped' /\ MarksAdd' /\ MarksStay
  BY <1>1 DEF IconsTyped, MarksAdd, MarksStay
<1> QED
  BY <1>1, <1>3, <1>4, MarksKeep

(* Filtering has jobs of its own. *)
LEMMA PartsKeepIcons ==
  ASSUME JobsTyped, IconIInv,
         EndFilter \/ (\E l \in Lists : StartFilter(l)) \/ \E s \in Slots : FilterPart(s)
  PROVE  IconIInv'
<1> USE DEF IconIInv
<1>1. UNCHANGED row /\ (main' = main \/ main'.at # "got")
  <2>1. CASE EndFilter
    BY <2>1 DEF EndFilter, Free
  <2>2. ASSUME NEW l \in Lists, StartFilter(l) PROVE UNCHANGED row /\ main'.at # "got"
    <3>1. main' = [at |-> "wait"] /\ UNCHANGED row
      BY <2>2 DEF StartFilter
    <3> QED
      BY <3>1
  <2>3. ASSUME NEW s \in Slots, FilterPart(s) PROVE UNCHANGED <<row, main>>
    BY <2>3 DEF FilterPart
  <2> QED
    BY <2>1, <2>2, <2>3
<1>2. CASE EndFilter
  <2>1. UNCHANGED <<icon, queue, running>>
    BY <1>2 DEF EndFilter
  <2>2. IconsTyped' /\ MarksAdd' /\ MarksStay /\ JobsKnown'
    BY <2>1 DEF IconsTyped, MarksAdd, MarksStay, JobsKnown
  <2> QED
    BY <1>1, <2>2, MarksKeep
<1>3. ASSUME NEW l \in Lists, StartFilter(l) PROVE IconIInv'
  <2> DEFINE m == Parts(l.rows) - 1
             js == PartJobs(l.rows)
  <2>1. UNCHANGED <<icon, running>> /\ queue' = js \o queue
    BY <1>3 DEF StartFilter
  <2>2. m \in Nat
    <3>1. l.rows \in Nat
      BY PoolAssumption
    <3> QED
      BY <3>1, PartsCover
  <2>3. js = [k \in 1..m |-> PartJob(k)]
    BY DEF PartJobs
  <2> HIDE DEF js, m
  <2>4. js \in [1..m -> Jobs] /\ \A k \in 1..m : js[k].kind = "part"
    BY <2>2, <2>3, JobsAre
  <2>5. js \in Seq(Jobs) /\ Len(js) = m
    BY <2>2, <2>4, FunctionIsSeq
  <2> DEFINE u == js \o queue
  <2>6. queue \in Seq(Jobs) /\ Len(queue) \in Nat
    BY LenProperties DEF JobsTyped
  <2>7. /\ Len(u) = Len(js) + Len(queue)
        /\ \A i \in 1..(Len(js) + Len(queue)) :
             u[i] = IF i <= Len(js) THEN js[i] ELSE queue[i - Len(js)]
    BY <2>5, <2>6, ConcatProperties
  <2>8. queue' = u
    BY <2>1
  <2> HIDE DEF u
  <2>9. ASSUME NEW k \in 1..Len(queue'), queue'[k].kind = "icon"
        PROVE  icon'[queue'[k].name].known
    <3>1. CASE k <= m
      <4>1. k \in 1..m /\ queue'[k] = js[k]
        BY <2>2, <2>5, <2>6, <2>7, <2>8, <3>1
      <4> QED
        BY <2>4, <2>9, <4>1
    <3>2. CASE ~(k <= m)
      <4>1. k - m \in 1..Len(queue) /\ queue'[k] = queue[k - m]
        BY <2>2, <2>5, <2>6, <2>7, <2>8, <3>2
      <4> QED
        BY <2>1, <2>9, <4>1 DEF JobsKnown
    <3> QED
      BY <3>1, <3>2
  <2>10. IconsTyped' /\ MarksAdd' /\ MarksStay
    BY <2>1 DEF IconsTyped, MarksAdd, MarksStay
  <2>11. JobsKnown'
    BY <2>1, <2>9 DEF JobsKnown
  <2> QED
    BY <1>1, <2>10, <2>11, MarksKeep
<1>4. ASSUME NEW s \in Slots, FilterPart(s) PROVE IconIInv'
  <2>1. UNCHANGED queue /\ running' = [running EXCEPT ![s] = Idle] /\ EndJob(s, icon)
    BY <1>4 DEF FilterPart, EndJob
  <2>2. IconsTyped' /\ MarksAdd' /\ MarksStay
    BY <2>1, JobEnds
  <2>3. \A r \in Slots : running'[r].job \in {running[r].job, NoJob}
    BY <2>1, SlotMoves
  <2>4. JobsKnown'
    BY <2>1, <2>2, <2>3, KnownStay
  <2> QED
    BY <1>1, <2>2, <2>4, MarksKeep
<1> QED
  BY <1>2, <1>3, <1>4

(* Asking for an icon: its entry is new, or as it was; its job is of a known   *)
(* icon.                                                                       *)
LEMMA QueryMarks ==
  ASSUME JobsTyped, IconsTyped, MarksAdd, JobsKnown, UNCHANGED running,
         NEW i \in Icons, Query(i)
  PROVE  IconsTyped' /\ MarksAdd' /\ MarksStay /\ JobsKnown'
<1> DEFINE e == [known |-> TRUE, started |-> TRUE, done |-> FALSE, surface |-> FALSE]
<1>1. e \in Marks /\ e.known /\ ~e.done /\ ~e.surface
  BY DEF Marks
<1>2. [Blank EXCEPT !.known = TRUE, !.started = TRUE] = e
  <2>1. Blank \in Marks /\ ~Blank.done /\ ~Blank.surface
    BY DEF Blank, Marks
  <2> DEFINE b == [Blank EXCEPT !.known = TRUE, !.started = TRUE]
  <2>2. b \in Marks /\ b.known /\ b.started /\ ~b.done /\ ~b.surface
    BY <2>1 DEF Marks
  <2>3. e \in Marks /\ e.known /\ e.started /\ ~e.done /\ ~e.surface
    BY DEF Marks
  <2> HIDE DEF b, e
  <2>4. \A x \in Marks : x = [known |-> x.known, started |-> x.started,
                             done |-> x.done, surface |-> x.surface]
                        /\ x.known \in BOOLEAN /\ x.started \in BOOLEAN
                        /\ x.done \in BOOLEAN /\ x.surface \in BOOLEAN
    BY DEF Marks
  <2>5. b = e
    BY <2>2, <2>3, <2>4, Zenon
  <2> QED
    BY <2>5 DEF b
<1> HIDE DEF e
<1>3. icon' = IF icon[i].known THEN icon ELSE [icon EXCEPT ![i] = e]
  <2>1. [icon EXCEPT ![i] = [Blank EXCEPT !.known = TRUE, !.started = TRUE]]
          = [icon EXCEPT ![i] = e]
    BY <1>2
  <2> QED
    BY <2>1 DEF Query
<1>4. /\ IconsTyped'
      /\ \A j \in Icons : \/ icon'[j] = icon[j]
                          \/ j = i /\ icon'[j] = e /\ ~icon[j].known
      /\ icon'[i].known
  <2>1. CASE icon[i].known
    BY <1>3, <2>1 DEF IconsTyped
  <2>2. CASE ~icon[i].known
    BY <1>1, <1>3, <2>2 DEF IconsTyped
  <2> QED
    BY <2>1, <2>2
<1>5. MarksAdd' /\ MarksStay
  BY <1>1, <1>4 DEF MarksAdd, MarksStay
<1>6. icon'[i].known
  BY <1>4
<1>7. \A j \in Jobs : j.kind = "icon" /\ icon[j.name].known => icon'[j.name].known
  BY <1>5, JobsAre DEF MarksStay
<1>8. ASSUME NEW k \in 1..Len(queue'), queue'[k].kind = "icon"
      PROVE  icon'[queue'[k].name].known
  <2>1. \/ k \in 1..Len(queue) /\ queue'[k] = queue[k]
        \/ queue'[k] = LoadJob(i)
    <3>1. CASE UNCHANGED queue
      BY <3>1
    <3>2. CASE queue' = Append(queue, LoadJob(i))
      <4>1. LoadJob(i) \in Jobs
        BY JobsAre
      <4>2. Len(queue) \in Nat
        BY LenProperties DEF JobsTyped
      <4> QED
        BY <3>2, <4>1, <4>2, AppendProperties DEF JobsTyped
    <3> QED
      BY <3>1, <3>2 DEF Query
  <2>2. CASE queue'[k] = LoadJob(i)
    BY <1>6, <2>2, JobsAre
  <2>3. CASE k \in 1..Len(queue) /\ queue'[k] = queue[k]
    <3>1. queue[k] \in Jobs
      BY <2>3, ElementOfSeq DEF JobsTyped
    <3> QED
      BY <1>7, <1>8, <2>3, <3>1 DEF JobsKnown
  <2> QED
    BY <2>1, <2>2, <2>3
<1>9. ASSUME NEW s \in Slots, running'[s].job.kind = "icon"
      PROVE  icon'[running'[s].job.name].known
  <2>1. running[s].job \in Jobs
    BY <1>9, JobsAre DEF JobsTyped
  <2> QED
    BY <1>7, <1>9, <2>1 DEF JobsKnown
<1> QED
  BY <1>4, <1>5, <1>8, <1>9 DEF JobsKnown

(* A row of fallbacks that was asked for has an icon to fall back on.          *)
LEMMA ChoiceIsIcon ==
  ASSUME RowsTyped, NEW r \in Rows, row[r].choice <= Len(Names[r])
  PROVE  Names[r][row[r].choice] \in Icons
<1>1. Names[r] \in Seq(Icons)
  BY PoolAssumption
<1>2. row[r].choice \in 1..Len(Names[r])
  BY <1>1, LenProperties DEF RowsTyped, Memories
<1> QED
  BY <1>1, <1>2, ElementOfSeq

LEMMA FirstIsIcon ==
  ASSUME NEW r \in Rows, Kind[r] # "fallback"
  PROVE  Names[r][1] \in Icons
<1>1. Names[r] \in Seq(Icons) /\ Names[r] # <<>>
  BY PoolAssumption
<1>2. 1 \in 1..Len(Names[r])
  BY <1>1, EmptySeq
<1> QED
  BY <1>1, <1>2, ElementOfSeq

(* Drawing passes an icon over only when its entry is done and bare: the flag  *)
(* that was read before the surface still stands.                              *)
LEMMA DrawsKeepIcons ==
  ASSUME JobsTyped, IconIInv, Draw
  PROVE  IconIInv'
<1> USE DEF IconIInv
<1>1. CASE StartDraw
  <2>1. /\ UNCHANGED <<icon, queue, running, row>>
        /\ main' = [at |-> "draw", rows |-> OnPage]
    BY <1>1 DEF StartDraw
  <2>2. main'.at # "got"
    BY <2>1
  <2>3. IconsTyped' /\ MarksAdd' /\ MarksStay /\ JobsKnown'
    BY <2>1 DEF IconsTyped, MarksAdd, MarksStay, JobsKnown
  <2> QED
    BY <2>1, <2>2, <2>3, MarksKeep
<1>2. ASSUME NEW r \in Rows, DrawRow(r) PROVE IconIInv'
  <2> DEFINE i == Names[r][1]
  <2>1. /\ UNCHANGED running /\ Kind[r] # "fallback"
        /\ Query(i) \/ UNCHANGED <<icon, queue>>
        /\ row' = [row EXCEPT ![r].asked = TRUE, ![r].drawn = icon[i].surface]
        /\ main'.at # "got"
    <3>1. main'.at # "got"
      BY <1>2 DEF DrawRow, DrawRows, Free
    <3> QED
      BY <1>2, <3>1 DEF DrawRow
  <2>2. i \in Icons
    BY <2>1, FirstIsIcon
  <2> HIDE DEF i
  <2>3. IconsTyped' /\ MarksAdd' /\ JobsKnown'
    <3>1. CASE UNCHANGED <<icon, queue>>
      BY <2>1, <3>1 DEF IconsTyped, MarksAdd, JobsKnown
    <3> QED
      BY <2>1, <2>2, <3>1, QueryMarks
  <2>4. icon[i].surface \in BOOLEAN
    BY <2>2 DEF IconsTyped, Marks
  <2>5. /\ RowsTyped' /\ \A q \in Rows : row'[q].choice = row[q].choice
        /\ \A q \in Rows : q # r => row'[q] = row[q]
    BY <2>1, <2>4 DEF RowsTyped, Memories
  <2>6. AskedHave' /\ OnlyMissingPassed' /\ FlagHolds'
    BY <2>1, <2>5 DEF AskedHave, OnlyMissingPassed, FlagHolds
  <2> QED
    BY <2>3, <2>5, <2>6
<1>3. ASSUME NEW r \in Rows, AskRow(r) PROVE IconIInv'
  <2>1. UNCHANGED running /\ main'.at # "got"
    BY <1>3 DEF AskRow, DrawRows, Free
  <2>2. CASE UNCHANGED <<icon, queue, row>>
    <3>1. IconsTyped' /\ MarksAdd' /\ MarksStay /\ JobsKnown'
      BY <2>1, <2>2 DEF IconsTyped, MarksAdd, MarksStay, JobsKnown
    <3> QED
      BY <2>1, <2>2, <3>1, MarksKeep
  <2>3. CASE /\ row[r].choice <= Len(Names[r])
             /\ Query(Names[r][row[r].choice])
             /\ row' = [row EXCEPT ![r].asked = TRUE, ![r].drawn = FALSE]
    <3>1. Names[r][row[r].choice] \in Icons
      BY <2>3, ChoiceIsIcon
    <3>2. IconsTyped' /\ MarksAdd' /\ JobsKnown'
      BY <2>1, <2>3, <3>1, QueryMarks
    <3>3. /\ RowsTyped' /\ \A q \in Rows : row'[q].choice = row[q].choice
          /\ \A q \in Rows : q # r => row'[q] = row[q]
      BY <2>3 DEF RowsTyped, Memories
    <3>4. AskedHave'
      BY <2>3, <3>3 DEF AskedHave
    <3>5. OnlyMissingPassed' /\ FlagHolds'
      BY <2>1, <3>3 DEF OnlyMissingPassed, FlagHolds
    <3> QED
      BY <3>2, <3>3, <3>4, <3>5
  <2> QED
    BY <1>3, <2>2, <2>3 DEF AskRow
<1>4. ASSUME NEW r \in Rows, ReadFlag(r) PROVE IconIInv'
  <2> DEFINE f == icon[Names[r][row[r].choice]].done
  <2>1. /\ UNCHANGED <<icon, queue, running, row>> /\ Kind[r] = "fallback" /\ row[r].asked
        /\ main' = [at |-> "got", rows |-> main.rows, row |-> r, flag |-> f]
    BY <1>4 DEF ReadFlag
  <2> HIDE DEF f
  <2>2. main'.row = r /\ main'.flag = f
    BY <2>1
  <2>3. FlagHolds'
    BY <2>1, <2>2 DEF FlagHolds, f
  <2> QED
    BY <2>1, <2>3 DEF RowsTyped, IconsTyped, MarksAdd, JobsKnown, AskedHave,
      OnlyMissingPassed
<1>5. CASE ReadSurface
  <2> DEFINE r == main.row
             i == Names[r][row[r].choice]
             s == icon[i].surface
  <2>1. /\ r \in Rows /\ Kind[r] = "fallback" /\ row[r].asked
        /\ main.flag => icon[i].done
    BY <1>5 DEF ReadSurface, FlagHolds
  <2>2. /\ UNCHANGED <<icon, queue, running>>
        /\ \/ /\ ~s /\ main.flag
              /\ row' = [row EXCEPT ![r].choice = @ + 1, ![r].asked = FALSE,
                                    ![r].drawn = FALSE]
              /\ main' = [at |-> "draw", rows |-> main.rows]
           \/ row' = [row EXCEPT ![r].drawn = s] /\ DrawRows(r)
    BY <1>5 DEF ReadSurface
  <2>3. i \in Icons
    <3>1. row[r].choice <= Len(Names[r])
      BY <2>1 DEF AskedHave
    <3> HIDE DEF r
    <3> QED
      BY <2>1, <3>1, ChoiceIsIcon
  <2>4. s \in BOOLEAN
    BY <2>3 DEF IconsTyped, Marks
  <2>5. ~s /\ main.flag => i \in Missing
    BY <2>1, <2>3 DEF MarksAdd
  <2>6. main'.at # "got"
    BY <2>2 DEF DrawRows, Free
  <2>7. IconsTyped' /\ MarksAdd' /\ JobsKnown'
    BY <2>2 DEF IconsTyped, MarksAdd, JobsKnown
  <2>8. CASE /\ ~s /\ main.flag
             /\ row' = [row EXCEPT ![r].choice = @ + 1, ![r].asked = FALSE,
                                   ![r].drawn = FALSE]
    <3>1. row[r].choice \in Nat \ {0}
      BY <2>1 DEF RowsTyped, Memories
    <3>2. i \in Missing
      BY <2>5, <2>8
    <3> DEFINE c == row[r].choice
    <3>3. Names[r][c] \in Missing
      BY <3>2
    <3> HIDE DEF r, i, s
    <3>4. /\ RowsTyped' /\ row'[r].choice = c + 1 /\ ~row'[r].asked
          /\ \A q \in Rows : q # r => row'[q] = row[q]
      BY <2>1, <2>8, <3>1 DEF RowsTyped, Memories
    <3>5. AskedHave' /\ FlagHolds'
      BY <2>6, <3>4 DEF AskedHave, FlagHolds
    <3>6. ASSUME NEW q \in Rows, NEW k \in 1..(row'[q].choice - 1) PROVE Names[q][k] \in Missing
      <4>1. CASE q # r
        BY <3>4, <3>6, <4>1 DEF OnlyMissingPassed
      <4>2. CASE q = r
        <5>1. k = c \/ k \in 1..(c - 1)
          BY <3>1, <3>4, <3>6, <4>2
        <5> QED
          BY <2>1, <3>3, <4>2, <5>1 DEF OnlyMissingPassed
      <4> QED
        BY <4>1, <4>2
    <3>7. OnlyMissingPassed'
      BY <3>6 DEF OnlyMissingPassed
    <3> QED
      BY <2>7, <3>4, <3>5, <3>7
  <2>9. CASE row' = [row EXCEPT ![r].drawn = s]
    <3> HIDE DEF r, s
    <3>1. /\ RowsTyped' /\ \A q \in Rows : row'[q].choice = row[q].choice
                                       /\ row'[q].asked = row[q].asked
      BY <2>1, <2>4, <2>9 DEF RowsTyped, Memories
    <3>2. AskedHave' /\ OnlyMissingPassed' /\ FlagHolds'
      BY <2>6, <3>1 DEF AskedHave, OnlyMissingPassed, FlagHolds
    <3> QED
      BY <2>7, <3>1, <3>2
  <2> QED
    BY <2>2, <2>8, <2>9
<1> QED
  BY <1>1, <1>2, <1>3, <1>4, <1>5 DEF Draw

LEMMA IconsStart == PoolInit(TRUE) => IconIInv
<1> SUFFICES ASSUME PoolInit(TRUE) PROVE IconIInv
  OBVIOUS
<1> DEFINE m == [asked |-> FALSE, choice |-> 1, drawn |-> FALSE]
<1>1. m \in Memories /\ ~m.asked /\ m.choice = 1 /\ 1..(1 - 1) = {}
  BY DEF Memories
<1>2. Blank \in Marks /\ ~Blank.done /\ ~Blank.surface
  BY DEF Blank, Marks
<1>3. row = [r \in Rows |-> m]
  BY DEF PoolInit
<1> HIDE DEF m
<1>4. icon = [i \in Icons |-> Blank] /\ queue = <<>> /\ running = [s \in Slots |-> Idle]
      /\ main.at # "got"
  BY DEF PoolInit, Free
<1>5. Len(queue) = 0 /\ \A s \in Slots : running[s].job.kind = "none"
  BY <1>4, EmptySeq, JobsAre DEF Idle
<1>6. RowsTyped /\ AskedHave /\ OnlyMissingPassed
  BY <1>1, <1>3 DEF RowsTyped, AskedHave, OnlyMissingPassed
<1>7. IconsTyped /\ MarksAdd /\ JobsKnown /\ FlagHolds
  BY <1>2, <1>4, <1>5 DEF IconsTyped, MarksAdd, JobsKnown, FlagHolds
<1> QED
  BY <1>6, <1>7 DEF IconIInv
--------------------------------------------------------------------------------
PoolIInv == FilterIInv /\ IconIInv

LEMMA PoolSteps == PoolIInv /\ [PoolNext]_poolVars => PoolIInv'
<1> SUFFICES ASSUME PoolIInv, [PoolNext]_poolVars PROVE PoolIInv'
  OBVIOUS
<1>1. FilterIInv /\ JobsTyped /\ IconIInv /\ RowsTyped
  BY DEF PoolIInv, FilterIInv, IconIInv
<1>2. CASE Draw
  BY <1>1, <1>2, DrawsKeepParts, DrawsKeepIcons DEF PoolIInv
<1>3. CASE ReloadIdle \/ ReloadDue \/ Leave \/ DestroyIcons \/ \E p \in Pages : TurnPage(p)
  BY <1>1, <1>3, LoopKeepsParts, LoopKeepsIcons DEF PoolIInv
<1>4. ASSUME NEW n \in 1..Threads, Take(n) PROVE PoolIInv'
  BY <1>1, <1>4, TakeKeepsParts, TakeKeepsIcons DEF PoolIInv
<1>5. ASSUME NEW s \in Slots, Loads(s) PROVE PoolIInv'
  BY <1>1, <1>5, LoadsKeepParts, LoadsKeepIcons DEF PoolIInv
<1>6. ASSUME NEW s \in Slots, FilterPart(s) PROVE PoolIInv'
  BY <1>1, <1>6, FoundKeepsParts, PartsKeepIcons DEF PoolIInv
<1>7. ASSUME NEW l \in Lists, StartFilter(l) PROVE PoolIInv'
  BY <1>1, <1>7, StartKeepsParts, PartsKeepIcons DEF PoolIInv
<1>8. CASE EndFilter
  BY <1>1, <1>8, EndKeepsParts, PartsKeepIcons DEF PoolIInv
<1>9. CASE UNCHANGED poolVars
  <2>1. UNCHANGED <<pool, queue, running, icon, row, main, filter>>
    BY <1>9 DEF poolVars
  <2>2. FilterIInv'
    BY <1>1, <2>1 DEF FilterIInv, JobsTyped, FilterForm, Searching, PartsOwed, PartsOnce,
      Owed, IsPart, FilterExact
  <2>3. IconIInv'
    BY <1>1, <2>1 DEF IconIInv, RowsTyped, IconsTyped, MarksAdd, JobsKnown, AskedHave,
      FlagHolds, OnlyMissingPassed
  <2> QED
    BY <2>2, <2>3 DEF PoolIInv
<1> QED
  BY <1>2, <1>3, <1>4, <1>5, <1>6, <1>7, <1>8, <1>9 DEF PoolNext, Thread, Loads

(* A list that was filtered by several threads holds the rows that match, each *)
(* once and in order, for every number of threads, rows and parts (FilterExact,*)
(* view.c: sofi_view_refilter_real()).                                         *)
THEOREM FilteredExactly == PoolSpec => []FilterExact
<1>1. PoolInit(TRUE) => PoolIInv
  BY PartsStart, IconsStart DEF PoolIInv
<1>2. PoolIInv => FilterExact
  BY DEF PoolIInv, FilterIInv
<1> QED
  BY <1>1, <1>2, PoolSteps, PTL DEF PoolSpec

(* The main thread reads an icon's flag and its surface without a lock, and    *)
(* still passes over only icons that cannot be loaded, for every number of     *)
(* threads, rows and icons (OnlyMissingPassed, the safety part of IconsShown;  *)
(* sofi-icon-fetcher.c: sofi_icon_fetcher_get_ex(), sofi_icon_fetcher_worker()).*)
THEOREM FallbacksJustified == PoolSpec => []OnlyMissingPassed
<1>1. PoolInit(TRUE) => PoolIInv
  BY PartsStart, IconsStart DEF PoolIInv
<1>2. PoolIInv => OnlyMissingPassed
  BY DEF PoolIInv, IconIInv
<1> QED
  BY <1>1, <1>2, PoolSteps, PTL DEF PoolSpec
--------------------------------------------------------------------------------
(* The reader.                                                                  *)

ReaderSpec == ReaderInit(TRUE) /\ [][ReaderNext]_readerVars

Bytes == ToSet(Input)
Texts == Seq(Bytes)
InputEnd == Len(Input)

(* The input cut into rows, letter by letter: what RowsOf() goes through.      *)
Pieces == [whole : Seq(Texts), rest : Texts]
Uncut == [whole |-> <<>>, rest |-> <<>>]
CutBy(c, x) ==
  IF x = Separator THEN [whole |-> Append(c.whole, c.rest), rest |-> <<>>]
  ELSE [whole |-> c.whole, rest |-> Append(c.rest, x)]
Cuts ==
  CHOOSE cut : cut =
    [i \in 0..Len(Input) |->
       IF i = 0 THEN [whole |-> <<>>, rest |-> <<>>]
       ELSE IF Input[i] = Separator
            THEN [whole |-> Append(cut[i - 1].whole, cut[i - 1].rest), rest |-> <<>>]
            ELSE [whole |-> cut[i - 1].whole, rest |-> Append(cut[i - 1].rest, Input[i])]]

LEMMA InputIs ==
  /\ Input \in Seq(Bytes) /\ InputEnd \in Nat /\ InputEnd = Len(Input)
  /\ \A i \in 1..InputEnd : Input[i] \in Bytes
BY ReaderAssumption, LenProperties, ElementOfSeq DEF Bytes, InputEnd

LEMMA CutByTyped ==
  ASSUME NEW c \in Pieces, NEW x \in Bytes
  PROVE  /\ CutBy(c, x) \in Pieces
         /\ x = Separator => /\ CutBy(c, x).whole = Append(c.whole, c.rest)
                             /\ CutBy(c, x).rest = <<>>
         /\ x # Separator => /\ CutBy(c, x).whole = c.whole
                             /\ CutBy(c, x).rest = Append(c.rest, x)
<1>1. c.whole \in Seq(Texts) /\ c.rest \in Texts
  BY DEF Pieces
<1>2. Append(c.whole, c.rest) \in Seq(Texts)
  BY <1>1, AppendProperties
<1>3. Append(c.rest, x) \in Texts /\ <<>> \in Texts
  BY <1>1, AppendProperties, EmptySeq DEF Texts
<1> QED
  BY <1>1, <1>2, <1>3 DEF CutBy, Pieces

LEMMA CutsAre ==
  /\ \A i \in 0..InputEnd : Cuts[i] \in Pieces
  /\ Cuts[0].whole = <<>> /\ Cuts[0].rest = <<>>
  /\ \A i \in 1..InputEnd : Cuts[i] = CutBy(Cuts[i - 1], Input[i])
<1> DEFINE n == InputEnd
           G == [p \in (1..n) \X Pieces |-> CutBy(p[2], Input[p[1]])]
<1>1. n \in Nat /\ n = Len(Input) /\ \A i \in 1..n : Input[i] \in Bytes
  BY InputIs
<1>2. Uncut \in Pieces /\ Uncut.whole = <<>> /\ Uncut.rest = <<>>
  BY EmptySeq DEF Uncut, Pieces, Texts
<1>3. G \in [(1..n) \X Pieces -> Pieces]
  <2>1. \A p \in (1..n) \X Pieces : CutBy(p[2], Input[p[1]]) \in Pieces
    <3> SUFFICES ASSUME NEW i \in 1..n, NEW c \in Pieces PROVE CutBy(c, Input[i]) \in Pieces
      OBVIOUS
    <3> QED
      BY <1>1, CutByTyped
  <2> QED
    BY <2>1
<1>4. \A i \in 1..n, c \in Pieces : G[<<i, c>>] = CutBy(c, Input[i])
  OBVIOUS
<1> HIDE DEF G, n
<1>5. PICK g \in [0..n -> Pieces] : Follows(g, Uncut, n, G)
  BY <1>1, <1>2, <1>3, Recursion
<1>6. g[0] = Uncut /\ \A i \in 1..n : g[i] = CutBy(g[i - 1], Input[i])
  <2>1. \A i \in 1..n : i - 1 \in 0..n
    BY <1>1
  <2> QED
    BY <1>4, <1>5, <2>1 DEF Follows
<1> DEFINE Is(cut) ==
             cut = [i \in 0..Len(Input) |->
                      IF i = 0 THEN [whole |-> <<>>, rest |-> <<>>]
                      ELSE IF Input[i] = Separator
                           THEN [whole |-> Append(cut[i - 1].whole, cut[i - 1].rest),
                                 rest |-> <<>>]
                           ELSE [whole |-> cut[i - 1].whole,
                                 rest |-> Append(cut[i - 1].rest, Input[i])]]
<1>7. Is(g)
  <2>1. \A i \in 0..n : g[i] = IF i = 0 THEN Uncut ELSE CutBy(g[i - 1], Input[i])
    BY <1>1, <1>6
  <2>2. g = [i \in 0..n |-> IF i = 0 THEN Uncut ELSE CutBy(g[i - 1], Input[i])]
    BY <1>5, <2>1
  <2> QED
    BY <1>1, <2>2 DEF Uncut, CutBy
<1>8. Is(Cuts)
  BY <1>7 DEF Cuts
<1> DEFINE f == Cuts
<1>9. f = [i \in 0..n |-> IF i = 0 THEN Uncut ELSE CutBy(f[i - 1], Input[i])]
  BY <1>1, <1>8 DEF Uncut, CutBy
<1> HIDE DEF f, Is
<1>10. f[0] = Uncut /\ \A i \in 1..n : f[i] = CutBy(f[i - 1], Input[i])
  <2>1. 0 \in 0..n /\ \A i \in 1..n : i \in 0..n /\ i # 0
    BY <1>1
  <2>2. \A i \in 0..n : f[i] = IF i = 0 THEN Uncut ELSE CutBy(f[i - 1], Input[i])
    BY <1>9, Zenon
  <2> QED
    BY <2>1, <2>2
<1>11. \A i \in 0..n : f[i] = g[i]
  <2> DEFINE M == {k \in 0..n : f[k] = g[k]}
  <2>1. M \in SUBSET Nat /\ 0 \in M
    BY <1>1, <1>6, <1>10
  <2>2. ASSUME NEW k \in M, k < n PROVE k + 1 \in M
    <3>1. k + 1 \in 1..n /\ k + 1 - 1 = k /\ f[k] = g[k] /\ k + 1 \in 0..n
      BY <1>1, <2>2
    <3> DEFINE i == k + 1
    <3>2. i \in 1..n /\ i - 1 = k
      BY <3>1
    <3> HIDE DEF i
    <3>3. f[i] = CutBy(f[i - 1], Input[i]) /\ g[i] = CutBy(g[i - 1], Input[i])
      BY <1>6, <1>10, <3>2
    <3>4. f[i] = g[i]
      BY <3>1, <3>2, <3>3
    <3> QED
      BY <3>1, <3>4 DEF i
  <2>3. 0..n \subseteq M
    <3> HIDE DEF M
    <3> QED
      BY <1>1, <2>1, <2>2, UpTo
  <2> QED
    BY <2>3
<1> QED
  BY <1>2, <1>5, <1>10, <1>11 DEF f, n

LEMMA RowsOfInput ==
  /\ RowsOf(Input, FALSE) = Cuts[InputEnd].whole
  /\ RowsOf(Input, TRUE) = IF Cuts[InputEnd].rest # <<>>
                           THEN Append(Cuts[InputEnd].whole, Cuts[InputEnd].rest)
                           ELSE Cuts[InputEnd].whole
BY DEF RowsOf, Cuts, InputEnd

LEMMA CutAt ==
  ASSUME NEW i \in 1..InputEnd
  PROVE  /\ Input[i] = Separator => /\ Cuts[i].whole = Append(Cuts[i - 1].whole, Cuts[i - 1].rest)
                                    /\ Cuts[i].rest = <<>>
         /\ Input[i] # Separator => /\ Cuts[i].whole = Cuts[i - 1].whole
                                    /\ Cuts[i].rest = Append(Cuts[i - 1].rest, Input[i])
<1>1. i - 1 \in 0..InputEnd
  BY InputIs
<1>2. Cuts[i] = CutBy(Cuts[i - 1], Input[i]) /\ Cuts[i - 1] \in Pieces /\ Input[i] \in Bytes
  BY <1>1, CutsAre, InputIs
<1> QED
  BY <1>2, CutByTyped

LEMMA CutTyped ==
  ASSUME NEW i \in 0..InputEnd
  PROVE  Cuts[i].whole \in Seq(Texts) /\ Cuts[i].rest \in Texts
BY CutsAre DEF Pieces

(* Letters after a cut are the rest, as long as none is a separator.           *)
LEMMA StretchOf ==
  ASSUME NEW k \in 0..InputEnd, NEW j \in k..InputEnd, Cuts[k].rest = <<>>,
         \A i \in (k + 1)..j : Input[i] # Separator
  PROVE  Cuts[j].whole = Cuts[k].whole /\ Cuts[j].rest = SubSeq(Input, k + 1, j)
<1> DEFINE w == Cuts[k].whole
           Right(i) == Cuts[i].whole = w /\ Cuts[i].rest = SubSeq(Input, k + 1, i)
           M == {m \in 0..(j - k) : Right(k + m)}
<1>1. /\ InputEnd \in Nat /\ k \in Nat /\ j \in Nat /\ j - k \in Nat
      /\ k <= j /\ j <= InputEnd /\ InputEnd = Len(Input)
  BY InputIs
<1>2. M \in SUBSET Nat /\ 0 \in M
  <2>1. SubSeq(Input, k + 1, k) = <<>>
    BY <1>1, SubSeqEmpty
  <2>2. Right(k)
    BY <2>1
  <2> HIDE DEF Right
  <2>3. k + 0 = k /\ 0 \in 0..(j - k)
    BY <1>1
  <2> QED
    BY <2>2, <2>3
<1>3. ASSUME NEW i \in (k + 1)..j, Right(i - 1) PROVE Right(i)
  <2>1. i \in 1..InputEnd /\ i - 1 \in 0..InputEnd
    BY <1>1
  <2>2. Cuts[i].whole = w /\ Cuts[i].rest = Append(SubSeq(Input, k + 1, i - 1), Input[i])
    BY <1>3, <2>1, CutAt
  <2>3. SubSeq(Input, k + 1, i) = SubSeq(Input, k + 1, i - 1) \o <<Input[i]>>
    <3>1. k + 1 \in 1..Len(Input) /\ i \in (k + 1)..Len(Input)
      BY <1>1, <2>1
    <3> QED
      BY <3>1, InputIs, SubSeqRecursiveSecond
  <2>4. SubSeq(Input, k + 1, i - 1) \in Seq(Bytes) /\ Input[i] \in Bytes
    <3>1. Cuts[i - 1].rest \in Texts
      BY <2>1, CutTyped
    <3> QED
      BY <1>3, <2>1, <3>1, InputIs DEF Texts
  <2>5. Append(SubSeq(Input, k + 1, i - 1), Input[i]) = SubSeq(Input, k + 1, i - 1) \o <<Input[i]>>
    BY <2>4, AppendIsConcat
  <2> QED
    BY <2>2, <2>3, <2>5
<1> HIDE DEF Right
<1>4. ASSUME NEW m \in M, m < j - k PROVE m + 1 \in M
  <2>1. PICK i \in (k + 1)..j : i = k + (m + 1)
    BY <1>1, <1>4
  <2>2. i - 1 = k + m /\ m + 1 \in 0..(j - k)
    BY <1>1, <1>4, <2>1
  <2>3. Right(i)
    BY <1>3, <1>4, <2>2
  <2> QED
    BY <2>1, <2>2, <2>3
<1>5. 0..(j - k) \subseteq M
  <2> HIDE DEF M
  <2> DEFINE n == j - k
  <2>1. n \in Nat /\ \A m \in M : m < n => m + 1 \in M
    BY <1>1, <1>4
  <2> HIDE DEF n
  <2>2. 0..n \subseteq M
    BY <1>2, <2>1, UpTo
  <2> QED
    BY <2>2 DEF n
<1>6. j - k \in M /\ k + (j - k) = j
  BY <1>1, <1>5
<1>7. Right(j)
  BY <1>6
<1> QED
  BY <1>7 DEF Right

(* One sequence starts with another. *)
Begins(s, t) == Len(s) <= Len(t) /\ \A i \in 1..Len(s) : t[i] = s[i]

LEMMA BeginsBoth ==
  ASSUME NEW T, NEW s \in Seq(T), NEW t \in Seq(T), NEW u \in Seq(T),
         Begins(s, t), Begins(t, u)
  PROVE  Begins(s, u)
<1>1. Len(s) \in Nat /\ Len(t) \in Nat /\ Len(u) \in Nat
  BY LenProperties
<1>2. \A i \in 1..Len(s) : i \in 1..Len(t)
  BY <1>1 DEF Begins
<1> QED
  BY <1>1, <1>2 DEF Begins

LEMMA BeginsJoined ==
  ASSUME NEW T, NEW s \in Seq(T), NEW t \in Seq(T)
  PROVE  Begins(s, s \o t)
<1>1. Len(s) \in Nat /\ Len(t) \in Nat
  BY LenProperties
<1>2. Len(s \o t) = Len(s) + Len(t) /\ \A i \in 1..Len(s) : (s \o t)[i] = s[i]
  BY <1>1, ConcatProperties
<1> QED
  BY <1>1, <1>2 DEF Begins

LEMMA BeginsAppended ==
  ASSUME NEW T, NEW s \in Seq(T), NEW x \in T
  PROVE  Begins(s, Append(s, x))
<1>1. Len(s) \in Nat
  BY LenProperties
<1> QED
  BY <1>1, AppendProperties DEF Begins

LEMMA BeginsIsPrefix ==
  ASSUME NEW T, NEW s \in Seq(T), NEW t \in Seq(T), Begins(s, t)
  PROVE  IsPrefix(s, t)
<1>1. Len(s) \in Nat /\ Len(t) \in Nat /\ Len(s) <= Len(t)
  BY LenProperties DEF Begins
<1>2. SubSeq(s, 1, Len(s)) = s
  BY SubSeqFull
<1> DEFINE h == SubSeq(t, 1, Len(s))
<1>3. \A i \in 1..Len(s) : t[i] \in T
  BY <1>1, ElementOfSeq
<1>4. h \in Seq(T) /\ Len(h) = Len(s) /\ \A i \in 1..Len(s) : h[i] = t[i]
  <2> DEFINE l == Len(s)
  <2>1. 1 \in Int /\ l \in Int /\ \A i \in 1..l : t[i] \in T
    BY <1>1, <1>3
  <2>2. /\ h \in Seq(T) /\ Len(h) = (IF 1 <= l THEN l - 1 + 1 ELSE 0)
        /\ \A i \in 1..(l - 1 + 1) : h[i] = t[1 + i - 1]
    <3> HIDE DEF l
    <3>1. /\ SubSeq(t, 1, l) \in Seq(T)
          /\ Len(SubSeq(t, 1, l)) = (IF 1 <= l THEN l - 1 + 1 ELSE 0)
          /\ \A i \in 1..(l - 1 + 1) : SubSeq(t, 1, l)[i] = t[1 + i - 1]
      BY <2>1, SubSeqProperties
    <3> QED
      BY <3>1 DEF l
  <2> HIDE DEF h
  <2>3. \A i \in 1..l : i \in 1..(l - 1 + 1) /\ 1 + i - 1 = i
    BY <1>1
  <2> QED
    BY <1>1, <2>2, <2>3
<1> HIDE DEF h
<1>5. h = s
  BY <1>4, SeqEqual DEF Begins
<1> QED
  BY <1>1, <1>2, <1>5 DEF IsPrefix, h

(* Whole rows stay whole rows. *)
LEMMA WholeGrows ==
  ASSUME NEW k \in 0..InputEnd
  PROVE  Begins(Cuts[k].whole, Cuts[InputEnd].whole)
<1> DEFINE n == InputEnd - k
           w == Cuts[k].whole
           M == {m \in 0..n : Begins(w, Cuts[k + m].whole)}
<1>1. InputEnd \in Nat /\ k \in Nat /\ n \in Nat /\ k + n = InputEnd
  BY InputIs
<1>2. w \in Seq(Texts)
  BY CutTyped
<1> HIDE DEF w
<1>3. M \in SUBSET Nat /\ 0 \in M
  <2>1. Begins(w, w) /\ k + 0 = k
    BY <1>1, <1>2, LenProperties DEF Begins
  <2> QED
    BY <1>1, <2>1 DEF w
<1>4. ASSUME NEW m \in M, m < n PROVE m + 1 \in M
  <2>1. PICK i \in 1..InputEnd : i = k + (m + 1)
    BY <1>1, <1>4
  <2>2. i - 1 = k + m /\ m + 1 \in 0..n /\ i - 1 \in 0..InputEnd /\ i \in 0..InputEnd
    BY <1>1, <1>4, <2>1
  <2> DEFINE a == Cuts[i - 1].whole
             b == Cuts[i].whole
  <2>3. a \in Seq(Texts) /\ b \in Seq(Texts) /\ Cuts[i - 1].rest \in Texts
    BY <2>2, CutTyped
  <2>4. b = a \/ b = Append(a, Cuts[i - 1].rest)
    BY CutAt
  <2>5. Begins(w, a)
    BY <1>4, <2>2
  <2> HIDE DEF a, b
  <2>6. Begins(w, b)
    <3>1. CASE b = a
      BY <2>5, <3>1
    <3>2. CASE b = Append(a, Cuts[i - 1].rest)
      <4>1. Begins(a, b)
        BY <2>3, <3>2, BeginsAppended
      <4> QED
        BY <1>2, <2>3, <2>5, <4>1, BeginsBoth
    <3> QED
      BY <2>4, <3>1, <3>2
  <2> QED
    BY <2>1, <2>2, <2>6 DEF b
<1>5. 0..n \subseteq M
  <2> HIDE DEF M, n
  <2> QED
    BY <1>1, <1>3, <1>4, UpTo
<1>6. n \in M
  BY <1>1, <1>5
<1> QED
  BY <1>1, <1>6 DEF w

(* At the end of the input the rest becomes a row, if there is one.            *)
LEMMA RowsEnd ==
  ASSUME NEW e \in BOOLEAN
  PROVE  RowsOf(Input, e) \in Seq(Texts) /\ Begins(Cuts[InputEnd].whole, RowsOf(Input, e))
<1> DEFINE w == Cuts[InputEnd].whole
           r == Cuts[InputEnd].rest
<1>1. InputEnd \in 0..InputEnd
  BY InputIs
<1>2. w \in Seq(Texts) /\ r \in Texts
  BY <1>1, CutTyped
<1>3. RowsOf(Input, e) = w \/ RowsOf(Input, e) = Append(w, r)
  BY RowsOfInput
<1> HIDE DEF w, r
<1>4. Begins(w, w) /\ Begins(w, Append(w, r)) /\ Append(w, r) \in Seq(Texts)
  <2>1. Begins(w, w)
    BY <1>2, LenProperties DEF Begins
  <2> QED
    BY <1>2, <2>1, BeginsAppended, AppendProperties
<1> QED
  BY <1>2, <1>3, <1>4 DEF w

--------------------------------------------------------------------------------
(* The strengthening of RowsArePrefix: until the thread ends, what the list,   *)
(* the queued blocks and the block being filled hold, one after the other, are *)
(* the rows of the input up to a cut, and what is held back is the input from  *)
(* there up to where the thread has read.                                      *)
Handed == rows \o FlattenSeq(blocks)

ReaderTyped ==
  /\ sent \in 0..InputEnd /\ taken \in 0..sent
  /\ closed \in BOOLEAN /\ (closed => sent = InputEnd)
  /\ rows \in Seq(Texts) /\ block \in Seq(Texts) /\ blocks \in Seq(Seq(Texts))

AtCut(k) ==
  /\ Cuts[k].rest = <<>> /\ Handed \o block = Cuts[k].whole
  /\ partial = SubSeq(Input, k + 1, taken)
  /\ thread = "select" => \A i \in (k + 1)..taken : Input[i] # Separator

UpToACut == ~Stopped => \E k \in 0..taken : AtCut(k)
HandedOver == Stopped => Begins(Handed, RowsOf(Input, closed))

ReaderIInv == ReaderTyped /\ UpToACut /\ HandedOver

LEMMA HandedTyped ==
  ASSUME ReaderTyped
  PROVE  FlattenSeq(blocks) \in Seq(Texts) /\ Handed \in Seq(Texts)
         /\ Handed \o block \in Seq(Texts)
<1>1. <<>> \in Seq(Texts)
  BY EmptySeq
<1>2. FlattenSeq(blocks) \in Seq(Texts)
  BY <1>1, FlattenAppend DEF ReaderTyped
<1>3. Handed \in Seq(Texts)
  BY <1>2, ConcatProperties DEF ReaderTyped, Handed
<1> QED
  BY <1>2, <1>3, ConcatProperties DEF ReaderTyped

LEMMA HandedBegins ==
  ASSUME ReaderIInv
  PROVE  Begins(Handed, RowsOf(Input, closed))
<1>1. closed \in BOOLEAN
  BY DEF ReaderIInv, ReaderTyped
<1>2. CASE Stopped
  BY <1>2 DEF ReaderIInv, HandedOver, Stopped
<1>3. CASE ~Stopped
  <2>1. PICK k \in 0..taken : AtCut(k)
    BY <1>3 DEF ReaderIInv, UpToACut, Stopped
  <2>2. k \in 0..InputEnd /\ InputEnd \in 0..InputEnd
    BY InputIs DEF ReaderIInv, ReaderTyped
  <2> DEFINE a == Cuts[k].whole
             b == Cuts[InputEnd].whole
             r == RowsOf(Input, closed)
  <2>3. a \in Seq(Texts) /\ b \in Seq(Texts) /\ Begins(a, b)
    BY <2>2, CutTyped, WholeGrows
  <2>4. r \in Seq(Texts) /\ Begins(b, r)
    BY <1>1, RowsEnd
  <2>5. Handed \in Seq(Texts) /\ block \in Seq(Texts) /\ Handed \o block = a
    BY <2>1, HandedTyped DEF ReaderIInv, ReaderTyped, AtCut
  <2> HIDE DEF a, b, r
  <2>6. Begins(Handed, a)
    BY <2>5, BeginsJoined
  <2>7. Begins(Handed, b)
    BY <2>3, <2>5, <2>6, BeginsBoth
  <2> QED
    BY <2>3, <2>4, <2>5, <2>7, BeginsBoth DEF r
<1> QED
  BY <1>2, <1>3

LEMMA ReaderEnough == ReaderIInv => RowsArePrefix
<1> SUFFICES ASSUME ReaderIInv PROVE RowsArePrefix
  OBVIOUS
<1> DEFINE r == RowsOf(Input, closed)
<1>1. r \in Seq(Texts)
  BY RowsEnd DEF ReaderIInv, ReaderTyped
<1>2. /\ rows \in Seq(Texts) /\ Handed \in Seq(Texts) /\ Begins(Handed, r)
      /\ Begins(rows, Handed)
  BY HandedBegins, HandedTyped, BeginsJoined DEF ReaderIInv, ReaderTyped, Handed
<1> HIDE DEF r
<1>3. Begins(rows, r)
  BY <1>1, <1>2, BeginsBoth
<1>4. IsPrefix(rows, r)
  BY <1>1, <1>2, <1>3, BeginsIsPrefix
<1> QED
  BY <1>4 DEF r, RowsArePrefix

(* A block that is queued, if it has rows, joins what was handed over.         *)
LEMMA QueuedBlock ==
  ASSUME ReaderTyped, NEW b \in Seq(Texts), UNCHANGED rows,
         blocks' = IF b = <<>> THEN blocks ELSE Append(blocks, b)
  PROVE  blocks' \in Seq(Seq(Texts)) /\ Handed' = Handed \o b
<1>1. rows \in Seq(Texts) /\ blocks \in Seq(Seq(Texts)) /\ FlattenSeq(blocks) \in Seq(Texts)
      /\ Handed \in Seq(Texts)
  BY HandedTyped DEF ReaderTyped
<1>2. CASE b = <<>>
  BY <1>1, <1>2, ConcatEmptySeq DEF Handed
<1>3. CASE b # <<>>
  <2>1. blocks' = Append(blocks, b)
    BY <1>3
  <2>2. blocks' \in Seq(Seq(Texts)) /\ FlattenSeq(blocks') = FlattenSeq(blocks) \o b
    <3>1. FlattenSeq(Append(blocks, b)) = FlattenSeq(blocks) \o b
      BY <1>1, FlattenAppend
    <3> DEFINE S == Seq(Texts)
    <3>2. blocks \in Seq(S) /\ b \in S
      BY <1>1
    <3> HIDE DEF S
    <3>3. Append(blocks, b) \in Seq(S)
      BY <3>2, AppendProperties
    <3> QED
      BY <2>1, <3>1, <3>3 DEF S
  <2>3. (rows \o FlattenSeq(blocks)) \o b = rows \o (FlattenSeq(blocks) \o b)
    <3> DEFINE f == FlattenSeq(blocks)
    <3>1. f \in Seq(Texts)
      BY <1>1
    <3> HIDE DEF f
    <3>2. rows \in Seq(Texts) /\ b \in Seq(Texts)
      BY <1>1
    <3>3. (rows \o f) \o b = rows \o (f \o b)
      BY <3>1, <3>2, ConcatAssociative
    <3> QED
      BY <3>3 DEF f
  <2> QED
    BY <2>2, <2>3 DEF Handed
<1> QED
  BY <1>2, <1>3

LEMMA FlushDoes ==
  ASSUME ReaderTyped, NEW b \in Seq(Texts), UNCHANGED rows, Flush(b)
  PROVE  /\ block' = <<>> /\ blocks' \in Seq(Seq(Texts)) /\ Handed' = Handed \o b
         /\ Handed' \o block' = Handed \o b
<1>1. block' = <<>> /\ blocks' = IF b = <<>> THEN blocks ELSE Append(blocks, b)
  BY DEF Flush
<1>2. blocks' \in Seq(Seq(Texts)) /\ Handed' = Handed \o b
  BY <1>1, QueuedBlock
<1>3. Handed \o b \in Seq(Texts)
  BY HandedTyped, ConcatProperties
<1> QED
  BY <1>1, <1>2, <1>3, ConcatEmptySeq

LEMMA ReadInputKeeps == ASSUME ReaderIInv, ReadInput PROVE ReaderIInv'
<1>1. PICK n \in 1..ReadSize : /\ taken + n <= sent /\ taken' = taken + n
                               /\ partial' = partial \o SubSeq(Input, taken + 1, taken + n)
  BY DEF ReadInput
<1>2. /\ UNCHANGED <<sent, closed, rows, block, blocks>>
      /\ thread = "select" /\ thread' = "split"
  BY DEF ReadInput
<1>3. /\ InputEnd \in Nat /\ sent \in 0..InputEnd /\ taken \in 0..sent /\ n \in Nat
      /\ taken' \in 0..sent /\ taken' = taken + n /\ taken + n <= InputEnd
  BY <1>1, InputIs, ReaderAssumption DEF ReaderIInv, ReaderTyped
<1>4. PICK k \in 0..taken : AtCut(k)
  BY <1>2 DEF ReaderIInv, UpToACut, Stopped
<1>5. partial' = SubSeq(Input, k + 1, taken')
  <2>1. SubSeq(Input, k + 1, taken) \o SubSeq(Input, taken + 1, taken + n)
          = SubSeq(Input, k + 1, taken + n)
    <3>1. /\ k + 1 \in 1..(Len(Input) + 1) /\ taken \in (k + 1 - 1)..Len(Input)
          /\ taken + n \in taken..Len(Input)
      BY <1>3, InputIs
    <3> QED
      BY <3>1, InputIs, ConcatAdjacentSubSeq
  <2> QED
    BY <1>1, <1>4, <2>1 DEF AtCut
<1>6. AtCut(k)' /\ k \in 0..taken'
  BY <1>2, <1>3, <1>4, <1>5 DEF AtCut, Handed
<1>7. UpToACut' /\ HandedOver'
  BY <1>2, <1>6 DEF UpToACut, HandedOver, Stopped
<1> QED
  BY <1>2, <1>3, <1>7 DEF ReaderIInv, ReaderTyped

(* The first separator of what is held back. *)
LEMMA FirstSeparator ==
  ASSUME NEW s \in Seq(Bytes), Contains(s, Separator)
  PROVE  LET i == SelectInSeq(s, LAMBDA c : c = Separator)
         IN  /\ i \in 1..Len(s) /\ s[i] = Separator
             /\ \A h \in 1..(i - 1) : s[h] # Separator
<1> DEFINE I == {h \in 1..Len(s) : s[h] = Separator}
<1>1. I # {} /\ I \in SUBSET Nat /\ Len(s) \in Nat
  BY LenProperties DEF Contains
<1>2. SelectInSeq(s, LAMBDA c : c = Separator) = Min(I)
  BY <1>1 DEF SelectInSeq
<1>3. Min(I) \in I /\ \A h \in I : Min(I) <= h
  <2> HIDE DEF I
  <2>1. \E x \in I : \A y \in I : x <= y
    BY <1>1, Smallest
  <2> QED
    BY <2>1 DEF Min
<1> DEFINE i == SelectInSeq(s, LAMBDA c : c = Separator)
<1>4. i \in I /\ \A h \in I : i <= h
  BY <1>2, <1>3
<1> HIDE DEF i
<1>5. i \in 1..Len(s) /\ s[i] = Separator /\ \A h \in 1..(i - 1) : s[h] # Separator
  <2>1. i \in 1..Len(s) /\ s[i] = Separator
    BY <1>4
  <2>2. ASSUME NEW h \in 1..(i - 1), s[h] = Separator PROVE FALSE
    <3>1. h \in I
      BY <1>1, <2>1, <2>2
    <3> HIDE DEF I
    <3> QED
      BY <1>1, <1>4, <2>1, <2>2, <3>1
  <2> QED
    BY <2>1, <2>2
<1> QED
  BY <1>5 DEF i

(* What is between two places of a sequence. *)
LEMMA SliceIs ==
  ASSUME NEW T, NEW s \in Seq(T), NEW a \in 0..Len(s), NEW b \in a..Len(s),
         NEW c, c = a + 1
  PROVE  /\ SubSeq(s, c, b) \in Seq(T) /\ Len(SubSeq(s, c, b)) = b - a
         /\ \A h \in 1..(b - a) : SubSeq(s, c, b)[h] = s[a + h]
<1>1. Len(s) \in Nat /\ a \in Nat /\ b \in Nat /\ a <= b /\ b <= Len(s)
  BY LenProperties
<1>2. c \in Int /\ b \in Int /\ \A h \in c..b : s[h] \in T
  BY <1>1, ElementOfSeq
<1>3. /\ b - c + 1 = b - a /\ (~(c <= b) => b - a = 0)
      /\ \A h \in 1..(b - a) : c + h - 1 = a + h
  BY <1>1
<1>4. /\ SubSeq(s, c, b) \in Seq(T)
      /\ Len(SubSeq(s, c, b)) = (IF c <= b THEN b - c + 1 ELSE 0)
      /\ \A h \in 1..(b - c + 1) : SubSeq(s, c, b)[h] = s[c + h - 1]
  BY <1>2, SubSeqProperties
<1> QED
  BY <1>3, <1>4

(* One row more is cut off at the first separator.                             *)
LEMMA SplitRowKeeps == ASSUME ReaderIInv, SplitRow PROVE ReaderIInv'
<1> DEFINE first == SelectInSeq(partial, LAMBDA c : c = Separator)
           longer == Append(block, SubSeq(partial, 1, first - 1))
<1>1. /\ UNCHANGED <<sent, closed, taken, thread, rows>> /\ thread = "split"
      /\ partial' = SubSeq(partial, first + 1, Len(partial))
      /\ Flush(longer) \/ (block' = longer /\ UNCHANGED blocks)
      /\ Contains(partial, Separator)
  BY DEF SplitRow
<1>2. PICK k \in 0..taken : AtCut(k)
  BY <1>1 DEF ReaderIInv, UpToACut, Stopped
<1>3. /\ k \in 0..InputEnd /\ k \in Nat /\ taken \in Nat /\ k <= taken /\ taken <= InputEnd
      /\ InputEnd = Len(Input) /\ InputEnd \in Nat
  BY InputIs DEF ReaderIInv, ReaderTyped
<1>4. /\ partial \in Seq(Bytes) /\ Len(partial) = taken - k
      /\ \A h \in 1..(taken - k) : partial[h] = Input[k + h]
  <2>1. k \in 0..Len(Input) /\ taken \in k..Len(Input)
    BY <1>3
  <2> QED
    BY <1>2, <2>1, InputIs, SliceIs DEF AtCut
<1>5. PICK i \in 1..(taken - k) : /\ i = first /\ partial[i] = Separator
                                 /\ \A h \in 1..(i - 1) : partial[h] # Separator
  BY <1>1, <1>4, FirstSeparator
<1> DEFINE line == SubSeq(partial, 1, i - 1)
           b == Append(block, line)
           j == k + i
<1>0. /\ UNCHANGED <<sent, closed, taken, thread, rows>> /\ thread = "split"
      /\ partial' = SubSeq(partial, i + 1, Len(partial))
      /\ Flush(b) \/ (block' = b /\ UNCHANGED blocks)
  BY <1>1, <1>5
<1> HIDE DEF first
<1>6. j \in 1..InputEnd /\ j \in 0..InputEnd /\ j \in 0..taken /\ j - 1 \in k..InputEnd
      /\ i \in Nat /\ j \in Nat
  BY <1>3, <1>5
<1>7. line = SubSeq(Input, k + 1, j - 1) /\ partial' = SubSeq(Input, j + 1, taken)
  <2> DEFINE l == taken - k
             e == i - 1
             d == j - 1
             g == SubSeq(Input, k + 1, d)
             s == SubSeq(partial, i + 1, l)
             u == SubSeq(Input, j + 1, taken)
  <2>1. /\ Len(partial) = l /\ l \in Nat /\ e \in Nat /\ e - 0 = e /\ d - k = e
        /\ taken - j = l - i /\ 0 \in 0..Len(partial) /\ e \in 0..Len(partial)
        /\ i \in 0..Len(partial) /\ l \in i..Len(partial) /\ 1 = 0 + 1
        /\ k \in 0..Len(Input) /\ d \in k..Len(Input)
        /\ j \in 0..Len(Input) /\ taken \in j..Len(Input)
    BY <1>3, <1>4, <1>5, <1>6
  <2>2. \A h \in 1..e : h \in 1..l /\ 0 + h = h
    BY <1>3, <1>5, <1>6
  <2>3. \A h \in 1..(l - i) : i + h \in 1..l /\ k + (i + h) = j + h
    BY <1>3, <1>5, <1>6
  <2>10. Input \in Seq(Bytes) /\ partial \in Seq(Bytes)
    BY <1>4, InputIs
  <2> HIDE DEF l, e, d, j
  <2>4. line \in Seq(Bytes) /\ Len(line) = e /\ \A h \in 1..e : line[h] = partial[h]
    <3> DEFINE f == SubSeq(partial, 1, e)
    <3>0. 0 \in 0..Len(partial) /\ e \in 0..Len(partial) /\ 1 = 0 + 1
      BY <2>1
    <3>1. f \in Seq(Bytes) /\ Len(f) = e - 0 /\ \A h \in 1..(e - 0) : f[h] = partial[0 + h]
      BY <2>10, <3>0, SliceIs
    <3>2. line = f
      BY DEF e
    <3> HIDE DEF f, line
    <3> QED
      BY <2>1, <2>2, <3>1, <3>2
  <2>5. g \in Seq(Bytes) /\ Len(g) = d - k /\ \A h \in 1..(d - k) : g[h] = Input[k + h]
    <3> DEFINE c == k + 1
               f == SubSeq(Input, c, d)
    <3>1. c = k + 1 /\ k \in 0..Len(Input) /\ d \in k..Len(Input)
      BY <2>1
    <3> HIDE DEF c
    <3>2. f \in Seq(Bytes) /\ Len(f) = d - k /\ \A h \in 1..(d - k) : f[h] = Input[k + h]
      BY <2>10, <3>1, SliceIs
    <3> QED
      BY <3>2 DEF c
  <2>6. s \in Seq(Bytes) /\ Len(s) = l - i /\ \A h \in 1..(l - i) : s[h] = partial[i + h]
    <3> DEFINE c == i + 1
               f == SubSeq(partial, c, l)
    <3>1. c = i + 1 /\ i \in 0..Len(partial) /\ l \in i..Len(partial)
      BY <2>1
    <3> HIDE DEF c
    <3>2. f \in Seq(Bytes) /\ Len(f) = l - i /\ \A h \in 1..(l - i) : f[h] = partial[i + h]
      BY <2>10, <3>1, SliceIs
    <3> QED
      BY <3>2 DEF c
  <2>7. u \in Seq(Bytes) /\ Len(u) = taken - j /\ \A h \in 1..(taken - j) : u[h] = Input[j + h]
    <3> DEFINE c == j + 1
               f == SubSeq(Input, c, taken)
    <3>1. c = j + 1 /\ j \in 0..Len(Input) /\ taken \in j..Len(Input)
      BY <2>1
    <3> HIDE DEF c
    <3>2. f \in Seq(Bytes) /\ Len(f) = taken - j /\ \A h \in 1..(taken - j) : f[h] = Input[j + h]
      BY <2>10, <3>1, SliceIs
    <3> QED
      BY <3>2 DEF c
  <2> HIDE DEF line, g, s, u
  <2>8. line = g
    <3>1. \A h \in 1..e : line[h] = g[h]
      BY <1>4, <2>1, <2>2, <2>4, <2>5 DEF l
    <3>2. Len(line) = Len(g) /\ \A h \in 1..Len(line) : line[h] = g[h]
      BY <2>1, <2>4, <2>5, <3>1
    <3> QED
      BY <2>4, <2>5, <3>2, SeqEqual
  <2>9. s = u
    <3>1. ASSUME NEW h \in 1..(l - i) PROVE s[h] = u[h]
      <4>1. partial[i + h] = Input[k + (i + h)]
        BY <1>4, <2>3 DEF l
      <4> QED
        BY <2>1, <2>3, <2>6, <2>7, <4>1
    <3>2. Len(s) = Len(u) /\ \A h \in 1..Len(s) : s[h] = u[h]
      BY <2>1, <2>6, <2>7, <3>1
    <3> QED
      BY <2>6, <2>7, <3>2, SeqEqual
  <2> QED
    BY <1>0, <2>1, <2>8, <2>9 DEF g, s, u, d
<1>8. Cuts[j].rest = <<>> /\ Cuts[j].whole = Append(Cuts[k].whole, line)
  <2>1. \A h \in (k + 1)..(j - 1) : Input[h] # Separator
    <3>1. ASSUME NEW h \in (k + 1)..(j - 1) PROVE Input[h] # Separator
      <4>1. PICK q \in 1..(i - 1) : h = k + q
        BY <1>3, <1>6
      <4>2. q \in 1..(taken - k)
        BY <1>3, <1>5, <4>1
      <4> QED
        BY <1>4, <1>5, <4>1, <4>2
    <3> QED
      BY <3>1
  <2>2. Input[j] = Separator
    BY <1>4, <1>5
  <2>3. Cuts[k].rest = <<>>
    BY <1>2 DEF AtCut
  <2> HIDE DEF j, line
  <2> DEFINE e == j - 1
  <2>4. e \in k..InputEnd /\ \A h \in (k + 1)..e : Input[h] # Separator
    BY <1>6, <2>1
  <2>5. Cuts[e].whole = Cuts[k].whole /\ Cuts[e].rest = SubSeq(Input, k + 1, e)
    <3> HIDE DEF e
    <3> QED
      BY <1>3, <2>3, <2>4, StretchOf
  <2>6. Cuts[j].whole = Append(Cuts[e].whole, Cuts[e].rest) /\ Cuts[j].rest = <<>>
    BY <1>6, <2>2, CutAt
  <2> QED
    BY <1>7, <2>5, <2>6
<1>9. line \in Texts
  <2>1. 0 \in 0..Len(partial) /\ i - 1 \in 0..Len(partial) /\ 1 = 0 + 1
    BY <1>3, <1>4, <1>5, <1>6
  <2> QED
    BY <1>4, <2>1, SliceIs DEF Texts
<1> HIDE DEF j, line
<1>10. b \in Seq(Texts) /\ Handed \o b = Append(Handed \o block, line)
  <2>1. Handed \in Seq(Texts) /\ block \in Seq(Texts) /\ Handed \o block \in Seq(Texts)
    BY HandedTyped DEF ReaderIInv, ReaderTyped
  <2> DEFINE x == <<line>>
  <2>2. x \in Seq(Texts)
    BY <1>9
  <2> HIDE DEF x
  <2>3. b = block \o x /\ Append(Handed \o block, line) = (Handed \o block) \o x
    <3> DEFINE s == Handed \o block
    <3>1. s \in Seq(Texts)
      BY <2>1
    <3> HIDE DEF s
    <3>2. Append(s, line) = s \o <<line>> /\ Append(block, line) = block \o <<line>>
      BY <1>9, <2>1, <3>1, AppendIsConcat
    <3> QED
      BY <3>2 DEF s, x
  <2>4. (Handed \o block) \o x = Handed \o (block \o x)
    <3> DEFINE s == Handed
    <3>1. s \in Seq(Texts)
      BY <2>1
    <3>2. block \in Seq(Texts)
      BY <2>1
    <3> HIDE DEF s
    <3>3. (s \o block) \o x = s \o (block \o x)
      BY <2>2, <3>1, <3>2, ConcatAssociative
    <3> QED
      BY <3>3 DEF s
  <2> QED
    BY <1>9, <2>1, <2>3, <2>4, AppendProperties
<1>11. /\ block' \in Seq(Texts) /\ blocks' \in Seq(Seq(Texts))
       /\ Handed' \o block' = Handed \o b
  <2> HIDE DEF b
  <2>1. CASE Flush(b)
    <3>1. <<>> \in Seq(Texts)
      BY EmptySeq
    <3> QED
      BY <1>0, <1>10, <2>1, <3>1, FlushDoes DEF ReaderIInv
  <2>2. CASE block' = b /\ UNCHANGED blocks
    BY <1>0, <1>10, <2>2 DEF ReaderIInv, ReaderTyped, Handed
  <2> QED
    BY <1>0, <2>1, <2>2
<1>12. AtCut(j)'
  BY <1>0, <1>2, <1>7, <1>8, <1>10, <1>11 DEF AtCut
<1>13. ReaderTyped'
  BY <1>0, <1>11 DEF ReaderIInv, ReaderTyped
<1>14. UpToACut' /\ HandedOver'
  BY <1>0, <1>6, <1>12 DEF UpToACut, HandedOver, Stopped
<1> QED
  BY <1>13, <1>14 DEF ReaderIInv

(* The producer writes, or closes its end. *)
LEMMA ProducerKeeps == ASSUME ReaderIInv, Produce \/ CloseInput PROVE ReaderIInv'
<1>1. UNCHANGED <<taken, thread, partial, block, blocks, rows>>
  BY DEF Produce, CloseInput
<1>2. UpToACut'
  BY <1>1 DEF ReaderIInv, UpToACut, AtCut, Handed, Stopped
<1>3. CASE Produce
  <2>1. /\ InputEnd \in Nat /\ sent \in 0..InputEnd /\ taken \in 0..sent /\ sent < InputEnd
        /\ UNCHANGED closed /\ ~closed
    BY <1>3, InputIs DEF Produce, ReaderIInv, ReaderTyped
  <2>2. sent' \in (sent + 1)..InputEnd
    BY <1>3 DEF Produce, InputEnd
  <2>3. ReaderTyped'
    BY <1>1, <2>1, <2>2 DEF ReaderIInv, ReaderTyped
  <2>4. HandedOver'
    BY <1>1, <2>1 DEF ReaderIInv, HandedOver, Handed, Stopped
  <2> QED
    BY <1>2, <2>3, <2>4 DEF ReaderIInv
<1>4. CASE CloseInput
  <2>1. ~closed /\ closed' = TRUE /\ sent = InputEnd /\ UNCHANGED sent
    BY <1>4 DEF CloseInput, InputEnd, ReaderIInv, ReaderTyped
  <2>2. ReaderTyped'
    BY <1>1, <2>1 DEF ReaderIInv, ReaderTyped
  <2>3. ASSUME Stopped PROVE Begins(Handed, RowsOf(Input, TRUE))
    <3> DEFINE w == RowsOf(Input, FALSE)
               r == RowsOf(Input, TRUE)
    <3>1. Begins(Handed, w)
      BY <2>1, <2>3 DEF ReaderIInv, ReaderTyped, HandedOver, Stopped
    <3>2. w \in Seq(Texts) /\ r \in Seq(Texts) /\ Begins(w, r) /\ Handed \in Seq(Texts)
      BY RowsEnd, RowsOfInput, HandedTyped DEF ReaderIInv
    <3> HIDE DEF w, r
    <3>3. Begins(Handed, r)
      BY <3>1, <3>2, BeginsBoth
    <3> QED
      BY <3>3 DEF r
  <2>4. HandedOver'
    BY <1>1, <2>1, <2>3 DEF HandedOver, Handed, Stopped
  <2> QED
    BY <1>2, <2>2, <2>4 DEF ReaderIInv
<1> QED
  BY <1>3, <1>4

(* What is held back has no separator left. *)
LEMMA SplitEndKeeps == ASSUME ReaderIInv, SplitEnd PROVE ReaderIInv'
<1>1. /\ UNCHANGED <<sent, closed, taken, partial, block, blocks, rows>>
      /\ thread = "split" /\ thread' = "select" /\ ~Contains(partial, Separator)
  BY DEF SplitEnd
<1>2. PICK k \in 0..taken : AtCut(k)
  BY <1>1 DEF ReaderIInv, UpToACut, Stopped
<1>3. /\ k \in Nat /\ taken \in Nat /\ k <= taken /\ taken <= Len(Input)
      /\ k \in 0..Len(Input) /\ taken \in k..Len(Input) /\ Input \in Seq(Bytes)
  BY InputIs DEF ReaderIInv, ReaderTyped
<1>4. Len(partial) = taken - k /\ \A h \in 1..(taken - k) : partial[h] = Input[k + h]
  BY <1>2, <1>3, SliceIs DEF AtCut
<1>5. ASSUME NEW h \in (k + 1)..taken PROVE Input[h] # Separator
  <2>1. PICK q \in 1..(taken - k) : h = k + q
    BY <1>3
  <2> QED
    BY <1>1, <1>4, <2>1 DEF Contains
<1>6. AtCut(k)'
  BY <1>1, <1>2, <1>5 DEF AtCut, Handed
<1> QED
  BY <1>1, <1>6 DEF ReaderIInv, ReaderTyped, UpToACut, HandedOver, Stopped

(* Whole rows are handed over, what is held back stays.                        *)
LEMMA SelectTimeoutKeeps == ASSUME ReaderIInv, SelectTimeout PROVE ReaderIInv'
<1>1. /\ UNCHANGED <<sent, closed, taken, thread, partial, rows>> /\ Flush(block)
      /\ thread = "select"
  BY DEF SelectTimeout
<1>2. /\ block' = <<>> /\ blocks' \in Seq(Seq(Texts)) /\ Handed' \o block' = Handed \o block
      /\ block' \in Seq(Texts)
  <2>1. ReaderTyped /\ block \in Seq(Texts)
    BY DEF ReaderIInv, ReaderTyped
  <2> QED
    BY <1>1, <2>1, FlushDoes, EmptySeq
<1>3. PICK k \in 0..taken : AtCut(k)
  BY <1>1 DEF ReaderIInv, UpToACut, Stopped
<1>4. AtCut(k)'
  BY <1>1, <1>2, <1>3 DEF AtCut
<1> QED
  BY <1>1, <1>2, <1>4 DEF ReaderIInv, ReaderTyped, UpToACut, HandedOver, Stopped

(* At the end of the input the rest is the last row, if there is one.          *)
LEMMA EndOfInputKeeps == ASSUME ReaderIInv, EndOfInput PROVE ReaderIInv'
<1> DEFINE b == IF partial = <<>> THEN block ELSE Append(block, partial)
<1>1. /\ UNCHANGED <<sent, closed, taken, rows>> /\ thread = "select" /\ taken = sent
      /\ closed /\ block' = <<>> /\ thread' = "ended"
      /\ blocks' = IF b = <<>> THEN blocks ELSE Append(blocks, b)
  BY DEF EndOfInput
<1>2. PICK k \in 0..taken : AtCut(k)
  BY <1>1 DEF ReaderIInv, UpToACut, Stopped
<1>3. /\ taken = InputEnd /\ k \in 0..InputEnd /\ InputEnd \in 0..InputEnd
      /\ InputEnd \in k..InputEnd /\ closed = TRUE
  BY <1>1, InputIs DEF ReaderIInv, ReaderTyped
<1> DEFINE w == Cuts[InputEnd].whole
<1>4. w = Cuts[k].whole /\ Cuts[InputEnd].rest = partial
  <2>1. Cuts[k].rest = <<>> /\ \A i \in (k + 1)..InputEnd : Input[i] # Separator
    BY <1>1, <1>2, <1>3 DEF AtCut
  <2>2. w = Cuts[k].whole /\ Cuts[InputEnd].rest = SubSeq(Input, k + 1, InputEnd)
    BY <1>3, <2>1, StretchOf
  <2> QED
    BY <1>2, <1>3, <2>2 DEF AtCut
<1>5. /\ partial \in Texts /\ block \in Seq(Texts) /\ Handed \in Seq(Texts)
      /\ Handed \o block = w /\ ReaderTyped
  BY <1>2, <1>3, <1>4, CutTyped, HandedTyped DEF AtCut, ReaderIInv, ReaderTyped
<1>6. b \in Seq(Texts)
  BY <1>5, AppendProperties
<1>7. Handed \o b = RowsOf(Input, TRUE)
  <2>1. RowsOf(Input, TRUE) = IF partial # <<>> THEN Append(w, partial) ELSE w
    BY <1>4, RowsOfInput
  <2>2. CASE partial = <<>>
    BY <1>5, <2>1, <2>2
  <2>3. CASE partial # <<>>
    <3> DEFINE x == <<partial>>
               s == Handed
    <3>1. x \in Seq(Texts) /\ s \in Seq(Texts) /\ block \in Seq(Texts) /\ w \in Seq(Texts)
      BY <1>3, <1>5, CutTyped
    <3> HIDE DEF x, s, w
    <3>2. (s \o block) \o x = s \o (block \o x)
      BY <3>1, ConcatAssociative
    <3>3. Append(w, partial) = w \o <<partial>> /\ Append(block, partial) = block \o <<partial>>
      BY <1>5, <3>1, AppendIsConcat
    <3>4. b = block \o x /\ Append(w, partial) = w \o x
      BY <2>3, <3>3 DEF x
    <3>5. Append(w, partial) = s \o b
      BY <1>5, <3>2, <3>4 DEF s
    <3> QED
      BY <2>1, <2>3, <3>5 DEF s
  <2> QED
    BY <2>2, <2>3
<1> HIDE DEF b, w
<1>8. blocks' \in Seq(Seq(Texts)) /\ Handed' = Handed \o b
  BY <1>1, <1>5, <1>6, QueuedBlock
<1>9. HandedOver'
  <2>1. RowsOf(Input, TRUE) \in Seq(Texts)
    BY RowsEnd
  <2>2. Begins(RowsOf(Input, TRUE), RowsOf(Input, TRUE))
    BY <2>1, LenProperties DEF Begins
  <2>3. Handed' = RowsOf(Input, closed')
    BY <1>1, <1>3, <1>7, <1>8
  <2> QED
    BY <1>1, <1>3, <2>2, <2>3 DEF HandedOver, Stopped
<1>10. ReaderTyped'
  <2>1. block' \in Seq(Texts)
    BY <1>1, EmptySeq
  <2> QED
    BY <1>1, <1>8, <2>1 DEF ReaderIInv, ReaderTyped
<1> QED
  BY <1>1, <1>9, <1>10 DEF ReaderIInv, UpToACut, Stopped

(* A thread that is told to stop has handed over whole rows.                   *)
LEMMA AbortedKeeps == ASSUME ReaderIInv, Aborted \/ SelectFails PROVE ReaderIInv'
<1>1. UNCHANGED <<sent, closed, taken, partial, block, blocks, rows>> /\ Stopped'
  BY DEF Aborted, SelectFails, Stopped
<1>2. Begins(Handed, RowsOf(Input, closed))
  BY HandedBegins
<1> QED
  BY <1>1, <1>2 DEF ReaderIInv, ReaderTyped, UpToACut, HandedOver, Handed, Stopped

(* Blocks move to the list in the order in which they were queued.             *)
LEMMA ReadProcKeeps == ASSUME ReaderIInv, ReadProc PROVE ReaderIInv'
<1>1. UNCHANGED <<sent, closed, taken, thread, partial, block>>
  BY DEF ReadProc
<1>2. \/ UNCHANGED <<rows, blocks>>
      \/ rows' = rows \o FlattenSeq(blocks) /\ blocks' = <<>>
  BY DEF ReadProc
<1>3. rows' \in Seq(Texts) /\ blocks' \in Seq(Seq(Texts)) /\ Handed' = Handed
  <2>1. CASE UNCHANGED <<rows, blocks>>
    BY <2>1 DEF ReaderIInv, ReaderTyped, Handed
  <2>2. CASE rows' = rows \o FlattenSeq(blocks) /\ blocks' = <<>>
    <3>1. rows' = Handed /\ Handed \in Seq(Texts)
      BY <2>2, HandedTyped DEF ReaderIInv, Handed
    <3>2. rows' \o <<>> = rows'
      BY <3>1, ConcatEmptySeq
    <3>3. FlattenSeq(blocks') = <<>> /\ blocks' \in Seq(Seq(Texts))
      BY <2>2, FlattenEmpty, EmptySeq
    <3> QED
      BY <3>1, <3>2, <3>3 DEF Handed
  <2> QED
    BY <1>2, <2>1, <2>2
<1>4. UpToACut'
  BY <1>1, <1>3 DEF ReaderIInv, UpToACut, AtCut, Stopped
<1>5. HandedOver'
  BY <1>1, <1>3 DEF ReaderIInv, HandedOver, Stopped
<1> QED
  BY <1>1, <1>3, <1>4, <1>5 DEF ReaderIInv, ReaderTyped

(* The dialog ends: what was queued is freed. *)
LEMMA EndsKeep ==
  ASSUME ReaderIInv, Finish \/ Join \/ \E i \in DOMAIN rows : Toggle(i)
  PROVE  ReaderIInv'
<1>1. UNCHANGED <<sent, closed, taken, thread, partial, block, rows>>
  BY DEF Finish, Join, Toggle
<1>2. CASE UNCHANGED blocks
  BY <1>1, <1>2 DEF ReaderIInv, ReaderTyped, UpToACut, HandedOver, AtCut, Handed, Stopped
<1>3. CASE Join
  <2>1. Stopped /\ blocks' = <<>>
    BY <1>3 DEF Join
  <2>2. /\ rows \in Seq(Texts) /\ FlattenSeq(blocks) \in Seq(Texts) /\ Handed \in Seq(Texts)
        /\ closed \in BOOLEAN
    BY HandedTyped DEF ReaderIInv, ReaderTyped
  <2>3. Handed' = rows /\ blocks' \in Seq(Seq(Texts))
    BY <1>1, <2>1, <2>2, FlattenEmpty, ConcatEmptySeq, EmptySeq DEF Handed
  <2> DEFINE r == RowsOf(Input, closed)
             f == FlattenSeq(blocks)
  <2>4. r \in Seq(Texts) /\ Begins(Handed, r)
    BY <2>2, HandedBegins, RowsEnd
  <2>5. f \in Seq(Texts) /\ Handed = rows \o f
    BY <2>2 DEF Handed
  <2> HIDE DEF r, f
  <2>6. Begins(rows, Handed)
    BY <2>2, <2>5, BeginsJoined
  <2>7. Begins(rows, r)
    BY <2>2, <2>4, <2>6, BeginsBoth
  <2>8. HandedOver' /\ UpToACut' /\ ReaderTyped'
    BY <1>1, <2>1, <2>3, <2>7 DEF HandedOver, UpToACut, ReaderIInv, ReaderTyped, r, Stopped
  <2> QED
    BY <2>8 DEF ReaderIInv
<1> QED
  BY <1>2, <1>3 DEF Finish, Toggle

LEMMA ReaderStarts == ReaderInit(TRUE) => ReaderIInv
<1> SUFFICES ASSUME ReaderInit(TRUE) PROVE ReaderIInv
  OBVIOUS
<1>1. /\ sent = 0 /\ closed = FALSE /\ taken = 0 /\ thread = "select" /\ partial = <<>>
      /\ block = <<>> /\ blocks = <<>> /\ rows = <<>>
  BY DEF ReaderInit
<1>2. <<>> \in Seq(Texts) /\ <<>> \in Seq(Seq(Texts)) /\ InputEnd \in Nat
  BY EmptySeq, InputIs
<1>3. ReaderTyped
  <2>1. closed \in BOOLEAN /\ ~closed
    BY <1>1
  <2>2. sent \in 0..InputEnd /\ taken \in 0..sent
    BY <1>1, <1>2
  <2>3. rows \in Seq(Texts) /\ block \in Seq(Texts) /\ blocks \in Seq(Seq(Texts))
    BY <1>1, <1>2, Zenon
  <2> QED
    BY <2>1, <2>2, <2>3 DEF ReaderTyped
<1>4. Handed \o block = <<>>
  <2>1. FlattenSeq(blocks) = <<>>
    BY <1>1, FlattenEmpty
  <2> QED
    BY <1>1, <1>2, <2>1, ConcatEmptySeq DEF Handed
<1>5. AtCut(0)
  <2>1. SubSeq(Input, 0 + 1, 0) = <<>>
    BY SubSeqEmpty
  <2> QED
    BY <1>1, <1>4, <2>1, CutsAre DEF AtCut
<1> QED
  BY <1>1, <1>3, <1>5 DEF ReaderIInv, UpToACut, HandedOver, Stopped

LEMMA ReaderSteps == ReaderIInv /\ [ReaderNext]_readerVars => ReaderIInv'
<1> SUFFICES ASSUME ReaderIInv, [ReaderNext]_readerVars PROVE ReaderIInv'
  OBVIOUS
<1>1. CASE UNCHANGED readerVars
  BY <1>1 DEF readerVars, ReaderIInv, ReaderTyped, UpToACut, HandedOver, AtCut, Handed, Stopped
<1>2. CASE ReaderNext
  BY <1>2, ProducerKeeps, ReadInputKeeps, SplitRowKeeps, SplitEndKeeps,
    SelectTimeoutKeeps, EndOfInputKeeps, AbortedKeeps, ReadProcKeeps, EndsKeep
    DEF ReaderNext, ReaderThread
<1> QED
  BY <1>1, <1>2

(* The list of a dialog that reads standard input as it comes is at any time a *)
(* prefix of the rows of the input, for every input, every size of reads and   *)
(* blocks, every pause of the producer and every end of the dialog             *)
(* (RowsArePrefix, dmenu.c: read_input_thread(), dmenu_async_read_proc()).     *)
THEOREM RowsComeWhole == ReaderSpec => []RowsArePrefix
BY ReaderStarts, ReaderSteps, ReaderEnough, PTL DEF ReaderSpec
================================================================================
