--------------------------- MODULE NotifyStoreProofs ---------------------------
(***************************************************************************)
(* Proofs about NotifyStore, for every value of its constants.             *)
(***************************************************************************)
EXTENDS NotifyStore, SequenceTheorems, FiniteSetTheorems,
        WellFoundedInduction, TLAPS

(* A function on 1..n is a sequence of length n. *)
LEMMA FunctionIsSeq ==
  ASSUME NEW S, NEW n \in Nat, NEW f \in [1..n -> S]
  PROVE  f \in Seq(S) /\ Len(f) = n /\ DOMAIN f = 1..n
<1>1. f \in Seq(S)
  BY SeqDef
<1>2. QED
  BY <1>1, LenProperties

LEMMA AppendToOne ==
  ASSUME NEW x, NEW y
  PROVE  Append(<<x>>, y) = <<x, y>>
<1> DEFINE S == {x, y}
           p == Append(<<x>>, y)
           q == <<x, y>>
<1>1. p \in Seq(S) /\ Len(p) = 2 /\ p[1] = x /\ p[2] = y
  <2>1. <<x>> \in Seq(S) /\ y \in S /\ Len(<<x>>) = 1 /\ <<x>>[1] = x
    OBVIOUS
  <2> HIDE DEF S
  <2> QED
    BY <2>1, AppendProperties
<1>2. q \in Seq(S) /\ Len(q) = 2 /\ q[1] = x /\ q[2] = y
  OBVIOUS
<1> HIDE DEF p, q, S
<1>3. \A i \in 1..2 : p[i] = q[i]
  BY <1>1, <1>2
<1> QED
  BY <1>1, <1>2, <1>3, SeqEqual DEF p, q

(* The entry that retire() leaves behind. *)
LEMMA RetiredEntry ==
  ASSUME NEW e \in Entry, NEW f,
         f = [e EXCEPT !.live = FALSE, !.timer = FALSE]
  PROVE  /\ f \in Entry
         /\ f.id = e.id /\ f.serial = e.serial
         /\ ~f.live /\ ~f.timer
BY DEF Entry

(* retire() keeps every entry where it is, with its id and serial; it      *)
(* clears live and timer of the live entries it is called on.              *)
LEMMA RetireRing ==
  ASSUME NEW st, st.ring \in Seq(Entry), NEW I, NEW why
  PROVE  LET q == Retire(st, I, why).ring
         IN /\ q \in Seq(Entry)
            /\ Len(q) = Len(st.ring)
            /\ DOMAIN q = DOMAIN st.ring
            /\ \A i \in DOMAIN st.ring :
                 /\ q[i].id = st.ring[i].id
                 /\ q[i].serial = st.ring[i].serial
                 /\ q[i].live <=> (st.ring[i].live /\ i \notin I)
                 /\ q[i].timer <=>
                      (st.ring[i].timer /\ ~(i \in I /\ st.ring[i].live))
<1> DEFINE R == {i \in I : st.ring[i].live}
           out(i) == [st.ring[i] EXCEPT !.live = FALSE, !.timer = FALSE]
           q == Retire(st, I, why).ring
           n == Len(st.ring)
<1>1. n \in Nat /\ DOMAIN st.ring = 1..n /\ st.ring \in [1..n -> Entry]
  BY LenProperties
<1>2. q = [i \in 1..n |-> IF i \in R THEN out(i) ELSE st.ring[i]]
  BY <1>1 DEF Retire
<1>3. ASSUME NEW i \in 1..n
      PROVE  /\ st.ring[i] \in Entry
             /\ i \in R => out(i) \in Entry
             /\ i \in R => out(i).id = st.ring[i].id
             /\ i \in R => out(i).serial = st.ring[i].serial
             /\ i \in R => ~out(i).live /\ ~out(i).timer
  <2>1. st.ring[i] \in Entry
    BY <1>1
  <2> QED
    BY <2>1, RetiredEntry
<1> HIDE DEF out
<1>4. \A i \in 1..n : q[i] = IF i \in R THEN out(i) ELSE st.ring[i]
  BY <1>2
<1> HIDE DEF q
<1>5. q \in [1..n -> Entry]
  BY <1>2, <1>3
<1>6. q \in Seq(Entry) /\ Len(q) = n /\ DOMAIN q = 1..n
  BY <1>1, <1>5, FunctionIsSeq
<1>7. ASSUME NEW i \in 1..n
      PROVE  /\ q[i].id = st.ring[i].id
             /\ q[i].serial = st.ring[i].serial
             /\ q[i].live <=> (st.ring[i].live /\ i \notin I)
             /\ q[i].timer <=> (st.ring[i].timer /\ ~(i \in I /\ st.ring[i].live))
  <2>1. CASE i \in R
    BY <1>3, <1>4, <2>1
  <2>2. CASE i \notin R
    BY <1>4, <2>2
  <2> QED
    BY <2>1, <2>2
<1> QED
  BY <1>1, <1>6, <1>7 DEF q

--------------------------------------------------------------------------------
(* The inductive invariant, as predicates on the parts of a store value r, *)
(* ar, sg and on the history a (entries added) and m (the sender's word).  *)

OnScreen(r, s) == \E i \in DOMAIN r : r[i].serial = s /\ r[i].live

RingShape(r, a, m) ==
  /\ r \in Seq(Entry)
  /\ \A i \in DOMAIN r : r[i].serial <= a
  /\ \A i \in DOMAIN r : r[i].serial = 0 => ~r[i].live /\ ~r[i].timer
  /\ \A i, j \in DOMAIN r : r[i].serial = r[j].serial /\ r[i].serial # 0 => i = j
  /\ \A i \in DOMAIN r :
       r[i].serial # 0 => (r[i].timer <=> r[i].live /\ m[r[i].serial])

TimersGood(r, ar, m) ==
  /\ ar \in [Serial -> Nat]
  /\ \A s \in Serial : OnScreen(r, s) /\ m[s] => ar[s] = 1
  /\ \A s \in Serial : ~(OnScreen(r, s) /\ m[s]) => ar[s] = 0

SignalsGood(r, sg, a) ==
  /\ sg \in [Serial -> {<<>>} \cup ClosedTraces]
  /\ \A s \in Serial :
       /\ s <= a /\ ~OnScreen(r, s) => sg[s] \in ClosedTraces
       /\ ~(s <= a /\ ~OnScreen(r, s)) => sg[s] = <<>>

StoreGood(st, a, m) ==
  /\ RingShape(st.ring, a, m)
  /\ TimersGood(st.ring, st.armed, m)
  /\ SignalsGood(st.ring, st.signals, a)

(* Retiring takes the retired entries' sources with them, and no others.   *)
LEMMA RetireTimers ==
  ASSUME NEW st, NEW a \in 0..MaxNew, NEW m \in [Serial -> BOOLEAN], NEW why,
         RingShape(st.ring, a, m), TimersGood(st.ring, st.armed, m),
         NEW I \in SUBSET DOMAIN st.ring
  PROVE  /\ RingShape(Retire(st, I, why).ring, a, m)
         /\ TimersGood(Retire(st, I, why).ring, Retire(st, I, why).armed, m)
<1> DEFINE r == st.ring
           q == Retire(st, I, why).ring
           R == {i \in I : r[i].live}
           held == {r[i].serial : i \in {j \in R : r[j].timer}}
           ar == Retire(st, I, why).armed
<1>1. /\ q \in Seq(Entry) /\ DOMAIN q = DOMAIN r
      /\ \A i \in DOMAIN r :
           /\ q[i].serial = r[i].serial
           /\ q[i].live <=> (r[i].live /\ i \notin I)
           /\ q[i].timer <=> (r[i].timer /\ ~(i \in I /\ r[i].live))
  <2>1. r \in Seq(Entry)
    BY DEF RingShape
  <2> QED
    BY <2>1, RetireRing
<1>2. ar = [s \in Serial |-> IF s \in held THEN st.armed[s] - 1 ELSE st.armed[s]]
  <2>1. DOMAIN st.armed = Serial
    BY DEF TimersGood
  <2> QED
    BY <2>1 DEF Retire, Cancel
<1> HIDE DEF q, ar
<1>3. RingShape(q, a, m)
  BY <1>1 DEF RingShape
<1>4. ASSUME NEW s \in Serial
      PROVE  /\ ar[s] \in Nat
             /\ OnScreen(q, s) /\ m[s] => ar[s] = 1
             /\ ~(OnScreen(q, s) /\ m[s]) => ar[s] = 0
  <2>0. s # 0
    BY StoreAssumption DEF Serial
  <2>1. CASE s \in held
    <3>1. PICK i \in R : r[i].serial = s /\ r[i].timer
      BY <2>1
    <3>2. OnScreen(r, s) /\ m[s]
      BY <2>0, <3>1 DEF OnScreen, RingShape
    <3>3. st.armed[s] = 1
      BY <3>2 DEF TimersGood
    <3>4. ~OnScreen(q, s)
      BY <1>1, <2>0, <3>1 DEF OnScreen, RingShape
    <3> QED
      BY <1>2, <2>1, <3>3, <3>4
  <2>2. CASE s \notin held
    <3>1. ar[s] = st.armed[s]
      BY <1>2, <2>2
    <3>2. OnScreen(q, s) => OnScreen(r, s)
      BY <1>1 DEF OnScreen
    <3>3. OnScreen(r, s) /\ m[s] => OnScreen(q, s)
      <4> SUFFICES ASSUME NEW i \in DOMAIN r, r[i].serial = s, r[i].live, m[s]
                   PROVE  OnScreen(q, s)
        BY DEF OnScreen
      <4>1. r[i].timer
        BY <2>0 DEF RingShape
      <4>2. i \notin I
        BY <2>2, <4>1
      <4> QED
        BY <1>1, <4>2 DEF OnScreen
    <3> QED
      BY <3>1, <3>2, <3>3 DEF TimersGood
  <2> QED
    BY <2>1, <2>2
<1>5. ar \in [Serial -> Nat]
  BY <1>2, <1>4
<1>6. TimersGood(q, ar, m)
  BY <1>4, <1>5 DEF TimersGood
<1> QED
  BY <1>3, <1>6 DEF q, ar

(* Retiring gives each retired entry its one NotificationClosed.           *)
LEMMA RetireSignals ==
  ASSUME NEW st, NEW a \in 0..MaxNew, NEW m \in [Serial -> BOOLEAN],
         RingShape(st.ring, a, m), SignalsGood(st.ring, st.signals, a),
         NEW I \in SUBSET DOMAIN st.ring, NEW why \in Reasons
  PROVE  SignalsGood(Retire(st, I, why).ring, Retire(st, I, why).signals, a)
<1> DEFINE r == st.ring
           q == Retire(st, I, why).ring
           R == {i \in I : r[i].live}
           gone == {r[i].serial : i \in R}
           sg == Retire(st, I, why).signals
<1>1. /\ DOMAIN q = DOMAIN r
      /\ \A i \in DOMAIN r :
           /\ q[i].serial = r[i].serial
           /\ q[i].live <=> (r[i].live /\ i \notin I)
  <2>1. r \in Seq(Entry)
    BY DEF RingShape
  <2> QED
    BY <2>1, RetireRing
<1>2. sg = [s \in Serial |-> IF s \in gone THEN Append(st.signals[s], why)
                                            ELSE st.signals[s]]
  <2>1. DOMAIN st.signals = Serial
    BY DEF SignalsGood
  <2> QED
    BY <2>1 DEF Retire, Emit
<1> HIDE DEF q, sg
<1>3. ASSUME NEW s \in Serial
      PROVE  /\ sg[s] \in {<<>>} \cup ClosedTraces
             /\ s <= a /\ ~OnScreen(q, s) => sg[s] \in ClosedTraces
             /\ ~(s <= a /\ ~OnScreen(q, s)) => sg[s] = <<>>
  <2>0. s # 0
    BY StoreAssumption DEF Serial
  <2>1. CASE s \in gone
    <3>1. PICK i \in R : r[i].serial = s
      BY <2>1
    <3>2. OnScreen(r, s) /\ s <= a
      BY <3>1 DEF OnScreen, RingShape
    <3>3. st.signals[s] = <<>>
      BY <3>2 DEF SignalsGood
    <3>4. ~OnScreen(q, s)
      BY <1>1, <2>0, <3>1 DEF OnScreen, RingShape
    <3>5. Append(<<>>, why) = <<why>>
      OBVIOUS
    <3>6. sg[s] = <<why>>
      BY <1>2, <2>1, <3>3, <3>5
    <3>7. <<why>> \in ClosedTraces
      BY DEF ClosedTraces
    <3> QED
      BY <3>2, <3>4, <3>6, <3>7
  <2>2. CASE s \notin gone
    <3>1. sg[s] = st.signals[s]
      BY <1>2, <2>2
    <3>2. OnScreen(q, s) <=> OnScreen(r, s)
      BY <1>1, <2>2 DEF OnScreen
    <3> QED
      BY <3>1, <3>2 DEF SignalsGood
  <2> QED
    BY <2>1, <2>2
<1>4. sg \in [Serial -> {<<>>} \cup ClosedTraces]
  BY <1>2, <1>3
<1>5. SignalsGood(q, sg, a)
  BY <1>3, <1>4 DEF SignalsGood
<1> QED
  BY <1>5 DEF q, sg

(* Cutting a ring that is retired past n loses no live entry and no source. *)
LEMMA TruncateGood ==
  ASSUME NEW st, NEW a \in 0..MaxNew, NEW m \in [Serial -> BOOLEAN],
         StoreGood(st, a, m), NEW n \in Nat,
         \A i \in DOMAIN st.ring : i > n => ~st.ring[i].live
  PROVE  /\ StoreGood(Truncate(st, n), a, m)
         /\ Len(Truncate(st, n).ring) <= n
         /\ Len(Truncate(st, n).ring) <= Len(st.ring)
         /\ \A i \in DOMAIN Truncate(st, n).ring :
              i \in DOMAIN st.ring /\ Truncate(st, n).ring[i] = st.ring[i]
<1> DEFINE r == st.ring
           q == Truncate(st, n).ring
           gone == {i \in DOMAIN r : i > n}
           held == {r[i].serial : i \in {j \in gone : r[j].timer}}
<1>1. r \in Seq(Entry) /\ Len(r) \in Nat /\ DOMAIN r = 1..Len(r)
  BY LenProperties DEF StoreGood, RingShape
<1>2. q = IF gone = {} THEN r ELSE SubSeq(r, 1, n)
  BY DEF Truncate
<1>3. /\ q \in Seq(Entry)
      /\ DOMAIN q = {i \in DOMAIN r : i <= n}
      /\ \A i \in DOMAIN q : q[i] = r[i]
      /\ Len(q) <= n /\ Len(q) <= Len(r)
  <2>1. CASE gone = {}
    <3>1. q = r
      BY <1>2, <2>1
    <3>2. \A i \in DOMAIN r : i <= n
      BY <1>1, <2>1
    <3>3. Len(r) <= n
      BY <1>1, <3>2
    <3> HIDE DEF q
    <3> QED
      BY <1>1, <3>1, <3>2, <3>3
  <2>2. CASE gone # {}
    <3>1. n < Len(r)
      BY <1>1, <2>2
    <3>2. \A i \in 1..n : r[i] \in Entry
      BY <1>1, <3>1, ElementOfSeq
    <3>3. q = SubSeq(r, 1, n)
      BY <1>2, <2>2
    <3> HIDE DEF q
    <3>4. q \in Seq(Entry) /\ Len(q) = n /\ \A i \in 1..n : q[i] = r[i]
      <4>1. /\ SubSeq(r, 1, n) \in Seq(Entry)
            /\ Len(SubSeq(r, 1, n)) = IF 1 <= n THEN n - 1 + 1 ELSE 0
            /\ \A i \in 1..(n - 1 + 1) : SubSeq(r, 1, n)[i] = r[1 + i - 1]
        BY <3>2, SubSeqProperties
      <4> QED
        BY <3>3, <4>1
    <3>5. DOMAIN q = 1..n
      BY <3>4, LenProperties
    <3> QED
      BY <1>1, <3>1, <3>4, <3>5
  <2> QED
    BY <2>1, <2>2
<1>4. held = {}
  BY DEF StoreGood, RingShape
<1>5. Truncate(st, n).armed = st.armed
  <2>1. Truncate(st, n).armed =
          [s \in DOMAIN st.armed |-> IF s \in held THEN st.armed[s] - 1
                                                   ELSE st.armed[s]]
    BY DEF Truncate, Cancel
  <2>2. st.armed \in [Serial -> Nat]
    BY DEF StoreGood, TimersGood
  <2> QED
    BY <1>4, <2>1, <2>2
<1>6. Truncate(st, n).signals = st.signals
  BY DEF Truncate
<1> HIDE DEF q
<1>7. \A s : OnScreen(q, s) <=> OnScreen(r, s)
  BY <1>1, <1>3 DEF OnScreen
<1>8. RingShape(q, a, m)
  BY <1>3 DEF StoreGood, RingShape
<1>9. TimersGood(q, st.armed, m) /\ SignalsGood(q, st.signals, a)
  BY <1>7 DEF StoreGood, TimersGood, SignalsGood
<1> QED
  BY <1>3, <1>5, <1>6, <1>8, <1>9 DEF q, StoreGood

(* Retiring as one fact about the whole store. *)
LEMMA RetireGood ==
  ASSUME NEW st, NEW a \in 0..MaxNew, NEW m \in [Serial -> BOOLEAN],
         StoreGood(st, a, m),
         NEW I \in SUBSET DOMAIN st.ring, NEW why \in Reasons
  PROVE  /\ StoreGood(Retire(st, I, why), a, m)
         /\ DOMAIN Retire(st, I, why).ring = DOMAIN st.ring
         /\ Len(Retire(st, I, why).ring) = Len(st.ring)
         /\ \A i \in DOMAIN st.ring :
              /\ Retire(st, I, why).ring[i].id = st.ring[i].id
              /\ Retire(st, I, why).ring[i].live <=> (st.ring[i].live /\ i \notin I)
<1>1. st.ring \in Seq(Entry)
  BY DEF StoreGood, RingShape
<1>2. StoreGood(Retire(st, I, why), a, m)
  BY RetireTimers, RetireSignals DEF StoreGood
<1> QED
  BY <1>1, <1>2, RetireRing

(* enforce_caps() leaves a good store no longer than the ring's cap, with  *)
(* the entries it kept where they were.                                    *)
LEMMA CapsGood ==
  ASSUME NEW st, NEW a \in 0..MaxNew, NEW m \in [Serial -> BOOLEAN],
         StoreGood(st, a, m)
  PROVE  /\ StoreGood(EnforceCaps(st), a, m)
         /\ Len(EnforceCaps(st).ring) <= RingCap
         /\ \A i \in DOMAIN EnforceCaps(st).ring :
              /\ i \in DOMAIN st.ring
              /\ EnforceCaps(st).ring[i].id = st.ring[i].id
<1> DEFINE b == CapLive(st)
           past == {i \in DOMAIN b.ring : i > RingCap}
           c == Retire(b, past, "expired")
<1>1. "expired" \in Reasons
  BY DEF Reasons
<1>2. OverLiveCap(st.ring) \in SUBSET DOMAIN st.ring
  BY DEF OverLiveCap, LiveIn
<1>3. /\ StoreGood(b, a, m) /\ DOMAIN b.ring = DOMAIN st.ring
      /\ \A i \in DOMAIN st.ring : b.ring[i].id = st.ring[i].id
  <2>1. b = Retire(st, OverLiveCap(st.ring), "expired")
    BY DEF CapLive
  <2> HIDE DEF b
  <2> QED
    BY <1>1, <1>2, <2>1, RetireGood
<1> HIDE DEF b
<1>4. /\ StoreGood(c, a, m) /\ DOMAIN c.ring = DOMAIN b.ring
      /\ \A i \in DOMAIN b.ring :
           /\ c.ring[i].id = b.ring[i].id
           /\ c.ring[i].live <=> (b.ring[i].live /\ i \notin past)
  BY <1>1, <1>3, RetireGood
<1> HIDE DEF c
<1>5. \A i \in DOMAIN c.ring : i > RingCap => ~c.ring[i].live
  BY <1>4
<1>6. RingCap \in Nat
  BY RingAssumption
<1>7. /\ StoreGood(Truncate(c, RingCap), a, m)
      /\ Len(Truncate(c, RingCap).ring) <= RingCap
      /\ \A i \in DOMAIN Truncate(c, RingCap).ring :
           i \in DOMAIN c.ring /\ Truncate(c, RingCap).ring[i] = c.ring[i]
  BY <1>4, <1>5, <1>6, TruncateGood
<1>8. EnforceCaps(st) = Truncate(c, RingCap)
  BY DEF EnforceCaps, CapRing, b, c
<1> QED
  BY <1>3, <1>4, <1>7, <1>8

(* The entry a Notify leaves, before and after its timer is decided.       *)
LEMMA FilledEntry ==
  ASSUME NEW e \in Entry, NEW c \in BOOLEAN, NEW k \in Nat
  PROVE  /\ Filled(e, c, k) \in Entry
         /\ Filled(e, c, k).id = e.id /\ Filled(e, c, k).serial = e.serial
         /\ (Filled(e, c, k).critical <=> c)
         /\ (Filled(e, c, k).timer <=> e.timer)
         /\ Filled(e, c, k).live
BY DEF Entry, Filled

LEMMA TimedEntry ==
  ASSUME NEW e \in Entry, NEW t \in BOOLEAN
  PROVE  /\ Timed(e, t) \in Entry
         /\ Timed(e, t).id = e.id /\ Timed(e, t).serial = e.serial
         /\ (Timed(e, t).live <=> e.live)
         /\ (Timed(e, t).timer <=> t)
BY DEF Entry, Timed

(* The senders' word after one more Notify.                                *)
Intent(m, s, c, t) == [m EXCEPT ![s] = ~c /\ t # 0]

(* The store in the middle of sofi_notify_store_add(), the entry at i      *)
(* about to be filled in: good but for that entry, whose sender has not    *)
(* been told that it closed.                                               *)
Ready(st, a, m, i) ==
  /\ RingShape(st.ring, a, m)
  /\ TimersGood(st.ring, st.armed, m)
  /\ i \in DOMAIN st.ring
  /\ st.ring[i].serial # 0
  /\ st.signals \in [Serial -> {<<>>} \cup ClosedTraces]
  /\ st.signals[st.ring[i].serial] = <<>>
  /\ \A s \in Serial \ {st.ring[i].serial} :
       /\ s <= a /\ ~OnScreen(st.ring, s) => st.signals[s] \in ClosedTraces
       /\ ~(s <= a /\ ~OnScreen(st.ring, s)) => st.signals[s] = <<>>

(* What sofi_notify_store_add() and arm_timer() do to the entry at i: it   *)
(* is on screen afterwards, with a source exactly if it may expire, and    *)
(* whatever source it held before is gone.                                 *)
LEMMA FillArm ==
  ASSUME NEW b, NEW a \in 0..MaxNew,
         NEW m \in [Serial -> BOOLEAN], NEW i,
         NEW c \in BOOLEAN, NEW k \in Nat, NEW t \in Int,
         Ready(b, a, m, i)
  PROVE  /\ StoreGood(Arm(Fill(b, i, c, k), i, t), a,
                      Intent(m, b.ring[i].serial, c, t))
         /\ DOMAIN Arm(Fill(b, i, c, k), i, t).ring = DOMAIN b.ring
         /\ \A j \in DOMAIN b.ring :
              Arm(Fill(b, i, c, k), i, t).ring[j].id = b.ring[j].id
<1> DEFINE st == Arm(Fill(b, i, c, k), i, t)
           m2 == Intent(m, b.ring[i].serial, c, t)
           r == b.ring
           ar == b.armed
           sg == b.signals
           s0 == r[i].serial
           arms == ~c /\ t # 0
           e == Filled(r[i], c, k)
           f == Timed(e, arms)
           left == Cancel(ar, r, {i})
<1>0. /\ RingShape(r, a, m) /\ TimersGood(r, ar, m)
      /\ i \in DOMAIN r /\ s0 # 0
      /\ sg \in [Serial -> {<<>>} \cup ClosedTraces] /\ sg[s0] = <<>>
      /\ \A s \in Serial \ {s0} :
           /\ s <= a /\ ~OnScreen(r, s) => sg[s] \in ClosedTraces
           /\ ~(s <= a /\ ~OnScreen(r, s)) => sg[s] = <<>>
  BY DEF Ready
<1>1. r \in Seq(Entry) /\ Len(r) \in Nat /\ DOMAIN r = 1..Len(r)
  BY <1>0, LenProperties DEF RingShape
<1>2. r[i] \in Entry /\ s0 \in Serial
  <2>1. r[i] \in Entry
    BY <1>0, <1>1, ElementOfSeq
  <2>2. s0 \in 0..MaxNew /\ s0 # 0
    BY <1>0, <2>1 DEF Entry
  <2> QED
    BY <1>0, <2>1, <2>2, StoreAssumption DEF Serial
<1>3. /\ f \in Entry /\ f.id = r[i].id /\ f.serial = s0
      /\ f.live /\ (f.timer <=> arms)
      /\ (e.critical <=> c) /\ e.serial = s0 /\ (e.timer <=> r[i].timer)
  <2>1. arms \in BOOLEAN
    OBVIOUS
  <2>2. e \in Entry
    BY <1>2, FilledEntry
  <2>3. e.id = r[i].id /\ e.live /\ e.serial = s0
    BY <1>2, FilledEntry
  <2>4. (e.critical <=> c) /\ (e.timer <=> r[i].timer)
    BY <1>2, FilledEntry
  <2> HIDE DEF arms, e
  <2> QED
    BY <1>0, <2>1, <2>2, <2>3, <2>4, TimedEntry
<1>4. /\ st.ring = [r EXCEPT ![i] = f]
      /\ st.signals = sg
      /\ st.armed = IF arms THEN Started(left, s0) ELSE left
  <2> DEFINE u == [r EXCEPT ![i] = e]
             g == [ring |-> u, armed |-> ar, signals |-> sg]
  <2>1. Fill(b, i, c, k) = g
    BY <1>0 DEF Fill
  <2>2. st = Arm(g, i, t)
    BY <1>0, <2>1
  <2>3. u[i] = e /\ g.ring = u /\ g.armed = ar /\ g.signals = sg
    BY <1>0, <1>1
  <2>4. [u EXCEPT ![i] = f] = [r EXCEPT ![i] = f]
    <3> HIDE DEF e, f
    <3> QED
      BY <1>0, <1>1
  <2> HIDE DEF u, g, e
  <2>5. (~g.ring[i].critical /\ t # 0) <=> arms
    BY <1>0, <1>3, <2>3
  <2>6. g.ring[i].serial = s0 /\ (g.ring[i].timer <=> r[i].timer)
    BY <1>0, <1>3, <2>3
  <2>7. Cancel(g.armed, g.ring, {i}) = left
    BY <1>0, <2>3, <2>6 DEF Cancel
  <2> HIDE DEF s0, left, arms, f
  <2>8. st.ring = [g.ring EXCEPT ![i] = Timed(g.ring[i], arms)]
    <3>1. st.ring = [g.ring EXCEPT ![i] =
                       Timed(g.ring[i], ~g.ring[i].critical /\ t # 0)]
      BY <1>0, <2>2 DEF Arm
    <3>2. (~g.ring[i].critical /\ t # 0) = arms
      BY <1>0, <2>5 DEF arms
    <3> QED
      BY <1>0, <3>1, <3>2
  <2>9. st.armed = IF arms THEN Started(left, s0) ELSE left
    <3>1. st.armed = IF ~g.ring[i].critical /\ t # 0
                     THEN Started(Cancel(g.armed, g.ring, {i}), g.ring[i].serial)
                     ELSE Cancel(g.armed, g.ring, {i})
      BY <1>0, <2>2 DEF Arm
    <3>2. CASE arms
      BY <1>0, <2>5, <2>6, <2>7, <3>1, <3>2
    <3>3. CASE ~arms
      BY <1>0, <2>5, <2>7, <3>1, <3>3
    <3> QED
      BY <1>0, <3>2, <3>3
  <2>10. st.signals = g.signals
    BY <1>0, <2>2 DEF Arm
  <2> QED
    BY <1>0, <2>3, <2>4, <2>8, <2>9, <2>10 DEF f
<1> HIDE DEF f, e
<1>5. /\ st.ring \in Seq(Entry) /\ DOMAIN st.ring = DOMAIN r
      /\ st.ring[i] = f
      /\ \A j \in DOMAIN r : j # i => st.ring[j] = r[j]
  <2>1. i \in 1..Len(r) /\ f \in Entry /\ r \in Seq(Entry)
    BY <1>0, <1>1, <1>3
  <2>2. /\ st.ring \in Seq(Entry) /\ Len(st.ring) = Len(r)
        /\ \A j \in 1..Len(r) : st.ring[j] = IF j = i THEN f ELSE r[j]
    <3> DEFINE w == [r EXCEPT ![i] = f]
    <3>1. /\ w \in Seq(Entry) /\ Len(w) = Len(r)
          /\ \A j \in 1..Len(r) : w[j] = IF j = i THEN f ELSE r[j]
      BY <1>0, <2>1, ExceptSeq
    <3>2. st.ring = w
      BY <1>0, <1>4
    <3> HIDE DEF w
    <3> QED
      BY <1>0, <3>1, <3>2
  <2>3. DOMAIN st.ring = 1..Len(st.ring)
    BY <1>0, <2>2, LenProperties
  <2> QED
    BY <1>0, <1>1, <2>1, <2>2, <2>3
<1>6. m2 \in [Serial -> BOOLEAN] /\ m2[s0] = arms
      /\ \A s \in Serial : s # s0 => m2[s] = m[s]
  BY <1>0, <1>2 DEF Intent
<1>7. \A j \in DOMAIN r : j # i => r[j].serial # s0
  BY <1>0, <1>2 DEF RingShape
<1>8. RingShape(st.ring, a, m2)
  <2>1. ASSUME NEW j \in DOMAIN r
        PROVE  /\ st.ring[j].serial <= a
               /\ st.ring[j].serial = 0 => ~st.ring[j].live /\ ~st.ring[j].timer
               /\ st.ring[j].serial = r[j].serial
               /\ st.ring[j].serial # 0 =>
                    (st.ring[j].timer <=> st.ring[j].live /\ m2[st.ring[j].serial])
    <3>1. CASE j = i
      BY <1>0, <1>2, <1>3, <1>5, <1>6, <3>1 DEF RingShape
    <3>2. CASE j # i
      <4>1. st.ring[j] = r[j] /\ r[j].serial # s0
        BY <1>0, <1>5, <1>7, <3>2
      <4>2. r[j].serial # 0 => r[j].serial \in Serial
        <5>1. r[j] \in Entry
          BY <1>0, <1>1, ElementOfSeq
        <5> QED
          BY <1>0, <5>1, StoreAssumption DEF Entry, Serial
      <4>3. r[j].serial # 0 => m2[r[j].serial] = m[r[j].serial]
        BY <1>0, <1>6, <4>1, <4>2
      <4> QED
        BY <1>0, <4>1, <4>3 DEF RingShape
    <3> QED
      BY <1>0, <3>1, <3>2
  <2> QED
    BY <1>0, <1>5, <2>1 DEF RingShape
<1>9. /\ OnScreen(st.ring, s0)
      /\ \A s : s # s0 => (OnScreen(st.ring, s) <=> OnScreen(r, s))
  BY <1>0, <1>3, <1>5, <1>7 DEF OnScreen
<1>10. TimersGood(st.ring, st.armed, m2)
  <2>1. /\ left \in [Serial -> Nat] /\ left[s0] = 0
        /\ \A s \in Serial : s # s0 => left[s] = ar[s]
    <3> DEFINE held == {r[j].serial : j \in {h \in {i} : r[h].timer}}
    <3>1. left = [s \in Serial |-> IF s \in held THEN ar[s] - 1 ELSE ar[s]]
      BY <1>0 DEF Cancel, TimersGood
    <3>2. \A s \in held : s = s0
      OBVIOUS
    <3>3. s0 \in held <=> r[i].timer
      OBVIOUS
    <3>4. ar[s0] = IF r[i].timer THEN 1 ELSE 0
      <4>1. r[i].timer <=> r[i].live /\ m[s0]
        BY <1>0 DEF RingShape
      <4>2. OnScreen(r, s0) <=> r[i].live
        BY <1>0, <1>7 DEF OnScreen
      <4>3. OnScreen(r, s0) /\ m[s0] => ar[s0] = 1
        BY <1>0, <1>2 DEF TimersGood
      <4>4. ~(OnScreen(r, s0) /\ m[s0]) => ar[s0] = 0
        BY <1>0, <1>2 DEF TimersGood
      <4> QED
        BY <1>0, <4>1, <4>2, <4>3, <4>4
    <3>5. ar \in [Serial -> Nat]
      BY <1>0 DEF TimersGood
    <3>6. left[s0] = 0
      BY <1>0, <1>2, <3>1, <3>3, <3>4
    <3>7. \A s \in Serial : s # s0 => left[s] = ar[s]
      BY <1>0, <3>1, <3>2
    <3> HIDE DEF left
    <3>8. ASSUME NEW s \in Serial PROVE left[s] \in Nat
      <4>1. CASE s = s0
        BY <1>0, <3>6, <4>1
      <4>2. CASE s # s0
        BY <1>0, <3>5, <3>7, <4>2
      <4> QED
        BY <1>0, <4>1, <4>2
    <3> QED
      BY <1>0, <3>1, <3>6, <3>7, <3>8
  <2> HIDE DEF left
  <2>2. /\ st.armed \in [Serial -> Nat]
        /\ st.armed[s0] = IF arms THEN 1 ELSE 0
        /\ \A s \in Serial : s # s0 => st.armed[s] = ar[s]
    <3> HIDE DEF arms
    <3>1. CASE arms
      <4>1. st.armed = [left EXCEPT ![s0] = left[s0] + 1]
        BY <1>0, <1>4, <3>1 DEF Started
      <4>2. left[s0] + 1 = 1 /\ 1 \in Nat
        BY <1>0, <2>1
      <4>3. st.armed = [left EXCEPT ![s0] = 1]
        BY <1>0, <4>1, <4>2
      <4>4. st.armed \in [Serial -> Nat] /\ st.armed[s0] = 1
        BY <1>0, <1>2, <2>1, <4>2, <4>3
      <4>5. \A s \in Serial : s # s0 => st.armed[s] = left[s]
        BY <1>0, <2>1, <4>3
      <4> QED
        BY <1>0, <2>1, <3>1, <4>4, <4>5
    <3>2. CASE ~arms
      <4>1. st.armed = left
        BY <1>0, <1>4, <3>2
      <4> QED
        BY <1>0, <1>2, <2>1, <3>2, <4>1
    <3> QED
      BY <1>0, <3>1, <3>2
  <2>3. ASSUME NEW s \in Serial
        PROVE  /\ OnScreen(st.ring, s) /\ m2[s] => st.armed[s] = 1
               /\ ~(OnScreen(st.ring, s) /\ m2[s]) => st.armed[s] = 0
    <3>1. CASE s = s0
      BY <1>0, <1>6, <1>9, <2>2, <3>1
    <3>2. CASE s # s0
      BY <1>0, <1>6, <1>9, <2>2, <3>2 DEF TimersGood
    <3> QED
      BY <1>0, <3>1, <3>2
  <2> QED
    BY <1>0, <2>2, <2>3 DEF TimersGood
<1>11. SignalsGood(st.ring, st.signals, a)
  BY <1>0, <1>4, <1>9 DEF SignalsGood
<1>12. \A j \in DOMAIN r : st.ring[j].id = r[j].id
  BY <1>0, <1>3, <1>5
<1> QED
  BY <1>0, <1>5, <1>8, <1>10, <1>11, <1>12 DEF StoreGood

(* Ring and entry of a Notify that found no live entry to replace.         *)
LEMMA InsertGood ==
  ASSUME NEW st, NEW a \in 0..MaxNew, NEW m \in [Serial -> BOOLEAN],
         a < MaxNew, NEW n \in 1..IdMax, StoreGood(st, a, m)
  PROVE  LET q == Insert(st, Blank(n, a + 1)).ring
         IN /\ q \in Seq(Entry) /\ Len(q) = Len(st.ring) + 1 /\ 1 \in DOMAIN q
            /\ q[1] = Blank(n, a + 1)
            /\ \A i \in DOMAIN q :
                 i # 1 => i - 1 \in DOMAIN st.ring /\ q[i] = st.ring[i - 1]
            /\ \A s \in Serial : OnScreen(q, s) <=> OnScreen(st.ring, s)
            /\ RingShape(q, a + 1, m)
            /\ TimersGood(q, st.armed, m)
<1> DEFINE r == st.ring
           q == Insert(st, Blank(n, a + 1)).ring
           e == Blank(n, a + 1)
<1>0. q = <<e>> \o r /\ RingShape(r, a, m) /\ TimersGood(r, st.armed, m)
  BY DEF Insert, StoreGood
<1> HIDE DEF q
<1>1. r \in Seq(Entry) /\ Len(r) \in Nat /\ DOMAIN r = 1..Len(r)
  BY <1>0, LenProperties DEF RingShape
<1>2. e \in Entry /\ e.serial = a + 1 /\ ~e.live /\ ~e.timer
  BY StoreAssumption DEF Blank, Entry
<1> HIDE DEF e
<1>3. <<e>> \in Seq(Entry) /\ Len(<<e>>) = 1 /\ <<e>>[1] = e
  BY <1>2
<1>4. /\ q \in Seq(Entry) /\ Len(q) = Len(r) + 1
      /\ \A i \in 1..(Len(r) + 1) : q[i] = IF i <= 1 THEN <<e>>[i] ELSE r[i - 1]
  <2>1. q = <<e>> \o r
    BY <1>0
  <2>2. /\ <<e>> \o r \in Seq(Entry)
        /\ Len(<<e>> \o r) = Len(<<e>>) + Len(r)
        /\ \A i \in 1 .. Len(<<e>>) + Len(r) : (<<e>> \o r)[i] =
              IF i <= Len(<<e>>) THEN <<e>>[i] ELSE r[i - Len(<<e>>)]
    BY <1>1, <1>3, ConcatProperties
  <2> QED
    BY <1>1, <1>3, <2>1, <2>2
<1>5. DOMAIN q = 1..(Len(r) + 1)
  BY <1>4, LenProperties
<1>6. q[1] = e /\ 1 \in DOMAIN q
  BY <1>1, <1>3, <1>4, <1>5
<1>7. \A i \in DOMAIN r : i + 1 \in DOMAIN q /\ q[i + 1] = r[i]
  BY <1>1, <1>4, <1>5
<1>8. \A i \in DOMAIN q : i # 1 => i - 1 \in DOMAIN r /\ q[i] = r[i - 1]
  BY <1>1, <1>4, <1>5
<1>9. \A s \in Serial : OnScreen(q, s) <=> OnScreen(r, s)
  <2> SUFFICES ASSUME NEW s \in Serial
               PROVE  OnScreen(q, s) <=> OnScreen(r, s)
    OBVIOUS
  <2>1. ASSUME OnScreen(q, s) PROVE OnScreen(r, s)
    <3>1. PICK i \in DOMAIN q : q[i].serial = s /\ q[i].live
      BY <2>1 DEF OnScreen
    <3>2. i # 1
      BY <1>2, <1>6, <3>1
    <3> QED
      BY <1>8, <3>1, <3>2 DEF OnScreen
  <2>2. ASSUME OnScreen(r, s) PROVE OnScreen(q, s)
    <3>1. PICK i \in DOMAIN r : r[i].serial = s /\ r[i].live
      BY <2>2 DEF OnScreen
    <3> QED
      BY <1>7, <3>1 DEF OnScreen
  <2> QED
    BY <2>1, <2>2
<1>10. RingShape(q, a + 1, m)
  <2>1. ASSUME NEW i \in DOMAIN q
        PROVE  /\ q[i].serial <= a + 1
               /\ q[i].serial = 0 => ~q[i].live /\ ~q[i].timer
               /\ q[i].serial # 0 => (q[i].timer <=> q[i].live /\ m[q[i].serial])
               /\ i # 1 => q[i].serial <= a
    <3>1. CASE i = 1
      BY <1>2, <1>6, <3>1
    <3>2. CASE i # 1
      <4>1. i - 1 \in DOMAIN r /\ q[i] = r[i - 1]
        BY <1>8, <3>2
      <4>2. r[i - 1].serial \in Int /\ r[i - 1].serial <= a
        <5>1. r[i - 1] \in Entry
          BY <1>1, <4>1, ElementOfSeq
        <5>2. r[i - 1].serial <= a
          BY <1>0, <4>1 DEF RingShape
        <5> QED
          BY <5>1, <5>2 DEF Entry
      <4> QED
        BY <1>0, <4>1, <4>2 DEF RingShape
    <3> QED
      BY <3>1, <3>2
  <2>2. ASSUME NEW i \in DOMAIN q, NEW j \in DOMAIN q,
               q[i].serial = q[j].serial, q[i].serial # 0
        PROVE  i = j
    <3>1. CASE i = 1 \/ j = 1
      <4>1. a + 1 <= a => FALSE
        OBVIOUS
      <4> QED
        BY <1>2, <1>6, <2>1, <2>2, <3>1, <4>1
    <3>2. CASE i # 1 /\ j # 1
      <4>1. i - 1 = j - 1
        BY <1>0, <1>8, <2>2, <3>2 DEF RingShape
      <4> QED
        BY <1>1, <1>5, <4>1
    <3> QED
      BY <3>1, <3>2
  <2> QED
    BY <1>4, <2>1, <2>2 DEF RingShape
<1>11. TimersGood(q, st.armed, m)
  BY <1>0, <1>9 DEF TimersGood
<1> QED
  BY <1>4, <1>6, <1>7, <1>8, <1>9, <1>10, <1>11 DEF q, e

(* find_live() stops at an entry of the set it looks through.              *)
LEMMA FirstIsIn ==
  ASSUME NEW I \in SUBSET Nat, I # {}
  PROVE  First(I) \in I
<1>1. \E x \in I : \A y \in I : ~(<<y, x>> \in OpToRel(<, Nat))
  BY WFMin, NatLessThanWellFounded
<1>2. PICK x \in I : \A y \in I : ~(<<y, x>> \in OpToRel(<, Nat))
  BY <1>1
<1>3. \A y \in I : x <= y
  <2> SUFFICES ASSUME NEW y \in I, ~(x <= y)
               PROVE  FALSE
    OBVIOUS
  <2>1. <<y, x>> \in Nat \X Nat /\ <<y, x>>[1] = y /\ <<y, x>>[2] = x
    OBVIOUS
  <2>2. y < x
    BY <2>1
  <2>3. OpToRel(<, Nat) = {ss \in Nat \X Nat : ss[1] < ss[2]}
    BY DEF OpToRel
  <2>4. <<y, x>> \in OpToRel(<, Nat)
    BY <2>1, <2>2, <2>3
  <2> QED
    BY <1>2, <2>4
<1> QED
  BY <1>3 DEF First

--------------------------------------------------------------------------------
(* How many are on screen.                                                 *)

LEMMA LiveIsFinite ==
  ASSUME NEW r \in Seq(Entry)
  PROVE  IsFiniteSet(LiveIn(r)) /\ LiveIn(r) \subseteq 1..Len(r)
<1>1. Len(r) \in Nat /\ DOMAIN r = 1..Len(r)
  BY LenProperties
<1>2. LiveIn(r) \in SUBSET (1..Len(r))
  BY <1>1 DEF LiveIn
<1>3. IsFiniteSet(1..Len(r))
  BY <1>1, FS_Interval
<1>4. IsFiniteSet(LiveIn(r))
  BY <1>2, <1>3, FS_Subset
<1> QED
  BY <1>2, <1>4

(* What removes live entries and adds none does not raise their number.    *)
LEMMA FewerLive ==
  ASSUME NEW r \in Seq(Entry), NEW q \in Seq(Entry),
         \A i \in DOMAIN q : q[i].live => i \in DOMAIN r /\ r[i].live
  PROVE  Cardinality(LiveIn(q)) <= Cardinality(LiveIn(r))
BY LiveIsFinite, FS_Subset DEF LiveIn

(* The live cap: the entries it spares are told apart by how many live     *)
(* ones stand at or before them, a number in 1..LiveMax.                   *)
LEMMA CapLiveBound ==
  ASSUME NEW st, st.ring \in Seq(Entry)
  PROVE  Cardinality(LiveIn(CapLive(st).ring)) <= LiveMax
<1> DEFINE r == st.ring
           upto(i) == {j \in LiveIn(r) : j <= i}
           kept == LiveIn(CapLive(st).ring)
           rank == [i \in kept |-> Cardinality(upto(i))]
<1>1. IsFiniteSet(LiveIn(r)) /\ LiveIn(r) \subseteq Nat
  BY LiveIsFinite
<1>2. kept = LiveIn(r) \ OverLiveCap(r)
  <2>1. CapLive(st) = Retire(st, OverLiveCap(r), "expired")
    BY DEF CapLive
  <2>2. LET q == Retire(st, OverLiveCap(r), "expired").ring
        IN /\ DOMAIN q = DOMAIN r
           /\ \A i \in DOMAIN r :
                q[i].live <=> (r[i].live /\ i \notin OverLiveCap(r))
    BY RetireRing
  <2> QED
    BY <2>1, <2>2 DEF LiveIn
<1> HIDE DEF kept
<1>3. ASSUME NEW i \in LiveIn(r)
      PROVE  /\ IsFiniteSet(upto(i)) /\ i \in upto(i)
             /\ Cardinality(upto(i)) \in Nat \ {0}
  <2>1. upto(i) \in SUBSET LiveIn(r) /\ i \in upto(i)
    BY <1>1
  <2>2. IsFiniteSet(upto(i))
    BY <1>1, <2>1, FS_Subset
  <2> QED
    BY <2>1, <2>2, FS_CardinalityType, FS_EmptySet
<1>4. \A i \in kept : Cardinality(upto(i)) <= LiveMax
  <2> SUFFICES ASSUME NEW i \in kept
               PROVE  Cardinality(upto(i)) <= LiveMax
    OBVIOUS
  <2>1. i \in LiveIn(r) /\ i \notin OverLiveCap(r)
    BY <1>2
  <2>2. ~(Cardinality(upto(i)) > LiveMax)
    <3>1. OverLiveCap(r) = {x \in LiveIn(r) : Cardinality(upto(x)) > LiveMax}
      BY DEF OverLiveCap
    <3> HIDE DEF upto
    <3> QED
      BY <2>1, <3>1
  <2>3. Cardinality(upto(i)) \in Nat /\ LiveMax \in Nat
    BY <1>3, <2>1, RingAssumption
  <2> HIDE DEF upto
  <2> QED
    BY <2>2, <2>3
<1>5. ASSUME NEW i \in LiveIn(r), NEW j \in LiveIn(r), i < j
      PROVE  Cardinality(upto(i)) # Cardinality(upto(j))
  <2>1. upto(i) \in SUBSET upto(j) /\ j \notin upto(i)
    BY <1>1, <1>5
  <2> QED
    BY <1>3, <2>1, FS_Subset
<1>6. rank \in Injection(kept, 1..LiveMax)
  <2>1. rank \in [kept -> 1..LiveMax]
    BY <1>2, <1>3, <1>4, RingAssumption
  <2>2. ASSUME NEW i \in kept, NEW j \in kept, rank[i] = rank[j]
        PROVE  i = j
    <3>1. Cardinality(upto(i)) = Cardinality(upto(j))
      BY <2>2
    <3>2. i \in Nat /\ j \in Nat /\ i \in LiveIn(r) /\ j \in LiveIn(r)
      BY <1>1, <1>2
    <3> QED
      BY <1>5, <3>1, <3>2
  <2> HIDE DEF rank
  <2> QED
    BY <2>1, <2>2 DEF Injection, IsInjective
<1>7. IsFiniteSet(1..LiveMax) /\ Cardinality(1..LiveMax) = LiveMax
  BY FS_Interval, RingAssumption
<1> HIDE DEF rank
<1> QED
  BY <1>6, <1>7, FS_Injection DEF kept

LEMMA CapsBound ==
  ASSUME NEW st, NEW a \in 0..MaxNew, NEW m \in [Serial -> BOOLEAN],
         StoreGood(st, a, m)
  PROVE  Cardinality(LiveIn(EnforceCaps(st).ring)) <= LiveMax
<1> DEFINE b == CapLive(st)
           past == {i \in DOMAIN b.ring : i > RingCap}
           c == Retire(b, past, "expired")
           d == EnforceCaps(st)
<1>1. "expired" \in Reasons
  BY DEF Reasons
<1>2. OverLiveCap(st.ring) \in SUBSET DOMAIN st.ring
  BY DEF OverLiveCap, LiveIn
<1>3. StoreGood(b, a, m) /\ DOMAIN b.ring = DOMAIN st.ring
  <2>1. b = Retire(st, OverLiveCap(st.ring), "expired")
    BY DEF CapLive
  <2> HIDE DEF b
  <2> QED
    BY <1>1, <1>2, <2>1, RetireGood
<1>4. Cardinality(LiveIn(b.ring)) <= LiveMax
  BY CapLiveBound DEF StoreGood, RingShape
<1> HIDE DEF b
<1>5. /\ StoreGood(c, a, m) /\ DOMAIN c.ring = DOMAIN b.ring
      /\ \A i \in DOMAIN b.ring :
           /\ c.ring[i].id = b.ring[i].id
           /\ c.ring[i].live <=> (b.ring[i].live /\ i \notin past)
  <2>1. past \in SUBSET DOMAIN b.ring
    OBVIOUS
  <2>2. c = Retire(b, past, "expired")
    OBVIOUS
  <2> HIDE DEF past, c
  <2> QED
    BY <1>1, <1>3, <2>1, <2>2, RetireGood
<1> HIDE DEF c
<1>6. RingCap \in Nat /\ \A i \in DOMAIN c.ring : i > RingCap => ~c.ring[i].live
  BY <1>5, RingAssumption
<1>7. d = Truncate(c, RingCap)
  BY DEF EnforceCaps, CapRing, b, c
<1>8. /\ StoreGood(d, a, m)
      /\ \A i \in DOMAIN d.ring : i \in DOMAIN c.ring /\ d.ring[i] = c.ring[i]
  <2> HIDE DEF d
  <2> QED
    BY <1>5, <1>6, <1>7, TruncateGood
<1> HIDE DEF d
<1>9. b.ring \in Seq(Entry) /\ d.ring \in Seq(Entry)
  BY <1>3, <1>8 DEF StoreGood, RingShape
<1>10. Cardinality(LiveIn(d.ring)) <= Cardinality(LiveIn(b.ring))
  BY <1>5, <1>8, <1>9, FewerLive
<1>11. Cardinality(LiveIn(b.ring)) \in Nat /\ Cardinality(LiveIn(d.ring)) \in Nat
  BY <1>9, LiveIsFinite, FS_CardinalityType
<1> QED
  BY <1>4, <1>10, <1>11, RingAssumption DEF d

--------------------------------------------------------------------------------
(* Ids count down the ring from the counter, around the end of a guint32.  *)
IdsCount(r, n) ==
  \A i \in DOMAIN r : r[i].id = IF i < n THEN n - i ELSE n - i + IdMax

StoreInv(st, a, m, n) ==
  /\ StoreGood(st, a, m)
  /\ IdsCount(st.ring, n)
  /\ Len(st.ring) <= RingCap
  /\ Cardinality(LiveIn(st.ring)) <= LiveMax

IInv ==
  /\ StoreInv(Store, added, mortal, nextId)
  /\ nextId \in 1..IdMax
  /\ stale \in BOOLEAN
  /\ added \in 0..MaxNew
  /\ replaced \in 0..MaxReplaces
  /\ mortal \in [Serial -> BOOLEAN]
  /\ idOf \in [Serial -> 0..IdMax]

(* A counter that runs around a range longer than the ring gives no id to  *)
(* two of its entries.                                                     *)
LEMMA CountedIdsDiffer ==
  ASSUME NEW r \in Seq(Entry), NEW n \in 1..IdMax,
         IdsCount(r, n), Len(r) <= RingCap,
         NEW i \in DOMAIN r, NEW j \in DOMAIN r, r[i].id = r[j].id
  PROVE  i = j
<1>1. Len(r) \in Nat /\ DOMAIN r = 1..Len(r)
  BY LenProperties
<1>2. /\ i \in 1..RingCap /\ j \in 1..RingCap
      /\ RingCap \in Nat /\ IdMax \in Nat /\ RingCap < IdMax
  BY <1>1, RingAssumption
<1>3. /\ r[i].id = IF i < n THEN n - i ELSE n - i + IdMax
      /\ r[j].id = IF j < n THEN n - j ELSE n - j + IdMax
  BY DEF IdsCount
<1>4. (IF i < n THEN n - i ELSE n - i + IdMax) =
        (IF j < n THEN n - j ELSE n - j + IdMax)
  BY <1>3
<1>5. i \in Int /\ j \in Int /\ n \in Int /\ IdMax \in Int
      /\ 1 <= i /\ i < IdMax /\ 1 <= j /\ j < IdMax
  BY <1>2
<1> QED
  BY <1>4, <1>5

LEMMA RetireInv ==
  ASSUME NEW st, NEW a \in 0..MaxNew, NEW m \in [Serial -> BOOLEAN], NEW n,
         StoreInv(st, a, m, n),
         NEW I \in SUBSET DOMAIN st.ring, NEW why \in Reasons
  PROVE  StoreInv(Retire(st, I, why), a, m, n)
<1> DEFINE q == Retire(st, I, why)
<1>1. /\ StoreGood(q, a, m)
      /\ DOMAIN q.ring = DOMAIN st.ring
      /\ Len(q.ring) = Len(st.ring)
      /\ \A i \in DOMAIN st.ring :
           /\ q.ring[i].id = st.ring[i].id
           /\ q.ring[i].live <=> (st.ring[i].live /\ i \notin I)
  BY RetireGood DEF StoreInv
<1> HIDE DEF q
<1>2. st.ring \in Seq(Entry) /\ q.ring \in Seq(Entry)
  BY <1>1 DEF StoreInv, StoreGood, RingShape
<1>3. Cardinality(LiveIn(q.ring)) <= Cardinality(LiveIn(st.ring))
  BY <1>1, <1>2, FewerLive
<1>4. Cardinality(LiveIn(q.ring)) \in Nat /\ Cardinality(LiveIn(st.ring)) \in Nat
  BY <1>2, LiveIsFinite, FS_CardinalityType
<1>5. Cardinality(LiveIn(q.ring)) <= LiveMax
  BY <1>3, <1>4, RingAssumption DEF StoreInv
<1>6. IdsCount(q.ring, n)
  BY <1>1 DEF StoreInv, IdsCount
<1> QED
  BY <1>1, <1>5, <1>6 DEF StoreInv, q

LEMMA TruncateInv ==
  ASSUME NEW st, NEW a \in 0..MaxNew, NEW m \in [Serial -> BOOLEAN], NEW n,
         StoreInv(st, a, m, n),
         \A i \in DOMAIN st.ring : ~st.ring[i].live
  PROVE  StoreInv(Truncate(st, 0), a, m, n)
<1> DEFINE q == Truncate(st, 0)
<1>1. /\ StoreGood(q, a, m)
      /\ Len(q.ring) <= 0
  BY TruncateGood DEF StoreInv
<1> HIDE DEF q
<1>2. q.ring \in Seq(Entry)
  BY <1>1 DEF StoreGood, RingShape
<1>3. DOMAIN q.ring = {} /\ Len(q.ring) = 0
  BY <1>1, <1>2, LenProperties
<1>4. LiveIn(q.ring) = {}
  BY <1>3 DEF LiveIn
<1>5. Cardinality(LiveIn(q.ring)) <= LiveMax
  BY <1>4, FS_EmptySet, RingAssumption
<1>6. IdsCount(q.ring, n) /\ Len(q.ring) <= RingCap
  BY <1>3, RingAssumption DEF IdsCount
<1> QED
  BY <1>1, <1>5, <1>6 DEF StoreInv, q

(* sofi_notify_store_add() from the moment the entry is in the ring at i.  *)
LEMMA FinishInv ==
  ASSUME NEW st, NEW a \in 0..MaxNew, NEW m \in [Serial -> BOOLEAN], NEW n,
         NEW i, NEW c \in BOOLEAN, NEW k \in Nat, NEW t \in Int,
         Ready(st, a, m, i), IdsCount(st.ring, n)
  PROVE  StoreInv(Finish(st, i, c, t, k), a,
                  Intent(m, st.ring[i].serial, c, t), n)
<1> DEFINE d == Arm(Fill(st, i, c, k), i, t)
           q == Finish(st, i, c, t, k)
           m2 == Intent(m, st.ring[i].serial, c, t)
<1>1. /\ StoreGood(d, a, m2)
      /\ DOMAIN d.ring = DOMAIN st.ring
      /\ \A j \in DOMAIN st.ring : d.ring[j].id = st.ring[j].id
  BY FillArm
<1>2. m2 \in [Serial -> BOOLEAN]
  BY DEF Intent
<1>3. q = EnforceCaps(d)
  BY DEF Finish
<1> HIDE DEF d, m2, q
<1>4. /\ StoreGood(EnforceCaps(d), a, m2)
      /\ Len(EnforceCaps(d).ring) <= RingCap
      /\ \A j \in DOMAIN EnforceCaps(d).ring :
           j \in DOMAIN d.ring /\ EnforceCaps(d).ring[j].id = d.ring[j].id
  BY <1>1, <1>2, CapsGood
<1>5. Cardinality(LiveIn(q.ring)) <= LiveMax
  BY <1>1, <1>2, <1>3, CapsBound
<1>6. IdsCount(q.ring, n)
  BY <1>1, <1>3, <1>4 DEF IdsCount
<1> QED
  BY <1>3, <1>4, <1>5, <1>6 DEF StoreInv, q, m2

(* Become puts a store's parts into the variables.                         *)
LEMMA BecomeInv ==
  ASSUME NEW st, NEW a, NEW m, NEW n, StoreInv(st, a, m, n), Become(st)
  PROVE  StoreInv(Store', a, m, n) /\ stale' \in BOOLEAN
<1>1. /\ ring' = st.ring /\ armed' = st.armed /\ signals' = st.signals
      /\ stale' \in BOOLEAN
  BY StoreAssumption DEF Become
<1>2. /\ Store'.ring = st.ring /\ Store'.armed = st.armed
      /\ Store'.signals = st.signals
  BY <1>1 DEF Store
<1> QED
  BY <1>1, <1>2 DEF StoreInv, StoreGood

--------------------------------------------------------------------------------
(* The invariant holds at first, and every step keeps it.                  *)

LEMMA InitInv == Init => IInv
<1> SUFFICES ASSUME Init PROVE IInv
  OBVIOUS
<1>1. PICK l \in Loads : ring = l.ring /\ nextId = l.nextId
  BY DEF Init
<1>2. LoadOK(l)
  BY StoreAssumption
<1>3. /\ ring \in Seq(Entry) /\ Len(ring) <= RingCap
      /\ nextId \in (Len(ring) + 1)..IdMax
      /\ \A i \in DOMAIN ring : /\ ring[i].serial = 0
                                /\ ~ring[i].live /\ ~ring[i].timer
                                /\ ring[i].id = nextId - i
  BY <1>1, <1>2 DEF LoadOK
<1>4. Len(ring) \in Nat /\ DOMAIN ring = 1..Len(ring)
  BY <1>3, LenProperties
<1>5. nextId \in 1..IdMax
  BY <1>3, <1>4, RingAssumption
<1>6. /\ armed = [s \in Serial |-> 0] /\ signals = [s \in Serial |-> <<>>]
      /\ stale = FALSE /\ added = 0 /\ replaced = 0
      /\ mortal = [s \in Serial |-> FALSE] /\ idOf = [s \in Serial |-> 0]
  BY DEF Init
<1>7. \A s \in Serial : s > 0 /\ ~OnScreen(ring, s)
  BY <1>3, StoreAssumption DEF Serial, OnScreen
<1>8. RingShape(ring, added, mortal)
  BY <1>3, <1>6 DEF RingShape
<1>9. TimersGood(ring, armed, mortal)
  BY <1>6, <1>7 DEF TimersGood
<1>10. SignalsGood(ring, signals, added)
  <2>1. \A s \in Serial : ~(s <= added) /\ signals[s] = <<>>
    BY <1>6, <1>7, StoreAssumption DEF Serial
  <2>2. signals \in [Serial -> {<<>>} \cup ClosedTraces]
    BY <1>6
  <2> QED
    BY <2>1, <2>2 DEF SignalsGood
<1>11. StoreGood(Store, added, mortal)
  BY <1>8, <1>9, <1>10 DEF StoreGood, Store
<1>12. IdsCount(ring, nextId)
  BY <1>3, <1>4, <1>5 DEF IdsCount
<1>13. Cardinality(LiveIn(ring)) <= LiveMax
  <2>1. LiveIn(ring) = {}
    BY <1>3 DEF LiveIn
  <2> QED
    BY <2>1, FS_EmptySet, RingAssumption
<1>14. StoreInv(Store, added, mortal, nextId)
  BY <1>3, <1>11, <1>12, <1>13 DEF StoreInv, Store
<1>15. stale \in BOOLEAN /\ mortal \in [Serial -> BOOLEAN]
  BY <1>6
<1>16. added \in 0..MaxNew /\ replaced \in 0..MaxReplaces
  BY <1>6, StoreAssumption
<1>17. idOf \in [Serial -> 0..IdMax]
  <2>1. 0 \in 0..IdMax
    BY RingAssumption
  <2> QED
    BY <1>6, <2>1
<1> QED
  BY <1>5, <1>14, <1>15, <1>16, <1>17 DEF IInv

(* What the invariant says of the store's parts. *)
LEMMA StoreParts ==
  ASSUME IInv
  PROVE  /\ RingShape(ring, added, mortal) /\ ring \in Seq(Entry)
         /\ TimersGood(ring, armed, mortal)
         /\ SignalsGood(ring, signals, added)
         /\ IdsCount(ring, nextId) /\ Len(ring) <= RingCap
         /\ Cardinality(LiveIn(ring)) <= LiveMax
         /\ \A i \in DOMAIN ring : ring[i] \in Entry
         /\ DOMAIN ring \subseteq Nat
<1>1. /\ RingShape(ring, added, mortal)
      /\ TimersGood(ring, armed, mortal)
      /\ SignalsGood(ring, signals, added)
      /\ IdsCount(ring, nextId) /\ Len(ring) <= RingCap
      /\ Cardinality(LiveIn(ring)) <= LiveMax
  BY DEF IInv, StoreInv, StoreGood, Store
<1>2. ring \in Seq(Entry)
  BY <1>1 DEF RingShape
<1>3. DOMAIN ring = 1..Len(ring) /\ Len(ring) \in Nat
  BY <1>2, LenProperties
<1>4. \A i \in DOMAIN ring : ring[i] \in Entry
  BY <1>2, <1>3, ElementOfSeq
<1> QED
  BY <1>1, <1>2, <1>3, <1>4

(* An entry found live is a serial of this lifetime, its sender not told   *)
(* of its closing.                                                         *)
LEMMA LiveEntry ==
  ASSUME IInv, NEW i \in DOMAIN ring, ring[i].live
  PROVE  /\ ring[i].serial \in Serial /\ ring[i].serial # 0
         /\ ring[i].serial <= added
         /\ OnScreen(ring, ring[i].serial)
         /\ signals[ring[i].serial] = <<>>
<1>1. /\ ring[i] \in Entry /\ RingShape(ring, added, mortal)
      /\ SignalsGood(ring, signals, added)
  BY StoreParts
<1>2. ring[i].serial # 0 /\ ring[i].serial <= added
  BY <1>1 DEF RingShape
<1>3. ring[i].serial \in Serial
  BY <1>1, <1>2, StoreAssumption DEF Entry, Serial
<1>4. OnScreen(ring, ring[i].serial)
  BY DEF OnScreen
<1>5. signals[ring[i].serial] = <<>>
  BY <1>1, <1>3, <1>4 DEF SignalsGood
<1> QED
  BY <1>2, <1>3, <1>4, <1>5

(* The entry a lookup by id finds is live. *)
LEMMA Found ==
  ASSUME IInv, NEW id, Matching(ring, id) # {}
  PROVE  /\ First(Matching(ring, id)) \in DOMAIN ring
         /\ ring[First(Matching(ring, id))].live
<1>1. Matching(ring, id) \in SUBSET DOMAIN ring
  BY DEF Matching, LiveIn
<1>2. Matching(ring, id) \in SUBSET Nat
  BY <1>1, StoreParts
<1>3. First(Matching(ring, id)) \in Matching(ring, id)
  BY <1>2, FirstIsIn
<1> QED
  BY <1>3 DEF Matching, LiveIn

(* Steps that leave the ids and the history alone need only show that the  *)
(* new store is good.                                                      *)
LEMMA StoreStep ==
  ASSUME IInv, NEW st, StoreInv(st, added, mortal, nextId), Become(st),
         UNCHANGED <<nextId, history>>
  PROVE  IInv'
<1>1. StoreInv(Store', added, mortal, nextId) /\ stale' \in BOOLEAN
  BY BecomeInv
<1>2. /\ nextId' = nextId /\ added' = added /\ replaced' = replaced
      /\ mortal' = mortal /\ idOf' = idOf
  BY DEF history
<1> QED
  BY <1>1, <1>2 DEF IInv

LEMMA CloseInv ==
  ASSUME IInv, NEW id, NEW why \in {"dismissed", "bycall"}, Close(id, why)
  PROVE  IInv'
<1> DEFINE i == First(Matching(ring, id))
<1>1. i \in DOMAIN ring
  BY Found DEF Close
<1> HIDE DEF i
<1>2. StoreInv(Store, added, mortal, nextId) /\ added \in 0..MaxNew
      /\ mortal \in [Serial -> BOOLEAN]
  BY DEF IInv
<1>3. {i} \in SUBSET DOMAIN Store.ring /\ why \in Reasons
  BY <1>1 DEF Store, Reasons
<1>4. StoreInv(Retire(Store, {i}, why), added, mortal, nextId)
  BY <1>2, <1>3, RetireInv
<1>5. Become(Retire(Store, {i}, why)) /\ UNCHANGED <<nextId, history>>
  BY DEF Close, i
<1> QED
  BY <1>4, <1>5, StoreStep

LEMMA CloseAllInv ==
  ASSUME IInv, CloseAll
  PROVE  IInv'
<1>1. StoreInv(Store, added, mortal, nextId) /\ added \in 0..MaxNew
      /\ mortal \in [Serial -> BOOLEAN]
  BY DEF IInv
<1>2. DOMAIN ring \in SUBSET DOMAIN Store.ring /\ "dismissed" \in Reasons
  BY DEF Store, Reasons
<1>3. StoreInv(Retire(Store, DOMAIN ring, "dismissed"), added, mortal, nextId)
  BY <1>1, <1>2, RetireInv
<1> QED
  BY <1>3, StoreStep DEF CloseAll

LEMMA ClearHistoryInv ==
  ASSUME IInv, ClearHistory
  PROVE  IInv'
<1> DEFINE q == Retire(Store, DOMAIN ring, "dismissed")
<1>1. StoreInv(Store, added, mortal, nextId) /\ added \in 0..MaxNew
      /\ mortal \in [Serial -> BOOLEAN] /\ StoreGood(Store, added, mortal)
  BY DEF IInv, StoreInv
<1>2. DOMAIN ring \in SUBSET DOMAIN Store.ring /\ "dismissed" \in Reasons
      /\ Store.ring = ring
  BY DEF Store, Reasons
<1>3. StoreInv(q, added, mortal, nextId)
  BY <1>1, <1>2, RetireInv
<1>4. \A i \in DOMAIN q.ring : ~q.ring[i].live
  <2>1. ring \in Seq(Entry)
    BY StoreParts
  <2>2. Store.ring \in Seq(Entry)
    BY <1>2, <2>1
  <2>3. /\ DOMAIN q.ring = DOMAIN Store.ring
        /\ \A i \in DOMAIN Store.ring :
             q.ring[i].live <=> (Store.ring[i].live /\ i \notin DOMAIN ring)
    BY <2>2, RetireRing
  <2> HIDE DEF q
  <2> QED
    BY <1>2, <2>3
<1>5. Become(Truncate(q, 0)) /\ UNCHANGED <<nextId, history>>
  BY DEF ClearHistory
<1> HIDE DEF q
<1>6. StoreInv(Truncate(q, 0), added, mortal, nextId)
  BY <1>1, <1>3, <1>4, TruncateInv
<1> QED
  BY <1>5, <1>6, StoreStep

LEMMA InvokeActionInv ==
  ASSUME IInv, NEW id, NEW index, InvokeAction(id, index)
  PROVE  IInv'
<1> DEFINE i == First(Matching(ring, id))
           s0 == ring[i].serial
           told == [ring |-> ring, armed |-> armed,
                    signals |-> Emit(signals, {s0}, "invoked")]
           b == Retire(Store, {i}, "dismissed")
           q == Retire(told, {i}, "dismissed")
<1>1. i \in DOMAIN ring /\ ring[i].live
  BY Found DEF InvokeAction
<1>2. Become(q) /\ UNCHANGED <<nextId, history>>
  BY DEF InvokeAction
<1> HIDE DEF i
<1>3. /\ s0 \in Serial /\ signals[s0] = <<>>
      /\ signals \in [Serial -> {<<>>} \cup ClosedTraces]
  BY <1>1, LiveEntry, StoreParts DEF SignalsGood
<1>4. StoreInv(Store, added, mortal, nextId) /\ added \in 0..MaxNew
      /\ mortal \in [Serial -> BOOLEAN]
  BY DEF IInv
<1>5. StoreInv(b, added, mortal, nextId)
  <2>1. {i} \in SUBSET DOMAIN Store.ring /\ "dismissed" \in Reasons
    BY <1>1 DEF Store, Reasons
  <2> QED
    BY <1>4, <2>1, RetireInv
<1>6. q.ring = b.ring /\ q.armed = b.armed
  BY DEF Retire, Store
<1>7. {ring[j].serial : j \in {k \in {i} : ring[k].live}} = {s0}
  BY <1>1
<1>8. b.signals = [s \in Serial |-> IF s = s0 THEN Append(signals[s], "dismissed")
                                              ELSE signals[s]]
  BY <1>3, <1>7 DEF Retire, Store, Emit
<1>9. q.signals = [s \in Serial |->
                     IF s = s0 THEN Append(Append(signals[s], "invoked"), "dismissed")
                               ELSE signals[s]]
  <2> DEFINE e == Emit(signals, {s0}, "invoked")
  <2>1. e = [s \in Serial |-> IF s = s0 THEN Append(signals[s], "invoked")
                                        ELSE signals[s]]
    BY <1>3 DEF Emit
  <2>2. q.signals = [s \in DOMAIN e |-> IF s \in {s0} THEN Append(e[s], "dismissed")
                                                     ELSE e[s]]
    BY <1>7 DEF Retire, Emit
  <2> HIDE DEF e, q
  <2>3. DOMAIN e = Serial
    BY <2>1
  <2>4. \A s \in Serial : (IF s \in {s0} THEN Append(e[s], "dismissed") ELSE e[s]) =
            IF s = s0 THEN Append(Append(signals[s], "invoked"), "dismissed")
                      ELSE signals[s]
    BY <2>1
  <2> QED
    BY <2>2, <2>3, <2>4
<1>10. /\ b.signals[s0] = <<"dismissed">>
       /\ q.signals[s0] = <<"invoked", "dismissed">>
       /\ \A s \in Serial : s # s0 => q.signals[s] = b.signals[s]
  <2> HIDE DEF b, q, s0
  <2>1. /\ b.signals[s0] = Append(<<>>, "dismissed")
        /\ q.signals[s0] = Append(Append(<<>>, "invoked"), "dismissed")
    BY <1>3, <1>8, <1>9
  <2>2. /\ Append(<<>>, "dismissed") = <<"dismissed">>
        /\ Append(Append(<<>>, "invoked"), "dismissed") = <<"invoked", "dismissed">>
    <3>1. Append(<<>>, "dismissed") = <<"dismissed">>
      OBVIOUS
    <3>2. Append(<<>>, "invoked") = <<"invoked">>
      OBVIOUS
    <3>3. Append(<<"invoked">>, "dismissed") = <<"invoked", "dismissed">>
      BY AppendToOne
    <3> QED
      BY <3>1, <3>2, <3>3
  <2> QED
    BY <1>8, <1>9, <2>1, <2>2
<1> HIDE DEF b, q, s0
<1>11. SignalsGood(b.ring, b.signals, added)
  BY <1>5 DEF StoreInv, StoreGood
<1>12. SignalsGood(q.ring, q.signals, added)
  <2>1. <<"invoked", "dismissed">> \in ClosedTraces
    BY DEF ClosedTraces
  <2>2. <<"dismissed">> # <<>>
    OBVIOUS
  <2>3. s0 <= added /\ ~OnScreen(q.ring, s0)
    BY <1>3, <1>6, <1>10, <1>11, <2>2 DEF SignalsGood
  <2>4. ASSUME NEW s \in Serial
        PROVE  /\ q.signals[s] \in {<<>>} \cup ClosedTraces
               /\ s <= added /\ ~OnScreen(q.ring, s) => q.signals[s] \in ClosedTraces
               /\ ~(s <= added /\ ~OnScreen(q.ring, s)) => q.signals[s] = <<>>
    <3>1. CASE s = s0
      BY <1>10, <2>1, <2>3, <3>1
    <3>2. CASE s # s0
      BY <1>6, <1>10, <1>11, <3>2 DEF SignalsGood
    <3> QED
      BY <3>1, <3>2
  <2>5. q.signals \in [Serial -> {<<>>} \cup ClosedTraces]
    BY <1>9, <2>4
  <2> QED
    BY <2>4, <2>5 DEF SignalsGood
<1>13. StoreInv(q, added, mortal, nextId)
  BY <1>5, <1>6, <1>12 DEF StoreInv, StoreGood
<1> QED
  BY <1>2, <1>13, StoreStep

(* expire_cb() forgets the source handle before it retires the entry; the  *)
(* result is what retiring it outright would give.                         *)
LEMMA ExpireInv ==
  ASSUME IInv, NEW s \in Serial, Expire(s)
  PROVE  IInv'
<1>1. PICK i \in DOMAIN ring :
        /\ ring[i].serial = s
        /\ Become(Retire([ring    |-> [ring EXCEPT ![i] = Timed(@, FALSE)],
                          armed   |-> [armed EXCEPT ![s] = @ - 1],
                          signals |-> signals], {i}, "expired"))
  BY DEF Expire
<1>2. armed[s] > 0 /\ UNCHANGED <<nextId, history>>
  BY DEF Expire
<1> DEFINE u == [ring EXCEPT ![i] = Timed(@, FALSE)]
           v == [armed EXCEPT ![s] = @ - 1]
           t == [ring |-> u, armed |-> v, signals |-> signals]
           b == Retire(Store, {i}, "expired")
           q == Retire(t, {i}, "expired")
<1>3. /\ RingShape(ring, added, mortal) /\ TimersGood(ring, armed, mortal)
      /\ ring[i] \in Entry /\ DOMAIN u = DOMAIN ring
  BY StoreParts
<1>4. OnScreen(ring, s) /\ mortal[s] /\ s # 0
  <2>1. ~(OnScreen(ring, s) /\ mortal[s]) => armed[s] = 0
    BY <1>3 DEF TimersGood
  <2> QED
    BY <1>2, <2>1, StoreAssumption DEF Serial
<1>5. ring[i].live /\ ring[i].timer
  BY <1>1, <1>3, <1>4 DEF OnScreen, RingShape
<1>6. armed \in [Serial -> Nat]
  BY <1>3 DEF TimersGood
<1>7. u[i] = Timed(ring[i], FALSE) /\ \A j \in DOMAIN ring : j # i => u[j] = ring[j]
  OBVIOUS
<1>8. Timed(ring[i], FALSE).live /\ ~Timed(ring[i], FALSE).timer
      /\ Timed(ring[i], FALSE).serial = s
  BY <1>1, <1>3, <1>5, TimedEntry
<1>9. [Timed(ring[i], FALSE) EXCEPT !.live = FALSE, !.timer = FALSE] =
        [ring[i] EXCEPT !.live = FALSE, !.timer = FALSE]
  BY <1>3 DEF Timed, Entry
<1> HIDE DEF u
<1>10. /\ {j \in {i} : u[j].live} = {i} /\ {j \in {i} : ring[j].live} = {i}
       /\ {j \in {i} : u[j].timer} = {} /\ {j \in {i} : ring[j].timer} = {i}
  BY <1>5, <1>7, <1>8
<1>11. b.ring = [j \in DOMAIN ring |->
                   IF j = i THEN [ring[i] EXCEPT !.live = FALSE, !.timer = FALSE]
                            ELSE ring[j]]
  <2>1. b.ring = [j \in DOMAIN ring |->
                    IF j \in {i} THEN [ring[j] EXCEPT !.live = FALSE, !.timer = FALSE]
                                 ELSE ring[j]]
    BY <1>10 DEF Retire, Store
  <2> QED
    BY <2>1
<1>12. q.ring = b.ring
  <2>1. q.ring = [j \in DOMAIN u |->
                    IF j \in {i} THEN [u[j] EXCEPT !.live = FALSE, !.timer = FALSE]
                                 ELSE u[j]]
    BY <1>10 DEF Retire
  <2>2. [u[i] EXCEPT !.live = FALSE, !.timer = FALSE] =
          [ring[i] EXCEPT !.live = FALSE, !.timer = FALSE]
    BY <1>7, <1>9
  <2> HIDE DEF q, b
  <2>3. \A j \in DOMAIN ring :
          (IF j \in {i} THEN [u[j] EXCEPT !.live = FALSE, !.timer = FALSE] ELSE u[j]) =
          (IF j = i THEN [ring[i] EXCEPT !.live = FALSE, !.timer = FALSE] ELSE ring[j])
    BY <1>7, <2>2
  <2> QED
    BY <1>3, <1>11, <2>1, <2>3
<1>13. q.armed = b.armed
  <2>1. Cancel(v, u, {i}) = v
    <3>1. {u[j].serial : j \in {h \in {i} : u[h].timer}} = {}
      BY <1>10
    <3>2. Cancel(v, u, {i}) = [x \in DOMAIN v |-> IF x \in {} THEN v[x] - 1 ELSE v[x]]
      BY <3>1 DEF Cancel
    <3>3. v \in [Serial -> Int]
      BY <1>6
    <3> HIDE DEF v
    <3> QED
      BY <3>2, <3>3
  <2>2. Cancel(armed, ring, {i}) = v
    <3>1. {ring[j].serial : j \in {h \in {i} : ring[h].timer}} = {s}
      BY <1>1, <1>10
    <3>2. Cancel(armed, ring, {i}) =
            [x \in DOMAIN armed |-> IF x \in {s} THEN armed[x] - 1 ELSE armed[x]]
      BY <3>1 DEF Cancel
    <3> QED
      BY <1>6, <3>2
  <2>3. q.armed = Cancel(v, u, {i}) /\ b.armed = Cancel(armed, ring, {i})
    BY <1>10 DEF Retire, Store
  <2> QED
    BY <2>1, <2>2, <2>3
<1>14. q.signals = b.signals
  <2>1. {u[j].serial : j \in {i}} = {s} /\ {ring[j].serial : j \in {i}} = {s}
    BY <1>1, <1>7, <1>8
  <2> QED
    BY <1>10, <2>1 DEF Retire, Store
<1>15. StoreInv(b, added, mortal, nextId)
  <2>1. {i} \in SUBSET DOMAIN Store.ring /\ "expired" \in Reasons
    BY DEF Store, Reasons
  <2>2. StoreInv(Store, added, mortal, nextId) /\ added \in 0..MaxNew
        /\ mortal \in [Serial -> BOOLEAN]
    BY DEF IInv
  <2> QED
    BY <2>1, <2>2, RetireInv
<1>16. Become(q)
  BY <1>1 DEF u
<1> HIDE DEF b, q
<1>17. StoreInv(q, added, mortal, nextId)
  BY <1>12, <1>13, <1>14, <1>15 DEF StoreInv, StoreGood
<1> QED
  BY <1>2, <1>16, <1>17, StoreStep

LEMMA NotifyReplaceInv ==
  ASSUME IInv, NEW id, NEW c \in BOOLEAN, NEW t \in {-1, 0, 1}, NEW k \in Nat,
         NotifyReplace(id, c, t, k)
  PROVE  IInv'
<1> DEFINE i == First(Matching(ring, id))
           q == Finish(Store, i, c, t, k)
           m2 == Intent(mortal, ring[i].serial, c, t)
<1>1. i \in DOMAIN ring /\ ring[i].live
  BY Found DEF NotifyReplace
<1>2. /\ Become(q) /\ mortal' = m2
      /\ replaced < MaxReplaces /\ replaced' = replaced + 1
      /\ nextId' = nextId /\ added' = added /\ idOf' = idOf
  BY DEF NotifyReplace, Intent
<1> HIDE DEF i
<1>3. Ready(Store, added, mortal, i)
  <2>1. /\ RingShape(ring, added, mortal) /\ TimersGood(ring, armed, mortal)
        /\ SignalsGood(ring, signals, added)
    BY StoreParts
  <2>2. ring[i].serial # 0 /\ signals[ring[i].serial] = <<>>
    BY <1>1, LiveEntry
  <2>3. Store.ring = ring /\ Store.armed = armed /\ Store.signals = signals
    BY DEF Store
  <2>4. /\ signals \in [Serial -> {<<>>} \cup ClosedTraces]
        /\ \A s \in Serial \ {ring[i].serial} :
             /\ s <= added /\ ~OnScreen(ring, s) => signals[s] \in ClosedTraces
             /\ ~(s <= added /\ ~OnScreen(ring, s)) => signals[s] = <<>>
    BY <2>1 DEF SignalsGood
  <2> QED
    BY <1>1, <2>1, <2>2, <2>3, <2>4 DEF Ready
<1>4. added \in 0..MaxNew /\ mortal \in [Serial -> BOOLEAN] /\ t \in Int
      /\ IdsCount(Store.ring, nextId) /\ Store.ring = ring
  BY StoreParts DEF IInv, Store
<1>5. StoreInv(q, added, m2, nextId)
  <2>1. StoreInv(Finish(Store, i, c, t, k), added,
                 Intent(mortal, Store.ring[i].serial, c, t), nextId)
    BY <1>3, <1>4, FinishInv
  <2> QED
    BY <1>4, <2>1
<1> HIDE DEF q
<1>6. StoreInv(Store', added, m2, nextId) /\ stale' \in BOOLEAN
  BY <1>2, <1>5, BecomeInv
<1>7. replaced' \in 0..MaxReplaces
  BY <1>2, StoreAssumption DEF IInv
<1>8. m2 \in [Serial -> BOOLEAN]
  BY <1>4 DEF Intent
<1> HIDE DEF m2
<1> QED
  BY <1>2, <1>6, <1>7, <1>8 DEF IInv

LEMMA NotifyNewInv ==
  ASSUME IInv, NEW c \in BOOLEAN, NEW t \in {-1, 0, 1}, NEW k \in Nat,
         NotifyNew(c, t, k)
  PROVE  IInv'
<1> DEFINE a == added + 1
           e == Blank(nextId, a)
           b == Insert(Store, e)
           q == Finish(b, 1, c, t, k)
           m2 == Intent(mortal, a, c, t)
           r == <<e>> \o ring
<1>1. /\ added < MaxNew /\ Become(q) /\ mortal' = m2
      /\ idOf' = [idOf EXCEPT ![a] = nextId]
      /\ added' = a /\ nextId' = NextId(nextId) /\ replaced' = replaced
  BY DEF NotifyNew, Intent
<1>2. /\ added \in 0..MaxNew /\ mortal \in [Serial -> BOOLEAN]
      /\ nextId \in 1..IdMax /\ idOf \in [Serial -> 0..IdMax]
      /\ replaced \in 0..MaxReplaces
  BY DEF IInv
<1>3. /\ RingShape(ring, added, mortal) /\ TimersGood(ring, armed, mortal)
      /\ SignalsGood(ring, signals, added) /\ ring \in Seq(Entry)
      /\ IdsCount(ring, nextId) /\ Len(ring) <= RingCap
  BY StoreParts
<1>4. a \in 0..MaxNew /\ a \in Serial /\ a # 0
  BY <1>1, <1>2, StoreAssumption DEF Serial
<1>5. /\ 1 \in DOMAIN r /\ r[1] = e
      /\ \A i \in DOMAIN r : i # 1 => i - 1 \in DOMAIN ring /\ r[i] = ring[i - 1]
      /\ \A s \in Serial : OnScreen(r, s) <=> OnScreen(ring, s)
      /\ r \in Seq(Entry) /\ Len(r) = Len(ring) + 1
      /\ RingShape(r, a, mortal) /\ TimersGood(r, armed, mortal)
  <2>1. StoreGood(Store, added, mortal)
    BY DEF IInv, StoreInv
  <2>2. Store.ring = ring /\ Store.armed = armed
    BY DEF Store
  <2>3. r = Insert(Store, Blank(nextId, added + 1)).ring
    BY DEF Insert, Store
  <2> HIDE DEF r, e
  <2>4. LET inserted == Insert(Store, Blank(nextId, added + 1)).ring
        IN /\ inserted \in Seq(Entry) /\ Len(inserted) = Len(Store.ring) + 1 /\ 1 \in DOMAIN inserted
           /\ inserted[1] = Blank(nextId, added + 1)
           /\ \A i \in DOMAIN inserted :
                i # 1 => i - 1 \in DOMAIN Store.ring /\ inserted[i] = Store.ring[i - 1]
           /\ \A s \in Serial : OnScreen(inserted, s) <=> OnScreen(Store.ring, s)
           /\ RingShape(inserted, added + 1, mortal)
           /\ TimersGood(inserted, Store.armed, mortal)
    <3>1. added < MaxNew
      BY <1>1
    <3> QED
      BY <1>2, <2>1, <3>1, InsertGood
  <2> QED
    BY <2>2, <2>3, <2>4 DEF e
<1>6. b.ring = r /\ b.armed = armed /\ b.signals = signals
  BY DEF Insert, Store
<1>7. e.serial = a /\ e.id = nextId
  BY DEF Blank
<1> HIDE DEF b, r, e
<1>8. Ready(b, a, mortal, 1)
  <2>1. b.ring[1].serial = a
    BY <1>5, <1>6, <1>7
  <2>2. ~(a <= added) /\ signals[a] = <<>>
    BY <1>2, <1>3, <1>4 DEF SignalsGood
  <2>3. ASSUME NEW s \in Serial \ {a}
        PROVE  /\ s <= a /\ ~OnScreen(r, s) => signals[s] \in ClosedTraces
               /\ ~(s <= a /\ ~OnScreen(r, s)) => signals[s] = <<>>
    <3>1. s \in Serial /\ (s <= a <=> s <= added)
      BY <1>2, <2>3, StoreAssumption DEF Serial
    <3> QED
      BY <1>3, <1>5, <3>1 DEF SignalsGood
  <2>4. signals \in [Serial -> {<<>>} \cup ClosedTraces]
    BY <1>3 DEF SignalsGood
  <2> HIDE DEF a
  <2> QED
    BY <1>4, <1>5, <1>6, <2>1, <2>2, <2>3, <2>4 DEF Ready
<1>9. NextId(nextId) \in 1..IdMax
  BY <1>2, RingAssumption DEF NextId
<1>10. IdsCount(b.ring, NextId(nextId))
  <2> DEFINE n == NextId(nextId)
  <2>1. RingCap \in Nat /\ IdMax \in Nat /\ RingCap < IdMax /\ 0 < RingCap
    BY RingAssumption
  <2>2. n = IF nextId = IdMax THEN 1 ELSE nextId + 1
    BY DEF NextId
  <2> HIDE DEF n
  <2> SUFFICES ASSUME NEW i \in DOMAIN r
               PROVE  r[i].id = IF i < n THEN n - i ELSE n - i + IdMax
    BY <1>6 DEF IdsCount, n
  <2>3. CASE i = 1
    <3>1. r[i].id = nextId
      BY <1>5, <1>7, <2>3
    <3>2. nextId = IF i < n THEN n - i ELSE n - i + IdMax
      BY <1>2, <2>1, <2>2, <2>3
    <3> QED
      BY <3>1, <3>2
  <2>4. CASE i # 1
    <3>1. i - 1 \in DOMAIN ring /\ r[i] = ring[i - 1]
      BY <1>5, <2>4
    <3>2. ring[i - 1].id = IF i - 1 < nextId THEN nextId - (i - 1)
                                             ELSE nextId - (i - 1) + IdMax
      BY <1>3, <3>1 DEF IdsCount
    <3>3. DOMAIN ring = 1..Len(ring) /\ Len(ring) \in Nat
      BY <1>3, LenProperties
    <3>4. i \in Int
      BY <1>5, LenProperties
    <3>5. i - 1 \in Int /\ 1 <= i - 1 /\ i - 1 <= RingCap
      BY <1>3, <2>1, <3>1, <3>3, <3>4
    <3>6. (IF i - 1 < nextId THEN nextId - (i - 1) ELSE nextId - (i - 1) + IdMax) =
            IF i < n THEN n - i ELSE n - i + IdMax
      BY <1>2, <2>1, <2>2, <3>4, <3>5
    <3> QED
      BY <3>1, <3>2, <3>6
  <2> QED
    BY <2>3, <2>4
<1>11. StoreInv(q, a, m2, NextId(nextId))
  <2>1. t \in Int
    OBVIOUS
  <2>2. b.ring[1].serial = a
    BY <1>5, <1>6, <1>7
  <2>3. StoreInv(Finish(b, 1, c, t, k), a,
                 Intent(mortal, b.ring[1].serial, c, t), NextId(nextId))
    <3> HIDE DEF a
    <3> QED
      BY <1>2, <1>4, <1>8, <1>10, <2>1, FinishInv
  <2> QED
    BY <2>2, <2>3
<1> HIDE DEF q
<1>12. StoreInv(Store', a, m2, NextId(nextId)) /\ stale' \in BOOLEAN
  BY <1>1, <1>11, BecomeInv
<1>13. m2 \in [Serial -> BOOLEAN]
  BY <1>2 DEF Intent
<1>14. idOf' \in [Serial -> 0..IdMax]
  <2>1. nextId \in 0..IdMax
    BY <1>2, RingAssumption
  <2> QED
    BY <1>1, <1>2, <2>1
<1> HIDE DEF m2, a
<1> QED
  BY <1>1, <1>2, <1>4, <1>9, <1>12, <1>13, <1>14 DEF IInv

(* Every step keeps the invariant. *)
LEMMA NextInv == IInv /\ [Next]_vars => IInv'
<1> SUFFICES ASSUME IInv, [Next]_vars PROVE IInv'
  OBVIOUS
<1>1. CASE \E n \in Notices :
             \/ NotifyNew(n.critical, n.timeout, n.actions)
             \/ \E id \in 1..IdMax : NotifyReplace(id, n.critical, n.timeout, n.actions)
  <2>1. PICK n \in Notices :
          \/ NotifyNew(n.critical, n.timeout, n.actions)
          \/ \E id \in 1..IdMax : NotifyReplace(id, n.critical, n.timeout, n.actions)
    BY <1>1
  <2>2. n.critical \in BOOLEAN /\ n.timeout \in {-1, 0, 1} /\ n.actions \in Nat
    BY StoreAssumption
  <2> QED
    BY <2>1, <2>2, NotifyNewInv, NotifyReplaceInv
<1>2. CASE \E id \in 1..IdMax : \E why \in {"dismissed", "bycall"} : Close(id, why)
  BY <1>2, CloseInv
<1>3. CASE \E id \in 1..IdMax : \E index \in 0..MaxActions : InvokeAction(id, index)
  BY <1>3, InvokeActionInv
<1>4. CASE CloseAll
  BY <1>4, CloseAllInv
<1>5. CASE ClearHistory
  BY <1>5, ClearHistoryInv
<1>6. CASE \E s \in Serial : Expire(s)
  BY <1>6, ExpireInv
<1>7. CASE UNCHANGED vars
  <2>1. Store' = Store
    BY <1>7 DEF vars, Store
  <2> QED
    BY <1>7, <2>1 DEF IInv, vars
<1> QED
  BY <1>1, <1>2, <1>3, <1>4, <1>5, <1>6, <1>7 DEF Next

LEMMA SpecInv == Spec => []IInv
BY InitInv, NextInv, PTL DEF Spec

--------------------------------------------------------------------------------
(* The variables keep their types: ids stay non-zero guint32s whatever the *)
(* counter does.                                                           *)
THEOREM TypeCorrect == Spec => []TypeOK
<1>1. IInv => TypeOK
  <2> SUFFICES ASSUME IInv PROVE TypeOK
    OBVIOUS
  <2>1. /\ ring \in Seq(Entry)
        /\ armed \in [Serial -> Nat]
        /\ signals \in [Serial -> {<<>>} \cup ClosedTraces]
    BY StoreParts DEF TimersGood, SignalsGood
  <2> QED
    BY <2>1 DEF IInv, TypeOK
<1> QED
  BY <1>1, SpecInv, PTL

(* retire(), enforce_caps(), the close calls, clear_history and the expiry *)
(* callback between them give every notification exactly one               *)
(* NotificationClosed.                                                     *)
THEOREM SendersToldOnce == Spec => []ClosedExactlyOnce
<1>1. IInv => ClosedExactlyOnce
  <2> SUFFICES ASSUME IInv, NEW s \in Serial
               PROVE  IF s <= added /\ ~Live(s) THEN signals[s] \in ClosedTraces
                                                ELSE signals[s] = <<>>
    BY DEF ClosedExactlyOnce
  <2>1. Live(s) <=> OnScreen(ring, s)
    BY DEF Live, OnScreen
  <2>2. SignalsGood(ring, signals, added)
    BY StoreParts
  <2> QED
    BY <2>1, <2>2 DEF SignalsGood
<1> QED
  BY <1>1, SpecInv, PTL

(* arm_timer(), retire() and notification_free() keep one expiry source    *)
(* for each live entry that may expire, and none for any other.            *)
THEOREM NoStrayTimers == Spec => []TimersMatchIntent
<1>1. IInv => TimersMatchIntent
  <2> SUFFICES ASSUME IInv, NEW s \in Serial
               PROVE  armed[s] = IF Live(s) /\ mortal[s] THEN 1 ELSE 0
    BY DEF TimersMatchIntent
  <2>1. Live(s) <=> OnScreen(ring, s)
    BY DEF Live, OnScreen
  <2>2. TimersGood(ring, armed, mortal)
    BY StoreParts
  <2> QED
    BY <2>1, <2>2 DEF TimersGood
<1> QED
  BY <1>1, SpecInv, PTL

(* enforce_caps() bounds the ring and what of it is on screen.             *)
THEOREM CapsHold == Spec => []WithinCaps
<1>1. IInv => WithinCaps
  BY StoreParts DEF WithinCaps
<1> QED
  BY <1>1, SpecInv, PTL

(* Wrapping the counter never gives the ring two entries of one id, given  *)
(* that the ring is shorter than the range of ids.                         *)
THEOREM IdsNameOneEntry == Spec => []IdsUnique
<1>1. IInv => IdsUnique
  <2> SUFFICES ASSUME IInv, NEW i \in DOMAIN ring, NEW j \in DOMAIN ring,
                      ring[i].id = ring[j].id
               PROVE  i = j
    BY DEF IdsUnique
  <2>1. nextId \in 1..IdMax
    BY DEF IInv
  <2> QED
    BY <2>1, StoreParts, CountedIdsDiffer
<1> QED
  BY <1>1, SpecInv, PTL

(* notify_changed() ends every handler: the file is the ring, or the save  *)
(* failed and the next one mends it (notify-store.c:87-97).                *)
THEOREM FileKeepsUp == Spec => []FileCurrent
<1>1. Init => FileCurrent
  BY DEF Init, FileCurrent
<1>2. ASSUME NEW st, Become(st) PROVE FileCurrent'
  <2>1. PICK ok \in SaveOutcomes :
          /\ saved' = IF ok THEN Persisted(st.ring) ELSE saved
          /\ stale' = ~ok
    BY <1>2 DEF Become
  <2>2. ok \in BOOLEAN /\ ring' = st.ring
    BY <1>2, StoreAssumption DEF Become
  <2> QED
    BY <2>1, <2>2 DEF FileCurrent
<1>3. FileCurrent /\ UNCHANGED vars => FileCurrent'
  BY DEF FileCurrent, vars
<1>4. Next => \E st : Become(st)
  BY DEF Next, NotifyNew, NotifyReplace, Close, InvokeAction, CloseAll, ClearHistory,
         Expire
<1>5. FileCurrent /\ [Next]_vars => FileCurrent'
  BY <1>2, <1>3, <1>4
<1> QED
  BY <1>1, <1>5, PTL DEF Spec

--------------------------------------------------------------------------------
(* What a sender was told stays told: no operation takes a signal back.    *)

Signs == Reasons \cup {"invoked"}
Heard == [Serial -> Seq(Signs)]
Grown(sg, later) == later \in Heard /\ \A s \in Serial : Len(sg[s]) <= Len(later[s])

LEMMA GrownTwice ==
  ASSUME NEW a \in Heard, NEW b, NEW c, Grown(a, b), Grown(b, c)
  PROVE  Grown(a, c)
<1>1. ASSUME NEW s \in Serial PROVE Len(a[s]) <= Len(c[s])
  <2>1. a[s] \in Seq(Signs) /\ b[s] \in Seq(Signs) /\ c[s] \in Seq(Signs)
    BY DEF Grown, Heard
  <2>2. Len(a[s]) \in Nat /\ Len(b[s]) \in Nat /\ Len(c[s]) \in Nat
    BY <2>1, LenProperties
  <2>3. Len(a[s]) <= Len(b[s]) /\ Len(b[s]) <= Len(c[s])
    BY DEF Grown
  <2> QED
    BY <2>2, <2>3
<1> QED
  BY <1>1 DEF Grown

LEMMA EmitGrows ==
  ASSUME NEW sg \in Heard, NEW S, NEW what \in Signs
  PROVE  Emit(sg, S, what) \in Heard /\ Grown(sg, Emit(sg, S, what))
<1> DEFINE e == Emit(sg, S, what)
<1>1. e = [s \in Serial |-> IF s \in S THEN Append(sg[s], what) ELSE sg[s]]
  BY DEF Emit, Heard
<1>2. ASSUME NEW s \in Serial
      PROVE  e[s] \in Seq(Signs) /\ Len(sg[s]) <= Len(e[s])
  <2>1. sg[s] \in Seq(Signs) /\ Len(sg[s]) \in Nat
    BY LenProperties DEF Heard
  <2>2. /\ Append(sg[s], what) \in Seq(Signs)
        /\ Len(Append(sg[s], what)) = Len(sg[s]) + 1
    BY <2>1, AppendProperties
  <2>3. e[s] = IF s \in S THEN Append(sg[s], what) ELSE sg[s]
    BY <1>1
  <2> HIDE DEF e
  <2>4. CASE s \in S
    BY <2>1, <2>2, <2>3, <2>4
  <2>5. CASE s \notin S
    BY <2>1, <2>3, <2>5
  <2> QED
    BY <2>4, <2>5
<1> HIDE DEF e
<1>3. e \in Heard
  BY <1>1, <1>2 DEF Heard
<1> QED
  BY <1>2, <1>3 DEF Grown, e

LEMMA RetireGrows ==
  ASSUME NEW st, st.signals \in Heard, NEW I, NEW why \in Signs
  PROVE  Retire(st, I, why).signals \in Heard
         /\ Grown(st.signals, Retire(st, I, why).signals)
<1>1. Retire(st, I, why).signals =
        Emit(st.signals, {st.ring[i].serial : i \in {j \in I : st.ring[j].live}}, why)
  BY DEF Retire
<1> QED
  BY <1>1, EmitGrows

LEMMA CapsGrow ==
  ASSUME NEW st, st.signals \in Heard
  PROVE  EnforceCaps(st).signals \in Heard /\ Grown(st.signals, EnforceCaps(st).signals)
<1> DEFINE b == CapLive(st)
           c == Retire(b, {i \in DOMAIN b.ring : i > RingCap}, "expired")
<1>1. b.signals \in Heard /\ Grown(st.signals, b.signals)
  BY RetireGrows DEF CapLive, Signs, Reasons
<1> HIDE DEF b
<1>2. c.signals \in Heard /\ Grown(b.signals, c.signals)
  BY <1>1, RetireGrows DEF Signs, Reasons
<1>3. EnforceCaps(st).signals = c.signals
  BY DEF EnforceCaps, CapRing, Truncate, b
<1> HIDE DEF c
<1> QED
  BY <1>1, <1>2, <1>3, GrownTwice

LEMMA FinishGrows ==
  ASSUME NEW st, st.signals \in Heard, NEW i, NEW c, NEW t, NEW k
  PROVE  Grown(st.signals, Finish(st, i, c, t, k).signals)
<1> DEFINE d == Arm(Fill(st, i, c, k), i, t)
<1>1. d.signals = st.signals
  BY DEF Arm, Fill
<1>2. Finish(st, i, c, t, k) = EnforceCaps(d)
  BY DEF Finish
<1> HIDE DEF d
<1> QED
  BY <1>1, <1>2, CapsGrow

(* Every handler and callback leaves what was said.                        *)
LEMMA SignalsGrow ==
  ASSUME signals \in Heard, Next PROVE Grown(signals, signals')
<1>1. Store.signals = signals
  BY DEF Store
<1>2. ASSUME NEW st, Become(st) PROVE signals' = st.signals
  BY <1>2 DEF Become
<1>3. ASSUME NEW c \in BOOLEAN, NEW t, NEW k, NotifyNew(c, t, k)
      PROVE  Grown(signals, signals')
  <2> DEFINE fresh == Insert(Store, Blank(nextId, added + 1))
  <2>1. Become(Finish(fresh, 1, c, t, k))
    BY <1>3 DEF NotifyNew
  <2>2. fresh.signals = signals
    BY <1>1 DEF Insert
  <2> HIDE DEF fresh
  <2>3. Grown(signals, Finish(fresh, 1, c, t, k).signals)
    BY <2>2, FinishGrows
  <2> QED
    BY <1>2, <2>1, <2>3
<1>4. ASSUME NEW id, NEW c \in BOOLEAN, NEW t, NEW k, NotifyReplace(id, c, t, k)
      PROVE  Grown(signals, signals')
  <2> DEFINE i == First(Matching(ring, id))
  <2>1. Become(Finish(Store, i, c, t, k))
    BY <1>4 DEF NotifyReplace
  <2> HIDE DEF i
  <2>2. Grown(signals, Finish(Store, i, c, t, k).signals)
    BY <1>1, FinishGrows
  <2> QED
    BY <1>2, <2>1, <2>2
<1>5. ASSUME NEW I, NEW why \in Signs, Become(Retire(Store, I, why))
      PROVE  Grown(signals, signals')
  <2>1. Grown(signals, Retire(Store, I, why).signals)
    BY <1>1, RetireGrows
  <2> QED
    BY <1>2, <1>5, <2>1
<1>6. ASSUME NEW id, NEW index, InvokeAction(id, index) PROVE Grown(signals, signals')
  <2> DEFINE i == First(Matching(ring, id))
             told == [ring |-> ring, armed |-> armed,
                      signals |-> Emit(signals, {ring[i].serial}, "invoked")]
  <2>1. Become(Retire(told, {i}, "dismissed"))
    BY <1>6 DEF InvokeAction
  <2>2. told.signals \in Heard /\ Grown(signals, told.signals)
    BY EmitGrows DEF Signs
  <2> HIDE DEF told
  <2>3. Grown(told.signals, Retire(told, {i}, "dismissed").signals)
    BY <2>2, RetireGrows DEF Signs, Reasons
  <2>4. signals' = Retire(told, {i}, "dismissed").signals
    BY <1>2, <2>1
  <2> QED
    BY <2>2, <2>3, <2>4, GrownTwice
<1>7. ASSUME ClearHistory PROVE Grown(signals, signals')
  <2> DEFINE q == Retire(Store, DOMAIN ring, "dismissed")
  <2>1. Become(Truncate(q, 0))
    BY <1>7 DEF ClearHistory
  <2>2. Grown(signals, q.signals)
    BY <1>1, RetireGrows DEF Signs, Reasons
  <2> HIDE DEF q
  <2>3. signals' = Truncate(q, 0).signals
    BY <1>2, <2>1
  <2>4. Truncate(q, 0).signals = q.signals
    BY DEF Truncate
  <2> QED
    BY <2>2, <2>3, <2>4
<1>8. ASSUME NEW s, Expire(s) PROVE Grown(signals, signals')
  <2>1. PICK i \in DOMAIN ring :
          Become(Retire([ring    |-> [ring EXCEPT ![i] = Timed(@, FALSE)],
                         armed   |-> [armed EXCEPT ![s] = @ - 1],
                         signals |-> signals], {i}, "expired"))
    BY <1>8 DEF Expire
  <2> DEFINE st == [ring    |-> [ring EXCEPT ![i] = Timed(@, FALSE)],
                    armed   |-> [armed EXCEPT ![s] = @ - 1],
                    signals |-> signals]
  <2>2. st.signals = signals
    OBVIOUS
  <2>3. Become(Retire(st, {i}, "expired"))
    BY <2>1
  <2> HIDE DEF st
  <2>4. Grown(signals, Retire(st, {i}, "expired").signals)
    BY <2>2, RetireGrows DEF Signs, Reasons
  <2> QED
    BY <1>2, <2>3, <2>4
<1>9. ASSUME NEW id, NEW why \in {"dismissed", "bycall"}, Close(id, why)
      PROVE  Grown(signals, signals')
  BY <1>5, <1>9 DEF Close, Signs, Reasons
<1>10. ASSUME CloseAll PROVE Grown(signals, signals')
  BY <1>5, <1>10 DEF CloseAll, Signs, Reasons
<1>11. \A n \in Notices : n.critical \in BOOLEAN
  BY StoreAssumption
<1> QED
  BY <1>3, <1>4, <1>6, <1>7, <1>8, <1>9, <1>10, <1>11 DEF Next

(* A sender that has heard of the close of its notification never has it   *)
(* on screen again, since it hears of it once: find_live() passes over what *)
(* is retired, and a Notify that names it makes a new entry                *)
(* (notify-store.c:166-179, 244-270).                                      *)
THEOREM RetiredForGood == Spec => NeverRevived
<1>1. ASSUME IInv, IInv', Next, NEW s \in 1..added, ~Live(s) PROVE ~Live(s)'
  <2>1. s \in Serial /\ s <= added
    BY <1>1, StoreAssumption DEF IInv, Serial
  <2>2. SignalsGood(ring, signals, added)
    BY <1>1, StoreParts
  <2>3. signals \in Heard
    <3>1. {<<>>} \cup ClosedTraces \subseteq Seq(Signs)
      <4>1. Reasons \subseteq Signs /\ "invoked" \in Signs /\ "dismissed" \in Signs
        BY DEF Signs, Reasons
      <4>2. <<>> \in Seq(Signs) /\ \A r \in Reasons : <<r>> \in Seq(Signs)
        BY <4>1
      <4>3. <<"invoked", "dismissed">> \in Seq(Signs)
        BY <4>1
      <4> QED
        BY <4>2, <4>3 DEF ClosedTraces
    <3> QED
      BY <2>2, <3>1 DEF SignalsGood, Heard
  <2>4. signals[s] \in ClosedTraces
    BY <1>1, <2>1, <2>2 DEF SignalsGood, Live, OnScreen
  <2>5. Len(signals[s]) >= 1
    BY <2>4 DEF ClosedTraces
  <2>6. Grown(signals, signals')
    BY <1>1, <2>3, SignalsGrow
  <2>7. signals'[s] # <<>>
    BY <2>1, <2>3, <2>5, <2>6, LenProperties DEF Grown, Heard
  <2>8. SignalsGood(ring', signals', added')
    BY <1>1 DEF IInv, StoreInv, StoreGood, Store
  <2> QED
    BY <2>1, <2>7, <2>8 DEF SignalsGood, Live, OnScreen
<1>2. ASSUME UNCHANGED vars, NEW s, ~Live(s) PROVE ~Live(s)'
  BY <1>2 DEF vars, Live
<1>3. IInv /\ IInv' /\ [Next]_vars => [\A s \in 1..added : ~Live(s) => ~Live(s)']_vars
  BY <1>1, <1>2
<1> QED
  BY <1>3, SpecInv, PTL DEF Spec, NeverRevived
================================================================================
