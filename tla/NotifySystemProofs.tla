--------------------------- MODULE NotifySystemProofs --------------------------
(***************************************************************************)
(* Proofs about NotifySystem, for every value of its constants.            *)
(***************************************************************************)
EXTENDS NotifySystem, SequenceTheorems, FiniteSetTheorems,
        WellFoundedInduction, TLAPS

(* The first invariant: who runs, who owns the name, what has arrived, and *)
(* that every sender was told or still has its notification on screen.  It *)
(* is that of a service whose daemons are started only when none runs.     *)

Entry == [id : Nat, serial : Nat, live : BOOLEAN, timer : {FALSE},
          critical : {FALSE}, actions : {0}]

Saved == [id : Nat, serial : Nat, critical : {FALSE}]

Letter == [op : Ops \ {"NameLost"}, id : Nat, meant : Nat, call : Nat]

Process == [phase : {"off", "loaded", "up"}, ring : Seq(Entry), nextId : Nat,
            inbox : Seq(Letter)]

PanelPhases == {"closed", "idle", "waiting", "handled", "absent"}

PanelOps == {"GetLive", "Dismiss", "DismissAll", "ClearHistory"}

PanelState == [phase : PanelPhases, call : Nat, op : PanelOps,
               ring : Seq(Entry), reply : SUBSET Nat]

Typed ==
  /\ owner \in Daemons \cup {"none"}
  /\ daemon \in [Daemons -> Process]
  /\ file \in Seq(Saved)
  /\ panel \in PanelState
  /\ signals \in [Notes -> Seq(Reasons)]
  /\ idOf \in Seq(Nat)
  /\ cleared \in BOOLEAN
  /\ crashes \in Nat

(* One daemon at a time, and the name is with the one that is up. *)
Single ==
  /\ \A d, e \in Daemons : Alive(d) /\ Alive(e) => d = e
  /\ \A d \in Daemons : daemon[d].phase = "up" <=> owner = d
  /\ \A d \in Daemons : daemon[d].phase # "up" => daemon[d].inbox = <<>>
  /\ \A d \in Daemons : ~Alive(d) => daemon[d].ring = <<>>

(* Nothing is filed past the bound, what is still to be filed counted in. *)
Room ==
  /\ \A d \in Daemons : Len(daemon[d].inbox) <= MaxInbox
  /\ Len(idOf) + Cardinality(Pending) <= MaxNotes

OnScreen(r, s) == \E i \in LiveIn(r) : r[i].serial = s

Told(r, sg, s) == sg[s] # <<>> \/ OnScreen(r, s)

AllTold ==
  crashes = 0 =>
    \A s \in 1..Len(idOf) :
      signals[s] # <<>> \/ \E d \in Daemons : OnScreen(daemon[d].ring, s)

TellInv == Typed /\ Single /\ Room /\ AllTold

(* The second: the file is what the daemon holds, ids count up, and until  *)
(* the history is cleared an id says which notification is meant.          *)

FileHeld ==
  /\ \A d \in Daemons : Alive(d) => file = Persisted(daemon[d].ring)
  /\ panel.phase = "absent" => Quiet
  /\ panel.op # "DismissAll"

Counting ==
  /\ \A i \in DOMAIN file : file[i].id <= Len(idOf) /\ file[i].serial \in Notes
  /\ \A d \in Daemons :
       Alive(d) => /\ daemon[d].nextId \in 1..(Len(idOf) + 1)
                   /\ \A i \in DOMAIN file : file[i].id < daemon[d].nextId

MeansWell(m) == m.op \in {"CloseNotification", "Dismiss"} => m.id = m.meant

Meant(b) == \A k \in DOMAIN b : MeansWell(b[k])

Meaning ==
  /\ struck.meant = struck.hit
  /\ \A s \in 1..Len(idOf) : idOf[s] = s
  /\ \A i \in DOMAIN file : file[i].id = file[i].serial
  /\ \A i \in DOMAIN panel.ring : panel.ring[i].id = panel.ring[i].serial
  /\ \A d \in Daemons :
       /\ Alive(d) => daemon[d].nextId = Len(idOf) + 1
       /\ Meant(daemon[d].inbox)
  /\ Len(idOf) > 0 => file # <<>> /\ file[1].id = Len(idOf)

HistInv == FileHeld /\ Counting /\ (~cleared => Meaning)
--------------------------------------------------------------------------------
(* What the operators of the ring do to a store value.                     *)

(* A function on 1..n is a sequence of length n. *)
LEMMA FunctionIsSeq ==
  ASSUME NEW S, NEW n \in Nat, NEW f \in [1..n -> S]
  PROVE  f \in Seq(S) /\ Len(f) = n /\ DOMAIN f = 1..n
<1>1. f \in Seq(S)
  BY SeqDef
<1>2. QED
  BY <1>1, LenProperties

(* The record kept of a sequence of entries has its length and its fields. *)
LEMMA PersistedSeq ==
  ASSUME NEW r \in Seq(Entry)
  PROVE  /\ Persisted(r) \in Seq(Saved)
         /\ Len(Persisted(r)) = Len(r)
         /\ \A i \in 1..Len(r) : /\ Persisted(r)[i] = Record(r[i])
                                 /\ Persisted(r)[i].id = r[i].id
                                 /\ Persisted(r)[i].serial = r[i].serial
<1>1. Len(r) \in Nat /\ DOMAIN r = 1..Len(r) /\ r \in [1..Len(r) -> Entry]
  BY LenProperties
<1>2. Persisted(r) = [i \in 1..Len(r) |-> Record(r[i])]
  BY <1>1 DEF Persisted
<1>3. \A i \in 1..Len(r) : /\ Record(r[i]) \in Saved
                           /\ Record(r[i]).id = r[i].id
                           /\ Record(r[i]).serial = r[i].serial
  BY <1>1 DEF Record, Saved, Entry
<1>4. Persisted(r) \in [1..Len(r) -> Saved]
  BY <1>2, <1>3
<1> QED
  BY <1>1, <1>2, <1>3, <1>4, FunctionIsSeq

(* Two rings with the same ids and serials leave the same file. *)
LEMMA PersistedSame ==
  ASSUME NEW r \in Seq(Entry), NEW q \in Seq(Entry), Len(q) = Len(r),
         \A i \in 1..Len(r) : q[i].id = r[i].id /\ q[i].serial = r[i].serial
  PROVE  Persisted(q) = Persisted(r)
<1>1. Len(r) \in Nat /\ DOMAIN r = 1..Len(r) /\ DOMAIN q = 1..Len(r)
  BY LenProperties
<1>2. ASSUME NEW i \in 1..Len(r)
      PROVE  Record(q[i]) = Record(r[i])
  <2>1. r[i] \in Entry /\ q[i] \in Entry
    BY <1>1, ElementOfSeq
  <2> QED
    BY <2>1 DEF Record, Entry
<1> QED
  BY <1>1, <1>2 DEF Persisted

(* What is read back from a file leaves that file. *)
LEMMA LoadedSeq ==
  ASSUME NEW r \in Seq(Saved)
  PROVE  /\ Loaded(r) \in Seq(Entry)
         /\ Len(Loaded(r)) = Len(r)
         /\ \A i \in 1..Len(r) : /\ Loaded(r)[i].id = r[i].id
                                 /\ Loaded(r)[i].serial = r[i].serial
                                 /\ ~Loaded(r)[i].live
         /\ Persisted(Loaded(r)) = r
<1>1. Len(r) \in Nat /\ DOMAIN r = 1..Len(r) /\ r \in [1..Len(r) -> Saved]
  BY LenProperties
<1>2. Loaded(r) = [i \in 1..Len(r) |-> Blank(r[i].id, r[i].serial)]
  BY <1>1 DEF Loaded
<1>3. \A i \in 1..Len(r) :
        LET e == Blank(r[i].id, r[i].serial)
        IN e \in Entry /\ e.id = r[i].id /\ e.serial = r[i].serial /\ ~e.live
  BY <1>1 DEF Blank, Saved, Entry
<1>4. Loaded(r) \in [1..Len(r) -> Entry]
  BY <1>2, <1>3
<1>5. Loaded(r) \in Seq(Entry) /\ Len(Loaded(r)) = Len(r)
  BY <1>1, <1>4, FunctionIsSeq
<1>6. \A i \in 1..Len(r) : Loaded(r)[i] = Blank(r[i].id, r[i].serial)
  BY <1>2
<1>7. \A i \in 1..Len(r) : Record(Blank(r[i].id, r[i].serial)) = r[i]
  BY <1>1 DEF Blank, Record, Saved
<1>8. Persisted(Loaded(r)) = r
  <2>1. DOMAIN Loaded(r) = 1..Len(r)
    BY <1>4
  <2>2. Persisted(Loaded(r)) = [i \in 1..Len(r) |-> Record(Loaded(r)[i])]
    BY <2>1 DEF Persisted
  <2>3. \A i \in 1..Len(r) : Record(Loaded(r)[i]) = r[i]
    BY <1>6, <1>7
  <2> QED
    BY <1>1, <2>2, <2>3
<1> QED
  BY <1>3, <1>5, <1>6, <1>8

(* retire() keeps every entry where it is, with its id and serial.         *)
LEMMA RetireRing ==
  ASSUME NEW st, st.ring \in Seq(Entry), NEW I, NEW why
  PROVE  LET q == Retire(st, I, why).ring
         IN /\ q \in Seq(Entry)
            /\ Len(q) = Len(st.ring)
            /\ \A i \in 1..Len(st.ring) :
                 /\ q[i].id = st.ring[i].id
                 /\ q[i].serial = st.ring[i].serial
                 /\ q[i].live <=> st.ring[i].live /\ i \notin I
            /\ Persisted(q) = Persisted(st.ring)
<1> DEFINE r == st.ring
           R == {i \in I : r[i].live}
           out(i) == [r[i] EXCEPT !.live = FALSE, !.timer = FALSE]
           q == Retire(st, I, why).ring
           n == Len(r)
<1>1. n \in Nat /\ DOMAIN r = 1..n /\ r \in [1..n -> Entry]
  BY LenProperties
<1>2. q = [i \in 1..n |-> IF i \in R THEN out(i) ELSE r[i]]
  BY <1>1 DEF Retire
<1>3. ASSUME NEW i \in 1..n
      PROVE  /\ r[i] \in Entry
             /\ out(i) \in Entry
             /\ out(i).id = r[i].id /\ out(i).serial = r[i].serial
             /\ ~out(i).live
  <2>1. r[i] \in Entry
    BY <1>1
  <2> QED
    BY <2>1 DEF Entry
<1> HIDE DEF out
<1>4. \A i \in 1..n : q[i] = IF i \in R THEN out(i) ELSE r[i]
  BY <1>2
<1> HIDE DEF q
<1>5. q \in [1..n -> Entry]
  BY <1>2, <1>3
<1>6. q \in Seq(Entry) /\ Len(q) = n
  BY <1>1, <1>5, FunctionIsSeq
<1>7. ASSUME NEW i \in 1..n
      PROVE  /\ q[i].id = r[i].id
             /\ q[i].serial = r[i].serial
             /\ q[i].live <=> r[i].live /\ i \notin I
  <2>1. CASE i \in R
    BY <1>3, <1>4, <2>1
  <2>2. CASE i \notin R
    BY <1>4, <2>2
  <2> QED
    BY <2>1, <2>2
<1>8. Persisted(q) = Persisted(r)
  BY <1>6, <1>7, PersistedSame
<1> QED
  BY <1>6, <1>7, <1>8 DEF q

(* A sender that was told, or whose notification is on screen, is told     *)
(* when the notification is retired.                                       *)
LEMMA RetireTells ==
  ASSUME NEW st, st.ring \in Seq(Entry), NEW N,
         st.signals \in [N -> Seq(Reasons)],
         NEW I \in SUBSET DOMAIN st.ring, NEW why \in Reasons
  PROVE  LET q == Retire(st, I, why)
         IN /\ q.signals \in [N -> Seq(Reasons)]
            /\ \A s \in N : Told(st.ring, st.signals, s)
                            => Told(q.ring, q.signals, s)
<1> DEFINE r == st.ring
           sg == st.signals
           q == Retire(st, I, why)
           S == {r[i].serial : i \in {j \in I : r[j].live}}
<1>1. q.signals = [s \in N |-> IF s \in S THEN Append(sg[s], why) ELSE sg[s]]
  BY DEF Retire, Emit
<1>2. \A s \in N : /\ sg[s] \in Seq(Reasons)
                   /\ Append(sg[s], why) \in Seq(Reasons)
                   /\ Append(sg[s], why) # <<>>
  BY AppendProperties
<1>3. q.signals \in [N -> Seq(Reasons)]
  BY <1>1, <1>2
<1>4. /\ DOMAIN r = 1..Len(r)
      /\ DOMAIN q.ring = 1..Len(r)
      /\ \A i \in 1..Len(r) : /\ q.ring[i].serial = r[i].serial
                              /\ q.ring[i].live <=> r[i].live /\ i \notin I
  BY RetireRing, LenProperties
<1> HIDE DEF q
<1>5. ASSUME NEW s \in N, Told(r, sg, s)
      PROVE  Told(q.ring, q.signals, s)
  <2>1. CASE sg[s] # <<>>
    BY <1>1, <1>2, <2>1 DEF Told
  <2>2. CASE \E i \in LiveIn(r) : r[i].serial = s
    <3>1. PICK i \in LiveIn(r) : r[i].serial = s
      BY <2>2
    <3>2. i \in 1..Len(r) /\ r[i].live
      BY <1>4, <3>1 DEF LiveIn
    <3>3. CASE i \in I
      BY <1>1, <1>2, <3>1, <3>2, <3>3 DEF Told
    <3>4. CASE i \notin I
      BY <1>4, <3>1, <3>2, <3>4 DEF Told, OnScreen, LiveIn
    <3> QED
      BY <3>3, <3>4
  <2> QED
    BY <1>5, <2>1, <2>2 DEF Told, OnScreen
<1> QED
  BY <1>3, <1>5 DEF q

(* The entries past n go, and nothing else. *)
LEMMA TruncateRing ==
  ASSUME NEW st, st.ring \in Seq(Entry), NEW n \in Nat
  PROVE  LET q == Truncate(st, n)
         IN /\ q.ring \in Seq(Entry)
            /\ Len(q.ring) = IF Len(st.ring) < n THEN Len(st.ring) ELSE n
            /\ \A i \in 1..Len(q.ring) : q.ring[i] = st.ring[i]
            /\ q.signals = st.signals
<1> DEFINE r == st.ring
           q == Truncate(st, n).ring
           gone == {i \in DOMAIN r : i > n}
<1>1. Len(r) \in Nat /\ DOMAIN r = 1..Len(r)
  BY LenProperties
<1>2. q = IF gone = {} THEN r ELSE SubSeq(r, 1, n)
  BY DEF Truncate
<1>3. Truncate(st, n).signals = st.signals
  BY DEF Truncate
<1>4. CASE gone = {}
  <2>1. q = r
    BY <1>2, <1>4
  <2>2. Len(r) <= n
    <3>1. \A i \in DOMAIN r : i <= n
      BY <1>1, <1>4
    <3> QED
      BY <1>1, <3>1
  <2> HIDE DEF q
  <2>3. Len(q) = Len(r) /\ Len(r) = IF Len(r) < n THEN Len(r) ELSE n
    BY <1>1, <2>1, <2>2
  <2>4. q \in Seq(Entry) /\ \A i \in 1..Len(q) : q[i] = r[i]
    BY <2>1
  <2>5. Len(q) = IF Len(r) < n THEN Len(r) ELSE n
    BY <2>3
  <2> QED
    BY <1>3, <2>4, <2>5 DEF q
<1>5. CASE gone # {}
  <2>1. n < Len(r)
    BY <1>1, <1>5
  <2>2. \A i \in 1..n : r[i] \in Entry
    BY <1>1, <2>1, ElementOfSeq
  <2>3. q = SubSeq(r, 1, n)
    BY <1>2, <1>5
  <2> HIDE DEF q
  <2>4. /\ SubSeq(r, 1, n) \in Seq(Entry)
        /\ Len(SubSeq(r, 1, n)) = IF 1 <= n THEN n - 1 + 1 ELSE 0
        /\ \A i \in 1..(n - 1 + 1) : SubSeq(r, 1, n)[i] = r[1 + i - 1]
    BY <2>2, SubSeqProperties
  <2>5. q \in Seq(Entry) /\ Len(q) = n /\ \A i \in 1..n : q[i] = r[i]
    BY <2>3, <2>4
  <2>6. Len(q) = IF Len(r) < n THEN Len(r) ELSE n
    BY <1>1, <2>1, <2>5
  <2> QED
    BY <1>3, <2>5, <2>6 DEF q
<1> QED
  BY <1>4, <1>5

(* enforce_caps(): the ring keeps its newest RingCap entries, with their   *)
(* ids, and whoever it retires or drops is told.                           *)
LEMMA CapsTell ==
  ASSUME NEW st, st.ring \in Seq(Entry), NEW N,
         st.signals \in [N -> Seq(Reasons)]
  PROVE  LET q == EnforceCaps(st)
         IN /\ q.ring \in Seq(Entry)
            /\ q.signals \in [N -> Seq(Reasons)]
            /\ Len(q.ring) =
                 IF Len(st.ring) < RingCap THEN Len(st.ring) ELSE RingCap
            /\ \A i \in 1..Len(q.ring) :
                 /\ q.ring[i].id = st.ring[i].id
                 /\ q.ring[i].serial = st.ring[i].serial
            /\ \A s \in N : Told(st.ring, st.signals, s)
                            => Told(q.ring, q.signals, s)
<1> DEFINE b == CapLive(st)
           past == {i \in DOMAIN b.ring : i > RingCap}
           c == Retire(b, past, "expired")
           d == Truncate(c, RingCap)
<1>1. "expired" \in Reasons /\ RingCap \in Nat
  BY RingAssumption DEF Reasons
<1>2. EnforceCaps(st) = d
  BY DEF EnforceCaps, CapRing
<1>3. b = Retire(st, OverLiveCap(st.ring), "expired")
  BY DEF CapLive
<1>4. OverLiveCap(st.ring) \in SUBSET DOMAIN st.ring
  BY DEF OverLiveCap, LiveIn
<1> HIDE DEF b
<1>5. /\ b.ring \in Seq(Entry) /\ Len(b.ring) = Len(st.ring)
      /\ \A i \in 1..Len(st.ring) : /\ b.ring[i].id = st.ring[i].id
                                    /\ b.ring[i].serial = st.ring[i].serial
  BY <1>3, RetireRing
<1>6. /\ b.signals \in [N -> Seq(Reasons)]
      /\ \A s \in N : Told(st.ring, st.signals, s)
                      => Told(b.ring, b.signals, s)
  BY <1>1, <1>3, <1>4, RetireTells
<1>7. past \in SUBSET DOMAIN b.ring
  OBVIOUS
<1>8. /\ c.ring \in Seq(Entry) /\ Len(c.ring) = Len(b.ring)
      /\ \A i \in 1..Len(b.ring) :
           /\ c.ring[i].id = b.ring[i].id
           /\ c.ring[i].serial = b.ring[i].serial
           /\ c.ring[i].live <=> b.ring[i].live /\ i \notin past
  BY <1>5, RetireRing
<1>9. /\ c.signals \in [N -> Seq(Reasons)]
      /\ \A s \in N : Told(b.ring, b.signals, s)
                      => Told(c.ring, c.signals, s)
  BY <1>1, <1>5, <1>6, <1>7, RetireTells
<1>10. /\ DOMAIN b.ring = 1..Len(b.ring) /\ DOMAIN c.ring = 1..Len(c.ring)
       /\ Len(b.ring) \in Nat
  BY <1>5, <1>8, LenProperties
<1>11. \A i \in LiveIn(c.ring) : i \in 1..Len(c.ring) /\ i <= RingCap
  BY <1>1, <1>8, <1>10 DEF LiveIn
<1> HIDE DEF past, c
<1>12. /\ d.ring \in Seq(Entry)
       /\ Len(d.ring) = IF Len(c.ring) < RingCap THEN Len(c.ring) ELSE RingCap
       /\ \A i \in 1..Len(d.ring) : d.ring[i] = c.ring[i]
       /\ d.signals = c.signals
  BY <1>1, <1>8, TruncateRing
<1> HIDE DEF d
<1>13. Len(d.ring) = IF Len(st.ring) < RingCap THEN Len(st.ring) ELSE RingCap
  BY <1>5, <1>8, <1>12
<1>14. \A i \in 1..Len(d.ring) : i \in 1..Len(st.ring)
  BY <1>1, <1>5, <1>10, <1>13
<1>15. \A i \in 1..Len(d.ring) : /\ d.ring[i].id = st.ring[i].id
                                 /\ d.ring[i].serial = st.ring[i].serial
  BY <1>5, <1>8, <1>12, <1>14
<1>16. ASSUME NEW s \in N, Told(c.ring, c.signals, s)
       PROVE  Told(d.ring, d.signals, s)
  <2>1. CASE c.signals[s] # <<>>
    BY <1>12, <2>1 DEF Told
  <2>2. CASE \E i \in LiveIn(c.ring) : c.ring[i].serial = s
    <3>1. PICK i \in LiveIn(c.ring) : c.ring[i].serial = s
      BY <2>2
    <3>2. i \in 1..Len(d.ring)
      BY <1>1, <1>8, <1>10, <1>11, <1>12, <3>1
    <3>3. DOMAIN d.ring = 1..Len(d.ring) /\ c.ring[i].live
      BY <1>12, <3>1, LenProperties DEF LiveIn
    <3> QED
      BY <1>12, <3>1, <3>2, <3>3 DEF Told, OnScreen, LiveIn
  <2> QED
    BY <1>16, <2>1, <2>2 DEF Told, OnScreen
<1> QED
  BY <1>2, <1>6, <1>9, <1>12, <1>13, <1>15, <1>16

--------------------------------------------------------------------------------
(* The counter once a file is loaded.                                      *)

(* A set of naturals that is not empty has a smallest member. *)
LEMMA Smallest ==
  ASSUME NEW I \in SUBSET Nat, I # {}
  PROVE  \E x \in I : \A y \in I : x <= y
<1>1. \E x \in I : \A y \in I : ~(<<y, x>> \in OpToRel(<, Nat))
  BY WFMin, NatLessThanWellFounded
<1>2. PICK x \in I : \A y \in I : ~(<<y, x>> \in OpToRel(<, Nat))
  BY <1>1
<1>3. \A y \in I : x <= y
  <2> SUFFICES ASSUME NEW y \in I, ~(x <= y)
               PROVE  FALSE
    OBVIOUS
  <2>1. <<y, x>> \in Nat \X Nat /\ <<y, x>>[1] = y /\ <<y, x>>[2] = x
    OBVIOUS
  <2>2. y < x
    BY <2>1
  <2>3. OpToRel(<, Nat) = {ss \in Nat \X Nat : ss[1] < ss[2]}
    BY DEF OpToRel
  <2>4. <<y, x>> \in OpToRel(<, Nat)
    BY <2>1, <2>2, <2>3
  <2> QED
    BY <1>2, <2>4
<1> QED
  BY <1>3

(* find_live() stops at an entry of the set it looks through. *)
LEMMA FirstIsIn ==
  ASSUME NEW I \in SUBSET Nat, I # {}
  PROVE  First(I) \in I
BY Smallest DEF First

(* A set that holds 0 and with a number its successor holds them all, up   *)
(* to n.                                                                   *)
LEMMA UpTo ==
  ASSUME NEW n \in Nat, NEW S \in SUBSET Nat, 0 \in S,
         \A i \in S : i < n => i + 1 \in S
  PROVE  0..n \subseteq S
<1> DEFINE B == {i \in 0..n : i \notin S}
<1>1. CASE B = {}
  BY <1>1
<1>2. CASE B # {}
  <2>0. B \in SUBSET Nat
    OBVIOUS
  <2> HIDE DEF B
  <2>1. PICK x \in B : \A y \in B : x <= y
    BY <1>2, <2>0, Smallest
  <2> USE DEF B
  <2>2. x \in 0..n /\ x \notin S /\ x # 0
    BY <2>1
  <2>3. x - 1 \in 0..n /\ x - 1 \notin B /\ x - 1 < n
    BY <2>1, <2>2
  <2>4. x - 1 \in S
    BY <2>3
  <2>5. x - 1 + 1 \in S /\ x - 1 + 1 = x
    BY <2>2, <2>3, <2>4
  <2> QED
    BY <2>2, <2>5
<1> QED
  BY <1>1, <1>2

(* What the counter is after the first i records of r. *)
Step(r, i, n) == IF r[i].id >= n THEN (r[i].id + 1) % (IdMax + 1) ELSE n

Counts(r, f) ==
  f = [i \in 0..Len(r) |-> IF i = 0 THEN 1 ELSE Step(r, i, f[i - 1])]

LEMMA CountExists ==
  ASSUME NEW r \in Seq(Saved)
  PROVE  /\ \E f : Counts(r, f)
         /\ \E f : Counts(r, f) /\ NextAfter(r) = f[Len(r)]
<1> DEFINE n == Len(r)
           Upto(m, f) == f = [i \in 0..m |->
                                IF i = 0 THEN 1 ELSE Step(r, i, f[i - 1])]
           S == {m \in Nat : \E f : Upto(m, f)}
<1>1. n \in Nat
  BY LenProperties
<1>2. 0 \in S
  <2> DEFINE f == [i \in 0..0 |-> 1]
  <2>1. Upto(0, f)
    OBVIOUS
  <2> QED
    BY <2>1
<1>3. ASSUME NEW m \in S
      PROVE  m + 1 \in S
  <2>1. PICK f : Upto(m, f)
    OBVIOUS
  <2> DEFINE g == [i \in 0..(m + 1) |->
                     IF i = m + 1 THEN Step(r, m + 1, f[m]) ELSE f[i]]
  <2>2. \A i \in 0..m : f[i] = IF i = 0 THEN 1 ELSE Step(r, i, f[i - 1])
    BY <2>1
  <2>3. ASSUME NEW i \in 0..(m + 1)
        PROVE  g[i] = IF i = 0 THEN 1 ELSE Step(r, i, g[i - 1])
    <3>1. CASE i = m + 1
      <4>1. i # 0 /\ g[i] = Step(r, m + 1, f[m])
        BY <3>1
      <4>2. g[i - 1] = f[m]
        BY <3>1
      <4> QED
        BY <3>1, <4>1, <4>2
    <3>2. CASE i # m + 1 /\ i # 0
      <4>1. i \in 0..m /\ i - 1 \in 0..m
        BY <3>2
      <4>2. g[i] = f[i] /\ g[i - 1] = f[i - 1]
        BY <4>1
      <4> QED
        BY <2>2, <3>2, <4>1, <4>2
    <3>3. CASE i = 0
      <4>1. i \in 0..m /\ g[i] = f[i]
        BY <3>3
      <4> QED
        BY <2>2, <3>3, <4>1
    <3> QED
      BY <3>1, <3>2, <3>3
  <2>4. Upto(m + 1, g)
    <3>1. g = [i \in 0..(m + 1) |-> g[i]]
      OBVIOUS
    <3> HIDE DEF g
    <3> QED
      BY <2>3, <3>1
  <2> QED
    BY <2>4
<1>4. n \in S
  <2>1. S \in SUBSET Nat /\ \A m \in S : m < n => m + 1 \in S
    BY <1>3
  <2> HIDE DEF S, n
  <2>2. 0..n \subseteq S
    BY <1>1, <1>2, <2>1, UpTo
  <2> QED
    BY <1>1, <2>2
<1>5. \E f : Counts(r, f)
  BY <1>4 DEF Counts
<1>6. NextAfter(r) = (CHOOSE f : Counts(r, f))[Len(r)]
  BY DEF NextAfter, Counts, Step
<1> QED
  BY <1>5, <1>6

LEMMA NoWrap ==
  ASSUME NEW x \in Nat, NEW m \in Nat, x < m
  PROVE  (x + 1) % (m + 1) = x + 1
OBVIOUS

(* Ids below the end of a guint32 leave the counter past all of them, and  *)
(* past nothing else.                                                      *)
LEMMA NextAfterValue ==
  ASSUME NEW r \in Seq(Saved), NEW b \in Nat, b < IdMax,
         \A i \in 1..Len(r) : r[i].id <= b
  PROVE  /\ NextAfter(r) \in 1..(b + 1)
         /\ \A i \in 1..Len(r) : r[i].id < NextAfter(r)
<1> DEFINE n == Len(r)
<1>0. PICK f : Counts(r, f) /\ NextAfter(r) = f[Len(r)]
  BY CountExists
<1>1. /\ n \in Nat
      /\ \A i \in 1..n : r[i].id \in Nat
  <2>1. n \in Nat /\ \A i \in 1..n : r[i] \in Saved
    BY LenProperties, ElementOfSeq
  <2> QED
    BY <2>1 DEF Saved
<1>2. \A i \in 0..n : f[i] = IF i = 0 THEN 1 ELSE Step(r, i, f[i - 1])
  BY <1>0 DEF Counts
<1> DEFINE S == {k \in 0..n : /\ f[k] \in 1..(b + 1)
                              /\ \A i \in 1..k : r[i].id < f[k]}
<1>3. 0 \in S
  BY <1>1, <1>2
<1>4. ASSUME NEW k \in S, k < n
      PROVE  k + 1 \in S
  <2>1. k + 1 \in 1..n /\ k + 1 \in 0..n /\ k + 1 # 0 /\ k + 1 - 1 = k
    BY <1>1, <1>4
  <2>2. f[k + 1] = Step(r, k + 1, f[k])
    BY <1>2, <2>1
  <2>3. f[k] \in 1..(b + 1) /\ \A i \in 1..k : r[i].id < f[k]
    OBVIOUS
  <2>4. r[k + 1].id \in Nat /\ r[k + 1].id <= b /\ b < IdMax /\ IdMax \in Nat
    BY <1>1, <2>1, RingAssumption
  <2> DEFINE x == r[k + 1].id
             y == f[k]
  <2>5. (x + 1) % (IdMax + 1) = x + 1
    <3>1. x \in Nat /\ x < IdMax /\ IdMax \in Nat
      BY <2>4
    <3> HIDE DEF x
    <3> QED
      BY <3>1, NoWrap
  <2>6. /\ f[k + 1] \in 1..(b + 1) /\ f[k] <= f[k + 1]
        /\ r[k + 1].id < f[k + 1]
    <3>1. f[k + 1] = IF x >= y THEN x + 1 ELSE y
      BY <2>2, <2>5 DEF Step
    <3>2. x \in Nat /\ x <= b /\ y \in 1..(b + 1) /\ b \in Nat
      BY <2>3, <2>4
    <3> HIDE DEF x, y
    <3>3. /\ f[k + 1] \in 1..(b + 1) /\ y <= f[k + 1] /\ x < f[k + 1]
      BY <3>1, <3>2
    <3> QED
      BY <3>3 DEF x, y
  <2>7. ASSUME NEW i \in 1..(k + 1)
        PROVE  r[i].id < f[k + 1]
    <3>1. CASE i = k + 1
      BY <2>6, <3>1
    <3>2. CASE i \in 1..k
      <4>1. r[i].id < f[k] /\ r[i].id \in Nat
        BY <1>1, <2>1, <2>3, <3>2
      <4> QED
        BY <2>3, <2>6, <4>1
    <3> QED
      BY <3>1, <3>2
  <2> QED
    BY <2>1, <2>6, <2>7
<1>5. n \in S
  <2>1. S \in SUBSET Nat /\ \A k \in S : k < n => k + 1 \in S
    BY <1>4
  <2> HIDE DEF S, n
  <2>2. 0..n \subseteq S
    BY <1>1, <1>3, <2>1, UpTo
  <2> QED
    BY <1>1, <2>2
<1> QED
  BY <1>0, <1>5

(* The counter is a number, whatever the file says. *)
LEMMA NextAfterNat ==
  ASSUME NEW r \in Seq(Saved)
  PROVE  NextAfter(r) \in Nat
<1> DEFINE n == Len(r)
<1>0. PICK f : Counts(r, f) /\ NextAfter(r) = f[Len(r)]
  BY CountExists
<1>1. n \in Nat /\ \A i \in 1..n : r[i].id \in Nat
  <2>1. n \in Nat /\ \A i \in 1..n : r[i] \in Saved
    BY LenProperties, ElementOfSeq
  <2> QED
    BY <2>1 DEF Saved
<1>2. \A i \in 0..n : f[i] = IF i = 0 THEN 1 ELSE Step(r, i, f[i - 1])
  BY <1>0 DEF Counts
<1> DEFINE S == {k \in 0..n : f[k] \in Nat}
<1>3. 0 \in S
  BY <1>1, <1>2
<1>4. ASSUME NEW k \in S, k < n
      PROVE  k + 1 \in S
  <2>1. k + 1 \in 1..n /\ k + 1 \in 0..n /\ k + 1 # 0 /\ k + 1 - 1 = k
    BY <1>1, <1>4
  <2>2. f[k + 1] = Step(r, k + 1, f[k])
    BY <1>2, <2>1
  <2>3. (r[k + 1].id + 1) % (IdMax + 1) \in Nat
    BY <1>1, <2>1, RingAssumption
  <2> QED
    BY <2>1, <2>2, <2>3 DEF Step
<1>5. n \in S
  <2>1. S \in SUBSET Nat /\ \A k \in S : k < n => k + 1 \in S
    BY <1>4
  <2> HIDE DEF S, n
  <2>2. 0..n \subseteq S
    BY <1>1, <1>3, <2>1, UpTo
  <2> QED
    BY <1>1, <2>2
<1> QED
  BY <1>0, <1>5

--------------------------------------------------------------------------------
(* How many notifications are on their way, as a function of the inboxes.  *)

PendingOf(b) == {w \in Daemons \X (1..MaxInbox) :
                   w[2] \in DOMAIN b[w[1]] /\ b[w[1]][w[2]].op = "Notify"}

Boxes == [d \in Daemons |-> daemon[d].inbox]

LEMMA PendingFinite ==
  ASSUME NEW b
  PROVE  /\ IsFiniteSet(PendingOf(b))
         /\ Cardinality(PendingOf(b)) \in Nat
<1>1. IsFiniteSet(Daemons) /\ IsFiniteSet(1..MaxInbox)
  BY SystemAssumption, FS_Interval
<1>2. IsFiniteSet(Daemons \X (1..MaxInbox))
  BY <1>1, FS_Product
<1>3. PendingOf(b) \in SUBSET (Daemons \X (1..MaxInbox))
  BY DEF PendingOf
<1> QED
  BY <1>2, <1>3, FS_Subset, FS_CardinalityType

LEMMA PendingIsBoxes == Pending = PendingOf(Boxes)
BY DEF Pending, PendingOf, Boxes

LEMMA PendingNext ==
  Pending' = PendingOf([d \in Daemons |-> daemon'[d].inbox])
BY DEF Pending, PendingOf

(* An inbox that is emptied takes what was on its way to it along. *)
LEMMA PendingFewer ==
  ASSUME NEW b, NEW c, \A d \in Daemons : c[d] = b[d] \/ c[d] = <<>>
  PROVE  Cardinality(PendingOf(c)) <= Cardinality(PendingOf(b))
<1>1. ASSUME NEW w \in PendingOf(c)
      PROVE  w \in PendingOf(b)
  <2>1. w \in Daemons \X (1..MaxInbox) /\ w[1] \in Daemons
    BY DEF PendingOf
  <2>2. w[2] \in DOMAIN c[w[1]] /\ c[w[1]][w[2]].op = "Notify"
    BY DEF PendingOf
  <2>3. c[w[1]] # <<>>
    BY <2>2
  <2> QED
    BY <2>1, <2>2, <2>3 DEF PendingOf
<1>2. PendingOf(c) \in SUBSET PendingOf(b)
  BY <1>1
<1> QED
  BY <1>2, PendingFinite, FS_Subset

(* A message that arrives is one more on its way, if it is a notification. *)
LEMMA PendingPut ==
  ASSUME NEW b \in [Daemons -> Seq(Letter)], NEW o \in Daemons,
         NEW m \in Letter, NEW c,
         \A d \in Daemons : c[d] = IF d = o THEN Append(b[o], m) ELSE b[d]
  PROVE  /\ Cardinality(PendingOf(c)) <= Cardinality(PendingOf(b)) + 1
         /\ m.op # "Notify" =>
              Cardinality(PendingOf(c)) <= Cardinality(PendingOf(b))
<1> DEFINE n == Len(b[o])
           new == <<o, n + 1>>
<1>1. /\ n \in Nat /\ DOMAIN b[o] = 1..n
      /\ DOMAIN c[o] = 1..(n + 1) /\ c[o][n + 1] = m
      /\ \A k \in 1..n : c[o][k] = b[o][k]
  <2>1. c[o] = Append(b[o], m) /\ b[o] \in Seq(Letter)
    OBVIOUS
  <2> QED
    BY <2>1, AppendProperties, LenProperties
<1>2. ASSUME NEW w \in PendingOf(c)
      PROVE  w \in PendingOf(b) \/ (w = new /\ m.op = "Notify")
  <2>1. /\ w \in Daemons \X (1..MaxInbox) /\ w[1] \in Daemons
        /\ w = <<w[1], w[2]>>
        /\ w[2] \in DOMAIN c[w[1]] /\ c[w[1]][w[2]].op = "Notify"
    BY DEF PendingOf
  <2>2. CASE w[1] # o
    BY <2>1, <2>2 DEF PendingOf
  <2>3. CASE w[1] = o /\ w[2] = n + 1
    BY <1>1, <2>1, <2>3
  <2>4. CASE w[1] = o /\ w[2] # n + 1
    <3>1. w[2] \in 1..n
      BY <1>1, <2>1, <2>4
    <3> QED
      BY <1>1, <2>1, <2>4, <3>1 DEF PendingOf
  <2> QED
    BY <2>2, <2>3, <2>4
<1>3. /\ IsFiniteSet(PendingOf(b)) /\ Cardinality(PendingOf(b)) \in Nat
      /\ Cardinality(PendingOf(c)) \in Nat
  BY PendingFinite
<1>4. m.op # "Notify" => Cardinality(PendingOf(c)) <= Cardinality(PendingOf(b))
  <2> SUFFICES ASSUME m.op # "Notify"
               PROVE  Cardinality(PendingOf(c)) <= Cardinality(PendingOf(b))
    OBVIOUS
  <2>1. PendingOf(c) \in SUBSET PendingOf(b)
    BY <1>2
  <2> QED
    BY <1>3, <2>1, FS_Subset
<1>5. Cardinality(PendingOf(c)) <= Cardinality(PendingOf(b)) + 1
  <2> DEFINE T == PendingOf(b) \cup {new}
  <2>1. IsFiniteSet(T) /\ Cardinality(T) <= Cardinality(PendingOf(b)) + 1
    <3>1. /\ IsFiniteSet(T)
          /\ Cardinality(T) = IF new \in PendingOf(b)
                              THEN Cardinality(PendingOf(b))
                              ELSE Cardinality(PendingOf(b)) + 1
      BY <1>3, FS_AddElement
    <3> HIDE DEF T, new
    <3> QED
      BY <1>3, <3>1
  <2>2. PendingOf(c) \in SUBSET T
    BY <1>2
  <2> HIDE DEF T
  <2>3. Cardinality(PendingOf(c)) <= Cardinality(T) /\ Cardinality(T) \in Nat
    BY <2>1, <2>2, FS_Subset, FS_CardinalityType
  <2> QED
    BY <1>3, <2>1, <2>3
<1> QED
  BY <1>4, <1>5

(* A message that is handled is one less on its way: those behind it move  *)
(* up by one.                                                              *)
LEMMA PendingTaken ==
  ASSUME NEW b \in [Daemons -> Seq(Letter)], NEW o \in Daemons,
         b[o] # <<>>, Len(b[o]) <= MaxInbox, NEW c,
         \A d \in Daemons : c[d] = IF d = o THEN Tail(b[o]) ELSE b[d]
  PROVE  /\ Cardinality(PendingOf(c)) <= Cardinality(PendingOf(b))
         /\ Head(b[o]).op = "Notify" =>
              Cardinality(PendingOf(c)) + 1 <= Cardinality(PendingOf(b))
<1> DEFINE n == Len(b[o])
           first == <<o, 1>>
           P == PendingOf(b)
           Q == PendingOf(c)
           back == [w \in Q |-> <<w[1], IF w[1] = o THEN w[2] + 1 ELSE w[2]>>]
<1>1. /\ n \in Nat \ {0} /\ DOMAIN b[o] = 1..n /\ n <= MaxInbox
      /\ MaxInbox \in Nat /\ b[o][1] = Head(b[o])
      /\ DOMAIN c[o] = 1..(n - 1)
      /\ \A k \in 1..(n - 1) : c[o][k] = b[o][k + 1]
  <2>1. c[o] = Tail(b[o]) /\ b[o] \in Seq(Letter)
    OBVIOUS
  <2>2. n \in Nat /\ n # 0 /\ DOMAIN b[o] = 1..n
    BY <2>1, EmptySeq, LenProperties
  <2>3. Len(c[o]) = n - 1 /\ c[o] \in Seq(Letter)
        /\ \A k \in 1..(n - 1) : c[o][k] = b[o][k + 1]
    BY <2>1, HeadTailProperties
  <2>4. b[o][1] = Head(b[o])
    BY <2>1, HeadTailProperties
  <2> QED
    BY <2>2, <2>3, <2>4, LenProperties, SystemAssumption
<1>2. ASSUME NEW w \in Q
      PROVE  /\ w[1] \in Daemons /\ w[2] \in 1..MaxInbox /\ w = <<w[1], w[2]>>
             /\ back[w] \in P \ {first}
             /\ back[w][1] = w[1]
             /\ back[w][2] = IF w[1] = o THEN w[2] + 1 ELSE w[2]
  <2>1. /\ w[1] \in Daemons /\ w[2] \in 1..MaxInbox /\ w = <<w[1], w[2]>>
        /\ w[2] \in DOMAIN c[w[1]] /\ c[w[1]][w[2]].op = "Notify"
    BY DEF PendingOf
  <2>2. CASE w[1] # o
    <3>1. back[w] = <<w[1], w[2]>>
      BY <2>2
    <3>2. <<w[1], w[2]>> \in P /\ <<w[1], w[2]>> # first
      BY <2>1, <2>2 DEF PendingOf
    <3> HIDE DEF P, back
    <3> QED
      BY <2>1, <2>2, <3>1, <3>2
  <2>3. CASE w[1] = o
    <3>1. back[w] = <<o, w[2] + 1>>
      BY <2>3
    <3>2. w[2] \in 1..(n - 1) /\ w[2] + 1 \in 1..n /\ w[2] + 1 # 1
      BY <1>1, <2>1, <2>3
    <3>3. b[o][w[2] + 1].op = "Notify" /\ w[2] + 1 \in 1..MaxInbox
      BY <1>1, <2>1, <2>3, <3>2
    <3>4. <<o, w[2] + 1>> \in P /\ <<o, w[2] + 1>> # first
      BY <1>1, <3>2, <3>3 DEF PendingOf
    <3> HIDE DEF P, back
    <3> QED
      BY <2>1, <2>3, <3>1, <3>4
  <2> QED
    BY <2>2, <2>3
<1>3. back \in Injection(Q, P \ {first})
  <2>1. back \in [Q -> P \ {first}]
    BY <1>2
  <2>2. ASSUME NEW v \in Q, NEW w \in Q, back[v] = back[w]
        PROVE  v = w
    <3> HIDE DEF back, P, Q
    <3>1. /\ v[2] \in Nat /\ v = <<v[1], v[2]>> /\ back[v][1] = v[1]
          /\ back[v][2] = IF v[1] = o THEN v[2] + 1 ELSE v[2]
      BY <1>2
    <3>2. /\ w[2] \in Nat /\ w = <<w[1], w[2]>> /\ back[w][1] = w[1]
          /\ back[w][2] = IF w[1] = o THEN w[2] + 1 ELSE w[2]
      BY <1>2
    <3>3. v[1] = w[1]
      BY <2>2, <3>1, <3>2
    <3>4. v[2] = w[2]
      BY <2>2, <3>1, <3>2, <3>3
    <3> QED
      BY <3>1, <3>2, <3>3, <3>4
  <2> HIDE DEF back, P, Q
  <2> QED
    BY <2>1, <2>2 DEF Injection, IsInjective
<1>4. /\ IsFiniteSet(P) /\ Cardinality(P) \in Nat /\ Cardinality(Q) \in Nat
      /\ IsFiniteSet(P \ {first})
      /\ Cardinality(P \ {first}) =
           IF first \in P THEN Cardinality(P) - 1 ELSE Cardinality(P)
  BY PendingFinite, FS_RemoveElement
<1>5. Cardinality(Q) <= Cardinality(P \ {first})
  <2> HIDE DEF back, P, Q
  <2> QED
    BY <1>3, <1>4, FS_Injection
<1>6. Head(b[o]).op = "Notify" => first \in P
  BY <1>1 DEF PendingOf
<1> HIDE DEF P, Q
<1>7. Cardinality(Q) <= Cardinality(P)
  BY <1>4, <1>5
<1>8. first \in P => Cardinality(Q) + 1 <= Cardinality(P)
  BY <1>4, <1>5
<1> QED
  BY <1>6, <1>7, <1>8 DEF P, Q

--------------------------------------------------------------------------------
(* The first invariant, step by step.                                      *)

LEMMA EmptyHasNone == \A s : ~OnScreen(<<>>, s)
BY DEF OnScreen, LiveIn

LEMMA BoxesTyped ==
  ASSUME Typed
  PROVE  /\ Boxes \in [Daemons -> Seq(Letter)]
         /\ \A d \in Daemons : Boxes[d] = daemon[d].inbox
BY DEF Boxes, Typed, Process

(* With one daemon running, what is on screen is on its screen. *)
LEMMA ToldHere ==
  ASSUME TellInv, NEW d \in Daemons, Alive(d), crashes = 0,
         NEW s \in 1..Len(idOf)
  PROVE  Told(daemon[d].ring, signals, s)
<1>1. CASE signals[s] # <<>>
  BY <1>1 DEF Told
<1>2. CASE \E e \in Daemons : OnScreen(daemon[e].ring, s)
  <2>1. PICK e \in Daemons : OnScreen(daemon[e].ring, s)
    BY <1>2
  <2>2. Alive(e)
    BY <2>1, EmptyHasNone DEF TellInv, Single
  <2>3. e = d
    BY <2>2 DEF TellInv, Single
  <2> QED
    BY <2>1, <2>3 DEF Told
<1> QED
  BY <1>1, <1>2 DEF TellInv, AllTold

LEMMA FiledInNotes ==
  ASSUME Typed, Room
  PROVE  Len(idOf) \in Nat /\ Len(idOf) <= MaxNotes /\ 1..Len(idOf) \subseteq Notes
<1>1. Len(idOf) \in Nat /\ Cardinality(Pending) \in Nat /\ MaxNotes \in Nat
  BY LenProperties, PendingIsBoxes, PendingFinite, SystemAssumption DEF Typed
<1> QED
  BY <1>1 DEF Room, Notes

(* A message is routed to the owner of the name. *)
LEMMA RouteTell ==
  ASSUME TellInv, Open, NEW m \in Letter, daemon' = Routed(m),
         m.op = "Notify" => Len(idOf) + Cardinality(Pending) < MaxNotes,
         UNCHANGED <<owner, signals, idOf, crashes>>
  PROVE  (daemon \in [Daemons -> Process] /\ Single /\ Room /\ AllTold)'
<1> DEFINE o == owner
           p == [daemon[o] EXCEPT !.inbox = Append(@, m)]
<1>1. o \in Daemons /\ Len(daemon[o].inbox) < MaxInbox
  BY DEF TellInv, Typed, Open
<1>2. daemon \in [Daemons -> Process] /\ daemon[o] \in Process
  BY <1>1 DEF TellInv, Typed
<1>3. /\ p \in Process /\ p.phase = daemon[o].phase /\ p.ring = daemon[o].ring
      /\ p.inbox = Append(daemon[o].inbox, m)
  <2>1. Append(daemon[o].inbox, m) \in Seq(Letter)
    BY <1>2, AppendProperties DEF Process
  <2> QED
    BY <1>2, <2>1 DEF Process
<1>4. daemon' = [daemon EXCEPT ![o] = p]
  BY DEF Routed
<1> HIDE DEF p
<1>5. /\ daemon' \in [Daemons -> Process]
      /\ \A d \in Daemons : daemon'[d] = IF d = o THEN p ELSE daemon[d]
  BY <1>1, <1>2, <1>3, <1>4
<1>6. \A d \in Daemons : /\ daemon'[d].phase = daemon[d].phase
                         /\ daemon'[d].ring = daemon[d].ring
                         /\ d # o => daemon'[d].inbox = daemon[d].inbox
  BY <1>3, <1>5
<1>7. Single'
  <2>1. daemon[o].phase = "up"
    BY <1>1 DEF TellInv, Single
  <2> HIDE DEF o
  <2>2. \A d \in Daemons : Alive(d)' <=> Alive(d)
    BY <1>6 DEF Alive
  <2>3. \A d, e \in Daemons : (Alive(d) /\ Alive(e))' => d = e
    BY <2>2 DEF TellInv, Single
  <2>4. \A d \in Daemons : daemon'[d].phase = "up" <=> owner' = d
    BY <1>6 DEF TellInv, Single
  <2>5. \A d \in Daemons : daemon'[d].phase # "up" => daemon'[d].inbox = <<>>
    BY <1>6, <2>1 DEF TellInv, Single
  <2>6. \A d \in Daemons : ~Alive(d)' => daemon'[d].ring = <<>>
    BY <1>6, <2>2 DEF TellInv, Single
  <2> QED
    BY <2>3, <2>4, <2>5, <2>6 DEF Single
<1>8. Room'
  <2>1. \A d \in Daemons : Len(daemon'[d].inbox) <= MaxInbox
    <3>1. Len(daemon'[o].inbox) = Len(daemon[o].inbox) + 1
      BY <1>1, <1>2, <1>3, <1>5, AppendProperties DEF Process
    <3>2. Len(daemon[o].inbox) \in Nat /\ MaxInbox \in Nat
      BY <1>2, LenProperties, SystemAssumption DEF Process
    <3>3. Len(daemon'[o].inbox) <= MaxInbox
      BY <1>1, <3>1, <3>2
    <3> QED
      BY <1>6, <3>3 DEF TellInv, Room
  <2>2. /\ Boxes \in [Daemons -> Seq(Letter)]
        /\ \A d \in Daemons : Boxes[d] = daemon[d].inbox
    BY BoxesTyped DEF TellInv
  <2> DEFINE c == [d \in Daemons |-> daemon'[d].inbox]
  <2>3. \A d \in Daemons : c[d] = IF d = o THEN Append(Boxes[o], m) ELSE Boxes[d]
    BY <1>1, <1>3, <1>5, <2>2
  <2>4. Pending' = PendingOf(c)
    BY PendingNext
  <2> HIDE DEF c
  <2>5. /\ Cardinality(Pending') <= Cardinality(Pending) + 1
        /\ m.op # "Notify" => Cardinality(Pending') <= Cardinality(Pending)
    BY <1>1, <2>2, <2>3, <2>4, PendingPut, PendingIsBoxes
  <2>6. /\ Cardinality(Pending) \in Nat /\ Cardinality(Pending') \in Nat
        /\ Len(idOf) \in Nat /\ MaxNotes \in Nat
        /\ Len(idOf) + Cardinality(Pending) <= MaxNotes
    BY <2>4, PendingFinite, PendingIsBoxes, FiledInNotes, SystemAssumption
       DEF TellInv, Room
  <2>7. Len(idOf') + Cardinality(Pending') <= MaxNotes
    BY <2>5, <2>6
  <2> QED
    BY <2>1, <2>7 DEF Room
<1>9. AllTold'
  BY <1>6 DEF TellInv, AllTold
<1> QED
  BY <1>5, <1>7, <1>8, <1>9

(* One running daemon d goes on as p: it has handled the message at the    *)
(* head of its inbox, or none.                                             *)
LEMMA MoveTell ==
  ASSUME TellInv, NEW d \in Daemons, Alive(d), NEW p \in Process,
         p.phase = daemon[d].phase,
         daemon' = [daemon EXCEPT ![d] = p],
         UNCHANGED <<owner, crashes>>,
         \/ p.inbox = daemon[d].inbox /\ UNCHANGED idOf
         \/ /\ daemon[d].inbox # <<>> /\ p.inbox = Tail(daemon[d].inbox)
            /\ \/ UNCHANGED idOf
               \/ /\ Head(daemon[d].inbox).op = "Notify"
                  /\ Len(idOf') = Len(idOf) + 1,
         crashes = 0 =>
           \A s \in 1..Len(idOf') :
             (s \in 1..Len(idOf) => Told(daemon[d].ring, signals, s))
               => Told(p.ring, signals', s)
  PROVE  (daemon \in [Daemons -> Process] /\ Single /\ Room /\ AllTold)'
<1>1. /\ daemon' \in [Daemons -> Process]
      /\ \A e \in Daemons : daemon'[e] = IF e = d THEN p ELSE daemon[e]
  BY DEF TellInv, Typed
<1>2. /\ daemon[d] \in Process /\ daemon[d].inbox \in Seq(Letter)
      /\ Len(daemon[d].inbox) \in Nat
  <2>1. daemon[d] \in Process
    BY DEF TellInv, Typed
  <2>2. daemon[d].inbox \in Seq(Letter)
    BY <2>1 DEF Process
  <2> QED
    BY <2>1, <2>2, LenProperties
<1>3. Single'
  <2>1. \A e \in Daemons : Alive(e)' <=> Alive(e)
    BY <1>1 DEF Alive
  <2>2. \A e, g \in Daemons : (Alive(e) /\ Alive(g))' => e = g
    BY <2>1 DEF TellInv, Single
  <2>3. \A e \in Daemons : daemon'[e].phase = "up" <=> owner' = e
    BY <1>1 DEF TellInv, Single
  <2>4. \A e \in Daemons : daemon'[e].phase # "up" => daemon'[e].inbox = <<>>
    BY <1>1 DEF TellInv, Single
  <2>5. \A e \in Daemons : ~Alive(e)' => daemon'[e].ring = <<>>
    BY <1>1, <2>1 DEF TellInv, Single
  <2> QED
    BY <2>2, <2>3, <2>4, <2>5 DEF Single
<1>4. Room'
  <2> DEFINE c == [e \in Daemons |-> daemon'[e].inbox]
  <2>1. /\ Boxes \in [Daemons -> Seq(Letter)]
        /\ \A e \in Daemons : Boxes[e] = daemon[e].inbox
    BY BoxesTyped DEF TellInv
  <2>2. Pending' = PendingOf(c) /\ Pending = PendingOf(Boxes)
    BY PendingNext, PendingIsBoxes
  <2>3. \A e \in Daemons : c[e] = IF e = d THEN p.inbox ELSE Boxes[e]
    BY <1>1, <2>1
  <2>4. /\ Cardinality(Pending) \in Nat /\ Cardinality(Pending') \in Nat
        /\ Len(idOf) \in Nat /\ MaxNotes \in Nat
        /\ Len(idOf) + Cardinality(Pending) <= MaxNotes
        /\ Len(daemon[d].inbox) <= MaxInbox /\ MaxInbox \in Nat
    BY <2>2, PendingFinite, FiledInNotes, SystemAssumption DEF TellInv, Room
  <2> HIDE DEF c
  <2>5. CASE p.inbox = daemon[d].inbox /\ UNCHANGED idOf
    <3>1. \A e \in Daemons : c[e] = Boxes[e] \/ c[e] = <<>>
      BY <2>1, <2>3, <2>5
    <3>2. Cardinality(Pending') <= Cardinality(Pending)
      BY <2>2, <3>1, PendingFewer
    <3>3. \A e \in Daemons : Len(daemon'[e].inbox) <= MaxInbox
      BY <1>1, <2>5 DEF TellInv, Room
    <3> QED
      BY <2>4, <2>5, <3>2, <3>3 DEF Room
  <2>6. CASE /\ daemon[d].inbox # <<>> /\ p.inbox = Tail(daemon[d].inbox)
             /\ \/ UNCHANGED idOf
                \/ /\ Head(daemon[d].inbox).op = "Notify"
                   /\ Len(idOf') = Len(idOf) + 1
    <3>1. /\ Boxes[d] # <<>> /\ Len(Boxes[d]) <= MaxInbox
          /\ Head(Boxes[d]) = Head(daemon[d].inbox)
          /\ \A e \in Daemons : c[e] = IF e = d THEN Tail(Boxes[d]) ELSE Boxes[e]
      BY <2>1, <2>3, <2>4, <2>6
    <3>2. /\ Cardinality(PendingOf(c)) <= Cardinality(PendingOf(Boxes))
          /\ Head(Boxes[d]).op = "Notify" =>
               Cardinality(PendingOf(c)) + 1 <= Cardinality(PendingOf(Boxes))
      BY <2>1, <3>1, PendingTaken
    <3>3. Len(idOf') + Cardinality(Pending') <= MaxNotes
      <4>1. CASE UNCHANGED idOf
        BY <2>2, <2>4, <3>2, <4>1
      <4>2. CASE /\ Head(daemon[d].inbox).op = "Notify"
                 /\ Len(idOf') = Len(idOf) + 1
        BY <2>2, <2>4, <3>1, <3>2, <4>2
      <4> QED
        BY <2>6, <4>1, <4>2
    <3>4. Len(p.inbox) <= MaxInbox
      <4>1. Len(p.inbox) = Len(daemon[d].inbox) - 1
        BY <1>2, <2>6, HeadTailProperties
      <4> QED
        BY <1>2, <2>4, <4>1
    <3>5. \A e \in Daemons : Len(daemon'[e].inbox) <= MaxInbox
      BY <1>1, <3>4 DEF TellInv, Room
    <3> QED
      BY <3>3, <3>5 DEF Room
  <2> QED
    BY <2>5, <2>6
<1>5. AllTold'
  <2> SUFFICES ASSUME crashes' = 0, NEW s \in 1..Len(idOf')
               PROVE  \/ signals'[s] # <<>>
                      \/ \E e \in Daemons : OnScreen(daemon'[e].ring, s)
    BY DEF AllTold
  <2>1. s \in 1..Len(idOf) => Told(daemon[d].ring, signals, s)
    BY ToldHere
  <2>2. Told(p.ring, signals', s)
    BY <2>1
  <2>3. daemon'[d].ring = p.ring
    BY <1>1
  <2> QED
    BY <2>2, <2>3 DEF Told
<1> QED
  BY <1>1, <1>3, <1>4, <1>5

(* A message is received by a daemon that is up. *)
LEMMA ReceiverUp ==
  ASSUME TellInv, NEW d \in Daemons, daemon[d].inbox # <<>>
  PROVE  /\ Alive(d) /\ daemon[d].phase = "up"
         /\ daemon[d] \in Process
         /\ daemon[d].inbox \in Seq(Letter) /\ Head(daemon[d].inbox) \in Letter
         /\ Tail(daemon[d].inbox) \in Seq(Letter)
         /\ daemon[d].ring \in Seq(Entry) /\ daemon[d].nextId \in Nat
<1>1. daemon[d].phase = "up"
  BY DEF TellInv, Single
<1>2. daemon[d] \in Process
  BY DEF TellInv, Typed
<1>3. daemon[d].inbox \in Seq(Letter)
  BY <1>2 DEF Process
<1> QED
  BY <1>1, <1>2, <1>3, HeadTailProperties DEF Alive, Process

(* Daemon d handles a message and its store becomes st. *)
LEMMA BecomesTell ==
  ASSUME TellInv, NEW d \in Daemons, daemon[d].inbox # <<>>,
         NEW st, NEW n \in Nat, Becomes(d, st, n),
         st.ring \in Seq(Entry), st.signals \in [Notes -> Seq(Reasons)],
         UNCHANGED <<owner, crashes>>,
         \/ UNCHANGED idOf
         \/ Head(daemon[d].inbox).op = "Notify" /\ Len(idOf') = Len(idOf) + 1,
         \A s \in 1..Len(idOf') :
           (s \in 1..Len(idOf) => Told(daemon[d].ring, signals, s))
             => Told(st.ring, st.signals, s)
  PROVE  /\ (daemon \in [Daemons -> Process] /\ Single /\ Room /\ AllTold)'
         /\ file' \in Seq(Saved) /\ signals' \in [Notes -> Seq(Reasons)]
<1> DEFINE p == [daemon[d] EXCEPT !.ring = st.ring, !.nextId = n,
                                  !.inbox = Tail(daemon[d].inbox)]
<1>1. /\ Alive(d) /\ daemon[d] \in Process
      /\ Tail(daemon[d].inbox) \in Seq(Letter)
  BY ReceiverUp
<1>2. /\ p \in Process /\ p.phase = daemon[d].phase /\ p.ring = st.ring
      /\ p.inbox = Tail(daemon[d].inbox)
  BY <1>1 DEF Process
<1>3. daemon' = [daemon EXCEPT ![d] = p]
  BY DEF Becomes
<1>4. signals' = st.signals /\ file' = Persisted(st.ring)
  BY DEF Becomes
<1>5. file' \in Seq(Saved)
  BY <1>4, PersistedSeq
<1> HIDE DEF p
<1>6. crashes = 0 =>
        \A s \in 1..Len(idOf') :
          (s \in 1..Len(idOf) => Told(daemon[d].ring, signals, s))
            => Told(p.ring, signals', s)
  BY <1>2, <1>4
<1> QED
  BY <1>1, <1>2, <1>3, <1>4, <1>5, <1>6, MoveTell

LEMMA UnmovedTell ==
  ASSUME TellInv, NEW d \in Daemons, daemon[d].inbox # <<>>, Unmoved(d),
         UNCHANGED <<owner, crashes, idOf>>
  PROVE  /\ (daemon \in [Daemons -> Process] /\ Single /\ Room /\ AllTold)'
         /\ file' \in Seq(Saved) /\ signals' \in [Notes -> Seq(Reasons)]
<1> DEFINE p == [daemon[d] EXCEPT !.inbox = Tail(daemon[d].inbox)]
<1>1. /\ Alive(d) /\ daemon[d] \in Process
      /\ Tail(daemon[d].inbox) \in Seq(Letter)
  BY ReceiverUp
<1>2. /\ p \in Process /\ p.phase = daemon[d].phase /\ p.ring = daemon[d].ring
      /\ p.inbox = Tail(daemon[d].inbox)
  BY <1>1 DEF Process
<1>3. daemon' = [daemon EXCEPT ![d] = p] /\ UNCHANGED <<signals, file>>
  BY DEF Unmoved
<1> HIDE DEF p
<1>4. file' \in Seq(Saved) /\ signals' \in [Notes -> Seq(Reasons)]
  BY <1>3 DEF TellInv, Typed
<1>5. crashes = 0 =>
        \A s \in 1..Len(idOf') :
          (s \in 1..Len(idOf) => Told(daemon[d].ring, signals, s))
            => Told(p.ring, signals', s)
  BY <1>2, <1>3
<1> QED
  BY <1>1, <1>2, <1>3, <1>4, <1>5, MoveTell

(* An answer changes nothing of the panel but the phase and the reply. *)
LEMMA AnswerPanel ==
  ASSUME panel \in PanelState, NEW m, NEW reply \in SUBSET Nat, Answer(m, reply)
  PROVE  /\ panel' \in PanelState
         /\ panel'.ring = panel.ring /\ panel'.op = panel.op
         /\ panel'.phase = "absent" => panel.phase = "absent"
<1>1. CASE panel' = panel
  BY <1>1
<1>2. CASE panel' = [panel EXCEPT !.phase = "handled", !.reply = reply]
  BY <1>2 DEF PanelState, PanelPhases
<1> QED
  BY <1>1, <1>2 DEF Answer

LEMMA StoreParts ==
  ASSUME TellInv, NEW d \in Daemons
  PROVE  /\ StoreOf(d).ring = daemon[d].ring /\ StoreOf(d).ring \in Seq(Entry)
         /\ StoreOf(d).signals = signals
         /\ StoreOf(d).signals \in [Notes -> Seq(Reasons)]
<1>1. daemon[d] \in Process /\ signals \in [Notes -> Seq(Reasons)]
  BY DEF TellInv, Typed
<1>2. StoreOf(d).ring = daemon[d].ring /\ StoreOf(d).signals = signals
  BY DEF StoreOf
<1> QED
  BY <1>1, <1>2 DEF Process

(* What one message leaves of the ring and of the signals, told or not. *)
LEMMA RetiredStore ==
  ASSUME TellInv, NEW d \in Daemons,
         NEW I \in SUBSET DOMAIN daemon[d].ring, NEW why \in Reasons
  PROVE  LET st == Retire(StoreOf(d), I, why)
         IN /\ st.ring \in Seq(Entry)
            /\ st.signals \in [Notes -> Seq(Reasons)]
            /\ \A s \in 1..Len(idOf) :
                 Told(daemon[d].ring, signals, s) => Told(st.ring, st.signals, s)
            /\ Persisted(st.ring) = Persisted(daemon[d].ring)
            /\ Len(st.ring) = Len(daemon[d].ring)
            /\ \A i \in 1..Len(daemon[d].ring) :
                 st.ring[i].live <=> daemon[d].ring[i].live /\ i \notin I
<1> DEFINE st == Retire(StoreOf(d), I, why)
<1>1. /\ StoreOf(d).ring = daemon[d].ring /\ StoreOf(d).ring \in Seq(Entry)
      /\ StoreOf(d).signals = signals
      /\ StoreOf(d).signals \in [Notes -> Seq(Reasons)]
  BY StoreParts
<1>2. I \in SUBSET DOMAIN StoreOf(d).ring
  BY <1>1
<1>3. /\ st.signals \in [Notes -> Seq(Reasons)]
      /\ \A s \in Notes : Told(StoreOf(d).ring, StoreOf(d).signals, s)
                          => Told(st.ring, st.signals, s)
  BY <1>1, <1>2, RetireTells
<1>4. /\ st.ring \in Seq(Entry)
      /\ Persisted(st.ring) = Persisted(StoreOf(d).ring)
      /\ Len(st.ring) = Len(StoreOf(d).ring)
      /\ \A i \in 1..Len(StoreOf(d).ring) :
           st.ring[i].live <=> StoreOf(d).ring[i].live /\ i \notin I
  BY <1>1, RetireRing
<1>5. 1..Len(idOf) \subseteq Notes
  BY FiledInNotes DEF TellInv
<1> HIDE DEF st
<1> QED
  BY <1>1, <1>3, <1>4, <1>5 DEF st

(* The panel's copy keeps its entries, and their ids and serials. *)
LEMMA OverlayRing ==
  ASSUME NEW r \in Seq(Entry), NEW ids
  PROVE  /\ Overlay(r, ids) \in Seq(Entry) /\ Len(Overlay(r, ids)) = Len(r)
         /\ \A i \in 1..Len(r) : /\ Overlay(r, ids)[i].id = r[i].id
                                 /\ Overlay(r, ids)[i].serial = r[i].serial
<1> DEFINE marked == {First({i \in DOMAIN r : r[i].id = id}) :
                        id \in {x \in ids : \E i \in DOMAIN r : r[i].id = x}}
           q == Overlay(r, ids)
<1>1. Len(r) \in Nat /\ DOMAIN r = 1..Len(r) /\ r \in [1..Len(r) -> Entry]
  BY LenProperties
<1>2. q = [i \in 1..Len(r) |-> [r[i] EXCEPT !.live = i \in marked]]
  BY <1>1 DEF Overlay
<1> HIDE DEF marked, q
<1>3. ASSUME NEW i \in 1..Len(r)
      PROVE  /\ q[i] \in Entry
             /\ q[i].id = r[i].id /\ q[i].serial = r[i].serial
  <2> DEFINE on == i \in marked
  <2>1. r[i] \in Entry /\ q[i] = [r[i] EXCEPT !.live = on]
    BY <1>1, <1>2
  <2>2. on \in BOOLEAN
    OBVIOUS
  <2> HIDE DEF on
  <2> QED
    BY <2>1, <2>2 DEF Entry
<1>4. q \in [1..Len(r) -> Entry]
  BY <1>2, <1>3
<1> QED
  BY <1>1, <1>3, <1>4, FunctionIsSeq DEF q

(* A notification filed: a live entry in front of those that were there.   *)
Shown(st, id, n) == Fill(Insert(st, Blank(id, n)), 1, FALSE, 0)

LEMMA FilledRing ==
  ASSUME NEW st, st.ring \in Seq(Entry), NEW id \in Nat, NEW n \in Nat
  PROVE  LET q == Shown(st, id, n)
         IN /\ q.ring \in Seq(Entry) /\ Len(q.ring) = Len(st.ring) + 1
            /\ q.ring[1].id = id /\ q.ring[1].serial = n /\ q.ring[1].live
            /\ \A i \in 1..Len(st.ring) : q.ring[i + 1] = st.ring[i]
            /\ q.signals = st.signals
<1> DEFINE r == st.ring
           e == Blank(id, n)
           b == <<e>> \o r
           f == Filled(e, FALSE, 0)
           q == Shown(st, id, n)
<1>1. e \in Entry
  BY DEF Blank, Entry
<1>2. f \in Entry /\ f.id = id /\ f.serial = n /\ f.live
  BY DEF Blank, Entry, Filled
<1> HIDE DEF e
<1>3. /\ <<e>> \in Seq(Entry) /\ Len(<<e>>) = 1 /\ <<e>>[1] = e
      /\ Len(r) \in Nat
  BY <1>1, LenProperties
<1>4. /\ b \in Seq(Entry) /\ Len(b) = Len(r) + 1 /\ b[1] = e
      /\ \A i \in 1..Len(r) : b[i + 1] = r[i]
  <2>1. /\ b \in Seq(Entry) /\ Len(b) = Len(<<e>>) + Len(r)
        /\ \A i \in 1..(Len(<<e>>) + Len(r)) :
             b[i] = IF i <= Len(<<e>>) THEN <<e>>[i] ELSE r[i - Len(<<e>>)]
    BY <1>3, ConcatProperties
  <2> HIDE DEF b
  <2>2. b[1] = e
    BY <1>3, <2>1
  <2>3. ASSUME NEW i \in 1..Len(r)
        PROVE  b[i + 1] = r[i]
    <3>1. i + 1 \in 1..(1 + Len(r)) /\ ~(i + 1 <= 1) /\ i + 1 - 1 = i
      BY <1>3
    <3> QED
      BY <1>3, <2>1, <3>1
  <2> QED
    BY <1>3, <2>1, <2>2, <2>3
<1>5. q.signals = st.signals /\ q.ring = [b EXCEPT ![1] = Filled(@, FALSE, 0)]
  BY DEF Shown, Fill, Insert, e
<1>6. q.ring = [b EXCEPT ![1] = f]
  BY <1>4, <1>5
<1> HIDE DEF b, f, q
<1>7. DOMAIN b = 1..(Len(r) + 1) /\ b \in [1..(Len(r) + 1) -> Entry]
  BY <1>4, LenProperties
<1>8. /\ q.ring \in [1..(Len(r) + 1) -> Entry]
      /\ q.ring[1] = f
      /\ \A i \in 1..Len(r) : q.ring[i + 1] = b[i + 1]
  BY <1>2, <1>3, <1>6, <1>7
<1>9. q.ring \in Seq(Entry) /\ Len(q.ring) = Len(r) + 1
  BY <1>3, <1>8, FunctionIsSeq
<1> QED
  BY <1>2, <1>4, <1>5, <1>8, <1>9 DEF q, e

LEMMA FilledTells ==
  ASSUME NEW st, st.ring \in Seq(Entry), NEW id \in Nat, NEW n \in Nat
  PROVE  LET q == Shown(st, id, n)
         IN \A s : s = n \/ Told(st.ring, st.signals, s)
                   => Told(q.ring, q.signals, s)
<1> DEFINE q == Shown(st, id, n)
<1>1. /\ q.ring \in Seq(Entry) /\ Len(q.ring) = Len(st.ring) + 1
      /\ q.ring[1].serial = n /\ q.ring[1].live
      /\ \A i \in 1..Len(st.ring) : q.ring[i + 1] = st.ring[i]
      /\ q.signals = st.signals
  BY FilledRing
<1> HIDE DEF q
<1>2. /\ Len(st.ring) \in Nat /\ DOMAIN st.ring = 1..Len(st.ring)
      /\ DOMAIN q.ring = 1..(Len(st.ring) + 1)
  BY <1>1, LenProperties
<1>3. ASSUME NEW s, s = n
      PROVE  Told(q.ring, q.signals, s)
  <2>1. 1 \in LiveIn(q.ring)
    BY <1>1, <1>2 DEF LiveIn
  <2> QED
    BY <1>1, <1>3, <2>1 DEF Told, OnScreen
<1>4. ASSUME NEW s, Told(st.ring, st.signals, s)
      PROVE  Told(q.ring, q.signals, s)
  <2>1. CASE st.signals[s] # <<>>
    BY <1>1, <2>1 DEF Told
  <2>2. CASE \E i \in LiveIn(st.ring) : st.ring[i].serial = s
    <3>1. PICK i \in LiveIn(st.ring) : st.ring[i].serial = s
      BY <2>2
    <3>2. i \in 1..Len(st.ring) /\ i + 1 \in DOMAIN q.ring /\ st.ring[i].live
      BY <1>2, <3>1 DEF LiveIn
    <3>3. i + 1 \in LiveIn(q.ring) /\ q.ring[i + 1].serial = s
      BY <1>1, <3>1, <3>2 DEF LiveIn
    <3> QED
      BY <3>3 DEF Told, OnScreen
  <2> QED
    BY <1>4, <2>1, <2>2 DEF Told, OnScreen
<1> QED
  BY <1>3, <1>4 DEF q

(* The store HandleNotify makes, of daemon d. *)
Grown(d) ==
  EnforceCaps(Shown(StoreOf(d), daemon[d].nextId, Len(idOf) + 1))

LEMMA GrownStore ==
  ASSUME TellInv, NEW d \in Daemons
  PROVE  /\ Grown(d).ring \in Seq(Entry)
         /\ Grown(d).signals \in [Notes -> Seq(Reasons)]
         /\ Len(Grown(d).ring) = IF Len(daemon[d].ring) + 1 < RingCap
                                 THEN Len(daemon[d].ring) + 1 ELSE RingCap
         /\ \A i \in 1..Len(Grown(d).ring) :
              /\ Grown(d).ring[i].id = IF i = 1 THEN daemon[d].nextId
                                       ELSE daemon[d].ring[i - 1].id
              /\ Grown(d).ring[i].serial = IF i = 1 THEN Len(idOf) + 1
                                           ELSE daemon[d].ring[i - 1].serial
         /\ \A s \in Notes :
              s = Len(idOf) + 1 \/ Told(daemon[d].ring, signals, s)
                => Told(Grown(d).ring, Grown(d).signals, s)
<1> DEFINE r == daemon[d].ring
           id == daemon[d].nextId
           n == Len(idOf) + 1
           q == Shown(StoreOf(d), id, n)
           g == Grown(d)
<1>1. id \in Nat /\ n \in Nat /\ r \in Seq(Entry) /\ Len(r) \in Nat
  <2>1. daemon[d] \in Process /\ Len(idOf) \in Nat
    BY LenProperties DEF TellInv, Typed
  <2> QED
    BY <2>1, LenProperties DEF Process
<1>2. /\ StoreOf(d).ring = r /\ StoreOf(d).ring \in Seq(Entry)
      /\ StoreOf(d).signals = signals
      /\ StoreOf(d).signals \in [Notes -> Seq(Reasons)]
  BY StoreParts
<1> HIDE DEF r, id, n
<1>3. /\ q.ring \in Seq(Entry) /\ Len(q.ring) = Len(r) + 1
      /\ q.ring[1].id = id /\ q.ring[1].serial = n
      /\ \A i \in 1..Len(r) : q.ring[i + 1] = r[i]
      /\ q.signals = signals
  <2>1. /\ q.ring \in Seq(Entry) /\ Len(q.ring) = Len(StoreOf(d).ring) + 1
        /\ q.ring[1].id = id /\ q.ring[1].serial = n
        /\ \A i \in 1..Len(StoreOf(d).ring) : q.ring[i + 1] = StoreOf(d).ring[i]
        /\ q.signals = StoreOf(d).signals
    BY <1>1, <1>2, FilledRing
  <2> HIDE DEF q
  <2> QED
    BY <1>2, <2>1
<1>4. \A s : s = n \/ Told(r, signals, s) => Told(q.ring, q.signals, s)
  BY <1>1, <1>2, FilledTells
<1>5. g = EnforceCaps(q)
  BY DEF Grown, id, n
<1> HIDE DEF q, g
<1>6. /\ g.ring \in Seq(Entry) /\ g.signals \in [Notes -> Seq(Reasons)]
      /\ Len(g.ring) = IF Len(q.ring) < RingCap THEN Len(q.ring) ELSE RingCap
      /\ \A i \in 1..Len(g.ring) : /\ g.ring[i].id = q.ring[i].id
                                   /\ g.ring[i].serial = q.ring[i].serial
      /\ \A s \in Notes : Told(q.ring, q.signals, s)
                          => Told(g.ring, g.signals, s)
  BY <1>2, <1>3, <1>5, CapsTell
<1>7. Len(g.ring) = IF Len(r) + 1 < RingCap THEN Len(r) + 1 ELSE RingCap
  BY <1>3, <1>6
<1>8. ASSUME NEW i \in 1..Len(g.ring)
      PROVE  /\ g.ring[i].id = IF i = 1 THEN id ELSE r[i - 1].id
             /\ g.ring[i].serial = IF i = 1 THEN n ELSE r[i - 1].serial
  <2>1. CASE i = 1
    BY <1>3, <1>6, <2>1
  <2>2. CASE i # 1
    <3>1. i - 1 \in 1..Len(r) /\ i - 1 + 1 = i
      BY <1>1, <1>7, <2>2, RingAssumption
    <3>2. q.ring[i] = r[i - 1]
      BY <1>3, <3>1
    <3> QED
      BY <1>6, <2>2, <3>2
  <2> QED
    BY <2>1, <2>2
<1>9. \A s \in Notes : s = n \/ Told(r, signals, s) => Told(g.ring, g.signals, s)
  BY <1>4, <1>6
<1> QED
  BY <1>6, <1>7, <1>8, <1>9 DEF g, r, id, n

--------------------------------------------------------------------------------
(* The actions keep the first invariant. *)

LEMMA PanelParts ==
  ASSUME Typed
  PROVE  /\ panel \in PanelState /\ panel.ring \in Seq(Entry)
         /\ panel.call \in Nat /\ panel.reply \in SUBSET Nat
         /\ DOMAIN panel.ring = 1..Len(panel.ring) /\ Len(panel.ring) \in Nat
<1>1. panel \in PanelState
  BY DEF Typed
<1>2. panel.ring \in Seq(Entry)
  BY <1>1 DEF PanelState
<1> QED
  BY <1>1, <1>2, LenProperties DEF PanelState

LEMMA InitTell == Init => TellInv
<1> SUFFICES ASSUME Init
             PROVE  TellInv
  OBVIOUS
<1>0. /\ owner = "none" /\ daemon = [d \in Daemons |-> Off] /\ file = <<>>
      /\ signals = [s \in Notes |-> <<>>] /\ idOf = <<>> /\ cleared = FALSE
      /\ crashes = 0
      /\ panel = [phase |-> "closed", call |-> 0, op |-> "GetLive",
                  ring |-> <<>>, reply |-> {}]
  BY DEF Init
<1>1. Off \in Process /\ Off.phase = "off" /\ Off.ring = <<>> /\ Off.inbox = <<>>
  BY DEF Off, Process
<1>2. \A d \in Daemons : daemon[d] = Off
  BY <1>0
<1>3. Typed
  <2>1. daemon \in [Daemons -> Process]
    BY <1>0, <1>1
  <2>2. panel \in PanelState
    BY <1>0 DEF PanelState, PanelPhases, PanelOps
  <2>3. signals \in [Notes -> Seq(Reasons)]
    BY <1>0
  <2>4. file \in Seq(Saved) /\ idOf \in Seq(Nat)
    BY <1>0, EmptySeq
  <2> QED
    BY <1>0, <2>1, <2>2, <2>3, <2>4 DEF Typed
<1>4. Single
  <2>1. \A d \in Daemons : owner # d
    BY <1>0, SystemAssumption
  <2> QED
    BY <1>1, <1>2, <2>1 DEF Single, Alive
<1>5. Room
  <2>1. Pending = {}
    BY <1>1, <1>2 DEF Pending
  <2>2. Cardinality(Pending) = 0
    BY <2>1, FS_EmptySet
  <2>3. Len(idOf) = 0
    BY <1>0
  <2> QED
    BY <1>1, <1>2, <2>2, <2>3, SystemAssumption DEF Room
<1>6. AllTold
  BY <1>0 DEF AllTold
<1> QED
  BY <1>3, <1>4, <1>5, <1>6 DEF TellInv

LEMMA NotifyTell ==
  ASSUME TellInv, Notify
  PROVE  TellInv'
<1>1. Message("Notify") \in Letter
  BY SystemAssumption DEF Message, Letter, Ops
<1>2. /\ Open /\ Len(idOf) + Cardinality(Pending) < MaxNotes
      /\ daemon' = Routed(Message("Notify"))
      /\ UNCHANGED <<owner, file, panel, signals, idOf, cleared, crashes>>
  BY DEF Notify, notes, counts
<1>3. (daemon \in [Daemons -> Process] /\ Single /\ Room /\ AllTold)'
  BY <1>1, <1>2, RouteTell
<1> QED
  BY <1>2, <1>3 DEF TellInv, Typed

LEMMA CloseNotificationTell ==
  ASSUME TellInv, NEW s \in DOMAIN idOf, CloseNotification(s)
  PROVE  TellInv'
<1> DEFINE m == [Message("CloseNotification") EXCEPT !.id = idOf[s], !.meant = s]
<1>1. m \in Letter /\ m.op # "Notify"
  <2>1. idOf[s] \in Nat /\ s \in Nat
    BY LenProperties DEF TellInv, Typed
  <2> QED
    BY <2>1 DEF Message, Letter, Ops
<1>2. /\ Open /\ daemon' = Routed(m)
      /\ UNCHANGED <<owner, file, panel, signals, idOf, cleared, crashes>>
  BY DEF CloseNotification, notes, counts
<1> HIDE DEF m
<1>3. (daemon \in [Daemons -> Process] /\ Single /\ Room /\ AllTold)'
  BY <1>1, <1>2, RouteTell
<1> QED
  BY <1>2, <1>3 DEF TellInv, Typed

LEMMA CommandClearTell ==
  ASSUME TellInv, NEW op \in {"DismissAll", "ClearHistory"}, CommandClear(op)
  PROVE  TellInv'
<1>1. Message(op) \in Letter /\ Message(op).op # "Notify"
  BY DEF Message, Letter, Ops
<1>2. /\ Open /\ daemon' = Routed(Message(op))
      /\ UNCHANGED <<owner, file, panel, signals, idOf, cleared, crashes>>
  BY DEF CommandClear, notes, counts
<1>3. (daemon \in [Daemons -> Process] /\ Single /\ Room /\ AllTold)'
  BY <1>1, <1>2, RouteTell
<1> QED
  BY <1>2, <1>3 DEF TellInv, Typed

(* A step that leaves the daemons, the signals and the ids alone. *)
LEMMA AsideTell ==
  ASSUME TellInv, panel' \in PanelState, file' \in Seq(Saved),
         cleared' \in BOOLEAN,
         UNCHANGED <<owner, daemon, signals, idOf, crashes>>
  PROVE  TellInv'
<1>1. Typed'
  BY DEF TellInv, Typed
<1>2. Single'
  BY DEF TellInv, Single, Alive
<1>3. Room' /\ AllTold'
  BY DEF TellInv, Room, Pending, AllTold
<1> QED
  BY <1>1, <1>2, <1>3 DEF TellInv

LEMMA CallTell ==
  ASSUME TellInv, NEW m \in Letter, m.op \in PanelOps, NEW r \in Seq(Entry),
         Call(m, r), UNCHANGED <<owner, file, notes, counts>>
  PROVE  TellInv'
<1>1. /\ UNCHANGED <<owner, file, signals, idOf, cleared, crashes>>
      /\ file' \in Seq(Saved) /\ cleared' \in BOOLEAN
  BY DEF notes, counts, TellInv, Typed
<1>2. panel.call + 1 \in Nat
  BY PanelParts DEF TellInv
<1>3. panel' \in PanelState
  BY <1>2 DEF Call, PanelState, PanelPhases
<1>4. CASE owner = "none"
  <2>1. UNCHANGED daemon
    BY <1>4 DEF Call
  <2> QED
    BY <1>1, <1>3, <2>1, AsideTell
<1>5. CASE owner # "none"
  <2> DEFINE n == [m EXCEPT !.call = panel.call + 1]
  <2>1. Open /\ daemon' = Routed(n)
    BY <1>5 DEF Call
  <2>2. n \in Letter /\ n.op = m.op
    BY <1>2 DEF Letter
  <2>3. n.op # "Notify"
    BY <2>2 DEF PanelOps
  <2> HIDE DEF n
  <2>4. (daemon \in [Daemons -> Process] /\ Single /\ Room /\ AllTold)'
    BY <1>1, <2>1, <2>2, <2>3, RouteTell
  <2> QED
    BY <1>1, <1>3, <2>4 DEF TellInv, Typed
<1> QED
  BY <1>4, <1>5

LEMMA GetLiveLetter ==
  Message("GetLive") \in Letter /\ Message("GetLive").op = "GetLive"
BY DEF Message, Letter, Ops

LEMMA PanelTell ==
  ASSUME TellInv,
         \/ PanelOpen \/ PanelHandled \/ PanelFailed \/ PanelClose
         \/ \E i \in DOMAIN panel.ring : PanelDismiss(i)
         \/ \E op \in {"DismissAll", "ClearHistory"} : PanelMutate(op)
  PROVE  TellInv'
<1>1. /\ panel \in PanelState /\ panel.ring \in Seq(Entry)
      /\ panel.reply \in SUBSET Nat
      /\ DOMAIN panel.ring = 1..Len(panel.ring) /\ Len(panel.ring) \in Nat
      /\ file \in Seq(Saved) /\ cleared \in BOOLEAN
  BY PanelParts DEF TellInv, Typed
<1>2. Loaded(file) \in Seq(Entry)
  BY <1>1, LoadedSeq
<1>3. CASE PanelOpen
  <2>1. Call(Message("GetLive"), Loaded(file)) /\ UNCHANGED <<owner, file, notes, counts>>
    BY <1>3 DEF PanelOpen
  <2> QED
    BY <1>2, <2>1, GetLiveLetter, CallTell DEF PanelOps
<1>4. CASE PanelHandled
  <2>1. CASE panel.op = "GetLive"
    <3>1. /\ panel' = [panel EXCEPT !.phase = "idle",
                                    !.ring = Overlay(panel.ring, panel.reply)]
          /\ UNCHANGED <<owner, daemon, file, signals, idOf, cleared, crashes>>
      BY <1>4, <2>1 DEF PanelHandled, notes, counts
    <3>2. Overlay(panel.ring, panel.reply) \in Seq(Entry)
      BY <1>1, OverlayRing
    <3>3. panel' \in PanelState
      BY <1>1, <3>1, <3>2 DEF PanelState, PanelPhases
    <3> QED
      BY <1>1, <3>1, <3>3, AsideTell
  <2>2. CASE panel.op # "GetLive"
    <3>1. Call(Message("GetLive"), Loaded(file)) /\ UNCHANGED <<owner, file, notes, counts>>
      BY <1>4, <2>2 DEF PanelHandled
    <3> QED
      BY <1>2, <3>1, GetLiveLetter, CallTell DEF PanelOps
  <2> QED
    BY <2>1, <2>2
<1>5. CASE PanelFailed
  <2>1. /\ panel' = [panel EXCEPT !.phase = "idle"]
        /\ UNCHANGED <<owner, daemon, file, signals, idOf, cleared, crashes>>
    BY <1>5 DEF PanelFailed, notes, counts
  <2>2. panel' \in PanelState
    BY <1>1, <2>1 DEF PanelState, PanelPhases
  <2> QED
    BY <1>1, <2>1, <2>2, AsideTell
<1>6. CASE PanelClose
  <2>1. /\ panel' = [panel EXCEPT !.phase = "closed", !.ring = <<>>]
        /\ UNCHANGED <<owner, daemon, file, signals, idOf, cleared, crashes>>
    BY <1>6 DEF PanelClose, notes, counts
  <2>2. <<>> \in Seq(Entry)
    OBVIOUS
  <2>3. panel' \in PanelState
    BY <1>1, <2>1, <2>2 DEF PanelState, PanelPhases
  <2> QED
    BY <1>1, <2>1, <2>3, AsideTell
<1>7. ASSUME NEW i \in DOMAIN panel.ring, PanelDismiss(i)
      PROVE  TellInv'
  <2> DEFINE m == [Message("Dismiss") EXCEPT !.id = panel.ring[i].id,
                                            !.meant = panel.ring[i].serial]
  <2>1. panel.ring[i] \in Entry
    BY <1>1
  <2>2. m \in Letter /\ m.op \in PanelOps
    BY <2>1 DEF Message, Letter, Ops, Entry, PanelOps
  <2>3. Call(m, panel.ring) /\ UNCHANGED <<owner, file, notes, counts>>
    BY <1>7 DEF PanelDismiss
  <2> HIDE DEF m
  <2> QED
    BY <1>1, <2>2, <2>3, CallTell
<1>8. ASSUME NEW op \in {"DismissAll", "ClearHistory"}, PanelMutate(op)
      PROVE  TellInv'
  <2>1. Message(op) \in Letter /\ Message(op).op \in PanelOps
    BY DEF Message, Letter, Ops, PanelOps
  <2>2. Call(Message(op), panel.ring) /\ UNCHANGED <<owner, file, notes, counts>>
    BY <1>8 DEF PanelMutate
  <2> QED
    BY <1>1, <2>1, <2>2, CallTell
<1> QED
  BY <1>3, <1>4, <1>5, <1>6, <1>7, <1>8

(* PanelAbsent may save the panel's copy, and leaves the daemons alone.    *)
LEMMA AbsentTell ==
  ASSUME TellInv, PanelAbsent
  PROVE  TellInv'
<1> DEFINE st == [ring |-> panel.ring, armed |-> <<>>, signals |-> <<>>]
           own == Retire(st, DOMAIN panel.ring, "dismissed").ring
<1>1. /\ panel \in PanelState /\ panel.ring \in Seq(Entry)
      /\ file \in Seq(Saved) /\ cleared \in BOOLEAN
  BY PanelParts DEF TellInv, Typed
<1>2. UNCHANGED <<owner, daemon, signals, idOf, crashes>>
  BY DEF PanelAbsent
<1>3. own \in Seq(Entry)
  <2>1. st.ring \in Seq(Entry)
    BY <1>1
  <2> HIDE DEF st
  <2> QED
    BY <2>1, RetireRing
<1>4. Persisted(own) \in Seq(Saved) /\ <<>> \in Seq(Saved) /\ <<>> \in Seq(Entry)
  BY <1>3, PersistedSeq, EmptySeq
<1>5. \/ /\ panel' = [panel EXCEPT !.phase = "idle", !.ring = <<>>]
         /\ file' = <<>> /\ cleared' = TRUE
      \/ /\ panel' = [panel EXCEPT !.phase = "idle", !.ring = own]
         /\ file' = Persisted(own) /\ UNCHANGED cleared
      \/ panel' = [panel EXCEPT !.phase = "idle"] /\ UNCHANGED <<file, cleared>>
  BY DEF PanelAbsent
<1> HIDE DEF own
<1>6. panel' \in PanelState /\ file' \in Seq(Saved) /\ cleared' \in BOOLEAN
  <2>1. CASE /\ panel' = [panel EXCEPT !.phase = "idle", !.ring = <<>>]
             /\ file' = <<>> /\ cleared' = TRUE
    BY <1>1, <1>4, <2>1 DEF PanelState, PanelPhases
  <2>2. CASE /\ panel' = [panel EXCEPT !.phase = "idle", !.ring = own]
             /\ file' = Persisted(own) /\ UNCHANGED cleared
    BY <1>1, <1>3, <1>4, <2>2 DEF PanelState, PanelPhases
  <2>3. CASE panel' = [panel EXCEPT !.phase = "idle"] /\ UNCHANGED <<file, cleared>>
    BY <1>1, <2>3 DEF PanelState, PanelPhases
  <2> QED
    BY <1>5, <2>1, <2>2, <2>3
<1> QED
  BY <1>2, <1>6, AsideTell

(* A daemon of which nothing is on screen changes into p. *)
LEMMA TurnTell ==
  ASSUME TellInv, NEW d \in Daemons, NEW p \in Process,
         daemon' = [daemon EXCEPT ![d] = p], p.inbox = <<>>,
         UNCHANGED <<file, panel, signals, idOf, cleared>>,
         owner' \in Daemons \cup {"none"}, crashes' \in Nat, Single',
         crashes' = 0 =>
           crashes = 0 /\ \A s : OnScreen(daemon[d].ring, s) => OnScreen(p.ring, s)
  PROVE  TellInv'
<1>1. /\ daemon' \in [Daemons -> Process]
      /\ \A e \in Daemons : daemon'[e] = IF e = d THEN p ELSE daemon[e]
  BY DEF TellInv, Typed
<1>2. Typed'
  BY <1>1 DEF TellInv, Typed
<1>3. Room'
  <2> DEFINE c == [e \in Daemons |-> daemon'[e].inbox]
  <2>1. \A e \in Daemons : Boxes[e] = daemon[e].inbox
    BY BoxesTyped DEF TellInv
  <2>2. Pending' = PendingOf(c) /\ Pending = PendingOf(Boxes)
    BY PendingNext, PendingIsBoxes
  <2>3. \A e \in Daemons : c[e] = Boxes[e] \/ c[e] = <<>>
    BY <1>1, <2>1
  <2> HIDE DEF c
  <2>4. Cardinality(Pending') <= Cardinality(Pending)
    BY <2>2, <2>3, PendingFewer
  <2>5. /\ Cardinality(Pending) \in Nat /\ Cardinality(Pending') \in Nat
        /\ Len(idOf) \in Nat /\ MaxNotes \in Nat /\ MaxInbox \in Nat
        /\ Len(idOf) + Cardinality(Pending) <= MaxNotes
    BY <2>2, PendingFinite, FiledInNotes, SystemAssumption DEF TellInv, Room
  <2>6. Len(<<>>) <= MaxInbox
    BY <2>5, EmptySeq
  <2>7. \A e \in Daemons : Len(daemon'[e].inbox) <= MaxInbox
    BY <1>1, <2>6 DEF TellInv, Room
  <2> QED
    BY <2>4, <2>5, <2>7 DEF Room
<1>4. AllTold'
  <2> SUFFICES ASSUME crashes' = 0, NEW s \in 1..Len(idOf')
               PROVE  \/ signals'[s] # <<>>
                      \/ \E e \in Daemons : OnScreen(daemon'[e].ring, s)
    BY DEF AllTold
  <2>1. \/ signals[s] # <<>>
        \/ \E e \in Daemons : OnScreen(daemon[e].ring, s)
    BY DEF TellInv, AllTold
  <2>2. CASE \E e \in Daemons : OnScreen(daemon[e].ring, s)
    <3>1. PICK e \in Daemons : OnScreen(daemon[e].ring, s)
      BY <2>2
    <3>2. OnScreen(daemon'[e].ring, s)
      BY <1>1, <3>1
    <3> QED
      BY <3>2
  <2> QED
    BY <2>1, <2>2
<1> QED
  BY <1>2, <1>3, <1>4 DEF TellInv

LEMMA StartTell ==
  ASSUME TellInv, "handover" \notin Races, NEW d \in Daemons, Start(d)
  PROVE  TellInv'
<1> DEFINE p == [phase |-> "loaded", ring |-> Loaded(file),
                 nextId |-> NextAfter(file), inbox |-> <<>>]
<1>1. file \in Seq(Saved)
  BY DEF TellInv, Typed
<1>2. /\ ~Alive(d) /\ Quiet /\ daemon' = [daemon EXCEPT ![d] = p]
      /\ UNCHANGED <<owner, file, panel, signals, idOf, cleared, crashes>>
  BY DEF Start, notes
<1>3. p \in Process /\ p.phase = "loaded" /\ p.inbox = <<>>
  <2>1. Loaded(file) \in Seq(Entry) /\ NextAfter(file) \in Nat
    BY <1>1, LoadedSeq, NextAfterNat
  <2>2. <<>> \in Seq(Letter)
    BY EmptySeq
  <2> QED
    BY <2>1, <2>2 DEF Process
<1> HIDE DEF p
<1>4. \A e \in Daemons : daemon'[e] = IF e = d THEN p ELSE daemon[e]
  BY <1>2 DEF TellInv, Typed
<1>5. \A e \in Daemons : ~Alive(e) /\ daemon[e].phase = "off"
  BY <1>2 DEF Quiet, Alive
<1>6. Single'
  <2>1. \A e \in Daemons : owner # e
    BY <1>5 DEF TellInv, Single
  <2>2. \A e \in Daemons : daemon'[e].phase # "up"
    BY <1>3, <1>4, <1>5
  <2>3. \A e \in Daemons : Alive(e)' <=> e = d
    BY <1>3, <1>4, <1>5 DEF Alive
  <2>4. \A e \in Daemons : daemon'[e].inbox = <<>>
    BY <1>3, <1>4, <1>5 DEF TellInv, Single
  <2>5. \A e \in Daemons : ~Alive(e)' => daemon'[e].ring = <<>>
    BY <1>4, <1>5, <2>3 DEF TellInv, Single
  <2> QED
    BY <1>2, <2>1, <2>2, <2>3, <2>4, <2>5 DEF Single
<1>7. \A s : ~OnScreen(daemon[d].ring, s)
  BY <1>2, EmptyHasNone DEF TellInv, Single
<1>8. owner' \in Daemons \cup {"none"} /\ crashes' \in Nat
  BY <1>2 DEF TellInv, Typed
<1> QED
  BY <1>2, <1>3, <1>6, <1>7, <1>8, TurnTell

LEMMA CrashTell ==
  ASSUME TellInv, NEW d \in Daemons, Crash(d)
  PROVE  TellInv'
<1>1. /\ Alive(d) /\ daemon' = [daemon EXCEPT ![d] = Off]
      /\ owner' = IF owner = d THEN "none" ELSE owner
      /\ crashes' = crashes + 1
      /\ UNCHANGED <<file, panel, signals, idOf, cleared>>
  BY DEF Crash, notes
<1>2. Off \in Process /\ Off.phase = "off" /\ Off.ring = <<>> /\ Off.inbox = <<>>
  BY DEF Off, Process
<1>3. crashes' \in Nat /\ crashes' # 0
  BY <1>1 DEF TellInv, Typed
<1>4. \A e \in Daemons : daemon'[e] = IF e = d THEN Off ELSE daemon[e]
  BY <1>1 DEF TellInv, Typed
<1>5. owner' \in Daemons \cup {"none"}
  BY <1>1 DEF TellInv, Typed
<1>6. Single'
  <2>1. \A e \in Daemons : e # d => ~Alive(e)
    BY <1>1 DEF TellInv, Single
  <2>2. \A e \in Daemons : ~Alive(e)' /\ daemon'[e].phase = "off"
    BY <1>2, <1>4, <2>1 DEF Alive
  <2>3. \A e \in Daemons : owner' # e
    <3>1. \A e \in Daemons : e # d => owner # e
      BY <2>1 DEF TellInv, Single, Alive
    <3> QED
      BY <1>1, <3>1, SystemAssumption
  <2>4. \A e \in Daemons : daemon'[e].inbox = <<>> /\ daemon'[e].ring = <<>>
    BY <1>2, <1>4, <2>1 DEF TellInv, Single, Alive
  <2> QED
    BY <2>2, <2>3, <2>4 DEF Single
<1> QED
  BY <1>1, <1>2, <1>3, <1>5, <1>6, TurnTell

(* The name is free when a loaded daemon takes it: no other is running.    *)
LEMMA TakeNameTell ==
  ASSUME TellInv, NEW d \in Daemons, TakeName(d)
  PROVE  /\ TellInv'
         /\ \A e \in Daemons :
              /\ daemon'[e].ring = daemon[e].ring
              /\ daemon'[e].nextId = daemon[e].nextId
              /\ daemon'[e].inbox = daemon[e].inbox
              /\ Alive(e)' <=> Alive(e)
<1> DEFINE p == [daemon[d] EXCEPT !.phase = "up"]
<1>1. /\ daemon[d].phase = "loaded" /\ owner' = d
      /\ UNCHANGED <<file, panel, signals, idOf, cleared, crashes>>
  BY DEF TakeName, notes, counts
<1>2. Alive(d) /\ daemon \in [Daemons -> Process] /\ daemon[d] \in Process
  BY <1>1 DEF Alive, TellInv, Typed
<1>3. \A e \in Daemons : e # owner
  <2>1. \A e \in Daemons : e # d => ~Alive(e)
    BY <1>2 DEF TellInv, Single
  <2> QED
    BY <1>1, <2>1 DEF TellInv, Single, Alive
<1>4. daemon' = [daemon EXCEPT ![d] = p]
  <2>1. daemon' = [e \in Daemons |->
                     IF e = d THEN [daemon[e] EXCEPT !.phase = "up"]
                     ELSE IF e = owner
                     THEN [daemon[e] EXCEPT
                             !.inbox = Append(daemon[e].inbox,
                                              Message("NameLost"))]
                     ELSE daemon[e]]
    BY DEF TakeName
  <2>2. daemon' = [e \in Daemons |-> IF e = d THEN p ELSE daemon[e]]
    BY <1>3, <2>1
  <2> HIDE DEF p
  <2> QED
    BY <1>2, <2>2
<1>5. /\ p \in Process /\ p.phase = "up" /\ p.ring = daemon[d].ring
      /\ p.nextId = daemon[d].nextId /\ p.inbox = daemon[d].inbox
  BY <1>2 DEF Process
<1> HIDE DEF p
<1>6. \A e \in Daemons : daemon'[e] = IF e = d THEN p ELSE daemon[e]
  BY <1>2, <1>4
<1>7. \A e \in Daemons : /\ daemon'[e].ring = daemon[e].ring
                         /\ daemon'[e].nextId = daemon[e].nextId
                         /\ daemon'[e].inbox = daemon[e].inbox
                         /\ Alive(e)' <=> Alive(e)
  BY <1>2, <1>5, <1>6 DEF Alive
<1>8. p.inbox = <<>>
  BY <1>1, <1>5 DEF TellInv, Single
<1>9. Single'
  <2>1. \A e \in Daemons : e # d => daemon'[e].phase = "off"
    BY <1>2, <1>6 DEF TellInv, Single, Alive
  <2>2. \A e \in Daemons : daemon'[e].phase = "up" <=> owner' = e
    BY <1>1, <1>5, <1>6, <2>1
  <2>3. \A e \in Daemons : daemon'[e].phase # "up" => daemon'[e].inbox = <<>>
    BY <1>5, <1>6 DEF TellInv, Single
  <2>4. /\ \A e, g \in Daemons : (Alive(e) /\ Alive(g))' => e = g
        /\ \A e \in Daemons : ~Alive(e)' => daemon'[e].ring = <<>>
    BY <1>7 DEF TellInv, Single
  <2> QED
    BY <2>2, <2>3, <2>4 DEF Single
<1>10. owner' \in Daemons \cup {"none"} /\ crashes' \in Nat
  BY <1>1 DEF TellInv, Typed
<1>11. TellInv'
  BY <1>1, <1>4, <1>5, <1>8, <1>9, <1>10, TurnTell
<1> QED
  BY <1>7, <1>11

LEMMA HandleNotifyTell ==
  ASSUME TellInv, NEW d \in Daemons, HandleNotify(d)
  PROVE  TellInv'
<1> DEFINE id == daemon[d].nextId
<1>1. /\ daemon[d].inbox # <<>> /\ Head(daemon[d].inbox).op = "Notify"
      /\ Becomes(d, Grown(d), NextId(id)) /\ idOf' = Append(idOf, id)
      /\ UNCHANGED <<owner, panel, cleared, crashes>>
  BY DEF HandleNotify, Receives, Grown, Shown
<1>2. id \in Nat /\ NextId(id) \in Nat
  BY <1>1, ReceiverUp, RingAssumption DEF NextId
<1>3. /\ idOf' \in Seq(Nat) /\ Len(idOf') = Len(idOf) + 1 /\ Len(idOf) \in Nat
  BY <1>1, <1>2, AppendProperties, LenProperties DEF TellInv, Typed
<1>4. Len(idOf') <= MaxNotes
  <2>1. /\ Boxes \in [Daemons -> Seq(Letter)]
        /\ \A e \in Daemons : Boxes[e] = daemon[e].inbox
    BY BoxesTyped DEF TellInv
  <2> DEFINE c == [e \in Daemons |-> IF e = d THEN Tail(Boxes[d]) ELSE Boxes[e]]
  <2>2. \A e \in Daemons : c[e] = IF e = d THEN Tail(Boxes[d]) ELSE Boxes[e]
    OBVIOUS
  <2> HIDE DEF c
  <2>3. Cardinality(PendingOf(c)) + 1 <= Cardinality(PendingOf(Boxes))
    BY <1>1, <2>1, <2>2, PendingTaken DEF TellInv, Room
  <2>4. /\ Cardinality(PendingOf(c)) \in Nat
        /\ Cardinality(PendingOf(Boxes)) \in Nat /\ MaxNotes \in Nat
        /\ Len(idOf) + Cardinality(PendingOf(Boxes)) <= MaxNotes
    BY PendingFinite, PendingIsBoxes, SystemAssumption DEF TellInv, Room
  <2> QED
    BY <1>3, <2>3, <2>4
<1>5. /\ Grown(d).ring \in Seq(Entry)
      /\ Grown(d).signals \in [Notes -> Seq(Reasons)]
      /\ \A s \in Notes : s = Len(idOf) + 1 \/ Told(daemon[d].ring, signals, s)
                          => Told(Grown(d).ring, Grown(d).signals, s)
  BY GrownStore
<1>6. \A s \in 1..Len(idOf') :
        (s \in 1..Len(idOf) => Told(daemon[d].ring, signals, s))
          => Told(Grown(d).ring, Grown(d).signals, s)
  <2> SUFFICES ASSUME NEW s \in 1..Len(idOf'),
                      s \in 1..Len(idOf) => Told(daemon[d].ring, signals, s)
               PROVE  Told(Grown(d).ring, Grown(d).signals, s)
    OBVIOUS
  <2>1. s \in Notes /\ (s = Len(idOf) + 1 \/ s \in 1..Len(idOf))
    BY <1>3, <1>4, SystemAssumption DEF Notes
  <2> QED
    BY <1>5, <2>1
<1>7. /\ (daemon \in [Daemons -> Process] /\ Single /\ Room /\ AllTold)'
      /\ file' \in Seq(Saved) /\ signals' \in [Notes -> Seq(Reasons)]
  <2>1. UNCHANGED <<owner, crashes>>
    BY <1>1
  <2> HIDE DEF id
  <2> QED
    BY <1>1, <1>2, <1>3, <1>5, <1>6, <2>1, BecomesTell
<1> QED
  BY <1>1, <1>3, <1>7 DEF TellInv, Typed

(* The handlers that retire entries of d, or find none to retire. *)
LEMMA RetiringTell ==
  ASSUME TellInv, NEW d \in Daemons, daemon[d].inbox # <<>>,
         NEW I \in SUBSET DOMAIN daemon[d].ring, NEW why \in Reasons,
         \/ Unmoved(d)
         \/ Becomes(d, Retire(StoreOf(d), I, why), daemon[d].nextId),
         UNCHANGED <<owner, crashes, idOf, cleared>>, panel' \in PanelState
  PROVE  TellInv'
<1> DEFINE st == Retire(StoreOf(d), I, why)
<1>1. /\ st.ring \in Seq(Entry) /\ st.signals \in [Notes -> Seq(Reasons)]
      /\ \A s \in 1..Len(idOf) :
           Told(daemon[d].ring, signals, s) => Told(st.ring, st.signals, s)
  BY RetiredStore
<1> HIDE DEF st
<1>2. daemon[d].nextId \in Nat
  BY ReceiverUp
<1>3. /\ (daemon \in [Daemons -> Process] /\ Single /\ Room /\ AllTold)'
      /\ file' \in Seq(Saved) /\ signals' \in [Notes -> Seq(Reasons)]
  <2>1. CASE Unmoved(d)
    BY <2>1, UnmovedTell
  <2>2. CASE Becomes(d, st, daemon[d].nextId)
    BY <1>1, <1>2, <2>2, BecomesTell
  <2> QED
    BY <2>1, <2>2 DEF st
<1> QED
  BY <1>3 DEF TellInv, Typed

LEMMA HandleCloseTell ==
  ASSUME TellInv, NEW d \in Daemons, HandleClose(d)
  PROVE  TellInv'
<1> DEFINE m == Head(daemon[d].inbox)
           I == Matching(daemon[d].ring, m.id)
           why == IF m.op = "Dismiss" THEN "dismissed" ELSE "bycall"
<1>1. daemon[d].inbox # <<>> /\ UNCHANGED <<owner, crashes, idOf, cleared>>
  BY DEF HandleClose, Receives
<1>2. why \in Reasons /\ I \in SUBSET DOMAIN daemon[d].ring
  BY DEF Reasons, Matching, LiveIn
<1>3. panel' \in PanelState
  <2>1. Answer(m, {}) /\ {} \in SUBSET Nat
    BY DEF HandleClose
  <2> QED
    BY <2>1, AnswerPanel DEF TellInv, Typed
<1>4. CASE I = {}
  <2>1. Unmoved(d)
    BY <1>4 DEF HandleClose
  <2> QED
    BY <1>1, <1>2, <1>3, <2>1, RetiringTell
<1>5. CASE I # {}
  <2>1. Becomes(d, Retire(StoreOf(d), {First(I)}, why), daemon[d].nextId)
    BY <1>5 DEF HandleClose
  <2>2. I \in SUBSET Nat
    <3>1. DOMAIN daemon[d].ring = 1..Len(daemon[d].ring)
      BY <1>1, ReceiverUp, LenProperties
    <3> QED
      BY <1>2, <3>1
  <2> HIDE DEF I, why
  <2>3. {First(I)} \in SUBSET DOMAIN daemon[d].ring
    BY <1>2, <1>5, <2>2, FirstIsIn
  <2> QED
    BY <1>1, <1>2, <1>3, <2>1, <2>3, RetiringTell
<1> QED
  BY <1>4, <1>5

LEMMA HandleDismissAllTell ==
  ASSUME TellInv, NEW d \in Daemons, HandleDismissAll(d)
  PROVE  TellInv'
<1>1. /\ daemon[d].inbox # <<>> /\ UNCHANGED <<owner, crashes, idOf, cleared>>
      /\ \/ Unmoved(d)
         \/ Becomes(d, Retire(StoreOf(d), DOMAIN daemon[d].ring, "dismissed"),
                    daemon[d].nextId)
  BY DEF HandleDismissAll, Receives
<1>2. panel' \in PanelState
  <2>1. Answer(Head(daemon[d].inbox), {}) /\ {} \in SUBSET Nat
    BY DEF HandleDismissAll
  <2> QED
    BY <2>1, AnswerPanel DEF TellInv, Typed
<1>3. DOMAIN daemon[d].ring \in SUBSET DOMAIN daemon[d].ring /\ "dismissed" \in Reasons
  BY DEF Reasons
<1> QED
  BY <1>1, <1>2, <1>3, RetiringTell

(* The ring is retired as a whole before it is emptied. *)
Emptied(d) ==
  Truncate(Retire(StoreOf(d), DOMAIN daemon[d].ring, "dismissed"), 0)

LEMMA EmptiedStore ==
  ASSUME TellInv, NEW d \in Daemons
  PROVE  /\ Emptied(d).ring = <<>>
         /\ Emptied(d).signals \in [Notes -> Seq(Reasons)]
         /\ \A s \in 1..Len(idOf) : Told(daemon[d].ring, signals, s)
               => Told(Emptied(d).ring, Emptied(d).signals, s)
<1> DEFINE r == daemon[d].ring
           I == DOMAIN r
           st == Retire(StoreOf(d), I, "dismissed")
           e == Emptied(d)
<1>0. /\ I \in SUBSET DOMAIN daemon[d].ring /\ "dismissed" \in Reasons
      /\ r \in Seq(Entry)
  BY DEF Reasons, TellInv, Typed, Process
<1>1. /\ st.ring \in Seq(Entry) /\ st.signals \in [Notes -> Seq(Reasons)]
      /\ \A s \in 1..Len(idOf) :
           Told(r, signals, s) => Told(st.ring, st.signals, s)
      /\ Len(st.ring) = Len(r)
      /\ \A i \in 1..Len(r) : st.ring[i].live <=> r[i].live /\ i \notin I
  <2> HIDE DEF I
  <2>1. /\ st.ring \in Seq(Entry) /\ st.signals \in [Notes -> Seq(Reasons)]
        /\ \A s \in 1..Len(idOf) :
             Told(r, signals, s) => Told(st.ring, st.signals, s)
    BY <1>0, RetiredStore
  <2>2. StoreOf(d).ring = r
    BY StoreParts
  <2>3. /\ Len(st.ring) = Len(StoreOf(d).ring)
        /\ \A i \in 1..Len(StoreOf(d).ring) :
             st.ring[i].live <=> StoreOf(d).ring[i].live /\ i \notin I
    BY <1>0, <2>2, RetireRing
  <2> HIDE DEF st, r
  <2> QED
    BY <2>1, <2>2, <2>3
<1>2. e = Truncate(st, 0)
  BY DEF Emptied
<1> HIDE DEF st, e
<1>3. e.ring \in Seq(Entry) /\ Len(e.ring) = 0 /\ e.signals = st.signals
  <2>1. /\ e.ring \in Seq(Entry) /\ e.signals = st.signals
        /\ Len(e.ring) = IF Len(st.ring) < 0 THEN Len(st.ring) ELSE 0
    BY <1>1, <1>2, TruncateRing
  <2>2. Len(st.ring) \in Nat
    BY <1>1, LenProperties
  <2> QED
    BY <2>1, <2>2
<1>4. e.ring = <<>>
  BY <1>3, EmptySeq
<1>5. \A s : ~OnScreen(st.ring, s)
  <2>1. DOMAIN r = 1..Len(r) /\ DOMAIN st.ring = 1..Len(r)
    BY <1>0, <1>1, LenProperties
  <2> QED
    BY <1>1, <2>1 DEF OnScreen, LiveIn
<1> QED
  BY <1>1, <1>3, <1>4, <1>5 DEF Told, e

LEMMA HandleClearTell ==
  ASSUME TellInv, NEW d \in Daemons, HandleClear(d)
  PROVE  TellInv'
<1>1. /\ daemon[d].inbox # <<>> /\ UNCHANGED <<owner, crashes, idOf>>
      /\ cleared' = TRUE
      /\ Becomes(d, Emptied(d), daemon[d].nextId)
  BY DEF HandleClear, Receives, Emptied
<1>2. panel' \in PanelState
  <2>1. Answer(Head(daemon[d].inbox), {}) /\ {} \in SUBSET Nat
    BY DEF HandleClear
  <2> QED
    BY <2>1, AnswerPanel DEF TellInv, Typed
<1>3. Emptied(d).ring \in Seq(Entry) /\ daemon[d].nextId \in Nat
  BY <1>1, EmptiedStore, ReceiverUp, EmptySeq
<1>4. /\ (daemon \in [Daemons -> Process] /\ Single /\ Room /\ AllTold)'
      /\ file' \in Seq(Saved) /\ signals' \in [Notes -> Seq(Reasons)]
  BY <1>1, <1>3, EmptiedStore, BecomesTell
<1> QED
  BY <1>1, <1>2, <1>4 DEF TellInv, Typed

LEMMA HandleGetLiveTell ==
  ASSUME TellInv, NEW d \in Daemons, HandleGetLive(d)
  PROVE  TellInv'
<1>1. /\ daemon[d].inbox # <<>> /\ UNCHANGED <<owner, crashes, idOf, cleared>>
      /\ Unmoved(d)
  BY DEF HandleGetLive, Receives
<1>2. LiveIds(daemon[d].ring) \in SUBSET Nat
  <2>1. daemon[d].ring \in Seq(Entry)
    BY <1>1, ReceiverUp
  <2>2. \A i \in LiveIn(daemon[d].ring) : daemon[d].ring[i] \in Entry
    BY <2>1, ElementOfSeq, LenProperties DEF LiveIn
  <2> QED
    BY <2>2 DEF LiveIds, Entry
<1>3. panel' \in PanelState
  <2>1. Answer(Head(daemon[d].inbox), LiveIds(daemon[d].ring))
    BY DEF HandleGetLive
  <2> QED
    BY <1>2, <2>1, AnswerPanel DEF TellInv, Typed
<1>4. {} \in SUBSET DOMAIN daemon[d].ring /\ "dismissed" \in Reasons
  BY DEF Reasons
<1> QED
  BY <1>1, <1>3, <1>4, RetiringTell

(* Nobody is told that it lost a name that is free when it is taken.       *)
LEMMA NoNameLost ==
  ASSUME TellInv, NEW d \in Daemons, HandleNameLost(d)
  PROVE  FALSE
<1>1. daemon[d].inbox # <<>> /\ Head(daemon[d].inbox).op = "NameLost"
  BY DEF HandleNameLost, Receives
<1>2. Head(daemon[d].inbox) \in Letter
  BY <1>1, ReceiverUp
<1> QED
  BY <1>1, <1>2 DEF Letter

LEMMA ExpireTell ==
  ASSUME TellInv, NEW d \in Daemons, NEW i \in DOMAIN daemon[d].ring, Expire(d, i)
  PROVE  TellInv'
<1> DEFINE I == {i}
           st == Retire(StoreOf(d), I, "expired")
           p == [daemon[d] EXCEPT !.ring = st.ring]
<1>1. /\ i \in LiveIn(daemon[d].ring)
      /\ daemon' = [daemon EXCEPT ![d] = p]
      /\ signals' = st.signals /\ file' = Persisted(st.ring)
      /\ UNCHANGED <<owner, panel, idOf, cleared, crashes>>
  BY DEF Expire
<1>2. Alive(d)
  <2>1. daemon[d].ring # <<>>
    OBVIOUS
  <2> QED
    BY <2>1 DEF TellInv, Single
<1>3. I \in SUBSET DOMAIN daemon[d].ring /\ "expired" \in Reasons
  BY DEF Reasons
<1>4. /\ st.ring \in Seq(Entry) /\ st.signals \in [Notes -> Seq(Reasons)]
      /\ \A s \in 1..Len(idOf) :
           Told(daemon[d].ring, signals, s) => Told(st.ring, st.signals, s)
  <2> HIDE DEF I
  <2> QED
    BY <1>3, RetiredStore
<1> HIDE DEF st
<1>5. /\ p \in Process /\ p.phase = daemon[d].phase
      /\ p.inbox = daemon[d].inbox /\ p.ring = st.ring
  <2>1. daemon[d] \in Process
    BY DEF TellInv, Typed
  <2> QED
    BY <1>4, <2>1 DEF Process
<1> HIDE DEF p
<1>6. crashes = 0 =>
        \A s \in 1..Len(idOf') :
          (s \in 1..Len(idOf) => Told(daemon[d].ring, signals, s))
            => Told(p.ring, signals', s)
  BY <1>1, <1>4, <1>5
<1>7. (daemon \in [Daemons -> Process] /\ Single /\ Room /\ AllTold)'
  <2>1. UNCHANGED <<owner, crashes>> /\ UNCHANGED idOf
    BY <1>1
  <2> QED
    BY <1>1, <1>2, <1>5, <1>6, <2>1, MoveTell
<1>8. file' \in Seq(Saved)
  BY <1>1, <1>4, PersistedSeq
<1> QED
  BY <1>1, <1>4, <1>7, <1>8 DEF TellInv, Typed

LEMMA NextTell ==
  ASSUME "handover" \notin Races, TellInv, [Next]_vars
  PROVE  TellInv'
<1>1. CASE UNCHANGED vars
  <2>1. /\ UNCHANGED <<owner, daemon, signals, idOf, crashes>>
        /\ panel' \in PanelState /\ file' \in Seq(Saved) /\ cleared' \in BOOLEAN
    BY <1>1 DEF vars, notes, counts, TellInv, Typed
  <2> QED
    BY <2>1, AsideTell
<1>2. ASSUME NEW d \in Daemons, Start(d)
      PROVE  TellInv'
  BY <1>2, StartTell
<1>3. ASSUME NEW d \in Daemons, TakeName(d) \/ Crash(d)
      PROVE  TellInv'
  BY <1>3, TakeNameTell, CrashTell
<1>4. ASSUME NEW d \in Daemons,
             \/ HandleNotify(d) \/ HandleClose(d) \/ HandleDismissAll(d)
             \/ HandleClear(d) \/ HandleGetLive(d) \/ HandleNameLost(d)
      PROVE  TellInv'
  BY <1>4, HandleNotifyTell, HandleCloseTell, HandleDismissAllTell,
     HandleClearTell, HandleGetLiveTell, NoNameLost
<1>5. ASSUME NEW d \in Daemons, NEW i \in DOMAIN daemon[d].ring, Expire(d, i)
      PROVE  TellInv'
  BY <1>5, ExpireTell
<1>6. CASE Notify
  BY <1>6, NotifyTell
<1>7. ASSUME NEW s \in DOMAIN idOf, CloseNotification(s)
      PROVE  TellInv'
  BY <1>7, CloseNotificationTell
<1>8. ASSUME NEW op \in {"DismissAll", "ClearHistory"}, CommandClear(op)
      PROVE  TellInv'
  BY <1>8, CommandClearTell
<1>9. CASE \/ PanelOpen \/ PanelHandled \/ PanelFailed \/ PanelClose
           \/ \E i \in DOMAIN panel.ring : PanelDismiss(i)
           \/ \E op \in {"DismissAll", "ClearHistory"} : PanelMutate(op)
  BY <1>9, PanelTell
<1>10. CASE PanelAbsent
  BY <1>10, AbsentTell
<1> QED
  BY <1>1, <1>2, <1>3, <1>4, <1>5, <1>6, <1>7, <1>8, <1>9, <1>10 DEF Next

LEMMA SpecTell ==
  ASSUME "handover" \notin Races
  PROVE  Spec => []TellInv
<1>1. Init => TellInv
  BY InitTell
<1>2. TellInv /\ [Next]_vars => TellInv'
  BY NextTell
<1> QED
  BY <1>1, <1>2, PTL DEF Spec

(* As long as no daemon is killed and none is started over a running one,  *)
(* every sender is told when its notification goes: by a close, an expiry, *)
(* a cap, the panel or the command line, and however the panel's calls     *)
(* interleave with them (notify-store.c:329-333).                          *)
THEOREM SendersAreTold ==
  ASSUME "handover" \notin Races
  PROVE  Spec => []SendersTold
<1>1. TellInv => SendersTold
  <2> SUFFICES ASSUME TellInv, crashes = 0, NEW s \in DOMAIN idOf
               PROVE  \/ signals[s] # <<>>
                      \/ \E d \in Daemons : \E i \in LiveIn(daemon[d].ring) :
                           daemon[d].ring[i].serial = s
    BY DEF SendersTold
  <2>1. s \in 1..Len(idOf)
    BY LenProperties DEF TellInv, Typed
  <2> QED
    BY <2>1 DEF TellInv, AllTold, OnScreen
<1> QED
  BY <1>1, SpecTell, PTL

--------------------------------------------------------------------------------
(* The second invariant, where no daemon starts while the panel is being   *)
(* told that there is none, the panel does not save a stale copy of its    *)
(* own (DismissAll), and fewer notifications are filed than a guint32      *)
(* counts.                                                                 *)

Sound ==
  /\ "handover" \notin Races /\ "absent" \notin Races
  /\ "DismissAll" \notin Methods
  /\ MaxNotes < IdMax

LEMMA MeantAppend ==
  ASSUME NEW b \in Seq(Letter), Meant(b), NEW m \in Letter, MeansWell(m)
  PROVE  Meant(Append(b, m))
<1>1. /\ Len(b) \in Nat /\ DOMAIN b = 1..Len(b)
      /\ DOMAIN Append(b, m) = 1..(Len(b) + 1)
      /\ Append(b, m)[Len(b) + 1] = m
      /\ \A k \in 1..Len(b) : Append(b, m)[k] = b[k]
  BY AppendProperties, LenProperties
<1>2. ASSUME NEW k \in 1..(Len(b) + 1)
      PROVE  MeansWell(Append(b, m)[k])
  <2>1. CASE k = Len(b) + 1
    BY <1>1, <2>1
  <2>2. CASE k # Len(b) + 1
    <3>1. k \in 1..Len(b)
      BY <1>1, <2>2
    <3> QED
      BY <1>1, <3>1 DEF Meant
  <2> QED
    BY <2>1, <2>2
<1> QED
  BY <1>1, <1>2 DEF Meant

LEMMA MeantTail ==
  ASSUME NEW b \in Seq(Letter), b # <<>>, Meant(b)
  PROVE  Meant(Tail(b)) /\ MeansWell(Head(b))
<1>1. /\ Len(b) \in Nat \ {0} /\ DOMAIN b = 1..Len(b) /\ Head(b) = b[1]
      /\ DOMAIN Tail(b) = 1..(Len(b) - 1)
      /\ \A k \in 1..(Len(b) - 1) : Tail(b)[k] = b[k + 1]
  BY EmptySeq, HeadTailProperties, LenProperties
<1>2. \A k \in 1..(Len(b) - 1) : k + 1 \in 1..Len(b)
  BY <1>1
<1> QED
  BY <1>1, <1>2 DEF Meant

(* A step that leaves the file as it is, and the daemons' rings and        *)
(* counters as far as the file tells them.                                 *)
LEMMA KeepHist ==
  ASSUME TellInv, HistInv, UNCHANGED <<file, idOf>>,
         cleared => cleared',
         \A e \in Daemons :
           Alive(e)' => /\ Alive(e)
                        /\ Persisted(daemon'[e].ring) = Persisted(daemon[e].ring)
                        /\ daemon'[e].nextId = daemon[e].nextId,
         panel'.phase = "absent" => Quiet,
         panel'.op # "DismissAll",
         ~cleared => /\ \A e \in Daemons : Meant(daemon'[e].inbox)
                     /\ \A i \in DOMAIN panel'.ring :
                          panel'.ring[i].id = panel'.ring[i].serial
                     /\ struck'.meant = struck'.hit
  PROVE  HistInv'
<1>1. FileHeld'
  BY DEF HistInv, FileHeld, Quiet
<1>2. Counting'
  BY DEF HistInv, Counting
<1>3. ~cleared' => Meaning'
  BY DEF HistInv, Meaning
<1> QED
  BY <1>1, <1>2, <1>3 DEF HistInv

(* The letters on their way to d keep their meaning when one arrives that  *)
(* has one.                                                                *)
LEMMA RouteHist ==
  ASSUME TellInv, HistInv, Open, NEW m \in Letter, daemon' = Routed(m),
         ~cleared => MeansWell(m),
         UNCHANGED <<file, idOf, cleared, struck>>,
         panel'.phase # "absent" \/ UNCHANGED panel,
         panel'.op # "DismissAll",
         ~cleared => \A i \in DOMAIN panel'.ring :
                       panel'.ring[i].id = panel'.ring[i].serial
  PROVE  HistInv'
<1> DEFINE o == owner
           p == [daemon[o] EXCEPT !.inbox = Append(@, m)]
<1>1. o \in Daemons /\ daemon \in [Daemons -> Process] /\ daemon[o] \in Process
  BY DEF TellInv, Typed, Open
<1>2. /\ p.phase = daemon[o].phase /\ p.ring = daemon[o].ring
      /\ p.nextId = daemon[o].nextId /\ p.inbox = Append(daemon[o].inbox, m)
  BY <1>1 DEF Process
<1>3. daemon' = [daemon EXCEPT ![o] = p]
  BY DEF Routed
<1> HIDE DEF p
<1>4. \A e \in Daemons : daemon'[e] = IF e = o THEN p ELSE daemon[e]
  BY <1>1, <1>3
<1>5. \A e \in Daemons :
        Alive(e)' => /\ Alive(e)
                     /\ Persisted(daemon'[e].ring) = Persisted(daemon[e].ring)
                     /\ daemon'[e].nextId = daemon[e].nextId
  BY <1>2, <1>4 DEF Alive
<1>6. ~cleared => \A e \in Daemons : Meant(daemon'[e].inbox)
  <2> SUFFICES ASSUME ~cleared, NEW e \in Daemons
               PROVE  Meant(daemon'[e].inbox)
    OBVIOUS
  <2>1. Meant(daemon[e].inbox) /\ Meant(daemon[o].inbox) /\ MeansWell(m)
    BY <1>1 DEF HistInv, Meaning
  <2>2. daemon[o].inbox \in Seq(Letter)
    BY <1>1 DEF Process
  <2>3. Meant(p.inbox)
    BY <1>2, <2>1, <2>2, MeantAppend
  <2> QED
    BY <1>4, <2>1, <2>3
<1>7. panel'.phase = "absent" => Quiet
  BY DEF HistInv, FileHeld
<1>8. ~cleared => struck'.meant = struck'.hit
  BY DEF HistInv, Meaning
<1> QED
  BY <1>5, <1>6, <1>7, <1>8, KeepHist

LEMMA InitHist == Init => HistInv
<1> SUFFICES ASSUME Init
             PROVE  HistInv
  OBVIOUS
<1>1. /\ daemon = [d \in Daemons |-> Off] /\ file = <<>> /\ idOf = <<>>
      /\ panel = [phase |-> "closed", call |-> 0, op |-> "GetLive",
                  ring |-> <<>>, reply |-> {}]
      /\ struck = [meant |-> 0, hit |-> 0]
  BY DEF Init
<1>2. \A d \in Daemons : ~Alive(d) /\ daemon[d].inbox = <<>>
  BY <1>1 DEF Alive, Off
<1>3. FileHeld
  BY <1>1, <1>2 DEF FileHeld
<1>4. Counting
  BY <1>1, <1>2 DEF Counting
<1>5. Len(idOf) = 0 /\ DOMAIN file = {} /\ DOMAIN panel.ring = {}
  BY <1>1
<1>6. Meaning
  BY <1>1, <1>2, <1>5 DEF Meaning, Meant
<1> QED
  BY <1>3, <1>4, <1>6 DEF HistInv

(* What a step does to the history: nothing, all of it is cleared, or one  *)
(* notification is filed.                                                  *)
HistoryStep ==
  \/ UNCHANGED <<file, idOf>>
  \/ file' = <<>> /\ UNCHANGED idOf
  \/ /\ Len(idOf') = Len(idOf) + 1
     /\ \E r \in Filed :
          /\ r.serial = Len(idOf) + 1
          /\ \A i \in DOMAIN file : file[i].id # r.id
          /\ LET all == <<r>> \o file
             IN file' = SubSeq(all, 1, IF Len(all) < RingCap THEN Len(all)
                                       ELSE RingCap)

LEMMA StartHist ==
  ASSUME Sound, TellInv, HistInv, NEW d \in Daemons, Start(d)
  PROVE  HistInv' /\ HistoryStep
<1> DEFINE n == NextAfter(file)
           p == [phase |-> "loaded", ring |-> Loaded(file), nextId |-> n,
                 inbox |-> <<>>]
<1>1. /\ Quiet /\ panel.phase # "absent" /\ daemon' = [daemon EXCEPT ![d] = p]
      /\ UNCHANGED <<file, panel, idOf, struck, cleared>>
  BY DEF Start, notes, Sound
<1>2. file \in Seq(Saved) /\ DOMAIN file = 1..Len(file) /\ Len(file) \in Nat
  BY LenProperties DEF TellInv, Typed
<1>3. Len(idOf) \in Nat /\ Len(idOf) <= MaxNotes /\ MaxNotes \in Nat
      /\ Len(idOf) < IdMax
  BY FiledInNotes, SystemAssumption, RingAssumption DEF TellInv, Sound
<1>4. n \in 1..(Len(idOf) + 1) /\ \A i \in DOMAIN file : file[i].id < n
  <2>1. \A i \in 1..Len(file) : file[i].id <= Len(idOf)
    BY <1>2 DEF HistInv, Counting
  <2> QED
    BY <1>2, <1>3, <2>1, NextAfterValue
<1> HIDE DEF n
<1>5. \A e \in Daemons : daemon'[e] = IF e = d THEN p ELSE daemon[e]
  BY <1>1 DEF TellInv, Typed
<1>6. \A e \in Daemons : Alive(e)' <=> e = d
  BY <1>1, <1>5 DEF Quiet, Alive
<1>7. /\ daemon'[d].ring = Loaded(file) /\ daemon'[d].nextId = n
      /\ daemon'[d].inbox = <<>>
  BY <1>5
<1>8. FileHeld'
  <2>1. Persisted(Loaded(file)) = file
    BY <1>2, LoadedSeq
  <2> QED
    BY <1>1, <1>6, <1>7, <2>1 DEF FileHeld, HistInv
<1>9. Counting'
  BY <1>1, <1>4, <1>6, <1>7 DEF Counting, HistInv
<1>10. ~cleared' => Meaning'
  <2> SUFFICES ASSUME ~cleared
               PROVE  Meaning'
    BY <1>1
  <2>1. Meaning
    BY DEF HistInv
  <2>2. n = Len(idOf) + 1
    <3>1. CASE Len(idOf) = 0
      BY <1>4, <3>1
    <3>2. CASE Len(idOf) > 0
      <4>1. file # <<>> /\ file[1].id = Len(idOf)
        BY <2>1, <3>2 DEF Meaning
      <4>2. 1 \in DOMAIN file
        BY <1>2, <4>1, EmptySeq
      <4> QED
        BY <1>3, <1>4, <4>1, <4>2
    <3> QED
      BY <1>3, <3>1, <3>2
  <2>3. \A e \in Daemons : Meant(daemon'[e].inbox)
    BY <1>5, <1>7, <2>1 DEF Meaning, Meant
  <2> QED
    BY <1>1, <1>6, <1>7, <2>1, <2>2, <2>3 DEF Meaning
<1> QED
  BY <1>1, <1>8, <1>9, <1>10 DEF HistInv, HistoryStep

LEMMA TakeNameHist ==
  ASSUME TellInv, HistInv, NEW d \in Daemons, TakeName(d)
  PROVE  HistInv' /\ HistoryStep
<1>1. UNCHANGED <<file, panel, idOf, struck, cleared>>
  BY DEF TakeName, notes
<1>2. \A e \in Daemons : /\ daemon'[e].ring = daemon[e].ring
                         /\ daemon'[e].nextId = daemon[e].nextId
                         /\ daemon'[e].inbox = daemon[e].inbox
                         /\ Alive(e)' <=> Alive(e)
  BY TakeNameTell
<1>3. \A e \in Daemons :
        Alive(e)' => /\ Alive(e)
                     /\ Persisted(daemon'[e].ring) = Persisted(daemon[e].ring)
                     /\ daemon'[e].nextId = daemon[e].nextId
  BY <1>2
<1>4. ~cleared => \A e \in Daemons : Meant(daemon'[e].inbox)
  BY <1>2 DEF HistInv, Meaning
<1>5. HistInv'
  BY <1>1, <1>3, <1>4, KeepHist DEF HistInv, FileHeld, Meaning
<1> QED
  BY <1>1, <1>5 DEF HistoryStep

LEMMA CrashHist ==
  ASSUME TellInv, HistInv, NEW d \in Daemons, Crash(d)
  PROVE  HistInv' /\ HistoryStep
<1>1. /\ UNCHANGED <<file, panel, idOf, struck, cleared>>
      /\ daemon' = [daemon EXCEPT ![d] = Off]
  BY DEF Crash, notes
<1>2. \A e \in Daemons : daemon'[e] = IF e = d THEN Off ELSE daemon[e]
  BY <1>1 DEF TellInv, Typed
<1>3. /\ \A e \in Daemons : Alive(e)' => Alive(e) /\ daemon'[e] = daemon[e]
      /\ Off.inbox = <<>>
  BY <1>2 DEF Alive, Off
<1>4. ~cleared => \A e \in Daemons : Meant(daemon'[e].inbox)
  BY <1>2, <1>3 DEF HistInv, Meaning, Meant
<1>5. HistInv'
  BY <1>1, <1>3, <1>4, KeepHist DEF HistInv, FileHeld, Meaning
<1> QED
  BY <1>1, <1>5 DEF HistoryStep

(* A daemon at work: it holds what the file holds. *)
LEMMA RunningHolds ==
  ASSUME TellInv, HistInv, NEW d \in Daemons, Alive(d)
  PROVE  /\ daemon \in [Daemons -> Process] /\ daemon[d] \in Process
         /\ daemon[d].ring \in Seq(Entry) /\ daemon[d].nextId \in Nat
         /\ daemon[d].inbox \in Seq(Letter)
         /\ file = Persisted(daemon[d].ring)
         /\ \A e \in Daemons : Alive(e) => e = d
         /\ panel.phase # "absent"
BY DEF TellInv, Typed, Process, Single, HistInv, FileHeld, Quiet

(* Daemon d goes on as p, with what the file holds. *)
LEMMA MoveHist ==
  ASSUME TellInv, HistInv, NEW d \in Daemons, Alive(d), NEW p \in Process,
         p.phase = daemon[d].phase,
         daemon' = [daemon EXCEPT ![d] = p],
         \/ p.inbox = daemon[d].inbox
         \/ daemon[d].inbox # <<>> /\ p.inbox = Tail(daemon[d].inbox),
         Persisted(p.ring) = Persisted(daemon[d].ring),
         p.nextId = daemon[d].nextId,
         UNCHANGED <<file, idOf, cleared>>,
         panel'.phase # "absent", panel'.op = panel.op,
         panel'.ring = panel.ring,
         ~cleared => struck'.meant = struck'.hit
  PROVE  HistInv' /\ HistoryStep
<1>1. /\ daemon[d].inbox \in Seq(Letter)
      /\ \A e \in Daemons : daemon'[e] = IF e = d THEN p ELSE daemon[e]
  BY RunningHolds
<1>2. \A e \in Daemons :
        Alive(e)' => /\ Alive(e)
                     /\ Persisted(daemon'[e].ring) = Persisted(daemon[e].ring)
                     /\ daemon'[e].nextId = daemon[e].nextId
  BY <1>1 DEF Alive
<1>3. ~cleared => \A e \in Daemons : Meant(daemon'[e].inbox)
  <2> SUFFICES ASSUME ~cleared, NEW e \in Daemons
               PROVE  Meant(daemon'[e].inbox)
    OBVIOUS
  <2>1. Meant(daemon[e].inbox) /\ Meant(daemon[d].inbox)
    BY DEF HistInv, Meaning
  <2>2. Meant(p.inbox)
    BY <1>1, <2>1, MeantTail
  <2> QED
    BY <1>1, <2>1, <2>2
<1>4. ~cleared => \A i \in DOMAIN panel'.ring :
                    panel'.ring[i].id = panel'.ring[i].serial
  BY DEF HistInv, Meaning
<1>5. panel'.op # "DismissAll"
  BY DEF HistInv, FileHeld
<1>6. HistInv'
  BY <1>2, <1>3, <1>4, <1>5, KeepHist
<1> QED
  BY <1>6 DEF HistoryStep

LEMMA UnmovedHist ==
  ASSUME TellInv, HistInv, NEW d \in Daemons, daemon[d].inbox # <<>>, Unmoved(d),
         UNCHANGED <<idOf, cleared>>,
         NEW m, NEW reply \in SUBSET Nat, Answer(m, reply),
         ~cleared => struck'.meant = struck'.hit
  PROVE  HistInv' /\ HistoryStep
<1> DEFINE p == [daemon[d] EXCEPT !.inbox = Tail(daemon[d].inbox)]
<1>1. /\ Alive(d) /\ daemon[d] \in Process
      /\ Tail(daemon[d].inbox) \in Seq(Letter)
  BY ReceiverUp
<1>2. /\ p \in Process /\ p.phase = daemon[d].phase /\ p.ring = daemon[d].ring
      /\ p.inbox = Tail(daemon[d].inbox) /\ p.nextId = daemon[d].nextId
  BY <1>1 DEF Process
<1>3. daemon' = [daemon EXCEPT ![d] = p] /\ UNCHANGED file
  BY DEF Unmoved
<1> HIDE DEF p
<1>4. /\ panel'.phase # "absent" /\ panel'.op = panel.op
      /\ panel'.ring = panel.ring
  BY <1>1, RunningHolds, AnswerPanel DEF TellInv, Typed
<1> QED
  BY <1>1, <1>2, <1>3, <1>4, MoveHist

LEMMA RetiringHist ==
  ASSUME TellInv, HistInv, NEW d \in Daemons, daemon[d].inbox # <<>>,
         NEW I \in SUBSET DOMAIN daemon[d].ring, NEW why \in Reasons,
         Becomes(d, Retire(StoreOf(d), I, why), daemon[d].nextId),
         UNCHANGED <<idOf, cleared>>,
         NEW m, NEW reply \in SUBSET Nat, Answer(m, reply),
         ~cleared => struck'.meant = struck'.hit
  PROVE  HistInv' /\ HistoryStep
<1> DEFINE st == Retire(StoreOf(d), I, why)
           p == [daemon[d] EXCEPT !.ring = st.ring, !.nextId = daemon[d].nextId,
                                  !.inbox = Tail(daemon[d].inbox)]
<1>1. /\ Alive(d) /\ daemon[d] \in Process
      /\ Tail(daemon[d].inbox) \in Seq(Letter)
  BY ReceiverUp
<1>2. /\ st.ring \in Seq(Entry)
      /\ Persisted(st.ring) = Persisted(daemon[d].ring)
  BY RetiredStore
<1>3. daemon' = [daemon EXCEPT ![d] = p] /\ file' = Persisted(st.ring)
  BY DEF Becomes
<1> HIDE DEF st
<1>4. /\ p \in Process /\ p.phase = daemon[d].phase /\ p.ring = st.ring
      /\ p.inbox = Tail(daemon[d].inbox) /\ p.nextId = daemon[d].nextId
  BY <1>1, <1>2 DEF Process
<1> HIDE DEF p
<1>5. /\ panel'.phase # "absent" /\ panel'.op = panel.op
      /\ panel'.ring = panel.ring /\ file = Persisted(daemon[d].ring)
  BY <1>1, RunningHolds, AnswerPanel DEF TellInv, Typed
<1>6. UNCHANGED <<file, idOf, cleared>>
  BY <1>2, <1>3, <1>5
<1> QED
  BY <1>1, <1>2, <1>3, <1>4, <1>5, <1>6, MoveHist

LEMMA HandleCloseHist ==
  ASSUME TellInv, HistInv, NEW d \in Daemons, HandleClose(d)
  PROVE  HistInv' /\ HistoryStep
<1> DEFINE m == Head(daemon[d].inbox)
           I == Matching(daemon[d].ring, m.id)
           why == IF m.op = "Dismiss" THEN "dismissed" ELSE "bycall"
<1>1. /\ daemon[d].inbox # <<>> /\ UNCHANGED <<idOf, cleared>>
      /\ m.op \in {"CloseNotification", "Dismiss"}
      /\ Answer(m, {}) /\ {} \in SUBSET Nat
  BY DEF HandleClose, Receives
<1>2. why \in Reasons /\ I \in SUBSET DOMAIN daemon[d].ring
  BY DEF Reasons, Matching, LiveIn
<1>3. /\ Alive(d) /\ daemon[d].inbox \in Seq(Letter)
      /\ daemon[d].ring \in Seq(Entry)
  BY <1>1, ReceiverUp
<1>4. CASE I = {}
  <2>1. Unmoved(d) /\ UNCHANGED struck
    BY <1>4 DEF HandleClose
  <2>2. ~cleared => struck'.meant = struck'.hit
    BY <2>1 DEF HistInv, Meaning
  <2> QED
    BY <1>1, <2>1, <2>2, UnmovedHist
<1>5. CASE I # {}
  <2> DEFINE i == First(I)
  <2>1. /\ Becomes(d, Retire(StoreOf(d), {i}, why), daemon[d].nextId)
        /\ struck' = [meant |-> m.meant, hit |-> daemon[d].ring[i].serial]
    BY <1>5 DEF HandleClose
  <2>2. DOMAIN daemon[d].ring = 1..Len(daemon[d].ring)
        /\ Len(daemon[d].ring) \in Nat
    BY <1>3, LenProperties
  <2>3. I \in SUBSET Nat
    BY <1>2, <2>2
  <2>4. i \in I
    <3> HIDE DEF I
    <3> QED
      BY <1>5, <2>3, FirstIsIn
  <2>5. i \in 1..Len(daemon[d].ring) /\ daemon[d].ring[i].id = m.id
    BY <1>2, <2>2, <2>4 DEF Matching
  <2> HIDE DEF I, i, why
  <2>6. ~cleared => struck'.meant = struck'.hit
    <3> SUFFICES ASSUME ~cleared
                 PROVE  m.meant = daemon[d].ring[i].serial
      BY <2>1
    <3>1. Meaning /\ file = Persisted(daemon[d].ring)
      BY <1>3, RunningHolds DEF HistInv
    <3>2. m.id = m.meant
      <4>1. Meant(daemon[d].inbox)
        BY <3>1 DEF Meaning
      <4> QED
        BY <1>1, <1>3, <4>1, MeantTail DEF MeansWell
    <3>3. /\ Len(file) = Len(daemon[d].ring) /\ file \in Seq(Saved)
          /\ file[i].id = daemon[d].ring[i].id
          /\ file[i].serial = daemon[d].ring[i].serial
      BY <1>3, <2>5, <3>1, PersistedSeq
    <3>4. i \in DOMAIN file
      BY <2>5, <3>3, LenProperties
    <3>5. file[i].id = file[i].serial
      BY <3>1, <3>4 DEF Meaning
    <3> QED
      BY <2>5, <3>2, <3>3, <3>5
  <2>7. {i} \in SUBSET DOMAIN daemon[d].ring
    BY <2>2, <2>5
  <2> HIDE DEF m
  <2> QED
    BY <1>1, <1>2, <2>1, <2>6, <2>7, RetiringHist
<1> QED
  BY <1>4, <1>5

LEMMA HandleDismissAllHist ==
  ASSUME TellInv, HistInv, NEW d \in Daemons, HandleDismissAll(d)
  PROVE  HistInv' /\ HistoryStep
<1> DEFINE I == DOMAIN daemon[d].ring
           m == Head(daemon[d].inbox)
<1>1. /\ daemon[d].inbox # <<>> /\ UNCHANGED <<idOf, cleared, struck>>
      /\ Answer(m, {}) /\ {} \in SUBSET Nat
      /\ \/ Unmoved(d)
         \/ Becomes(d, Retire(StoreOf(d), I, "dismissed"), daemon[d].nextId)
  BY DEF HandleDismissAll, Receives
<1>2. I \in SUBSET DOMAIN daemon[d].ring /\ "dismissed" \in Reasons
  BY DEF Reasons
<1>3. ~cleared => struck'.meant = struck'.hit
  BY <1>1 DEF HistInv, Meaning
<1> HIDE DEF I, m
<1>4. CASE Unmoved(d)
  BY <1>1, <1>3, <1>4, UnmovedHist
<1>5. CASE Becomes(d, Retire(StoreOf(d), I, "dismissed"), daemon[d].nextId)
  BY <1>1, <1>2, <1>3, <1>5, RetiringHist
<1> QED
  BY <1>1, <1>4, <1>5

LEMMA HandleGetLiveHist ==
  ASSUME TellInv, HistInv, NEW d \in Daemons, HandleGetLive(d)
  PROVE  HistInv' /\ HistoryStep
<1> DEFINE reply == LiveIds(daemon[d].ring)
<1>1. /\ daemon[d].inbox # <<>> /\ UNCHANGED <<idOf, cleared, struck>>
      /\ Answer(Head(daemon[d].inbox), reply) /\ Unmoved(d)
  BY DEF HandleGetLive, Receives
<1>2. reply \in SUBSET Nat
  <2>1. daemon[d].ring \in Seq(Entry)
    BY <1>1, ReceiverUp
  <2>2. \A i \in LiveIn(daemon[d].ring) : daemon[d].ring[i] \in Entry
    BY <2>1, ElementOfSeq, LenProperties DEF LiveIn
  <2> QED
    BY <2>2 DEF LiveIds, Entry
<1>3. ~cleared => struck'.meant = struck'.hit
  BY <1>1 DEF HistInv, Meaning
<1> HIDE DEF reply
<1> QED
  BY <1>1, <1>2, <1>3, UnmovedHist

LEMMA ExpireHist ==
  ASSUME TellInv, HistInv, NEW d \in Daemons, NEW i \in DOMAIN daemon[d].ring,
         Expire(d, i)
  PROVE  HistInv' /\ HistoryStep
<1> DEFINE I == {i}
           st == Retire(StoreOf(d), I, "expired")
           p == [daemon[d] EXCEPT !.ring = st.ring]
<1>1. /\ daemon' = [daemon EXCEPT ![d] = p] /\ file' = Persisted(st.ring)
      /\ UNCHANGED <<panel, idOf, cleared, struck>>
  BY DEF Expire
<1>2. Alive(d)
  <2>1. daemon[d].ring # <<>>
    OBVIOUS
  <2> QED
    BY <2>1 DEF TellInv, Single
<1>3. I \in SUBSET DOMAIN daemon[d].ring /\ "expired" \in Reasons
  BY DEF Reasons
<1> HIDE DEF I
<1>4. st.ring \in Seq(Entry) /\ Persisted(st.ring) = Persisted(daemon[d].ring)
  <2>1. StoreOf(d).ring = daemon[d].ring /\ StoreOf(d).ring \in Seq(Entry)
    BY StoreParts
  <2> QED
    BY <2>1, RetireRing
<1> HIDE DEF st
<1>5. /\ daemon[d] \in Process /\ file = Persisted(daemon[d].ring)
      /\ panel.phase # "absent"
  BY <1>2, RunningHolds
<1>6. /\ p \in Process /\ p.phase = daemon[d].phase /\ p.ring = st.ring
      /\ p.inbox = daemon[d].inbox /\ p.nextId = daemon[d].nextId
  BY <1>4, <1>5 DEF Process
<1> HIDE DEF p
<1>7. UNCHANGED <<file, idOf, cleared>>
  BY <1>1, <1>4, <1>5
<1>8. /\ panel'.phase # "absent" /\ panel'.op = panel.op /\ panel'.ring = panel.ring
      /\ ~cleared => struck'.meant = struck'.hit
  BY <1>1, <1>5 DEF HistInv, Meaning
<1> QED
  BY <1>1, <1>2, <1>4, <1>6, <1>7, <1>8, MoveHist

LEMMA HandleClearHist ==
  ASSUME TellInv, HistInv, NEW d \in Daemons, HandleClear(d)
  PROVE  HistInv' /\ HistoryStep
<1>1. /\ daemon[d].inbox # <<>> /\ UNCHANGED idOf /\ cleared' = TRUE
      /\ Becomes(d, Emptied(d), daemon[d].nextId)
      /\ Answer(Head(daemon[d].inbox), {}) /\ {} \in SUBSET Nat
  BY DEF HandleClear, Receives, Emptied
<1>2. /\ Alive(d) /\ daemon \in [Daemons -> Process] /\ daemon[d] \in Process
      /\ \A e \in Daemons : Alive(e) => e = d
      /\ panel.phase # "absent"
  BY <1>1, ReceiverUp, RunningHolds
<1> DEFINE p == [daemon[d] EXCEPT !.ring = Emptied(d).ring,
                                  !.nextId = daemon[d].nextId,
                                  !.inbox = Tail(daemon[d].inbox)]
<1>3. daemon' = [daemon EXCEPT ![d] = p] /\ file' = Persisted(Emptied(d).ring)
  BY <1>1 DEF Becomes
<1>4. p.phase = daemon[d].phase /\ p.ring = <<>> /\ p.nextId = daemon[d].nextId
  BY <1>2, EmptiedStore DEF Process
<1> HIDE DEF p
<1>5. \A e \in Daemons : daemon'[e] = IF e = d THEN p ELSE daemon[e]
  BY <1>2, <1>3
<1>6. file' = <<>>
  BY <1>3, EmptiedStore DEF Persisted
<1>7. /\ panel'.phase # "absent" /\ panel'.op = panel.op
  BY <1>1, <1>2, AnswerPanel DEF TellInv, Typed
<1>8. \A e \in Daemons : Alive(e)' => e = d
  BY <1>2, <1>4, <1>5 DEF Alive
<1>9. Persisted(daemon'[d].ring) = <<>> /\ daemon'[d].nextId = daemon[d].nextId
  BY <1>4, <1>5 DEF Persisted
<1>10. FileHeld'
  BY <1>6, <1>7, <1>8, <1>9 DEF FileHeld, HistInv
<1>11. Counting'
  <2>1. DOMAIN file' = {}
    BY <1>6
  <2> QED
    BY <1>1, <1>2, <1>8, <1>9, <2>1 DEF Counting, HistInv
<1> QED
  BY <1>1, <1>6, <1>10, <1>11 DEF HistInv, HistoryStep

LEMMA AbsentHist ==
  ASSUME TellInv, HistInv, PanelAbsent
  PROVE  HistInv' /\ HistoryStep
<1>1. /\ panel.phase = "absent" /\ Quiet /\ panel.op # "DismissAll"
      /\ panel \in PanelState
  BY DEF PanelAbsent, HistInv, FileHeld, TellInv, Typed
<1>2. UNCHANGED <<daemon, idOf, struck>>
  BY DEF PanelAbsent
<1>3. \/ /\ panel' = [panel EXCEPT !.phase = "idle", !.ring = <<>>]
         /\ file' = <<>> /\ cleared' = TRUE
      \/ panel' = [panel EXCEPT !.phase = "idle"] /\ UNCHANGED <<file, cleared>>
  BY <1>1 DEF PanelAbsent
<1>4. CASE /\ panel' = [panel EXCEPT !.phase = "idle", !.ring = <<>>]
           /\ file' = <<>> /\ cleared' = TRUE
  <2>1. panel'.phase = "idle" /\ panel'.op = panel.op
    BY <1>1, <1>4 DEF PanelState
  <2>2. \A e \in Daemons : ~Alive(e)'
    BY <1>1, <1>2 DEF Quiet, Alive
  <2>3. FileHeld'
    BY <1>1, <2>1, <2>2 DEF FileHeld
  <2>4. DOMAIN file' = {}
    BY <1>4
  <2>5. Counting'
    BY <2>2, <2>4 DEF Counting
  <2> QED
    BY <1>2, <1>4, <2>3, <2>5 DEF HistInv, HistoryStep
<1>5. CASE panel' = [panel EXCEPT !.phase = "idle"] /\ UNCHANGED <<file, cleared>>
  <2>1. panel'.phase = "idle" /\ panel'.op = panel.op /\ panel'.ring = panel.ring
    BY <1>1, <1>5 DEF PanelState
  <2>2. \A e \in Daemons :
          Alive(e)' => /\ Alive(e)
                       /\ Persisted(daemon'[e].ring) = Persisted(daemon[e].ring)
                       /\ daemon'[e].nextId = daemon[e].nextId
    BY <1>2 DEF Alive
  <2>3. ~cleared => /\ \A e \in Daemons : Meant(daemon'[e].inbox)
                    /\ \A i \in DOMAIN panel'.ring :
                         panel'.ring[i].id = panel'.ring[i].serial
                    /\ struck'.meant = struck'.hit
    BY <1>2, <2>1 DEF HistInv, Meaning
  <2>4. HistInv'
    BY <1>1, <1>2, <1>5, <2>1, <2>2, <2>3, KeepHist
  <2> QED
    BY <1>2, <1>5, <2>4 DEF HistoryStep
<1> QED
  BY <1>3, <1>4, <1>5

LEMMA SavedEqual ==
  ASSUME NEW a \in Saved, NEW b \in Saved, a.id = b.id, a.serial = b.serial
  PROVE  a = b
<1>1. a = [id |-> a.id, serial |-> a.serial, critical |-> FALSE]
  BY DEF Saved
<1>2. b = [id |-> b.id, serial |-> b.serial, critical |-> FALSE]
  BY DEF Saved
<1> QED
  BY <1>1, <1>2

(* The record that HandleNotify adds to the file. *)
LEMMA HandleNotifyHist ==
  ASSUME Sound, TellInv, TellInv', HistInv, NEW d \in Daemons, HandleNotify(d)
  PROVE  HistInv' /\ HistoryStep
<1> DEFINE id == daemon[d].nextId
           n == Len(idOf) + 1
           g == Grown(d)
           rec == [id |-> id, serial |-> n, critical |-> FALSE]
           all == <<rec>> \o file
           cut == IF Len(all) < RingCap THEN Len(all) ELSE RingCap
           p == [daemon[d] EXCEPT !.ring = g.ring, !.nextId = NextId(id),
                                  !.inbox = Tail(daemon[d].inbox)]
<1>1. /\ daemon[d].inbox # <<>> /\ Becomes(d, g, NextId(id))
      /\ idOf' = Append(idOf, id) /\ UNCHANGED <<owner, panel, struck, cleared>>
  BY DEF HandleNotify, Receives, Grown, Shown
<1>2. /\ Alive(d) /\ daemon \in [Daemons -> Process] /\ daemon[d] \in Process
      /\ daemon[d].ring \in Seq(Entry) /\ daemon[d].inbox \in Seq(Letter)
      /\ Tail(daemon[d].inbox) \in Seq(Letter)
      /\ file = Persisted(daemon[d].ring) /\ panel.phase # "absent"
      /\ \A e \in Daemons : Alive(e) => e = d
  BY <1>1, ReceiverUp, RunningHolds
<1>3. /\ idOf \in Seq(Nat) /\ Len(idOf) \in Nat /\ id \in 1..(Len(idOf) + 1)
      /\ \A i \in DOMAIN file : file[i].id < id
  BY <1>2, LenProperties DEF TellInv, Typed, HistInv, Counting
<1>4. /\ Len(idOf') = n /\ idOf'[n] = id
      /\ \A s \in 1..Len(idOf) : idOf'[s] = idOf[s]
  BY <1>1, <1>3, AppendProperties
<1>5. n <= MaxNotes /\ MaxNotes \in Nat /\ IdMax \in Nat /\ MaxNotes < IdMax
  <2>1. Len(idOf') + Cardinality(Pending') <= MaxNotes
    BY DEF TellInv, Room
  <2>2. Cardinality(Pending') \in Nat
    BY PendingNext, PendingFinite
  <2>3. n \in Nat /\ MaxNotes \in Nat /\ IdMax \in Nat /\ MaxNotes < IdMax
    BY <1>3, SystemAssumption, RingAssumption DEF Sound
  <2> HIDE DEF n
  <2> QED
    BY <1>4, <2>1, <2>2, <2>3
<1>6. NextId(id) = id + 1
  BY <1>3, <1>5 DEF NextId
<1>7. rec \in Saved /\ rec \in Filed
  <2>1. id \in Nat /\ id \in 0..IdMax /\ n \in Nat /\ n \in Notes
    BY <1>3, <1>5 DEF Notes
  <2> HIDE DEF id, n
  <2> QED
    BY <2>1 DEF Saved, Filed
<1>8. /\ file \in Seq(Saved) /\ Len(file) = Len(daemon[d].ring)
      /\ Len(file) \in Nat /\ DOMAIN file = 1..Len(file)
      /\ \A i \in 1..Len(file) : /\ file[i] \in Saved /\ file[i].id \in Nat
                                 /\ file[i].id = daemon[d].ring[i].id
                                 /\ file[i].serial = daemon[d].ring[i].serial
  <2>1. /\ file \in Seq(Saved) /\ Len(file) = Len(daemon[d].ring)
        /\ Len(file) \in Nat /\ DOMAIN file = 1..Len(file)
        /\ \A i \in 1..Len(file) : /\ file[i].id = daemon[d].ring[i].id
                                   /\ file[i].serial = daemon[d].ring[i].serial
    BY <1>2, PersistedSeq, LenProperties
  <2>2. \A i \in 1..Len(file) : file[i] \in Saved
    BY <2>1, ElementOfSeq
  <2> QED
    BY <2>1, <2>2 DEF Saved
<1>9. /\ g.ring \in Seq(Entry)
      /\ Len(g.ring) = IF Len(file) + 1 < RingCap THEN Len(file) + 1 ELSE RingCap
      /\ \A i \in 1..Len(g.ring) :
           /\ g.ring[i].id = IF i = 1 THEN id ELSE daemon[d].ring[i - 1].id
           /\ g.ring[i].serial = IF i = 1 THEN n ELSE daemon[d].ring[i - 1].serial
  BY <1>8, GrownStore
<1>10. /\ all \in Seq(Saved) /\ Len(all) = Len(file) + 1 /\ all[1] = rec
       /\ \A i \in 1..Len(file) : all[i + 1] = file[i]
  <2>1. /\ <<rec>> \in Seq(Saved) /\ Len(<<rec>>) = 1 /\ <<rec>>[1] = rec
    <3> HIDE DEF rec
    <3> QED
      BY <1>7
  <2>2. /\ all \in Seq(Saved) /\ Len(all) = Len(<<rec>>) + Len(file)
        /\ \A i \in 1..(Len(<<rec>>) + Len(file)) :
             all[i] = IF i <= Len(<<rec>>) THEN <<rec>>[i]
                      ELSE file[i - Len(<<rec>>)]
    BY <1>8, <2>1, ConcatProperties
  <2> HIDE DEF all, rec
  <2>3. all[1] = rec
    BY <1>8, <2>1, <2>2
  <2>4. ASSUME NEW i \in 1..Len(file)
        PROVE  all[i + 1] = file[i]
    <3>1. i + 1 \in 1..(1 + Len(file)) /\ ~(i + 1 <= 1) /\ i + 1 - 1 = i
      BY <1>8
    <3> QED
      BY <2>1, <2>2, <3>1
  <2> QED
    BY <1>8, <2>1, <2>2, <2>3, <2>4
<1>11. file' = Persisted(g.ring) /\ daemon' = [daemon EXCEPT ![d] = p]
  BY <1>1 DEF Becomes
<1>12. /\ p.phase = daemon[d].phase /\ p.ring = g.ring /\ p.nextId = id + 1
       /\ p.inbox = Tail(daemon[d].inbox)
  BY <1>2, <1>6 DEF Process
<1> HIDE DEF p, g
<1>13. /\ file' \in Seq(Saved) /\ Len(file') = Len(g.ring)
       /\ Len(file') \in Nat \ {0} /\ DOMAIN file' = 1..Len(file')
       /\ \A i \in 1..Len(file') : /\ file'[i].id = g.ring[i].id
                                   /\ file'[i].serial = g.ring[i].serial
  <2>1. /\ file' \in Seq(Saved) /\ Len(file') = Len(g.ring)
        /\ \A i \in 1..Len(file') : /\ file'[i].id = g.ring[i].id
                                    /\ file'[i].serial = g.ring[i].serial
    BY <1>9, <1>11, PersistedSeq
  <2>2. Len(file') \in Nat \ {0}
    BY <1>8, <1>9, <2>1, RingAssumption
  <2> QED
    BY <2>1, <2>2, LenProperties
<1> HIDE DEF id, n
<1>14. /\ file'[1].id = id /\ file'[1].serial = n
       /\ \A i \in 1..Len(file') :
            i # 1 => /\ i - 1 \in 1..Len(file)
                     /\ file'[i].id = file[i - 1].id
                     /\ file'[i].serial = file[i - 1].serial
  <2>1. file'[1].id = id /\ file'[1].serial = n
    BY <1>9, <1>13
  <2>2. ASSUME NEW i \in 1..Len(file'), i # 1
        PROVE  /\ i - 1 \in 1..Len(file)
               /\ file'[i].id = file[i - 1].id
               /\ file'[i].serial = file[i - 1].serial
    <3>1. i - 1 \in 1..Len(file)
      BY <1>8, <1>9, <1>13, <2>2, RingAssumption
    <3>2. /\ file[i - 1].id = daemon[d].ring[i - 1].id
          /\ file[i - 1].serial = daemon[d].ring[i - 1].serial
      BY <1>8, <3>1
    <3> QED
      BY <1>9, <1>13, <2>2, <3>1, <3>2
  <2> QED
    BY <2>1, <2>2
<1>15. \A e \in Daemons : daemon'[e] = IF e = d THEN p ELSE daemon[e]
  BY <1>2, <1>11
<1>16. \A e \in Daemons : Alive(e)' => e = d
  BY <1>2, <1>15 DEF Alive
<1>17. FileHeld'
  <2>1. file' = Persisted(daemon'[d].ring)
    BY <1>11, <1>12, <1>15
  <2>2. panel'.phase # "absent" /\ panel'.op # "DismissAll"
    BY <1>1, <1>2 DEF HistInv, FileHeld
  <2> QED
    BY <1>16, <2>1, <2>2 DEF FileHeld
<1>18. id \in 1..n /\ n \in Nat /\ n = Len(idOf) + 1 /\ n \in Notes
  BY <1>3, <1>5 DEF n, Notes
<1>19. Counting'
  <2>1. ASSUME NEW i \in 1..Len(file')
        PROVE  /\ file'[i].id <= n /\ file'[i].serial \in Notes
               /\ file'[i].id < id + 1
    <3>1. CASE i = 1
      BY <1>14, <1>18, <3>1
    <3>2. CASE i # 1
      <4>1. /\ i - 1 \in DOMAIN file /\ file'[i].id = file[i - 1].id
            /\ file'[i].serial = file[i - 1].serial
        BY <1>8, <1>14, <3>2
      <4>2. file[i - 1].id \in Nat
        BY <1>8, <4>1
      <4>3. file[i - 1].id < id /\ file[i - 1].serial \in Notes
        BY <1>3, <4>1 DEF HistInv, Counting
      <4> QED
        BY <1>18, <4>1, <4>2, <4>3
    <3> QED
      BY <3>1, <3>2
  <2>2. daemon'[d].nextId \in 1..(n + 1)
    BY <1>12, <1>15, <1>18
  <2> QED
    BY <1>4, <1>12, <1>13, <1>15, <1>16, <2>1, <2>2 DEF Counting
<1>20. ~cleared' => Meaning'
  <2> SUFFICES ASSUME ~cleared
               PROVE  Meaning'
    BY <1>1
  <2>1. Meaning /\ id = n
    BY <1>2 DEF HistInv, Meaning, id, n
  <2>2. \A s \in 1..n : idOf'[s] = s
    BY <1>4, <1>18, <2>1 DEF Meaning
  <2>3. \A i \in 1..Len(file') : file'[i].id = file'[i].serial
    BY <1>8, <1>14, <2>1 DEF Meaning
  <2>4. \A e \in Daemons : Meant(daemon'[e].inbox)
    BY <1>1, <1>2, <1>12, <1>15, <2>1, MeantTail DEF Meaning
  <2>5. file' # <<>> /\ file'[1].id = n
    BY <1>13, <1>14, <2>1, EmptySeq
  <2>6. \A e \in Daemons : Alive(e)' => daemon'[e].nextId = n + 1
    BY <1>12, <1>15, <1>16, <2>1
  <2> QED
    BY <1>1, <1>4, <1>13, <2>1, <2>2, <2>3, <2>4, <2>5, <2>6 DEF Meaning
<1>21. HistoryStep
  <2>1. \A i \in DOMAIN file : file[i].id # rec.id
    <3>1. \A i \in DOMAIN file : file[i].id \in Nat /\ file[i].id < id
      BY <1>3, <1>8
    <3> QED
      BY <1>18, <3>1
  <2>2. file' = SubSeq(all, 1, cut)
    <3> HIDE DEF all, rec
    <3>1. cut = Len(file') /\ cut \in Nat \ {0} /\ cut <= Len(all)
      BY <1>8, <1>9, <1>10, <1>13, RingAssumption
    <3> HIDE DEF cut
    <3>2. \A i \in 1..cut : all[i] \in Saved
      BY <1>10, <3>1, ElementOfSeq
    <3>3. /\ SubSeq(all, 1, cut) \in Seq(Saved)
          /\ Len(SubSeq(all, 1, cut)) = cut
          /\ \A i \in 1..cut : SubSeq(all, 1, cut)[i] = all[i]
      <4>1. /\ SubSeq(all, 1, cut) \in Seq(Saved)
            /\ Len(SubSeq(all, 1, cut)) = IF 1 <= cut THEN cut - 1 + 1 ELSE 0
            /\ \A i \in 1..(cut - 1 + 1) :
                 SubSeq(all, 1, cut)[i] = all[1 + i - 1]
        BY <3>1, <3>2, SubSeqProperties
      <4> QED
        BY <3>1, <4>1
    <3>4. ASSUME NEW i \in 1..cut
          PROVE  file'[i] = all[i]
      <4>1. file'[i] \in Saved /\ all[i] \in Saved
        BY <1>13, <3>1, <3>2, ElementOfSeq
      <4>2. file'[i].id = all[i].id /\ file'[i].serial = all[i].serial
        <5>1. CASE i = 1
          BY <1>10, <1>14, <5>1 DEF rec
        <5>2. CASE i # 1
          <6>1. i - 1 \in 1..Len(file) /\ i - 1 + 1 = i
            BY <1>14, <3>1, <5>2
          <6>2. all[i] = file[i - 1]
            BY <1>10, <6>1
          <6> QED
            BY <1>14, <3>1, <5>2, <6>2
        <5> QED
          BY <5>1, <5>2
      <4> QED
        BY <4>1, <4>2, SavedEqual
    <3> QED
      BY <1>13, <3>1, <3>3, <3>4, SeqEqual
  <2>3. rec.serial = Len(idOf) + 1
    BY <1>18
  <2> HIDE DEF rec
  <2> QED
    BY <1>4, <1>7, <1>18, <2>1, <2>2, <2>3 DEF HistoryStep
<1> QED
  BY <1>17, <1>19, <1>20, <1>21 DEF HistInv

(* A call sent on the bus by a sender or by the command line.               *)
LEMMA SentHist ==
  ASSUME TellInv, HistInv, NEW m \in Letter, Open, daemon' = Routed(m),
         ~cleared => MeansWell(m), UNCHANGED <<owner, file, panel, notes, counts>>
  PROVE  HistInv' /\ HistoryStep
<1>1. UNCHANGED <<file, panel, idOf, struck, cleared>>
  BY DEF notes
<1>2. /\ panel'.op # "DismissAll"
      /\ ~cleared => \A i \in DOMAIN panel'.ring :
                       panel'.ring[i].id = panel'.ring[i].serial
  BY <1>1 DEF HistInv, FileHeld, Meaning
<1>3. HistInv'
  BY <1>1, <1>2, RouteHist
<1> QED
  BY <1>1, <1>3 DEF HistoryStep

LEMMA NotifyHist ==
  ASSUME TellInv, HistInv, Notify
  PROVE  HistInv' /\ HistoryStep
<1>1. Message("Notify") \in Letter /\ MeansWell(Message("Notify"))
  BY SystemAssumption DEF Message, Letter, Ops, MeansWell
<1>2. /\ Open /\ daemon' = Routed(Message("Notify"))
      /\ UNCHANGED <<owner, file, panel, notes, counts>>
  BY DEF Notify
<1> QED
  BY <1>1, <1>2, SentHist

(* A sender holds the id its notification was given: until the history is  *)
(* cleared, the notification's number.                                     *)
LEMMA CloseNotificationHist ==
  ASSUME TellInv, HistInv, NEW s \in DOMAIN idOf, CloseNotification(s)
  PROVE  HistInv' /\ HistoryStep
<1> DEFINE m == [Message("CloseNotification") EXCEPT !.id = idOf[s], !.meant = s]
<1>1. s \in 1..Len(idOf) /\ idOf[s] \in Nat /\ s \in Nat
  BY LenProperties DEF TellInv, Typed
<1>2. m \in Letter /\ m.id = idOf[s] /\ m.meant = s
  BY <1>1 DEF Message, Letter, Ops
<1>3. ~cleared => MeansWell(m)
  BY <1>1, <1>2 DEF HistInv, Meaning, MeansWell
<1>4. /\ Open /\ daemon' = Routed(m)
      /\ UNCHANGED <<owner, file, panel, notes, counts>>
  BY DEF CloseNotification
<1> HIDE DEF m
<1> QED
  BY <1>2, <1>3, <1>4, SentHist

LEMMA CommandClearHist ==
  ASSUME TellInv, HistInv, NEW op \in {"DismissAll", "ClearHistory"},
         CommandClear(op)
  PROVE  HistInv' /\ HistoryStep
<1>1. Message(op) \in Letter /\ MeansWell(Message(op))
  BY DEF Message, Letter, Ops, MeansWell
<1>2. /\ Open /\ daemon' = Routed(Message(op))
      /\ UNCHANGED <<owner, file, panel, notes, counts>>
  BY DEF CommandClear
<1> QED
  BY <1>1, <1>2, SentHist

(* A step of the panel's own that changes its phase and its copy.          *)
LEMMA PanelAsideHist ==
  ASSUME TellInv, HistInv, UNCHANGED <<daemon, file, notes>>,
         panel'.phase = "absent" => Quiet, panel'.op # "DismissAll",
         ~cleared => \A i \in DOMAIN panel'.ring :
                       panel'.ring[i].id = panel'.ring[i].serial
  PROVE  HistInv' /\ HistoryStep
<1>1. UNCHANGED <<daemon, file, idOf, struck, cleared>>
  BY DEF notes
<1>2. \A e \in Daemons :
        Alive(e)' => /\ Alive(e)
                     /\ Persisted(daemon'[e].ring) = Persisted(daemon[e].ring)
                     /\ daemon'[e].nextId = daemon[e].nextId
  BY <1>1 DEF Alive
<1>3. ~cleared => /\ \A e \in Daemons : Meant(daemon'[e].inbox)
                  /\ struck'.meant = struck'.hit
  BY <1>1 DEF HistInv, Meaning
<1>4. HistInv'
  BY <1>1, <1>2, <1>3, KeepHist
<1> QED
  BY <1>1, <1>4 DEF HistoryStep

(* The panel is told "no daemon" only when none runs.                      *)
LEMMA CallHist ==
  ASSUME Sound, TellInv, HistInv, NEW m \in Letter, m.op # "DismissAll",
         NEW r, ~cleared => MeansWell(m),
         ~cleared => \A i \in DOMAIN r : r[i].id = r[i].serial,
         Call(m, r), UNCHANGED <<owner, file, notes, counts>>
  PROVE  HistInv' /\ HistoryStep
<1>1. /\ panel'.op = m.op /\ panel'.ring = r
      /\ panel'.phase = IF owner = "none" THEN "absent" ELSE "waiting"
      /\ owner = "none" => Quiet
      /\ panel.call + 1 \in Nat
  BY PanelParts DEF Call, Sound, TellInv
<1>2. CASE owner = "none"
  <2>1. UNCHANGED daemon /\ Quiet
    BY <1>1, <1>2 DEF Call
  <2> QED
    BY <1>1, <2>1, PanelAsideHist
<1>3. CASE owner # "none"
  <2> DEFINE n == [m EXCEPT !.call = panel.call + 1]
  <2>1. Open /\ daemon' = Routed(n)
    BY <1>3 DEF Call
  <2>2. n \in Letter /\ n.op = m.op /\ n.id = m.id /\ n.meant = m.meant
    BY <1>1 DEF Letter
  <2>3. ~cleared => MeansWell(n)
    BY <2>2 DEF MeansWell
  <2>4. UNCHANGED <<file, idOf, struck, cleared>> /\ panel'.phase # "absent"
    BY <1>1, <1>3 DEF notes
  <2> HIDE DEF n
  <2>5. HistInv'
    BY <1>1, <2>1, <2>2, <2>3, <2>4, RouteHist
  <2> QED
    BY <2>4, <2>5 DEF HistoryStep
<1> QED
  BY <1>2, <1>3

LEMMA PanelHist ==
  ASSUME Sound, TellInv, HistInv,
         \/ PanelOpen \/ PanelHandled \/ PanelFailed \/ PanelClose
         \/ \E i \in DOMAIN panel.ring : PanelDismiss(i)
         \/ \E op \in {"DismissAll", "ClearHistory"} : PanelMutate(op)
  PROVE  HistInv' /\ HistoryStep
<1>1. /\ panel \in PanelState /\ panel.ring \in Seq(Entry)
      /\ panel.reply \in SUBSET Nat /\ file \in Seq(Saved)
      /\ DOMAIN panel.ring = 1..Len(panel.ring)
      /\ DOMAIN file = 1..Len(file) /\ panel.op # "DismissAll"
      /\ ~cleared => \A i \in DOMAIN panel.ring :
                       panel.ring[i].id = panel.ring[i].serial
  BY PanelParts, LenProperties DEF TellInv, Typed, HistInv, FileHeld, Meaning
<1>2. ~cleared => \A i \in DOMAIN Loaded(file) :
                    Loaded(file)[i].id = Loaded(file)[i].serial
  <2>1. /\ Loaded(file) \in Seq(Entry) /\ Len(Loaded(file)) = Len(file)
        /\ \A i \in 1..Len(file) : /\ Loaded(file)[i].id = file[i].id
                                    /\ Loaded(file)[i].serial = file[i].serial
    BY <1>1, LoadedSeq
  <2>2. DOMAIN Loaded(file) = 1..Len(file)
    BY <2>1, LenProperties
  <2> QED
    BY <1>1, <2>1, <2>2 DEF HistInv, Meaning
<1>3. Message("GetLive").op # "DismissAll" /\ MeansWell(Message("GetLive"))
  BY DEF Message, MeansWell
<1>4. CASE PanelOpen
  <2>1. Call(Message("GetLive"), Loaded(file)) /\ UNCHANGED <<owner, file, notes, counts>>
    BY <1>4 DEF PanelOpen
  <2> QED
    BY <1>2, <1>3, <2>1, GetLiveLetter, CallHist
<1>5. CASE PanelHandled
  <2>1. CASE panel.op = "GetLive"
    <3> DEFINE q == Overlay(panel.ring, panel.reply)
    <3>1. panel' = [panel EXCEPT !.phase = "idle", !.ring = q]
          /\ UNCHANGED <<daemon, file, notes>>
      BY <1>5, <2>1 DEF PanelHandled
    <3>2. /\ q \in Seq(Entry) /\ Len(q) = Len(panel.ring)
          /\ \A i \in 1..Len(panel.ring) : /\ q[i].id = panel.ring[i].id
                                           /\ q[i].serial = panel.ring[i].serial
      BY <1>1, OverlayRing
    <3> HIDE DEF q
    <3>3. panel'.phase = "idle" /\ panel'.op = panel.op /\ panel'.ring = q
      BY <1>1, <3>1 DEF PanelState
    <3>4. DOMAIN q = 1..Len(panel.ring)
      BY <3>2, LenProperties
    <3>5. ~cleared => \A i \in DOMAIN q : q[i].id = q[i].serial
      BY <1>1, <3>2, <3>4
    <3> QED
      BY <1>1, <3>1, <3>3, <3>5, PanelAsideHist
  <2>2. CASE panel.op # "GetLive"
    <3>1. Call(Message("GetLive"), Loaded(file)) /\ UNCHANGED <<owner, file, notes, counts>>
      BY <1>5, <2>2 DEF PanelHandled
    <3> QED
      BY <1>2, <1>3, <3>1, GetLiveLetter, CallHist
  <2> QED
    BY <2>1, <2>2
<1>6. CASE PanelFailed
  <2>1. /\ panel' = [panel EXCEPT !.phase = "idle"]
        /\ UNCHANGED <<daemon, file, notes>>
    BY <1>6 DEF PanelFailed
  <2>2. panel'.phase = "idle" /\ panel'.op = panel.op /\ panel'.ring = panel.ring
    BY <1>1, <2>1 DEF PanelState
  <2> QED
    BY <1>1, <2>1, <2>2, PanelAsideHist
<1>7. CASE PanelClose
  <2>1. /\ panel' = [panel EXCEPT !.phase = "closed", !.ring = <<>>]
        /\ UNCHANGED <<daemon, file, notes>>
    BY <1>7 DEF PanelClose
  <2>2. panel'.phase = "closed" /\ panel'.op = panel.op /\ DOMAIN panel'.ring = {}
    BY <1>1, <2>1 DEF PanelState
  <2> QED
    BY <1>1, <2>1, <2>2, PanelAsideHist
<1>8. ASSUME NEW i \in DOMAIN panel.ring, PanelDismiss(i)
      PROVE  HistInv' /\ HistoryStep
  <2> DEFINE m == [Message("Dismiss") EXCEPT !.id = panel.ring[i].id,
                                            !.meant = panel.ring[i].serial]
  <2>1. panel.ring[i] \in Entry
    BY <1>1
  <2>2. /\ m \in Letter /\ m.op # "DismissAll"
        /\ m.id = panel.ring[i].id /\ m.meant = panel.ring[i].serial
    BY <2>1 DEF Message, Letter, Ops, Entry
  <2>3. ~cleared => MeansWell(m)
    BY <1>1, <2>2 DEF MeansWell
  <2>4. Call(m, panel.ring) /\ UNCHANGED <<owner, file, notes, counts>>
    BY <1>8, Zenon DEF PanelDismiss
  <2> HIDE DEF m
  <2> QED
    BY <1>1, <2>2, <2>3, <2>4, CallHist
<1>9. ASSUME NEW op \in {"DismissAll", "ClearHistory"}, PanelMutate(op)
      PROVE  HistInv' /\ HistoryStep
  <2>1. op # "DismissAll"
    BY <1>9 DEF PanelMutate, Sound
  <2>2. /\ Message(op) \in Letter /\ Message(op).op # "DismissAll"
        /\ MeansWell(Message(op))
    BY <2>1 DEF Message, Letter, Ops, MeansWell
  <2>3. Call(Message(op), panel.ring) /\ UNCHANGED <<owner, file, notes, counts>>
    BY <1>9 DEF PanelMutate
  <2> QED
    BY <1>1, <2>2, <2>3, CallHist
<1> QED
  BY <1>4, <1>5, <1>6, <1>7, <1>8, <1>9

LEMMA NextHist ==
  ASSUME Sound, TellInv, HistInv, [Next]_vars
  PROVE  HistInv' /\ HistoryStep
<1>1. TellInv'
  BY NextTell DEF Sound
<1>2. CASE UNCHANGED vars
  <2>1. UNCHANGED <<daemon, file, notes, panel>>
    BY <1>2 DEF vars
  <2>2. /\ panel'.phase = "absent" => Quiet
        /\ panel'.op # "DismissAll"
        /\ ~cleared => \A i \in DOMAIN panel'.ring :
                         panel'.ring[i].id = panel'.ring[i].serial
    BY <2>1 DEF HistInv, FileHeld, Meaning
  <2> QED
    BY <2>1, <2>2, PanelAsideHist
<1>3. ASSUME NEW d \in Daemons,
             \/ Start(d) \/ TakeName(d) \/ Crash(d)
             \/ HandleNotify(d) \/ HandleClose(d) \/ HandleDismissAll(d)
             \/ HandleClear(d) \/ HandleGetLive(d) \/ HandleNameLost(d)
             \/ \E i \in DOMAIN daemon[d].ring : Expire(d, i)
      PROVE  HistInv' /\ HistoryStep
  BY <1>1, <1>3, StartHist, TakeNameHist, CrashHist, HandleNotifyHist,
     HandleCloseHist, HandleDismissAllHist, HandleClearHist, HandleGetLiveHist,
     NoNameLost, ExpireHist
<1>4. CASE Notify
  BY <1>4, NotifyHist
<1>5. ASSUME NEW s \in DOMAIN idOf, CloseNotification(s)
      PROVE  HistInv' /\ HistoryStep
  BY <1>5, CloseNotificationHist
<1>6. ASSUME NEW op \in {"DismissAll", "ClearHistory"}, CommandClear(op)
      PROVE  HistInv' /\ HistoryStep
  BY <1>6, CommandClearHist
<1>7. CASE \/ PanelOpen \/ PanelHandled \/ PanelFailed \/ PanelClose
           \/ \E i \in DOMAIN panel.ring : PanelDismiss(i)
           \/ \E op \in {"DismissAll", "ClearHistory"} : PanelMutate(op)
  BY <1>7, PanelHist
<1>8. CASE PanelAbsent
  BY <1>8, AbsentHist
<1> QED
  BY <1>2, <1>3, <1>4, <1>5, <1>6, <1>7, <1>8 DEF Next

LEMMA SpecHist ==
  ASSUME Sound
  PROVE  Spec => [](TellInv /\ HistInv)
<1>1. Init => TellInv /\ HistInv
  BY InitTell, InitHist
<1>2. TellInv /\ HistInv /\ [Next]_vars => (TellInv /\ HistInv)'
  <2>1. TellInv /\ [Next]_vars => TellInv'
    BY NextTell DEF Sound
  <2> QED
    BY <2>1, NextHist
<1> QED
  BY <1>1, <1>2, PTL DEF Spec

(* Until the history is cleared, a close by id hits the notification it    *)
(* was meant for or nothing: a sender's, however late it arrives, and one  *)
(* the panel makes from a copy of the ring it read long before, over       *)
(* crashes and restarts of the daemon (notify-store.c:341-343,             *)
(* notify-service.c:624-626).                                              *)
THEOREM CloseHitsItsOwn ==
  ASSUME Sound
  PROVE  Spec => []ClosesWhatWasMeant
<1>1. HistInv => ClosesWhatWasMeant
  BY DEF HistInv, Meaning, ClosesWhatWasMeant
<1> QED
  BY <1>1, SpecHist, PTL

(* The daemons that come and go, the file they leave to one another, the   *)
(* panel and the senders implement one list that loses nothing, brings     *)
(* nothing back and gives no id to two that are listed                     *)
(* (include/notify-store.h:78, notify-service.c:744-758).                  *)
THEOREM HistoryImplemented ==
  ASSUME Sound
  PROVE  Spec => HistorySpec
<1>1. Init => History!Init
  BY EmptySeq DEF Init, History!Init
<1>2. TellInv /\ HistInv /\ [Next]_vars => [History!Next]_<<file, Len(idOf)>>
  <2> SUFFICES ASSUME TellInv, HistInv, [Next]_vars
               PROVE  [History!Next]_<<file, Len(idOf)>>
    OBVIOUS
  <2>1. HistoryStep
    BY NextHist
  <2>2. CASE UNCHANGED <<file, idOf>>
    BY <2>2
  <2>3. CASE file' = <<>> /\ UNCHANGED idOf
    BY <2>3 DEF History!Next, History!Clear
  <2>4. ASSUME NEW r \in Filed, Len(idOf') = Len(idOf) + 1,
               r.serial = Len(idOf) + 1,
               \A i \in DOMAIN file : file[i].id # r.id,
               LET all == <<r>> \o file
               IN file' = SubSeq(all, 1, IF Len(all) < RingCap THEN Len(all)
                                         ELSE RingCap)
        PROVE  [History!Next]_<<file, Len(idOf)>>
    <3>1. History!File(r)
      BY <2>4 DEF History!File, History!Newest
    <3> QED
      BY <3>1 DEF History!Next
  <2> QED
    BY <2>1, <2>2, <2>3, <2>4 DEF HistoryStep
<1> QED
  BY <1>1, <1>2, SpecHist, PTL DEF Spec, HistorySpec, History!Spec
================================================================================
