------------------------------ MODULE NotifyRing ------------------------------
(***************************************************************************)
(* The notification ring of source/notify-store.c as operators on values:  *)
(* what each helper of the store does to the ring, to the GLib timeout     *)
(* sources it holds and to the D-Bus signals it emits.  The state machines *)
(* that own a ring (NotifyStore: one daemon; NotifySystem: the processes   *)
(* that share the history file) are built from these operators.            *)
(*                                                                         *)
(* A ring is a sequence of entries, newest first (ring[1] is index 0 of    *)
(* the GPtrArray).  An entry carries                                       *)
(*   id       the guint32 handed to the sender                             *)
(*   serial   which SofiNotification this is: the identity of the heap     *)
(*            object, 0 for a record read back from the history file       *)
(*   live, timer, critical, actions   the fields of the same meaning;      *)
(*            timer says whether n->timer holds a source id                *)
(*                                                                         *)
(* A store value st has the fields                                         *)
(*   ring     the ring                                                     *)
(*   armed    for each serial, the number of expiry sources in the main    *)
(*            loop whose user data is that entry                           *)
(*   signals  for each serial, the signals emitted about it, in order      *)
(***************************************************************************)
EXTENDS Integers, Sequences, FiniteSets

CONSTANTS LiveMax,   \* SOFI_NOTIFY_LIVE_MAX, 20 in the code
          RingCap,   \* SOFI_NOTIFY_RING_CAPACITY, 200 in the code
          IdMax      \* the largest guint32, 2^32 - 1 in the code

ASSUME RingAssumption ==
  /\ LiveMax \in Nat \ {0}
  /\ RingCap \in Nat \ {0}
  /\ IdMax \in Nat \ {0}
  /\ RingCap < IdMax

(* Reason codes of NotificationClosed that the code uses. *)
Reasons == {"expired", "dismissed", "bycall"}

LiveIn(r) == {i \in DOMAIN r : r[i].live}

Serials(r) == {r[i].serial : i \in DOMAIN r}

First(I) == CHOOSE i \in I : \A j \in I : i <= j

(* Mutant of Matching: find_live() without its test of n->live. *)
MatchingAny(r, id) == IF id = 0 THEN {} ELSE {i \in DOMAIN r : r[i].id = id}

(* find_live(): the indices a lookup of id may stop at; it takes the first. *)
Matching(r, id) == IF id = 0 THEN {} ELSE {i \in LiveIn(r) : r[i].id = id}

(* Mutant of NextId: the counter sticks at its end instead of wrapping. *)
NextIdClamped(n) == IF n = IdMax THEN IdMax ELSE n + 1

(* store.next_id++ on a guint32, with 0 skipped. *)
NextId(n) == IF n = IdMax THEN 1 ELSE n + 1

(* g_source_remove() of the sources that the entries I of r hold. *)
Cancel(armed, r, I) ==
  LET held == {r[i].serial : i \in {j \in I : r[j].timer}}
  IN [s \in DOMAIN armed |-> IF s \in held THEN armed[s] - 1 ELSE armed[s]]

(* The signal `what` emitted about each serial of S. *)
Emit(signals, S, what) ==
  [s \in DOMAIN signals |->
     IF s \in S THEN Append(signals[s], what) ELSE signals[s]]

(* retire() called on every entry of I: a no-op on those not live. *)
Retire(st, I, why) ==
  LET R == {i \in I : st.ring[i].live}
  IN [ring    |-> [i \in DOMAIN st.ring |->
                     IF i \in R
                     THEN [st.ring[i] EXCEPT !.live = FALSE, !.timer = FALSE]
                     ELSE st.ring[i]],
      armed   |-> Cancel(st.armed, st.ring, R),
      signals |-> Emit(st.signals, {st.ring[i].serial : i \in R}, why)]

(* The entries past n are removed from the array; notification_free()      *)
(* takes away the sources they still hold.                                 *)
Truncate(st, n) ==
  LET gone == {i \in DOMAIN st.ring : i > n}
  IN [ring    |-> IF gone = {} THEN st.ring ELSE SubSeq(st.ring, 1, n),
      armed   |-> Cancel(st.armed, st.ring, gone),
      signals |-> st.signals]

(* Live entries that have at least LiveMax newer live ones. *)
OverLiveCap(r) ==
  {i \in LiveIn(r) : Cardinality({j \in LiveIn(r) : j <= i}) > LiveMax}

(* enforce_caps(), first the live cap and then the ring's own. *)
CapLive(st) == Retire(st, OverLiveCap(st.ring), "expired")

(* Mutant of CapRing: the tail is freed without being retired. *)
CapRingSilent(st) == Truncate(st, RingCap)

CapRing(st) ==
  Truncate(Retire(st, {i \in DOMAIN st.ring : i > RingCap}, "expired"), RingCap)

(* Mutant of EnforceCaps: only the ring's own cap is enforced. *)
EnforceCapsRing(st) == CapRing(st)

EnforceCaps(st) == CapRing(CapLive(st))

(* n->timer set or cleared. *)
Timed(e, on) == [e EXCEPT !.timer = on]

(* The fields sofi_notify_store_add() writes, those of a sender's record. *)
Filled(e, critical, actions) ==
  [e EXCEPT !.critical = critical, !.actions = actions, !.live = TRUE]

(* g_timeout_add() for entry s. *)
Started(armed, s) == [armed EXCEPT ![s] = @ + 1]

(* Mutant of Arm: the timer already running is not removed first. *)
ArmStacked(st, i, timeout) ==
  LET arms == ~st.ring[i].critical /\ timeout # 0
  IN [ring    |-> [st.ring EXCEPT ![i] = Timed(@, arms)],
      armed   |-> IF arms THEN Started(st.armed, st.ring[i].serial)
                          ELSE st.armed,
      signals |-> st.signals]

(* arm_timer() on the entry at i.  timeout is the sign of expire_timeout:  *)
(* 0 never, -1 the server default, 1 the sender's own number.              *)
Arm(st, i, timeout) ==
  LET arms == ~st.ring[i].critical /\ timeout # 0
      left == Cancel(st.armed, st.ring, {i})
  IN [ring    |-> [st.ring EXCEPT ![i] = Timed(@, arms)],
      armed   |-> IF arms THEN Started(left, st.ring[i].serial) ELSE left,
      signals |-> st.signals]

(* What sofi_notify_store_add() writes into the entry at i. *)
Fill(st, i, critical, actions) ==
  [ring    |-> [st.ring EXCEPT ![i] = Filled(@, critical, actions)],
   armed   |-> st.armed,
   signals |-> st.signals]

Blank(id, serial) ==
  [id |-> id, serial |-> serial, live |-> FALSE, timer |-> FALSE,
   critical |-> FALSE, actions |-> 0]

Insert(st, e) ==
  [ring |-> <<e>> \o st.ring, armed |-> st.armed, signals |-> st.signals]

(* What sofi_notify_store_save() writes: neither live nor actions. *)
Record(e) == [id |-> e.id, serial |-> e.serial, critical |-> e.critical]

Persisted(r) == [i \in DOMAIN r |-> Record(r[i])]
===============================================================================
