------------------------------ MODULE NotifyStore ------------------------------
(***************************************************************************)
(* One notification daemon's store over one process lifetime: the ring of  *)
(* source/notify-store.c, driven by the D-Bus handlers of                  *)
(* source/notify-service.c and by the expiry sources of the GLib main      *)
(* loop.  The daemon is single threaded, so a handler or a timeout         *)
(* callback, with the save it ends in, is one step.                        *)
(***************************************************************************)
EXTENDS NotifyRing

CONSTANTS MaxNew,       \* bound: new entries in the lifetime
          MaxReplaces,  \* bound: in-place updates in the lifetime
          MaxActions,   \* bound: action pairs of an entry
          Notices,      \* what senders ask for: records [critical, timeout, actions]
          Loads,        \* what sofi_notify_store_load() may leave at start:
                        \* records [ring, nextId]
          SaveOutcomes  \* whether g_key_file_save_to_file() may succeed, fail

Serial == 1..MaxNew

Entry == [id : 1..IdMax, serial : 0..MaxNew, live : BOOLEAN, timer : BOOLEAN,
          critical : BOOLEAN, actions : Nat]

(* A loaded ring is at most RingCap retired records; its ids count down    *)
(* from the counter, as they do in the file of a daemon that has not       *)
(* wrapped its counter and shared the file with no other.                  *)
LoadOK(l) ==
  /\ l.ring \in Seq(Entry)
  /\ Len(l.ring) <= RingCap
  /\ l.nextId \in (Len(l.ring) + 1)..IdMax
  /\ \A i \in DOMAIN l.ring :
       /\ l.ring[i].serial = 0
       /\ ~l.ring[i].live /\ ~l.ring[i].timer
       /\ l.ring[i].id = l.nextId - i

ASSUME StoreAssumption ==
  /\ MaxNew \in Nat /\ MaxReplaces \in Nat /\ MaxActions \in Nat
  /\ Notices \subseteq [critical : BOOLEAN, timeout : {-1, 0, 1}, actions : 0..MaxActions]
  /\ SaveOutcomes \subseteq BOOLEAN
  /\ \A l \in Loads : LoadOK(l)

VARIABLES ring,      \* store.ring
          nextId,    \* store.next_id
          armed,     \* expiry sources in the main loop, per entry
          signals,   \* D-Bus signals emitted, per entry
          saved,     \* what the history file holds
          stale,     \* the last save failed
          added,     \* entries created so far (history)
          replaced,  \* in-place updates so far (history)
          mortal,    \* the sender's last word: may the entry expire (history)
          idOf       \* the id handed out for each entry (history)

vars == <<ring, nextId, armed, signals, saved, stale, added, replaced, mortal,
          idOf>>

history == <<added, replaced, mortal, idOf>>

Store == [ring |-> ring, armed |-> armed, signals |-> signals]

Init ==
  /\ \E l \in Loads : ring = l.ring /\ nextId = l.nextId
  /\ armed = [s \in Serial |-> 0]
  /\ signals = [s \in Serial |-> <<>>]
  /\ saved = Persisted(ring)
  /\ stale = FALSE
  /\ added = 0 /\ replaced = 0
  /\ mortal = [s \in Serial |-> FALSE]
  /\ idOf = [s \in Serial |-> 0]

(* Mutant of Become: the file is written before the change. *)
BecomeSavedFirst(st) ==
  /\ ring' = st.ring /\ armed' = st.armed /\ signals' = st.signals
  /\ \E ok \in SaveOutcomes :
       /\ saved' = IF ok THEN Persisted(ring) ELSE saved
       /\ stale' = ~ok

(* The store becomes st, and notify_changed() writes the ring out. *)
Become(st) ==
  /\ ring' = st.ring /\ armed' = st.armed /\ signals' = st.signals
  /\ \E ok \in SaveOutcomes :
       /\ saved' = IF ok THEN Persisted(st.ring) ELSE saved
       /\ stale' = ~ok

(* sofi_notify_store_add() once the entry exists at index i of st. *)
Finish(st, i, critical, timeout, actions) ==
  EnforceCaps(Arm(Fill(st, i, critical, actions), i, timeout))

(* Notify, no live entry carrying replaces_id: a new entry at the head. *)
NotifyNew(critical, timeout, actions) ==
  /\ added < MaxNew
  /\ LET s == added + 1
     IN /\ Become(Finish(Insert(Store, Blank(nextId, s)), 1,
                         critical, timeout, actions))
        /\ mortal' = [mortal EXCEPT ![s] = ~critical /\ timeout # 0]
        /\ idOf' = [idOf EXCEPT ![s] = nextId]
        /\ added' = s
  /\ nextId' = NextId(nextId)
  /\ UNCHANGED replaced

(* Notify with replaces_id naming a live entry: updated where it stands. *)
NotifyReplace(id, critical, timeout, actions) ==
  /\ replaced < MaxReplaces
  /\ Matching(ring, id) # {}
  /\ LET i == First(Matching(ring, id))
     IN /\ Become(Finish(Store, i, critical, timeout, actions))
        /\ mortal' = [mortal EXCEPT ![ring[i].serial] =
                        ~critical /\ timeout # 0]
  /\ replaced' = replaced + 1
  /\ UNCHANGED <<nextId, added, idOf>>

(* sofi_notify_store_close(): CloseNotification gives "bycall", the        *)
(* daemon's Dismiss and the banner give "dismissed".                       *)
Close(id, why) ==
  /\ Matching(ring, id) # {}
  /\ Become(Retire(Store, {First(Matching(ring, id))}, why))
  /\ UNCHANGED <<nextId, history>>

(* sofi_notify_service_invoke_action(): the signal first, then the close.  *)
(* An index past the actions returns with nothing done.                    *)
InvokeAction(id, index) ==
  /\ Matching(ring, id) # {}
  /\ LET i == First(Matching(ring, id))
         told == [ring |-> ring, armed |-> armed,
                  signals |-> Emit(signals, {ring[i].serial}, "invoked")]
     IN /\ index < ring[i].actions
        /\ Become(Retire(told, {i}, "dismissed"))
  /\ UNCHANGED <<nextId, history>>

(* DismissAll; nothing is saved or announced when nothing was live. *)
CloseAll ==
  /\ LiveIn(ring) # {}
  /\ Become(Retire(Store, DOMAIN ring, "dismissed"))
  /\ UNCHANGED <<nextId, history>>

(* ClearHistory: the ring is emptied, next_id deliberately kept. *)
ClearHistory ==
  /\ Become(Truncate(Retire(Store, DOMAIN ring, "dismissed"), 0))
  /\ UNCHANGED <<nextId, history>>

(* Mutant of Expire: expire_cb() lets retire() remove its own source too. *)
ExpireTwice(s) ==
  /\ armed[s] > 0
  /\ \E i \in DOMAIN ring :
       /\ ring[i].serial = s
       /\ Become(Retire([Store EXCEPT !.armed[s] = @ - 1], {i}, "expired"))
  /\ UNCHANGED <<nextId, history>>

(* expire_cb() for the source of entry s: the handle is forgotten first,   *)
(* the main loop drops the source when the callback returns.               *)
Expire(s) ==
  /\ armed[s] > 0
  /\ \E i \in DOMAIN ring :
       /\ ring[i].serial = s
       /\ Become(Retire([ring    |-> [ring EXCEPT ![i] = Timed(@, FALSE)],
                         armed   |-> [armed EXCEPT ![s] = @ - 1],
                         signals |-> signals], {i}, "expired"))
  /\ UNCHANGED <<nextId, history>>

Next ==
  \/ \E n \in Notices :
       \/ NotifyNew(n.critical, n.timeout, n.actions)
       \/ \E id \in 1..IdMax : NotifyReplace(id, n.critical, n.timeout, n.actions)
  \/ \E id \in 1..IdMax :
       \/ \E why \in {"dismissed", "bycall"} : Close(id, why)
       \/ \E index \in 0..MaxActions : InvokeAction(id, index)
  \/ CloseAll
  \/ ClearHistory
  \/ \E s \in Serial : Expire(s)

Spec == Init /\ [][Next]_vars
--------------------------------------------------------------------------------
Live(s) == \E i \in DOMAIN ring : ring[i].serial = s /\ ring[i].live

ClosedTraces == {<<r>> : r \in Reasons} \cup {<<"invoked", "dismissed">>}

TypeOK ==
  /\ ring \in Seq(Entry)
  /\ nextId \in 1..IdMax
  /\ armed \in [Serial -> Nat]
  /\ signals \in [Serial -> {<<>>} \cup ClosedTraces]
  /\ stale \in BOOLEAN
  /\ added \in 0..MaxNew
  /\ replaced \in 0..MaxReplaces
  /\ mortal \in [Serial -> BOOLEAN]
  /\ idOf \in [Serial -> 0..IdMax]

(* A sender hears NotificationClosed exactly once for each notification:   *)
(* never while the entry is live, and always once it is not -- whether it  *)
(* expired, was closed, was pushed past a cap, or was cleared -- and       *)
(* ActionInvoked, if at all, before it.  (retire, the eviction loop of     *)
(* enforce_caps and clear_history all have to agree on this.)              *)
ClosedExactlyOnce ==
  \A s \in Serial :
    IF s <= added /\ ~Live(s) THEN signals[s] \in ClosedTraces
                              ELSE signals[s] = <<>>

(* The main loop holds one expiry source for each live entry whose sender  *)
(* last allowed it to expire, and no other: no source outlives its entry   *)
(* (it would be handed freed memory), none is armed for a critical one,    *)
(* none is lost or doubled by an in-place update.                          *)
TimersMatchIntent ==
  \A s \in Serial : armed[s] = IF Live(s) /\ mortal[s] THEN 1 ELSE 0

(* The banner never holds more than LiveMax entries, the ring no more than *)
(* RingCap, after every handler.                                           *)
WithinCaps ==
  /\ Cardinality(LiveIn(ring)) <= LiveMax
  /\ Len(ring) <= RingCap

(* Within the ring an id names one entry, even after the 32-bit counter    *)
(* has wrapped: a lookup by id cannot reach another sender's notification. *)
IdsUnique ==
  \A i, j \in DOMAIN ring : ring[i].id = ring[j].id => i = j

(* Unless writing it failed, the history file is the ring after every      *)
(* handler, so a crash at any point loses nothing that was acknowledged,   *)
(* and one successful save repairs every failed one before it.             *)
FileCurrent == ~stale => saved = Persisted(ring)

(* A retired notification is never put back on screen: a Notify whose      *)
(* replaces_id names it makes a new entry.                                 *)
NeverRevived ==
  [][\A s \in 1..added : ~Live(s) => ~Live(s)']_vars
================================================================================
