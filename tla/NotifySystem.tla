----------------------------- MODULE NotifySystem ------------------------------
(***************************************************************************)
(* The notification service as a system of processes: daemons that come    *)
(* and go and replace one another under one bus name, each with a ring of  *)
(* its own (NotifyRing), the history file they leave to one another, the   *)
(* standalone history panel that keeps a copy of the ring and asks the     *)
(* daemon to change it, the command line's clear, and the senders, who     *)
(* hold ids.  (source/notify-service.c, source/notify-store.c,             *)
(* source/modes/notification-history.c, source/sofi.c)                     *)
(*                                                                         *)
(* A step is one dispatch of a daemon's main loop, one round of the panel, *)
(* or one act of the message bus.  The bus routes a call to the owner of   *)
(* the name; a connection's messages arrive in order, the loss of the name *)
(* among them.  Expiry timers are those of NotifyStore: here a live entry  *)
(* may expire at any time.                                                 *)
(***************************************************************************)
EXTENDS NotifyRing

CONSTANTS Daemons,     \* processes that may run as `sofi -notification-daemon`
          MaxNotes,    \* bound: notifications filed
          MaxStarts,   \* bound: daemons started
          MaxCrashes,  \* bound: daemons killed
          MaxCalls,    \* bound: calls the panel makes
          MaxInbox,    \* bound: messages waiting at a daemon
          Methods,     \* what users and senders do in an instance
          Races        \* timing the instance allows: "handover", a daemon
                       \* starts while another runs; "absent", one starts
                       \* while the panel asks and is told "no daemon"

ASSUME SystemAssumption ==
  /\ MaxNotes \in Nat /\ MaxStarts \in Nat /\ MaxCrashes \in Nat
  /\ MaxCalls \in Nat /\ MaxInbox \in Nat
  /\ Methods \subseteq {"Dismiss", "DismissAll", "ClearHistory", "cli", "close"}
  /\ Races \subseteq {"handover", "absent"}
  /\ "none" \notin Daemons /\ IsFiniteSet(Daemons)

Notes == 1..MaxNotes

Ops == {"Notify", "CloseNotification", "Dismiss", "DismissAll", "ClearHistory",
        "GetLive", "NameLost"}

(* id is the argument of Dismiss and CloseNotification; meant, the         *)
(* notification the caller holds that id for; call, the panel's call, 0    *)
(* for everybody else's.                                                   *)
Messages == [op : Ops, id : 0..IdMax, meant : 0..MaxNotes, call : 0..MaxCalls]

Message(op) == [op |-> op, id |-> 0, meant |-> 0, call |-> 0]

VARIABLES owner,    \* who owns org.freedesktop.Notifications
          daemon,   \* the daemons: phase, ring, next_id, messages to come
          file,     \* the history file
          panel,    \* the history panel: phase, call, method, ring, reply
          signals,  \* the D-Bus signals emitted, per notification
          idOf,     \* the id each notification was given (history)
          struck,   \* the last entry closed by id: meant and hit (history)
          cleared,  \* whether the history was ever cleared (history)
          starts, crashes

notes == <<signals, idOf, struck, cleared>>

counts == <<starts, crashes>>

vars == <<owner, daemon, file, panel, notes, counts>>

Off == [phase |-> "off", ring |-> <<>>, nextId |-> 1, inbox |-> <<>>]

Alive(d) == daemon[d].phase # "off"

Quiet == \A d \in Daemons : ~Alive(d)

(* Mutant of NextAfter: loading leaves the counter alone. *)
NextAfterFresh(r) == 1

(* store.next_id once the records r are loaded, on a guint32. *)
NextAfter(r) ==
  LET next[i \in 0..Len(r)] ==
        IF i = 0 THEN 1
        ELSE IF r[i].id >= next[i - 1] THEN (r[i].id + 1) % (IdMax + 1)
        ELSE next[i - 1]
  IN next[Len(r)]

(* The ring sofi_notify_store_load() makes of the file: retired entries. *)
Loaded(r) == [i \in DOMAIN r |-> Blank(r[i].id, r[i].serial)]

(* sofi_notify_store_apply_live(): the panel's copy r takes over what the  *)
(* daemon answered, by id; the first entry of an id is the one marked.     *)
Overlay(r, ids) ==
  LET marked == {First({i \in DOMAIN r : r[i].id = id}) :
                   id \in {x \in ids : \E i \in DOMAIN r : r[i].id = x}}
  IN [i \in DOMAIN r |-> [r[i] EXCEPT !.live = i \in marked]]

LiveIds(r) == {r[i].id : i \in LiveIn(r)}

(* A call reaches the owner of the name. *)
Routed(m) == [daemon EXCEPT ![owner].inbox = Append(@, m)]

Open == owner # "none" /\ Len(daemon[owner].inbox) < MaxInbox
--------------------------------------------------------------------------------
(* Daemons. *)

Init ==
  /\ owner = "none"
  /\ daemon = [d \in Daemons |-> Off]
  /\ file = <<>>
  /\ panel = [phase |-> "closed", call |-> 0, op |-> "GetLive",
              ring |-> <<>>, reply |-> {}]
  /\ signals = [s \in Notes |-> <<>>]
  /\ idOf = <<>>
  /\ struck = [meant |-> 0, hit |-> 0]
  /\ cleared = FALSE
  /\ starts = 0 /\ crashes = 0

(* Mutant of Start: the file is not read back. *)
StartEmpty(d) ==
  /\ starts < MaxStarts
  /\ ~Alive(d)
  /\ "handover" \in Races \/ Quiet
  /\ "absent" \in Races \/ panel.phase # "absent"
  /\ daemon' = [daemon EXCEPT ![d] = [Off EXCEPT !.phase = "loaded"]]
  /\ starts' = starts + 1
  /\ UNCHANGED <<owner, file, panel, notes, crashes>>

(* sofi_notify_service_start(): the file is read before the name is asked  *)
(* for.                                                                    *)
Start(d) ==
  /\ starts < MaxStarts
  /\ ~Alive(d)
  /\ "handover" \in Races \/ Quiet
  /\ "absent" \in Races \/ panel.phase # "absent"
  /\ daemon' = [daemon EXCEPT ![d] =
                  [phase |-> "loaded", ring |-> Loaded(file),
                   nextId |-> NextAfter(file), inbox |-> <<>>]]
  /\ starts' = starts + 1
  /\ UNCHANGED <<owner, file, panel, notes, crashes>>

(* The bus gives the name to d, with REPLACE and ALLOW_REPLACEMENT; the    *)
(* owner until now is told so in turn.                                     *)
TakeName(d) ==
  /\ daemon[d].phase = "loaded"
  /\ daemon' = [e \in Daemons |->
                  IF e = d THEN [daemon[e] EXCEPT !.phase = "up"]
                  ELSE IF e = owner
                  THEN [daemon[e] EXCEPT
                          !.inbox = Append(@, Message("NameLost"))]
                  ELSE daemon[e]]
  /\ owner' = d
  /\ UNCHANGED <<file, panel, notes, counts>>

(* A daemon is killed. *)
Crash(d) ==
  /\ crashes < MaxCrashes
  /\ Alive(d)
  /\ daemon' = [daemon EXCEPT ![d] = Off]
  /\ owner' = IF owner = d THEN "none" ELSE owner
  /\ crashes' = crashes + 1
  /\ UNCHANGED <<file, panel, notes, starts>>

StoreOf(d) == [ring |-> daemon[d].ring, armed |-> <<>>, signals |-> signals]

(* Daemon d's store becomes st and is saved; next is its counter. *)
Becomes(d, st, next) ==
  /\ daemon' = [daemon EXCEPT ![d] = [@ EXCEPT !.ring = st.ring,
                                               !.nextId = next,
                                               !.inbox = Tail(daemon[d].inbox)]]
  /\ signals' = st.signals
  /\ file' = Persisted(st.ring)

Unmoved(d) ==
  /\ daemon' = [daemon EXCEPT ![d].inbox = Tail(@)]
  /\ UNCHANGED <<signals, file>>

(* The synchronous call of the panel is answered, unless it gave up. *)
Answer(m, reply) ==
  panel' = IF m.call > 0 /\ m.call = panel.call /\ panel.phase = "waiting"
           THEN [panel EXCEPT !.phase = "handled", !.reply = reply]
           ELSE panel

Receives(d, op) ==
  /\ daemon[d].inbox # <<>>
  /\ Head(daemon[d].inbox).op = op

HandleNotify(d) ==
  /\ Receives(d, "Notify")
  /\ LET s  == Len(idOf) + 1
         id == daemon[d].nextId
         st == Insert(StoreOf(d), Blank(id, s))
     IN /\ Becomes(d, EnforceCaps(Fill(st, 1, FALSE, 0)), NextId(id))
        /\ idOf' = Append(idOf, id)
  /\ UNCHANGED <<owner, panel, struck, cleared, starts, crashes>>

(* CloseNotification and Dismiss: sofi_notify_store_close(). *)
HandleClose(d) ==
  /\ Receives(d, "CloseNotification") \/ Receives(d, "Dismiss")
  /\ LET m   == Head(daemon[d].inbox)
         I   == Matching(daemon[d].ring, m.id)
         why == IF m.op = "Dismiss" THEN "dismissed" ELSE "bycall"
     IN /\ IF I = {} THEN Unmoved(d) /\ UNCHANGED struck
           ELSE /\ Becomes(d, Retire(StoreOf(d), {First(I)}, why),
                           daemon[d].nextId)
                /\ struck' = [meant |-> m.meant,
                              hit |-> daemon[d].ring[First(I)].serial]
        /\ Answer(m, {})
  /\ UNCHANGED <<owner, idOf, cleared, starts, crashes>>

HandleDismissAll(d) ==
  /\ Receives(d, "DismissAll")
  /\ IF LiveIn(daemon[d].ring) = {} THEN Unmoved(d)
     ELSE Becomes(d, Retire(StoreOf(d), DOMAIN daemon[d].ring, "dismissed"),
                  daemon[d].nextId)
  /\ Answer(Head(daemon[d].inbox), {})
  /\ UNCHANGED <<owner, idOf, struck, cleared, starts, crashes>>

(* Mutant of HandleClear: the ring is emptied without being retired. *)
HandleClearSilent(d) ==
  /\ Receives(d, "ClearHistory")
  /\ Becomes(d, Truncate(StoreOf(d), 0), daemon[d].nextId)
  /\ Answer(Head(daemon[d].inbox), {})
  /\ cleared' = TRUE
  /\ UNCHANGED <<owner, idOf, struck, starts, crashes>>

HandleClear(d) ==
  /\ Receives(d, "ClearHistory")
  /\ Becomes(d, Truncate(Retire(StoreOf(d), DOMAIN daemon[d].ring, "dismissed"),
                         0), daemon[d].nextId)
  /\ Answer(Head(daemon[d].inbox), {})
  /\ cleared' = TRUE
  /\ UNCHANGED <<owner, idOf, struck, starts, crashes>>

HandleGetLive(d) ==
  /\ Receives(d, "GetLive")
  /\ Unmoved(d)
  /\ Answer(Head(daemon[d].inbox), LiveIds(daemon[d].ring))
  /\ UNCHANGED <<owner, idOf, struck, cleared, starts, crashes>>

(* Mutant of HandleNameLost: the daemon carries on without the name. *)
HandleNameLostRunOn(d) ==
  /\ Receives(d, "NameLost")
  /\ Unmoved(d)
  /\ UNCHANGED <<owner, panel, idOf, struck, cleared, starts, crashes>>

(* on_name_lost(): the main loop is quit, teardown() stops the service and *)
(* sofi_notify_store_fini() frees the ring.                                *)
HandleNameLost(d) ==
  /\ Receives(d, "NameLost")
  /\ daemon' = [daemon EXCEPT ![d] = Off]
  /\ UNCHANGED <<owner, file, panel, notes, counts>>

(* expire_cb() *)
Expire(d, i) ==
  /\ i \in LiveIn(daemon[d].ring)
  /\ LET st == Retire(StoreOf(d), {i}, "expired")
     IN /\ daemon' = [daemon EXCEPT ![d].ring = st.ring]
        /\ signals' = st.signals
        /\ file' = Persisted(st.ring)
  /\ UNCHANGED <<owner, panel, idOf, struck, cleared, starts, crashes>>
--------------------------------------------------------------------------------
(* Senders, and the command line. *)

(* The notifications on their way, as pairs of a daemon and a place in its *)
(* inbox.                                                                  *)
Pending == {w \in Daemons \X (1..MaxInbox) :
              /\ w[2] \in DOMAIN daemon[w[1]].inbox
              /\ daemon[w[1]].inbox[w[2]].op = "Notify"}

Notify ==
  /\ Open
  /\ Len(idOf) + Cardinality(Pending) < MaxNotes
  /\ daemon' = Routed(Message("Notify"))
  /\ UNCHANGED <<owner, file, panel, notes, counts>>

(* The sender of s closes it, whatever became of it meanwhile. *)
CloseNotification(s) ==
  /\ "close" \in Methods
  /\ Open
  /\ daemon' = Routed([Message("CloseNotification") EXCEPT
                         !.id = idOf[s], !.meant = s])
  /\ UNCHANGED <<owner, file, panel, notes, counts>>

(* sofi -notification-clear and sofi -notification-clear-history *)
CommandClear(op) ==
  /\ "cli" \in Methods
  /\ Open
  /\ daemon' = Routed(Message(op))
  /\ UNCHANGED <<owner, file, panel, notes, counts>>
--------------------------------------------------------------------------------
(* The panel.  A call blocks it until it is answered or 1000 ms are over.  *)

(* call_daemon() of m by a panel that holds the ring r. *)
Call(m, r) ==
  LET n == panel.call + 1
  IN /\ panel.call < MaxCalls
     /\ owner = "none" => Quiet \/ "absent" \in Races
     /\ panel' = [phase |-> IF owner = "none" THEN "absent" ELSE "waiting",
                  call |-> n, op |-> m.op, ring |-> r, reply |-> {}]
     /\ IF owner = "none" THEN UNCHANGED daemon
        ELSE Open /\ daemon' = Routed([m EXCEPT !.call = n])

(* history_mode_init() *)
PanelOpen ==
  /\ panel.phase = "closed"
  /\ Call(Message("GetLive"), Loaded(file))
  /\ UNCHANGED <<owner, file, notes, counts>>

(* history_dismiss_one() of the row i. *)
PanelDismiss(i) ==
  /\ "Dismiss" \in Methods
  /\ panel.phase = "idle"
  /\ i \in LiveIn(panel.ring)
  /\ Call([Message("Dismiss") EXCEPT !.id = panel.ring[i].id,
                                     !.meant = panel.ring[i].serial],
          panel.ring)
  /\ UNCHANGED <<owner, file, notes, counts>>

(* history_mutate() *)
PanelMutate(op) ==
  /\ op \in Methods
  /\ panel.phase = "idle"
  /\ Call(Message(op), panel.ring)
  /\ UNCHANGED <<owner, file, notes, counts>>

(* SOFI_NOTIFY_DAEMON_HANDLED: the answer of GetLive is taken over; any    *)
(* other is followed by history_refresh().                                 *)
PanelHandled ==
  /\ panel.phase = "handled"
  /\ IF panel.op = "GetLive"
     THEN /\ panel' = [panel EXCEPT !.phase = "idle",
                                    !.ring = Overlay(@, panel.reply)]
          /\ UNCHANGED daemon
     ELSE Call(Message("GetLive"), Loaded(file))
  /\ UNCHANGED <<owner, file, notes, counts>>

(* SOFI_NOTIFY_DAEMON_ABSENT: history_mutate() changes the panel's own     *)
(* copy and saves that; everything else leaves things as they are.         *)
PanelAbsent ==
  /\ panel.phase = "absent"
  /\ LET own == Retire([ring |-> panel.ring, armed |-> <<>>, signals |-> <<>>],
                       DOMAIN panel.ring, "dismissed").ring
     IN CASE panel.op = "ClearHistory" ->
               /\ file' = <<>> /\ cleared' = TRUE
               /\ panel' = [panel EXCEPT !.phase = "idle", !.ring = <<>>]
          [] panel.op = "DismissAll" /\ LiveIn(panel.ring) # {} ->
               /\ file' = Persisted(own) /\ UNCHANGED cleared
               /\ panel' = [panel EXCEPT !.phase = "idle", !.ring = own]
          [] OTHER ->
               /\ panel' = [panel EXCEPT !.phase = "idle"]
               /\ UNCHANGED <<file, cleared>>
  /\ UNCHANGED <<owner, daemon, signals, idOf, struck, starts, crashes>>

(* SOFI_NOTIFY_DAEMON_FAILED: no answer in time, or the daemon died with   *)
(* the call.  The call itself may still be carried out.                    *)
PanelFailed ==
  /\ panel.phase = "waiting"
  /\ panel' = [panel EXCEPT !.phase = "idle"]
  /\ UNCHANGED <<owner, daemon, file, notes, counts>>

PanelClose ==
  /\ panel.phase = "idle"
  /\ panel' = [panel EXCEPT !.phase = "closed", !.ring = <<>>]
  /\ UNCHANGED <<owner, daemon, file, notes, counts>>

Dispatch(d) ==
  \/ HandleNotify(d) \/ HandleClose(d) \/ HandleDismissAll(d) \/ HandleClear(d)
  \/ HandleGetLive(d) \/ HandleNameLost(d)

Next ==
  \/ \E d \in Daemons :
       \/ Start(d) \/ TakeName(d) \/ Crash(d)
       \/ HandleNotify(d) \/ HandleClose(d) \/ HandleDismissAll(d)
       \/ HandleClear(d) \/ HandleGetLive(d) \/ HandleNameLost(d)
       \/ \E i \in DOMAIN daemon[d].ring : Expire(d, i)
  \/ Notify
  \/ \E s \in DOMAIN idOf : CloseNotification(s)
  \/ PanelOpen
  \/ \E i \in DOMAIN panel.ring : PanelDismiss(i)
  \/ \E op \in {"DismissAll", "ClearHistory"} :
       CommandClear(op) \/ PanelMutate(op)
  \/ PanelHandled \/ PanelAbsent \/ PanelFailed \/ PanelClose

Spec == Init /\ [][Next]_vars

(* Main loops dispatch what has arrived, the bus answers RequestName, and  *)
(* a synchronous call returns.                                             *)
Fairness ==
  /\ \A d \in Daemons : WF_vars(TakeName(d)) /\ WF_vars(Dispatch(d))
  /\ WF_vars(PanelHandled) /\ WF_vars(PanelAbsent) /\ WF_vars(PanelFailed)

FairSpec == Spec /\ Fairness
--------------------------------------------------------------------------------
Filed == [id : 0..IdMax, serial : Notes, critical : {FALSE}]

(* Whatever daemons crash, restart and take over, and whatever the panel   *)
(* does meanwhile, the history file behaves like the one list the service  *)
(* promises: nothing filed is lost or comes back, and no id is given out   *)
(* that a listed notification has.                                         *)
History == INSTANCE NotificationHistory
             WITH Capacity <- RingCap, Records <- Filed,
                  log <- file, filed <- Len(idOf)

HistorySpec == History!Spec

(* A close by id -- a sender's, however late, or the panel's, made from a  *)
(* snapshot -- hits the notification it was meant for or nothing, over     *)
(* crashes and restarts, until the history is cleared                      *)
(* (notify-store.c:341-343, notify-service.c:624-626).                     *)
ClosesWhatWasMeant == ~cleared => struck.meant = struck.hit

(* As long as no daemon is killed, every sender is told when its           *)
(* notification goes, by whatever method, process or cap it goes           *)
(* (notify-store.c:329-333).                                               *)
SendersTold ==
  crashes = 0 =>
    \A s \in DOMAIN idOf :
      \/ signals[s] # <<>>
      \/ \E d \in Daemons : \E i \in LiveIn(daemon[d].ring) :
           daemon[d].ring[i].serial = s

(* However daemons are started over one another, the handover settles: the *)
(* processes left are the one that owns the name, or none was left by      *)
(* crashes (notify-service.c:761-770).                                     *)
HandoverSettles ==
  []<>(\A d \in Daemons : Alive(d) => owner = d)
================================================================================
