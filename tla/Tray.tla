---------------------------------- MODULE Tray ----------------------------------
(* The system tray: applications that publish items, the tray daemon          *)
(* (tray-watcher.c, tray-item.c, tray-service.c) and the strip that shows     *)
(* them (tray-client.c and the tray zone of view.c).                          *)
(*                                                                            *)
(* The bus delivers to the daemon in one order; inbox is that order, and the  *)
(* daemon's main loop takes one message per step.  An item's properties are   *)
(* versions: the application's is value, the daemon's copy data, one per      *)
(* property, since properties may be fetched one by one.                      *)
EXTENDS Naturals, Sequences, FiniteSets, SequencesExt, SequenceLemmas

CONSTANTS
  Apps, Items, Owner,  \* Owner[i] is the application that publishes item i
  Props,               \* properties of an item
  Changing,            \* items whose properties change
  MaxVersion,          \* changes one of them goes through
  MaxStarts,           \* times an application starts
  MaxOpens,            \* times the strip is opened
  MaxFaults,           \* repeated registrations, calls that fail or time out,
                       \* and deaths of the daemon, together
  Backlog              \* messages waiting for the daemon

ASSUME TrayAssumption ==
  /\ Owner \in [Items -> Apps] /\ Changing \subseteq Items /\ IsFiniteSet(Props)
  /\ {MaxVersion, MaxStarts, MaxOpens, MaxFaults, Backlog} \subseteq Nat

Failed == MaxVersion + 1   \* the error a call may return instead of a value

VARIABLES
  starts, alive, value,    \* applications
  inbox, calls,            \* messages to the daemon; its calls not yet answered
  life, registry, data, refetch, changed,  \* the daemon
  strip, signals,          \* the strip; Changed signals on their way to it
  misdirected,             \* a click met another item (history)
  faults                   \* so far

apps   == <<starts, alive, value>>
daemon == <<life, registry, data, refetch, changed>>
zone   == <<strip, signals, misdirected>>
trayVars ==  <<apps, inbox, calls, daemon, zone, faults>>

Fault == faults < MaxFaults /\ faults' = faults + 1

Registered(i) == Contains(registry, i)

TrayEntry == [item : Items, data : [Props -> 0..MaxVersion]]

Unread == [p \in Props |-> 0]

(* build_item_list() *)
Listed == [k \in DOMAIN registry |->
             [item |-> registry[k], data |-> data[registry[k]]]]

(* sofi_tray_service_notify_changed(): a signal already due is enough. *)
NotifyChanged == changed' = TRUE

TrayInit(on) ==
  /\ starts = [a \in Apps |-> IF on THEN 0 ELSE MaxStarts] /\ alive = [a \in Apps |-> FALSE]
  /\ value = [i \in Items |-> 0] /\ faults = IF on THEN 0 ELSE MaxFaults
  /\ inbox = <<>> /\ calls = <<>>
  /\ life = 1 /\ registry = <<>> /\ changed = FALSE
  /\ data = [i \in Items |-> Unread] /\ refetch = [i \in Items |-> FALSE]
  /\ strip = [open |-> FALSE, asking |-> FALSE, answered |-> FALSE,
              entries |-> <<>>, from |-> 0,
              opens |-> IF on THEN 0 ELSE MaxOpens]
  /\ signals = 0
  /\ misdirected = FALSE
--------------------------------------------------------------------------------
(* Applications, as the daemon's code expects them. *)

StartApp(a) ==
  /\ ~alive[a] /\ starts[a] < MaxStarts
  /\ alive' = [alive EXCEPT ![a] = TRUE]
  /\ starts' = [starts EXCEPT ![a] = @ + 1]
  /\ UNCHANGED <<value, inbox, calls, daemon, zone, faults>>

(* RegisterStatusNotifierItem, perhaps although it is registered already: an  *)
(* application that finds a new watcher registers again.                      *)
Announce(i) ==
  /\ alive[Owner[i]] /\ Len(inbox) < Backlog
  /\ IF Registered(i) \/ Contains(inbox, <<"register", i>>)
     THEN Fault
     ELSE UNCHANGED faults
  /\ inbox' = Append(inbox, <<"register", i>>)
  /\ UNCHANGED <<starts, alive, value, calls, daemon, zone>>

(* A property changes, and NewIcon, NewTitle ... says that one did. *)
Change(i) ==
  /\ i \in Changing /\ alive[Owner[i]] /\ value[i] < MaxVersion /\ Len(inbox) < Backlog
  /\ value' = [value EXCEPT ![i] = @ + 1]
  /\ inbox' = Append(inbox, <<"signal", i>>)
  /\ UNCHANGED <<starts, alive, calls, daemon, zone, faults>>

(* The bus says so to whoever watches the name. *)
StopApp(a) ==
  /\ alive[a] /\ Len(inbox) < Backlog
  /\ alive' = [alive EXCEPT ![a] = FALSE]
  /\ inbox' = Append(inbox, <<"gone", a>>)
  /\ UNCHANGED <<starts, value, calls, daemon, zone, faults>>

(* The application answers the oldest call made to one of its items; a call   *)
(* to one that is gone, or that fails or takes too long, is answered by the   *)
(* bus or by the timeout.                                                     *)
Answer(n, v) ==
  LET c == calls[n] IN
  /\ Len(inbox) < Backlog
  /\ \A m \in 1..(n - 1) : Owner[calls[m][2]] # Owner[c[2]]
  /\ \/ alive[Owner[c[2]]] /\ v = value[c[2]] /\ UNCHANGED faults
     \/ ~alive[Owner[c[2]]] /\ v = Failed /\ UNCHANGED faults
     \/ alive[Owner[c[2]]] /\ c[1] = "all" /\ v = Failed /\ Fault
  /\ calls' = RemoveAt(calls, n)
  /\ inbox' = Append(inbox, <<"reply", c[2], c[1], v>>)
  /\ UNCHANGED <<apps, daemon, zone>>
--------------------------------------------------------------------------------
(* The daemon. *)

FetchAll(i) == calls' = Append(calls, <<"all", i>>)

(* register_item() and sofi_tray_item_new() *)
RegisterItem(i) ==
  IF Registered(i)
  THEN UNCHANGED <<registry, data, refetch, changed, calls>>
  ELSE /\ registry' = Append(registry, i)
       /\ data' = [data EXCEPT ![i] = Unread]
       /\ refetch' = [refetch EXCEPT ![i] = FALSE]
       /\ FetchAll(i) /\ NotifyChanged

(* What is in flight for the proxies of some items. *)
CallsOf(gone) == {c \in ToSet(calls) : c[2] \in gone}
RepliesOf(gone) == {m \in ToSet(inbox) : m[1] = "reply" /\ m[2] \in gone}

(* Mutant of FreeProxies: a fetch that is due is forgotten, not removed. *)
FreeProxiesKeepTimer(gone) ==
  /\ calls' = Without(calls, CallsOf(gone))
  /\ inbox' = Without(Tail(inbox), RepliesOf(gone))
  /\ UNCHANGED refetch

(* sofi_tray_item_free(): what is in flight for the proxy is cancelled, and   *)
(* an answer that has arrived since is discarded unread.                      *)
FreeProxies(gone) ==
  /\ calls' = Without(calls, CallsOf(gone))
  /\ inbox' = Without(Tail(inbox), RepliesOf(gone))
  /\ refetch' = [i \in Items |-> refetch[i] /\ i \notin gone]

(* item_vanished(): every item of a bus name that is gone. *)
Vanished(a) == {i \in ToSet(registry) : Owner[i] = a}

HandleRegister ==
  /\ inbox # <<>> /\ Head(inbox)[1] = "register"
  /\ RegisterItem(Head(inbox)[2])
  /\ inbox' = Tail(inbox)
  /\ UNCHANGED <<apps, life, zone, faults>>

HandleGone ==
  /\ inbox # <<>> /\ Head(inbox)[1] = "gone"
  /\ LET gone == Vanished(Head(inbox)[2])
     IN /\ registry' = Without(registry, gone)
        /\ FreeProxies(gone)
        /\ changed' = (changed \/ gone # {})
  /\ UNCHANGED <<apps, life, data, zone, faults>>

(* on_item_signal(): bursts are merged into one fetch, 100 ms later. *)
ItemSignal(i) ==
  refetch' = [refetch EXCEPT ![i] = @ \/ Registered(i)]

HandleSignal ==
  /\ inbox # <<>> /\ Head(inbox)[1] = "signal"
  /\ ItemSignal(Head(inbox)[2])
  /\ inbox' = Tail(inbox)
  /\ UNCHANGED <<apps, calls, life, registry, data, changed, zone, faults>>

(* on_refetch_due() *)
RefetchDue(i) ==
  /\ refetch[i]
  /\ refetch' = [refetch EXCEPT ![i] = FALSE]
  /\ FetchAll(i)
  /\ UNCHANGED <<apps, inbox, life, registry, data, changed, zone, faults>>

(* on_get_all() and, where that fails, fetch_individually(). *)
HandleGetAll ==
  /\ inbox # <<>> /\ Head(inbox)[1] = "reply" /\ Head(inbox)[3] = "all"
  /\ LET i == Head(inbox)[2]
         v == Head(inbox)[4]
     IN IF v = Failed
        THEN /\ calls' = calls \o SetToSeq({<<p, i>> : p \in Props})
             /\ UNCHANGED <<data, changed>>
        ELSE /\ data' = [data EXCEPT ![i] = [p \in Props |-> v]]
             /\ NotifyChanged
             /\ UNCHANGED calls
  /\ inbox' = Tail(inbox)
  /\ UNCHANGED <<apps, life, registry, refetch, zone, faults>>

(* on_get_property() *)
HandleGet ==
  /\ inbox # <<>> /\ Head(inbox)[1] = "reply" /\ Head(inbox)[3] \in Props
  /\ LET m == Head(inbox)
     IN IF m[4] = Failed
        THEN UNCHANGED <<data, changed>>
        ELSE data' = [data EXCEPT ![m[2]][m[3]] = m[4]] /\ NotifyChanged
  /\ inbox' = Tail(inbox)
  /\ UNCHANGED <<apps, calls, life, registry, refetch, zone, faults>>

(* emit_changed_now() *)
EmitChanged ==
  /\ changed
  /\ changed' = FALSE
  /\ signals' = IF strip.open THEN signals + 1 ELSE signals
  /\ UNCHANGED <<apps, inbox, calls, life, registry, data, refetch, strip, misdirected, faults>>

(* ListItems, and the end of sofi_tray_client_refresh() that waited for it. *)
HandleList ==
  /\ inbox # <<>> /\ Head(inbox)[1] = "list"
  /\ strip' = [strip EXCEPT !.asking = FALSE, !.answered = TRUE,
                            !.entries = Listed, !.from = life]
  /\ inbox' = Tail(inbox)
  /\ UNCHANGED <<apps, calls, daemon, signals, misdirected, faults>>

(* Mutant of FindProxy: the caller's row, whatever is there now. *)
FindProxyByRow(m) ==
  IF m[3] <= Len(registry) THEN registry[m[3]] ELSE "none"

(* find_proxy(): by service name, in the registry of now. *)
FindProxy(m) == IF Registered(m[2]) THEN m[2] ELSE "none"

(* Activate, SecondaryActivate, ContextMenu *)
HandleActivate ==
  /\ inbox # <<>> /\ Head(inbox)[1] = "activate"
  /\ misdirected' =
       (misdirected \/ FindProxy(Head(inbox)) \notin {Head(inbox)[2], "none"})
  /\ inbox' = Tail(inbox)
  /\ UNCHANGED <<apps, calls, daemon, strip, signals, faults>>

(* The daemon dies; another takes the names and begins with nothing.  What    *)
(* was sent to the old one is gone, and a call to it fails.                   *)
Restart ==
  /\ Fault
  /\ life' = life + 1
  /\ registry' = <<>> /\ calls' = <<>> /\ inbox' = <<>> /\ changed' = FALSE
  /\ data' = [i \in Items |-> Unread]
  /\ refetch' = [i \in Items |-> FALSE]
  /\ strip' = [strip EXCEPT !.asking = FALSE, !.answered = @ /\ ~strip.asking]
  /\ UNCHANGED <<apps, signals, misdirected>>
--------------------------------------------------------------------------------
(* The strip.  Its call blocks it, so signals wait meanwhile. *)

Ask == inbox' = Append(inbox, <<"list">>)

Asking == [strip EXCEPT !.asking = TRUE, !.entries = <<>>]

(* Mutant of OpenStrip: the first list is not asked for. *)
OpenStripEmpty ==
  /\ ~strip.open /\ strip.opens < MaxOpens
  /\ strip' = [strip EXCEPT !.open = TRUE, !.opens = @ + 1, !.answered = TRUE,
                            !.from = life]
  /\ UNCHANGED <<apps, inbox, calls, daemon, signals, misdirected, faults>>

(* The tray zone is created: sofi_tray_client_watch(), then the first         *)
(* sofi_view_rebuild_tray().                                                  *)
OpenStrip ==
  /\ ~strip.open /\ strip.opens < MaxOpens
  /\ strip' = [Asking EXCEPT !.open = TRUE, !.opens = @ + 1]
  /\ Ask
  /\ UNCHANGED <<apps, calls, daemon, signals, misdirected, faults>>

(* on_changed_signal() and sofi_view_tray_changed() *)
TrayChanged ==
  /\ strip.open /\ ~strip.asking /\ signals > 0
  /\ signals' = signals - 1
  /\ strip' = Asking /\ Ask
  /\ UNCHANGED <<apps, calls, daemon, misdirected, faults>>

(* No answer within 500 ms: the zone stays empty until the next signal. *)
ListTimeout ==
  /\ strip.asking /\ Fault
  /\ strip' = [strip EXCEPT !.asking = FALSE, !.answered = FALSE]
  /\ inbox' = Without(inbox, {<<"list">>})
  /\ UNCHANGED <<apps, calls, daemon, signals, misdirected>>

(* tray_icon_trigger_action() on an icon of the zone, without a menu. *)
ClickIcon(k) ==
  /\ strip.open /\ ~strip.asking /\ Len(inbox) < Backlog
  /\ \A n \in DOMAIN inbox : inbox[n][1] # "activate"
  /\ inbox' = Append(inbox, <<"activate", strip.entries[k].item, k>>)
  /\ UNCHANGED <<apps, calls, daemon, zone, faults>>

(* sofi_view_free() *)
CloseStrip ==
  /\ strip.open /\ ~strip.asking
  /\ strip' = [strip EXCEPT !.open = FALSE, !.entries = <<>>, !.from = 0,
                            !.answered = FALSE]
  /\ signals' = 0
  /\ UNCHANGED <<apps, inbox, calls, daemon, misdirected, faults>>

TrayNext ==
  \/ \E a \in Apps : StartApp(a) \/ StopApp(a)
  \/ \E i \in Items : Announce(i) \/ Change(i) \/ RefetchDue(i)
  \/ \E n \in DOMAIN calls, v \in 0..Failed : Answer(n, v)
  \/ HandleRegister \/ HandleGone \/ HandleSignal
  \/ HandleGetAll \/ HandleGet \/ HandleList \/ HandleActivate
  \/ EmitChanged
  \/ Restart
  \/ OpenStrip \/ TrayChanged \/ ListTimeout \/ CloseStrip
  \/ \E k \in DOMAIN strip.entries : ClickIcon(k)

Handle ==
  \/ HandleRegister \/ HandleGone \/ HandleSignal
  \/ HandleGetAll \/ HandleGet \/ HandleList \/ HandleActivate

(* Main loops dispatch; calls are answered, if only by their timeout; an      *)
(* application that watches for the watcher registers with it.                *)
TrayFairness ==
  /\ WF_trayVars(Handle) /\ WF_trayVars(EmitChanged) /\ WF_trayVars(TrayChanged)
  /\ \A i \in Items : WF_trayVars(RefetchDue(i))
  /\ \A i \in Items : WF_trayVars(~Registered(i) /\ Announce(i))
  /\ WF_trayVars(\E n \in DOMAIN calls, v \in 0..Failed : Answer(n, v))

TraySpec == TrayInit(TRUE) /\ [][TrayNext]_trayVars /\ TrayFairness
--------------------------------------------------------------------------------
(* Nothing the main loop may still run -- a timer, a call, an answer -- holds *)
(* the pointer of a proxy that was freed (tray-item.c:478-488), and a click on *)
(* a strip whose list is out of date activates the item it was made on or     *)
(* nothing, never the one that moved into its place (tray-service.c:133-137). *)
NothingStale ==
  /\ \A i \in Items :
       \/ refetch[i]
       \/ \E n \in DOMAIN calls : calls[n][2] = i
       \/ \E n \in DOMAIN inbox : inbox[n][1] = "reply" /\ inbox[n][2] = i
       => Registered(i)
  /\ ~misdirected

(* What the tray promises: when all is quiet the zone shows the items of the  *)
(* running applications, each once, with its latest properties.  It may be    *)
(* empty after a list that timed out, and keep the icons of an earlier daemon *)
(* while no application is running that could tell the new one.               *)
ZoneTrue ==
  strip.open /\ strip.answered =>
    \/ /\ strip.from = life
       /\ IsInjective([k \in DOMAIN strip.entries |-> strip.entries[k].item])
       /\ ToSet(strip.entries) =
            {[item |-> i, data |-> [p \in Props |-> value[i]]] :
               i \in {j \in Items : alive[Owner[j]]}}
    \/ strip.from < life /\ \A a \in Apps : ~alive[a]

StripSettles == <>[]ZoneTrue
================================================================================
