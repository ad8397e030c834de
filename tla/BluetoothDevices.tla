--------------------------- MODULE BluetoothDevices ----------------------------
(* The bluetooth panel under BlueZ (modes/bluetooth.c, bluetooth-bluez.c): rows *)
(* read from bluetoothd, keys that call it and wait, and its signals, of which  *)
(* a burst is one reading.                                                      *)
(*                                                                              *)
(* The agent's questions are those of BluetoothAgent; here one is held or not.  *)
EXTENDS Integers, Sequences, FiniteSets

CONSTANTS
  Peers,         \* devices, in the order of their object paths
  Standings,     \* what bluetoothd may know of a device
  Controllers,   \* what bluetoothd may know when it starts
  MaxChanged,    \* changes nobody made here, in a run
  MaxTold        \* keys and messages of the agent in one panel

Standing == [at: {"absent", "elsewhere", "here"},
             paired: BOOLEAN, trusted: BOOLEAN, connected: BOOLEAN]
Controller == [up: {TRUE}, adapter: BOOLEAN, powered: BOOLEAN,
               discoverable: BOOLEAN, discovering: BOOLEAN,
               peers: [Peers -> Standing]]

ASSUME PeersAssumption ==
  /\ Peers \subseteq Nat /\ IsFiniteSet(Peers) /\ Standings \subseteq Standing
  /\ Controllers \subseteq Controller /\ {MaxChanged, MaxTold} \subseteq Nat

VARIABLES
  daemon,    \* bluetoothd: whether it is up, and what it knows
  underway,   \* its signals on the way here
  pane,      \* live, rows, and of the file-static state: adapter (what the
             \* last reading found), asked, pairing, coalesce; status: which of
             \* the things told of here the message bar is about, 0 for none
  drawn,     \* what the view last drew of it
  redraw,    \* sofi_view_reload() is waiting
  told,      \* keys and messages of the agent since the panel opened
  changed    \* changes nobody made here

peerVars == <<daemon, underway, pane, drawn, redraw, told, changed>>

NoPanel == [live |-> FALSE, rows |-> <<>>, adapter |-> "gone", asked |-> "none",
           pairing |-> FALSE, coalesce |-> FALSE, status |-> 0]
NoSurface == [rows |-> <<>>, status |-> 0, hint |-> ""]

PeerInit(on) ==
  /\ daemon \in IF on THEN Controllers ELSE {[up |-> FALSE]}
  /\ underway = 0 /\ pane = NoPanel /\ drawn = NoSurface /\ redraw = FALSE
  /\ told = 0 /\ changed = 0
--------------------------------------------------------------------------------
Absent == [at |-> "absent", paired |-> FALSE, trusted |-> FALSE,
           connected |-> FALSE]
PeerRow(kind, label, on) ==
  [kind |-> kind, label |-> label, on |-> on, id |-> 0, peer |-> Absent]

(* bz_devices(): those of this adapter, in an order that does not change.       *)
DeviceRows(d) ==
  LET Here == {p \in Peers : d.peers[p].at = "here"}
      row == PeerRow("device", "", FALSE)
  IN [i \in 1..Cardinality(Here) |->
        LET p == CHOOSE p \in Here : Cardinality({q \in Here : q < p}) = i - 1
        IN [row EXCEPT !.id = p, !.peer = d.peers[p], !.on = d.peers[p].connected]]

(* bz_adapter(): what a reading of the objects finds.                           *)
Adapter(d) == CASE ~d.up -> "gone"
                [] d.up /\ ~d.adapter -> "none"
                [] d.up /\ d.adapter -> IF d.powered THEN "on" ELSE "off"

(* bz_actions(): each says what it would end, or begin.                         *)
ActionRows(d) ==
  <<PeerRow("discoverable", "", d.discoverable), PeerRow("scan", "", d.discovering)>>

(* bt_refresh(): the adapter, and when it is on its devices and the actions.    *)
Reading(d) ==
  <<PeerRow("adapter", Adapter(d), Adapter(d) = "on")>> \o
  IF Adapter(d) = "on" THEN DeviceRows(d) \o ActionRows(d) ELSE <<>>

(* A question is the whole surface, and nothing is read then.                   *)
ReadAgain(p, d) ==
  IF p.asked # "none"
  THEN [p EXCEPT !.rows = <<PeerRow("request", p.asked, FALSE)>>]
  ELSE [p EXCEPT !.rows = Reading(d), !.adapter = Adapter(d)]

NoAnswer == [up |-> FALSE]

(* A reading may time out (BZ_CALL_TIMEOUT_MS).                                 *)
Refresh(p) == \E d \in {daemon, NoAnswer} : pane' = ReadAgain(p, d)

(* bz_message(): what the keys are for now, or why there are none.              *)
Hint(p) == IF p.asked # "none" THEN p.asked ELSE p.adapter

(* _get_display_value(), get_message(): the rows, and the last thing told.      *)
Surface(p) == [rows |-> p.rows, status |-> p.status,
               hint |-> IF p.status = 0 THEN Hint(p) ELSE ""]

SaidOf(p) == [p EXCEPT !.status = told + 1]
--------------------------------------------------------------------------------
(* bluetooth_mode_init(), bz_probe(): only a bluetoothd that is up; subscribed  *)
(* before the first reading.                                                    *)
OpenPanel ==
  /\ ~pane.live /\ daemon.up
  /\ Refresh([NoPanel EXCEPT !.live = TRUE])
  /\ drawn' = Surface(pane')
  /\ UNCHANGED <<daemon, underway, redraw, told, changed>>

(* bluetooth_mode_destroy(), bz_teardown(); also Escape.                        *)
ClosePanel ==
  /\ pane.live
  /\ pane' = NoPanel /\ drawn' = NoSurface /\ redraw' = FALSE /\ underway' = 0
  /\ told' = 0
  /\ UNCHANGED <<daemon, changed>>

(* sofi_view_reload(): the view draws a little later.                           *)
Draw ==
  /\ redraw
  /\ redraw' = FALSE /\ drawn' = Surface(pane)
  /\ UNCHANGED <<daemon, underway, pane, told, changed>>

(* bz_on_signal(), bz_changed(): one rebuild for a burst.                       *)
SignalArrives ==
  /\ pane.live /\ underway > 0
  /\ underway' = underway - 1 /\ pane' = [pane EXCEPT !.coalesce = TRUE]
  /\ UNCHANGED <<daemon, drawn, redraw, told, changed>>

(* Mutant of RebuildNow: the view is reloaded, and the mode not read again. *)
RebuildRedrawsOnly ==
  /\ pane.coalesce
  /\ pane' = [pane EXCEPT !.coalesce = FALSE] /\ redraw' = TRUE
  /\ UNCHANGED <<daemon, underway, drawn, told, changed>>

(* bz_rebuild_now(), BZ_COALESCE_MS later. *)
RebuildNow ==
  /\ pane.coalesce
  /\ Refresh([pane EXCEPT !.coalesce = FALSE]) /\ redraw' = TRUE
  /\ UNCHANGED <<daemon, underway, drawn, told, changed>>
--------------------------------------------------------------------------------
(* What a key comes to: bluetoothd as the call left it, whether the rows are to *)
(* be read again, whether the message bar was told.                             *)
Outcome == [daemon |-> daemon, again |-> FALSE, said |-> TRUE,
            asked |-> pane.asked, pairing |-> pane.pairing]

(* Mutant of Try: a failure that nobody explains. *)
TrySilent(possible, e) ==
  {[Outcome EXCEPT !.said = FALSE]} \cup
  IF ~possible THEN {}
  ELSE {[Outcome EXCEPT !.daemon = e, !.again = a] : a \in BOOLEAN}

(* bz_call(), bz_set_bool(): refused, done, or done and not answered in time;   *)
(* a failure is explained (bz_explain()), a success told of by the caller.      *)
Try(possible, e) ==
  {Outcome} \cup IF ~possible THEN {}
                 ELSE {[Outcome EXCEPT !.daemon = e, !.again = a] : a \in BOOLEAN}

HasAdapter == daemon.up /\ daemon.adapter
Works == HasAdapter /\ daemon.powered
Knows(p) == HasAdapter /\ daemon.peers[p].at = "here"

(* bz_power(), bz_scan_start(), bz_scan_stop(), bz_scan_enable().               *)
Power(on) ==
  IF pane.adapter \notin {"on", "off"} THEN {Outcome}
  ELSE Try(HasAdapter, [daemon EXCEPT !.powered = on, !.discovering = @ /\ on])
Scan(on) == Try(Works, [daemon EXCEPT !.discovering = on])
ScanEnable(on) == Try(HasAdapter, [daemon EXCEPT !.discoverable = on])

(* bz_connect(), bz_disconnect(), bz_trust(), bz_remove().                      *)
LinkPeer(p, on) ==
  Try(Works /\ Knows(p), [daemon EXCEPT !.peers[p].connected = on])
Trust(p, on) == Try(Knows(p), [daemon EXCEPT !.peers[p].trusted = on])
Forget(p) == Try(Knows(p), [daemon EXCEPT !.peers[p] = Absent])

(* bz_pair(): one at a time, and only with an agent.                            *)
PairPeer ==
  {Outcome} \cup
  IF pane.pairing THEN {} ELSE {[Outcome EXCEPT !.pairing = TRUE, !.again = TRUE]}

(* bz_request() *)
Reply ==
  {IF pane.asked = "none" THEN [Outcome EXCEPT !.said = FALSE]
   ELSE [Outcome EXCEPT !.asked = "none", !.again = TRUE]}

(* bt_activate(): Enter does what the row is for.                               *)
Activate(row) ==
  CASE row.kind = "adapter" -> Power(~row.on)
    [] row.kind = "device" -> IF row.on THEN LinkPeer(row.id, FALSE)
                              ELSE IF row.peer.paired THEN LinkPeer(row.id, TRUE)
                              ELSE PairPeer
    [] row.kind = "discoverable" -> ScanEnable(~row.on)
    [] row.kind = "scan" -> Scan(~row.on)
    [] row.kind = "request" -> Reply

(* bz_setup(): on this stack, trust.                                            *)
SetUp(row) ==
  IF row.peer.paired THEN Trust(row.id, ~row.peer.trusted) ELSE {Outcome}

(* The custom keys.                                                             *)
Custom(key, row) ==
  CASE key = "scan" ->
         IF pane.adapter \in {"on", "off"} THEN Scan(TRUE) ELSE {Outcome}
    [] key # "scan" /\ row.kind # "device" -> {Outcome}
    [] key = "disconnect" /\ row.kind = "device" -> LinkPeer(row.id, FALSE)
    [] key = "forget" /\ row.kind = "device" ->
         IF row.peer.paired THEN Forget(row.id) ELSE {Outcome}
    [] key = "setup" /\ row.kind = "device" -> SetUp(row)

(* bluetooth_mode_result(): what was told before is cleared first, and the      *)
(* dialog reloads at once.                                                      *)
Pressed(o) ==
  LET p == [pane EXCEPT !.asked = o.asked, !.pairing = o.pairing,
                        !.status = IF o.said THEN told + 1 ELSE 0]
  IN /\ daemon' = o.daemon
     /\ underway' = IF o.daemon = daemon THEN underway ELSE underway + 1
     /\ IF o.again
        THEN \E d \in {daemon', NoAnswer} : pane' = ReadAgain(p, d)
        ELSE pane' = p
     /\ drawn' = Surface(pane') /\ told' = told + 1
     /\ UNCHANGED <<redraw, changed>>

PressEnter ==
  /\ pane.live /\ told < MaxTold
  /\ \E i \in DOMAIN pane.rows : \E o \in Activate(pane.rows[i]) : Pressed(o)

NoPeerRow == PeerRow("none", "", FALSE)

PressCustom ==
  /\ pane.live /\ told < MaxTold
  /\ \E key \in {"scan", "disconnect", "forget", "setup"},
        row \in {NoPeerRow} \cup {pane.rows[i] : i \in DOMAIN pane.rows} :
       \E o \in Custom(key, row) : Pressed(o)
--------------------------------------------------------------------------------
(* bz_agent_method(), bz_request_hold(): a question, or a notice, which gives   *)
(* way to a question.                                                           *)
Asks ==
  /\ pane.live /\ pane.asked # "question" /\ told < MaxTold
  /\ \E what \in {"question", "notice"} : Refresh([pane EXCEPT !.asked = what])
  /\ redraw' = TRUE
  /\ UNCHANGED <<daemon, underway, drawn, told, changed>>

(* Cancel; and a device that wants a code typed in.                             *)
Withdraws ==
  /\ pane.live /\ told < MaxTold
  /\ Refresh(SaidOf([pane EXCEPT !.asked = "none"]))
  /\ redraw' = TRUE /\ told' = told + 1
  /\ UNCHANGED <<daemon, underway, drawn, changed>>

WantsCode ==
  /\ pane.live /\ told < MaxTold
  /\ pane' = SaidOf(pane) /\ redraw' = TRUE /\ told' = told + 1
  /\ UNCHANGED <<daemon, underway, drawn, changed>>

(* Mutant of PairEnds: the rows are new and the view is not told. *)
PairEndsUnseen ==
  /\ pane.live /\ pane.pairing
  /\ Refresh(SaidOf([pane EXCEPT !.pairing = FALSE,
                                 !.asked = IF @ = "notice" THEN "none" ELSE @]))
  /\ told' = told + 1
  /\ UNCHANGED <<daemon, underway, drawn, redraw, changed>>

(* bz_pair_done() of a pairing this panel began: a notice goes with it.         *)
PairEnds ==
  /\ pane.live /\ pane.pairing
  /\ Refresh(SaidOf([pane EXCEPT !.pairing = FALSE,
                                 !.asked = IF @ = "notice" THEN "none" ELSE @]))
  /\ redraw' = TRUE /\ told' = told + 1
  /\ UNCHANGED <<daemon, underway, drawn, changed>>
--------------------------------------------------------------------------------
(* bluetoothd (external): what others and the radio change is signalled; what   *)
(* it forgets when it dies is not, and it tells of its objects when it starts.  *)
DaemonBecomes(d, signalled) ==
  /\ changed < MaxChanged
  /\ d # daemon
  /\ daemon' = d /\ changed' = changed + 1
  /\ underway' = IF signalled /\ pane.live THEN underway + 1 ELSE underway
  /\ UNCHANGED <<pane, drawn, redraw, told>>

Changes ==
  /\ daemon.up
  /\ \/ \E p \in Peers, s \in Standings :
          DaemonBecomes([daemon EXCEPT !.peers[p] = s], TRUE)
     \/ \E on \in BOOLEAN :
          DaemonBecomes([daemon EXCEPT !.powered = on, !.discovering = on /\ @],
                        TRUE)
     \/ \E c \in Controllers : DaemonBecomes(c, TRUE)

Dies == daemon.up /\ DaemonBecomes(NoAnswer, FALSE)
Starts == ~daemon.up /\ \E c \in Controllers : DaemonBecomes(c, TRUE)

PeerNext ==
  \/ OpenPanel \/ ClosePanel \/ Draw \/ SignalArrives \/ RebuildNow
  \/ PressEnter \/ PressCustom \/ Asks \/ Withdraws \/ WantsCode \/ PairEnds
  \/ Changes \/ Dies \/ Starts
--------------------------------------------------------------------------------
(* The rows are what bluetoothd knows, or it did not answer, or a signal that   *)
(* they are not is on its way to a rebuild: no key has to be pressed, whoever   *)
(* made the change, and also when a call of ours was carried out and answered   *)
(* too late (bluetooth-bluez.c:63).                                             *)
DevicesCatchUp ==
  pane.live /\ daemon.up /\ underway = 0 /\ ~pane.coalesce =>
    pane.rows \in {ReadAgain(pane, d).rows : d \in {daemon, NoAnswer}}

(* What is on the screen is what the mode holds, or a redraw is on its way; and *)
(* the message bar tells of the last key or the last word of the agent, never   *)
(* of an earlier one and never of nothing (bluetooth.c:2173, 2567).             *)
LastIsTold ==
  pane.live => /\ pane.status = told
               /\ redraw \/ drawn = Surface(pane)
================================================================================
