----------------------------- MODULE NetgraphPairing -----------------------------
(* The bluetooth panel over netgraph (modes/bluetooth.c): pairing, connecting,*)
(* setting up and forgetting a device, in files that hold the pairings of     *)
(* every other device too.                                                    *)
(*                                                                            *)
(* Each command needs root and may fail; the files may be edited by hand when *)
(* no command runs, and the rows may be older than they are.                  *)
EXTENDS Integers, Sequences, SequencesExt, SequenceLemmas

CONSTANTS
  Devices,      \* addresses of devices
  Default,      \* hcsecd's entry for every other device (BT_DEFAULT_BDADDR)
  InputDevices, \* devices that need an entry of bthidd
  Pins,         \* PINs the user may type
  MaxEvents,    \* edits by hand and events of a device in a run
  MaxEntries    \* entries of bthidd.conf in a run

ASSUME PairingAssumption ==
  /\ InputDevices \subseteq Devices /\ Default \notin Devices /\ Pins # {}
  /\ MaxEvents \in Nat /\ MaxEntries \in Nat

Stanza(d, pin) == [device |-> d, pin |-> pin]

VARIABLES
  hcsecd,    \* hcsecd.conf: a sequence of stanzas
  bthidd,    \* bthidd.conf: a sequence of devices, empty when there is no file
  loaded,    \* what hcsecd has read
  linked,    \* devices that are connected
  row,       \* per device: what its row says
  op,        \* the operation in progress and the command it is at
  events

pairingVars == <<hcsecd, bthidd, loaded, linked, row, op, events>>

Rest == [verb |-> "none", device |-> Default, at |-> "rest"]

Stanzas(file, d) == Without(file, {s \in ToSet(file) : s.device # d})
WithoutStanza(file, d) == Without(file, {s \in ToSet(file) : s.device = d})
HasStanza(d) == Stanzas(hcsecd, d) # <<>>

(* bt_hcsecd_read(): root's file may not be readable, with privilege or not.  *)
ReadStanzas(stanzas) == {stanzas, <<>>}

(* bt_read_hids(): bthidcontrol knows the devices of bthidd.conf that have    *)
(* been connected since.                                                      *)
ReadHids(entries) == SUBSET ToSet(entries)

(* bt_ng_devices(): the rows say what could be read.                          *)
PairingRows(stanzas, entries, links) ==
  {[d \in Devices |-> [paired |-> Stanzas(file, d) # <<>>,
                       hid |-> d \in known, connected |-> d \in links]] :
     file \in ReadStanzas(stanzas), known \in ReadHids(entries)}

PairingInit(on) ==
  /\ hcsecd \in IF on THEN {<<Stanza(Default, "nopin"), Stanza(d, pin)>> :
                             d \in Devices, pin \in Pins} ELSE {<<>>}
  /\ bthidd \in {<<>>} \cup IF on THEN {<<d>> : d \in InputDevices} ELSE {}
  /\ loaded = hcsecd /\ linked = {}
  /\ row \in PairingRows(hcsecd, bthidd, linked)
  /\ op = [Rest EXCEPT !.at = IF on THEN "rest" ELSE "off"]
  /\ events = 0

PairingAt(place) == op.at = place
PairingGoto(place) == op' = [op EXCEPT !.at = place]

(* The operation is over; after one that did something the rows are read again. *)
EndUnchanged == op' = Rest /\ UNCHANGED row
EndChanged == op' = Rest /\ row' \in PairingRows(hcsecd', bthidd', linked')
--------------------------------------------------------------------------------
(* bt_activate(), Alt+3, Alt+4 *)

Begin(verb, d, place) ==
  /\ PairingAt("rest")
  /\ op' = [verb |-> verb, device |-> d, at |-> place, pin |-> "nopin"]
  /\ UNCHANGED <<hcsecd, bthidd, loaded, linked, row, events>>

BeginPair(d) == ~row[d].connected /\ ~row[d].paired /\ Begin("pair", d, "prompt")
BeginConnect(d) == ~row[d].connected /\ row[d].paired /\ Begin("connect", d, "link")
BeginSetup(d) == d \in InputDevices /\ Begin("setup", d, "hid")
BeginForget(d) == (row[d].paired \/ row[d].hid) /\ Begin("forget", d, "unlink")

Disconnect(d) ==
  /\ PairingAt("rest") /\ row[d].connected
  /\ \/ linked' = linked \ {d} /\ row' \in PairingRows(hcsecd, bthidd, linked')
     \/ UNCHANGED <<linked, row>>
  /\ UNCHANGED <<hcsecd, bthidd, loaded, op, events>>

(* bt_pair(): the user types a PIN, or cancels. *)
Prompt ==
  /\ PairingAt("prompt")
  /\ \/ EndUnchanged
     \/ \E pin \in Pins : op' = [op EXCEPT !.at = "stanza", !.pin = pin] /\ UNCHANGED row
  /\ UNCHANGED <<hcsecd, bthidd, loaded, linked, events>>

(* bt_hcsecd_upsert(): replaced by removing and appending ... *)
WriteStanza ==
  /\ PairingAt("stanza")
  /\ \/ EndUnchanged /\ UNCHANGED hcsecd
     \/ /\ hcsecd' = Append(WithoutStanza(hcsecd, op.device), Stanza(op.device, op.pin))
        /\ PairingGoto("load") /\ UNCHANGED row
  /\ UNCHANGED <<bthidd, loaded, linked, events>>

(* ... and read by hcsecd before the link is made. *)
LoadStanza ==
  /\ PairingAt("load")
  /\ \/ EndUnchanged /\ UNCHANGED loaded
     \/ loaded' = hcsecd /\ PairingGoto("link") /\ UNCHANGED row
  /\ UNCHANGED <<hcsecd, bthidd, linked, events>>

(* bt_connect(): an input device that bthidd does not know is set up as well. *)
Link ==
  /\ PairingAt("link")
  /\ UNCHANGED <<hcsecd, bthidd, loaded, events>>
  /\ \/ /\ linked' = linked \cup {op.device}
        /\ IF op.device \in InputDevices /\ ~row[op.device].hid
           THEN PairingGoto("hid") /\ UNCHANGED row
           ELSE EndChanged
     \/ /\ UNCHANGED linked
        /\ IF op.verb = "pair" THEN PairingGoto("unstanza") /\ UNCHANGED row
           ELSE EndUnchanged

(* bt_hcsecd_remove(), for a pairing that failed or a device to forget. *)
RemoveStanza ==
  /\ PairingAt("unstanza")
  /\ IF op.verb = "pair" THEN EndUnchanged ELSE PairingGoto("unkey") /\ UNCHANGED row
  /\ \/ UNCHANGED <<hcsecd, loaded>>
     \/ /\ HasStanza(op.device)
        /\ hcsecd' = WithoutStanza(hcsecd, op.device) /\ loaded' \in {loaded, hcsecd'}
  /\ UNCHANGED <<bthidd, linked, events>>

(* Mutant of Extended: a file that cannot be read is taken for an empty one.  *)
ExtendedUnread ==
  {<<op.device>>} \cup IF Len(bthidd) < MaxEntries THEN {Append(bthidd, op.device)} ELSE {}

(* bthidd.conf after bt_setup_hid(): as it was when the device does not       *)
(* answer or the file is there and cannot be read, else with one more entry.  *)
Extended ==
  IF Len(bthidd) < MaxEntries THEN {Append(bthidd, op.device)} ELSE {}

(* Then bthidd is restarted. *)
SetupHid ==
  /\ PairingAt("hid")
  /\ UNCHANGED <<hcsecd, loaded, linked, events>>
  /\ \/ bthidd' \in Extended /\ EndChanged
     \/ /\ bthidd' \in {bthidd} \cup Extended
        /\ IF op.verb = "setup" THEN EndUnchanged ELSE EndChanged

(* bt_forget(): the link, then the stanza, then the keys. *)
Unlink ==
  /\ PairingAt("unlink")
  /\ linked' \in {linked} \cup (IF row[op.device].connected THEN {linked \ {op.device}} ELSE {})
  /\ PairingGoto("unstanza")
  /\ UNCHANGED <<hcsecd, bthidd, loaded, row, events>>

DeleteKeys ==
  /\ PairingAt("unkey")
  /\ UNCHANGED <<hcsecd, bthidd, loaded, linked, events>>
  /\ EndUnchanged \/ EndChanged
--------------------------------------------------------------------------------
(* The machine: a device leaves or links by itself; hcsecd.conf is edited.    *)
Peer(d) ==
  /\ PairingAt("rest") /\ events < MaxEvents
  /\ events' = events + 1
  /\ linked' = IF d \in linked THEN linked \ {d} ELSE linked \cup {d}
  /\ UNCHANGED <<hcsecd, bthidd, loaded, row, op>>

Edit(d) ==
  /\ op.at \in {"rest", "prompt"} /\ events < MaxEvents
  /\ events' = events + 1
  /\ hcsecd' = IF HasStanza(d) THEN WithoutStanza(hcsecd, d)
               ELSE Append(hcsecd, Stanza(d, CHOOSE p \in Pins : TRUE))
  /\ UNCHANGED <<bthidd, loaded, linked, row, op>>

PairingNext ==
  \/ \E d \in Devices :
       \/ BeginPair(d) \/ BeginConnect(d) \/ BeginSetup(d) \/ BeginForget(d)
       \/ Disconnect(d) \/ Peer(d) \/ Edit(d)
  \/ Prompt \/ WriteStanza \/ LoadStanza \/ Link \/ RemoveStanza
  \/ SetupHid \/ Unlink \/ DeleteKeys
--------------------------------------------------------------------------------
(* Whatever fails, an operation on a device leaves the entries of every other *)
(* device, and the default entry, as they are in both files.  No device has   *)
(* two stanzas, of which hcsecd would see the first; and a device is linked   *)
(* for pairing only when hcsecd has read the PIN just typed.                  *)
PairingsKept ==
  /\ [][op' # op =>
        /\ \A d \in (Devices \cup {Default}) \ {op.device} :
             Stanzas(hcsecd', d) = Stanzas(hcsecd, d)
        /\ Without(bthidd', {op.device}) = Without(bthidd, {op.device})]_pairingVars
  /\ [](\A d \in Devices : Len(Stanzas(hcsecd, d)) <= 1)
  /\ [](op.at = "link" /\ op.verb = "pair"
          => Stanzas(loaded, op.device) = <<Stanza(op.device, op.pin)>>)
================================================================================
