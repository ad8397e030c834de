-------------------------------- MODULE MCDesktop --------------------------------
(* An instance of the tray and of the panels for TLC.  They share no state: a *)
(* behaviour is one of one of them, the others being off.                     *)
EXTENDS Tray, NetworkJoin, BluetoothAgent, NetgraphPairing, DisplayPanel

Publisher == [i \in Items |-> IF i = "c" THEN "y" ELSE "x"]

Network(ssid, key) == [ssid |-> ssid, key |-> key, enabled |-> TRUE]
MCConfigurations == {<<Network("home", "right"), Network("cafe", "wrong")>>}

Parts == {"tray", "network", "agent", "pairing", "display"}

InitOf(part) ==
  /\ TrayInit(part = "tray") /\ NetworkInit(part = "network")
  /\ AgentInit(part = "agent") /\ PairingInit(part = "pairing")
  /\ DisplayInit(part = "display")

Next ==
  \/ TrayNext
     /\ UNCHANGED <<networkVars, agentVars, pairingVars, displayVars>>
  \/ NetworkNext /\ UNCHANGED <<trayVars, agentVars, pairingVars, displayVars>>
  \/ AgentNext /\ UNCHANGED <<trayVars, networkVars, pairingVars, displayVars>>
  \/ PairingNext /\ UNCHANGED <<trayVars, networkVars, agentVars, displayVars>>
  \/ DisplayNext /\ UNCHANGED <<trayVars, networkVars, agentVars, pairingVars>>

vars == <<trayVars, networkVars, agentVars, pairingVars, displayVars>>

Init == \E part \in Parts : InitOf(part)
Spec == Init /\ [][Next]_vars /\ TrayFairness

DisplayInitOnly == InitOf("display")
DisplaySpec == DisplayInitOnly /\ [][Next]_vars
================================================================================
