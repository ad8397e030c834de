------------------------------- MODULE NetworkJoin -------------------------------
(* The network panel over the base system (modes/network.c): what joining and *)
(* forgetting do to the supplicant's networks and to its configuration file.  *)
(*                                                                            *)
(* Every operation is a run of wpa_cli commands: each may fail, and the       *)
(* supplicant goes on by itself between two of them.                          *)
EXTENDS Integers, Sequences, FiniteSetsExt, Functions

CONSTANTS
  Ssids, Secured,    \* names of networks in reach, those that need a key
  Configurations,    \* files the supplicant may start with
  MayFail,           \* commands that may fail
  MaxNetwork         \* last number of a network in a run

NetworkEntry == [ssid : Ssids \cup {"none"}, key : {"none", "right", "wrong"},
          enabled : BOOLEAN]

ASSUME NetworkAssumption ==
  /\ Secured \subseteq Ssids /\ MaxNetwork \in Nat
  /\ Configurations \subseteq Seq(NetworkEntry)

VARIABLES
  supplicant,  \* the number of the network in use, 0 for none, -1: switched off
  networks,    \* the supplicant's networks, by number
  file,        \* wpa_supplicant.conf
  known,       \* names the panel's rows show as saved
  join         \* the operation in progress, or how the last one ended

networkVars == <<supplicant, networks, file, known, join>>

SavedIn(nets) == {nets[n].ssid : n \in DOMAIN nets}
Saved == SavedIn(networks)

NetworkInit(on) ==
  /\ file \in Configurations
  /\ networks = file
  /\ supplicant = IF on THEN 0 ELSE -1
  /\ known = SavedIn(file)
  /\ join = [at |-> "rest"]

SupplicantOn == supplicant >= 0
AtRest == join.at \in {"rest", "ended"}
--------------------------------------------------------------------------------
(* The supplicant (external). *)

(* It joins an enabled network whose key is right, or loses the one it is on. *)
Associate ==
  /\ SupplicantOn
  /\ supplicant' \in {0} \cup {n \in DOMAIN networks :
                                 networks[n].enabled /\ networks[n].key = "right"}
  /\ UNCHANGED <<networks, file, known, join>>

(* It is restarted, and so are its numbers.  The panel that asked for it      *)
(* (reset_all) is closed.                                                     *)
RestartSupplicant ==
  /\ SupplicantOn /\ AtRest
  /\ supplicant' = 0 /\ networks' = file
  /\ known' = SavedIn(file)
  /\ join' = [at |-> "rest"]
  /\ UNCHANGED file

(* save_config, in the order of the numbers *)
Written(nets) ==
  LET D == DOMAIN nets
  IN [k \in 1..Cardinality(D) |->
        nets[CHOOSE n \in D : Cardinality({m \in D : m <= n}) = k]]

EnabledAll(nets) == [n \in DOMAIN nets |-> [nets[n] EXCEPT !.enabled = TRUE]]

WithoutNetwork(n) == [k \in DOMAIN networks \ {n} |-> networks[k]]

(* A network that is gone or disabled is left. *)
Stays(nets) ==
  supplicant' = IF supplicant \in DOMAIN nets /\ nets[supplicant].enabled
                THEN supplicant ELSE 0

(* select_network *)
SelectOnly(n) == [k \in DOMAIN networks |-> [networks[k] EXCEPT !.enabled = k = n]]
--------------------------------------------------------------------------------
(* net_base_join() *)

(* Of networks with one name list_networks ends with the last. *)
Number(s) == Max({n \in DOMAIN networks : networks[n].ssid = s})

JoinAt(place) == SupplicantOn /\ join.at = place

JoinEnded(ok) == [join EXCEPT !.at = "ended", !.ok = ok]

Started(s, new, key) ==
  [at |-> IF new THEN "add" ELSE "list", ssid |-> s, new |-> new, key |-> key,
   number |-> 0, ok |-> FALSE, networks |-> networks, file |-> file]

Fails(command) ==
  /\ command \in MayFail
  /\ UNCHANGED <<supplicant, networks, file, known>>

(* Enter: a key is asked for when the network is secured and not known.       *)
StartJoin(s) ==
  /\ SupplicantOn /\ AtRest
  /\ \E key \in IF s \in Secured /\ s \notin known THEN {"right", "wrong"} ELSE {"right"} :
       join' = Started(s, s \notin known, key)
  /\ UNCHANGED <<supplicant, networks, file, known>>

ListNetworks ==
  /\ JoinAt("list")
  /\ \/ Fails("list") /\ join' = JoinEnded(FALSE)
     \/ /\ join' = IF join.ssid \in Saved
                   THEN [join EXCEPT !.at = "select", !.number = Number(join.ssid)]
                   ELSE JoinEnded(FALSE)
        /\ UNCHANGED <<supplicant, networks, file, known>>

AddNetwork ==
  /\ JoinAt("add")
  /\ \/ Fails("add") /\ join' = JoinEnded(FALSE)
     \/ LET n == Max(DOMAIN networks \cup {0}) + 1
        IN /\ n <= MaxNetwork
           /\ networks' = [k \in DOMAIN networks \cup {n} |->
                IF k = n THEN [ssid |-> "none", key |-> "none", enabled |-> FALSE]
                ELSE networks[k]]
           /\ join' = [join EXCEPT !.at = "ssid", !.number = n]
           /\ UNCHANGED <<supplicant, file, known>>

SetSsid ==
  /\ JoinAt("ssid")
  /\ \/ Fails("set") /\ join' = [join EXCEPT !.at = "undo"]
     \/ /\ networks' = [networks EXCEPT ![join.number].ssid = join.ssid]
        /\ join' = [join EXCEPT !.at = "key"]
        /\ UNCHANGED <<supplicant, file, known>>

SetKey ==
  /\ JoinAt("key")
  /\ \/ Fails("set") /\ join' = [join EXCEPT !.at = "undo"]
     \/ /\ networks' = [networks EXCEPT ![join.number].key = join.key]
        /\ join' = [join EXCEPT !.at = "select"]
        /\ UNCHANGED <<supplicant, file, known>>

(* Where a join goes on that has failed, and one that has not. *)
JoinFailed == [join EXCEPT !.at = IF join.new THEN "undo" ELSE "enable"]
JoinDone == [join EXCEPT !.at = IF join.new THEN "save" ELSE "enable", !.ok = TRUE]

SelectNetwork ==
  /\ JoinAt("select")
  /\ \/ Fails("select") /\ join' = JoinFailed
     \/ /\ networks' = SelectOnly(join.number)
        /\ Stays(networks')
        /\ join' = [join EXCEPT !.at = "wait"]
        /\ UNCHANGED <<file, known>>

(* net_base_wait_connected(): the network is seen in use within ten seconds,  *)
(* or not.                                                                    *)
Connected ==
  /\ JoinAt("wait") /\ supplicant # 0 /\ networks[supplicant].ssid = join.ssid
  /\ join' = JoinDone
  /\ UNCHANGED <<supplicant, networks, file, known>>

NotConnected ==
  /\ JoinAt("wait")
  /\ join' = JoinFailed
  /\ UNCHANGED <<supplicant, networks, file, known>>

SaveConfig ==
  /\ JoinAt("save")
  /\ \/ Fails("save")
     \/ file' = Written(networks) /\ UNCHANGED <<supplicant, networks, known>>
  /\ join' = [join EXCEPT !.at = "enable"]

RemoveFailed ==
  /\ JoinAt("undo")
  /\ \/ Fails("remove")
     \/ /\ networks' = WithoutNetwork(join.number)
        /\ Stays(networks')
        /\ UNCHANGED <<file, known>>
  /\ join' = [join EXCEPT !.at = "enable"]

(* Mutant of EnableAll: only a join that failed enables the others again. *)
EnableAfterFailure ==
  /\ JoinAt("enable")
  /\ IF join.ok THEN UNCHANGED networks ELSE networks' = EnabledAll(networks)
  /\ join' = IF join.ok THEN JoinEnded(TRUE) ELSE [join EXCEPT !.at = "reassociate"]
  /\ UNCHANGED <<supplicant, file, known>>

(* net_base_enable_all() *)
EnableAll ==
  /\ JoinAt("enable")
  /\ \/ Fails("enable")
     \/ networks' = EnabledAll(networks) /\ UNCHANGED <<supplicant, file, known>>
  /\ join' = IF join.ok THEN JoinEnded(TRUE) ELSE [join EXCEPT !.at = "reassociate"]

Reassociate ==
  /\ JoinAt("reassociate")
  /\ supplicant' = 0
  /\ join' = JoinEnded(FALSE)
  /\ UNCHANGED <<networks, file, known>>
--------------------------------------------------------------------------------
(* net_base_forget(), Alt+3 on a row that is known.  None of its commands      *)
(* waits for anything: it is one step.                                        *)
Forget(s) ==
  /\ SupplicantOn /\ AtRest /\ s \in known
  /\ join' = [at |-> "rest"]
  /\ \/ Fails("list")
     \/ s \notin Saved /\ UNCHANGED <<supplicant, networks, file, known>>
     \/ /\ s \in Saved
        /\ LET left == WithoutNetwork(Number(s))
           IN /\ networks' = EnabledAll(left)
              /\ Stays(left)
              /\ \/ file' = Written(left)
                 \/ "save" \in MayFail /\ file' = file
              /\ known' = SavedIn(left)

(* net_refresh(), after Alt+1 and what changed something: when list_networks  *)
(* fails nothing is known.                                                    *)
RefreshNetworks ==
  /\ SupplicantOn /\ AtRest
  /\ known' \in {Saved} \cup (IF "list" \in MayFail THEN {{}} ELSE {})
  /\ UNCHANGED <<supplicant, networks, file, join>>

NetworkNext ==
  \/ Associate \/ RestartSupplicant \/ RefreshNetworks
  \/ \E s \in Ssids : StartJoin(s) \/ Forget(s)
  \/ ListNetworks \/ AddNetwork \/ SetSsid \/ SetKey \/ SelectNetwork
  \/ Connected \/ NotConnected \/ SaveConfig \/ RemoveFailed
  \/ EnableAll \/ Reassociate
--------------------------------------------------------------------------------
NameAndKey(nets) == [n \in DOMAIN nets |-> <<nets[n].ssid, nets[n].key>>]

(* A join that has failed leaves the networks and the file as it found them;  *)
(* one that has not adds its network, with a key that was seen to be right.   *)
(* Either way no network it found enabled is left disabled (network.c:896,    *)
(* :980), whatever the supplicant did meanwhile and however old the rows were.*)
JoinUndone ==
  join.at = "ended" =>
    LET before == NameAndKey(join.networks)
        added == IF join.ok /\ join.new THEN {join.number} ELSE {}
    IN /\ \A n \in DOMAIN networks :
            (n \in DOMAIN join.networks => join.networks[n].enabled)
              => networks[n].enabled
       /\ NameAndKey(networks) =
            [n \in DOMAIN before \cup added |->
               IF n \in added THEN <<join.ssid, "right">> ELSE before[n]]
       /\ \/ file = join.file
          \/ join.ok /\ Range(NameAndKey(file)) \subseteq Range(NameAndKey(networks))
================================================================================
