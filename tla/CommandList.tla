------------------------------- MODULE CommandList -----------------------------
(* What the run and the ssh mode list (modes/run.c, modes/ssh.c): first what is *)
(* in the history, then what is found, without what was listed already.  What   *)
(* is launched goes to the history; a row can be deleted from it.               *)
(*                                                                              *)
(* A name is a number, and names sort as those; the last set of a path may be   *)
(* what run-list-command prints.  A line of the history is a name with how it   *)
(* is to be run (by its quoted name, as it was typed, with a file) or with the  *)
(* host's other names.  Out: names that differ in case only, ports, files that  *)
(* include others, patterns, what a command line is made of; two launchers that *)
(* write at the same time.                                                      *)
EXTENDS Integers, Sequences, FiniteSets, SequencesExt

CONSTANTS
  Programs,      \* names: in the directories of PATH
  Supplies,      \* what there may be: [path: a sequence of sets of names,
                 \*   config: of sequences of names, known, hosts: of names]
  MaxCommands,      \* bound: sessions and results
  MaxSupplies    \* bound: changes of what there is

ASSUME CommandListAssumption ==
  Programs \subseteq Nat /\ MaxCommands \in Nat /\ MaxSupplies \in Nat

VARIABLES
  supply,      \* one of Supplies
  favourites,  \* the lines of each mode's history, the most launched first
  listing,     \* [mode: "closed", "run" or "ssh", rows, picked: 0 or the row a
               \*   file is being chosen for]
  listRead,    \* ghost: [supply, favourites] when the rows were made
  dropped,     \* ghost: the lines deleted from run's and not launched since
  attempts, supplies

commandVars == <<supply, favourites, listing, listRead, dropped, attempts, supplies>>

ClosedList == [mode |-> "closed", rows |-> <<>>, picked |-> 0]

CommandInit(on) ==
  /\ supply \in IF on THEN Supplies ELSE {CHOOSE s \in Supplies : TRUE}
  /\ favourites = [run |-> <<>>, ssh |-> <<>>] /\ listing = ClosedList /\ dropped = {}
  /\ listRead = [supply |-> supply, favourites |-> <<>>]
  /\ attempts = (IF on THEN 0 ELSE MaxCommands) /\ supplies = (IF on THEN 0 ELSE MaxSupplies)
--------------------------------------------------------------------------------
HistoryLine(name, how, more) == [name |-> name, how |-> how, more |-> more]
Host(name, more) == HistoryLine(name, "host", more)
BlankRow == HistoryLine(0, "", <<>>)
NamesOf(rows) == {rows[i].name : i \in DOMAIN rows}

(* The rows in order, blanks last: sort_func() *)
SortFunc(a, b) == a.name # 0 /\ (b.name = 0 \/ a.name < b.name)
RunSorted(rows) ==
  LET place == SetToSortSeq(DOMAIN rows,
                 LAMBDA i, j : \/ SortFunc(rows[i], rows[j])
                               \/ (~SortFunc(rows[j], rows[i]) /\ i < j))
  IN [k \in DOMAIN place |-> rows[place[k]]]

(* Mutant of Blanked: two of the same name are one too few. *)
BlankedButOne(rows) ==
  [i \in DOMAIN rows |->
     IF i + 2 <= Len(rows) /\ rows[i + 2].name = rows[i].name THEN BlankRow ELSE rows[i]]

(* A row is blanked when the next one is the same. *)
Blanked(rows) ==
  [i \in DOMAIN rows |->
     IF i < Len(rows) /\ rows[i + 1].name = rows[i].name THEN BlankRow ELSE rows[i]]

(* get_apps() of run.c *)
RunList(history) ==
  LET FoundIn(dir) == SetToSeq({HistoryLine(n, "quoted", <<>>) : n \in dir \ NamesOf(history)})
      all == RunSorted(FlattenSeq([d \in DOMAIN supply.path |-> FoundIn(supply.path[d])]))
      blanked == Blanked(all)
  IN history \o SubSeq(RunSorted(blanked), 1,
                     Len(all) - Cardinality({i \in DOMAIN all : blanked[i].name = 0}))

(* parse_ssh_config_file(): the names of a "Host" line that no favourite has    *)
EveryName(rows) == NamesOf(rows) \cup UNION {ToSet(rows[i].more) : i \in DOMAIN rows}
HostLine(history, names) ==
  LET new == SelectSeq(names, LAMBDA n : n \notin EveryName(history))
  IN IF new = <<>> THEN <<>> ELSE <<Host(Head(new), Tail(new))>>

(* read_known_hosts_file() and read_hosts_file() *)
AddHosts(rows, names) ==
  FoldLeft(LAMBDA got, n : IF n \in NamesOf(got) THEN got ELSE Append(got, Host(n, <<>>)),
           rows, names)

(* get_ssh() *)
SshList(history) ==
  LET fromConfig == [i \in DOMAIN supply.config |-> HostLine(history, supply.config[i])]
  IN AddHosts(AddHosts(history \o FlattenSeq(fromConfig), supply.known), supply.hosts)

ListOf(mode, history) == IF mode = "run" THEN RunList(history) ELSE SshList(history)
--------------------------------------------------------------------------------
Attempt == attempts < MaxCommands /\ attempts' = attempts + 1

(* history_set() of a line, which comes to lie anywhere, and history_remove() *)
Removed(line) == SelectSeq(favourites[listing.mode], LAMBDA l : l # line)
HistorySet(line) ==
  /\ \E k \in 1..(Len(Removed(line)) + 1) :
       favourites' = [favourites EXCEPT ![listing.mode] = InsertAt(Removed(line), k, line)]
  /\ dropped' = dropped \ {line}

(* run_mode_init() and ssh_mode_init() *)
OpenList(mode) ==
  /\ listing.mode = "closed" /\ Attempt
  /\ listing' = [mode |-> mode, rows |-> ListOf(mode, favourites[mode]), picked |-> 0]
  /\ listRead' = [supply |-> supply, favourites |-> favourites[mode]]
  /\ UNCHANGED <<supply, favourites, dropped, supplies>>

(* exec_cmd() and exec_ssh(): after a command that failed the list stays for    *)
(* another one, but not after a host that cannot be connected to                *)
Executes(line) == HistorySet(line) /\ listing' = ClosedList
CommandFails(line) ==
  /\ favourites' = [favourites EXCEPT !.run = Removed(line)] /\ UNCHANGED dropped
  /\ listing' = IF listing.picked = 0 THEN listing ELSE ClosedList
LaunchLine(line) ==
  \/ Executes(line)
  \/ listing.mode = "run" /\ CommandFails(line)
  \/ listing.mode = "ssh" /\ listing' = ClosedList /\ UNCHANGED <<favourites, dropped>>

(* run_mode_result() and ssh_mode_result() *)
ChooseCommand(row) ==
  /\ listing.picked = 0 /\ Attempt /\ LaunchLine(listing.rows[row])
  /\ UNCHANGED <<supply, listRead, supplies>>
TypedCommand(name) ==
  /\ listing.mode # "closed" /\ listing.picked = 0 /\ Attempt
  /\ LaunchLine(HistoryLine(name, IF listing.mode = "run" THEN "typed" ELSE "host", <<>>))
  /\ UNCHANGED <<supply, listRead, supplies>>

(* A host is removed by its name, which is no line of the history: those have   *)
(* the port as well.                                                            *)
DeleteCommand(row) ==
  /\ listing.picked = 0 /\ Attempt
  /\ LET line == listing.rows[row]
     IN IF listing.mode = "run"
        THEN /\ favourites' = [favourites EXCEPT !.run = Removed(line)]
             /\ dropped' = dropped \cup {line}
        ELSE UNCHANGED <<favourites, dropped>>
  /\ listing' = [listing EXCEPT !.rows = ListOf(listing.mode, favourites'[listing.mode])]
  /\ listRead' = [supply |-> supply, favourites |-> favourites'[listing.mode]]
  /\ UNCHANGED <<supply, supplies>>

(* A file is chosen for a command: the command is run with it, or alone. *)
PickCommand(row) ==
  /\ listing.mode = "run" /\ listing.picked = 0 /\ Attempt
  /\ listing' = [listing EXCEPT !.picked = row]
  /\ UNCHANGED <<supply, favourites, listRead, dropped, supplies>>
PickedFile ==
  /\ listing.picked # 0 /\ Attempt
  /\ LET line == listing.rows[listing.picked]
     IN \E l \in {line, HistoryLine(line.name, "with a file", <<>>)} :
          Executes(l) \/ CommandFails(l)
  /\ UNCHANGED <<supply, listRead, supplies>>
PickedNone ==
  /\ listing.picked # 0 /\ listing' = [listing EXCEPT !.picked = 0]
  /\ UNCHANGED <<supply, favourites, listRead, dropped, attempts, supplies>>

(* run_mode_destroy() and ssh_mode_destroy() *)
LeaveList ==
  /\ listing.mode # "closed" /\ listing' = ClosedList
  /\ UNCHANGED <<supply, favourites, listRead, dropped, attempts, supplies>>

(* Programs or hosts come or go. *)
Resupply ==
  /\ supplies < MaxSupplies /\ supplies' = supplies + 1
  /\ supply' \in Supplies
  /\ UNCHANGED <<favourites, listing, listRead, dropped, attempts>>

CommandNext ==
  \/ \E mode \in {"run", "ssh"} : OpenList(mode)
  \/ \E row \in DOMAIN listing.rows :
       ChooseCommand(row) \/ DeleteCommand(row) \/ PickCommand(row)
  \/ \E name \in Programs : TypedCommand(name)
  \/ PickedFile \/ PickedNone \/ LeaveList \/ Resupply
--------------------------------------------------------------------------------
(* A list is the history, then everything else there is, sorted, and nothing    *)
(* twice (run.c:221-400); of hosts, those that "known_hosts" and /etc/hosts add *)
(* are nobody's twice (ssh.c:506-580).  What was deleted from the run mode's    *)
(* history comes back only when it is run again.                                *)
CommandsListed ==
  LET s == listRead.supply
      first == Len(listRead.favourites)
      rows == listing.rows
      rest == SubSeq(rows, first + 1, Len(rows))
      old == listRead.favourites
  IN /\ listing.mode # "closed" => SubSeq(rows, 1, first) = old
     /\ listing.mode = "run" =>
          /\ NamesOf(rest) = UNION ToSet(s.path) \ NamesOf(old)
          /\ \A i, j \in DOMAIN rest : i < j => rest[i].name < rest[j].name
     /\ listing.mode = "ssh" =>
          /\ EveryName(rows) = EveryName(old) \cup UNION {ToSet(s.config[i]) : i \in DOMAIN s.config}
                              \cup ToSet(s.known) \cup ToSet(s.hosts)
          /\ \A i, j \in DOMAIN rows :
               i < j /\ rows[i].name = rows[j].name
               => j <= first \/ \E k \in DOMAIN s.config : rows[j].name \in ToSet(s.config[k])
     /\ dropped \cap ToSet(favourites.run) = {}
================================================================================
