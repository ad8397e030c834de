---------------------------------- MODULE Drun ---------------------------------
(* The list of applications (modes/drun.c).  Desktop files of several           *)
(* directories are merged by their id, what was launched most comes first, and  *)
(* the result may be kept in a file that later launchers read instead.          *)
(*                                                                              *)
(* An id is the number of its place in the order of names.  Out: how a file is  *)
(* parsed beyond whether it is shown, the fields that match, the command line;  *)
(* a launcher killed while it writes the cache.                                 *)
EXTENDS Integers, Sequences, FiniteSets, SequencesExt

CONSTANTS
  DesktopIds,    \* a set of numbers
  Directories,   \* the sequence in which they are walked
  Shelves,       \* what may lie in them at first
  MaxSessions,   \* bound: launchers, one after another
  MaxInstalls    \* bound: files that come, change or go meanwhile

(* "hidden" is Hidden, NoDisplay or for another desktop; "unfit" is refused for *)
(* anything else; an "acting" one has an action.                                *)
Kinds == {"none", "app", "acting", "hidden", "unfit"}
Places == {Directories[i] : i \in DOMAIN Directories}

ASSUME DrunAssumption ==
  /\ DesktopIds \subseteq Nat /\ IsFiniteSet(DesktopIds) /\ Directories # <<>>
  /\ Shelves \subseteq [Places -> [DesktopIds -> Kinds]]
  /\ MaxSessions \in Nat /\ MaxInstalls \in Nat

VARIABLES
  shelf,        \* shelf[directory][id]: the kind of the file there
  ranked,       \* the ids in the history, the one launched most first
  stored,       \* the cache file, as a set of at most one [rows, asRead]
  apps,         \* entry_list: [id, from, action, index]; of a launcher that is
  drunAt,       \*   "closed", "open" or "completing"
  completed,    \* rmpd->selected_line: the row a file is being chosen for
  asRead,         \* ghost: [shelf, ranked] when apps was read from the files
  removed,      \* ghost: what was deleted from apps since
  choices,      \* [actions, cache]: drun-show-actions, drun-use-desktop-cache
  sessions, installs

drunVars ==
  <<shelf, ranked, stored, apps, drunAt, completed, asRead, removed, choices,
    sessions, installs>>

App(directory, id, action) ==
  [id |-> id, from |-> directory, action |-> action, index |-> 0]

DrunInit(on) ==
  /\ shelf \in IF on THEN Shelves
               ELSE {[d \in Places |-> [i \in DesktopIds |-> "none"]]}
  /\ choices \in [actions : IF on THEN BOOLEAN ELSE {FALSE},
                  cache : IF on THEN BOOLEAN ELSE {FALSE}]
  /\ ranked \in IF on THEN SetToAllKPermutations(DesktopIds) ELSE {<<>>}
  /\ asRead = [shelf |-> shelf, ranked |-> <<>>]
  /\ stored = {} /\ apps = <<>> /\ removed = {}
  /\ drunAt = "closed" /\ completed = 0
  /\ sessions = IF on THEN 0 ELSE MaxSessions
  /\ installs = IF on THEN 0 ELSE MaxInstalls
--------------------------------------------------------------------------------
(* Mutant of Disabled: a file that is not to be shown is passed over. *)
DisabledIfShown(kind) == kind \in {"app", "acting"}

(* disabled_entries takes the id: no file of a later directory counts. *)
Disabled(kind) == kind \notin {"none", "unfit"}

(* read_desktop_file(), which reads a file anew for its action *)
ReadDesktopFile(pd, directory, id) ==
  LET kind == shelf[directory][id]
      rows == (IF kind \in {"app", "acting"} THEN <<App(directory, id, FALSE)>> ELSE <<>>)
              \o (IF kind = "acting" /\ choices.actions
                  THEN <<App(directory, id, TRUE)>> ELSE <<>>)
      first == Len(pd.rows)
  IN IF id \in pd.disabled THEN pd
     ELSE [rows |-> pd.rows \o [i \in DOMAIN rows |->
                                  [rows[i] EXCEPT !.index = -(first + i)]],
           disabled |-> pd.disabled \cup IF Disabled(kind) THEN {id} ELSE {}]

(* walk_dir(), in any order: the sort undoes it *)
WalkDir(pd, directory) ==
  FoldLeft(LAMBDA got, id : ReadDesktopFile(got, directory, id), pd,
           SetToSeq(DesktopIds))

(* get_apps_history() *)
AppsHistory(rows) ==
  [i \in DOMAIN rows |->
     IF \E k \in DOMAIN ranked : ranked[k] = rows[i].id
     THEN [rows[i] EXCEPT !.index = Len(ranked) + 1 -
             CHOOSE k \in DOMAIN ranked : ranked[k] = rows[i].id]
     ELSE rows[i]]

(* drun_int_sort_list(), on names or on the place in the history *)
SortsBefore(a, b) ==
  IF a.index < 0 /\ b.index < 0
  THEN a.id < b.id \/ (a.id = b.id /\ ~a.action /\ b.action)
  ELSE a.index > b.index

SortedApps(rows) ==
  LET place == SetToSortSeq(DOMAIN rows,
                 LAMBDA i, j : \/ SortsBefore(rows[i], rows[j])
                               \/ (~SortsBefore(rows[j], rows[i]) /\ i < j))
  IN [k \in DOMAIN place |-> rows[place[k]]]

(* The list from the files. *)
Scanned ==
  SortedApps(AppsHistory(
    FoldLeft(WalkDir, [rows |-> <<>>, disabled |-> {}], Directories).rows))

(* write_cache() and drun_read_cache(), which keeps no place in the history *)
Cached(rows) == [k \in DOMAIN rows |-> [rows[k] EXCEPT !.index = 0]]

(* drun_mode_init() and get_apps(); -drun-reload-desktop-cache reads no cache *)
OpenDrun(reload) ==
  /\ drunAt = "closed" /\ sessions < MaxSessions
  /\ IF choices.cache /\ stored # {} /\ ~reload
     THEN LET cacheFile == CHOOSE f \in stored : TRUE
          IN apps' = cacheFile.rows /\ asRead' = cacheFile.asRead /\ UNCHANGED stored
     ELSE /\ apps' = Scanned
          /\ asRead' = [shelf |-> shelf, ranked |-> ranked]
          /\ stored' = IF choices.cache THEN {[rows |-> Cached(apps'), asRead |-> asRead']}
                       ELSE stored
  /\ removed' = {} /\ drunAt' = "open" /\ sessions' = sessions + 1
  /\ UNCHANGED <<shelf, ranked, completed, choices, installs>>

(* drun_mode_destroy() *)
LeaveDrun ==
  /\ drunAt' = "closed" /\ apps' = <<>> /\ completed' = 0 /\ removed' = {}

(* exec_cmd_entry(): what is cached is parsed again first; the history counts,  *)
(* so that the id comes to lie anywhere                                         *)
Ranks(id) ==
  LET others == SelectSeq(ranked, LAMBDA other : other # id)
  IN {InsertAt(others, k, id) : k \in 1..(Len(others) + 1)}
Runs(row) ==
  /\ \/ ranked' = ranked
     \/ shelf[row.from][row.id] # "none" /\ ranked' \in Ranks(row.id)
  /\ LeaveDrun /\ UNCHANGED <<shelf, stored, asRead, choices, sessions, installs>>

(* drun_mode_result() *)
ChooseApp(row) == drunAt = "open" /\ Runs(apps[row])

DeleteApp(row) ==
  /\ drunAt = "open" /\ apps[row].index >= 0
  /\ ranked' = SelectSeq(ranked, LAMBDA id : id # apps[row].id)
  /\ apps' = RemoveAt(apps, row)
  /\ removed' = removed \cup {[apps[row] EXCEPT !.index = 0]}
  /\ UNCHANGED <<shelf, stored, drunAt, completed, asRead, choices, sessions, installs>>

CompleteFile(row) ==
  /\ drunAt = "open" /\ drunAt' = "completing" /\ completed' = row
  /\ UNCHANGED <<shelf, ranked, stored, apps, asRead, removed, choices, sessions, installs>>

(* The completer's answer, the way back, or the end. *)
FileChosen == drunAt = "completing" /\ Runs(apps[completed])
CompleteBack ==
  /\ drunAt = "completing" /\ drunAt' = "open"
  /\ UNCHANGED <<shelf, ranked, stored, apps, completed, asRead, removed, choices,
                 sessions, installs>>
CancelDrun ==
  /\ drunAt # "closed" /\ LeaveDrun
  /\ UNCHANGED <<shelf, ranked, stored, asRead, choices, sessions, installs>>

Install ==
  /\ installs < MaxInstalls /\ sessions > 0
  /\ \E d \in Places, id \in DesktopIds, kind \in {"none", "app"} :
       shelf[d][id] # kind /\ shelf' = [shelf EXCEPT ![d][id] = kind]
  /\ installs' = installs + 1
  /\ UNCHANGED <<ranked, stored, apps, drunAt, completed, asRead, removed, choices, sessions>>

DrunNext ==
  \/ \E reload \in BOOLEAN : OpenDrun(reload)
  \/ \E row \in DOMAIN apps : ChooseApp(row) \/ DeleteApp(row) \/ CompleteFile(row)
  \/ FileChosen \/ CompleteBack \/ CancelDrun \/ Install
--------------------------------------------------------------------------------
(* What there was to list when the files were read: of each id the file of the  *)
(* first directory that settles it, and its action if those are shown; first    *)
(* what is in the history, in its order, then the rest by name.                 *)
Settles(id, i) ==
  /\ asRead.shelf[Directories[i]][id] \notin {"none", "unfit"}
  /\ \A j \in 1..(i - 1) : asRead.shelf[Directories[j]][id] \in {"none", "unfit"}
Wanted ==
  {app \in [id : DesktopIds, from : Places, action : BOOLEAN, index : {0}] :
     \E i \in DOMAIN Directories :
       /\ Directories[i] = app.from /\ Settles(app.id, i)
       /\ asRead.shelf[app.from][app.id] \in
            IF app.action THEN {"acting"} ELSE {"app", "acting"}
       /\ app.action => choices.actions}
PlaceOf(id) ==
  IF \E k \in DOMAIN asRead.ranked : asRead.ranked[k] = id
  THEN CHOOSE k \in DOMAIN asRead.ranked : asRead.ranked[k] = id
  ELSE Len(asRead.ranked) + 1
InOrder(a, b) ==
  \/ PlaceOf(a.id) < PlaceOf(b.id)
  \/ PlaceOf(a.id) = PlaceOf(b.id) /\ a.id < b.id
  \/ a.id = b.id /\ ~a.action /\ b.action

(* The rows are those that were to be listed, each once and in that order, but  *)
(* for what was deleted, however often it was launched or deleted, whether read *)
(* from the files or from a cache an earlier launcher wrote                     *)
(* (drun.c:402-806, 895-942, 1025-1267).                                        *)
AppsListed ==
  drunAt # "closed" =>
    [k \in DOMAIN apps |-> [apps[k] EXCEPT !.index = 0]] =
      SelectSeq(SetToSortSeq(Wanted, InOrder), LAMBDA app : app \notin removed)
================================================================================
