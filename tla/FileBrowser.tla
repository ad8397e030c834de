------------------------------- MODULE FileBrowser -----------------------------
(* The file browser (modes/filebrowser.c): a mode of its own, and the completer *)
(* that other modes have a file chosen with.  The two have a folder each, and   *)
(* share whether hidden files are shown and the file that keeps the folder the  *)
(* next one starts in.                                                          *)
(*                                                                              *)
(* A path is the sequence of names that lead there.  Out: sorting by time or    *)
(* with files among the folders, names that are no UTF-8, icons, what a path    *)
(* that is typed stands for.                                                    *)
EXTENDS Integers, SequencesExt

CONSTANTS
  Folders,       \* Folders[path]: what lies in a folder, in the order of names:
                 \*   [name, type, hidden, to: the folder that a link leads to]
  Home,          \* g_get_home_dir()
  MaxVisits,     \* bound: browsers opened, and results
  MaxLosses      \* bound: folders removed meanwhile

FileTypes == {"directory", "file", "other"}

ASSUME FileBrowserAssumption ==
  /\ {<<>>, Home} \subseteq DOMAIN Folders /\ MaxVisits \in Nat /\ MaxLosses \in Nat
  /\ \A path \in DOMAIN Folders : \A i \in DOMAIN Folders[path] :
       Folders[path][i].type \in FileTypes

Browsers == {"mode", "completer"}

VARIABLES
  lost,        \* the folders that were removed
  showHidden,  \* file_browser_config.show_hidden, of both
  preset,      \* "show-hidden" in the theme: a set of at most one value
  saved,       \* the folder in the cache file: a set of at most one path
  browser,     \* browser[b]: [open, current, rows]
  listedFrom,  \* ghost: listedFrom[b]: [path, hidden, lost] the rows are of
  went,        \* ghost: the last row chosen and where it led, [from, row, to]
  visits, losses

browserVars == <<lost, showHidden, preset, saved, browser, listedFrom, went, visits, losses>>

NotOpen == [open |-> FALSE, current |-> <<>>, rows |-> <<>>]
NoRead == [path |-> <<>>, hidden |-> FALSE, lost |-> {}]
Nowhere == [from |-> <<>>, row |-> "", to |-> <<>>]

BrowserInit(on) ==
  /\ preset \in IF on THEN {{}, {TRUE}} ELSE {{}}
  /\ lost = {} /\ showHidden = FALSE /\ saved = {} /\ went = Nowhere
  /\ browser = [b \in Browsers |-> NotOpen] /\ listedFrom = [b \in Browsers |-> NoRead]
  /\ visits = (IF on THEN 0 ELSE MaxVisits) /\ losses = (IF on THEN 0 ELSE MaxLosses)
--------------------------------------------------------------------------------
Within(folder, name) ==
  {Folders[folder][i] : i \in {j \in DOMAIN Folders[folder] : Folders[folder][j].name = name}}

(* The folder that a path leads to; a set of none if it leads to none. *)
Leads(path) ==
  FoldLeft(LAMBDA at, name :
             UNION {{IF item.to = {} THEN Append(folder, name) ELSE CHOOSE f \in item.to : TRUE :
                       item \in {i \in Within(folder, name) : i.type = "directory"}} :
                    folder \in at},
           {<<>>}, path)
IsDir(path, gone) == Leads(path) # {} /\ Leads(path) \cap gone = {}

WayUp == [name |-> "..", type |-> "up", hidden |-> FALSE, to |-> {}]

(* What get_file_browser() lists: the way up, folders, files; nothing if the    *)
(* folder cannot be opened                                                      *)
Contents(path, hidden, gone) ==
  LET folder == CHOOSE f \in Leads(path) : TRUE
      OfType(type) == SelectSeq(Folders[folder], LAMBDA item :
                       item.type = type /\ (hidden \/ ~item.hidden))
  IN IF ~IsDir(path, gone) THEN <<>>
     ELSE <<WayUp>> \o OfType("directory") \o OfType("file")

(* Mutant of FreeList: the rows of the folder that is left stay. *)
FreeNothing(b) == browser[b].rows

(* free_list() *)
FreeList(b) == <<>>

(* Browser b reads a folder, after the rows it has were freed. *)
GetFileBrowser(b, path, hidden) ==
  /\ browser' = [browser EXCEPT ![b] =
       [open |-> TRUE, current |-> path, rows |-> FreeList(b) \o Contents(path, hidden, lost)]]
  /\ listedFrom' = [listedFrom EXCEPT ![b] = [path |-> path, hidden |-> hidden, lost |-> lost]]

Visits == visits < MaxVisits /\ visits' = visits + 1

(* file_browser_mode_init(), as a mode or for run and drun, which make a new    *)
(* one each time                                                                *)
OpenBrowser(b) ==
  /\ Visits /\ ~browser[b].open
  /\ showHidden' \in IF preset = {} THEN {showHidden} ELSE preset
  /\ LET kept == {path \in saved : IsDir(path, lost)}
     IN GetFileBrowser(b, IF kept = {} THEN Home ELSE CHOOSE p \in kept : TRUE, showHidden')
  /\ UNCHANGED <<lost, preset, saved, went, losses>>

CloseBrowser(b) ==
  /\ browser' = [browser EXCEPT ![b] = NotOpen]
  /\ listedFrom' = [listedFrom EXCEPT ![b] = NoRead]

Enters(b, path) == GetFileBrowser(b, path, showHidden)

(* file_browser_mode_result() and file_browser_mode_completer(): a row's path   *)
(* is the one it had when it was read                                           *)
PathOf(b, item) ==
  IF item.type = "up" THEN Front(browser[b].current)
  ELSE Append(listedFrom[b].path, item.name)

OpenRow(b, item, special) ==
  /\ Visits /\ browser[b].open
  /\ \/ item.type = "up" /\ browser[b].current = <<>> /\ UNCHANGED <<browser, listedFrom, saved, went>>
     \/ /\ item.type = "up" /\ browser[b].current # <<>>
        /\ Enters(b, PathOf(b, item)) /\ UNCHANGED saved
        /\ went' = [from |-> browser[b].current, row |-> item.name, to |-> browser'[b].current]
     \/ /\ item.type = "directory" /\ ~(special /\ b = "mode")
        /\ Enters(b, PathOf(b, item))
        /\ saved' = IF b = "mode" THEN {PathOf(b, item)} ELSE saved
        /\ went' = [from |-> browser[b].current, row |-> item.name, to |-> browser'[b].current]
     \/ /\ item.type = "file" \/ (item.type = "directory" /\ special /\ b = "mode")
        /\ CloseBrowser(b) /\ UNCHANGED saved
        /\ went' = [from |-> browser[b].current, row |-> item.name, to |-> PathOf(b, item)]
  /\ UNCHANGED <<lost, showHidden, preset, losses>>

(* A path was typed; with the other key, the mode goes up. *)
TypePath(b, path) ==
  /\ Visits /\ browser[b].open
  /\ IF IsDir(path, lost) THEN Enters(b, path) ELSE UNCHANGED <<browser, listedFrom>>
  /\ UNCHANGED <<lost, showHidden, preset, saved, went, losses>>
GoToParent ==
  /\ Visits /\ browser["mode"].open
  /\ IF browser["mode"].current = <<>> THEN UNCHANGED <<browser, listedFrom>>
     ELSE Enters("mode", Front(browser["mode"].current))
  /\ UNCHANGED <<lost, showHidden, preset, saved, went, losses>>

ToggleHidden(b) ==
  /\ Visits /\ browser[b].open
  /\ showHidden' = ~showHidden
  /\ GetFileBrowser(b, browser[b].current, showHidden')
  /\ UNCHANGED <<lost, preset, saved, went, losses>>

(* file_browser_mode_destroy() *)
LeaveBrowser(b) ==
  /\ browser[b].open /\ CloseBrowser(b)
  /\ UNCHANGED <<lost, showHidden, preset, saved, went, visits, losses>>

LoseFolder ==
  /\ losses < MaxLosses /\ losses' = losses + 1
  /\ \E folder \in DOMAIN Folders \ {<<>>, Home} : lost' = lost \cup {folder}
  /\ UNCHANGED <<showHidden, preset, saved, browser, listedFrom, went, visits>>

BrowserNext ==
  \/ \E b \in Browsers :
       \/ OpenBrowser(b) \/ ToggleHidden(b) \/ LeaveBrowser(b)
       \/ \E i \in DOMAIN browser[b].rows, special \in BOOLEAN :
            OpenRow(b, browser[b].rows[i], special)
       \/ \E path \in DOMAIN Folders : TypePath(b, path)
  \/ GoToParent \/ LoseFolder
--------------------------------------------------------------------------------
(* A browser's rows are what lay in the folder it is in when it was last read,  *)
(* and nothing of another folder; a row leads where its name says, from there;  *)
(* whichever of the two browsers is used, and whatever is removed meanwhile     *)
(* (filebrowser.c:484-580, 668-722).                                            *)
ShowsItsFolder ==
  /\ \A b \in Browsers :
       browser[b].open =>
         /\ listedFrom[b].path = browser[b].current
         /\ browser[b].rows = Contents(listedFrom[b].path, listedFrom[b].hidden, listedFrom[b].lost)
  /\ went.row \notin {"", ".."} => went.to = Append(went.from, went.row)
  /\ went.row = ".." => went.from # <<>> /\ went.to = Front(went.from)
================================================================================
