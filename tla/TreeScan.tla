-------------------------------- MODULE TreeScan --------------------------------
(* recursivebrowser.c: a thread walks a directory tree and hands each file to *)
(* the main loop through a queue.  Unlike dmenu's it wakes the main loop only *)
(* when the queue is long and when the scan ends, and is told to end by a     *)
(* flag that it reads between two entries.                                    *)
(*                                                                            *)
(* A path is a sequence of names, as it is spelled: a directory may have      *)
(* several, and the scan tells directories apart by them.  A link to a        *)
(* directory is followed by its raw text, which g_file_new_for_path() reads   *)
(* from the working directory.  Out: a tree that changes while it is scanned. *)
EXTENDS Naturals, Sequences, FiniteSets, SequencesExt

CONSTANTS
  DirectoryAt,   \* path |-> the directory that opendir() opens there
  Top,           \* the path the scan starts from
  Contents,      \* per directory, its entries: [type, name, dir, text], see below
  Batch,         \* files queued before the main loop is woken (10000)
  PipeSize       \* bytes the wake pipe holds

(* type is readdir()'s: "file", "directory", "link", "unknown", or "other" for  *)
(* what is neither or is filtered; dir the directory an entry is or leads to,  *)
(* NoDirectory if none; text a link's, as read from the working directory.     *)
NoDirectory == "none"

ASSUME TreeAssumption ==
  /\ Top \in DOMAIN DirectoryAt
  /\ \A path \in DOMAIN DirectoryAt : \A k \in DOMAIN Contents[DirectoryAt[path]] :
       LET e == Contents[DirectoryAt[path]][k]
       IN e.type = "directory" =>
            /\ Append(path, e.name) \in DOMAIN DirectoryAt
            /\ DirectoryAt[Append(path, e.name)] = e.dir

VARIABLES
  browser,       \* "off", "up", "leaving", "gone"
  end_thread,    \* the flag
  scan,          \* "next", "read", "wake", "report", "ended"
  todo, scanned, \* dirs_to_scan, dirs_scanned
  reading,       \* the path that is open and its entries not yet read
  found,         \* async_queue
  woken,         \* bytes in pipefd2
  listed         \* the array of the mode

scanVars == <<browser, end_thread, scan, todo, scanned, reading, found, woken,
              listed>>

Closed == [path |-> <<>>, rest |-> <<>>]

ScanInit(on) ==
  /\ browser = IF on THEN "up" ELSE "off"
  /\ end_thread = FALSE /\ scan = "next"
  /\ todo = <<Top>> /\ scanned = {} /\ reading = Closed
  /\ found = <<>> /\ woken = <<>> /\ listed = <<>>

Live == browser \in {"up", "leaving"}
--------------------------------------------------------------------------------
(* scan_dir() and recursive_browser_input_thread() *)

(* Mutant of OpenDirectory: a directory is scanned again through a link. *)
OpenDirectoryAgain ==
  /\ Live /\ scan = "next" /\ todo # <<>>
  /\ todo' = Tail(todo) /\ scanned' = scanned \cup {Head(todo)}
  /\ IF Head(todo) \notin DOMAIN DirectoryAt THEN UNCHANGED <<reading, scan>>
     ELSE /\ reading' = [path |-> Head(todo), rest |-> Contents[DirectoryAt[Head(todo)]]]
          /\ scan' = "read"
  /\ UNCHANGED <<browser, end_thread, found, woken, listed>>

(* A path that has been visited, or does not open, is passed over. *)
OpenDirectory ==
  /\ Live /\ scan = "next" /\ todo # <<>>
  /\ todo' = Tail(todo) /\ scanned' = scanned \cup {Head(todo)}
  /\ IF Head(todo) \in scanned \/ Head(todo) \notin DOMAIN DirectoryAt
     THEN UNCHANGED <<reading, scan>>
     ELSE /\ reading' = [path |-> Head(todo), rest |-> Contents[DirectoryAt[Head(todo)]]]
          /\ scan' = "read"
  /\ UNCHANGED <<browser, end_thread, found, woken, listed>>

(* The switch on d_type: a directory is queued under its path, a link to one  *)
(* under its text; what may be a link but has no text is dropped if it is a   *)
(* directory.  What else may be a link is listed, as is a file.               *)
Uncertain(e) == e.type \in {"link", "unknown"}
Queued(path, e) ==
  CASE e.type = "directory" -> <<Append(path, e.name)>>
    [] Uncertain(e) /\ e.dir # NoDirectory -> e.text
    [] OTHER -> <<>>
IsListed(e) == e.type = "file" \/ (Uncertain(e) /\ e.dir = NoDirectory)

ReadEntry ==
  /\ Live /\ scan = "read" /\ ~end_thread /\ reading.rest # <<>>
  /\ LET e == Head(reading.rest)
     IN /\ reading' = [reading EXCEPT !.rest = Tail(@)]
        /\ todo' = todo \o Queued(reading.path, e)
        /\ found' = IF IsListed(e) THEN Append(found, Append(reading.path, e.name))
                    ELSE found
        /\ scan' = IF IsListed(e) /\ Len(found') > Batch THEN "wake" ELSE scan
  /\ UNCHANGED <<browser, end_thread, scanned, woken, listed>>

(* write(), which waits for room in the pipe. *)
WakeMain ==
  /\ Live /\ scan = "wake" /\ Len(woken) < PipeSize
  /\ woken' = Append(woken, "r")
  /\ scan' = "read"
  /\ UNCHANGED <<browser, end_thread, todo, scanned, reading, found, listed>>

CloseDirectory ==
  /\ Live /\ scan = "read" /\ (end_thread \/ reading.rest = <<>>)
  /\ reading' = Closed /\ scan' = "next"
  /\ UNCHANGED <<browser, end_thread, todo, scanned, found, woken, listed>>

(* The scan is over: the rest is reported, then the end. *)
ReportScan ==
  /\ Live /\ Len(woken) < PipeSize
  /\ \/ /\ scan = "next" /\ todo = <<>>
        /\ woken' = Append(woken, "r") /\ scan' = "report"
     \/ /\ scan = "report"
        /\ woken' = Append(woken, "q") /\ scan' = "ended"
  /\ UNCHANGED <<browser, end_thread, todo, scanned, reading, found, listed>>
--------------------------------------------------------------------------------
(* The main loop. *)

(* recursive_browser_async_read_proc() *)
ListFound ==
  /\ browser = "up" /\ woken # <<>>
  /\ woken' = Tail(woken)
  /\ IF Head(woken) = "r" THEN listed' = listed \o found /\ found' = <<>>
     ELSE UNCHANGED <<listed, found>>
  /\ UNCHANGED <<browser, end_thread, scan, todo, scanned, reading>>

(* recursive_browser_mode_destroy(): the flag is set and the thread joined. *)
LeaveBrowser ==
  /\ browser = "up"
  /\ browser' = "leaving" /\ end_thread' = TRUE
  /\ UNCHANGED <<scan, todo, scanned, reading, found, woken, listed>>

JoinScan ==
  /\ browser = "leaving" /\ scan = "ended"
  /\ browser' = "gone" /\ listed' = <<>>
  /\ UNCHANGED <<end_thread, scan, todo, scanned, reading, found, woken>>

ScanThread ==
  OpenDirectory \/ ReadEntry \/ WakeMain \/ CloseDirectory \/ ReportScan

ScanNext == ScanThread \/ ListFound \/ LeaveBrowser \/ JoinScan

ScanFairness ==
  WF_scanVars(ScanThread) /\ WF_scanVars(ListFound) /\ WF_scanVars(JoinScan)
--------------------------------------------------------------------------------
Entries(d) == ToSet(Contents[d])

(* A step the scan takes to the directory it is to.  A relative link is taken  *)
(* from the working directory and mostly is not; nor is one of unknown type.   *)
LeadsThere(e) ==
  \/ e.type = "directory"
  \/ /\ e.type = "link" /\ e.dir # NoDirectory
     /\ \E path \in ToSet(e.text) :
          path \in DOMAIN DirectoryAt /\ DirectoryAt[path] = e.dir
Below ==
  LET step(S) == S \cup UNION {{e.dir : e \in {f \in Entries(d) : LeadsThere(f)}} : d \in S}
      after[n \in 0..Cardinality(DOMAIN Contents)] ==
        IF n = 0 THEN {DirectoryAt[Top]} ELSE step(after[n - 1])
  IN after[Cardinality(DOMAIN Contents)]

FileNames(d) == {e.name : e \in {f \in Entries(d) : IsListed(f)}}
FilesListed(d) ==
  {Last(file) : file \in {f \in ToSet(listed) : DirectoryAt[Front(f)] = d}}

(* The thread waits for room in the pipe, and the main loop no longer reads:  *)
(* leaving the browser then hangs.                                            *)
PipeFull == Len(woken) = PipeSize

(* However links lead around and the main loop lags behind, the scan ends, and *)
(* every file of each directory it is led to is listed; no path is listed      *)
(* twice, so a file is once for each spelling its directory is reached by.  A  *)
(* browser that is left ends its thread, unless the wake pipe is full.         *)
(* Not promised: what lies beyond a relative link or an entry of unknown type  *)
(* (recursivebrowser.c:184-338).                                               *)
ScanExact ==
  /\ [](IsInjective(listed \o found))
  /\ browser = "up" ~>
       (browser # "up" \/ (scan = "ended" /\ \A d \in Below : FilesListed(d) = FileNames(d)))
  /\ browser = "leaving" ~> (browser = "gone" \/ PipeFull)
================================================================================
