----------------------------- MODULE LaunchHistory -----------------------------
(* The file that counts how often an entry was launched (history.c).  Every   *)
(* launcher that ends in an entry rewrites it: sofi locks only the surface it *)
(* draws, so that two launchers may be at it.  A process may be killed at any *)
(* step.  Lines are written as a whole.                                       *)
EXTENDS Integers, Sequences, FiniteSets

CONSTANTS
  Launchers,     \* processes
  Entries,       \* what can be launched
  MaxSize,       \* config.max_history_size
  MaxLaunches    \* calls of history_set() and history_remove()

ASSUME HistoryAssumption ==
  IsFiniteSet(Launchers) /\ MaxSize \in Nat \ {0} /\ MaxLaunches \in Nat

NoFile == 0
Inodes == 1..(Cardinality(Launchers) + 2)

VARIABLES
  file, temp,    \* inodes of "<name>" and "<name>.tmp", or NoFile
  content,       \* per inode: the lines, [name, count]
  launcher,      \* per process: where it is, its list and the file it has open
  launches

historyVars == <<file, temp, content, launcher, launches>>

Resting == [at |-> "idle", list |-> <<>>, inode |-> NoFile, shared |-> FALSE]

Recorded == IF file = NoFile THEN <<>> ELSE content[file]

HistoryInit(on) ==
  /\ file = NoFile /\ temp = NoFile
  /\ content = [i \in Inodes |-> <<>>]
  /\ launcher = [l \in Launchers |-> Resting]
  /\ launches = IF on THEN 0 ELSE MaxLaunches

(* The list is sorted by count, the most launched first; equals keep their    *)
(* order.                                                                     *)
Sorted(list) ==
  LET Before(i) == {j \in DOMAIN list : \/ list[j].count > list[i].count
                                        \/ list[j].count = list[i].count /\ j < i}
  IN [k \in DOMAIN list |->
        list[CHOOSE i \in DOMAIN list : Cardinality(Before(i)) = k - 1]]

(* What is written of a list: the least count is taken from all, then the     *)
(* list is cut.                                                               *)
Written(list) ==
  LET all == Sorted(list)
      kept == IF Len(all) > MaxSize THEN MaxSize ELSE Len(all)
  IN [k \in 1..kept |-> [all[k] EXCEPT !.count = @ - all[Len(all)].count]]

Place(list, e) == {i \in DOMAIN list : list[i].name = e}

(* One launch more of e. *)
Counted(list, e) ==
  IF Place(list, e) = {}
  THEN Append(list, [name |-> e, count |-> 1])
  ELSE [i \in DOMAIN list |->
          IF i \in Place(list, e) THEN [list[i] EXCEPT !.count = @ + 1]
                                  ELSE list[i]]

(* The last line takes the place of the one removed. *)
WithoutEntry(list, e) ==
  [i \in 1..(Len(list) - 1) |->
     IF i \in Place(list, e) THEN list[Len(list)] ELSE list[i]]

(* Bytes are written over what the file holds. *)
Overwritten(old, new) ==
  IF Len(old) > Len(new) THEN new \o SubSeq(old, Len(new) + 1, Len(old))
                         ELSE new

Others(l) == {o \in Launchers \ {l} : launcher[o].at # "idle"}

(* Launcher l begins; whoever is at the file with it is no longer alone. *)
Begin(l, at, list) ==
  /\ launches < MaxLaunches /\ launches' = launches + 1
  /\ launcher' = [o \in Launchers |->
       IF o = l THEN [Resting EXCEPT !.at = at, !.list = list,
                                     !.shared = Others(l) # {}]
       ELSE [launcher[o] EXCEPT !.shared = launcher[o].at # "idle"]]

Launch(l, e) ==
  /\ launcher[l].at = "idle"
  /\ Begin(l, "opening", Counted(Recorded, e))
  /\ UNCHANGED <<file, temp, content>>

Unused ==
  CHOOSE i \in Inodes :
    i \notin {file, temp} \cup {launcher[l].inode : l \in Launchers}

(* Mutant of OpenTmp: the temporary file is not truncated. *)
OpenTmpKept(l) ==
  /\ launcher[l].at = "opening"
  /\ LET i == IF temp = NoFile THEN Unused ELSE temp
     IN /\ temp' = i
        /\ content' = IF temp = NoFile THEN [content EXCEPT ![i] = <<>>]
                                       ELSE content
        /\ launcher' = [launcher EXCEPT ![l].at = "writing", ![l].inode = i]
  /\ UNCHANGED <<file, launches>>

(* fopen(tmp, "w"): an old temporary file is truncated. *)
OpenTmp(l) ==
  /\ launcher[l].at = "opening"
  /\ LET i == IF temp = NoFile THEN Unused ELSE temp
     IN /\ temp' = i
        /\ content' = [content EXCEPT ![i] = <<>>]
        /\ launcher' = [launcher EXCEPT ![l].at = "writing", ![l].inode = i]
  /\ UNCHANGED <<file, launches>>

(* The buffered lines are flushed by fclose(). *)
WriteTmp(l) ==
  /\ launcher[l].at = "writing"
  /\ LET i == launcher[l].inode
     IN content' = [content EXCEPT
                      ![i] = Overwritten(@, Written(launcher[l].list))]
  /\ launcher' = [launcher EXCEPT ![l].at = "renaming", ![l].inode = NoFile]
  /\ UNCHANGED <<file, temp, launches>>

(* The disk is full: part of the lines is written, the file is removed. *)
WriteTmpFails(l) ==
  /\ launcher[l].at = "writing"
  /\ \E n \in 0..Len(Written(launcher[l].list)) :
       content' = [content EXCEPT
         ![launcher[l].inode] =
            Overwritten(@, SubSeq(Written(launcher[l].list), 1, n))]
  /\ temp' = NoFile
  /\ launcher' = [launcher EXCEPT ![l] = Resting]
  /\ UNCHANGED <<file, launches>>

(* The rename fails when another launcher took the name. *)
Rename(l) ==
  /\ launcher[l].at = "renaming"
  /\ file' = IF temp = NoFile THEN file ELSE temp
  /\ temp' = NoFile
  /\ launcher' = [launcher EXCEPT ![l] = Resting]
  /\ UNCHANGED <<content, launches>>

(* history_remove(): the file itself is truncated and written. *)
RemoveEntry(l, e) ==
  /\ launcher[l].at = "idle" /\ Place(Recorded, e) # {}
  /\ Begin(l, "truncating", WithoutEntry(Recorded, e))
  /\ UNCHANGED <<file, temp, content>>

Truncate(l) ==
  /\ launcher[l].at = "truncating"
  /\ content' = [content EXCEPT ![file] = <<>>]
  /\ launcher' = [launcher EXCEPT ![l].at = "rewriting", ![l].inode = file]
  /\ UNCHANGED <<file, temp, launches>>

Rewrite(l) ==
  /\ launcher[l].at = "rewriting"
  /\ content' = [content EXCEPT
       ![launcher[l].inode] =
         Overwritten(@, IF launcher[l].list = <<>> THEN <<>>
                        ELSE Written(launcher[l].list))]
  /\ launcher' = [launcher EXCEPT ![l] = Resting]
  /\ UNCHANGED <<file, temp, launches>>

(* A process is killed, or cannot open the file it is to write. *)
Kill(l) ==
  /\ launcher[l].at # "idle"
  /\ launcher' = [launcher EXCEPT ![l] = Resting]
  /\ UNCHANGED <<file, temp, content, launches>>

HistoryNext ==
  \E l \in Launchers :
    \/ \E e \in Entries : Launch(l, e) \/ RemoveEntry(l, e)
    \/ OpenTmp(l) \/ WriteTmp(l) \/ WriteTmpFails(l) \/ Rename(l)
    \/ Truncate(l) \/ Rewrite(l) \/ Kill(l)
--------------------------------------------------------------------------------
(* A launcher that has the files to itself leaves the counts as they are or   *)
(* replaces them by what they were with one launch more, whatever a killed    *)
(* one left behind (history.c:244-248).  A removal writes in place and is     *)
(* excepted, and so are launchers that are at the files together: they share  *)
(* the temporary file.                                                        *)
HistoryKept ==
  [][\A l \in Launchers :
       launcher'[l] # launcher[l] /\ ~launcher[l].shared
       /\ launcher[l].at \notin {"truncating", "rewriting"}
       => \/ Recorded' = Recorded
          \/ \E e \in Entries : Recorded' = Written(Counted(Recorded, e))]_historyVars
================================================================================
