------------------------------ MODULE InstanceLock -----------------------------
(* One instance of a surface (helper.c, sofi.c): a lock on its pid file, which  *)
(* is never removed.  A second launch is refused, or with -replace ends the     *)
(* first and takes over.                                                        *)
(*                                                                              *)
(* All launches here are of one surface; surfaces share nothing.  A process     *)
(* that is sent SIGTERM is gone before the two seconds of polling are over:     *)
(* nothing handles that signal.  Out: pids that are used again, a pid file that *)
(* cannot be opened, the daemons, which have a bus name instead.                *)
EXTENDS Naturals, FiniteSets

CONSTANTS Launches   \* bound: processes

ASSUME LockAssumption == IsFiniteSet(Launches)

VARIABLES
  progress,  \* progress[p]: "new", "read" (the pid), "wait" (polling), "swap"
             \*   (polled it, to close it), "again" (to open it anew), "locked", "empty"
             \*   (truncated), "up", "killed" (sent SIGTERM), "gone"
  replaces,  \* the processes launched with -replace
  lock,      \* who holds the lock on the file: {} or {p}
  pid,       \* what is written in it: {} or {p}
  owed       \* ghost: some launch failed or was ended, and nobody quit since

lockVars == <<progress, replaces, lock, pid, owed>>

LockInit(on) ==
  /\ progress = [p \in Launches |-> IF on THEN "new" ELSE "gone"]
  /\ replaces \in IF on THEN SUBSET Launches ELSE {{}}
  /\ lock = {} /\ pid = {} /\ owed = FALSE

Goes(p, where) == progress' = [progress EXCEPT ![p] = where]
--------------------------------------------------------------------------------
(* Mutant of RemovePidFile: the descriptor stays open. *)
KeepPidFile(p) == UNCHANGED lock

(* remove_pid_file(): with the last descriptor of it, a lock that was taken is gone *)
RemovePidFile(p) == lock' = lock \ {p}

(* flock() of a descriptor just opened, in create_pid_file() *)
Refused(p) == Goes(p, "gone") /\ owed' = TRUE /\ RemovePidFile(p) /\ UNCHANGED pid
Obtains(p) == Goes(p, "locked") /\ lock' = {p} /\ UNCHANGED <<pid, owed>>

(* The pid read from the file is sent SIGTERM; without one there it is opened   *)
(* anew at once.                                                                *)
KillRunning(p) ==
  /\ progress[p] = "read"
  /\ \/ pid = {} /\ Goes(p, "again") /\ UNCHANGED owed
     \/ \E running \in pid :
          /\ progress' = [progress EXCEPT ![p] = "wait",
                              ![running] = IF @ = "gone" THEN "gone" ELSE "killed"]
          /\ owed' = TRUE
  /\ UNCHANGED <<replaces, lock, pid>>

CreatePidFile(p) ==
  /\ progress[p] = "new"
  /\ \/ lock = {} /\ Obtains(p)
     \/ lock # {} /\ p \in replaces /\ Goes(p, "read") /\ UNCHANGED <<lock, pid, owed>>
     \/ lock # {} /\ p \notin replaces /\ Refused(p)
  /\ UNCHANGED replaces

Poll(p) ==
  /\ progress[p] = "wait" /\ lock = {} /\ Goes(p, "swap") /\ lock' = {p}
  /\ UNCHANGED <<replaces, pid, owed>>

PollTimeout(p) ==
  /\ progress[p] = "wait" /\ lock # {} /\ \A q \in Launches : progress[q] # "killed"
  /\ Refused(p) /\ UNCHANGED replaces

ClosePolled(p) ==
  /\ progress[p] = "swap" /\ Goes(p, "again") /\ RemovePidFile(p)
  /\ UNCHANGED <<replaces, pid, owed>>

CreateAgain(p) ==
  /\ progress[p] = "again"
  /\ (lock = {} /\ Obtains(p)) \/ (lock # {} /\ Refused(p))
  /\ UNCHANGED replaces

EmptyPidFile(p) ==
  /\ progress[p] = "locked" /\ Goes(p, "empty") /\ pid' = {}
  /\ UNCHANGED <<replaces, lock, owed>>

WritePid(p) ==
  /\ progress[p] = "empty" /\ Goes(p, "up") /\ pid' = {p}
  /\ UNCHANGED <<replaces, lock, owed>>

(* teardown() *)
Teardown(p) ==
  /\ progress[p] = "up" /\ Goes(p, "gone") /\ RemovePidFile(p) /\ owed' = FALSE
  /\ UNCHANGED <<replaces, pid>>

(* The kernel ends a process, and with it its locks. *)
Die(p) ==
  /\ progress[p] = "killed" /\ Goes(p, "gone") /\ lock' = lock \ {p}
  /\ UNCHANGED <<replaces, pid, owed>>

LockNext ==
  \E p \in Launches :
    \/ CreatePidFile(p) \/ KillRunning(p) \/ Poll(p) \/ PollTimeout(p)
    \/ ClosePolled(p) \/ CreateAgain(p) \/ EmptyPidFile(p) \/ WritePid(p) \/ Teardown(p) \/ Die(p)
--------------------------------------------------------------------------------
(* No two are up, and none is ended or refused for nothing: when all have come  *)
(* to rest, one is up, unless its user closed it, however launches, and those   *)
(* that replace each other, are interleaved (helper.c:585-679).                 *)
SomeoneStands ==
  /\ \A p, q \in Launches : progress[p] = "up" /\ progress[q] = "up" => p = q
  /\ owed /\ (\A p \in Launches : progress[p] \in {"new", "up", "gone"}) =>
       \E p \in Launches : progress[p] = "up"
================================================================================
