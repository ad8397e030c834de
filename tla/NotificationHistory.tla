-------------------------- MODULE NotificationHistory --------------------------
(***************************************************************************)
(* What the notification service promises about its history, whatever      *)
(* daemons come and go: a list of the notifications filed, newest first,   *)
(* that only ever grows by one at its head, under an id no listed          *)
(* notification has, until it is cleared as a whole or its tail is pushed  *)
(* past the capacity.  include/notify-store.h:78 (an id is "reused only    *)
(* via replaces_id") and source/notify-service.c:744-758 (history survives *)
(* a daemon restart, and so do the ids) are this promise in words.         *)
(***************************************************************************)
EXTENDS Integers, Sequences

CONSTANTS Capacity,  \* how many notifications the list holds
          Records    \* records a list is made of: id, serial, and more

VARIABLES log,   \* the list
          filed  \* how many notifications were ever filed

Init == log = <<>> /\ filed = 0

Newest(l) == SubSeq(l, 1, IF Len(l) < Capacity THEN Len(l) ELSE Capacity)

(* The next notification is filed, under an id that nothing listed has. *)
File(r) ==
  /\ r.serial = filed + 1
  /\ \A i \in DOMAIN log : log[i].id # r.id
  /\ log' = Newest(<<r>> \o log)
  /\ filed' = filed + 1

(* The list is cleared by the user. *)
Clear == log' = <<>> /\ UNCHANGED filed

Next == (\E r \in Records : File(r)) \/ Clear

Spec == Init /\ [][Next]_<<log, filed>>
================================================================================
