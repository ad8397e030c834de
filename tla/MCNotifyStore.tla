---------------------------- MODULE MCNotifyStore ----------------------------
(* Instances of NotifyStore for TLC: what a daemon may find in the history *)
(* file when it starts.                                                    *)
EXTENDS NotifyStore

Retired(id) == Blank(id, 0)

(* No file, and the file of a predecessor that filed two notifications.    *)
MCLoads == {[ring |-> <<>>, nextId |-> 1],
            [ring |-> <<Retired(2), Retired(1)>>, nextId |-> 3]}

(* What senders ask for: a notification that expires and has an action, one    *)
(* that stays, and a critical one, which stays whatever its timeout.           *)
Notice(critical, timeout, actions) ==
  [critical |-> critical, timeout |-> timeout, actions |-> actions]
MCNotices == {Notice(FALSE, -1, 1), Notice(FALSE, 0, 0), Notice(TRUE, 1, 0)}
===============================================================================
