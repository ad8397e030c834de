------------------------------- MODULE WindowList -------------------------------
(* The window switcher under Wayland (modes/wayland-window.c): two lists of the *)
(* same windows, by two protocols that name them differently.  Windows are      *)
(* raised, minimised and closed by the handles of one; a window command needs   *)
(* the identifier of the other, and a handle is matched to it by its app id.    *)
EXTENDS Integers, Sequences, SequencesExt, FiniteSets

CONSTANTS
  Windows,        \* windows, in the order in which they may open
  Apps,           \* app ids
  Unset,          \* the app id of a handle that has not been told one
  MaxRenames,     \* bound: changes of an app id
  MaxActs         \* bound: rows chosen

ASSUME WindowAssumption ==
  /\ Windows \in Nat \ {0} /\ Unset \notin Apps /\ {MaxRenames, MaxActs} \subseteq Nat

VARIABLES
  desk,      \* the compositor: windows opened, those open, their app ids, states
  wlrWire,   \* events of wlr-foreign-toplevel-management on their way
  extWire,   \* events of ext-foreign-toplevel-list on their way
  wlr, ext,  \* pd->wlr_toplevels, pd->ext_toplevels
  user       \* the row chosen and what for; was the view hidden; was a match early

windowVars == <<desk, wlrWire, extWire, wlr, ext, user>>

NoIdentifier == 0
NoUser == [row |-> 0, verb |-> "none", hidden |-> FALSE, hasty |-> FALSE,
           acts |-> 0]

WindowInit(on) ==
  /\ desk = [opened |-> IF on THEN 0 ELSE Windows, open |-> {},
             app |-> [w \in 1..Windows |-> Unset], small |-> {}, renames |-> 0]
  /\ wlrWire = <<>> /\ extWire = <<>> /\ wlr = <<>> /\ ext = <<>> /\ user = NoUser

WindowEvent(what, w) == [what |-> what, win |-> w, app |-> Unset, small |-> FALSE]
Named(w, a) == [WindowEvent("app", w) EXCEPT !.app = a]
Bearing(w, small) == [WindowEvent("state", w) EXCEPT !.small = small]
--------------------------------------------------------------------------------
(* The compositor: each change is told over both protocols, in one order. *)

Announce(more) == wlrWire' = wlrWire \o more /\ extWire' = extWire \o more

OpenWindow(a) ==
  LET w == desk.opened + 1
  IN /\ desk.opened < Windows
     /\ desk' = [desk EXCEPT !.opened = w, !.open = @ \cup {w}, !.app[w] = a]
     /\ Announce(<<WindowEvent("toplevel", w), Named(w, a)>>)
     /\ UNCHANGED <<wlr, ext, user>>

RenameApp(w, a) ==
  /\ w \in desk.open /\ desk.app[w] # a /\ desk.renames < MaxRenames
  /\ desk' = [desk EXCEPT !.app[w] = a, !.renames = @ + 1]
  /\ Announce(<<Named(w, a)>>) /\ UNCHANGED <<wlr, ext, user>>

CloseWindow(w) ==
  /\ w \in desk.open
  /\ desk' = [desk EXCEPT !.open = @ \ {w}, !.small = @ \ {w}]
  /\ Announce(<<WindowEvent("closed", w)>>) /\ UNCHANGED <<wlr, ext, user>>
--------------------------------------------------------------------------------
(* The listeners. *)

HandleAt(list, w) == CHOOSE i \in DOMAIN list : list[i].win = w

(* ..._manager_toplevel(), wlr_foreign_toplevel_handle_app_id(), _state(),      *)
(* _closed()                                                                    *)
WlrEvent ==
  LET e == Head(wlrWire)
      i == HandleAt(wlr, e.win)
  IN /\ wlrWire # <<>>
     /\ wlr' = CASE e.what = "toplevel" ->
                      <<[win |-> e.win, app |-> Unset, small |-> FALSE,
                         identifier |-> NoIdentifier]>> \o wlr
                 [] e.what = "app" -> [wlr EXCEPT ![i].app = e.app]
                 [] e.what = "state" -> [wlr EXCEPT ![i].small = e.small]
                 [] e.what = "closed" -> RemoveAt(wlr, i)
     /\ wlrWire' = Tail(wlrWire) /\ UNCHANGED <<desk, extWire, ext, user>>

(* ..._list_toplevel(), ext_foreign_toplevel_handle_app_id(), _identifier(),    *)
(* _closed(); no state is told over this protocol                               *)
ExtEvent ==
  LET e == Head(extWire)
      i == HandleAt(ext, e.win)
  IN /\ extWire # <<>>
     /\ ext' = CASE e.what = "toplevel" ->
                      <<[win |-> e.win, app |-> Unset, used |-> FALSE]>> \o ext
                 [] e.what = "app" -> [ext EXCEPT ![i].app = e.app]
                 [] e.what = "closed" -> RemoveAt(ext, i)
     /\ extWire' = Tail(extWire) /\ UNCHANGED <<desk, wlrWire, wlr, user>>
--------------------------------------------------------------------------------
(* The identifiers. *)

(* Mutant of Partner: a handle that has an identifier is not passed over. *)
PartnerAny(list, app) ==
  SelectInSeq(list, LAMBDA h : h.app = app)

(* the first handle of an app without an identifier, or 0 *)
Partner(list, app) ==
  SelectInSeq(list, LAMBDA h : h.app = app /\ h.identifier = NoIdentifier)

(* wlr_toplevels_set_one_identifier() of each of ext_toplevels *)
SetOneIdentifier(lists, i) ==
  LET entry == lists.ext[i]
      j == Partner(lists.wlr, entry.app)
  IN IF entry.used \/ j = 0 THEN lists
     ELSE [lists EXCEPT !.wlr[j].identifier = entry.win, !.ext[i].used = TRUE]

Matched ==
  LET lists[i \in 0..Len(ext)] ==
        IF i = 0 THEN [wlr |-> wlr, ext |-> ext] ELSE SetOneIdentifier(lists[i - 1], i)
  IN lists[Len(ext)]

InFlight == wlrWire # <<>> \/ extWire # <<>>
--------------------------------------------------------------------------------
(* The user. *)

ChooseWindow(row, verb) ==
  /\ row \in 1..Len(wlr) /\ user.acts < MaxActs
  /\ user' = [user EXCEPT !.row = row, !.verb = verb,
                          !.acts = @ + 1]
  /\ UNCHANGED <<desk, wlrWire, extWire, wlr, ext>>

UserDone(u) == [u EXCEPT !.row = 0, !.verb = "none"]

(* wayland_window_mode_result() for a row that is no more: hidden all the same *)
Vanished ==
  /\ user.row > Len(wlr)
  /\ user' = UserDone([user EXCEPT !.hidden = user.verb \in {"raise", "command"}])
  /\ UNCHANGED <<desk, wlrWire, extWire, wlr, ext>>

(* ... MENU_CUSTOM_ACTION: wayland_act_on_window() *)
RunCommand ==
  /\ user.verb = "command" /\ user.row \in 1..Len(wlr)
  /\ LET lists == IF wlr[user.row].identifier = NoIdentifier THEN Matched
                  ELSE [wlr |-> wlr, ext |-> ext]
     IN /\ wlr' = lists.wlr /\ ext' = lists.ext
        /\ user' = UserDone([user EXCEPT
                               !.hasty = @ \/ (InFlight /\ lists.wlr # wlr)])
  /\ UNCHANGED <<desk, wlrWire, extWire>>

(* ... kb-custom-1: by the state last told, whatever was asked since *)
ToggleMinimized ==
  /\ user.verb = "minimise" /\ user.row \in 1..Len(wlr)
  /\ LET h == wlr[user.row]
     IN IF h.win \in desk.open
        THEN /\ desk' = [desk EXCEPT !.small = IF h.small THEN @ \ {h.win}
                                               ELSE @ \cup {h.win}]
             /\ wlrWire' = Append(wlrWire, Bearing(h.win, ~h.small))
        ELSE UNCHANGED <<desk, wlrWire>>
  /\ user' = UserDone(user) /\ UNCHANGED <<extWire, wlr, ext>>

(* ... MENU_OK, MENU_ENTRY_DELETE: a request on the handle of the row; raising  *)
(* a window changes nothing here                                                *)
AskWindow ==
  /\ user.verb \in {"raise", "close"} /\ user.row \in 1..Len(wlr)
  /\ LET w == wlr[user.row].win
     IN IF user.verb = "close" /\ w \in desk.open
        THEN /\ desk' = [desk EXCEPT !.open = @ \ {w}, !.small = @ \ {w}]
             /\ Announce(<<WindowEvent("closed", w)>>)
        ELSE UNCHANGED <<desk, wlrWire, extWire>>
  /\ user' = UserDone(user) /\ UNCHANGED <<wlr, ext>>

WindowNext ==
  \/ \E a \in Apps : OpenWindow(a) \/ \E w \in desk.open : RenameApp(w, a)
  \/ \E w \in desk.open : CloseWindow(w)
  \/ WlrEvent \/ ExtEvent
  \/ \E row \in 1..Windows, verb \in {"raise", "command", "close", "minimise"} :
       ChooseWindow(row, verb)
  \/ Vanished \/ RunCommand \/ ToggleMinimized \/ AskWindow
--------------------------------------------------------------------------------
(* A window command is run on the window it was chosen for, although the two    *)
(* protocols share no name: windows of one app are matched newest first, once,  *)
(* and keep their identifier while others open, close and are renamed           *)
(* (wayland-window.c:143-165, 791-806).  A match made while one protocol is     *)
(* ahead of the other may be wrong, and stays so.                               *)
CommandsHitTheirWindow ==
  ~user.hasty => \A h \in ToSet(wlr) : h.identifier \in {NoIdentifier, h.win}
--------------------------------------------------------------------------------
(* The window switcher under X11 (modes/window.c): two modes, of all windows    *)
(* and of those on this desktop, each with its list of ids, and one cache of    *)
(* what is known about a window, which either of them makes and frees.          *)
(*                                                                              *)
(* The server tells when a window is made and destroyed, and nothing else; the  *)
(* lists are loaded anew 100 ms after the last of these.  That a window manager *)
(* lists a window within this time is assumed.  Out: the columns, icons, what   *)
(* is chosen while the rows of an older list are on the screen.                 *)
CONSTANTS
  XIds,         \* window ids, which the server gives out again
  MaxOpenings   \* bound: windows made

ASSUME SwitcherAssumption == IsFiniteSet(XIds) /\ MaxOpenings \in Nat

VARIABLES
  clients,     \* the manager's list: client[id] is 0 or the number of its opening
  here,        \* the ids of those on the current desktop
  signals,     \* DestroyNotify and CreateNotify on their way
  reloading,   \* window_reload_timeout, or what the callback is about to load:
               \*   "no", "timer", "all" or "here"
  ids,         \* [all, here]: the ids of window_mode and window_mode_cd
  cache,       \* cache_client: cached[id] is 0 or the opening it describes
  openings     \* bound

switcherVars == <<clients, here, signals, reloading, ids, cache, openings>>

NoClients == [x \in XIds |-> 0]
Listed(which) == {x \in XIds : which[x] # 0}

(* window_client(), of every window listed: what is cached is not asked again. *)
LookedUp(known) == [x \in XIds |-> IF known[x] # 0 THEN known[x] ELSE clients[x]]

SwitcherInit(on) ==
  /\ clients \in {c \in [XIds -> 0..Cardinality(XIds)] :
                    /\ ~on => c = NoClients
                    /\ \A x, y \in Listed(c) : c[x] = c[y] => x = y
                    /\ \A x \in Listed(c) : c[x] <= Cardinality(Listed(c))}
  /\ here \in SUBSET Listed(clients)
  /\ ids = [all |-> Listed(clients), here |-> here] /\ cache = clients
  /\ signals = 0 /\ reloading = "no"
  /\ openings = IF on THEN Cardinality(Listed(clients)) ELSE MaxOpenings
--------------------------------------------------------------------------------
(* Mutant of Freed: the cache outlives the mode. *)
FreedLast(known) == known

(* x11_cache_free(), which window_mode_destroy() of either mode calls *)
Freed(known) == NoClients

(* window_client_reload(): each mode that was loaded is destroyed and made      *)
(* again, and the windows may change between the one and the other.             *)
ReloadTimer ==
  /\ reloading = "timer" /\ reloading' = "all"
  /\ UNCHANGED <<clients, here, signals, ids, cache, openings>>

LoadAll ==
  /\ reloading = "all" /\ reloading' = "here"
  /\ cache' = LookedUp(Freed(cache)) /\ ids' = [ids EXCEPT !.all = Listed(clients)]
  /\ UNCHANGED <<clients, here, signals, openings>>

LoadHere ==
  /\ reloading = "here" /\ reloading' = "no"
  /\ cache' = LookedUp(Freed(cache)) /\ ids' = [ids EXCEPT !.here = here]
  /\ UNCHANGED <<clients, here, signals, openings>>

(* window_client_handle_signal(), which puts the timer off *)
HandleSignal ==
  /\ signals > 0 /\ reloading \in {"no", "timer"}
  /\ signals' = signals - 1 /\ reloading' = "timer"
  /\ UNCHANGED <<clients, here, ids, cache, openings>>
--------------------------------------------------------------------------------
OpenClient ==
  /\ openings < MaxOpenings /\ openings' = openings + 1
  /\ \E x \in XIds, visible \in BOOLEAN :
       /\ clients[x] = 0
       /\ clients' = [clients EXCEPT ![x] = openings + 1]
       /\ here' = IF visible THEN here \cup {x} ELSE here
  /\ signals' = signals + 1
  /\ UNCHANGED <<reloading, ids, cache>>

Destroy(x) ==
  /\ clients' = [clients EXCEPT ![x] = 0] /\ here' = here \ {x}
  /\ signals' = signals + 1

CloseClient ==
  /\ \E x \in Listed(clients) : Destroy(x)
  /\ UNCHANGED <<reloading, ids, cache, openings>>

(* window_mode_result() of a row as it is shown: the window is asked to close,  *)
(* and kb-delete-entry leaves the list open; raised, nothing changes here       *)
CloseRow ==
  /\ reloading \in {"no", "timer"}
  /\ \E x \in ids.all \cup ids.here : x \in Listed(clients) /\ Destroy(x)
  /\ UNCHANGED <<reloading, ids, cache, openings>>

SwitcherNext ==
  ReloadTimer \/ LoadAll \/ LoadHere \/ HandleSignal \/ OpenClient \/ CloseClient
    \/ CloseRow
--------------------------------------------------------------------------------
(* When the server has told all and nothing is left to load, each mode lists    *)
(* the windows that are there, and the one cache knows every one of them as it  *)
(* is now, however ids were given out again and the two loads were interrupted: *)
(* window_match() takes it for granted (window.c:402-440, 541-700, 865-876).    *)
SwitcherInStep ==
  signals = 0 /\ reloading = "no" =>
    /\ ids = [all |-> Listed(clients), here |-> here]
    /\ \A x \in ids.all : cache[x] = clients[x]
================================================================================
