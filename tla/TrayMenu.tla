-------------------------------- MODULE TrayMenu --------------------------------
(* The menu of a tray icon (modes/tray-menu.c) in the panel whose strip shows   *)
(* the icons: fetched level by level from an application (dbusmenu.c), whose    *)
(* replies block the main loop.  The strip stays up, so that another icon may   *)
(* be clicked at any time, also while the panel is leaving.                     *)
EXTENDS Integers, Sequences, SequencesExt

CONSTANTS
  Items,            \* the tray icons, and the applications behind them
  Publishers,       \* those that have a menu
  Layouts,          \* the menus an application may publish: [level -> rows]
  MaxDepth,         \* TRAY_MENU_MAX_DEPTH
  MaxRows,          \* MENU_MAX_ENTRIES
  MaxClicks         \* bound: clicks on icons

(* A row is [id, kind, visible]; level 0 is the root, a submenu's its id. *)
MenuKinds == {"leaf", "submenu", "separator", "disabled"}

ASSUME TrayMenuAssumption ==
  /\ Publishers \subseteq Items /\ {MaxDepth, MaxRows} \subseteq Nat \ {0}
  /\ MaxClicks \in Nat

VARIABLES
  target,    \* the static target: item, or "none"; generation
  panel,     \* TrayMenuModePrivateData
  strip,     \* the view: which mode it shows, its result, what that means
  published, \* what each application would answer, if it is there
  clicked    \* the last event sent to an application, its icon last clicked

menuVars == <<target, panel, strip, published, clicked>>

NoResult == [kind |-> "none", line |-> 0]
NoRow == [item |-> "none", level |-> 0, id |-> 0, kind |-> "none"]

MenuInit(on) ==
  /\ target = [item |-> "none", generation |-> 0]
  /\ panel = [set |-> FALSE, menu |-> "none", entries |-> <<>>, stack |-> <<>>,
              generation |-> 0]
  /\ strip = [up |-> on, mode |-> "strip", result |-> NoResult, rows |-> 0,
              meant |-> NoRow]
  /\ published = [i \in Items |-> [there |-> TRUE, menu |-> CHOOSE l \in Layouts : TRUE]]
  /\ clicked = [icon |-> "none", clicks |-> 0, sent |-> NoRow, meant |-> NoRow,
                path |-> <<>>]
--------------------------------------------------------------------------------
(* A level. *)

(* sofi_dbusmenu_read(): AboutToShow, GetLayout, and the rows that are visible  *)
(* among the first of them; none from an application that is gone or too slow   *)
Answered(item, level) ==
  IF ~published[item].there \/ level \notin DOMAIN published[item].menu THEN <<>>
  ELSE LET sent == published[item].menu[level]
           taken == SubSeq(sent, 1, IF Len(sent) > MaxRows THEN MaxRows ELSE Len(sent))
           seen == SelectSeq(taken, LAMBDA e : e.visible)
       IN [i \in 1..Len(seen) |-> [item |-> item, level |-> level,
                                   id |-> seen[i].id, kind |-> seen[i].kind]]

(* set_placeholder() *)
Placeholder == <<[NoRow EXCEPT !.kind = "disabled"]>>

Level(stack) == IF stack = <<>> THEN 0 ELSE Last(stack)

(* load_level(); slow: the call timed out *)
LoadLevel(p, slow) ==
  LET read == IF p.menu = "none" \/ slow THEN <<>>
              ELSE Answered(p.menu, Level(p.stack))
  IN [p EXCEPT !.entries = IF read = <<>> THEN Placeholder ELSE read]

HasUpRow(p) == p.stack # <<>>

UpRow == [NoRow EXCEPT !.kind = "up"]

(* entry_at(); a line past the end is the `..` row too, drawn and chosen *)
EntryAt(p, line) ==
  LET at == IF HasUpRow(p) THEN line - 1 ELSE line
  IN IF at \in 1..Len(p.entries) THEN p.entries[at] ELSE UpRow

NumRows(p) == Len(p.entries) + (IF HasUpRow(p) THEN 1 ELSE 0)

(* sofi_tray_menu_set_target() *)
SetTarget(item) == [item |-> item, generation |-> target.generation + 1]

(* Mutant of ModeInit: the level of the menu before stays. *)
ModeInitDeep(t, slow) ==
  IF panel.set /\ panel.generation = t.generation THEN panel
  ELSE LoadLevel([panel EXCEPT !.set = TRUE, !.menu = t.item,
                               !.generation = t.generation], slow)

(* tray_menu_mode_init(), sofi_dbusmenu_open() *)
ModeInit(t, slow) ==
  IF panel.set /\ panel.generation = t.generation THEN panel
  ELSE LoadLevel([set |-> TRUE, menu |-> t.item, entries |-> <<>>, stack |-> <<>>,
                  generation |-> t.generation], slow)
--------------------------------------------------------------------------------
(* The view. *)

(* tray_icon_trigger_action(), tray_open_menu(), sofi_enable_mode(); an icon    *)
(* without a menu is activated, which changes nothing here                      *)
ClickIcon(item) ==
  /\ strip.up /\ clicked.clicks < MaxClicks /\ item \in Publishers
  /\ \E slow \in BOOLEAN :
       /\ target' = SetTarget(item)
       /\ panel' = ModeInit(target', slow)
  /\ strip' = [strip EXCEPT !.result = [kind |-> "switch", line |-> 0],
                            !.meant = NoRow]
  /\ clicked' = [clicked EXCEPT !.icon = item, !.clicks = @ + 1, !.path = <<>>,
                                !.sent = NoRow]
  /\ UNCHANGED published

(* Enter, or a click, on a row of the menu: the row that would be drawn now *)
ChooseRow(line) ==
  /\ strip.up /\ strip.mode = "menu" /\ line \in 1..strip.rows
  /\ strip' = [strip EXCEPT !.result = [kind |-> "ok", line |-> line],
                            !.meant = EntryAt(panel, line)]
  /\ clicked' = [clicked EXCEPT !.sent = NoRow]
  /\ UNCHANGED <<target, panel, published>>

(* MODE_NEXT, and back; the mode is initialised when modes are collected only *)
CycleModes ==
  /\ strip.up /\ panel.set
  /\ strip' = [strip EXCEPT !.result = [kind |-> "next", line |-> 0], !.meant = NoRow]
  /\ clicked' = [clicked EXCEPT !.sent = NoRow]
  /\ UNCHANGED <<target, panel, published>>

CancelMenu ==
  /\ strip.up
  /\ strip' = [strip EXCEPT !.result = [kind |-> "cancel", line |-> 0], !.meant = NoRow]
  /\ clicked' = [clicked EXCEPT !.sent = NoRow]
  /\ UNCHANGED <<target, panel, published>>

(* tray_menu_mode_result() of MENU_OK: what becomes of the panel, if it stays *)
Deeper(e, slow) ==
  LoadLevel([panel EXCEPT !.stack = Append(@, e.id)], slow)
Higher(slow) == LoadLevel([panel EXCEPT !.stack = Front(@)], slow)

ShowsMenu(p) == [strip EXCEPT !.mode = "menu", !.rows = NumRows(p), !.result = NoResult]
Closed == [strip EXCEPT !.up = FALSE, !.result = NoResult]

(* sofi_view_maybe_update() after the exit motion, process_result() *)
GoUp(slow) ==
  /\ EntryAt(panel, strip.result.line) = UpRow
  /\ IF HasUpRow(panel)
     THEN panel' = Higher(slow) /\ strip' = ShowsMenu(panel')
          /\ clicked' = [clicked EXCEPT
               !.path = IF @ # <<>> THEN Front(@) ELSE @]
     ELSE strip' = Closed /\ UNCHANGED <<panel, clicked>>

Refuse ==
  LET e == EntryAt(panel, strip.result.line)
  IN /\ \/ e.kind \in {"separator", "disabled"}
        \/ e.kind = "submenu" /\ Len(panel.stack) >= MaxDepth
     /\ strip' = ShowsMenu(panel) /\ UNCHANGED <<panel, clicked>>

Descend(slow) ==
  LET e == EntryAt(panel, strip.result.line)
  IN /\ e.kind = "submenu" /\ Len(panel.stack) < MaxDepth
     /\ panel' = Deeper(e, slow) /\ strip' = ShowsMenu(panel')
     /\ clicked' = [clicked EXCEPT !.path = Append(@, strip.meant.id)]

(* sofi_dbusmenu_event() *)
Fire ==
  LET e == EntryAt(panel, strip.result.line)
  IN /\ e.kind = "leaf"
     /\ clicked' = [clicked EXCEPT !.sent = e, !.meant = strip.meant]
     /\ strip' = Closed /\ UNCHANGED panel

ProcessChoice ==
  /\ strip.up /\ strip.result.kind = "ok"
  /\ \E slow \in BOOLEAN : GoUp(slow) \/ Descend(slow) \/ Refuse \/ Fire
  /\ UNCHANGED <<target, published>>

ProcessSwitch ==
  /\ strip.up /\ strip.result.kind \in {"switch", "next", "cancel"}
  /\ strip' = CASE strip.result.kind = "switch" -> ShowsMenu(panel)
                [] strip.result.kind = "cancel" -> Closed
                [] strip.mode = "menu" -> [strip EXCEPT !.mode = "strip", !.result = NoResult]
                [] OTHER -> ShowsMenu(panel)
  /\ UNCHANGED <<target, panel, published, clicked>>

(* An application publishes another menu, or leaves. *)
Republish(item) ==
  /\ strip.up /\ published[item].there
  /\ \/ \E l \in Layouts : published' = [published EXCEPT ![item].menu = l]
     \/ published' = [published EXCEPT ![item].there = FALSE]
  /\ UNCHANGED <<target, panel, strip, clicked>>

MenuNext ==
  \/ \E i \in Items : ClickIcon(i) \/ Republish(i)
  \/ \E n \in 1..(MaxRows + 1) : ChooseRow(n)
  \/ CycleModes \/ CancelMenu \/ ProcessChoice \/ ProcessSwitch
--------------------------------------------------------------------------------
(* The rows on screen are those of the icon that was clicked last, at the level *)
(* the user went down to, however clicks, choices and a leaving panel mix; and  *)
(* an application is told of a row only when it is the one that was chosen      *)
(* (tray-menu.c:65-73, 99-107).                                                 *)
MenuIsTheIcons ==
  /\ \A e \in ToSet(panel.entries) :
       e.item # "none" => e.item = clicked.icon /\ e.level = Level(clicked.path)
  /\ clicked.sent # NoRow => clicked.sent = clicked.meant
================================================================================
