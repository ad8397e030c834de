------------------------------- MODULE XWindow -------------------------------
(* The one window of the X11 backend (xcb/view.c, the view's half of            *)
(* xcb/display.c).  The views that lie upon one another share it, and one       *)
(* pixmap: a view draws into the pixmap, an idle copies it to the window.  The  *)
(* server answers later, by events, and a window manager resizes by itself.     *)
(*                                                                              *)
(* Of the geometry there is the height only, the rest goes the same way.  Which *)
(* monitor it is on and where comes after that, in variables of its own.  Out:  *)
(* input, grabs and focus, the selection, the fake background.                  *)
EXTENDS Integers, Sequences, SequencesExt

CONSTANTS
  Heights,
  Managing,     \* values of MENU_NORMAL_WINDOW, where the manager may resize
  MaxWindows,   \* bound: views upon one another
  MaxDrawings,  \* bound: changes of what the views show
  MaxUpsets     \* bound: expositions and resizes that nobody here asked for

ASSUME XAssumption ==
  /\ Heights \subseteq Nat \ {0} /\ Heights # {} /\ Managing \subseteq BOOLEAN /\ Managing # {}
  /\ {MaxWindows, MaxDrawings, MaxUpsets} \subseteq Nat

VARIABLES
  panes,      \* the views: [height, wanted, redraw, drawing], the active one last
  pixmap,     \* edit_pixmap: [height, picture]
  window,     \* the server's: [height, picture]
  xevents,    \* on their way: 0 is an Expose, else a ConfigureNotify with it
  painting,   \* repaint_source
  drawings,   \* ghost: numbers the things to show
  upsets,     \* bound
  managed     \* one of Managing

xVars == <<panes, pixmap, window, xevents, painting, drawings, upsets, managed>>

Blank == 0
Pane(height) == [height |-> height, wanted |-> height, redraw |-> TRUE, drawing |-> 1]

(* What the operators below take and return, a record of the variables.         *)
X == [panes |-> panes, pixmap |-> pixmap, window |-> window,
      xevents |-> xevents, painting |-> painting]
XBecomes(w) ==
  /\ panes' = w.panes /\ pixmap' = w.pixmap /\ window' = w.window
  /\ xevents' = w.xevents /\ painting' = w.painting

Top(w) == Last(w.panes)
WithPane(w, pane) == [w EXCEPT !.panes = Append(Front(@), pane)]

(* The server resizes: what is uncovered is lost, and it says so. *)
ServerResizes(w, height) ==
  IF height = w.window.height THEN w
  ELSE [w EXCEPT !.window = [height |-> height,
                             picture |-> IF height > @.height THEN Blank
                                         ELSE @.picture],
                 !.xevents = @ \o <<height>> \o
                             IF height > w.window.height THEN <<0>> ELSE <<>>]

(* xcb_sofi_view_queue_redraw() *)
QueueRedraw(w) == [w EXCEPT !.painting = @ \/ w.panes # <<>>]

(* Mutant of WidgetResize: a widget that has its size is left as it is. *)
WidgetResizeLazy(pane, height) == pane

(* widget_resize(): "on a resize we always want to update" *)
WidgetResize(pane, height) == [pane EXCEPT !.redraw = TRUE]

(* A pixmap for the view on top; the new one shows nothing. *)
NewPixmap(w, height) ==
  [WithPane(w, WidgetResize(Top(w), height))
     EXCEPT !.pixmap = [height |-> height, picture |-> Blank]]

(* xcb_sofi_view_window_update_size() *)
WindowUpdateSize(w) ==
  NewPixmap(ServerResizes(w, Top(w).height), Top(w).height)

(* xcb_sofi_view_update() *)
UpdateView(w, requeue) ==
  IF ~Top(w).redraw THEN w
  ELSE LET drawn == [WithPane(w, [Top(w) EXCEPT !.redraw = FALSE])
                       EXCEPT !.pixmap.picture = Top(w).drawing]
       IN IF requeue THEN QueueRedraw(drawn) ELSE drawn

(* The view on top is to show something else, which wants a height. *)
ToldAnew(w, height) ==
  WithPane(w, [Top(w) EXCEPT !.redraw = TRUE, !.wanted = height, !.drawing = drawings + 1])

(* The size of the window after sofi_view_refilter_real(), whoever gave the old *)
(* one.                                                                         *)
Resized(w) ==
  IF Top(w).wanted = Top(w).height THEN w
  ELSE WindowUpdateSize(WithPane(w, [Top(w) EXCEPT !.height = Top(w).wanted]))

XInit(on) ==
  /\ \E h \in IF on THEN Heights ELSE {CHOOSE x \in Heights : TRUE} :
       /\ panes = IF on THEN <<Pane(h)>> ELSE <<>>
       /\ pixmap = [height |-> h, picture |-> Blank]
       /\ window = [height |-> h, picture |-> Blank]
  /\ xevents = IF on THEN <<0>> ELSE <<>>
  /\ painting = on /\ drawings = 1 /\ upsets = 0
  /\ managed \in IF on THEN Managing ELSE {CHOOSE k \in Managing : TRUE}
--------------------------------------------------------------------------------
(* What was typed or came from the mode is shown: sofi_view_maybe_update() with *)
(* a refilter, or the idle of xcb_sofi_view_reload(), which the repaint filters *)
ShowAnew ==
  /\ panes # <<>> /\ drawings < MaxDrawings
  /\ \E h \in Heights : XBecomes(UpdateView(Resized(ToldAnew(X, h)), TRUE))
  /\ drawings' = drawings + 1 /\ UNCHANGED <<upsets, managed>>

(* sofi_view_error_dialog(), and sofi_view_set_active() of it *)
OpenDialog ==
  /\ panes # <<>> /\ Len(panes) < MaxWindows /\ drawings < MaxDrawings
  /\ \E h \in Heights :
       LET dialog == [Pane(h) EXCEPT !.drawing = drawings + 1]
           sized == WindowUpdateSize([X EXCEPT !.panes = Append(@, dialog)])
       IN XBecomes(QueueRedraw(WindowUpdateSize(sized)))
  /\ drawings' = drawings + 1 /\ UNCHANGED <<upsets, managed>>

(* sofi_view_set_active(NULL) with another view below *)
CloseDialog ==
  /\ Len(panes) > 1
  /\ XBecomes(QueueRedraw(WindowUpdateSize([X EXCEPT !.panes = Front(@)])))
  /\ UNCHANGED <<drawings, upsets, managed>>

(* xcb_sofi_view_repaint(): the view is drawn if need be, and copied *)
RepaintWindow ==
  /\ painting
  /\ LET drawn == UpdateView(X, FALSE)
     IN XBecomes([drawn EXCEPT !.window.picture = drawn.pixmap.picture,
                               !.painting = FALSE])
  /\ UNCHANGED <<drawings, upsets, managed>>

(* xcb_sofi_view_temp_configure_notify() *)
Configured(w, height) ==
  IF height = Top(w).height THEN w
  ELSE NewPixmap(WithPane(w, [Top(w) EXCEPT !.height = height]), height)

(* main_loop_x11_event_handler_view(), which ends with an update *)
XEvent ==
  /\ xevents # <<>> /\ panes # <<>>
  /\ LET rest == [X EXCEPT !.xevents = Tail(@)]
         handled == IF Head(xevents) = 0 THEN QueueRedraw(rest)
                    ELSE Configured(rest, Head(xevents))
     IN XBecomes(UpdateView(handled, TRUE))
  /\ UNCHANGED <<drawings, upsets, managed>>

(* The server uncovers the window, or the window manager resizes it. *)
Upset ==
  /\ panes # <<>> /\ upsets < MaxUpsets
  /\ \/ XBecomes([X EXCEPT !.window.picture = Blank, !.xevents = Append(@, 0)])
     \/ managed /\ \E h \in Heights \ {window.height} : XBecomes(ServerResizes(X, h))
  /\ upsets' = upsets + 1 /\ UNCHANGED <<drawings, managed>>

XNext == ShowAnew \/ OpenDialog \/ CloseDialog \/ RepaintWindow \/ XEvent \/ Upset

(* When the server has nothing more to say and no idle is left, the window      *)
(* shows what the view on top has drawn last, at the size that the window has,  *)
(* however its own resizes, the manager's and the events of a view that has     *)
(* gone from the top meanwhile have crossed (xcb/view.c:200-250, 369-396,       *)
(* 820-855, widgets/widget.c:92-106).                                           *)
WindowInStep ==
  panes # <<>> /\ xevents = <<>> /\ ~painting =>
    /\ window.picture = Last(panes).drawing
    /\ window.height = Last(panes).height /\ pixmap.height = window.height
--------------------------------------------------------------------------------
(* Where the window lies.  sofi asks X once for its monitors; the first who     *)
(* asks sofi for the active one, which is the theme for its media blocks,       *)
(* decides for all who ask later.  A view is placed on that when it is made and *)
(* when its height changes.                                                     *)
CONSTANTS
  Desks,      \* what X says at a time: see Detected and FromDesk
  Wishes,     \* config.monitor: [kind, value, name]
  Root,       \* the screen: [w, h]
  Placings,   \* [location, anchor, themed, offset, full], see Stay
  Extents,    \* heights that views want
  Spots,      \* where a window manager puts it: [x, y]
  MaxShifts   \* bound: of what X says, and of views

VARIABLES
  offered,    \* one of Desks
  stay,       \* what sofi knows of it, see Stay
  shifts      \* bound

placeVars == <<offered, stay, shifts>>

ASSUME PlaceAssumption ==
  /\ \A d \in Desks : d.by \in {"monitors", "outputs", "xinerama", "none"}
  /\ {Root.w, Root.h, MaxShifts} \cup Extents \subseteq Nat
  /\ \A p \in Placings :
       p.location \cup UNION p.anchor \subseteq {"north", "east", "south", "west"}

Area(x, y, w, h) == [x |-> x, y |-> y, w |-> w, h |-> h, name |-> "", primary |-> FALSE]
WholeScreen == Area(0, 0, Root.w, Root.h)

(* x11_build_monitor_layout(): the monitors of RandR 1.5 are put each before    *)
(* the last, as those of Xinerama are, which have no names; outputs of an older *)
(* RandR keep their order, those that are off left out.                         *)
Detected(d) ==
  CASE d.by = "monitors" -> Reverse(d.monitors)
    [] d.by = "outputs" -> SelectSeq(d.monitors, LAMBDA a : a.w > 0)
    [] d.by = "xinerama" -> [i \in DOMAIN d.monitors |->
                               LET a == Reverse(d.monitors)[i] IN Area(a.x, a.y, a.w, a.h)]
    [] d.by = "none" -> <<>>

HasPoint(a, p) == a.x <= p.x /\ p.x < a.x + a.w /\ a.y <= p.y /\ p.y < a.y + a.h

(* monitor_dimensions() *)
MonitorAt(areas, p) ==
  LET those == SelectSeq(areas, LAMBDA a : HasPoint(a, p))
  IN IF those = <<>> THEN WholeScreen ELSE Head(those)

(* monitor_active_from_id(), which falls back to the monitor of the pointer     *)
FromDesk(d, areas, n) ==
  CASE n = -1 /\ d.viewport # {} -> MonitorAt(areas, CHOOSE p \in d.viewport : TRUE)
    [] n = -2 /\ d.focused # {} -> CHOOSE a \in d.focused : TRUE
    [] n = -4 /\ d.focused # {} -> MonitorAt(areas, CHOOSE a \in d.focused : TRUE)
    [] n = -3 -> [MonitorAt(areas, d.pointer) EXCEPT !.x = d.pointer.x, !.y = d.pointer.y]
    [] OTHER -> MonitorAt(areas, d.pointer)

(* monitor_active_from_winid(), where the wid is the focused window's           *)
WindowAsked(d) == SetToSeq(d.focused)

(* The first answer of xcb_display_monitor_active()                             *)
FirstAnswer(d, areas, wish) ==
  LET fits == CASE wish.kind = "name" -> SelectSeq(areas, LAMBDA a : a.name = wish.name)
                [] wish.kind = "primary" -> SelectSeq(areas, LAMBDA a : a.primary)
                [] wish.kind = "wid" -> WindowAsked(d)
                [] wish.kind = "number" /\ wish.value < 0 ->
                     <<FromDesk(d, areas, wish.value)>>
                [] OTHER -> IF wish.value < Len(areas) THEN <<areas[wish.value + 1]>> ELSE <<>>
  IN IF fits # <<>> THEN [area |-> Head(fits), known |-> TRUE]
     ELSE [area |-> MonitorAt(areas, [x |-> 0, y |-> 0]), known |-> FALSE]

(* xcb_display_monitor_active(): what was answered once stays, and is known.    *)
ActiveMonitor(s) ==
  IF s.cached # {} THEN [area |-> CHOOSE a \in s.cached : TRUE, known |-> TRUE]
  ELSE FirstAnswer(offered, s.areas, s.wish)

(* areas: xcb->monitors; cached: mon_cache, if mon_set; measured: what the      *)
(* theme was told; mon: XcbState.mon; lays: where the views are, the one on top *)
(* last; first, given (ghosts): what X said at the first question, did the      *)
(* manager put it there.  Of the window, location: the sides, themed if the     *)
(* theme gives them; anchor: the theme's, in a set; offset: x-offset, y-offset; *)
(* full: fullscreen.                                                            *)
Stay(d, wish, placing) ==
  placing @@
  [areas |-> Detected(d), wish |-> wish, stage |-> "started", cached |-> {},
   measured |-> [area |-> WholeScreen, known |-> FALSE], mon |-> WholeScreen,
   lays |-> <<>>, first |-> d]

(* A point of an area by the sides it is on. *)
PointOf(a, sides) ==
  [x |-> a.x + (IF "west" \in sides THEN 0 ELSE IF "east" \in sides THEN a.w ELSE a.w \div 2),
   y |-> a.y + (IF "north" \in sides THEN 0 ELSE IF "south" \in sides THEN a.h ELSE a.h \div 2)]
AnchorOf(s) == IF s.anchor = {} THEN s.location ELSE CHOOSE a \in s.anchor : TRUE

(* xcb_sofi_view_calculate_window_position() of a view of that height, and the  *)
(* width and height of one that fills the screen                                *)
Laid(s, height) ==
  LET size == Area(0, 0, IF s.full THEN s.mon.w ELSE s.mon.w \div 2,
                         IF s.full THEN s.mon.h ELSE height)
      at == PointOf(s.mon, s.location)
      own == PointOf(size, AnchorOf(s))
  IN [w |-> size.w, h |-> size.h, given |-> FALSE,
      x |-> IF s.full THEN s.mon.x ELSE at.x - own.x + s.offset,
      y |-> IF s.full THEN s.mon.y ELSE at.y - own.y + s.offset]

PlaceInit(on) ==
  /\ offered \in IF on THEN Desks ELSE {CHOOSE d \in Desks : TRUE}
  /\ \E wish \in IF on THEN Wishes ELSE {CHOOSE m \in Wishes : TRUE},
        placing \in IF on THEN Placings ELSE {CHOOSE p \in Placings : TRUE} :
       stay = Stay(offered, wish, placing)
  /\ shifts = 0
--------------------------------------------------------------------------------
StayBecomes(s) == stay' = s /\ UNCHANGED <<offered, shifts>>
ViewBecomes(s) ==
  /\ shifts < MaxShifts
  /\ stay' = s /\ shifts' = shifts + 1 /\ UNCHANGED offered
TopBecomes(lay) == ViewBecomes([stay EXCEPT !.lays = Append(Front(@), lay)])

(* The pointer, the focus or the monitors are others. *)
ServerShifts ==
  /\ shifts < MaxShifts
  /\ offered' \in Desks \ {offered} /\ shifts' = shifts + 1 /\ UNCHANGED stay

(* sofi_theme_parse_process_conditionals() *)
MeasureForTheme ==
  /\ stay.stage = "started"
  /\ LET active == ActiveMonitor(stay)
     IN StayBecomes([stay EXCEPT !.measured = active, !.cached = {active.area},
                                 !.first = offered, !.stage = "themed"])

(* startup(): the window and config_sanity_check(), which gives a location that *)
(* the theme may overrule                                                       *)
CreateWindow ==
  /\ stay.stage = "themed"
  /\ StayBecomes([stay EXCEPT
       !.mon = ActiveMonitor(stay).area, !.stage = "window",
       !.location = IF stay.wish.value = -3 /\ ~stay.themed THEN {"north", "west"} ELSE @])

(* sofi_view_create(), sofi_view_error_dialog() *)
PlaceView ==
  /\ stay.stage = "window" /\ Len(stay.lays) < 2
  /\ \E h \in Extents : ViewBecomes([stay EXCEPT !.lays = Append(@, Laid(stay, h))])
LeaveView == Len(stay.lays) > 1 /\ StayBecomes([stay EXCEPT !.lays = Front(@)])

(* Mutant of Regrown: the window grows where it is. *)
RegrownInPlace(s, lay, height) == [lay EXCEPT !.h = Laid(s, height).h]

(* The end of sofi_view_refilter_real() *)
Regrown(s, lay, height) ==
  IF Laid(s, height).h = lay.h THEN lay ELSE Laid(s, height)
RefilterPlaced ==
  /\ stay.lays # <<>>
  /\ \E h \in Extents : TopBecomes(Regrown(stay, Last(stay.lays), h))

(* xcb_sofi_view_temp_configure_notify() *)
ManagerMoves ==
  /\ stay.lays # <<>>
  /\ \E p \in Spots :
       TopBecomes([Last(stay.lays) EXCEPT !.x = p.x, !.y = p.y, !.given = TRUE])

PlaceNext ==
  ServerShifts \/ MeasureForTheme \/ CreateWindow \/ PlaceView \/ LeaveView
    \/ RefilterPlaced \/ ManagerMoves

(* What the area has to do with what was asked for, if there is such a one.     *)
AsWished(d, areas, wish, a) ==
  LET Shows(p) == (\E b \in Range(areas) : HasPoint(b, p)) => HasPoint(a, p)
  IN CASE wish.kind = "name" -> a.name = wish.name
       [] wish.kind = "primary" -> a.primary
       [] wish.kind = "wid" \/ (wish.value = -2 /\ d.focused # {}) -> a \in d.focused
       [] wish.value = -1 /\ d.viewport # {} -> \A p \in d.viewport : Shows(p)
       [] wish.value = -4 /\ d.focused # {} -> \A w \in d.focused : Shows(w)
       [] wish.value = -3 -> a.x = d.pointer.x /\ a.y = d.pointer.y
       [] wish.value < 0 -> Shows(d.pointer)
       [] OTHER -> a \in Range(areas)

(* However pointer, focus and monitors change and whoever asks: the theme has   *)
(* measured the monitor that the window is on, which is the one asked for as it *)
(* was at the first question; a view's anchor lies on the location until a      *)
(* window manager moves it, however it grows and whatever lies over it, and a   *)
(* view that has room is on the monitor entirely (xcb/display.c:1016,           *)
(* xcb/view.c:279, view.c:990, helper.c:798).                                   *)
PlacedAsAsked ==
  stay.stage = "window" =>
    /\ stay.mon = stay.measured.area
    /\ stay.measured.known => AsWished(stay.first, stay.areas, stay.wish, stay.mon)
    /\ \A i \in DOMAIN stay.lays :
         LET lay == stay.lays[i]
             own == PointOf(lay, AnchorOf(stay))
             at == PointOf(stay.mon, stay.location)
         IN \/ lay.given
            \/ /\ own.x = at.x + stay.offset /\ own.y = at.y + stay.offset
               /\ AnchorOf(stay) = stay.location /\ stay.offset = 0
                  /\ lay.w <= stay.mon.w /\ lay.h <= stay.mon.h
                  => /\ stay.mon.x <= lay.x /\ lay.x + lay.w <= stay.mon.x + stay.mon.w
                     /\ stay.mon.y <= lay.y /\ lay.y + lay.h <= stay.mon.y + stay.mon.h
================================================================================
