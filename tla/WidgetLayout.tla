------------------------------ MODULE WidgetLayout ------------------------------
(* The widgets of a view (widgets/box.c, container.c, icon.c, widget.c, the      *)
(* sizes of textbox.c and listview.c, and what view.c does to them): a window    *)
(* that stacks an input bar, a message, the list and the tray's icons.  A widget *)
(* has a place, a box lays out its children when it is resized or one of them    *)
(* changes, a text says what room it wants, and drawing is put off until the     *)
(* window is marked.                                                             *)
(*                                                                               *)
(* A line of text and an icon are one high; padding, borders and the rows inside *)
(* the list (ListView) are left out.  The window and its mainbox, which fills    *)
(* it, are one.  A box updates its parent, which resizes the box, which ...      *)
(* until nothing changes its size: here the box and then the window are laid out *)
(* once, which is where that ends.                                               *)
EXTENDS Integers, Sequences, SequencesExt

CONSTANTS
  Breadth,       \* width of the window
  Tallness,      \* values of the theme's "height", 0 is none
  GivenHeights,  \* what a window manager may resize it to
  Space,         \* "spacing" of every box
  ListLines,     \* "lines" of the list
  Prompts,       \* widths of the modes' names
  Notes,         \* widths of what is said over the input bar
  Sayings,       \* widths of messages, which are wrapped; 0 is none
  RowCounts,     \* how many rows a filter may leave
  TrayItems,     \* what may have an icon
  TrayIcons,     \* icon widgets, by place
  MaxReshapes    \* bound

ASSUME WidgetsAssumption ==
  /\ Tallness \cup GivenHeights \cup RowCounts \cup Sayings \cup TrayItems \subseteq Nat
  /\ Prompts \cup Notes \subseteq Nat \ {0}
  /\ {Breadth, Space, ListLines, MaxReshapes} \subseteq Nat
  /\ TrayIcons \in Seq(STRING)

VARIABLES
  board,     \* the widgets, see NoView
  reshapes   \* bound

layoutVars == <<board, reshapes>>

NoPlace == [x |-> 0, y |-> 0, w |-> 0, h |-> 0]
TextWidgets == {"prompt", "entry", "overlay", "line"}
Expanding == {"entry", "listview"}
LeafWidgets == TextWidgets \cup {"listview"} \cup Range(TrayIcons)
WidgetNames == LeafWidgets \cup {"window", "inputbar", "message", "tray"}

(* place: x and y in the parent, w, h; says: what a leaf shows, of a text its    *)
(* width; tall: the theme's height; lines: fixed_num_lines, of normal windows;   *)
(* height: the view's; redraw: need_redraw of the window; picture: what was      *)
(* drawn last; timer: overlay_timeout; brief: is the overlay one that goes by    *)
(* itself (ghost).                                                               *)
NoView ==
  [place |-> [c \in WidgetNames |-> NoPlace], disabled |-> {"overlay", "message"},
   says |-> [c \in {"prompt", "entry", "overlay", "line", "listview"} |-> 1],
   tray |-> <<>>, tall |-> 0, lines |-> FALSE, height |-> 0, redraw |-> FALSE,
   picture |-> <<>>, timer |-> FALSE, brief |-> FALSE]

AtLeast(n, m) == IF n > m THEN n ELSE m
NeedsRedraw(v) == [v EXCEPT !.redraw = TRUE]

(* The children of a box that are enabled, in order. *)
Kids(v, b) ==
  SelectSeq(CASE b = "window" -> <<"inputbar", "message", "listview", "tray">>
              [] b = "inputbar" -> <<"prompt", "entry", "overlay">>
              [] b = "tray" -> SubSeq(TrayIcons, 1, Len(v.tray))
              [] b = "message" -> <<"line">>,
            LAMBDA c : c \notin v.disabled)

AddedUp(f(_), s) == FoldLeft(LAMBDA n, c : n + f(c), 0, s)

(* textbox_get_desired_height(), listview_get_desired_height() of a list whose   *)
(* lines are fixed or dynamic, icon_get_desired_height()                         *)
LeafHeight(v, c, width) ==
  CASE c = "line" -> LET across == AtLeast(width, 1)
                     IN (v.says["line"] + across - 1) \div across
    [] c = "listview" -> IF ~v.lines /\ v.says[c] < ListLines THEN v.says[c] ELSE ListLines
    [] OTHER -> 1

(* box_get_desired_height() of a horizontal box, container_get_desired_height()  *)
DesiredHeight(v, c, width) ==
  IF c \in LeafWidgets THEN LeafHeight(v, c, width)
  ELSE FoldLeft(LAMBDA n, d : AtLeast(n, LeafHeight(v, d, width)), 0, Kids(v, c))

(* box_get_desired_height() of the window *)
WindowWants(v) ==
  LET kids == Kids(v, "window")
      Wanted(c) == DesiredHeight(v, c, Breadth)
  IN AddedUp(Wanted, kids) + (Len(kids) - 1) * Space

(* textbox_get_desired_width(), icon_get_desired_width() *)
DesiredWidth(v, c) == IF c \in TextWidgets THEN v.says[c] ELSE 1

(* widget_resize() of a leaf: textbox_moveresize(), where a text that sizes      *)
(* itself keeps its width and each has the height of its lines at least;         *)
(* icon_resize(), listview_resize()                                              *)
LeafResized(v, c, width, height) ==
  LET own == IF c \in {"prompt", "overlay"} THEN v.says[c] ELSE AtLeast(width, 1)
      size == IF c \notin TextWidgets THEN [w |-> width, h |-> height]
              ELSE [w |-> own, h |-> AtLeast(height, AtLeast(1, LeafHeight(v, c, own)))]
      at == v.place[c]
  IN NeedsRedraw(IF at.w = width /\ at.h = height THEN v
            ELSE [v EXCEPT !.place[c] = size @@ [x |-> at.x, y |-> at.y]])

(* vert_calculate_size() and hori_calculate_size(): where each child of b begins *)
(* and how long it is.  What does not expand gets what it wants; at most one in  *)
(* a box expands, and gets the rest.                                             *)
WantedParts(v, b, vertical, kids) ==
  [i \in DOMAIN kids |->
     [child |-> kids[i],
      length |-> IF kids[i] \in Expanding THEN 0
                 ELSE IF vertical THEN DesiredHeight(v, kids[i], v.place[b].w)
                 ELSE DesiredWidth(v, kids[i])]]
Span(parts) == FoldLeft(LAMBDA n, p : n + p.length + Space, 0, parts)
Filled(parts, room) ==
  [i \in DOMAIN parts |->
     IF parts[i].child \notin Expanding THEN parts[i]
     ELSE [parts[i] EXCEPT !.length = AtLeast(0, room - (Span(parts) - Space))]]
Spread(parts) ==
  [i \in DOMAIN parts |-> parts[i] @@ [at |-> Span(SubSeq(parts, 1, i - 1))]]
Shares(v, b, vertical) ==
  Spread(Filled(WantedParts(v, b, vertical, Kids(v, b)),
                IF vertical THEN v.place[b].h ELSE v.place[b].w))

MovedTo(v, c, x, y) == [v EXCEPT !.place[c] = [@ EXCEPT !.x = x, !.y = y]]
WithSize(v, c, width, height) == [v EXCEPT !.place[c] = [@ EXCEPT !.w = width, !.h = height]]

(* box_update() of a row, which runs out of its box if it is too wide, and       *)
(* container_update()                                                            *)
RowUpdated(v, b) ==
  FoldLeft(LAMBDA u, p : LeafResized(MovedTo(u, p.child, p.at, 0), p.child, p.length, v.place[b].h),
           v, IF b = "message" THEN <<[child |-> "line", at |-> 0, length |-> v.place[b].w]>>
              ELSE Shares(v, b, FALSE))

(* widget_resize() of what the window stacks: box_resize(), container_resize() *)
RowResized(v, c, width, height) ==
  CASE c = "listview" -> LeafResized(v, c, width, height)
    [] v.place[c].w = width /\ v.place[c].h = height -> NeedsRedraw(v)
    [] OTHER -> NeedsRedraw(RowUpdated(WithSize(v, c, width, height), c))

(* box_update() of the window: if it is too high what it stacks stays where it   *)
(* was, and what expands as it was.                                              *)
Stacked(v, parts, tooHigh) ==
  FoldLeft(LAMBDA u, p :
             IF tooHigh /\ p.child \in Expanding THEN u
             ELSE RowResized(IF tooHigh THEN u ELSE MovedTo(u, p.child, 0, p.at),
                             p.child, v.place["window"].w, p.length),
           v, parts)
StackedWithin(v, parts, height) == Stacked(v, parts, Span(parts) - Space > height)
WindowUpdated(v) == StackedWithin(v, Shares(v, "window", TRUE), v.place["window"].h)

(* widget_update() of a row and of its parent; a container does not update its   *)
(* parent, those who change it do.                                               *)
UpdatedUp(v, b) ==
  FoldLeft(LAMBDA u, c : IF c = "window" THEN WindowUpdated(u) ELSE RowUpdated(u, c),
           v, <<b, "window">>)

(* widget_resize() of the window *)
WindowResized(v, height) ==
  IF v.place["window"].w = Breadth /\ v.place["window"].h = height THEN NeedsRedraw(v)
  ELSE NeedsRedraw(WindowUpdated(WithSize(v, "window", Breadth, height)))

(* Mutant of WithEnabled: the parent is not updated. *)
EnabledAlone(v, c, on) ==
  NeedsRedraw([v EXCEPT !.disabled = IF on THEN @ \ {c} ELSE @ \cup {c}])

(* widget_set_enabled() *)
WithEnabled(v, c, on) ==
  IF on = (c \notin v.disabled) THEN v
  ELSE NeedsRedraw(UpdatedUp([v EXCEPT !.disabled = IF on THEN @ \ {c} ELSE @ \cup {c}],
                      IF c = "message" THEN c ELSE "inputbar"))

(* textbox_text(): only a text that sizes itself tells its parent. *)
TextSet(v, c, width) ==
  LET told == [v EXCEPT !.says[c] = width]
      wide == WithSize(told, c, width, AtLeast(1, v.place[c].h))
  IN NeedsRedraw(IF c \in {"prompt", "overlay"} THEN UpdatedUp(wide, "inputbar") ELSE told)

(* sofi_view_reload_message_bar() *)
MessageReloaded(v, message) ==
  WithEnabled(IF message = 0 THEN v ELSE NeedsRedraw([v EXCEPT !.says["line"] = message]),
              "message", message # 0)

(* What of the leaves is on screen, in the order it is drawn, and where:         *)
(* box_draw(), container_draw(), widget_draw(), which leaves out what is empty.  *)
RowOf(c) ==
  CASE c \in {"prompt", "entry", "overlay"} -> "inputbar" [] c = "line" -> "message"
    [] c = "listview" -> "window" [] OTHER -> "tray"
DrawingOrder(v) ==
  FoldLeft(LAMBDA s, c : s \o IF c = "listview" THEN <<c>> ELSE Kids(v, c),
           <<>>, Kids(v, "window"))
LeafShown(v, c) ==
  LET row == v.place[RowOf(c)]
      shift == IF RowOf(c) = "window" THEN NoPlace ELSE row
  IN [leaf |-> c, within |-> [row EXCEPT !.x = shift.x, !.y = shift.y],
      area |-> [v.place[c] EXCEPT !.x = @ + shift.x, !.y = @ + shift.y],
      says |-> IF c \in DOMAIN v.says THEN v.says[c]
               ELSE v.tray[CHOOSE i \in DOMAIN v.tray : TrayIcons[i] = c]]
NotEmpty(r) == r.w > 0 /\ r.h > 0
PictureOf(v) ==
  LET all == DrawingOrder(v)
  IN SelectSeq([i \in DOMAIN all |-> LeafShown(v, all[i])],
               LAMBDA p : NotEmpty(p.within) /\ NotEmpty(p.area))

(* sofi_view_update(), which draws if the window is marked *)
DrawnNow(v) == IF v.redraw THEN [v EXCEPT !.picture = PictureOf(v), !.redraw = FALSE] ELSE v

(* The end of sofi_view_refilter_real() *)
FilteredTo(v, rows) ==
  LET listed == NeedsRedraw([v EXCEPT !.says["listview"] = rows])
      wanted == IF v.tall > 0 THEN v.tall ELSE WindowWants(listed)
  IN DrawnNow(IF wanted = v.height THEN listed
            ELSE WindowResized([listed EXCEPT !.height = wanted], wanted))

LayoutInit(on) ==
  /\ \/ ~on /\ board = NoView
     \/ /\ on
        /\ \E tall \in Tallness, prompt \in Prompts, message \in Sayings,
              rows \in RowCounts, lines \in BOOLEAN :
             LET named == TextSet([NoView EXCEPT !.tall = tall, !.lines = lines],
                                  "prompt", prompt)
             IN board = FilteredTo(MessageReloaded(named, message), rows)
  /\ reshapes = 0
--------------------------------------------------------------------------------
Reshape(v) ==
  /\ board.picture # <<>> /\ reshapes < MaxReshapes
  /\ board' = v /\ reshapes' = reshapes + 1

(* sofi_view_switch_mode(): the prompt, then a reload and a filter *)
SwitchPrompt ==
  \E prompt \in Prompts, message \in Sayings, rows \in RowCounts :
    Reshape(FilteredTo(MessageReloaded(TextSet(board, "prompt", prompt), message), rows))

(* sofi_view_refilter_real(), of a mode that has changed or of what was typed *)
RefilterList ==
  \E rows \in RowCounts :
    \/ Reshape(FilteredTo(board, rows))
    \/ \E message \in Sayings : Reshape(FilteredTo(MessageReloaded(board, message), rows))

(* sofi_view_set_overlay(), which ends the wait of an earlier timeout *)
OverlaySet(v, note) ==
  [TextSet(WithEnabled(v, "overlay", TRUE), "overlay", note)
     EXCEPT !.timer = FALSE, !.brief = FALSE]
SetOverlay ==
  \/ \E note \in Notes : Reshape(OverlaySet(board, note))
  \/ Reshape([WithEnabled(board, "overlay", FALSE) EXCEPT !.timer = FALSE])

(* MATCHER_UP and MATCHER_DOWN, by sofi_view_set_overlay_timeout(); and then     *)
(* sofi_view_overlay_timeout()                                                   *)
SetMatcher ==
  \E rows \in RowCounts, note \in Notes :
    Reshape(DrawnNow([OverlaySet(FilteredTo(board, rows), note)
                      EXCEPT !.timer = TRUE, !.brief = TRUE]))
OverlayTimeout ==
  /\ board.timer
  /\ board' = [WithEnabled(board, "overlay", FALSE) EXCEPT !.timer = FALSE]
  /\ UNCHANGED reshapes

(* box_add() of a new icon *)
IconAdded(v, item) ==
  UpdatedUp([v EXCEPT !.tray = Append(@, item),
                    !.place[TrayIcons[Len(v.tray) + 1]] = NoPlace], "tray")

(* sofi_view_tray_changed(), by sofi_view_rebuild_tray() *)
TrayChanged ==
  \E items \in SeqOf(TrayItems, Len(TrayIcons)) :
    LET cleared == IF board.tray = <<>> THEN board
                   ELSE NeedsRedraw(UpdatedUp([board EXCEPT !.tray = <<>>], "tray"))
        filled == FoldLeft(IconAdded, cleared, items)
    IN /\ IsInjective(items)
       /\ Reshape(DrawnNow(NeedsRedraw(IF items = <<>> THEN filled ELSE UpdatedUp(filled, "tray"))))

(* xcb_sofi_view_temp_configure_notify(), and the update that follows it *)
ManagerResizes ==
  /\ board.lines
  /\ \E height \in GivenHeights :
       /\ height # board.height
       /\ Reshape(DrawnNow(WindowResized([board EXCEPT !.height = height], height)))

(* The idle that repaints *)
LayoutRepainted == board.redraw /\ board' = DrawnNow(board) /\ UNCHANGED reshapes

LayoutNext ==
  SwitchPrompt \/ RefilterList \/ SetOverlay \/ SetMatcher \/ OverlayTimeout
    \/ TrayChanged \/ ManagerResizes \/ LayoutRepainted
--------------------------------------------------------------------------------
(* What a child of a box takes at least, and whether a box has that.            *)
LeastLength(b, c) ==
  LET at == board.place[c]
  IN IF c \in Expanding THEN (IF c = "entry" THEN 1 ELSE 0)
     ELSE IF b = "window" THEN at.h ELSE at.w
HasRoom(b) ==
  LET kids == Kids(board, b)
      Takes(c) == LeastLength(b, c)
  IN AddedUp(Takes, kids) + (Len(kids) - 1) * Space
       <= (IF b = "window" THEN board.place[b].h ELSE board.place[b].w)
RoomForAll == \A b \in {"window", "inputbar", "tray"} : HasRoom(b)

(* The children of b lie in a row from one end, each as long as it is said to    *)
(* be, with the spacing between them, and if one expands, to the other end.      *)
SideBySide(b, pos, len) ==
  LET kids == Kids(board, b)
      at == board.place
  IN \A i \in DOMAIN kids :
       /\ at[kids[i]][pos] =
            IF i = 1 THEN 0 ELSE at[kids[i - 1]][pos] + at[kids[i - 1]][len] + Space
       /\ i = Len(kids) /\ Range(kids) \cap Expanding # {} =>
            at[kids[i]][pos] + at[kids[i]][len] = at[b][len]

(* What is under a point, of the widgets of a kind: box_find_mouse_target() and  *)
(* its like take the first that has the point.                                   *)
Covers(r, x, y) == r.x <= x /\ x < r.x + r.w /\ r.y <= y /\ y < r.y + r.h
AtPoint(leaves, x, y) ==
  SelectSeq(leaves, LAMBDA p : Covers(p.within, x, y) /\ Covers(p.area, x, y))
AimedAt(under, kind) == SelectSeq(under, LAMBDA p : p.leaf \in kind)
MouseKinds == {{"entry"}, {"listview"}, Range(TrayIcons)}
AimIsShown ==
  ~board.redraw /\ RoomForAll =>
    LET order == DrawingOrder(board)
        shown == [i \in DOMAIN order |-> LeafShown(board, order[i])]
    IN \A x \in 0 .. Breadth - 1, y \in 0 .. board.place["window"].h - 1 :
         LET seen == AtPoint(board.picture, x, y)
             under == AtPoint(shown, x, y)
         IN \A kind \in MouseKinds :
              LET aimed == AimedAt(under, kind)
              IN IF seen = <<>> \/ Last(seen).leaf \notin kind THEN aimed = <<>>
                 ELSE aimed # <<>> /\ Head(aimed) = Last(seen)

(* However modes, filters, overlays, the tray and a window manager change what   *)
(* the widgets of a view that was drawn want: where there is room, the children  *)
(* of each box fill it, side by side; a window as high as it wants gives the     *)
(* list the rows it wants; once the window is drawn, a click reaches what is     *)
(* painted there, with what it shows; and an overlay goes by itself exactly if   *)
(* it was to (box.c:139, 199, widget.c:121, view.c:990, 1850, 2475).             *)
LaidOutInStep ==
  board.picture # <<>> =>
    /\ HasRoom("window") => SideBySide("window", "y", "h")
    /\ HasRoom("inputbar") /\ HasRoom("window") => SideBySide("inputbar", "x", "w")
    /\ HasRoom("tray") /\ HasRoom("window") => SideBySide("tray", "x", "w")
    /\ /\ board.place["window"].h = WindowWants(board) /\ HasRoom("window")
       /\ board.place["message"].h = DesiredHeight(board, "message", Breadth)
       => board.place["listview"].h = LeafHeight(board, "listview", Breadth)
    /\ AimIsShown
    /\ "overlay" \notin board.disabled => (board.timer <=> board.brief)
================================================================================
