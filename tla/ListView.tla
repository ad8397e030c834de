-------------------------------- MODULE ListView --------------------------------
(* The list of a view (widgets/listview.c): which rows of the filtered list a *)
(* frame paints, for every way a theme lays the list out and scrolls it, and  *)
(* while the highlight fades from one row to the next.                        *)
(*                                                                            *)
(* Counts are unsigned in the code: a difference below zero is a huge number, *)
(* one for all here.                                                          *)
(* Rows are numbers from 0; a bar has the width Room.                         *)
EXTENDS Integers, Sequences, FiniteSets, SequencesExt

CONSTANTS
  Styles,        \* themes: layout, scroll, flow, reverse, cycle, fixed, columns,
                 \* lines, the rows a window has room for, animated, hasty
  Counts,        \* lengths of the filtered list
  Room, Spacing, \* of a bar
  Width          \* of a row of a bar

ASSUME ListAssumption ==
  /\ Counts \subseteq Nat /\ {Room, Spacing} \subseteq Nat /\ Room > 0
  /\ \A t \in Styles : t.columns \in Nat \ {0} /\ t.lines \in Nat \ {0}

VARIABLES
  style,         \* of this list; hasty: a page key may come before a shorter
                 \* list is drawn
  list,          \* struct _listview
  fading,        \* the tween of the selection runs
  frame          \* what the last frame painted, if nothing happened since

listVars == <<style, list, fading, frame>>

NoStyle == [layout |-> "none"]
NoFrame == [painted |-> FALSE]
Huge == 2 ^ 28

(* a - b, unsigned *)
Less(a, b) == IF a >= b THEN a - b ELSE Huge
Least(a, b) == IF a < b THEN a ELSE b

Created ==
  [req |-> 0, max_rows |-> 0, max_elements |-> 0, cur_elements |-> 0,
   cur_columns |-> 0, selected |-> 0, last_offset |-> 0, cur_page |-> 0,
   direction |-> "left_to_right", cur_visible |-> 0, rchanged |-> FALSE,
   anim_from |-> 0, anim_settled |-> 0, anim_relisted |-> FALSE]

ListInit(on) ==
  /\ style \in IF on THEN Styles ELSE {NoStyle}
  /\ list = Created /\ fading = FALSE /\ frame = NoFrame
--------------------------------------------------------------------------------
(* The size of the list. *)

(* listview_recompute_elements() *)
Recompute(lv) ==
  LET few == ~style.fixed /\ lv.req < lv.max_elements
      columns == IF ~few THEN style.columns
                 ELSE IF style.flow = "vertical"
                 THEN (lv.req + lv.max_rows - 1) \div lv.max_rows
                 ELSE Least(style.columns, lv.req)
  IN IF lv.max_rows = 0 THEN lv
     ELSE [lv EXCEPT !.cur_elements = Least(lv.req, lv.max_elements),
                     !.cur_columns = columns, !.rchanged = TRUE]

SetSelected(lv, n) ==
  IF lv.req = 0 THEN lv
  ELSE [lv EXCEPT !.selected = Least(n, lv.req - 1),
                  !.direction = "left_to_right"]

(* listview_set_num_elements(): after a refilter *)
SetNumElements ==
  \E n \in Counts :
    /\ list' = Recompute(SetSelected([list EXCEPT !.req = n,
                                                  !.anim_relisted = TRUE],
                                     list.selected))
    /\ frame' = NoFrame
    /\ UNCHANGED <<style, fading>>

Resize ==
  \E rows \in style.rows \ {list.max_rows} :
    /\ list' = Recompute([list EXCEPT
         !.max_rows = rows,
         !.max_elements = IF style.layout = "bar" THEN style.lines
                          ELSE rows * style.columns])
    /\ frame' = NoFrame
    /\ UNCHANGED <<style, fading>>
--------------------------------------------------------------------------------
(* Navigation.  Each operator is the list after the key. *)

To(lv, n) == [lv EXCEPT !.selected = IF n > Huge \div 2 THEN Huge ELSE n]

Previous(lv) ==
  IF lv.req = 0 \/ (lv.selected = 0 /\ ~style.cycle) THEN lv
  ELSE [lv EXCEPT !.selected = (IF @ = 0 THEN lv.req ELSE @) - 1,
                  !.direction = "right_to_left"]

Following(lv) ==
  IF lv.req = 0 \/ (lv.selected = lv.req - 1 /\ ~style.cycle) THEN lv
  ELSE [lv EXCEPT !.selected = IF @ < lv.req - 1 THEN @ + 1 ELSE 0,
                  !.direction = "left_to_right"]

ColumnLeft(lv) ==
  IF lv.selected >= lv.cur_columns THEN To(lv, lv.selected - lv.cur_columns)
                                   ELSE lv

ColumnRight(lv) ==
  IF lv.selected + lv.cur_columns < lv.req
  THEN To(lv, lv.selected + lv.cur_columns) ELSE lv

Up(lv) ==
  IF style.flow = "horizontal"
  THEN IF style.reverse THEN ColumnRight(lv) ELSE ColumnLeft(lv)
  ELSE IF style.reverse THEN Following(lv) ELSE Previous(lv)

Down(lv) ==
  IF style.flow = "horizontal"
  THEN IF style.reverse THEN ColumnLeft(lv) ELSE ColumnRight(lv)
  ELSE IF style.reverse THEN Previous(lv) ELSE Following(lv)

OneByOne == style.flow = "horizontal" \/ style.layout = "bar"

Left(lv) ==
  CASE lv.max_rows = 0 -> lv
    [] lv.max_rows > 0 /\ OneByOne -> Previous(lv)
    [] OTHER -> IF lv.selected >= lv.max_rows
                THEN To(lv, lv.selected - lv.max_rows) ELSE lv

(* Past the last full column the last row is selected. *)
Right(lv) ==
  CASE lv.max_rows = 0 -> lv
    [] lv.max_rows > 0 /\ OneByOne -> Following(lv)
    [] OTHER ->
         IF lv.selected + lv.max_rows < lv.req
         THEN To(lv, lv.selected + lv.max_rows)
         ELSE IF /\ lv.selected < Less(lv.req, 1)
                 /\ lv.selected \div lv.max_rows # lv.req \div lv.max_rows
         THEN To(lv, Less(lv.req, 1)) ELSE lv

PageBack(lv) ==
  IF style.layout = "bar"
  THEN [lv EXCEPT !.selected = IF lv.last_offset = 0 THEN 0
                               ELSE lv.last_offset - 1,
                  !.direction = "right_to_left"]
  ELSE To(lv, IF lv.selected < lv.max_elements THEN 0
              ELSE lv.selected - lv.max_elements)

PageOn(lv) ==
  CASE lv.req = 0 -> lv
    [] lv.req > 0 /\ style.layout = "bar" ->
         [lv EXCEPT !.selected = Least(lv.last_offset + lv.cur_visible,
                                       lv.req - 1),
                    !.direction = "left_to_right"]
    [] OTHER -> To(lv, Least(lv.selected + lv.max_elements, lv.req - 1))

Keys(lv) ==
  {Previous(lv), Following(lv), Up(lv), Down(lv), Left(lv), Right(lv)}
    \cup IF lv.anim_relisted /\ ~style.hasty THEN {} ELSE {PageBack(lv), PageOn(lv)}

(* The rows that can be pointed at, and those a caller selects. *)
Pointed(lv) ==
  {SetSelected(lv, lv.last_offset + i) :
     i \in 0..(Least(lv.cur_elements, Less(lv.req, lv.last_offset)) - 1)}

Asked(lv) == {SetSelected(lv, n) : n \in {0, Huge} \cup Counts}

Navigate ==
  /\ list' \in Keys(list) \cup Pointed(list) \cup Asked(list)
  /\ list' # list
  /\ frame' = NoFrame
  /\ UNCHANGED <<style, fading>>
--------------------------------------------------------------------------------
(* A frame.  Each operator is the list after it, the rows painted and whether *)
(* a change of page was announced.                                            *)

From(lv, offset) ==
  LET max == IF offset < lv.req THEN Least(lv.cur_elements, lv.req - offset)
                                ELSE 0
  IN [i \in 1..max |-> offset + i - 1]

(* The rows of a sequence that a bar has room for; the first always has. *)
Fitting(rows) ==
  LET Used(j) == FoldLeft(LAMBDA sum, r : sum + Width[r] + Spacing, 0,
                          SubSeq(rows, 1, j - 1))
      fit == {k \in DOMAIN rows :
                \A j \in 2..k : Width[rows[j]] < Room - Used(j)}
  IN SubSeq(rows, 1, Cardinality(fit))

(* barview_draw(), scroll_per_page_barview() *)
DrawBar(lv) ==
  LET scrolled == lv.selected < lv.last_offset
                    \/ lv.selected >= lv.last_offset + lv.cur_visible
      offset == IF scrolled THEN lv.selected ELSE lv.last_offset
      at == [lv EXCEPT !.last_offset = offset, !.rchanged = @ \/ scrolled]
      back == [i \in 1..Least(lv.cur_elements, offset + 1) |-> offset - i + 1]
      rows == Fitting(IF lv.direction = "left_to_right" THEN From(lv, offset)
                                                        ELSE back)
  IN IF lv.cur_elements = 0 THEN [list |-> at, rows |-> {}, told |-> FALSE]
     ELSE IF ~at.rchanged
     THEN [list |-> at, told |-> FALSE,
           rows |-> offset..(offset + lv.cur_visible - 1)]
     ELSE [list |-> [at EXCEPT
             !.cur_visible = Len(rows), !.rchanged = FALSE,
             !.last_offset = IF lv.direction = "left_to_right" THEN offset
                             ELSE Less(offset, Less(Len(rows), 1))],
           rows |-> ToSet(rows), told |-> FALSE]

(* scroll_per_page(): a page is announced when it is another one *)
ByPage(lv, announce) ==
  LET visible == lv.selected >= lv.last_offset
                   /\ lv.selected - lv.last_offset < lv.max_elements
      page == IF lv.max_elements > 0 THEN lv.selected \div lv.max_elements ELSE 0
      turned == ~visible /\ page # lv.cur_page
  IN [offset |-> IF visible THEN lv.last_offset ELSE page * lv.max_elements,
      page |-> IF turned THEN page ELSE lv.cur_page,
      changed |-> turned, told |-> turned /\ announce]

(* The offset that keeps the selection at place middle of size places out of  *)
(* all, as far as the ends allow.                                             *)
Centred(selected, middle, size, all) ==
  CASE selected <= middle -> 0
    [] selected > middle /\ selected < Less(all, Less(size, middle)) ->
         selected - middle
    [] OTHER -> IF all > size THEN all - size ELSE 0

(* scroll_continious_elements(), scroll_continious_rows() *)
Continuously(lv) ==
  LET half == Less(lv.max_rows, 1) \div 2
      middle == lv.max_rows * ((style.columns - 1) \div 2) + half
      rows == (lv.req + style.columns - 1) \div style.columns
      offset == IF style.flow = "vertical"
                THEN Centred(lv.selected, middle, lv.max_elements, lv.req)
                ELSE style.columns
                       * Centred(lv.selected \div style.columns, half,
                                 lv.max_rows, rows)
  IN [offset |-> offset, page |-> offset, changed |-> offset # lv.cur_page,
      told |-> FALSE]

DrawList(lv, announce) ==
  LET to == IF style.scroll = "page" THEN ByPage(lv, announce)
                                     ELSE Continuously(lv)
      drawn == lv.cur_elements > 0 /\ lv.max_rows > 0
  IN [list |-> [lv EXCEPT !.last_offset = to.offset, !.cur_page = to.page,
                          !.rchanged = (@ \/ to.changed) /\ ~drawn],
      rows |-> IF drawn THEN ToSet(From(lv, to.offset)) ELSE {},
      told |-> to.told]

DrawOnce(lv, announce) ==
  IF style.layout = "bar" THEN DrawBar(lv) ELSE DrawList(lv, announce)

(* The frame while the highlight moves: the list with the row that was left,  *)
(* then with the row arrived at.  Only the second moves the page.             *)
Leaving(lv) ==
  DrawOnce([lv EXCEPT !.selected = lv.anim_from, !.rchanged = TRUE], FALSE)

(* Mutant of Arriving: the page stays where the first layer took it. *)
ArrivingFromThere(lv) ==
  DrawOnce([Leaving(lv).list EXCEPT !.selected = lv.selected,
                                    !.rchanged = TRUE], TRUE)

Arriving(lv) ==
  DrawOnce([Leaving(lv).list EXCEPT
              !.selected = lv.selected, !.rchanged = TRUE,
              !.cur_page = lv.cur_page, !.last_offset = lv.last_offset], TRUE)

Paint(one, behind) ==
  /\ list' = one.list
  /\ frame' = [painted |-> TRUE, rows |-> one.rows, behind |-> behind,
               told |-> one.told,
               moved |-> one.list.last_offset # list.last_offset,
               anew |-> list.rchanged \/ behind # {}]

(* _listview_draw() *)
DrawFrame ==
  LET moved == list.anim_settled # list.selected
      fades == IF moved /\ ~list.anim_relisted THEN style.animated ELSE fading
      now == [list EXCEPT
                !.anim_relisted = FALSE, !.anim_settled = list.selected,
                !.anim_from = IF ~fades THEN list.selected
                              ELSE IF moved THEN list.anim_settled ELSE @]
  IN /\ UNCHANGED style
     /\ \/ /\ list.anim_relisted \/ now.anim_from >= now.req
           /\ fading' = FALSE
           /\ Paint(DrawOnce([now EXCEPT !.anim_from = now.selected], TRUE), {})
        \/ /\ ~list.anim_relisted /\ now.anim_from < now.req
           /\ fading' = fades
           /\ IF fades /\ now.anim_from # now.selected
              THEN Paint(Arriving(now), Leaving(now).rows)
              ELSE Paint(DrawOnce(now, TRUE), {})

(* The row that was left is of no use from here on. *)
FadeEnds ==
  /\ fading /\ fading' = FALSE
  /\ list' = [list EXCEPT !.anim_from = list.anim_settled]
  /\ UNCHANGED <<style, frame>>

ListNext ==
  /\ style # NoStyle
  /\ SetNumElements \/ Resize \/ Navigate \/ DrawFrame \/ FadeEnds
--------------------------------------------------------------------------------
Shows == frame.painted /\ list.cur_elements > 0 /\ list.max_rows > 0

(* However the list shrank, was resized or was navigated since the last frame *)
(* a frame paints the selected row and no row past the end, in either layer   *)
(* of a fade (listview.c:290, 498, 614-620), and a page is announced to the   *)
(* icon fetcher only by the frame that turns it (:656-664).  A bar that is    *)
(* laid out anew is excepted.                                                 *)
SelectionShown ==
  Shows /\ ~(style.layout = "bar" /\ frame.anew) =>
    /\ list.selected \in frame.rows
    /\ frame.rows \cup frame.behind \subseteq 0..(list.req - 1)
    /\ frame.told => frame.moved
================================================================================
