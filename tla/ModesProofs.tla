------------------------------ MODULE ModesProofs -------------------------------
(* What holds of a window under X11, of the clock of what moves, of an          *)
(* application's menu, of the history of launches, of the panels' rows, and of  *)
(* seats and surfaces under Wayland, for every size, duration, menu, number of  *)
(* launchers, device, seat and output.                                          *)
EXTENDS MCModes, InstanceProofs, SequenceLemmas, SequenceTheorems, FunctionTheorems,
        FiniteSetTheorems, TLAPS

(* The window. *)

XSpec == XInit(TRUE) /\ [][XNext]_xVars

Panes == [height : Heights, wanted : Heights, redraw : BOOLEAN, drawing : Nat]
Sheets == [height : Heights, picture : Nat]
XStates == [panes : Seq(Panes), pixmap : Sheets, window : Sheets,
            xevents : Seq(Heights \cup {0}), painting : BOOLEAN]

(* The strengthening, of the record that the operators take.                   *)
XTyped(w) == w \in XStates /\ Len(w.panes) > 0

(* The last size that is on its way is the window's, and where none is, the    *)
(* view on top has it.                                                         *)
LastOfSizes(events, i) ==
  events[i] # 0 /\ \A j \in 1 .. Len(events) : j > i => events[j] = 0
SizeTold(w) ==
  \A i \in 1 .. Len(w.xevents) : LastOfSizes(w.xevents, i) => w.xevents[i] = w.window.height
NoSizes(w) == \A i \in 1 .. Len(w.xevents) : w.xevents[i] = 0
SizeTaken(w) == NoSizes(w) => Top(w).height = w.window.height

(* The pixmap is the top view's; it holds its last drawing, or the view is to  *)
(* be drawn; that is only so while an idle will copy it, and the window shows  *)
(* the pixmap unless an idle or an exposition is still to come.                *)
PixmapFits(w) == w.pixmap.height = Top(w).height
PixmapDrawn(w) == Top(w).redraw \/ w.pixmap.picture = Top(w).drawing
IdleAsked(w) == Top(w).redraw => w.painting
Exposed(w) == \E i \in 1 .. Len(w.xevents) : w.xevents[i] = 0
WindowShows(w) == w.painting \/ Exposed(w) \/ w.window.picture = w.pixmap.picture

InStep(w) ==
  /\ XTyped(w) /\ SizeTold(w) /\ SizeTaken(w)
  /\ PixmapFits(w) /\ PixmapDrawn(w) /\ IdleAsked(w) /\ WindowShows(w)
XIInv == InStep(X) /\ drawings \in Nat
--------------------------------------------------------------------------------
(* With nothing on its way and no idle left, the invariant is what is meant.   *)
LEMMA XEnough == XIInv => WindowInStep
<1> SUFFICES ASSUME InStep(X), panes # <<>>, xevents = <<>>, ~painting
             PROVE  /\ window.picture = Last(panes).drawing
                    /\ window.height = Last(panes).height /\ pixmap.height = window.height
  BY DEF XIInv, WindowInStep
<1>1. Len(X.xevents) = 0 /\ X.xevents = <<>>
  BY DEF X
<1>2. NoSizes(X) /\ ~Exposed(X)
  BY <1>1 DEF NoSizes, Exposed
<1>3. X.painting = FALSE /\ X.window = window /\ X.pixmap = pixmap /\ Top(X) = Last(panes)
  BY DEF X, Top
<1> QED BY <1>2, <1>3 DEF InStep, SizeTaken, PixmapFits, PixmapDrawn, IdleAsked, WindowShows

(* The operators, one by one.  A view on top takes another's place. *)
LEMMA WithPaneDoes ==
  ASSUME NEW w, XTyped(w), NEW face \in Panes
  PROVE  /\ XTyped(WithPane(w, face)) /\ Top(WithPane(w, face)) = face
         /\ WithPane(w, face).pixmap = w.pixmap /\ WithPane(w, face).window = w.window
         /\ WithPane(w, face).xevents = w.xevents /\ WithPane(w, face).painting = w.painting
<1> DEFINE n == Len(w.panes)
           f == Front(w.panes)
           s == Append(f, face)
<1>1. w.panes \in Seq(Panes) /\ n \in Nat /\ n > 0 /\ w \in XStates
  BY DEF XTyped, XStates
<1>2. f \in Seq(Panes)
  <2>1. \A i \in 1 .. n - 1 : w.panes[i] \in Panes
    BY <1>1, ElementOfSeq
  <2>2. 1 \in Int /\ n - 1 \in Int
    BY <1>1
  <2>3. f = SubSeq(w.panes, 1, n - 1)
    BY DEF Front
  <2> HIDE DEF n, f
  <2>4. SubSeq(w.panes, 1, n - 1) \in Seq(Panes)
    BY <2>1, <2>2, SubSeqProperties, Zenon
  <2> QED BY <2>3, <2>4
<1>3. s \in Seq(Panes) /\ Len(s) = Len(f) + 1 /\ s[Len(f) + 1] = face /\ Len(f) \in Nat
  BY <1>2, AppendProperties, LenProperties
<1> HIDE DEF n, f, s
<1>4. WithPane(w, face) = [w EXCEPT !.panes = s]
  BY DEF WithPane, s, f
<1> QED BY <1>1, <1>3, <1>4 DEF XTyped, XStates, Top, Last

(* The view on top is one of the views. *)
LEMMA TopTyped == ASSUME NEW w, XTyped(w) PROVE Top(w) \in Panes
<1>1. w.panes \in Seq(Panes) /\ Len(w.panes) \in 1 .. Len(w.panes)
  <2>1. w.panes \in Seq(Panes) /\ Len(w.panes) > 0
    BY DEF XTyped, XStates
  <2> QED BY <2>1, LenProperties
<1> QED BY <1>1, ElementOfSeq DEF Top, Last

(* What the last of the sizes is after another event. *)
LEMMA OneMoreEvent ==
  ASSUME NEW w, XTyped(w), SizeTold(w), NEW e \in Heights \cup {0}
  PROVE  LET r == Append(w.xevents, e)
         IN /\ r \in Seq(Heights \cup {0})
            /\ \A i \in 1 .. Len(r) : LastOfSizes(r, i) =>
                 r[i] = IF e = 0 THEN w.window.height ELSE e
            /\ (\A i \in 1 .. Len(r) : r[i] = 0) <=> NoSizes(w) /\ e = 0
            /\ (\E i \in 1 .. Len(r) : r[i] = 0) <=> Exposed(w) \/ e = 0
<1> DEFINE s == w.xevents
           n == Len(s)
           r == Append(s, e)
<1>1. s \in Seq(Heights \cup {0}) /\ n \in Nat
  BY DEF XTyped, XStates
<1>2. /\ r \in Seq(Heights \cup {0}) /\ Len(r) = n + 1 /\ r[n + 1] = e
      /\ \A i \in 1 .. n : r[i] = s[i]
  BY <1>1, AppendProperties
<1>3. \A i \in 1 .. n : LastOfSizes(s, i) => s[i] = w.window.height
  BY DEF SizeTold
<1>4. NoSizes(w) <=> \A i \in 1 .. n : s[i] = 0
  BY DEF NoSizes
<1>5. Exposed(w) <=> \E i \in 1 .. n : s[i] = 0
  BY DEF Exposed
<1> HIDE DEF s, n, r
<1>6. ASSUME NEW i \in 1 .. n + 1, LastOfSizes(r, i)
      PROVE  r[i] = IF e = 0 THEN w.window.height ELSE e
  <2>1. CASE i = n + 1
    BY <1>1, <1>2, <1>6, <2>1 DEF LastOfSizes
  <2>2. CASE i \in 1 .. n
    <3>1. e = 0
      BY <1>1, <1>2, <1>6, <2>2 DEF LastOfSizes
    <3>2. LastOfSizes(s, i)
      BY <1>1, <1>2, <1>6, <2>2, n = Len(s) DEF LastOfSizes, n
    <3> QED BY <1>2, <1>3, <2>2, <3>1, <3>2
  <2> QED BY <1>1, <2>1, <2>2
<1>7. \A i \in 1 .. n + 1 : i \in 1 .. n \/ i = n + 1
  BY <1>1
<1>8. 1 .. n \subseteq 1 .. n + 1 /\ n + 1 \in 1 .. n + 1
  BY <1>1
<1>9. (\A i \in 1 .. n + 1 : r[i] = 0) <=> NoSizes(w) /\ e = 0
  BY <1>2, <1>4, <1>7, <1>8
<1>10. (\E i \in 1 .. n + 1 : r[i] = 0) <=> Exposed(w) \/ e = 0
  BY <1>2, <1>5, <1>7, <1>8
<1> QED BY <1>2, <1>6, <1>9, <1>10 DEF r, s

(* The server tells of each size that it gives the window, and of what it lost. *)
LEMMA ServerResizesDoes ==
  ASSUME NEW w, XTyped(w), SizeTold(w), NEW h \in Heights
  PROVE  LET r == ServerResizes(w, h)
         IN /\ XTyped(r) /\ SizeTold(r) /\ r.window.height = h
            /\ r.panes = w.panes /\ r.pixmap = w.pixmap /\ r.painting = w.painting
            /\ NoSizes(r) => w.window.height = h /\ NoSizes(w)
            /\ Exposed(r) \/ r.window.picture = w.window.picture
            /\ Exposed(w) => Exposed(r)
<1> DEFINE r == ServerResizes(w, h)
<1>0. w \in XStates /\ Len(w.panes) > 0 /\ h # 0 /\ h \in Nat /\ w.window.height \in Nat
      /\ w.xevents \in Seq(Heights \cup {0}) /\ w.window.picture \in Nat
  BY XAssumption DEF XTyped, XStates, Sheets
<1>1. CASE h = w.window.height
  BY <1>1 DEF ServerResizes
<1>2. CASE h # w.window.height
  <2> DEFINE a == Append(w.xevents, h)
             b == Append(a, 0)
             g == [height |-> h, picture |-> IF h > w.window.height THEN Blank
                                             ELSE w.window.picture]
             e == IF h > w.window.height THEN b ELSE a
             u == [w EXCEPT !.xevents = a, !.window = g]
  <2>1. w.xevents \o <<h>> = a
    BY <1>0, AppendIsConcat
  <2>2. /\ a \in Seq(Heights \cup {0})
        /\ \A i \in 1 .. Len(a) : LastOfSizes(a, i) => a[i] = h
        /\ ~(\A i \in 1 .. Len(a) : a[i] = 0)
        /\ Exposed(w) => \E i \in 1 .. Len(a) : a[i] = 0
    <3>1. h \in Heights \cup {0}
      OBVIOUS
    <3>2. LET c == Append(w.xevents, h)
          IN /\ c \in Seq(Heights \cup {0})
             /\ \A i \in 1 .. Len(c) : LastOfSizes(c, i) =>
                  c[i] = IF h = 0 THEN w.window.height ELSE h
             /\ (\A i \in 1 .. Len(c) : c[i] = 0) <=> NoSizes(w) /\ h = 0
             /\ (\E i \in 1 .. Len(c) : c[i] = 0) <=> Exposed(w) \/ h = 0
      BY <3>1, OneMoreEvent
    <3> QED BY <1>0, <3>2
  <2>3. a \o <<0>> = b /\ a \o <<>> = a
    BY <2>2, AppendIsConcat, ConcatEmptySeq
  <2>4. g \in Sheets /\ g.height = h
    BY <1>0 DEF Sheets, Blank
  <2> HIDE DEF a, b, g
  <2>5. /\ u \in XStates /\ u.panes = w.panes /\ u.xevents = a /\ u.window = g
        /\ u.pixmap = w.pixmap /\ u.painting = w.painting
    BY <1>0, <2>2, <2>4 DEF XStates
  <2> HIDE DEF u
  <2>6. XTyped(u) /\ SizeTold(u) /\ ~NoSizes(u) /\ (Exposed(w) => Exposed(u))
    BY <1>0, <2>2, <2>4, <2>5 DEF XTyped, SizeTold, NoSizes, Exposed
  <2>7. /\ b \in Seq(Heights \cup {0})
        /\ \A i \in 1 .. Len(b) : LastOfSizes(b, i) => b[i] = h
        /\ ~(\A i \in 1 .. Len(b) : b[i] = 0)
        /\ \E i \in 1 .. Len(b) : b[i] = 0
    <3>1. LET c == Append(u.xevents, 0)
          IN /\ c \in Seq(Heights \cup {0})
             /\ \A i \in 1 .. Len(c) : LastOfSizes(c, i) => c[i] = u.window.height
             /\ ~(\A i \in 1 .. Len(c) : c[i] = 0)
             /\ \E i \in 1 .. Len(c) : c[i] = 0
      <4>1. 0 \in Heights \cup {0}
        OBVIOUS
      <4> QED BY <2>6, <4>1, OneMoreEvent
    <3> QED BY <2>4, <2>5, <3>1 DEF b
  <2>8. r = [w EXCEPT !.window = g, !.xevents = e]
    BY <1>2, <2>1, <2>3 DEF ServerResizes, g
  <2>9. /\ r \in XStates /\ r.panes = w.panes /\ r.xevents = e /\ r.window = g
        /\ r.pixmap = w.pixmap /\ r.painting = w.painting
    BY <1>0, <2>2, <2>4, <2>7, <2>8 DEF XStates
  <2> HIDE DEF r
  <2>10. XTyped(r) /\ SizeTold(r) /\ ~NoSizes(r)
    BY <1>0, <2>2, <2>4, <2>7, <2>9 DEF XTyped, SizeTold, NoSizes
  <2>11. Exposed(w) => Exposed(r)
    BY <2>2, <2>7, <2>9 DEF Exposed
  <2>12. Exposed(r) \/ r.window.picture = w.window.picture
    BY <2>7, <2>9 DEF Exposed, g
  <2> QED BY <2>4, <2>9, <2>10, <2>11, <2>12 DEF r
<1> QED BY <1>1, <1>2

(* A new pixmap is the top view's and is to be drawn. *)
LEMMA NewPixmapDoes ==
  ASSUME NEW w, XTyped(w), NEW h \in Heights
  PROVE  LET r == NewPixmap(w, h)
         IN /\ XTyped(r) /\ Top(r) = [Top(w) EXCEPT !.redraw = TRUE] /\ r.pixmap.height = h
            /\ r.window = w.window /\ r.xevents = w.xevents /\ r.painting = w.painting
<1> DEFINE face == WidgetResize(Top(w), h)
           v == WithPane(w, face)
           g == [height |-> h, picture |-> Blank]
<1>1. face \in Panes /\ face = [Top(w) EXCEPT !.redraw = TRUE]
  BY TopTyped DEF WidgetResize, Panes
<1>2. g \in Sheets /\ g.height = h
  BY DEF Sheets, Blank
<1>3. NewPixmap(w, h) = [v EXCEPT !.pixmap = g]
  BY DEF NewPixmap
<1> HIDE DEF face, g
<1>4. /\ XTyped(v) /\ Top(v) = face /\ v.window = w.window /\ v.xevents = w.xevents
      /\ v.painting = w.painting
  BY <1>1, WithPaneDoes
<1> HIDE DEF v
<1> QED BY <1>1, <1>2, <1>3, <1>4 DEF XTyped, XStates, Top

(* The window and the pixmap take the size of the view on top. *)
LEMMA WindowUpdateSizeDoes ==
  ASSUME NEW w, XTyped(w), SizeTold(w)
  PROVE  LET r == WindowUpdateSize(w)
         IN /\ XTyped(r) /\ SizeTold(r) /\ SizeTaken(r) /\ PixmapFits(r)
            /\ Top(r) = [Top(w) EXCEPT !.redraw = TRUE] /\ r.painting = w.painting
<1> DEFINE h == Top(w).height
           v == ServerResizes(w, h)
           r == NewPixmap(v, h)
<1>1. h \in Heights /\ Top(w) \in Panes
  BY TopTyped DEF Panes
<1>2. WindowUpdateSize(w) = r
  BY DEF WindowUpdateSize
<1>3. Top(w).height = h
  OBVIOUS
<1> HIDE DEF h
<1>4. /\ XTyped(v) /\ SizeTold(v) /\ v.window.height = h /\ v.panes = w.panes
      /\ v.painting = w.painting
  BY <1>1, ServerResizesDoes
<1>5. Top(v) = Top(w)
  BY <1>4 DEF Top
<1> HIDE DEF v
<1>6. /\ XTyped(r) /\ Top(r) = [Top(w) EXCEPT !.redraw = TRUE] /\ r.pixmap.height = h
      /\ r.window = v.window /\ r.xevents = v.xevents /\ r.painting = w.painting
  BY <1>1, <1>4, <1>5, NewPixmapDoes
<1> HIDE DEF r
<1>7. Top(r).height = h
  BY <1>1, <1>3, <1>6 DEF Panes
<1>8. SizeTold(r)
  BY <1>4, <1>6 DEF SizeTold
<1>9. SizeTaken(r) /\ PixmapFits(r)
  BY <1>4, <1>6, <1>7 DEF SizeTaken, PixmapFits
<1> QED BY <1>2, <1>6, <1>8, <1>9

(* The idle is asked for, and nothing else is touched. *)
LEMMA QueueRedrawDoes ==
  ASSUME NEW w, XTyped(w)
  PROVE  LET r == QueueRedraw(w)
         IN /\ XTyped(r) /\ r.painting = TRUE /\ Top(r) = Top(w) /\ r.pixmap = w.pixmap
            /\ r.window = w.window /\ r.xevents = w.xevents
<1>1. w.panes # <<>> /\ w.painting \in BOOLEAN
  BY EmptySeq DEF XTyped, XStates
<1>2. (w.painting \/ w.panes # <<>>) = TRUE
  BY <1>1
<1>3. QueueRedraw(w) = [w EXCEPT !.painting = TRUE]
  BY <1>2 DEF QueueRedraw, XTyped, XStates
<1> QED BY <1>3 DEF XTyped, XStates, Top

(* A drawing of the view on top ends in the pixmap. *)
LEMMA UpdateViewDoes ==
  ASSUME NEW w, XTyped(w), NEW requeue \in BOOLEAN
  PROVE  LET r == UpdateView(w, requeue)
         IN /\ XTyped(r) /\ Top(r) = [Top(w) EXCEPT !.redraw = FALSE]
            /\ r.window = w.window /\ r.xevents = w.xevents
            /\ r.pixmap.height = w.pixmap.height
            /\ IF Top(w).redraw THEN r.pixmap.picture = Top(w).drawing
               ELSE r.pixmap = w.pixmap
            /\ r.painting = (w.painting \/ (requeue /\ Top(w).redraw))
<1> DEFINE face == [Top(w) EXCEPT !.redraw = FALSE]
           v == WithPane(w, face)
           inked == [v EXCEPT !.pixmap.picture = Top(w).drawing]
           r == UpdateView(w, requeue)
<1>0. Top(w) \in Panes /\ w.painting \in BOOLEAN /\ w.panes # <<>>
  BY TopTyped, EmptySeq DEF XTyped, XStates
<1>1. face \in Panes /\ Top(w).drawing \in Nat
  BY <1>0 DEF Panes
<1>2. CASE ~Top(w).redraw
  <2>1. UpdateView(w, requeue) = w
    BY <1>2 DEF UpdateView
  <2>2. Top(w) = face
    BY <1>0, <1>2 DEF Panes
  <2> HIDE DEF face
  <2>3. w.painting = (w.painting \/ (requeue /\ Top(w).redraw))
    BY <1>0, <1>2
  <2> QED BY <1>2, <2>1, <2>2, <2>3 DEF face
<1>3. CASE Top(w).redraw
  <2>1. r = IF requeue THEN QueueRedraw(inked) ELSE inked
    BY <1>3 DEF UpdateView
  <2> HIDE DEF face
  <2>2. /\ XTyped(v) /\ Top(v) = face /\ v.window = w.window /\ v.xevents = w.xevents
        /\ v.painting = w.painting /\ v.pixmap = w.pixmap
    BY <1>1, WithPaneDoes
  <2> HIDE DEF v
  <2>3. /\ XTyped(inked) /\ Top(inked) = face /\ inked.window = w.window
        /\ inked.xevents = w.xevents /\ inked.painting = w.painting
        /\ inked.pixmap.height = w.pixmap.height /\ inked.pixmap.picture = Top(w).drawing
    BY <1>1, <2>2 DEF XTyped, XStates, Sheets, Top
  <2> HIDE DEF inked, r
  <2>4. CASE requeue
    <3>1. /\ XTyped(r) /\ r.painting = TRUE /\ Top(r) = Top(inked)
          /\ r.pixmap = inked.pixmap /\ r.window = inked.window /\ r.xevents = inked.xevents
      BY <2>1, <2>3, <2>4, QueueRedrawDoes
    <3>2. r.painting = (w.painting \/ (requeue /\ Top(w).redraw))
      BY <1>3, <2>4, <3>1
    <3> QED BY <1>3, <2>3, <3>1, <3>2 DEF face, r
  <2>5. CASE ~requeue
    <3>1. r = inked
      BY <2>1, <2>5
    <3>2. r.painting = (w.painting \/ (requeue /\ Top(w).redraw))
      BY <1>0, <2>3, <2>5, <3>1
    <3> QED BY <1>3, <2>3, <3>1, <3>2 DEF face, r
  <2> QED BY <2>4, <2>5
<1> QED BY <1>2, <1>3

(* Every handler ends in one of two ways: with an update that asks for the idle *)
(* again, or with the idle asked for.                                           *)
LEMMA UpdateEnds ==
  ASSUME NEW w, XTyped(w), SizeTold(w), SizeTaken(w), PixmapFits(w),
         Top(w).redraw \/ (PixmapDrawn(w) /\ WindowShows(w))
  PROVE  InStep(UpdateView(w, TRUE))
<1> DEFINE r == UpdateView(w, TRUE)
<1>0. Top(w) \in Panes
  BY TopTyped
<1>1. /\ XTyped(r) /\ Top(r) = [Top(w) EXCEPT !.redraw = FALSE]
      /\ r.window = w.window /\ r.xevents = w.xevents
      /\ r.pixmap.height = w.pixmap.height
      /\ IF Top(w).redraw THEN r.pixmap.picture = Top(w).drawing ELSE r.pixmap = w.pixmap
      /\ r.painting = (w.painting \/ (TRUE /\ Top(w).redraw))
  BY UpdateViewDoes
<1> HIDE DEF r
<1>2. Top(r).redraw = FALSE /\ Top(r).height = Top(w).height /\ Top(r).drawing = Top(w).drawing
  BY <1>0, <1>1 DEF Panes
<1>3. SizeTold(r) /\ SizeTaken(r) /\ PixmapFits(r)
  BY <1>1, <1>2 DEF SizeTold, SizeTaken, NoSizes, PixmapFits
<1>4. PixmapDrawn(r) /\ IdleAsked(r)
  BY <1>1, <1>2 DEF PixmapDrawn, IdleAsked
<1>5. WindowShows(r)
  BY <1>1, <1>2 DEF WindowShows, Exposed
<1> QED BY <1>1, <1>3, <1>4, <1>5 DEF InStep, r

LEMMA QueueEnds ==
  ASSUME NEW w, XTyped(w), SizeTold(w), SizeTaken(w), PixmapFits(w), PixmapDrawn(w)
  PROVE  InStep(QueueRedraw(w))
<1> DEFINE r == QueueRedraw(w)
<1>1. /\ XTyped(r) /\ r.painting = TRUE /\ Top(r) = Top(w) /\ r.pixmap = w.pixmap
      /\ r.window = w.window /\ r.xevents = w.xevents
  BY QueueRedrawDoes
<1> HIDE DEF r
<1>2. SizeTold(r) /\ SizeTaken(r) /\ PixmapFits(r) /\ PixmapDrawn(r)
  BY <1>1 DEF SizeTold, SizeTaken, NoSizes, PixmapFits, PixmapDrawn
<1> QED BY <1>1, <1>2 DEF InStep, IdleAsked, WindowShows, r
--------------------------------------------------------------------------------
(* What the operators return is what the variables become. *)
LEMMA Becoming == ASSUME NEW r \in XStates, XBecomes(r) PROVE X' = r
  BY DEF XBecomes, X, XStates

LEMMA XInitially == XInit(TRUE) => XIInv
<1> SUFFICES ASSUME XInit(TRUE) PROVE XIInv
  OBVIOUS
<1>1. PICK h \in Heights :
        /\ panes = <<Pane(h)>> /\ pixmap = [height |-> h, picture |-> Blank]
        /\ window = [height |-> h, picture |-> Blank]
  BY DEF XInit
<1>2. xevents = <<0>> /\ painting = TRUE /\ drawings = 1
  BY DEF XInit
<1>3. Pane(h) \in Panes /\ Pane(h).redraw = TRUE /\ Pane(h).height = h
  BY <1>1 DEF Pane, Panes
<1>4. panes \in Seq(Panes) /\ Len(panes) = 1 /\ panes[1] = Pane(h)
  BY <1>1, <1>3
<1>5. xevents \in Seq(Heights \cup {0}) /\ Len(xevents) = 1 /\ xevents[1] = 0
  BY <1>2
<1>6. XTyped(X)
  BY <1>1, <1>2, <1>4, <1>5 DEF XTyped, XStates, X, Sheets, Blank
<1>7. Top(X) = Pane(h)
  BY <1>4 DEF Top, X, Last
<1>8. X.xevents = xevents /\ X.window = window /\ X.pixmap = pixmap /\ X.painting = TRUE
  BY <1>2 DEF X
<1>9. SizeTold(X)
  <2>1. \A i \in 1 .. Len(X.xevents) : X.xevents[i] = 0
    BY <1>5, <1>8
  <2> QED BY <2>1 DEF SizeTold, LastOfSizes
<1>10. SizeTaken(X) /\ PixmapFits(X) /\ PixmapDrawn(X) /\ IdleAsked(X) /\ WindowShows(X)
  BY <1>1, <1>3, <1>7, <1>8 DEF SizeTaken, PixmapFits, PixmapDrawn, IdleAsked, WindowShows
<1> QED BY <1>2, <1>6, <1>9, <1>10 DEF XIInv, InStep

(* What is shown anew, with or without another size, is drawn and asked for.   *)
LEMMA ShowAnewKeeps == ASSUME XIInv, ShowAnew PROVE XIInv'
<1>1. PICK h \in Heights : XBecomes(UpdateView(Resized(ToldAnew(X, h)), TRUE))
  BY DEF ShowAnew
<1> DEFINE face == [Top(X) EXCEPT !.redraw = TRUE, !.wanted = h, !.drawing = drawings + 1]
           anew == WithPane(X, face)
           sized == Resized(anew)
           r == UpdateView(sized, TRUE)
<1>2. XTyped(X) /\ SizeTold(X) /\ SizeTaken(X) /\ PixmapFits(X) /\ drawings \in Nat
  BY DEF XIInv, InStep
<1>3. face \in Panes /\ face.redraw = TRUE /\ face.wanted = h /\ face.height = Top(X).height
  <2>1. Top(X) \in Panes /\ drawings + 1 \in Nat
    BY <1>2, TopTyped
  <2> QED BY <2>1 DEF Panes
<1> HIDE DEF face
<1>4. /\ XTyped(anew) /\ Top(anew) = face /\ anew.pixmap = X.pixmap
      /\ anew.window = X.window /\ anew.xevents = X.xevents
  BY <1>2, <1>3, WithPaneDoes
<1> HIDE DEF anew
<1>5. SizeTold(anew) /\ SizeTaken(anew) /\ PixmapFits(anew)
  BY <1>2, <1>3, <1>4 DEF SizeTold, SizeTaken, NoSizes, PixmapFits
<1>6. XTyped(sized) /\ SizeTold(sized) /\ SizeTaken(sized) /\ PixmapFits(sized) /\ Top(sized).redraw
  <2>1. CASE Top(anew).wanted = Top(anew).height
    <3>1. sized = anew
      BY <2>1 DEF Resized
    <3> QED BY <1>3, <1>4, <1>5, <3>1
  <2>2. CASE Top(anew).wanted # Top(anew).height
    <3> DEFINE p == [Top(anew) EXCEPT !.height = Top(anew).wanted]
               v == WithPane(anew, p)
    <3>1. sized = WindowUpdateSize(v)
      BY <2>2 DEF Resized
    <3>2. p \in Panes
      BY <1>3, <1>4 DEF Panes
    <3> HIDE DEF p
    <3>3. XTyped(v) /\ Top(v) = p /\ v.xevents = anew.xevents /\ v.window = anew.window
      BY <1>4, <3>2, WithPaneDoes
    <3> HIDE DEF v
    <3>4. SizeTold(v)
      BY <1>5, <3>3 DEF SizeTold
    <3>5. /\ XTyped(sized) /\ SizeTold(sized) /\ SizeTaken(sized) /\ PixmapFits(sized)
          /\ Top(sized) = [Top(v) EXCEPT !.redraw = TRUE]
      BY <3>1, <3>3, <3>4, WindowUpdateSizeDoes
    <3>6. Top(sized).redraw
      BY <3>2, <3>3, <3>5 DEF Panes
    <3> QED BY <3>5, <3>6
  <2> QED BY <2>1, <2>2
<1>7. XBecomes(r)
  BY <1>1 DEF face, anew, ToldAnew
<1> HIDE DEF sized
<1>8. InStep(r)
  BY <1>6, UpdateEnds
<1> HIDE DEF r
<1>9. X' = r
  BY <1>7, <1>8, Becoming DEF InStep, XTyped
<1>10. drawings' \in Nat
  BY <1>2 DEF ShowAnew
<1> QED BY <1>8, <1>9, <1>10 DEF XIInv

(* The idle draws what is to be drawn and copies the pixmap. *)
LEMMA RepaintWindowKeeps == ASSUME XIInv, RepaintWindow PROVE XIInv'
<1> DEFINE inked == UpdateView(X, FALSE)
           r == [inked EXCEPT !.window.picture = inked.pixmap.picture, !.painting = FALSE]
<1>1. XBecomes(r) /\ drawings' = drawings
  BY DEF RepaintWindow
<1>2. InStep(X) /\ drawings \in Nat
  BY DEF XIInv
<1>3. Top(X) \in Panes
  BY <1>2, TopTyped DEF InStep
<1>4. /\ XTyped(inked) /\ Top(inked) = [Top(X) EXCEPT !.redraw = FALSE]
      /\ inked.window = X.window /\ inked.xevents = X.xevents
      /\ inked.pixmap.height = X.pixmap.height
      /\ IF Top(X).redraw THEN inked.pixmap.picture = Top(X).drawing
         ELSE inked.pixmap = X.pixmap
  BY <1>2, UpdateViewDoes DEF InStep
<1> HIDE DEF inked
<1>5. /\ XTyped(r) /\ Top(r) = Top(inked) /\ r.window.height = inked.window.height
      /\ r.window.picture = r.pixmap.picture /\ r.pixmap = inked.pixmap
      /\ r.xevents = inked.xevents
  BY <1>4 DEF XTyped, XStates, Sheets, Top
<1> HIDE DEF r
<1>6. Top(r).redraw = FALSE /\ Top(r).height = Top(X).height /\ Top(r).drawing = Top(X).drawing
  BY <1>3, <1>4, <1>5 DEF Panes
<1>7. SizeTold(r) /\ SizeTaken(r) /\ PixmapFits(r)
  BY <1>2, <1>4, <1>5, <1>6 DEF InStep, SizeTold, SizeTaken, NoSizes, PixmapFits
<1>8. PixmapDrawn(r) /\ IdleAsked(r) /\ WindowShows(r)
  BY <1>2, <1>4, <1>5, <1>6 DEF InStep, PixmapDrawn, IdleAsked, WindowShows
<1>9. X' = r
  BY <1>1, <1>5, Becoming DEF XTyped
<1> QED BY <1>1, <1>2, <1>5, <1>7, <1>8, <1>9 DEF XIInv, InStep

(* A dialog is laid over the views, and its window made twice. *)
LEMMA OpenDialogKeeps == ASSUME XIInv, OpenDialog PROVE XIInv'
<1>1. PICK h \in Heights :
        LET dialog == [Pane(h) EXCEPT !.drawing = drawings + 1]
            sized == WindowUpdateSize([X EXCEPT !.panes = Append(@, dialog)])
        IN XBecomes(QueueRedraw(WindowUpdateSize(sized)))
  BY DEF OpenDialog
<1> DEFINE dialog == [Pane(h) EXCEPT !.drawing = drawings + 1]
           laid == [X EXCEPT !.panes = Append(X.panes, dialog)]
           sized == WindowUpdateSize(laid)
           again == WindowUpdateSize(sized)
           r == QueueRedraw(again)
<1>2. X \in XStates /\ SizeTold(X) /\ drawings \in Nat
  BY DEF XIInv, InStep, XTyped
<1>3. dialog \in Panes
  <2>1. Pane(h) \in Panes /\ drawings + 1 \in Nat
    BY <1>2 DEF Pane, Panes
  <2> QED BY <2>1 DEF Panes
<1>4. laid = [X EXCEPT !.panes = Append(@, dialog)]
  BY DEF X
<1> HIDE DEF dialog
<1>5. Append(X.panes, dialog) \in Seq(Panes) /\ Len(Append(X.panes, dialog)) > 0
  <2>1. X.panes \in Seq(Panes)
    BY <1>2 DEF XStates
  <2> QED BY <2>1, <1>3, AppendProperties, LenProperties
<1>6. XTyped(laid) /\ laid.xevents = X.xevents /\ laid.window = X.window
  BY <1>2, <1>5 DEF XTyped, XStates
<1> HIDE DEF laid
<1>7. SizeTold(laid)
  BY <1>2, <1>6 DEF SizeTold
<1>8. XTyped(sized) /\ SizeTold(sized)
  BY <1>6, <1>7, WindowUpdateSizeDoes
<1> HIDE DEF sized
<1>9. /\ XTyped(again) /\ SizeTold(again) /\ SizeTaken(again) /\ PixmapFits(again)
      /\ Top(again) = [Top(sized) EXCEPT !.redraw = TRUE]
  BY <1>8, WindowUpdateSizeDoes
<1>10. PixmapDrawn(again)
  <2>1. Top(sized) \in Panes
    BY <1>8, TopTyped
  <2> HIDE DEF again
  <2>2. Top(again).redraw = TRUE
    BY <1>9, <2>1 DEF Panes
  <2> QED BY <2>2 DEF PixmapDrawn
<1>11. XBecomes(r)
  BY <1>1, <1>4 DEF dialog, sized
<1> HIDE DEF again
<1>12. InStep(r)
  BY <1>9, <1>10, QueueEnds
<1> HIDE DEF r
<1>13. X' = r
  BY <1>11, <1>12, Becoming DEF InStep, XTyped
<1>14. drawings' \in Nat
  BY <1>2 DEF OpenDialog
<1> QED BY <1>12, <1>13, <1>14 DEF XIInv

(* The dialog goes, and the window is that of the view below again. *)
LEMMA CloseDialogKeeps == ASSUME XIInv, CloseDialog PROVE XIInv'
<1> DEFINE bared == [X EXCEPT !.panes = Front(X.panes)]
           sized == WindowUpdateSize(bared)
           r == QueueRedraw(sized)
<1>1. X \in XStates /\ SizeTold(X) /\ drawings \in Nat /\ X.panes = panes
  BY DEF XIInv, InStep, XTyped, X
<1>2. Front(X.panes) \in Seq(Panes) /\ Len(Front(X.panes)) > 0
  <2>1. X.panes \in Seq(Panes) /\ Len(X.panes) \in Nat /\ Len(X.panes) > 1
    <3>1. X.panes \in Seq(Panes)
      BY <1>1 DEF XStates
    <3> QED BY <1>1, <3>1, LenProperties DEF CloseDialog
  <2>2. \A i \in 1 .. Len(X.panes) - 1 : X.panes[i] \in Panes
    BY <2>1, ElementOfSeq
  <2> QED BY <2>1, <2>2, SubSeqProperties DEF Front
<1>3. XTyped(bared) /\ bared.xevents = X.xevents /\ bared.window = X.window
  BY <1>1, <1>2 DEF XTyped, XStates
<1>4. bared = [X EXCEPT !.panes = Front(@)]
  BY DEF X
<1> HIDE DEF bared
<1>5. SizeTold(bared)
  BY <1>1, <1>3 DEF SizeTold
<1>6. /\ XTyped(sized) /\ SizeTold(sized) /\ SizeTaken(sized) /\ PixmapFits(sized)
      /\ Top(sized) = [Top(bared) EXCEPT !.redraw = TRUE]
  BY <1>3, <1>5, WindowUpdateSizeDoes
<1>7. PixmapDrawn(sized)
  BY <1>3, <1>6, TopTyped DEF PixmapDrawn, Panes
<1>8. XBecomes(r) /\ drawings' = drawings
  BY <1>4 DEF CloseDialog
<1> HIDE DEF sized
<1>9. InStep(r)
  BY <1>6, <1>7, QueueEnds
<1> HIDE DEF r
<1>10. X' = r
  BY <1>8, <1>9, Becoming DEF InStep, XTyped
<1> QED BY <1>1, <1>8, <1>9, <1>10 DEF XIInv

(* An event that has been taken is gone from those on their way. *)
LEMMA OneEventLess ==
  ASSUME NEW w, InStep(w), w.xevents # <<>>
  PROVE  LET r == [w EXCEPT !.xevents = Tail(@)]
         IN /\ XTyped(r) /\ Top(r) = Top(w) /\ r.pixmap = w.pixmap /\ r.window = w.window
            /\ r.painting = w.painting /\ SizeTold(r) /\ Head(w.xevents) \in Heights \cup {0}
            /\ NoSizes(r) /\ Head(w.xevents) # 0 => Head(w.xevents) = w.window.height
            /\ NoSizes(r) /\ Head(w.xevents) = 0 => NoSizes(w)
            /\ Exposed(w) /\ Head(w.xevents) # 0 => Exposed(r)
<1> DEFINE s == w.xevents
           n == Len(s)
           t == Tail(s)
           r == [w EXCEPT !.xevents = t]
<1>1. s \in Seq(Heights \cup {0}) /\ n \in Nat /\ s # <<>> /\ w \in XStates /\ Len(w.panes) > 0
  BY LenProperties DEF InStep, XTyped, XStates
<1>2. /\ t \in Seq(Heights \cup {0}) /\ Len(t) = n - 1 /\ Head(s) \in Heights \cup {0}
      /\ \A i \in 1 .. n - 1 : t[i] = s[i + 1]
  BY <1>1, HeadTailProperties
<1>3. n > 0 /\ Head(s) = s[1]
  BY <1>1, EmptySeq
<1>4. \A i \in 1 .. n : LastOfSizes(s, i) => s[i] = w.window.height
  BY DEF InStep, SizeTold
<1>5. NoSizes(w) <=> \A i \in 1 .. n : s[i] = 0
  BY DEF NoSizes
<1>6. Exposed(w) <=> \E i \in 1 .. n : s[i] = 0
  BY DEF Exposed
<1>7. [w EXCEPT !.xevents = Tail(@)] = r
  BY <1>1 DEF XStates
<1> HIDE DEF t
<1>8. /\ r \in XStates /\ r.panes = w.panes /\ r.pixmap = w.pixmap /\ r.window = w.window
      /\ r.painting = w.painting /\ r.xevents = t
  BY <1>1, <1>2 DEF XStates
<1> HIDE DEF r
<1>9. XTyped(r) /\ Top(r) = Top(w)
  BY <1>1, <1>8 DEF XTyped, Top
<1>10. n = Len(s)
  OBVIOUS
<1> HIDE DEF n, s
<1>11. \A i \in 1 .. n : i = 1 \/ (i - 1 \in 1 .. n - 1 /\ s[i] = t[i - 1])
  BY <1>1, <1>2
<1>12. ASSUME NEW i \in 1 .. n - 1, LastOfSizes(t, i) PROVE t[i] = w.window.height
  <2>1. i + 1 \in 1 .. n /\ i \in 1 .. Len(t) /\ s[i + 1] = t[i]
    BY <1>1, <1>2
  <2>2. ASSUME NEW j \in 1 .. n, j > i + 1 PROVE s[j] = 0
    <3>1. j - 1 \in 1 .. n - 1 /\ j - 1 > i /\ s[j] = t[j - 1]
      BY <1>1, <1>2, <2>2
    <3> QED BY <1>2, <1>12, <3>1 DEF LastOfSizes
  <2>3. LastOfSizes(s, i + 1)
    BY <1>10, <1>12, <2>1, <2>2 DEF LastOfSizes
  <2> QED BY <1>4, <2>1, <2>3
<1>13. SizeTold(r)
  BY <1>2, <1>8, <1>12 DEF SizeTold
<1>14. NoSizes(r) <=> \A i \in 1 .. n - 1 : t[i] = 0
  BY <1>2, <1>8 DEF NoSizes
<1>15. ASSUME NoSizes(r), Head(s) # 0 PROVE Head(s) = w.window.height
  <2>1. \A j \in 1 .. n : j > 1 => s[j] = 0
    BY <1>1, <1>11, <1>14, <1>15
  <2>2. LastOfSizes(s, 1) /\ 1 \in 1 .. n
    BY <1>1, <1>3, <1>10, <1>15, <2>1 DEF LastOfSizes
  <2> QED BY <1>3, <1>4, <2>2
<1>16. ASSUME NoSizes(r), Head(s) = 0 PROVE NoSizes(w)
  BY <1>3, <1>5, <1>11, <1>14, <1>16
<1>17. ASSUME Exposed(w), Head(s) # 0 PROVE Exposed(r)
  <2>1. PICK i \in 1 .. n : s[i] = 0
    BY <1>6, <1>17
  <2>2. i - 1 \in 1 .. n - 1 /\ t[i - 1] = 0
    BY <1>3, <1>11, <1>17, <2>1
  <2> QED BY <1>2, <1>8, <2>2 DEF Exposed
<1> QED BY <1>2, <1>7, <1>8, <1>9, <1>13, <1>15, <1>16, <1>17 DEF s

(* An event: an exposition asks for the idle, a size is taken with a new pixmap. *)
LEMMA XEventKeeps == ASSUME XIInv, XEvent PROVE XIInv'
<1> DEFINE rest == [X EXCEPT !.xevents = Tail(@)]
           e == Head(X.xevents)
           handled == IF e = 0 THEN QueueRedraw(rest) ELSE Configured(rest, e)
           r == UpdateView(handled, TRUE)
<1>1. InStep(X) /\ X.xevents # <<>> /\ X.xevents = xevents /\ drawings \in Nat
  BY DEF XIInv, XEvent, X
<1>2. XBecomes(r) /\ drawings' = drawings
  BY <1>1 DEF XEvent
<1>3. /\ XTyped(rest) /\ Top(rest) = Top(X) /\ rest.pixmap = X.pixmap /\ rest.window = X.window
      /\ rest.painting = X.painting /\ SizeTold(rest) /\ e \in Heights \cup {0}
      /\ NoSizes(rest) /\ e # 0 => e = X.window.height
      /\ NoSizes(rest) /\ e = 0 => NoSizes(X)
      /\ Exposed(X) /\ e # 0 => Exposed(rest)
  BY <1>1, OneEventLess
<1>4. SizeTaken(X) /\ PixmapFits(X) /\ PixmapDrawn(X) /\ IdleAsked(X) /\ WindowShows(X)
  BY <1>1 DEF InStep
<1> HIDE DEF rest, e
<1>5. PixmapFits(rest) /\ PixmapDrawn(rest)
  BY <1>3, <1>4 DEF PixmapFits, PixmapDrawn
<1>6. /\ XTyped(handled) /\ SizeTold(handled) /\ SizeTaken(handled) /\ PixmapFits(handled)
      /\ Top(handled).redraw \/ (PixmapDrawn(handled) /\ WindowShows(handled))
  <2>1. CASE e = 0
    <3> DEFINE h == QueueRedraw(rest)
    <3>1. /\ XTyped(h) /\ h.painting = TRUE /\ Top(h) = Top(rest) /\ h.pixmap = rest.pixmap
          /\ h.window = rest.window /\ h.xevents = rest.xevents
      BY <1>3, QueueRedrawDoes
    <3> HIDE DEF h
    <3>2. SizeTaken(rest)
      BY <1>3, <1>4, <2>1 DEF SizeTaken
    <3>3. SizeTold(h) /\ SizeTaken(h) /\ PixmapFits(h) /\ PixmapDrawn(h) /\ WindowShows(h)
      BY <1>3, <1>5, <3>1, <3>2 DEF SizeTold, SizeTaken, NoSizes, PixmapFits, PixmapDrawn, WindowShows
    <3>4. handled = h
      BY <2>1 DEF h
    <3> QED BY <3>1, <3>3, <3>4
  <2>2. CASE e # 0 /\ e = Top(rest).height
    <3>1. handled = rest
      BY <2>2 DEF Configured
    <3>2. SizeTaken(rest)
      BY <1>3, <2>2 DEF SizeTaken
    <3>3. WindowShows(rest) \/ Top(rest).redraw
      BY <1>3, <1>4, <2>2 DEF WindowShows
    <3> QED BY <1>3, <1>5, <3>1, <3>2, <3>3
  <2>3. CASE e # 0 /\ e # Top(rest).height
    <3> DEFINE face == [Top(rest) EXCEPT !.height = e]
               v == WithPane(rest, face)
               h == NewPixmap(v, e)
    <3>1. handled = h
      BY <2>3 DEF Configured
    <3>2. face \in Panes /\ face.height = e /\ e \in Heights
      BY <1>3, <2>3, TopTyped DEF Panes
    <3> HIDE DEF face
    <3>3. XTyped(v) /\ Top(v) = face /\ v.window = rest.window /\ v.xevents = rest.xevents
      BY <1>3, <3>2, WithPaneDoes
    <3> HIDE DEF v
    <3>4. /\ XTyped(h) /\ Top(h) = [face EXCEPT !.redraw = TRUE] /\ h.pixmap.height = e
          /\ h.window = rest.window /\ h.xevents = rest.xevents
      BY <3>2, <3>3, NewPixmapDoes
    <3> HIDE DEF h
    <3>5. Top(h).redraw /\ Top(h).height = e
      BY <3>2, <3>4 DEF Panes
    <3>6. SizeTold(h) /\ SizeTaken(h) /\ PixmapFits(h)
      BY <1>3, <2>3, <3>4, <3>5 DEF SizeTold, SizeTaken, NoSizes, PixmapFits
    <3> QED BY <3>1, <3>4, <3>5, <3>6
  <2> QED BY <2>1, <2>2, <2>3
<1> HIDE DEF handled
<1>7. InStep(r)
  BY <1>6, UpdateEnds
<1> HIDE DEF r
<1>8. X' = r
  BY <1>2, <1>7, Becoming DEF InStep, XTyped
<1> QED BY <1>1, <1>2, <1>7, <1>8 DEF XIInv

(* Nobody here asked for it: the window is uncovered, or the manager resizes it. *)
LEMMA UpsetKeeps == ASSUME XIInv, Upset PROVE XIInv'
<1>1. InStep(X) /\ XTyped(X) /\ X \in XStates /\ SizeTold(X) /\ drawings \in Nat
  BY DEF XIInv, InStep, XTyped
<1>2. drawings' = drawings
  BY DEF Upset
<1>3. SizeTaken(X) /\ PixmapFits(X) /\ PixmapDrawn(X) /\ IdleAsked(X) /\ WindowShows(X)
  BY <1>1 DEF InStep
<1>4. CASE XBecomes([X EXCEPT !.window.picture = Blank, !.xevents = Append(@, 0)])
  <2> DEFINE a == Append(X.xevents, 0)
             r == [X EXCEPT !.window.picture = Blank, !.xevents = a]
  <2>1. 0 \in Heights \cup {0}
    OBVIOUS
  <2>2. /\ a \in Seq(Heights \cup {0})
        /\ \A i \in 1 .. Len(a) : LastOfSizes(a, i) => a[i] = X.window.height
        /\ (\A i \in 1 .. Len(a) : a[i] = 0) => NoSizes(X)
        /\ \E i \in 1 .. Len(a) : a[i] = 0
    BY <1>1, <2>1, OneMoreEvent
  <2>3. XBecomes(r)
    BY <1>4 DEF X
  <2> HIDE DEF a
  <2>4. /\ r \in XStates /\ r.panes = X.panes /\ r.pixmap = X.pixmap /\ r.xevents = a
        /\ r.painting = X.painting /\ r.window.height = X.window.height
    BY <1>1, <2>2 DEF XStates, Sheets, Blank
  <2> HIDE DEF r
  <2>5. XTyped(r) /\ Top(r) = Top(X)
    BY <1>1, <2>4 DEF XTyped, Top
  <2>6. SizeTold(r) /\ SizeTaken(r) /\ PixmapFits(r) /\ PixmapDrawn(r) /\ IdleAsked(r) /\ WindowShows(r)
    BY <1>3, <2>2, <2>4, <2>5
       DEF SizeTold, SizeTaken, NoSizes, PixmapFits, PixmapDrawn, IdleAsked, WindowShows, Exposed
  <2>7. X' = r
    BY <2>3, <2>4, Becoming
  <2> QED BY <1>1, <1>2, <2>5, <2>6, <2>7 DEF XIInv, InStep
<1>5. CASE \E h \in Heights \ {window.height} : XBecomes(ServerResizes(X, h))
  <2>1. PICK h \in Heights \ {window.height} : XBecomes(ServerResizes(X, h))
    BY <1>5
  <2> DEFINE r == ServerResizes(X, h)
  <2>2. h \in Heights /\ h # X.window.height
    BY DEF X
  <2>3. /\ XTyped(r) /\ SizeTold(r) /\ r.window.height = h
        /\ r.panes = X.panes /\ r.pixmap = X.pixmap /\ r.painting = X.painting
        /\ NoSizes(r) => X.window.height = h /\ NoSizes(X)
        /\ Exposed(r) \/ r.window.picture = X.window.picture
        /\ Exposed(X) => Exposed(r)
    BY <1>1, <2>2, ServerResizesDoes
  <2> HIDE DEF r
  <2>4. Top(r) = Top(X)
    BY <2>3 DEF Top
  <2>5. SizeTaken(r) /\ PixmapFits(r) /\ PixmapDrawn(r) /\ IdleAsked(r) /\ WindowShows(r)
    BY <1>3, <2>2, <2>3, <2>4 DEF SizeTaken, PixmapFits, PixmapDrawn, IdleAsked, WindowShows
  <2>6. X' = r
    BY <2>1, <2>3, Becoming DEF XTyped, r
  <2> QED BY <1>1, <1>2, <2>3, <2>5, <2>6 DEF XIInv, InStep
<1> QED BY <1>4, <1>5 DEF Upset

LEMMA XKept == XIInv /\ [XNext]_xVars => XIInv'
<1> SUFFICES ASSUME XIInv, [XNext]_xVars PROVE XIInv'
  OBVIOUS
<1>1. CASE UNCHANGED xVars
  BY <1>1 DEF xVars, XIInv, X
<1> QED BY <1>1, ShowAnewKeeps, OpenDialogKeeps, CloseDialogKeeps, RepaintWindowKeeps,
           XEventKeeps, UpsetKeeps DEF XNext

(* The X11 window is in step whenever there is nothing left to come: it shows   *)
(* the last drawing of the view on top at the size of both, however resizes,   *)
(* dialogs and late events have crossed (xcb/view.c:200-250, 820-855).         *)
THEOREM WindowKeepsStep == XSpec => []WindowInStep
<1>1. XSpec => []XIInv
  BY XInitially, XKept, PTL DEF XSpec
<1> QED BY <1>1, XEnough, PTL
--------------------------------------------------------------------------------
(* The clock. *)

ClockSpec == ClockInit(TRUE) /\ [][ClockNext]_clockVars

SurfaceLevels == {None, OnTheWay, Full}
Tweens == [value : SurfaceLevels, to : {None, Full}, start : Int, duration : Int,
           running : BOOLEAN]
Clocks == [now : Int, base : Int, last : Int, stamped : BOOLEAN, dormant : BOOLEAN]
Rests == [available : BOOLEAN, duration : Int, resolved : BOOLEAN, mapped : BOOLEAN,
          exiting : BOOLEAN, wasBusy : BOOLEAN, trailing : BOOLEAN, settle : BOOLEAN,
          guard : BOOLEAN]

ClockTyped ==
  /\ clock \in Clocks /\ anim \in Rests /\ tween \in [Motions -> Tweens]
  /\ raw \in 0..(Wrap - 1) /\ wishes.theme \in Int
  /\ seen \in [Motions -> Int] /\ painted \in SurfaceLevels

(* The clock stands where its last stamp is, and the next frame counts from      *)
(* there if the last one moved something.                                        *)
Awake == clock.stamped /\ ~clock.dormant
ClockAtStamp == clock.stamped => clock.last = raw /\ clock.now = clock.base + raw
ClockAwake == anim.wasBusy <=> Awake

(* A surface on its way out goes to nothing, and there was a motion to put the   *)
(* exit off for.                                                                 *)
ExitOnItsWay ==
  /\ anim.exiting => anim.mapped /\ Enabled /\ tween["surface"].to = None
  /\ anim.mapped /\ Enabled => tween["surface"].value <= painted

ClockIInv == ClockTyped /\ ClockAtStamp /\ ClockAwake /\ MotionsTimed /\ ExitOnItsWay
--------------------------------------------------------------------------------
LEMMA DurationIsInt == ASSUME ClockTyped PROVE Duration \in Int
<1>1. \A f : FromFile(f) \in Int
  BY DEF FromFile
<1>2. FromHikari(wishes.files) \in Int
  BY <1>1, ClockAssumption DEF FromHikari
<1>3. anim.duration \in Int /\ wishes.theme \in Int
  BY DEF ClockTyped, Rests
<1>4. Lesser(wishes.theme, MaxDuration) \in Int
  BY <1>3, ClockAssumption DEF Lesser
<1> QED BY <1>2, <1>3, <1>4 DEF Duration

(* A frame takes the clock on by the time since the last, or not at all.         *)
LEMMA StampedAhead ==
  ASSUME ClockTyped, ClockAtStamp, NEW gap \in Gaps
  PROVE  LET ticked == Stamped(Later(raw, gap))
         IN /\ Later(raw, gap) \in 0..(Wrap - 1) /\ ticked \in Clocks
            /\ ticked.stamped /\ ticked.last = Later(raw, gap)
            /\ ticked.now = ticked.base + Later(raw, gap)
            /\ ticked.now = IF Awake THEN clock.now + gap ELSE clock.now
<1> DEFINE stamp == Later(raw, gap)
           base == IF ~clock.stamped \/ clock.dormant THEN clock.now - stamp
                   ELSE IF stamp < clock.last THEN clock.base + Wrap ELSE clock.base
<1>1. gap \in 1..(Wrap - 1) /\ Wrap \in Nat /\ raw \in 0..(Wrap - 1)
  BY ClockAssumption DEF ClockTyped
<1>2. /\ stamp \in 0..(Wrap - 1)
      /\ stamp = raw + gap \/ stamp = raw + gap - Wrap
      /\ stamp < raw <=> stamp = raw + gap - Wrap
  BY <1>1 DEF Later
<1>3. /\ clock.now \in Int /\ clock.base \in Int /\ clock.last \in Int
      /\ clock.stamped \in BOOLEAN /\ clock.dormant \in BOOLEAN
  BY DEF ClockTyped, Clocks
<1> HIDE DEF stamp
<1>4. /\ base \in Int
      /\ base + stamp = IF Awake THEN clock.now + gap ELSE clock.now
  <2>1. CASE ~clock.stamped \/ clock.dormant
    BY <1>1, <1>2, <1>3, <2>1 DEF Awake
  <2>2. CASE clock.stamped /\ ~clock.dormant
    <3>1. clock.last = raw /\ clock.now = clock.base + raw /\ Awake
      BY <2>2 DEF ClockAtStamp, Awake
    <3> QED BY <1>1, <1>2, <1>3, <2>2, <3>1
  <2> QED BY <1>3, <2>1, <2>2
<1> HIDE DEF base
<1>5. Stamped(stamp) = [clock EXCEPT !.stamped = TRUE, !.dormant = FALSE, !.base = base,
                                     !.last = stamp, !.now = base + stamp]
  BY DEF Stamped, base
<1>6. base + stamp \in Int /\ stamp \in Int
  BY <1>1, <1>2, <1>4
<1> DEFINE now == base + stamp
<1> HIDE DEF now
<1>7. Stamped(stamp) = [now |-> now, base |-> base, last |-> stamp, stamped |-> TRUE,
                        dormant |-> FALSE]
  <2>1. clock \in Clocks
    BY DEF ClockTyped
  <2> QED BY <1>5, <2>1 DEF Clocks, now
<1>8. /\ Stamped(stamp) \in Clocks /\ Stamped(stamp).stamped
      /\ Stamped(stamp).last = stamp /\ Stamped(stamp).base = base
      /\ Stamped(stamp).now = now
  BY <1>4, <1>6, <1>7 DEF Clocks, now
<1> QED BY <1>2, <1>4, <1>8 DEF stamp, now

--------------------------------------------------------------------------------
(* The duration is the same before and after it is looked up, and so is whether *)
(* anything moves.                                                              *)
DurationAsWas(a) ==
  /\ a.available = anim.available
  /\ \/ a.duration = anim.duration /\ a.resolved = anim.resolved
     \/ a.duration = Duration /\ a.resolved

LEMMA DurationKept ==
  ASSUME DurationAsWas(anim'), wishes' = wishes
  PROVE  Duration' = Duration /\ Enabled' = Enabled
<1>1. anim'.duration = anim.duration /\ anim'.resolved = anim.resolved
      => Duration' = Duration
  BY DEF Duration
<1>2. anim'.duration = Duration /\ anim'.resolved => Duration' = Duration
  BY DEF Duration
<1>3. Duration' = Duration
  BY <1>1, <1>2 DEF DurationAsWas
<1> QED BY <1>3 DEF DurationAsWas, Enabled

(* What anim is after the duration has been asked for.                           *)
LEMMA ResolvedTyped ==
  ASSUME ClockTyped, NEW a \in Rests, a.available = anim.available,
         a.duration = anim.duration, a.resolved = anim.resolved
  PROVE  /\ Resolved(a) \in Rests /\ DurationAsWas(Resolved(a))
         /\ Resolved(a).mapped = a.mapped /\ Resolved(a).exiting = a.exiting
         /\ Resolved(a).wasBusy = a.wasBusy /\ Resolved(a).trailing = a.trailing
         /\ Resolved(a).settle = a.settle /\ Resolved(a).guard = a.guard
<1>1. Duration \in Int
  BY DurationIsInt
<1> DEFINE d == Duration
<1> HIDE DEF d
<1>2. CASE a.available
  <2>1. Resolved(a) = [available |-> a.available, duration |-> d, resolved |-> TRUE,
                       mapped |-> a.mapped, exiting |-> a.exiting,
                       wasBusy |-> a.wasBusy, trailing |-> a.trailing,
                       settle |-> a.settle, guard |-> a.guard]
    BY <1>2 DEF Resolved, Rests, d
  <2>2. d = Duration /\ d \in Int
    BY <1>1 DEF d
  <2> QED BY <2>1, <2>2 DEF Rests, DurationAsWas
<1>3. CASE ~a.available
  BY <1>3 DEF Resolved, Rests, DurationAsWas
<1> QED BY <1>2, <1>3 DEF Rests

LEMMA TweenInitTyped ==
  ASSUME NEW v \in {None, Full}
  PROVE  TweenInit(v) \in Tweens /\ ~TweenInit(v).running
         /\ TweenInit(v).value = v /\ TweenInit(v).to = v
BY DEF TweenInit, Tweens, SurfaceLevels

(* A motion that begins has all its time before it.                              *)
LEMMA BegunTyped ==
  ASSUME ClockTyped, NEW from \in SurfaceLevels, NEW to \in {None, Full}
  PROVE  /\ Begun(from, to) \in Tweens /\ Begun(from, to).to = to
         /\ Begun(from, to).running => /\ Begun(from, to).start = clock.now
                                       /\ Begun(from, to).duration > 0
         /\ Duration > 0 => Begun(from, to).value = from
<1>1. Duration \in Int /\ clock.now \in Int
  BY DurationIsInt DEF ClockTyped, Clocks
<1> DEFINE d == Duration
<1> HIDE DEF d
<1>2. d \in Int /\ d = Duration
  BY <1>1 DEF d
<1>3. CASE d > 0
  BY <1>1, <1>2, <1>3 DEF Begun, Tweens
<1>4. CASE ~(d > 0)
  <2>1. Begun(from, to) = TweenInit(to)
    BY <1>2, <1>4 DEF Begun
  <2> QED BY <2>1, <1>2, <1>4, TweenInitTyped
<1> QED BY <1>3, <1>4

LEMMA AdvancedTyped ==
  ASSUME NEW t \in Tweens, NEW now \in Int
  PROVE  /\ Advanced(t, now) \in Tweens /\ Advanced(t, now).to = t.to
         /\ Advanced(t, now).running =>
              /\ t.running /\ now - t.start < t.duration
              /\ Advanced(t, now).start = t.start
              /\ Advanced(t, now).duration = t.duration
         /\ t.to = None => Advanced(t, now).value <= t.value
<1>0. /\ t.to \in {None, Full} /\ t.value \in SurfaceLevels /\ t.running \in BOOLEAN
      /\ t.start \in Int /\ t.duration \in Int
      /\ t = [value |-> t.value, to |-> t.to, start |-> t.start,
              duration |-> t.duration, running |-> t.running]
  BY DEF Tweens
<1>1. CASE ~t.running
  BY <1>0, <1>1 DEF Advanced, SurfaceLevels, None, OnTheWay, Full
<1>2. CASE t.running /\ now - t.start >= t.duration
  <2>1. Advanced(t, now) = TweenInit(t.to)
    BY <1>2 DEF Advanced
  <2> QED BY <1>0, <2>1, TweenInitTyped DEF SurfaceLevels, None, OnTheWay, Full
<1>3. CASE t.running /\ ~(now - t.start >= t.duration) /\ (now <= t.start \/ t.value = t.to)
  BY <1>0, <1>3 DEF Advanced, SurfaceLevels, None, OnTheWay, Full
<1>4. CASE t.running /\ ~(now - t.start >= t.duration) /\ ~(now <= t.start \/ t.value = t.to)
  <2>1. Advanced(t, now) = [value |-> OnTheWay, to |-> t.to, start |-> t.start,
                            duration |-> t.duration, running |-> TRUE]
    BY <1>0, <1>4 DEF Advanced
  <2> QED BY <1>0, <1>4, <2>1 DEF Tweens, SurfaceLevels, None, OnTheWay, Full
<1> QED BY <1>0, <1>1, <1>2, <1>3, <1>4

LEMMA SettledTyped ==
  ASSUME NEW a \in Rests
  PROVE  /\ SettledAnim(a) \in Rests /\ SettledAnim(a).available = a.available
         /\ SettledAnim(a).duration = a.duration /\ SettledAnim(a).resolved = a.resolved
         /\ ~SettledAnim(a).mapped /\ ~SettledAnim(a).exiting /\ ~SettledAnim(a).wasBusy
<1> DEFINE e == a.exiting
           b == [a EXCEPT !.settle = e, !.guard = FALSE, !.exiting = FALSE]
<1>1. e \in BOOLEAN
  BY DEF Rests
<1>2. SettledAnim(a) = [b EXCEPT !.mapped = FALSE, !.wasBusy = FALSE, !.trailing = FALSE]
  BY DEF SettledAnim
<1> HIDE DEF e
<1>3. b \in Rests /\ ~b.exiting
  BY <1>1 DEF Rests
<1>4. b.available = a.available /\ b.duration = a.duration /\ b.resolved = a.resolved
  BY DEF Rests
<1> HIDE DEF b
<1>5. SettledAnim(a) \in Rests
  BY <1>2, <1>3 DEF Rests
<1>6. /\ SettledAnim(a).available = b.available /\ SettledAnim(a).duration = b.duration
      /\ SettledAnim(a).resolved = b.resolved /\ SettledAnim(a).exiting = b.exiting
  BY <1>2, <1>3 DEF Rests
<1>7. ~SettledAnim(a).mapped /\ ~SettledAnim(a).wasBusy
  BY <1>2, <1>3 DEF Rests
<1> QED BY <1>3, <1>4, <1>5, <1>6, <1>7

(* Whatever ends a surface leaves the clock at rest and nothing on its way out.  *)
LEMMA SettleKeeps ==
  ASSUME ClockIInv, NEW a \in Rests, DurationAsWas(a),
         anim' = SettledAnim(a), tween' = SettledTweens,
         clock' = [clock EXCEPT !.dormant = TRUE],
         UNCHANGED <<raw, wishes, seen, painted>>
  PROVE  ClockIInv'
<1>1. /\ anim' \in Rests /\ ~anim'.mapped /\ ~anim'.exiting /\ ~anim'.wasBusy
  BY SettledTyped
<1>2. clock' \in Clocks /\ clock'.dormant /\ clock'.stamped = clock.stamped
      /\ clock'.last = clock.last /\ clock'.now = clock.now /\ clock'.base = clock.base
  <2>1. clock \in Clocks
    BY DEF ClockIInv, ClockTyped
  <2>2. clock' = [now |-> clock.now, base |-> clock.base, last |-> clock.last,
                  stamped |-> clock.stamped, dormant |-> TRUE]
    BY <2>1 DEF Clocks
  <2> QED BY <2>1, <2>2 DEF Clocks
<1>3. tween \in [Motions -> Tweens] /\ TweenInit(None) \in Tweens /\ TweenInit(Full) \in Tweens
      /\ ~TweenInit(None).running /\ ~TweenInit(Full).running
  BY TweenInitTyped DEF ClockIInv, ClockTyped
<1>4. /\ tween' \in [Motions -> Tweens]
      /\ \A m \in Motions : ~tween'[m].running \/ tween'[m] = tween[m]
  BY <1>3 DEF SettledTweens, Motions
<1>5. ClockTyped'
  BY <1>1, <1>2, <1>4 DEF ClockIInv, ClockTyped
<1>6. ClockAtStamp' /\ ClockAwake' /\ ExitOnItsWay'
  BY <1>1, <1>2 DEF ClockIInv, ClockAtStamp, ClockAwake, Awake, ExitOnItsWay
<1>7. MotionsTimed'
  <2>1. SUFFICES ASSUME NEW m \in Motions, tween'[m].running
                 PROVE  clock'.now - tween'[m].start = seen'[m] /\ seen'[m] < tween'[m].duration
    BY DEF MotionsTimed
  <2>2. tween'[m] = tween[m]
    BY <1>4, <2>1
  <2> QED BY <1>2, <2>1, <2>2 DEF ClockIInv, MotionsTimed
<1> QED BY <1>5, <1>6, <1>7 DEF ClockIInv
--------------------------------------------------------------------------------
LEMMA AnimationStarts ==
  ASSUME NEW on \in BOOLEAN, ClockInit(on)
  PROVE  ClockIInv
<1>1. clock \in Clocks /\ ~clock.stamped /\ ~anim.wasBusy /\ ~anim.mapped /\ ~anim.exiting
  BY DEF ClockInit, Clocks
<1>2. anim \in Rests
  BY ClockAssumption DEF ClockInit, Rests
<1>3. tween \in [Motions -> Tweens] /\ \A m \in Motions : ~tween[m].running
  BY TweenInitTyped DEF ClockInit
<1>4. raw \in 0..(Wrap - 1)
  BY ClockAssumption DEF ClockInit
<1>5. wishes.theme \in Int
  <2>1. CASE on
    <3>1. wishes \in [theme : Overrides, files : Candidates]
      BY <2>1 DEF ClockInit
    <3> QED BY <3>1, ClockAssumption
  <2>2. CASE ~on
    <3>1. wishes = [theme |-> 0, files |-> <<>>]
      BY <2>2 DEF ClockInit
    <3> QED BY <3>1
  <2> QED BY <2>1, <2>2
<1>6. seen \in [Motions -> Int] /\ painted \in SurfaceLevels
  BY DEF ClockInit, SurfaceLevels
<1> QED BY <1>1, <1>2, <1>3, <1>4, <1>5, <1>6
        DEF ClockIInv, ClockTyped, ClockAtStamp, ClockAwake, Awake, MotionsTimed, ExitOnItsWay

(* A frame moves everything by the time since the last one that moved it.        *)
LEMMA FrameKeeps ==
  ASSUME ClockIInv, NEW gap \in Gaps, Frame(gap)
  PROVE  ClockIInv'
<1> DEFINE stamp == Later(raw, gap)
           ticked == Stamped(stamp)
           moved == [m \in Motions |-> Advanced(tween[m], ticked.now)]
           busy == Moving(moved)
           a == [anim EXCEPT !.trailing = anim.wasBusy /\ ~busy, !.wasBusy = busy,
                        !.settle = @ \/ (anim.exiting /\ ~moved["surface"].running)]
<1>1. /\ stamp \in 0..(Wrap - 1) /\ ticked \in Clocks /\ ticked.stamped
      /\ ticked.last = stamp /\ ticked.now = ticked.base + stamp
      /\ ticked.now = IF Awake THEN clock.now + gap ELSE clock.now
  BY StampedAhead DEF ClockIInv
<1>2. /\ raw' = stamp /\ clock' = [ticked EXCEPT !.dormant = ~busy]
      /\ tween' = moved /\ anim' = a /\ wishes' = wishes
      /\ seen' = [m \in Motions |->
                    IF ~moved[m].running THEN 0
                    ELSE IF anim.wasBusy THEN seen[m] + gap ELSE seen[m]]
      /\ painted' = IF anim.exiting THEN Lesser(painted, Alpha(a, moved)) ELSE Alpha(a, moved)
  BY DEF Frame
<1>3. /\ tween \in [Motions -> Tweens] /\ anim \in Rests /\ gap \in Int
      /\ wishes.theme \in Int /\ seen \in [Motions -> Int] /\ painted \in SurfaceLevels
      /\ ticked.now \in Int /\ clock.now \in Int
  BY <1>1, ClockAssumption DEF ClockIInv, ClockTyped, Clocks
<1> HIDE DEF stamp, ticked
<1>4. \A m \in Motions :
        /\ moved[m] \in Tweens /\ moved[m].to = tween[m].to
        /\ moved[m].running => /\ tween[m].running
                               /\ ticked.now - tween[m].start < tween[m].duration
                               /\ moved[m].start = tween[m].start
                               /\ moved[m].duration = tween[m].duration
        /\ tween[m].to = None => moved[m].value <= tween[m].value
  BY <1>3, AdvancedTyped
<1>5. moved \in [Motions -> Tweens]
  BY <1>4
<1> HIDE DEF moved
<1>6. busy \in BOOLEAN
  BY DEF Moving
<1>7. moved["surface"].running \in BOOLEAN
  BY <1>5 DEF Tweens, Motions
<1> HIDE DEF busy
<1> DEFINE trails == anim.wasBusy /\ ~busy
           settles == anim.settle \/ (anim.exiting /\ ~moved["surface"].running)
<1>8. /\ trails \in BOOLEAN /\ settles \in BOOLEAN
      /\ a = [anim EXCEPT !.trailing = trails, !.wasBusy = busy, !.settle = settles]
  BY <1>3, <1>6, <1>7 DEF Rests
<1> HIDE DEF trails, settles, a
<1>9. /\ a \in Rests /\ a.wasBusy = busy /\ a.exiting = anim.exiting
      /\ a.mapped = anim.mapped /\ DurationAsWas(a)
  <2>1. a \in Rests
    BY <1>3, <1>6, <1>8 DEF Rests
  <2>2. a.wasBusy = busy
    BY <1>3, <1>8 DEF Rests
  <2>3. /\ a.available = anim.available /\ a.duration = anim.duration
        /\ a.resolved = anim.resolved /\ a.exiting = anim.exiting
        /\ a.mapped = anim.mapped
    BY <1>3, <1>8 DEF Rests
  <2> QED BY <2>1, <2>2, <2>3 DEF DurationAsWas
<1>10. /\ clock' \in Clocks /\ clock'.stamped /\ clock'.dormant = ~busy
       /\ clock'.last = raw' /\ clock'.now = clock'.base + raw' /\ clock'.now = ticked.now
  <2>1. clock' = [now |-> ticked.now, base |-> ticked.base, last |-> ticked.last,
                  stamped |-> ticked.stamped, dormant |-> ~busy]
    BY <1>1, <1>2 DEF Clocks
  <2>2. clock'.stamped = ticked.stamped /\ clock'.dormant = ~busy
    BY <2>1, Zenon
  <2> QED BY <1>1, <1>2, <1>6, <2>1, <2>2 DEF Clocks
<1>11. Alpha(a, moved) \in SurfaceLevels
  BY <1>5 DEF Alpha, Tweens, SurfaceLevels, Motions
<1>12. painted' \in SurfaceLevels
  BY <1>2, <1>3, <1>11 DEF Lesser
<1>13. ClockTyped'
  <2>1. seen' \in [Motions -> Int]
    BY <1>2, <1>3
  <2> QED BY <1>1, <1>2, <1>3, <1>5, <1>9, <1>10, <1>12, <2>1 DEF ClockTyped
<1>14. ClockAtStamp' /\ ClockAwake'
  BY <1>2, <1>6, <1>9, <1>10 DEF ClockAtStamp, ClockAwake, Awake
<1>15. MotionsTimed'
  <2>1. SUFFICES ASSUME NEW m \in Motions, moved[m].running
                 PROVE  clock'.now - moved[m].start = seen'[m] /\ seen'[m] < moved[m].duration
    BY <1>2 DEF MotionsTimed
  <2>2. /\ tween[m].running /\ ticked.now - tween[m].start < tween[m].duration
        /\ moved[m].start = tween[m].start /\ moved[m].duration = tween[m].duration
    BY <1>4, <2>1
  <2>3. clock.now - tween[m].start = seen[m]
    BY <2>2 DEF ClockIInv, MotionsTimed
  <2>4. seen'[m] = IF anim.wasBusy THEN seen[m] + gap ELSE seen[m]
    BY <1>2, <2>1
  <2>5. anim.wasBusy <=> Awake
    BY DEF ClockIInv, ClockAwake
  <2>6. tween[m].start \in Int /\ tween[m].duration \in Int /\ seen[m] \in Int
    BY <1>3 DEF Tweens
  <2> HIDE DEF Awake
  <2>7. ticked.now - tween[m].start = seen'[m]
    BY <1>1, <1>3, <2>3, <2>4, <2>5, <2>6
  <2> QED BY <1>10, <2>2, <2>7
<1>16. ExitOnItsWay'
  <2>1. Enabled' = Enabled
    BY <1>2, <1>9, DurationKept
  <2>2. anim.exiting => anim.mapped /\ Enabled /\ tween["surface"].to = None
    BY DEF ClockIInv, ExitOnItsWay
  <2>3. anim.mapped /\ Enabled => tween["surface"].value <= painted
    BY DEF ClockIInv, ExitOnItsWay
  <2>4. /\ moved["surface"].to = tween["surface"].to
        /\ tween["surface"].to = None => moved["surface"].value <= tween["surface"].value
    BY <1>4 DEF Motions
  <2>5. /\ moved["surface"].value \in SurfaceLevels /\ tween["surface"].value \in SurfaceLevels
    BY <1>3, <1>5 DEF Tweens, Motions
  <2>6. anim'.exiting => anim'.mapped /\ Enabled' /\ tween'["surface"].to = None
    BY <1>2, <1>9, <2>1, <2>2, <2>4
  <2>7. CASE anim.exiting
    <3>1. painted' = Lesser(painted, moved["surface"].value)
      BY <1>2, <1>9, <2>7 DEF Alpha
    <3>2. moved["surface"].value <= painted
      BY <1>3, <2>2, <2>3, <2>4, <2>5, <2>7 DEF SurfaceLevels, None, OnTheWay, Full
    <3>3. moved["surface"].value <= painted'
      BY <1>3, <2>5, <3>1, <3>2 DEF Lesser, SurfaceLevels, None, OnTheWay, Full
    <3> QED BY <1>2, <2>6, <3>3 DEF ExitOnItsWay
  <2>8. CASE ~anim.exiting
    <3>1. painted' = Alpha(a, moved)
      BY <1>2, <2>8
    <3>2. moved["surface"].value <= painted'
      BY <2>5, <3>1 DEF Alpha, SurfaceLevels, None, OnTheWay, Full
    <3> QED BY <1>2, <2>6, <3>2 DEF ExitOnItsWay
  <2> QED BY <2>7, <2>8
<1> QED BY <1>13, <1>14, <1>15, <1>16 DEF ClockIInv

(* Between frames the clock stands, and what moves does so as before or anew.    *)
LEMMA BetweenFrames ==
  ASSUME ClockIInv, clock' = clock, raw' = raw, wishes' = wishes,
         anim' \in Rests, anim'.wasBusy = anim.wasBusy,
         tween' \in [Motions -> Tweens], seen' \in [Motions -> Int], painted' \in SurfaceLevels,
         \A m \in Motions :
           tween'[m].running =>
             \/ tween'[m] = tween[m] /\ seen'[m] = seen[m]
             \/ tween'[m].start = clock.now /\ tween'[m].duration > 0 /\ seen'[m] = 0,
         ExitOnItsWay'
  PROVE  ClockIInv'
<1>1. ClockTyped' /\ ClockAtStamp' /\ ClockAwake'
  BY DEF ClockIInv, ClockTyped, ClockAtStamp, ClockAwake, Awake
<1>2. MotionsTimed'
  <2>1. SUFFICES ASSUME NEW m \in Motions, tween'[m].running
                 PROVE  clock'.now - tween'[m].start = seen'[m] /\ seen'[m] < tween'[m].duration
    BY DEF MotionsTimed
  <2>2. CASE tween'[m] = tween[m] /\ seen'[m] = seen[m]
    BY <2>1, <2>2 DEF ClockIInv, MotionsTimed
  <2>3. CASE tween'[m].start = clock.now /\ tween'[m].duration > 0 /\ seen'[m] = 0
    <3>1. clock.now \in Int /\ tween'[m].duration \in Int
      BY DEF ClockIInv, ClockTyped, Clocks, Tweens
    <3> QED BY <2>3, <3>1
  <2> QED BY <2>1, <2>2, <2>3
<1> QED BY <1>1, <1>2 DEF ClockIInv

LEMMA SurfaceMapKeeps ==
  ASSUME ClockIInv, SurfaceMap
  PROVE  ClockIInv'
<1> DEFINE r == Resolved(anim)
<1>1. /\ clock' = clock /\ raw' = raw /\ wishes' = wishes /\ painted' = None
      /\ anim' = [r EXCEPT !.mapped = TRUE, !.exiting = FALSE]
      /\ \/ /\ Enabled /\ tween' = [tween EXCEPT !["surface"] = Rise, !["live"] = Rise]
            /\ seen' = [seen EXCEPT !["surface"] = 0, !["live"] = 0]
         \/ ~Enabled /\ tween' = [tween EXCEPT !["surface"] = TweenInit(Full)] /\ seen' = seen
  BY DEF SurfaceMap
<1>2. r \in Rests /\ DurationAsWas(r) /\ r.wasBusy = anim.wasBusy
  BY ResolvedTyped DEF ClockIInv, ClockTyped
<1> HIDE DEF r
<1>3. /\ anim' \in Rests /\ anim'.wasBusy = anim.wasBusy /\ ~anim'.exiting
      /\ DurationAsWas(anim')
  <2>1. anim' \in Rests /\ anim'.wasBusy = anim.wasBusy /\ ~anim'.exiting
    BY <1>1, <1>2 DEF Rests
  <2>2. /\ anim'.available = r.available /\ anim'.duration = r.duration
        /\ anim'.resolved = r.resolved
    BY <1>1, <1>2 DEF Rests
  <2> QED BY <1>2, <2>1, <2>2 DEF DurationAsWas
<1>4. Enabled' = Enabled
  BY <1>1, <1>3, DurationKept
<1>5. /\ tween \in [Motions -> Tweens] /\ seen \in [Motions -> Int]
      /\ Rise \in Tweens /\ TweenInit(Full) \in Tweens /\ ~TweenInit(Full).running
      /\ Rise.running => Rise.start = clock.now /\ Rise.duration > 0
      /\ Duration > 0 => Rise.value = None
  BY BegunTyped, TweenInitTyped DEF ClockIInv, ClockTyped, Rise, SurfaceLevels
<1>6. /\ tween' \in [Motions -> Tweens] /\ seen' \in [Motions -> Int]
      /\ \A m \in Motions :
           \/ tween'[m] = tween[m] /\ seen'[m] = seen[m]
           \/ tween'[m] = Rise /\ seen'[m] = 0
           \/ tween'[m] = TweenInit(Full)
      /\ Enabled => tween'["surface"] = Rise
  <2>1. CASE /\ Enabled /\ tween' = [tween EXCEPT !["surface"] = Rise, !["live"] = Rise]
             /\ seen' = [seen EXCEPT !["surface"] = 0, !["live"] = 0]
    BY <1>5, <2>1 DEF Motions
  <2>2. CASE ~Enabled /\ tween' = [tween EXCEPT !["surface"] = TweenInit(Full)] /\ seen' = seen
    BY <1>5, <2>2 DEF Motions
  <2> QED BY <1>1, <2>1, <2>2
<1>7. ExitOnItsWay'
  BY <1>1, <1>3, <1>4, <1>5, <1>6 DEF ExitOnItsWay, Enabled, None
<1>8. painted' \in SurfaceLevels
  BY <1>1 DEF SurfaceLevels
<1> QED BY <1>1, <1>3, <1>5, <1>6, <1>7, <1>8, BetweenFrames

LEMMA SelectionMoveKeeps ==
  ASSUME ClockIInv, SelectionMove
  PROVE  ClockIInv'
<1>1. /\ clock' = clock /\ raw' = raw /\ wishes' = wishes /\ painted' = painted
      /\ anim' = Resolved(anim)
      /\ tween' = [tween EXCEPT !["selection"] = IF Enabled THEN Rise ELSE TweenInit(Full)]
      /\ seen' = [seen EXCEPT !["selection"] = 0]
  BY DEF SelectionMove
<1>2. /\ anim' \in Rests /\ DurationAsWas(anim') /\ anim'.wasBusy = anim.wasBusy
      /\ anim'.mapped = anim.mapped /\ anim'.exiting = anim.exiting
  BY <1>1, ResolvedTyped DEF ClockIInv, ClockTyped
<1>3. Enabled' = Enabled
  BY <1>1, <1>2, DurationKept
<1>4. /\ tween \in [Motions -> Tweens] /\ seen \in [Motions -> Int]
      /\ Rise \in Tweens /\ TweenInit(Full) \in Tweens /\ ~TweenInit(Full).running
      /\ Rise.running => Rise.start = clock.now /\ Rise.duration > 0
  BY BegunTyped, TweenInitTyped DEF ClockIInv, ClockTyped, Rise, SurfaceLevels
<1>5. /\ tween' \in [Motions -> Tweens] /\ seen' \in [Motions -> Int]
      /\ \A m \in Motions :
           \/ tween'[m] = tween[m] /\ seen'[m] = seen[m]
           \/ tween'[m] = Rise /\ seen'[m] = 0
           \/ tween'[m] = TweenInit(Full)
      /\ tween'["surface"] = tween["surface"]
  <2> DEFINE t == IF Enabled THEN Rise ELSE TweenInit(Full)
  <2>1. t \in {Rise, TweenInit(Full)} /\ tween' = [tween EXCEPT !["selection"] = t]
    BY <1>1
  <2> HIDE DEF t
  <2> QED BY <1>1, <1>4, <2>1 DEF Motions
<1>6. ExitOnItsWay'
  BY <1>1, <1>2, <1>3, <1>5 DEF ClockIInv, ExitOnItsWay
<1>7. painted' \in SurfaceLevels
  BY <1>1 DEF ClockIInv, ClockTyped
<1> QED BY <1>1, <1>2, <1>4, <1>5, <1>6, <1>7, BetweenFrames

LEMMA SelectionResetKeeps ==
  ASSUME ClockIInv, SelectionReset
  PROVE  ClockIInv'
<1>1. /\ clock' = clock /\ raw' = raw /\ wishes' = wishes /\ painted' = painted
      /\ anim' = anim /\ seen' = seen
      /\ tween' = [tween EXCEPT !["selection"] = TweenInit(Full)]
  BY DEF SelectionReset
<1>2. /\ tween \in [Motions -> Tweens] /\ seen \in [Motions -> Int] /\ anim \in Rests
      /\ painted \in SurfaceLevels /\ TweenInit(Full) \in Tweens /\ ~TweenInit(Full).running
  BY TweenInitTyped DEF ClockIInv, ClockTyped
<1>3. /\ tween' \in [Motions -> Tweens]
      /\ \A m \in Motions : tween'[m] = tween[m] \/ ~tween'[m].running
      /\ tween'["surface"] = tween["surface"]
  BY <1>1, <1>2 DEF Motions
<1>4. ExitOnItsWay'
  <2>1. Enabled' = Enabled
    BY <1>1, DurationKept DEF DurationAsWas
  <2> QED BY <1>1, <1>3, <2>1 DEF ClockIInv, ExitOnItsWay
<1> QED BY <1>1, <1>2, <1>3, <1>4, BetweenFrames

(* The exit that is put off begins where the surface stands, so it cannot be     *)
(* painted more opaque than it was.                                              *)
LEMMA CloseViewKeeps ==
  ASSUME ClockIInv, CloseView
  PROVE  ClockIInv'
<1>1. anim \in Rests /\ tween \in [Motions -> Tweens] /\ seen \in [Motions -> Int]
      /\ painted \in SurfaceLevels
  BY DEF ClockIInv, ClockTyped
<1>2. raw' = raw /\ wishes' = wishes /\ painted' = painted
  BY DEF CloseView
<1>3. CASE /\ Enabled /\ anim.mapped
           /\ anim' = IF anim.exiting THEN anim
                      ELSE [Resolved(anim) EXCEPT !.exiting = TRUE, !.guard = TRUE]
           /\ tween' = IF anim.exiting THEN tween
                       ELSE [tween EXCEPT !["surface"] = Begun(@.value, None)]
           /\ seen' = IF anim.exiting THEN seen ELSE [seen EXCEPT !["surface"] = 0]
           /\ UNCHANGED <<clock, surface_up>>
  <2>1. CASE anim.exiting
    <3>1. anim' = anim /\ tween' = tween /\ seen' = seen /\ clock' = clock
      BY <1>3, <2>1
    <3>2. Enabled' = Enabled
      BY <1>2, <3>1, DurationKept DEF DurationAsWas
    <3>3. ExitOnItsWay'
      BY <1>2, <3>1, <3>2 DEF ClockIInv, ExitOnItsWay
    <3> QED BY <1>1, <1>2, <3>1, <3>3, BetweenFrames
  <2>2. CASE ~anim.exiting
    <3> DEFINE r == Resolved(anim)
               v == tween["surface"].value
    <3>1. /\ anim' = [r EXCEPT !.exiting = TRUE, !.guard = TRUE] /\ clock' = clock
          /\ tween' = [tween EXCEPT !["surface"] = Begun(v, None)]
          /\ seen' = [seen EXCEPT !["surface"] = 0]
      BY <1>3, <2>2
    <3>2. r \in Rests /\ DurationAsWas(r) /\ r.wasBusy = anim.wasBusy /\ r.mapped = anim.mapped
      BY <1>1, ResolvedTyped DEF ClockIInv
    <3>3. v \in SurfaceLevels
      BY <1>1 DEF Tweens, Motions
    <3> HIDE DEF r
    <3>4. /\ anim' \in Rests /\ anim'.wasBusy = anim.wasBusy /\ anim'.exiting
          /\ anim'.mapped /\ DurationAsWas(anim')
      <4>1. /\ anim' \in Rests /\ anim'.wasBusy = r.wasBusy /\ anim'.exiting
            /\ anim'.mapped = r.mapped
        BY <3>1, <3>2 DEF Rests
      <4>2. /\ anim'.available = r.available /\ anim'.duration = r.duration
            /\ anim'.resolved = r.resolved
        BY <3>1, <3>2 DEF Rests
      <4> QED BY <1>3, <3>2, <4>1, <4>2 DEF DurationAsWas
    <3>5. Enabled' = Enabled
      BY <1>2, <3>4, DurationKept
    <3> DEFINE b == Begun(v, None)
    <3>6. /\ b \in Tweens /\ b.to = None /\ b.value = v
          /\ b.running => b.start = clock.now /\ b.duration > 0
      BY <1>3, <3>3, BegunTyped DEF ClockIInv, Enabled
    <3>7. tween' = [tween EXCEPT !["surface"] = b]
      BY <3>1
    <3> HIDE DEF b
    <3>8. /\ tween' \in [Motions -> Tweens] /\ seen' \in [Motions -> Int]
          /\ \A m \in Motions : \/ tween'[m] = tween[m] /\ seen'[m] = seen[m]
                                \/ tween'[m] = b /\ seen'[m] = 0
          /\ tween'["surface"] = b
      BY <1>1, <3>1, <3>6, <3>7 DEF Motions
    <3>9. ExitOnItsWay'
      <4>1. v <= painted
        BY <1>3 DEF ClockIInv, ExitOnItsWay
      <4> QED BY <1>2, <1>3, <3>4, <3>5, <3>6, <3>8, <4>1 DEF ExitOnItsWay
    <3> QED BY <1>1, <1>2, <3>1, <3>4, <3>6, <3>8, <3>9, BetweenFrames
  <2> QED BY <2>1, <2>2
<1>4. CASE /\ anim' = SettledAnim([Resolved(anim) EXCEPT !.exiting = FALSE])
           /\ tween' = SettledTweens /\ surface_up' = FALSE
           /\ clock' = [clock EXCEPT !.dormant = TRUE]
           /\ UNCHANGED seen
  <2> DEFINE r == Resolved(anim)
             a == [r EXCEPT !.exiting = FALSE]
  <2>1. r \in Rests /\ DurationAsWas(r)
    BY <1>1, ResolvedTyped DEF ClockIInv
  <2> HIDE DEF r
  <2>2. /\ a \in Rests /\ a.available = r.available /\ a.duration = r.duration
        /\ a.resolved = r.resolved
    BY <2>1 DEF Rests
  <2>3. anim' = SettledAnim(a)
    BY <1>4 DEF r
  <2> HIDE DEF a
  <2>4. DurationAsWas(a)
    BY <2>1, <2>2 DEF DurationAsWas
  <2> QED BY <1>2, <1>4, <2>2, <2>3, <2>4, SettleKeeps
<1> QED BY <1>3, <1>4 DEF CloseView

LEMMA SettleIdleKeeps ==
  ASSUME ClockIInv, SettleIdle
  PROVE  ClockIInv'
<1> DEFINE a == [anim EXCEPT !.exiting = FALSE]
<1>1. anim \in Rests
  BY DEF ClockIInv, ClockTyped
<1>2. a \in Rests
  BY <1>1 DEF Rests
<1>3. a.available = anim.available /\ a.duration = anim.duration /\ a.resolved = anim.resolved
  BY <1>1 DEF Rests
<1>4. /\ anim' = SettledAnim(a) /\ tween' = SettledTweens
      /\ clock' = [clock EXCEPT !.dormant = TRUE] /\ UNCHANGED <<raw, wishes, seen, painted>>
  BY DEF SettleIdle
<1> HIDE DEF a
<1>5. DurationAsWas(a)
  BY <1>3 DEF DurationAsWas
<1> QED BY <1>2, <1>4, <1>5, SettleKeeps

LEMMA SettleGuardKeeps ==
  ASSUME ClockIInv, SettleGuard
  PROVE  ClockIInv'
<1> DEFINE s == anim.settle \/ anim.exiting
<1>1. /\ anim \in Rests /\ tween \in [Motions -> Tweens] /\ seen \in [Motions -> Int]
      /\ painted \in SurfaceLevels
  BY DEF ClockIInv, ClockTyped
<1>2. /\ anim' = [anim EXCEPT !.guard = FALSE, !.settle = s]
      /\ clock' = clock /\ tween' = tween /\ raw' = raw /\ wishes' = wishes
      /\ seen' = seen /\ painted' = painted
  BY DEF SettleGuard
<1>3. s \in BOOLEAN
  OBVIOUS
<1> HIDE DEF s
<1>4. anim' \in Rests
  BY <1>1, <1>2, <1>3 DEF Rests
<1>5. /\ anim'.available = anim.available /\ anim'.duration = anim.duration
      /\ anim'.resolved = anim.resolved
  BY <1>1, <1>2 DEF Rests
<1>6. /\ anim'.wasBusy = anim.wasBusy /\ anim'.exiting = anim.exiting
      /\ anim'.mapped = anim.mapped
  BY <1>1, <1>2 DEF Rests
<1>7. Enabled' = Enabled
  BY <1>2, <1>5, DurationKept DEF DurationAsWas
<1>8. ExitOnItsWay'
  BY <1>2, <1>6, <1>7 DEF ClockIInv, ExitOnItsWay
<1> QED BY <1>1, <1>2, <1>4, <1>6, <1>8, BetweenFrames

LEMMA LayerClosedKeeps ==
  ASSUME ClockIInv, LayerClosed
  PROVE  ClockIInv'
<1>1. anim \in Rests /\ DurationAsWas(anim)
  BY DEF ClockIInv, ClockTyped, DurationAsWas
<1>2. /\ anim' = SettledAnim(anim) /\ tween' = SettledTweens
      /\ clock' = [clock EXCEPT !.dormant = TRUE] /\ UNCHANGED <<raw, wishes, seen, painted>>
  BY DEF LayerClosed
<1> QED BY <1>1, <1>2, SettleKeeps

LEMMA ClockIdles ==
  ASSUME ClockIInv, UNCHANGED clockVars
  PROVE  ClockIInv'
<1>1. /\ clock' = clock /\ tween' = tween /\ anim' = anim /\ raw' = raw
      /\ wishes' = wishes /\ seen' = seen /\ painted' = painted
  BY DEF clockVars
<1>2. Enabled' = Enabled
  BY <1>1, DurationKept DEF DurationAsWas
<1> QED BY <1>1, <1>2 DEF ClockIInv, ClockTyped, ClockAtStamp, ClockAwake, Awake,
                          MotionsTimed, ExitOnItsWay

(* The invariant the two theorems need: the clock stands where its last stamp    *)
(* is, it is awake exactly while something moved in the last frame, and a        *)
(* surface on its way out is bound for nothing.                                  *)
LEMMA ClockSteps ==
  ASSUME ClockIInv, [ClockNext]_clockVars
  PROVE  ClockIInv'
<1>1. ASSUME NEW gap \in Gaps, Frame(gap) PROVE ClockIInv'
  BY <1>1, FrameKeeps
<1>2. CASE SurfaceMap \/ SelectionMove \/ SelectionReset
  BY <1>2, SurfaceMapKeeps, SelectionMoveKeeps, SelectionResetKeeps
<1>3. CASE CloseView \/ SettleIdle \/ SettleGuard \/ LayerClosed
  BY <1>3, CloseViewKeeps, SettleIdleKeeps, SettleGuardKeeps, LayerClosedKeeps
<1>4. CASE UNCHANGED clockVars
  BY <1>4, ClockIdles
<1> QED BY <1>1, <1>2, <1>3, <1>4 DEF ClockNext

LEMMA ClockKept == ClockSpec => []ClockIInv
<1>1. ClockInit(TRUE) => ClockIInv
  BY AnimationStarts
<1>2. ClockIInv /\ [ClockNext]_clockVars => ClockIInv'
  BY ClockSteps
<1> QED BY <1>1, <1>2, PTL DEF ClockSpec

(* A motion runs for its duration and no longer, in the time between frames that *)
(* moved something: whatever the width of the compositor's counter, wherever it  *)
(* starts, and whatever the duration (anim.c:284-313).                           *)
THEOREM MotionsKeepTime == ClockSpec => []MotionsTimed
<1>1. ClockIInv => MotionsTimed
  BY DEF ClockIInv
<1> QED BY <1>1, ClockKept, PTL

(* From the moment its exit begins until it is dropped, a surface is never       *)
(* painted more opaque than it was (anim.c:853-861).                             *)
THEOREM ExitsFade == ClockSpec => []ExitFades
<1>1. ClockIInv => ExitFades
  BY DEF ClockIInv, ExitOnItsWay, ExitFades, Alpha
<1> QED BY <1>1, ClockKept, PTL
--------------------------------------------------------------------------------
(* The menu. *)

MenuSpec == MenuInit(TRUE) /\ [][MenuNext]_menuVars

(* The records whose fields are overwritten have these fields.                 *)
MenuFields ==
  /\ target = [item |-> target.item, generation |-> target.generation]
  /\ panel = [set |-> panel.set, menu |-> panel.menu, entries |-> panel.entries,
              stack |-> panel.stack, generation |-> panel.generation]
  /\ strip = [up |-> strip.up, mode |-> strip.mode, result |-> strip.result,
              rows |-> strip.rows, meant |-> strip.meant]
  /\ clicked = [icon |-> clicked.icon, clicks |-> clicked.clicks, sent |-> clicked.sent,
                meant |-> clicked.meant, path |-> clicked.path]
  /\ target.generation \in Int

(* What is read of a level is of the panel's own menu and level.               *)
OfTheLevel(p) ==
  \A e \in ToSet(p.entries) : e.item # "none" => e.item = p.menu /\ e.level = Level(p.stack)

(* The panel stands where the user went: in the menu of the icon clicked last, *)
(* which is of the last generation, so that the next click never finds it set  *)
(* up already; and a choice that is still to be processed means what is there. *)
PanelFollows ==
  /\ panel.menu = clicked.icon /\ panel.stack = clicked.path
  /\ panel.set => panel.generation = target.generation
ChoiceMeans ==
  strip.result.kind = "ok" => strip.meant = EntryAt(panel, strip.result.line)
SentAsMeant == clicked.sent # NoRow => clicked.sent = clicked.meant

MenuIInv == MenuFields /\ OfTheLevel(panel) /\ PanelFollows /\ ChoiceMeans /\ SentAsMeant

(* A level is read from the application the panel is of, or is a placeholder.  *)
LEMMA LevelsRead ==
  ASSUME NEW a, NEW m, NEW es, NEW s, NEW g, NEW slow
  PROVE  LET p == [set |-> a, menu |-> m, entries |-> es, stack |-> s, generation |-> g]
             q == LoadLevel(p, slow)
         IN /\ q = [set |-> a, menu |-> m, entries |-> q.entries, stack |-> s,
                    generation |-> g]
            /\ OfTheLevel(q)
<1> DEFINE p == [set |-> a, menu |-> m, entries |-> es, stack |-> s, generation |-> g]
           q == LoadLevel(p, slow)
           r == IF m = "none" \/ slow THEN <<>> ELSE Answered(m, Level(s))
<1>1. q = [p EXCEPT !.entries = IF r = <<>> THEN Placeholder ELSE r]
  BY DEF LoadLevel
<1>2. q = [set |-> a, menu |-> m, entries |-> IF r = <<>> THEN Placeholder ELSE r,
           stack |-> s, generation |-> g]
  BY <1>1
<1>3. \A e \in ToSet(Placeholder) : e.item = "none"
  <2>1. Placeholder = <<[NoRow EXCEPT !.kind = "disabled"]>>
    BY DEF Placeholder
  <2>2. [NoRow EXCEPT !.kind = "disabled"].item = "none"
    BY DEF NoRow
  <2> DEFINE row == [NoRow EXCEPT !.kind = "disabled"]
  <2> HIDE DEF row
  <2>3. <<row>>[1] = row /\ \A i \in DOMAIN <<row>> : i = 1
    OBVIOUS
  <2>4. \A i \in DOMAIN Placeholder : Placeholder[i] = row
    BY <2>1, <2>3 DEF row
  <2> QED
    BY <2>2, <2>4 DEF ToSet, row
<1>4. r # <<>> => \A e \in ToSet(r) : e.item = m /\ e.level = Level(s)
  <2>1. SUFFICES ASSUME r # <<>>, NEW e \in ToSet(r)
                 PROVE  e.item = m /\ e.level = Level(s)
    OBVIOUS
  <2>2. r = Answered(m, Level(s)) /\ Answered(m, Level(s)) # <<>>
    BY <2>1
  <2> DEFINE sent == published[m].menu[Level(s)]
             taken == SubSeq(sent, 1, IF Len(sent) > MaxRows THEN MaxRows ELSE Len(sent))
             looked == SelectSeq(taken, LAMBDA x : x.visible)
  <2>3. r = [i \in 1..Len(looked) |-> [item |-> m, level |-> Level(s),
                                     id |-> looked[i].id, kind |-> looked[i].kind]]
    BY <2>2, Zenon DEF Answered
  <2> HIDE DEF r, looked
  <2>4. PICK i \in DOMAIN r : e = r[i]
    BY <2>1 DEF ToSet
  <2>5. i \in 1..Len(looked)
    BY <2>3, <2>4
  <2> QED
    BY <2>3, <2>4, <2>5
<1> HIDE DEF r
<1>5. OfTheLevel(q)
  <2>1. q.menu = m /\ q.stack = s /\ q.entries = IF r = <<>> THEN Placeholder ELSE r
    BY <1>2
  <2> HIDE DEF q
  <2>2. CASE r = <<>>
    BY <2>1, <2>2, <1>3 DEF OfTheLevel
  <2>3. CASE r # <<>>
    BY <2>1, <2>3, <1>4 DEF OfTheLevel
  <2> QED
    BY <2>2, <2>3
<1> QED
  BY <1>2, <1>5

LEMMA MenuStarts == MenuInit(TRUE) => MenuIInv
<1> SUFFICES ASSUME MenuInit(TRUE) PROVE MenuIInv
  OBVIOUS
<1>1. MenuFields
  BY DEF MenuInit, MenuFields
<1>2. OfTheLevel(panel)
  <2>1. panel.entries = <<>>
    BY DEF MenuInit
  <2> QED
    BY <2>1 DEF OfTheLevel, ToSet
<1>3. PanelFollows /\ ChoiceMeans /\ SentAsMeant
  BY DEF MenuInit, PanelFollows, ChoiceMeans, SentAsMeant, NoResult
<1> QED
  BY <1>1, <1>2, <1>3 DEF MenuIInv

(* A click on an icon reads its menu from the top, whatever was shown.         *)
LEMMA ClickKeeps ==
  ASSUME MenuIInv, NEW item, ClickIcon(item)
  PROVE  MenuIInv'
<1> USE DEF MenuIInv
<1>1. PICK slow \in BOOLEAN : target' = SetTarget(item) /\ panel' = ModeInit(target', slow)
  BY DEF ClickIcon
<1>2. target' = [item |-> item, generation |-> target.generation + 1]
  BY <1>1 DEF SetTarget
<1>3. ~(panel.set /\ panel.generation = target'.generation)
  BY <1>2 DEF MenuFields, PanelFollows
<1> DEFINE fresh == [set |-> TRUE, menu |-> item, entries |-> <<>>, stack |-> <<>>,
                     generation |-> target.generation + 1]
<1>4. panel' = LoadLevel(fresh, slow)
  BY <1>1, <1>2, <1>3 DEF ModeInit
<1>5. /\ panel' = [set |-> TRUE, menu |-> item, entries |-> panel'.entries,
                   stack |-> <<>>, generation |-> target.generation + 1]
      /\ OfTheLevel(panel')
  <2> DEFINE g == target.generation + 1
             empty == <<>>
             p == [set |-> TRUE, menu |-> item, entries |-> empty, stack |-> empty,
                   generation |-> g]
             q == LoadLevel(p, slow)
  <2>1. panel' = q
    BY <1>4
  <2> HIDE DEF g, empty
  <2>2. /\ q = [set |-> TRUE, menu |-> item, entries |-> q.entries, stack |-> empty,
                generation |-> g]
        /\ OfTheLevel(q)
    BY LevelsRead
  <2> HIDE DEF q
  <2> QED
    BY <2>1, <2>2 DEF g, empty
<1>6. strip' = [strip EXCEPT !.result = [kind |-> "switch", line |-> 0], !.meant = NoRow]
  BY DEF ClickIcon
<1>7. clicked' = [clicked EXCEPT !.icon = item, !.clicks = @ + 1, !.path = <<>>,
                                 !.sent = NoRow]
  BY DEF ClickIcon
<1>8. MenuFields'
  <2>1. target' = [item |-> target'.item, generation |-> target'.generation]
        /\ target'.generation \in Int
    BY <1>2 DEF MenuFields
  <2>2. panel' = [set |-> panel'.set, menu |-> panel'.menu, entries |-> panel'.entries,
                  stack |-> panel'.stack, generation |-> panel'.generation]
    BY <1>5
  <2>3. strip' = [up |-> strip'.up, mode |-> strip'.mode, result |-> strip'.result,
                  rows |-> strip'.rows, meant |-> strip'.meant]
    BY <1>6 DEF MenuFields
  <2>4. clicked' = [icon |-> clicked'.icon, clicks |-> clicked'.clicks,
                    sent |-> clicked'.sent, meant |-> clicked'.meant,
                    path |-> clicked'.path]
    BY <1>7 DEF MenuFields
  <2> QED
    BY <2>1, <2>2, <2>3, <2>4 DEF MenuFields
<1>9. PanelFollows'
  BY <1>2, <1>5, <1>7 DEF MenuFields, PanelFollows
<1>10. ChoiceMeans'
  <2>1. strip'.result.kind = "switch"
    BY <1>6 DEF MenuFields
  <2> QED
    BY <2>1 DEF ChoiceMeans
<1>11. SentAsMeant'
  BY <1>7 DEF MenuFields, SentAsMeant
<1> QED
  BY <1>5, <1>8, <1>9, <1>10, <1>11

(* Keys and clicks on the view set a result; the panel stays.                  *)
LEMMA KeysKeep ==
  ASSUME MenuIInv, CycleModes \/ CancelMenu \/ \E n \in Int : ChooseRow(n)
  PROVE  MenuIInv'
<1> USE DEF MenuIInv
<1>1. UNCHANGED <<target, panel>> /\ clicked' = [clicked EXCEPT !.sent = NoRow]
  BY DEF CycleModes, CancelMenu, ChooseRow
<1>2. PICK res, row :
        /\ strip' = [strip EXCEPT !.result = res, !.meant = row]
        /\ res.kind = "ok" => row = EntryAt(panel, res.line)
  <2>1. CASE CycleModes
    <3>1. [kind |-> "next", line |-> 0].kind # "ok"
      OBVIOUS
    <3> QED
      BY <2>1, <3>1 DEF CycleModes
  <2>2. CASE CancelMenu
    <3>1. [kind |-> "cancel", line |-> 0].kind # "ok"
      OBVIOUS
    <3> QED
      BY <2>2, <3>1 DEF CancelMenu
  <2>3. CASE \E n \in Int : ChooseRow(n)
    <3>1. PICK n \in Int : ChooseRow(n)
      BY <2>3
    <3>2. [kind |-> "ok", line |-> n].line = n
      OBVIOUS
    <3> QED
      BY <3>1, <3>2 DEF ChooseRow
  <2> QED
    BY <2>1, <2>2, <2>3
<1>3. MenuFields'
  BY <1>1, <1>2 DEF MenuFields
<1>4. ChoiceMeans'
  <2>1. strip'.result = res /\ strip'.meant = row
    BY <1>2 DEF MenuFields
  <2>2. EntryAt(panel, res.line)' = EntryAt(panel, res.line)
    BY <1>1, <2>1 DEF EntryAt, HasUpRow, UpRow, NoRow
  <2> QED
    BY <1>1, <1>2, <2>1 DEF ChoiceMeans, EntryAt, HasUpRow
<1>5. OfTheLevel(panel)' /\ PanelFollows' /\ SentAsMeant'
  BY <1>1 DEF MenuFields, PanelFollows, SentAsMeant, OfTheLevel, Level
<1> QED
  BY <1>3, <1>4, <1>5

(* What the menu does with a choice: a level up or down is read anew, at the   *)
(* level the user went to; a row that is sent is the one that was chosen.      *)
LEMMA ChoiceKeeps ==
  ASSUME MenuIInv, ProcessChoice
  PROVE  MenuIInv'
<1> USE DEF MenuIInv
<1> DEFINE e == EntryAt(panel, strip.result.line)
<1>1. PICK slow \in BOOLEAN : GoUp(slow) \/ Descend(slow) \/ Refuse \/ Fire
  BY DEF ProcessChoice
<1>2. UNCHANGED target /\ strip.meant = e
  BY DEF ProcessChoice, ChoiceMeans
<1>3. ASSUME NEW s, panel' = LoadLevel([panel EXCEPT !.stack = s], slow),
             clicked' = [clicked EXCEPT !.path = s], strip' = ShowsMenu(panel')
      PROVE  MenuIInv'
  <2> DEFINE p == [set |-> panel.set, menu |-> panel.menu, entries |-> panel.entries,
                   stack |-> s, generation |-> panel.generation]
             q == LoadLevel(p, slow)
  <2>1. [panel EXCEPT !.stack = s] = p
    BY DEF MenuFields
  <2>2. panel' = q
    BY <1>3, <2>1
  <2>3. /\ q = [set |-> panel.set, menu |-> panel.menu, entries |-> q.entries,
                stack |-> s, generation |-> panel.generation]
        /\ OfTheLevel(q)
    BY LevelsRead
  <2> HIDE DEF q
  <2>4. /\ panel' = [set |-> panel.set, menu |-> panel.menu, entries |-> panel'.entries,
                     stack |-> s, generation |-> panel.generation]
        /\ OfTheLevel(panel')
    BY <2>2, <2>3
  <2> DEFINE many == NumRows(panel')
  <2>5. strip' = [strip EXCEPT !.mode = "menu", !.rows = many, !.result = NoResult]
    BY <1>3 DEF ShowsMenu
  <2> HIDE DEF many
  <2>6. MenuFields'
    <3>1. target' = [item |-> target'.item, generation |-> target'.generation]
          /\ target'.generation \in Int
      BY <1>2 DEF MenuFields
    <3>2. panel' = [set |-> panel'.set, menu |-> panel'.menu, entries |-> panel'.entries,
                    stack |-> panel'.stack, generation |-> panel'.generation]
      BY <2>4
    <3>3. strip' = [up |-> strip'.up, mode |-> strip'.mode, result |-> strip'.result,
                    rows |-> strip'.rows, meant |-> strip'.meant]
      BY <2>5 DEF MenuFields
    <3>4. clicked' = [icon |-> clicked'.icon, clicks |-> clicked'.clicks,
                      sent |-> clicked'.sent, meant |-> clicked'.meant,
                      path |-> clicked'.path]
      BY <1>3 DEF MenuFields
    <3> QED
      BY <3>1, <3>2, <3>3, <3>4 DEF MenuFields
  <2>7. PanelFollows'
    BY <1>2, <1>3, <2>4 DEF MenuFields, PanelFollows
  <2>8. ChoiceMeans'
    <3>1. strip'.result.kind = "none"
      BY <2>5 DEF MenuFields, NoResult
    <3> QED
      BY <3>1 DEF ChoiceMeans
  <2>9. SentAsMeant'
    BY <1>3 DEF MenuFields, SentAsMeant
  <2> QED
    BY <2>4, <2>6, <2>7, <2>8, <2>9
<1>4. ASSUME UNCHANGED <<panel, clicked>>, strip' = Closed \/ strip' = ShowsMenu(panel)
      PROVE  MenuIInv'
  <2> DEFINE many == NumRows(panel)
  <2>1. \/ strip' = [strip EXCEPT !.up = FALSE, !.result = NoResult]
        \/ strip' = [strip EXCEPT !.mode = "menu", !.rows = many, !.result = NoResult]
    BY <1>4 DEF Closed, ShowsMenu
  <2> HIDE DEF many
  <2>2. strip' = [up |-> strip'.up, mode |-> strip'.mode, result |-> strip'.result,
                  rows |-> strip'.rows, meant |-> strip'.meant]
        /\ strip'.result.kind = "none"
    <3>1. CASE strip' = [strip EXCEPT !.up = FALSE, !.result = NoResult]
      BY <3>1 DEF MenuFields, NoResult
    <3>2. CASE strip' = [strip EXCEPT !.mode = "menu", !.rows = many, !.result = NoResult]
      BY <3>2 DEF MenuFields, NoResult
    <3> QED
      BY <2>1, <3>1, <3>2
  <2>3. MenuFields' /\ ChoiceMeans'
    BY <1>2, <1>4, <2>2 DEF MenuFields, ChoiceMeans
  <2> QED
    BY <1>2, <1>4, <2>3 DEF OfTheLevel, PanelFollows, SentAsMeant, Level
<1>5. CASE GoUp(slow)
  <2>1. CASE HasUpRow(panel)
    <3> DEFINE s == Front(panel.stack)
    <3>1. panel' = LoadLevel([panel EXCEPT !.stack = s], slow)
      BY <1>5, <2>1 DEF GoUp, Higher
    <3>2. clicked' = [clicked EXCEPT !.path = s]
      BY <1>5, <2>1 DEF GoUp, HasUpRow, PanelFollows
    <3>3. strip' = ShowsMenu(panel')
      BY <1>5, <2>1 DEF GoUp
    <3> HIDE DEF s
    <3> QED
      BY <1>3, <3>1, <3>2, <3>3
  <2>2. CASE ~HasUpRow(panel)
    BY <1>4, <1>5, <2>2 DEF GoUp
  <2> QED
    BY <2>1, <2>2
<1>6. CASE Descend(slow)
  <2> DEFINE s == Append(panel.stack, e.id)
  <2>1. panel' = LoadLevel([panel EXCEPT !.stack = s], slow)
    BY <1>6 DEF Descend, Deeper
  <2>2. clicked' = [clicked EXCEPT !.path = s]
    BY <1>2, <1>6 DEF Descend, PanelFollows
  <2>3. strip' = ShowsMenu(panel')
    BY <1>6 DEF Descend
  <2> HIDE DEF s
  <2> QED
    BY <1>3, <2>1, <2>2, <2>3
<1>7. CASE Refuse
  BY <1>4, <1>7 DEF Refuse
<1>8. CASE Fire
  <2> HIDE DEF e
  <2>1. clicked' = [clicked EXCEPT !.sent = e, !.meant = strip.meant] /\ UNCHANGED panel
        /\ strip' = Closed
    BY <1>8 DEF Fire, e
  <2>2. strip' = [strip EXCEPT !.up = FALSE, !.result = NoResult]
    BY <2>1 DEF Closed
  <2>3. strip' = [up |-> strip'.up, mode |-> strip'.mode, result |-> strip'.result,
                  rows |-> strip'.rows, meant |-> strip'.meant]
        /\ strip'.result.kind = "none"
    BY <2>2 DEF MenuFields, NoResult
  <2>4. clicked' = [icon |-> clicked.icon, clicks |-> clicked.clicks, sent |-> e,
                    meant |-> e, path |-> clicked.path]
    BY <1>2, <2>1 DEF MenuFields
  <2>5. MenuFields' /\ ChoiceMeans'
    BY <1>2, <2>1, <2>3, <2>4 DEF MenuFields, ChoiceMeans
  <2>6. PanelFollows' /\ SentAsMeant' /\ OfTheLevel(panel)'
    BY <1>2, <2>1, <2>4 DEF PanelFollows, SentAsMeant, OfTheLevel, Level
  <2> QED
    BY <2>5, <2>6
<1> QED
  BY <1>1, <1>5, <1>6, <1>7, <1>8

LEMMA SwitchKeeps ==
  ASSUME MenuIInv, ProcessSwitch
  PROVE  MenuIInv'
<1> USE DEF MenuIInv
<1> DEFINE many == NumRows(panel)
<1>1. UNCHANGED <<target, panel, clicked>>
  BY DEF ProcessSwitch
<1>2. \/ strip' = [strip EXCEPT !.up = FALSE, !.result = NoResult]
      \/ strip' = [strip EXCEPT !.mode = "strip", !.result = NoResult]
      \/ strip' = [strip EXCEPT !.mode = "menu", !.rows = many, !.result = NoResult]
  BY DEF ProcessSwitch, Closed, ShowsMenu
<1> HIDE DEF many
<1>3. strip' = [up |-> strip'.up, mode |-> strip'.mode, result |-> strip'.result,
                rows |-> strip'.rows, meant |-> strip'.meant]
      /\ strip'.result.kind = "none"
  <2>1. CASE strip' = [strip EXCEPT !.up = FALSE, !.result = NoResult]
    BY <2>1 DEF MenuFields, NoResult
  <2>2. CASE strip' = [strip EXCEPT !.mode = "strip", !.result = NoResult]
    BY <2>2 DEF MenuFields, NoResult
  <2>3. CASE strip' = [strip EXCEPT !.mode = "menu", !.rows = many, !.result = NoResult]
    BY <2>3 DEF MenuFields, NoResult
  <2> QED
    BY <1>2, <2>1, <2>2, <2>3
<1>4. MenuFields' /\ ChoiceMeans'
  BY <1>1, <1>3 DEF MenuFields, ChoiceMeans
<1> QED
  BY <1>1, <1>4 DEF OfTheLevel, PanelFollows, SentAsMeant, Level

(* The rows of the menu are the clicked icon's, at the level the user went to, *)
(* and a row is sent only as it was chosen, for any icons, menus, depths and   *)
(* clicks, however they mix with a leaving panel (tray-menu.c:65-73, 99-107).  *)
THEOREM MenusKept == MenuSpec => []MenuIsTheIcons
<1>1. MenuInit(TRUE) => MenuIInv
  BY MenuStarts
<1>2. MenuIInv /\ [MenuNext]_menuVars => MenuIInv'
  <2> SUFFICES ASSUME MenuIInv, [MenuNext]_menuVars PROVE MenuIInv'
    OBVIOUS
  <2>1. ASSUME NEW i \in Items, ClickIcon(i) PROVE MenuIInv'
    BY <2>1, ClickKeeps
  <2>2. ASSUME UNCHANGED <<target, panel, strip, clicked>> PROVE MenuIInv'
    BY <2>2 DEF MenuIInv, MenuFields, OfTheLevel, PanelFollows, ChoiceMeans,
      SentAsMeant, Level, EntryAt, HasUpRow
  <2>3. ASSUME NEW i \in Items, Republish(i) PROVE MenuIInv'
    BY <2>2, <2>3 DEF Republish
  <2>4. ASSUME NEW n \in Int, ChooseRow(n) PROVE MenuIInv'
    BY <2>4, KeysKeep
  <2>5. ASSUME CycleModes \/ CancelMenu PROVE MenuIInv'
    BY <2>5, KeysKeep
  <2>6. ASSUME ProcessChoice PROVE MenuIInv'
    BY <2>6, ChoiceKeeps
  <2>7. ASSUME ProcessSwitch PROVE MenuIInv'
    BY <2>7, SwitchKeeps
  <2>8. ASSUME UNCHANGED menuVars PROVE MenuIInv'
    BY <2>2, <2>8 DEF menuVars
  <2>9. \A n \in 1..(MaxRows + 1) : n \in Int
    OBVIOUS
  <2> QED
    BY <2>1, <2>3, <2>4, <2>5, <2>6, <2>7, <2>8, <2>9 DEF MenuNext
<1>3. MenuIInv => MenuIsTheIcons
  BY DEF MenuIInv, OfTheLevel, PanelFollows, SentAsMeant, MenuIsTheIcons
<1> QED
  BY <1>1, <1>2, <1>3, PTL DEF MenuSpec
--------------------------------------------------------------------------------
(* The history of launches. *)

HistorySpec == HistoryInit(TRUE) /\ [][HistoryNext]_historyVars

HistoryPlaces == {"idle", "opening", "writing", "renaming", "truncating", "rewriting"}

(* Lists are sequences, of whatever lines. *)
IsList(s) == s \in Seq({s[i] : i \in DOMAIN s})
FilesTyped ==
  /\ file \in Inodes \cup {NoFile} /\ temp \in Inodes \cup {NoFile}
  /\ content = [i \in Inodes |-> content[i]] /\ \A i \in Inodes : IsList(content[i])
LauncherTyped(r) ==
  /\ r = [at |-> r.at, list |-> r.list, inode |-> r.inode, shared |-> r.shared]
  /\ r.at \in HistoryPlaces /\ IsList(r.list)
  /\ r.inode \in Inodes \cup {NoFile} /\ r.shared \in BOOLEAN
LaunchersTyped ==
  /\ launcher = [l \in Launchers |-> launcher[l]]
  /\ \A l \in Launchers : LauncherTyped(launcher[l])

(* The temporary file is never the file, and a launcher has none open before   *)
(* it opens it, so that there is always an inode left.                         *)
TempApart == temp # NoFile => temp # file
NoneOpen == \A l \in Launchers : launcher[l].at \in {"idle", "opening"} => launcher[l].inode = NoFile

(* A launcher that shares the files with nobody is the only one at them, and   *)
(* what it has done is one launch more of what is recorded.                    *)
Alone(l) == launcher[l].at # "idle" /\ ~launcher[l].shared
AloneMeans == \A l \in Launchers : Alone(l) => Others(l) = {}
OneMore(book) == \E e \in Entries : book = Counted(Recorded, e)
OneMoreWritten(texts) == \E e \in Entries : texts = Written(Counted(Recorded, e))
HasCounted ==
  \A l \in Launchers : Alone(l) =>
    /\ launcher[l].at \in {"opening", "writing"} => OneMore(launcher[l].list)
    /\ launcher[l].at = "writing" =>
         temp # NoFile /\ launcher[l].inode = temp /\ content[temp] = <<>>
    /\ launcher[l].at = "renaming" => temp # NoFile /\ OneMoreWritten(content[temp])

HistoryIInv ==
  FilesTyped /\ LaunchersTyped /\ TempApart /\ NoneOpen /\ AloneMeans /\ HasCounted

LEMMA ListMade ==
  ASSUME NEW n \in Nat, NEW s, s = [i \in 1..n |-> s[i]]
  PROVE  IsList(s) /\ Len(s) = n /\ DOMAIN s = 1..n
<1>1. DOMAIN s = 1..n
  OBVIOUS
<1>2. s \in [1..n -> {s[i] : i \in DOMAIN s}]
  BY <1>1
<1>3. s \in Seq({s[i] : i \in DOMAIN s})
  BY <1>2, SeqDef
<1>4. Len(s) = n
  BY <1>1, <1>3, LenProperties
<1> QED BY <1>1, <1>3, <1>4 DEF IsList

LEMMA ListIs ==
  ASSUME NEW s, IsList(s)
  PROVE  Len(s) \in Nat /\ DOMAIN s = 1..Len(s) /\ s = [i \in 1..Len(s) |-> s[i]]
BY LenProperties DEF IsList

LEMMA ListOver ==
  ASSUME NEW s, IsList(s), NEW T, \A i \in DOMAIN s : s[i] \in T PROVE s \in Seq(T)
<1>1. Len(s) \in Nat /\ DOMAIN s = 1..Len(s) /\ s = [i \in 1..Len(s) |-> s[i]]
  BY ListIs
<1>2. s \in [1..Len(s) -> T]
  BY <1>1
<1> QED BY <1>1, <1>2, SeqDef

LEMMA ListIn == ASSUME NEW T, NEW s \in Seq(T) PROVE IsList(s)
<1>1. Len(s) \in Nat /\ s = [i \in 1..Len(s) |-> s[i]]
  BY LenProperties
<1> QED BY <1>1, ListMade

LEMMA NoList == IsList(<<>>) /\ Len(<<>>) = 0
<1>1. <<>> \in Seq({}) /\ Len(<<>>) = 0
  BY EmptySeq
<1> QED BY <1>1, ListIn

LEMMA CountedIsList == ASSUME NEW s, IsList(s), NEW e PROVE IsList(Counted(s, e))
<1>1. CASE Place(s, e) = {}
  <2> DEFINE x == [name |-> e, count |-> 1]
             T == {s[i] : i \in DOMAIN s} \cup {x}
  <2>1. s \in Seq(T)
    BY ListOver
  <2>2. Append(s, x) \in Seq(T)
    BY <2>1, AppendProperties
  <2>3. IsList(Append(s, x))
    BY <2>2, ListIn
  <2> QED BY <1>1, <2>3 DEF Counted
<1>2. CASE Place(s, e) # {}
  <2> DEFINE c == Counted(s, e)
  <2>1. Len(s) \in Nat /\ DOMAIN s = 1..Len(s)
    BY ListIs
  <2>2. c = [i \in 1..Len(s) |->
          IF i \in Place(s, e) THEN [s[i] EXCEPT !.count = @ + 1] ELSE s[i]]
    BY <1>2, <2>1, Zenon DEF Counted
  <2>3. c = [i \in 1..Len(s) |-> c[i]]
    BY <2>2
  <2> HIDE DEF c
  <2> QED BY <2>1, <2>3, ListMade DEF c
<1> QED BY <1>1, <1>2

LEMMA WrittenIsList ==
  ASSUME HistoryAssumption, NEW s, IsList(s) PROVE IsList(Written(s))
<1> DEFINE all == Sorted(s)
<1>1. Len(s) \in Nat /\ DOMAIN s = 1..Len(s)
  BY ListIs
<1>2. all = [i \in 1..Len(s) |-> all[i]]
  BY <1>1 DEF Sorted
<1> HIDE DEF all
<1>3. Len(all) = Len(s)
  BY <1>1, <1>2, ListMade
<1> DEFINE kept == IF Len(all) > MaxSize THEN MaxSize ELSE Len(all)
           w == [k \in 1..kept |-> [all[k] EXCEPT !.count = @ - all[Len(all)].count]]
<1>4. kept \in Nat
  BY <1>1, <1>3 DEF HistoryAssumption
<1>5. w = [k \in 1..kept |-> w[k]]
  OBVIOUS
<1>6. Written(s) = w
  BY DEF Written, all
<1> HIDE DEF kept, w
<1> QED BY <1>4, <1>5, <1>6, ListMade

LEMMA WithoutIsList ==
  ASSUME NEW s, IsList(s), NEW e, Place(s, e) # {} PROVE IsList(WithoutEntry(s, e))
<1>1. Len(s) \in Nat /\ DOMAIN s = 1..Len(s)
  BY ListIs
<1>2. Len(s) - 1 \in Nat
  BY <1>1 DEF Place
<1> DEFINE w == WithoutEntry(s, e)
<1>3. w = [i \in 1..(Len(s) - 1) |-> w[i]]
  BY DEF WithoutEntry
<1> HIDE DEF w
<1> QED BY <1>2, <1>3, ListMade DEF w

(* What is written over a list is a list; over nothing, it is what is written. *)
LEMMA OverwrittenIsList ==
  ASSUME NEW old, IsList(old), NEW new, IsList(new) PROVE IsList(Overwritten(old, new))
<1> DEFINE T == {old[i] : i \in DOMAIN old} \cup {new[i] : i \in DOMAIN new}
<1>1. old \in Seq(T) /\ new \in Seq(T)
  BY ListOver
<1> HIDE DEF T
<1>2. Len(old) \in Nat /\ Len(new) \in Nat
  BY <1>1, LenProperties
<1>3. CASE Len(old) > Len(new)
  <2>1. SubSeq(old, Len(new) + 1, Len(old)) \in Seq(T)
    <3>1. \A i \in (Len(new) + 1)..Len(old) : old[i] \in T
      BY <1>1, <1>2, LenProperties
    <3> QED BY <1>2, <3>1, SubSeqProperties
  <2>2. new \o SubSeq(old, Len(new) + 1, Len(old)) \in Seq(T)
    BY <1>1, <2>1, ConcatProperties
  <2> QED BY <1>3, <2>2, ListIn DEF Overwritten
<1>4. CASE ~(Len(old) > Len(new))
  BY <1>4 DEF Overwritten
<1> QED BY <1>3, <1>4

LEMMA OverNothing ==
  ASSUME NEW new, IsList(new) PROVE Overwritten(<<>>, new) = new
BY ListIs, NoList DEF Overwritten

LEMMA BeginningIsList ==
  ASSUME NEW s, IsList(s), NEW n \in 0..Len(s) PROVE IsList(SubSeq(s, 1, n))
<1> DEFINE T == {s[i] : i \in DOMAIN s}
<1>1. s \in Seq(T) /\ Len(s) \in Nat
  BY ListOver, ListIs
<1>2. SubSeq(s, 1, n) \in Seq(T)
  BY <1>1, SubSeqProperties
<1> QED BY <1>2, ListIn

(* There is always an inode left for a launcher to open. *)
LEMMA InodeLeft ==
  ASSUME HistoryAssumption, LaunchersTyped, temp = NoFile
  PROVE  /\ Unused \in Inodes
         /\ Unused \notin {file, temp} \cup {launcher[o].inode : o \in Launchers}
<1> DEFINE open == {launcher[o].inode : o \in Launchers}
           N == Cardinality(Launchers)
<1>1. IsFiniteSet(open) /\ Cardinality(open) <= N /\ Cardinality(open) \in Nat /\ N \in Nat
  <2>1. IsFiniteSet(Launchers)
    BY DEF HistoryAssumption
  <2>2. IsFiniteSet(open) /\ Cardinality(open) <= N
    <3> DEFINE f == [o \in Launchers |-> launcher[o].inode]
    <3>1. f \in [Launchers -> open] /\ \A i \in open : \E o \in Launchers : f[o] = i
      OBVIOUS
    <3>2. f \in Surjection(Launchers, open)
      BY <3>1, Fun_IsSurj
    <3> QED BY <2>1, <3>2, FS_Surjection
  <2> QED BY <2>1, <2>2, FS_CardinalityType
<1>2. IsFiniteSet(open \cup {file}) /\ Cardinality(open \cup {file}) <= N + 1
      /\ Cardinality(open \cup {file}) \in Nat
  <2>1. IsFiniteSet(open \cup {file})
        /\ Cardinality(open \cup {file}) \in {Cardinality(open), Cardinality(open) + 1}
    BY <1>1, FS_AddElement
  <2> HIDE DEF open, N
  <2> QED BY <1>1, <2>1
<1>3. Cardinality(Inodes) = N + 2
  <2>1. 1 \in Int /\ N + 2 \in Int /\ 1 <= N + 2
    BY <1>1
  <2>2. Cardinality(1..(N + 2)) = N + 2
    <3> HIDE DEF N
    <3>1. Cardinality(1..(N + 2)) = IF 1 > N + 2 THEN 0 ELSE (N + 2) - 1 + 1
      BY <2>1, FS_Interval
    <3> QED BY <1>1, <3>1
  <2> QED BY <2>2 DEF Inodes
<1>4. ~(Inodes \subseteq open \cup {file})
  <2> SUFFICES ASSUME Inodes \subseteq open \cup {file} PROVE FALSE
    OBVIOUS
  <2>1. Cardinality(Inodes) <= Cardinality(open \cup {file})
    <3> HIDE DEF open
    <3> QED BY <1>2, FS_Subset
  <2> HIDE DEF open, N
  <2> QED BY <1>1, <1>2, <1>3, <2>1
<1>5. \E i \in Inodes : i \notin {file, temp} \cup open
  <2>1. temp \notin Inodes
    <3>1. N + 2 \in Int
      BY <1>1
    <3> QED BY <3>1 DEF Inodes, NoFile
  <2> QED BY <1>4, <2>1
<1> QED BY <1>5 DEF Unused

(* What a step of launcher l, which was at the files, means for whoever is     *)
(* there.                                                                      *)
LEMMA MoverAlone ==
  ASSUME LaunchersTyped, AloneMeans, NoneOpen,
         NEW l \in Launchers, launcher[l].at # "idle",
         NEW r, LauncherTyped(r), r.shared = launcher[l].shared \/ r.at = "idle",
         r.at \in {"idle", "opening"} => r.inode = NoFile,
         launcher' = [launcher EXCEPT ![l] = r]
  PROVE  /\ LaunchersTyped' /\ AloneMeans' /\ NoneOpen'
         /\ launcher'[l] = r
         /\ \A o \in Launchers \ {l} : launcher'[o] = launcher[o] /\ ~Alone(o)'
         /\ Alone(l)' => Alone(l)
<1>1. /\ launcher' = [o \in Launchers |-> launcher'[o]] /\ launcher'[l] = r
      /\ \A o \in Launchers \ {l} : launcher'[o] = launcher[o]
  BY DEF LaunchersTyped
<1>2. LaunchersTyped'
  BY <1>1 DEF LaunchersTyped, LauncherTyped
<1>3. NoneOpen'
  BY <1>1 DEF NoneOpen
<1>4. \A o \in Launchers \ {l} : ~Alone(o) /\ ~Alone(o)'
  <2> TAKE o \in Launchers \ {l}
  <2>1. l \in Others(o)
    BY DEF Others
  <2>2. ~Alone(o)
    BY <2>1 DEF AloneMeans
  <2> QED BY <1>1, <2>2 DEF Alone
<1>5. Alone(l)' => Alone(l)
  BY <1>1 DEF Alone
<1>6. AloneMeans'
  <2> SUFFICES ASSUME NEW o \in Launchers, Alone(o)' PROVE Others(o)' = {}
    BY DEF AloneMeans
  <2>1. o = l
    BY <1>4
  <2>2. Others(l) = {}
    BY <1>5, <2>1 DEF AloneMeans
  <2> QED BY <1>1, <2>1, <2>2 DEF Others
<1> QED BY <1>1, <1>2, <1>3, <1>4, <1>5, <1>6

(* The body of the property, of one step. *)
OneCounted ==
  \A l \in Launchers :
    launcher'[l] # launcher[l] /\ ~launcher[l].shared
    /\ launcher[l].at \notin {"truncating", "rewriting"}
    => \/ Recorded' = Recorded
       \/ \E e \in Entries : Recorded' = Written(Counted(Recorded, e))

LEMMA RecordedSame ==
  ASSUME file' = file, file # NoFile => content'[file] = content[file]
  PROVE  Recorded' = Recorded
BY DEF Recorded

LEMMA RecordedIsList == ASSUME FilesTyped PROVE IsList(Recorded)
BY NoList DEF FilesTyped, Recorded

LEMMA BegunFields ==
  ASSUME NEW at, NEW book, NEW b
  PROVE  [Resting EXCEPT !.at = at, !.list = book, !.shared = b]
         = [at |-> at, list |-> book, inode |-> NoFile, shared |-> b]
<1>1. PICK w, x, y, z : /\ Resting = [at |-> w, list |-> x, inode |-> y, shared |-> z]
                        /\ y = NoFile
  BY DEF Resting
<1> DEFINE s == [Resting EXCEPT !.at = at]
           t == [s EXCEPT !.list = book]
<1>2. s = [at |-> at, list |-> x, inode |-> y, shared |-> z]
  BY <1>1
<1> HIDE DEF s
<1>3. t = [at |-> at, list |-> book, inode |-> y, shared |-> z]
  BY <1>2
<1> HIDE DEF t
<1>4. [t EXCEPT !.shared = b] = [at |-> at, list |-> book, inode |-> y, shared |-> b]
  BY <1>3
<1> QED BY <1>1, <1>4 DEF s, t

(* Whoever begins finds the files as they are, and is alone if nobody else is  *)
(* at them; nobody else is alone from then on.                                 *)
LEMMA BeginKept ==
  ASSUME HistoryIInv, NEW l \in Launchers, launcher[l].at = "idle",
         NEW at \in {"opening", "truncating"}, NEW book, IsList(book),
         at = "opening" => OneMore(book),
         Begin(l, at, book), UNCHANGED <<file, temp, content>>
  PROVE  HistoryIInv' /\ OneCounted
<1> DEFINE busy(o) == launcher[o].at # "idle"
           b == Others(l) # {}
           r == [Resting EXCEPT !.at = at, !.list = book, !.shared = b]
           s(o) == [launcher[o] EXCEPT !.shared = busy(o)]
<1>0. launcher' = [o \in Launchers |-> IF o = l THEN r ELSE s(o)]
  BY DEF Begin
<1>00. /\ b \in BOOLEAN /\ (~b => Others(l) = {})
       /\ \A o : busy(o) \in BOOLEAN /\ (~busy(o) => launcher[o].at = "idle")
  <2>1. b \in BOOLEAN /\ (~b => Others(l) = {})
    BY SMT
  <2>2. ASSUME NEW o PROVE busy(o) \in BOOLEAN /\ (~busy(o) => launcher[o].at = "idle")
    BY SMT
  <2> QED BY <2>1, <2>2
<1> HIDE DEF busy, b
<1>1. r = [at |-> at, list |-> book, inode |-> NoFile, shared |-> b]
  BY BegunFields, Zenon
<1>2. \A o \in Launchers :
        s(o) = [at |-> launcher[o].at, list |-> launcher[o].list,
                inode |-> launcher[o].inode, shared |-> busy(o)]
  BY DEF HistoryIInv, LaunchersTyped, LauncherTyped
<1> HIDE DEF r, s
<1>3. /\ launcher'[l] = r /\ launcher' = [o \in Launchers |-> launcher'[o]]
      /\ \A o \in Launchers \ {l} : launcher'[o] = s(o)
  BY <1>0
<1>4. LaunchersTyped'
  <2>1. LauncherTyped(r)
    BY <1>1, <1>00 DEF LauncherTyped, HistoryPlaces
  <2>2. \A o \in Launchers : LauncherTyped(s(o))
    <3> TAKE o \in Launchers
    <3>1. LauncherTyped(launcher[o])
      BY DEF HistoryIInv, LaunchersTyped
    <3> QED BY <1>2, <1>00, <3>1 DEF LauncherTyped
  <2> QED BY <1>3, <2>1, <2>2 DEF LaunchersTyped, LauncherTyped
<1>5. NoneOpen'
  <2> SUFFICES ASSUME NEW o \in Launchers, launcher'[o].at \in {"idle", "opening"}
               PROVE  launcher'[o].inode = NoFile
    BY DEF NoneOpen
  <2>1. CASE o = l
    BY <1>1, <1>3, <2>1
  <2>2. CASE o # l
    BY <1>2, <1>3, <2>2 DEF HistoryIInv, NoneOpen
  <2> QED BY <2>1, <2>2
<1>6. \A o \in Launchers : Alone(o)' => o = l /\ Others(l) = {}
  <2> SUFFICES ASSUME NEW o \in Launchers, Alone(o)' PROVE o = l /\ Others(l) = {}
    OBVIOUS
  <2>1. o = l
    BY <1>2, <1>3, <1>00 DEF Alone
  <2> QED BY <1>1, <1>3, <1>00, <2>1 DEF Alone
<1>7. AloneMeans'
  <2> SUFFICES ASSUME NEW o \in Launchers, Alone(o)' PROVE Others(o)' = {}
    BY DEF AloneMeans
  <2>1. o = l /\ Others(l) = {}
    BY <1>6
  <2>2. \A p \in Launchers \ {l} : launcher'[p].at = "idle"
    BY <1>2, <1>3, <2>1 DEF Others
  <2> QED BY <2>1, <2>2 DEF Others
<1>8. Recorded' = Recorded
  BY DEF Recorded
<1>9. HasCounted'
  <2> SUFFICES ASSUME NEW o \in Launchers, Alone(o)'
               PROVE  /\ launcher'[o].at \in {"opening", "writing"} =>
                           OneMore(launcher[o].list)'
                      /\ launcher'[o].at \notin {"writing", "renaming"}
    BY DEF HasCounted
  <2>1. o = l
    BY <1>6
  <2>2. launcher'[l].at = at /\ launcher'[l].list = book
    BY <1>1, <1>3
  <2>3. at = "opening" => OneMore(launcher[l].list)'
    BY <1>8, <2>2 DEF OneMore
  <2> QED BY <2>1, <2>2, <2>3
<1>10. FilesTyped' /\ TempApart'
  BY DEF HistoryIInv, FilesTyped, TempApart
<1> QED BY <1>4, <1>5, <1>7, <1>8, <1>9, <1>10 DEF HistoryIInv, OneCounted

LEMMA LaunchKept ==
  ASSUME HistoryIInv, NEW l \in Launchers, NEW e \in Entries, Launch(l, e)
  PROVE  HistoryIInv' /\ OneCounted
<1>1. IsList(Counted(Recorded, e)) /\ OneMore(Counted(Recorded, e))
  BY RecordedIsList, CountedIsList DEF HistoryIInv, OneMore
<1>2. /\ launcher[l].at = "idle" /\ Begin(l, "opening", Counted(Recorded, e))
      /\ UNCHANGED <<file, temp, content>>
  BY DEF Launch
<1> DEFINE book == Counted(Recorded, e)
<1> HIDE DEF book
<1> QED BY <1>1, <1>2, BeginKept DEF book

LEMMA RemoveKept ==
  ASSUME HistoryIInv, NEW l \in Launchers, NEW e \in Entries, RemoveEntry(l, e)
  PROVE  HistoryIInv' /\ OneCounted
<1>1. IsList(WithoutEntry(Recorded, e))
  BY RecordedIsList, WithoutIsList DEF HistoryIInv, RemoveEntry
<1>2. /\ launcher[l].at = "idle" /\ Begin(l, "truncating", WithoutEntry(Recorded, e))
      /\ UNCHANGED <<file, temp, content>>
  BY DEF RemoveEntry
<1> DEFINE book == WithoutEntry(Recorded, e)
<1> HIDE DEF book
<1> QED BY <1>1, <1>2, BeginKept DEF book

MovesTo(l, a, i) == launcher' = [launcher EXCEPT ![l].at = a, ![l].inode = i]
LEMMA LauncherMoved ==
  ASSUME LaunchersTyped, NEW l \in Launchers, NEW a \in HistoryPlaces,
         NEW i \in Inodes \cup {NoFile},
         MovesTo(l, a, i)
  PROVE  \E r : /\ LauncherTyped(r) /\ launcher' = [launcher EXCEPT ![l] = r]
                /\ r.at = a /\ r.list = launcher[l].list /\ r.inode = i
                /\ r.shared = launcher[l].shared
<1> DEFINE was == launcher[l]
           s == [was EXCEPT !.at = a]
           r == [s EXCEPT !.inode = i]
<1>1. was = [at |-> was.at, list |-> was.list, inode |-> was.inode, shared |-> was.shared]
      /\ IsList(was.list) /\ was.shared \in BOOLEAN
  BY DEF LaunchersTyped, LauncherTyped
<1>2. launcher' = [launcher EXCEPT ![l] = r]
  BY DEF LaunchersTyped, MovesTo
<1> HIDE DEF was
<1>3. s = [at |-> a, list |-> was.list, inode |-> was.inode, shared |-> was.shared]
  BY <1>1
<1> HIDE DEF s
<1>4. r = [at |-> a, list |-> was.list, inode |-> i, shared |-> was.shared]
  BY <1>3
<1> HIDE DEF r
<1>5. /\ r = [at |-> r.at, list |-> r.list, inode |-> r.inode, shared |-> r.shared]
      /\ r.at = a /\ r.list = was.list /\ r.inode = i /\ r.shared = was.shared
  BY <1>4
<1>6. LauncherTyped(r)
  BY <1>1, <1>5 DEF LauncherTyped
<1> QED BY <1>2, <1>5, <1>6 DEF was

LEMMA RestingTyped ==
  LauncherTyped(Resting) /\ Resting.at = "idle" /\ Resting.inode = NoFile
BY NoList DEF Resting, LauncherTyped, HistoryPlaces

(* The temporary file is opened empty, apart from the file.                    *)
LEMMA OpeningKept ==
  ASSUME HistoryAssumption, HistoryIInv, NEW l \in Launchers, OpenTmp(l)
  PROVE  HistoryIInv' /\ OneCounted
<1> DEFINE i == IF temp = NoFile THEN Unused ELSE temp
<1>1. i \in Inodes /\ i # file /\ i # NoFile
  <2>1. CASE temp = NoFile
    <3>1. Unused \in Inodes /\ Unused # file /\ Unused # temp
      BY <2>1, InodeLeft DEF HistoryIInv
    <3> QED BY <2>1, <3>1
  <2>2. CASE temp # NoFile
    BY <2>2 DEF HistoryIInv, FilesTyped, TempApart
  <2> QED BY <2>1, <2>2
<1>2. /\ launcher[l].at = "opening" /\ temp' = i /\ content' = [content EXCEPT ![i] = <<>>]
      /\ MovesTo(l, "writing", i) /\ file' = file
  BY DEF OpenTmp, MovesTo
<1> HIDE DEF i
<1>3. PICK r : /\ LauncherTyped(r) /\ launcher' = [launcher EXCEPT ![l] = r]
               /\ r.at = "writing" /\ r.list = launcher[l].list /\ r.inode = i
               /\ r.shared = launcher[l].shared
  BY <1>1, <1>2, LauncherMoved DEF HistoryIInv, HistoryPlaces
<1>4. /\ LaunchersTyped' /\ AloneMeans' /\ NoneOpen' /\ launcher'[l] = r
      /\ \A o \in Launchers \ {l} : launcher'[o] = launcher[o] /\ ~Alone(o)'
      /\ Alone(l)' => Alone(l)
  BY <1>2, <1>3, MoverAlone DEF HistoryIInv
<1>5. FilesTyped' /\ TempApart' /\ content'[i] = <<>>
      /\ (file # NoFile => content'[file] = content[file])
  BY <1>1, <1>2, NoList DEF HistoryIInv, FilesTyped, TempApart
<1>6. Recorded' = Recorded
  BY <1>2, <1>5, RecordedSame
<1>7. HasCounted'
  <2> SUFFICES ASSUME Alone(l)'
               PROVE  OneMore(launcher[l].list)'
    BY <1>1, <1>2, <1>3, <1>4, <1>5 DEF HasCounted
  <2>1. OneMore(launcher[l].list)
    BY <1>2, <1>4 DEF HistoryIInv, HasCounted
  <2> QED BY <1>3, <1>4, <1>6, <2>1 DEF OneMore
<1>8. OneCounted
  BY <1>6 DEF OneCounted
<1> QED BY <1>4, <1>5, <1>7, <1>8 DEF HistoryIInv

(* What is written of it lands in a file nobody reads yet.                     *)
LEMMA WriteTmpKept ==
  ASSUME HistoryAssumption, HistoryIInv, NEW l \in Launchers, WriteTmp(l)
  PROVE  HistoryIInv' /\ OneCounted
<1> DEFINE i == launcher[l].inode
           new == Written(launcher[l].list)
<1>1. IsList(new) /\ i \in Inodes \cup {NoFile}
  BY WrittenIsList DEF HistoryIInv, LaunchersTyped, LauncherTyped
<1>2. /\ launcher[l].at = "writing" /\ temp' = temp /\ file' = file
      /\ content' = [content EXCEPT ![i] = Overwritten(content[i], new)]
      /\ MovesTo(l, "renaming", NoFile)
  BY DEF WriteTmp, MovesTo
<1>3. PICK r : /\ LauncherTyped(r) /\ launcher' = [launcher EXCEPT ![l] = r]
               /\ r.at = "renaming" /\ r.list = launcher[l].list /\ r.inode = NoFile
               /\ r.shared = launcher[l].shared
  BY <1>2, LauncherMoved DEF HistoryIInv, HistoryPlaces
<1>4. /\ LaunchersTyped' /\ AloneMeans' /\ NoneOpen' /\ launcher'[l] = r
      /\ \A o \in Launchers \ {l} : launcher'[o] = launcher[o] /\ ~Alone(o)'
      /\ Alone(l)' => Alone(l)
  BY <1>2, <1>3, MoverAlone DEF HistoryIInv
<1>5. FilesTyped' /\ TempApart'
  <2>1. \A j \in Inodes : IsList(content'[j])
    <3> TAKE j \in Inodes
    <3> HIDE DEF new
    <3>1. IsList(content[j]) /\ content = [k \in Inodes |-> content[k]]
      BY DEF HistoryIInv, FilesTyped
    <3>2. content'[j] = IF j = i THEN Overwritten(content[j], new) ELSE content[j]
      BY <1>2, <3>1
    <3> QED BY <1>1, <3>1, <3>2, OverwrittenIsList
  <2>2. content' = [j \in Inodes |-> content'[j]]
    BY <1>2 DEF HistoryIInv, FilesTyped
  <2> QED BY <1>2, <2>1, <2>2 DEF HistoryIInv, FilesTyped, TempApart
<1>6. Alone(l) => /\ temp # NoFile /\ i = temp /\ Recorded' = Recorded
                  /\ content'[temp] = new /\ OneMore(launcher[l].list)
  <2> SUFFICES ASSUME Alone(l)
               PROVE  /\ temp # NoFile /\ i = temp /\ Recorded' = Recorded
                      /\ content'[temp] = new /\ OneMore(launcher[l].list)
    OBVIOUS
  <2>1. /\ temp # NoFile /\ i = temp /\ content[temp] = <<>>
        /\ OneMore(launcher[l].list) /\ temp # file /\ temp \in Inodes
    BY <1>2 DEF HistoryIInv, HasCounted, TempApart, FilesTyped
  <2>2. content'[temp] = Overwritten(<<>>, new) /\ content'[file] = content[file]
    <3> HIDE DEF i, new
    <3> QED BY <1>2, <2>1 DEF HistoryIInv, FilesTyped
  <2>3. content'[temp] = new
    BY <1>1, <2>2, OverNothing
  <2> QED BY <1>2, <2>1, <2>2, <2>3, RecordedSame
<1>7. HasCounted'
  <2> SUFFICES ASSUME Alone(l)'
               PROVE  temp' # NoFile /\ OneMoreWritten(content[temp])'
    BY <1>3, <1>4 DEF HasCounted
  <2>1. Recorded' = Recorded /\ content'[temp'] = new /\ OneMore(launcher[l].list)
    BY <1>2, <1>4, <1>6
  <2> QED BY <1>2, <1>4, <1>6, <2>1 DEF OneMore, OneMoreWritten
<1>8. OneCounted
  BY <1>2, <1>4, <1>6 DEF OneCounted, Alone
<1> QED BY <1>4, <1>5, <1>7, <1>8 DEF HistoryIInv

(* A launcher that comes to rest has what it did behind it. *)
LEMMA RestKept ==
  ASSUME HistoryAssumption, HistoryIInv, NEW l \in Launchers, launcher[l].at # "idle",
         launcher' = [launcher EXCEPT ![l] = Resting]
  PROVE  LaunchersTyped' /\ AloneMeans' /\ NoneOpen' /\ HasCounted'
         /\ \A o \in Launchers : launcher'[o] # launcher[o] => o = l
<1>1. /\ LaunchersTyped' /\ AloneMeans' /\ NoneOpen' /\ launcher'[l] = Resting
      /\ \A o \in Launchers \ {l} : launcher'[o] = launcher[o] /\ ~Alone(o)'
  <2> DEFINE r == Resting
  <2>1. LauncherTyped(r) /\ r.at = "idle" /\ r.inode = NoFile
    BY RestingTyped
  <2> HIDE DEF r
  <2>2. launcher' = [launcher EXCEPT ![l] = r]
    BY DEF r
  <2>3. launcher'[l] = r /\ LaunchersTyped' /\ AloneMeans' /\ NoneOpen'
        /\ \A o \in Launchers \ {l} : launcher'[o] = launcher[o] /\ ~Alone(o)'
    BY <2>1, <2>2, MoverAlone DEF HistoryIInv
  <2> QED BY <2>3 DEF r
<1>2. ~Alone(l)'
  BY <1>1, RestingTyped DEF Alone
<1>3. HasCounted'
  BY <1>1, <1>2 DEF HasCounted
<1> QED BY <1>1, <1>3

LEMMA FailKept ==
  ASSUME HistoryAssumption, HistoryIInv, NEW l \in Launchers, WriteTmpFails(l)
  PROVE  HistoryIInv' /\ OneCounted
<1> DEFINE i == launcher[l].inode
           w == Written(launcher[l].list)
<1>1. IsList(w)
  BY WrittenIsList DEF HistoryIInv, LaunchersTyped, LauncherTyped
<1> HIDE DEF w
<1>2. PICK n \in 0..Len(w) :
        content' = [content EXCEPT ![i] = Overwritten(content[i], SubSeq(w, 1, n))]
  BY DEF WriteTmpFails, w
<1> DEFINE new == SubSeq(w, 1, n)
<1>3. IsList(new)
  BY <1>1, BeginningIsList
<1> HIDE DEF new
<1>4. /\ launcher[l].at = "writing" /\ temp' = NoFile /\ file' = file
      /\ content' = [content EXCEPT ![i] = Overwritten(content[i], new)]
      /\ launcher' = [launcher EXCEPT ![l] = Resting]
  BY <1>2 DEF WriteTmpFails, new
<1>5. LaunchersTyped' /\ AloneMeans' /\ NoneOpen' /\ HasCounted'
      /\ \A o \in Launchers : launcher'[o] # launcher[o] => o = l
  BY <1>4, RestKept
<1>6. FilesTyped' /\ TempApart'
  <2>1. \A j \in Inodes : IsList(content'[j])
    <3> TAKE j \in Inodes
    <3>1. IsList(content[j]) /\ content = [k \in Inodes |-> content[k]]
      BY DEF HistoryIInv, FilesTyped
    <3>2. content'[j] = IF j = i THEN Overwritten(content[j], new) ELSE content[j]
      BY <1>4, <3>1
    <3> QED BY <1>3, <3>1, <3>2, OverwrittenIsList
  <2>2. content' = [j \in Inodes |-> content'[j]]
    BY <1>4 DEF HistoryIInv, FilesTyped
  <2> QED BY <1>4, <2>1, <2>2 DEF HistoryIInv, FilesTyped, TempApart
<1>7. Alone(l) => Recorded' = Recorded
  <2> SUFFICES ASSUME Alone(l) PROVE Recorded' = Recorded
    OBVIOUS
  <2>1. i = temp /\ temp # file
    BY <1>4 DEF HistoryIInv, HasCounted, TempApart
  <2> HIDE DEF i
  <2>2. content'[file] = content[file]
    BY <1>4, <2>1 DEF HistoryIInv, FilesTyped
  <2> QED BY <1>4, <2>2, RecordedSame
<1>8. OneCounted
  BY <1>4, <1>5, <1>7 DEF OneCounted, Alone
<1> QED BY <1>5, <1>6, <1>8 DEF HistoryIInv

(* The file becomes what was written.                                          *)
LEMMA RenameKept ==
  ASSUME HistoryAssumption, HistoryIInv, NEW l \in Launchers, Rename(l)
  PROVE  HistoryIInv' /\ OneCounted
<1>1. /\ launcher[l].at = "renaming" /\ file' = (IF temp = NoFile THEN file ELSE temp)
      /\ temp' = NoFile /\ content' = content
      /\ launcher' = [launcher EXCEPT ![l] = Resting]
  BY DEF Rename
<1>2. LaunchersTyped' /\ AloneMeans' /\ NoneOpen' /\ HasCounted'
      /\ \A o \in Launchers : launcher'[o] # launcher[o] => o = l
  BY <1>1, RestKept
<1>3. FilesTyped' /\ TempApart'
  BY <1>1 DEF HistoryIInv, FilesTyped, TempApart
<1>4. Alone(l) => \E e \in Entries : Recorded' = Written(Counted(Recorded, e))
  <2> SUFFICES ASSUME Alone(l)
               PROVE  \E e \in Entries : Recorded' = Written(Counted(Recorded, e))
    OBVIOUS
  <2>1. temp # NoFile /\ OneMoreWritten(content[temp])
    BY <1>1 DEF HistoryIInv, HasCounted
  <2>2. Recorded' = content[temp]
    BY <1>1, <2>1 DEF Recorded
  <2> QED BY <2>1, <2>2 DEF OneMoreWritten
<1>5. OneCounted
  BY <1>1, <1>2, <1>4 DEF OneCounted, Alone
<1> QED BY <1>2, <1>3, <1>5 DEF HistoryIInv

(* A removal writes the file itself.                                           *)
LEMMA TruncateKept ==
  ASSUME HistoryAssumption, HistoryIInv, NEW l \in Launchers, Truncate(l)
  PROVE  HistoryIInv' /\ OneCounted
<1>1. /\ launcher[l].at = "truncating" /\ temp' = temp /\ file' = file
      /\ content' = [content EXCEPT ![file] = <<>>] /\ MovesTo(l, "rewriting", file)
  BY DEF Truncate, MovesTo
<1>2. PICK r : /\ LauncherTyped(r) /\ launcher' = [launcher EXCEPT ![l] = r]
               /\ r.at = "rewriting" /\ r.list = launcher[l].list /\ r.inode = file
               /\ r.shared = launcher[l].shared
  BY <1>1, LauncherMoved DEF HistoryIInv, HistoryPlaces, FilesTyped
<1>3. /\ LaunchersTyped' /\ AloneMeans' /\ NoneOpen' /\ launcher'[l] = r
      /\ \A o \in Launchers \ {l} : launcher'[o] = launcher[o] /\ ~Alone(o)'
  BY <1>1, <1>2, MoverAlone DEF HistoryIInv
<1>4. FilesTyped' /\ TempApart'
  BY <1>1, NoList DEF HistoryIInv, FilesTyped, TempApart
<1>5. HasCounted'
  BY <1>2, <1>3 DEF HasCounted
<1>6. OneCounted
  BY <1>1, <1>3 DEF OneCounted
<1> QED BY <1>3, <1>4, <1>5, <1>6 DEF HistoryIInv

LEMMA RewriteKept ==
  ASSUME HistoryAssumption, HistoryIInv, NEW l \in Launchers, Rewrite(l)
  PROVE  HistoryIInv' /\ OneCounted
<1> DEFINE i == launcher[l].inode
           new == IF launcher[l].list = <<>> THEN <<>> ELSE Written(launcher[l].list)
<1>1. IsList(new)
  BY WrittenIsList, NoList DEF HistoryIInv, LaunchersTyped, LauncherTyped
<1>2. /\ launcher[l].at = "rewriting" /\ temp' = temp /\ file' = file
      /\ content' = [content EXCEPT ![i] = Overwritten(content[i], new)]
      /\ launcher' = [launcher EXCEPT ![l] = Resting]
  BY DEF Rewrite
<1> HIDE DEF new
<1>3. LaunchersTyped' /\ AloneMeans' /\ NoneOpen' /\ HasCounted'
      /\ \A o \in Launchers : launcher'[o] # launcher[o] => o = l
  BY <1>2, RestKept
<1>4. FilesTyped' /\ TempApart'
  <2>1. \A j \in Inodes : IsList(content'[j])
    <3> TAKE j \in Inodes
    <3>1. IsList(content[j]) /\ content = [k \in Inodes |-> content[k]]
      BY DEF HistoryIInv, FilesTyped
    <3>2. content'[j] = IF j = i THEN Overwritten(content[j], new) ELSE content[j]
      BY <1>2, <3>1
    <3> QED BY <1>1, <3>1, <3>2, OverwrittenIsList
  <2>2. content' = [j \in Inodes |-> content'[j]]
    BY <1>2 DEF HistoryIInv, FilesTyped
  <2> QED BY <1>2, <2>1, <2>2 DEF HistoryIInv, FilesTyped, TempApart
<1>5. OneCounted
  BY <1>2, <1>3 DEF OneCounted
<1> QED BY <1>3, <1>4, <1>5 DEF HistoryIInv

LEMMA KillKept ==
  ASSUME HistoryAssumption, HistoryIInv, NEW l \in Launchers, Kill(l)
  PROVE  HistoryIInv' /\ OneCounted
<1>1. /\ launcher[l].at # "idle" /\ launcher' = [launcher EXCEPT ![l] = Resting]
      /\ file' = file /\ temp' = temp /\ content' = content
  BY DEF Kill
<1>2. LaunchersTyped' /\ AloneMeans' /\ NoneOpen' /\ HasCounted'
  BY <1>1, RestKept
<1>3. FilesTyped' /\ TempApart' /\ Recorded' = Recorded
  BY <1>1 DEF HistoryIInv, FilesTyped, TempApart, Recorded
<1> QED BY <1>2, <1>3 DEF HistoryIInv, OneCounted

LEMMA HistoryInitially == ASSUME HistoryAssumption, NEW on, HistoryInit(on) PROVE HistoryIInv
<1>1. /\ file = NoFile /\ temp = NoFile /\ content = [i \in Inodes |-> <<>>]
      /\ launcher = [l \in Launchers |-> Resting]
  BY DEF HistoryInit
<1>2. FilesTyped /\ TempApart
  BY <1>1, NoList DEF FilesTyped, TempApart
<1>3. LaunchersTyped
  BY <1>1, RestingTyped DEF LaunchersTyped
<1>4. NoneOpen /\ \A l \in Launchers : ~Alone(l)
  BY <1>1, RestingTyped DEF NoneOpen, Alone
<1> QED BY <1>2, <1>3, <1>4 DEF HistoryIInv, AloneMeans, HasCounted

LEMMA HistoryStep ==
  ASSUME HistoryAssumption, HistoryIInv, HistoryNext PROVE HistoryIInv' /\ OneCounted
<1>1. PICK l \in Launchers :
        \/ \E e \in Entries : Launch(l, e) \/ RemoveEntry(l, e)
        \/ OpenTmp(l) \/ WriteTmp(l) \/ WriteTmpFails(l) \/ Rename(l)
        \/ Truncate(l) \/ Rewrite(l) \/ Kill(l)
  BY DEF HistoryNext
<1>2. CASE \E e \in Entries : Launch(l, e) \/ RemoveEntry(l, e)
  BY <1>2, LaunchKept, RemoveKept
<1>3. CASE OpenTmp(l) \/ WriteTmp(l) \/ WriteTmpFails(l)
  BY <1>3, OpeningKept, WriteTmpKept, FailKept
<1>4. CASE Rename(l) \/ Truncate(l) \/ Rewrite(l) \/ Kill(l)
  BY <1>4, RenameKept, TruncateKept, RewriteKept, KillKept
<1> QED BY <1>1, <1>2, <1>3, <1>4

(* A launcher that has the files to itself leaves the counts as they are or    *)
(* replaces them by what they were with one launch more, however many          *)
(* launchers there are, where they are killed and what they leave behind       *)
(* (history.c:244-248).                                                        *)
THEOREM CountsKept == HistorySpec => HistoryKept
<1> USE HistoryAssumption
<1>1. HistoryInit(TRUE) => HistoryIInv
  BY HistoryInitially
<1>2. HistoryIInv /\ [HistoryNext]_historyVars => HistoryIInv' /\ [OneCounted]_historyVars
  <2> SUFFICES ASSUME HistoryIInv, [HistoryNext]_historyVars
               PROVE  HistoryIInv' /\ [OneCounted]_historyVars
    OBVIOUS
  <2>1. CASE HistoryNext
    BY <2>1, HistoryStep
  <2>2. CASE UNCHANGED historyVars
    BY <2>2 DEF historyVars, HistoryIInv, FilesTyped, LaunchersTyped, TempApart, NoneOpen,
                AloneMeans, Alone, Others, HasCounted, OneMore, OneMoreWritten, Recorded
  <2> QED BY <2>1, <2>2
<1> QED BY <1>1, <1>2, PTL DEF HistorySpec, HistoryKept, OneCounted
--------------------------------------------------------------------------------
(* The seats of a Wayland session: keys that repeat, and scrolls.               *)

SeatStates ==
  [bound : BOOLEAN, keyboard : BOOLEAN, pointer : BOOLEAN, textInput : BOOLEAN,
   key : KeyCodes \cup {0}, source : Nat, rate : Nat, strayed : BOOLEAN,
   wheel : Int, continuous : Int, finger : BOOLEAN,
   button : {"none", "press", "release"}, inside : BOOLEAN]
Timers == [id : Nat \ {0}, seat : Seats, kind : {"delay", "repeat"}]
Scrolled ==
  [count : Nat, received : Int, ticks : Int, swiped : Nat,
   devices : SUBSET {"wheel", "finger"}, underway : Int, mixed : BOOLEAN]

SeatTyped ==
  /\ seats \in [Seats -> SeatStates] /\ repeats \in SUBSET Timers
  /\ scrolls \in [Seats -> Scrolled] /\ fingers \in [Seats -> SUBSET KeyCodes]
  /\ focus \in Seats \cup {"none"} /\ view \in BOOLEAN

TimersDiffer == \A r, p \in repeats : r.id = p.id => r = p

(* A timer of a seat is the one it holds, and repeats a key that is down while  *)
(* the keyboard is on the surface; a source id stands for a timer there is.     *)
SeatHolds(s) ==
  /\ \A r \in repeats : r.seat = s =>
       /\ r.id = seats[s].source /\ seats[s].keyboard /\ seats[s].key # 0
       /\ seats[s].strayed \/ (focus = s /\ seats[s].key \in fingers[s])
  /\ seats[s].source # 0 => \E r \in repeats : r.seat = s /\ r.id = seats[s].source
  /\ seats[s].keyboard \/ seats[s].pointer => seats[s].bound

(* Unless a frame has the scrolls of both, what is underway of one seat's finger *)
(* is what the seat has to add.                                                 *)
Reported(q, c) ==
  /\ c.devices = {} => ~q.finger /\ q.continuous = 0 /\ c.underway = 0
  /\ c.devices = {"wheel"} => ~q.finger /\ c.underway = 0
  /\ c.devices = {"finger"} => q.finger /\ q.continuous = c.underway

(* What came out of a seat's scrolls, of one seat.                              *)
Exactly(q, c) ==
  q.bound =>
    /\ Reported(q, c)
    /\ ~c.mixed => Magnitude(2 * (120 * c.ticks + q.wheel) - c.received) <= c.swiped

SameScroll(q, was) ==
  q.wheel = was.wheel /\ q.continuous = was.continuous /\ q.finger = was.finger

SeatIInv ==
  /\ SeatTyped /\ TimersDiffer
  /\ \A s \in Seats : SeatHolds(s) /\ Exactly(seats[s], scrolls[s])

LEMMA SeatEnough == SeatIInv => RepeatIsTheHeldKey /\ ScrollsExactly
<1> SUFFICES ASSUME SeatIInv PROVE RepeatIsTheHeldKey /\ ScrollsExactly
  OBVIOUS
<1>1. ScrollsExactly
  BY DEF SeatIInv, Exactly, ScrollsExactly
<1>2. ASSUME NEW s \in Seats PROVE SourceIds(s) = {seats[s].source} \ {0}
  <2>1. SeatHolds(s) /\ \A r \in repeats : r.id # 0
    BY DEF SeatIInv, SeatTyped, Timers
  <2> QED
    BY <2>1 DEF SeatHolds, SourceIds
<1>3. ASSUME NEW r \in repeats
      PROVE  LET seat == seats[r.seat]
             IN /\ seat.bound /\ seat.keyboard /\ seat.key # 0
                /\ seat.strayed \/ seat.key \in fingers[r.seat]
  <2>1. r.seat \in Seats
    BY DEF SeatIInv, SeatTyped, Timers
  <2>2. SeatHolds(r.seat)
    BY <2>1 DEF SeatIInv
  <2> QED
    BY <2>2 DEF SeatHolds
<1> QED
  BY <1>1, <1>2, <1>3 DEF RepeatIsTheHeldKey

(* The timers of a seat are those of its source id: one, or none. *)
LEMMA OwnTimers ==
  ASSUME SeatIInv, NEW s \in Seats
  PROVE  /\ {r \in repeats : r.id # seats[s].source} = {r \in repeats : r.seat # s}
         /\ \A r \in repeats : r.seat = s => repeats \ {r} = {p \in repeats : p.seat # s}
         /\ ~seats[s].keyboard =>
              seats[s].source = 0 /\ {r \in repeats : r.seat # s} = repeats
<1>1. TimersDiffer /\ SeatHolds(s) /\ \A r \in repeats : r.id # 0
  BY DEF SeatIInv, SeatTyped, Timers
<1>2. ASSUME NEW r \in repeats PROVE r.id = seats[s].source <=> r.seat = s
  <2>1. CASE r.seat = s
    BY <1>1, <2>1 DEF SeatHolds
  <2>2. ASSUME r.id = seats[s].source PROVE r.seat = s
    <3>1. PICK p \in repeats : p.seat = s /\ p.id = seats[s].source
      BY <1>1, <2>2 DEF SeatHolds
    <3>2. p = r
      BY <1>1, <2>2, <3>1 DEF TimersDiffer
    <3> QED
      BY <3>1, <3>2
  <2> QED
    BY <2>1, <2>2
<1>3. \A r \in repeats : r.id # seats[s].source <=> r.seat # s
  BY <1>2
<1>4. {r \in repeats : r.id # seats[s].source} = {r \in repeats : r.seat # s}
  BY <1>3
<1>5. ASSUME NEW r \in repeats, r.seat = s
      PROVE  repeats \ {r} = {p \in repeats : p.seat # s}
  <2>1. ASSUME NEW p \in repeats PROVE p # r <=> p.seat # s
    BY <1>1, <1>2, <1>5 DEF TimersDiffer
  <2> QED
    BY <2>1
<1>6. ASSUME ~seats[s].keyboard
      PROVE  seats[s].source = 0 /\ {r \in repeats : r.seat # s} = repeats
  <2>1. \A r \in repeats : r.seat # s
    BY <1>1, <1>6 DEF SeatHolds
  <2>2. seats[s].source = 0
    BY <1>1, <2>1 DEF SeatHolds
  <2> QED
    BY <2>1, <2>2
<1> QED
  BY <1>4, <1>5, <1>6

(* The ids that are given out are fewer than there may be. *)
LEMMA NewSourceFresh ==
  ASSUME SeatIInv
  PROVE  NewSource \in Nat \ {0} /\ \A r \in repeats : r.id # NewSource
<1> DEFINE used == {r.id : r \in repeats}
           held == {seats[s].source : s \in Seats}
<1>1. IsFiniteSet(Seats) /\ Cardinality(Seats) < MaxSources /\ MaxSources \in Nat
  BY SeatAssumption
<1>2. IsFiniteSet(held) /\ Cardinality(held) <= Cardinality(Seats)
  <2> DEFINE f == [s \in Seats |-> seats[s].source]
  <2>1. f \in [Seats -> held]
    OBVIOUS
  <2>2. \A y \in held : \E s \in Seats : f[s] = y
    OBVIOUS
  <2>3. f \in Surjection(Seats, held)
    BY <2>1, <2>2 DEF Surjection
  <2> HIDE DEF f, held
  <2> QED
    BY <1>1, <2>3, FS_Surjection
<1>3. used \subseteq held
  <2>1. ASSUME NEW r \in repeats PROVE r.id \in held
    <3>1. r.seat \in Seats
      BY DEF SeatIInv, SeatTyped, Timers
    <3>2. r.id = seats[r.seat].source
      BY <3>1 DEF SeatIInv, SeatHolds
    <3> QED
      BY <3>1, <3>2
  <2> QED
    BY <2>1
<1>4. IsFiniteSet(1..MaxSources) /\ Cardinality(1..MaxSources) = MaxSources
  <2>1. 1 \in Int /\ MaxSources \in Int
    BY <1>1
  <2>2. /\ IsFiniteSet(1..MaxSources)
        /\ Cardinality(1..MaxSources) = IF 1 > MaxSources THEN 0 ELSE MaxSources - 1 + 1
    BY <2>1, FS_Interval
  <2> QED
    BY <1>1, <2>2
<1> HIDE DEF used, held
<1>5. \E n \in 1..MaxSources : n \notin used
  <2> SUFFICES ASSUME 1..MaxSources \subseteq used PROVE FALSE
    OBVIOUS
  <2>1. 1..MaxSources \subseteq held
    BY <1>3
  <2>2. Cardinality(1..MaxSources) <= Cardinality(held)
    BY <1>2, <2>1, FS_Subset
  <2>3. Cardinality(Seats) \in Nat /\ Cardinality(held) \in Nat
    BY <1>1, <1>2, FS_CardinalityType
  <2> QED
    BY <1>1, <1>2, <1>4, <2>2, <2>3
<1>6. NewSource = CHOOSE n \in 1..MaxSources : n \notin used
  BY DEF NewSource, used
<1>7. NewSource \in 1..MaxSources /\ NewSource \notin used
  BY <1>5, <1>6
<1> QED
  BY <1>1, <1>7 DEF used

(* One seat becomes q, and its timers those of new; the others' stay. *)
LEMMA SeatMoved ==
  ASSUME SeatIInv, NEW s \in Seats, NEW q \in SeatStates, seats' = [seats EXCEPT ![s] = q],
         NEW new \in SUBSET Timers, repeats' = {r \in repeats : r.seat # s} \cup new,
         \A r, p \in new : r = p,
         \A r \in new, p \in repeats : p.seat # s => p.id # r.id,
         \A r \in new : /\ r.seat = s /\ r.id = q.source /\ q.keyboard /\ q.key # 0
                        /\ q.strayed \/ (focus' = s /\ q.key \in fingers'[s]),
         q.source # 0 => new # {},
         q.keyboard \/ q.pointer => q.bound,
         fingers' \in [Seats -> SUBSET KeyCodes],
         \A t \in Seats : t # s => fingers'[t] = fingers[t],
         focus' \in Seats \cup {"none"}, \A t \in Seats : t # s /\ focus = t => focus' = t,
         view' \in BOOLEAN,
         scrolls' \in [Seats -> Scrolled],
         \A t \in Seats : t # s => scrolls'[t] = scrolls[t], Exactly(q, scrolls'[s])
  PROVE  SeatIInv'
<1>1. /\ seats \in [Seats -> SeatStates] /\ repeats \in SUBSET Timers
      /\ seats' \in [Seats -> SeatStates] /\ seats'[s] = q
      /\ \A t \in Seats : t # s => seats'[t] = seats[t]
  BY DEF SeatIInv, SeatTyped
<1>2. SeatTyped'
  BY <1>1 DEF SeatTyped
<1>3. TimersDiffer'
  <2> SUFFICES ASSUME NEW r \in repeats', NEW p \in repeats', r.id = p.id PROVE r = p
    BY DEF TimersDiffer
  <2>1. \A a \in repeats' : a \in new \/ (a \in repeats /\ a.seat # s)
    OBVIOUS
  <2>2. TimersDiffer
    BY DEF SeatIInv
  <2> QED
    BY <2>1, <2>2 DEF TimersDiffer
<1>4. ASSUME NEW t \in Seats, t # s PROVE SeatHolds(t)'
  <2>1. SeatHolds(t)
    BY DEF SeatIInv
  <2>2. \A r : r \in repeats' /\ r.seat = t <=> r \in repeats /\ r.seat = t
    BY <1>4
  <2>3. seats'[t] = seats[t] /\ fingers'[t] = fingers[t] /\ (focus = t => focus' = t)
    BY <1>1, <1>4
  <2> QED
    BY <2>1, <2>2, <2>3 DEF SeatHolds
<1>5. SeatHolds(s)'
  <2>1. \A r \in repeats' : r.seat = s => r \in new
    OBVIOUS
  <2>2. \A r \in new : r \in repeats' /\ r.seat = s /\ r.id = q.source
    OBVIOUS
  <2>3. q.source # 0 => \E r \in repeats' : r.seat = s /\ r.id = q.source
    BY <2>2
  <2> QED
    BY <1>1, <2>1, <2>3 DEF SeatHolds
<1>6. \A t \in Seats : Exactly(seats'[t], scrolls'[t])
  BY <1>1 DEF SeatIInv
<1> QED
  BY <1>2, <1>3, <1>4, <1>5, <1>6 DEF SeatIInv

(* ... without a timer of its own. *)
LEMMA SeatCleared ==
  ASSUME SeatIInv, NEW s \in Seats, NEW q \in SeatStates, seats' = [seats EXCEPT ![s] = q],
         repeats' = {r \in repeats : r.seat # s}, q.source = 0,
         q.keyboard \/ q.pointer => q.bound,
         fingers' \in [Seats -> SUBSET KeyCodes],
         \A t \in Seats : t # s => fingers'[t] = fingers[t],
         focus' \in Seats \cup {"none"}, \A t \in Seats : t # s /\ focus = t => focus' = t,
         view' \in BOOLEAN,
         scrolls' \in [Seats -> Scrolled],
         \A t \in Seats : t # s => scrolls'[t] = scrolls[t], Exactly(q, scrolls'[s])
  PROVE  SeatIInv'
<1>1. {} \in SUBSET Timers /\ repeats' = {r \in repeats : r.seat # s} \cup {}
  OBVIOUS
<1> QED
  BY <1>1, SeatMoved

(* ... with the timer it has. *)
LEMMA SeatAsWas ==
  ASSUME SeatIInv, NEW s \in Seats, NEW q \in SeatStates, seats' = [seats EXCEPT ![s] = q],
         repeats' = repeats, q.source = seats[s].source, q.key = seats[s].key,
         seats[s].keyboard => q.keyboard,
         \A r \in repeats : r.seat = s =>
           q.strayed \/ (seats[s].strayed = q.strayed /\ focus' = focus
                         /\ (seats[s].key \in fingers[s] => seats[s].key \in fingers'[s])),
         q.keyboard \/ q.pointer => q.bound,
         fingers' \in [Seats -> SUBSET KeyCodes],
         \A t \in Seats : t # s => fingers'[t] = fingers[t],
         focus' \in Seats \cup {"none"}, \A t \in Seats : t # s /\ focus = t => focus' = t,
         view' \in BOOLEAN,
         scrolls' \in [Seats -> Scrolled],
         \A t \in Seats : t # s => scrolls'[t] = scrolls[t], Exactly(q, scrolls'[s])
  PROVE  SeatIInv'
<1> DEFINE new == {r \in repeats : r.seat = s}
<1>1. SeatHolds(s) /\ TimersDiffer /\ repeats \in SUBSET Timers
  BY DEF SeatIInv, SeatTyped
<1>2. new \in SUBSET Timers /\ repeats' = {r \in repeats : r.seat # s} \cup new
  BY <1>1
<1>3. \A r \in new : r \in repeats /\ r.seat = s /\ r.id = seats[s].source
  BY <1>1 DEF SeatHolds
<1>4. \A r, p \in new : r = p
  BY <1>1, <1>3 DEF TimersDiffer
<1>5. \A r \in new, p \in repeats : p.seat # s => p.id # r.id
  BY <1>1, <1>3 DEF TimersDiffer
<1>6. ASSUME NEW r \in new
      PROVE  /\ r.seat = s /\ r.id = q.source /\ q.keyboard /\ q.key # 0
             /\ q.strayed \/ (focus' = s /\ q.key \in fingers'[s])
  BY <1>1, <1>3 DEF SeatHolds
<1>7. q.source # 0 => new # {}
  BY <1>1 DEF SeatHolds
<1> HIDE DEF new
<1> QED
  BY <1>2, <1>4, <1>5, <1>6, <1>7, SeatMoved

(* ... with a timer that has just been made. *)
LEMMA SeatTimed ==
  ASSUME SeatIInv, NEW s \in Seats, NEW q \in SeatStates, seats' = [seats EXCEPT ![s] = q],
         NEW how \in {"delay", "repeat"},
         repeats' = {r \in repeats : r.seat # s}
                      \cup {[id |-> NewSource, seat |-> s, kind |-> how]},
         q.source = NewSource, q.keyboard, q.key # 0,
         q.strayed \/ (focus' = s /\ q.key \in fingers'[s]),
         q.bound,
         fingers' \in [Seats -> SUBSET KeyCodes],
         \A t \in Seats : t # s => fingers'[t] = fingers[t],
         focus' \in Seats \cup {"none"}, \A t \in Seats : t # s /\ focus = t => focus' = t,
         view' \in BOOLEAN,
         scrolls' \in [Seats -> Scrolled],
         \A t \in Seats : t # s => scrolls'[t] = scrolls[t], Exactly(q, scrolls'[s])
  PROVE  SeatIInv'
<1> DEFINE n == NewSource
           timer == [id |-> n, seat |-> s, kind |-> how]
           new == {timer}
<1>1. n \in Nat \ {0} /\ \A r \in repeats : r.id # n
  BY NewSourceFresh
<1> HIDE DEF n
<1>2. timer \in Timers /\ timer.seat = s /\ timer.id = n
  BY <1>1 DEF Timers
<1>3. repeats' = {r \in repeats : r.seat # s} \cup new /\ q.source = n
  BY DEF n
<1> HIDE DEF timer
<1>4. /\ new \in SUBSET Timers /\ \A r, p \in new : r = p
      /\ \A r \in new, p \in repeats : p.seat # s => p.id # r.id
      /\ \A r \in new : /\ r.seat = s /\ r.id = q.source /\ q.keyboard /\ q.key # 0
                        /\ q.strayed \/ (focus' = s /\ q.key \in fingers'[s])
      /\ new # {}
  BY <1>1, <1>2, <1>3
<1> HIDE DEF new
<1> QED
  BY <1>3, <1>4, SeatMoved

LEMMA SeatHas ==
  ASSUME SeatIInv, NEW s \in Seats
  PROVE  /\ SeatTyped /\ seats[s] \in SeatStates /\ scrolls[s] \in Scrolled
         /\ seats = [seats EXCEPT ![s] = seats[s]]
         /\ Exactly(seats[s], scrolls[s])
         /\ seats[s].keyboard \/ seats[s].pointer => seats[s].bound
         /\ \A t \in Seats : t # "none"
<1>1. SeatTyped /\ SeatHolds(s) /\ Exactly(seats[s], scrolls[s])
  BY DEF SeatIInv
<1> QED
  BY <1>1, SeatAssumption DEF SeatTyped, SeatHolds

(* What a step says of the view's end, and of whom it does not touch. *)
LEMMA Calm ==
  ASSUME SeatIInv, UNCHANGED <<fingers, focus, scrolls>>,
         Updated \/ view' \in BOOLEAN
  PROVE  /\ fingers' \in [Seats -> SUBSET KeyCodes] /\ focus' \in Seats \cup {"none"}
         /\ view' \in BOOLEAN /\ scrolls' \in [Seats -> Scrolled]
  BY DEF SeatIInv, SeatTyped, Updated

LEMMA UnboundIs ==
  /\ Unbound \in SeatStates /\ Unbound.source = 0 /\ ~Unbound.bound
  /\ ~Unbound.keyboard /\ ~Unbound.pointer
<1>1. NewSeat \in SeatStates /\ NewSeat.source = 0 /\ ~NewSeat.keyboard /\ ~NewSeat.pointer
  BY DEF NewSeat, SeatStates
<1> QED
  BY <1>1 DEF Unbound, SeatStates

LEMMA CapabilitiesKeep ==
  ASSUME SeatIInv, NEW s \in Seats, Capabilities(s) PROVE SeatIInv'
<1> DEFINE was == seats[s]
<1>1. /\ SeatTyped /\ was \in SeatStates /\ Exactly(was, scrolls[s]) /\ s # "none"
      /\ was.bound /\ view \in BOOLEAN /\ was.keyboard \in BOOLEAN
      /\ fingers' = fingers /\ view' = view /\ scrolls' = scrolls
  BY SeatHas DEF Capabilities, SeatTyped, SeatStates
<1>2. PICK keyboard, pointer \in BOOLEAN :
       LET kept == IF ~keyboard /\ was.keyboard THEN WithoutKeyboard(s) ELSE was
       IN /\ seats' = [seats EXCEPT ![s] =
                         [kept EXCEPT !.keyboard = keyboard, !.pointer = pointer,
                                      !.textInput = @ \/ keyboard]]
          /\ IF ~keyboard /\ was.keyboard THEN CancelRepeat(s) ELSE UNCHANGED repeats
          /\ focus' = IF ~keyboard /\ focus = s THEN "none" ELSE focus
  BY DEF Capabilities
<1> DEFINE kept == IF ~keyboard /\ was.keyboard THEN WithoutKeyboard(s) ELSE was
           text == kept.textInput \/ keyboard
           q == [kept EXCEPT !.keyboard = keyboard, !.pointer = pointer, !.textInput = text]
<1>3. keyboard \in BOOLEAN /\ pointer \in BOOLEAN
  OBVIOUS
<1>4. seats' = [seats EXCEPT ![s] = q]
  BY <1>2
<1>5. /\ focus' \in Seats \cup {"none"} /\ \A t \in Seats : t # s /\ focus = t => focus' = t
  BY <1>1, <1>2 DEF SeatTyped
<1>6. /\ fingers' \in [Seats -> SUBSET KeyCodes] /\ view' \in BOOLEAN
      /\ scrolls' \in [Seats -> Scrolled]
      /\ \A t \in Seats : fingers'[t] = fingers[t] /\ scrolls'[t] = scrolls[t]
  BY <1>1 DEF SeatTyped
<1>7. /\ kept \in SeatStates /\ kept.bound = was.bound /\ SameScroll(kept, was)
      /\ kept.strayed = was.strayed
      /\ IF ~keyboard /\ was.keyboard THEN kept.source = 0
         ELSE kept.source = was.source /\ kept.key = was.key /\ kept.keyboard = was.keyboard
  BY <1>1 DEF WithoutKeyboard, SeatStates, SameScroll
<1> HIDE DEF kept
<1>8. text \in BOOLEAN
  BY <1>3, <1>7 DEF SeatStates
<1> HIDE DEF text
<1>9. /\ q \in SeatStates /\ q.bound = was.bound /\ SameScroll(q, was)
      /\ q.keyboard = keyboard /\ q.pointer = pointer /\ q.strayed = was.strayed
      /\ q.source = kept.source /\ q.key = kept.key
  BY <1>3, <1>7, <1>8 DEF SeatStates, SameScroll
<1> HIDE DEF q
<1>10. Exactly(q, scrolls'[s])
  BY <1>1, <1>9 DEF Exactly, Reported, SameScroll
<1>11. CASE keyboard
  <2>1. /\ repeats' = repeats /\ focus' = focus /\ q.source = was.source /\ q.key = was.key
        /\ q.keyboard = TRUE
    BY <1>2, <1>7, <1>9, <1>11
  <2> QED
    BY <1>1, <1>4, <1>5, <1>6, <1>9, <1>10, <2>1, SeatAsWas
<1>12. CASE ~keyboard
  <2>1. repeats' = {r \in repeats : r.seat # s} /\ q.source = 0
    <3>1. CASE was.keyboard
      BY <1>2, <1>7, <1>9, <1>12, <3>1, OwnTimers DEF CancelRepeat
    <3>2. CASE ~was.keyboard
      BY <1>2, <1>7, <1>9, <1>12, <3>2, OwnTimers
    <3> QED
      BY <3>1, <3>2
  <2> QED
    BY <1>1, <1>4, <1>5, <1>6, <1>9, <1>10, <2>1, SeatCleared
<1> QED
  BY <1>3, <1>11, <1>12

LEMMA SeatComesAndGoes ==
  ASSUME SeatIInv, NEW s \in Seats, SeatAdded(s) \/ SeatRemoved(s) PROVE SeatIInv'
<1>1. /\ SeatTyped /\ seats[s] \in SeatStates /\ s # "none" /\ scrolls[s] \in Scrolled
      /\ seats[s].keyboard \/ seats[s].pointer => seats[s].bound
      /\ fingers' = fingers /\ view' = view
  BY SeatHas DEF SeatAdded, SeatRemoved
<1>2. CASE SeatAdded(s)
  <2> DEFINE c == NothingSent(scrolls[s].count)
  <2>1. ~seats[s].keyboard
    BY <1>1, <1>2 DEF SeatAdded
  <2>2. repeats' = {r \in repeats : r.seat # s}
    BY <1>2, <2>1, OwnTimers DEF SeatAdded
  <2>3. NewSeat \in SeatStates /\ NewSeat.source = 0 /\ NewSeat.wheel = 0
        /\ ~NewSeat.keyboard /\ ~NewSeat.pointer /\ ~NewSeat.finger /\ NewSeat.continuous = 0
    BY DEF NewSeat, SeatStates
  <2>4. /\ c \in Scrolled /\ c.received = 0 /\ c.ticks = 0 /\ c.swiped = 0
        /\ c.devices = {} /\ c.underway = 0
    BY <1>1 DEF Scrolled, NothingSent
  <2>5. scrolls' = [scrolls EXCEPT ![s] = c]
    BY <1>2 DEF SeatAdded
  <2> HIDE DEF c
  <2>6. /\ scrolls' \in [Seats -> Scrolled] /\ scrolls'[s] = c
        /\ \A t \in Seats : t # s => scrolls'[t] = scrolls[t]
    BY <1>1, <2>4, <2>5 DEF SeatTyped
  <2>7. Exactly(NewSeat, scrolls'[s])
    BY <2>3, <2>4, <2>6 DEF Exactly, Reported, Magnitude
  <2>8. seats' = [seats EXCEPT ![s] = NewSeat] /\ focus' = focus
    BY <1>2 DEF SeatAdded
  <2> QED
    BY <1>1, <2>2, <2>3, <2>6, <2>7, <2>8, SeatCleared DEF SeatTyped
<1>3. CASE SeatRemoved(s)
  <2>1. Unbound \in SeatStates /\ Unbound.source = 0 /\ ~Unbound.bound
        /\ ~Unbound.keyboard /\ ~Unbound.pointer
    BY UnboundIs
  <2>2. repeats' = {r \in repeats : r.seat # s}
    BY <1>3, OwnTimers DEF SeatRemoved, CancelRepeat
  <2>3. seats' = [seats EXCEPT ![s] = Unbound] /\ scrolls' = scrolls
        /\ focus' = IF focus = s THEN "none" ELSE focus
    BY <1>3 DEF SeatRemoved
  <2>4. focus' \in Seats \cup {"none"} /\ \A t \in Seats : t # s /\ focus = t => focus' = t
    BY <1>1, <2>3 DEF SeatTyped
  <2>5. Exactly(Unbound, scrolls'[s])
    BY <2>1 DEF Exactly, Reported, SameScroll
  <2> QED
    BY <1>1, <2>1, <2>2, <2>3, <2>4, <2>5, SeatCleared DEF SeatTyped
<1> QED
  BY <1>2, <1>3

LEMMA FocusKeeps ==
  ASSUME SeatIInv, KeyboardLeave \/ \E s \in Seats : KeyboardEnter(s) PROVE SeatIInv'
<1>1. CASE KeyboardLeave
  <2> DEFINE s == focus
             q == [seats[s] EXCEPT !.strayed = TRUE]
  <2>1. s \in Seats /\ UNCHANGED <<repeats, view, fingers, scrolls>> /\ focus' = "none"
    BY <1>1 DEF KeyboardLeave, SeatIInv, SeatTyped
  <2>2. /\ SeatTyped /\ seats[s] \in SeatStates /\ Exactly(seats[s], scrolls[s])
        /\ seats[s].keyboard \/ seats[s].pointer => seats[s].bound
    BY <2>1, SeatHas
  <2>3. seats' = [seats EXCEPT ![s] = q]
    BY <1>1 DEF KeyboardLeave
  <2>4. /\ q \in SeatStates /\ q.source = seats[s].source /\ q.key = seats[s].key
        /\ q.keyboard = seats[s].keyboard /\ q.pointer = seats[s].pointer
        /\ q.bound = seats[s].bound /\ SameScroll(q, seats[s]) /\ q.strayed
    BY <2>2 DEF SeatStates, SameScroll
  <2> HIDE DEF q
  <2>5. Exactly(q, scrolls'[s])
    BY <2>1, <2>2, <2>4 DEF Exactly, Reported, SameScroll
  <2>6. \A t \in Seats : t # s /\ focus = t => focus' = t
    OBVIOUS
  <2> HIDE DEF s
  <2> QED
    BY <2>1, <2>2, <2>3, <2>4, <2>5, <2>6, SeatAsWas DEF SeatTyped
<1>2. ASSUME NEW s \in Seats, KeyboardEnter(s) PROVE SeatIInv'
  <2>1. /\ SeatTyped /\ seats[s] \in SeatStates /\ Exactly(seats[s], scrolls[s])
        /\ seats[s].keyboard \/ seats[s].pointer => seats[s].bound
        /\ seats' = [seats EXCEPT ![s] = seats[s]]
        /\ \A t \in Seats : t # "none"
    BY <1>2, SeatHas DEF KeyboardEnter
  <2>2. /\ focus = "none" /\ focus' = s /\ UNCHANGED <<repeats, view, fingers, scrolls>>
    BY <1>2 DEF KeyboardEnter
  <2>3. \A r \in repeats : r.seat = s => seats[s].strayed
    BY <2>1, <2>2 DEF SeatIInv, SeatHolds
  <2>4. \A t \in Seats : t # s /\ focus = t => focus' = t
    BY <2>1, <2>2
  <2> QED
    BY <2>1, <2>2, <2>3, <2>4, SeatAsWas DEF SeatTyped
<1> QED
  BY <1>1, <1>2

LEMMA KeyDownKeeps ==
  ASSUME SeatIInv, NEW s \in Seats, NEW k \in KeyCodes, KeyDown(s, k) PROVE SeatIInv'
<1>1. /\ SeatTyped /\ seats[s] \in SeatStates /\ Exactly(seats[s], scrolls[s])
      /\ seats[s].keyboard \/ seats[s].pointer => seats[s].bound
      /\ seats = [seats EXCEPT ![s] = seats[s]]
  BY SeatHas
<1>2. /\ seats[s].keyboard /\ focus' = focus /\ scrolls' = scrolls
      /\ fingers' = [fingers EXCEPT ![s] = @ \cup {k}]
  BY DEF KeyDown
<1>3. /\ fingers' \in [Seats -> SUBSET KeyCodes] /\ fingers'[s] = fingers[s] \cup {k}
      /\ \A t \in Seats : t # s => fingers'[t] = fingers[t]
  BY <1>1, <1>2 DEF SeatTyped
<1>4. CASE focus # s
  <2>1. seats' = seats /\ repeats' = repeats /\ view' = view
    BY <1>4 DEF KeyDown
  <2> QED
    BY <1>1, <1>2, <1>3, <2>1, SeatAsWas DEF SeatTyped
<1>5. CASE focus = s
  <2>1. view' \in BOOLEAN /\ k # 0
    BY <1>1, <1>5, SeatAssumption DEF KeyDown, Updated, SeatTyped
  <2>2. repeats \ {r \in repeats : r.id = seats[s].source} = {r \in repeats : r.seat # s}
    <3>1. repeats \ {r \in repeats : r.id = seats[s].source}
            = {r \in repeats : r.id # seats[s].source}
      OBVIOUS
    <3> QED
      BY <3>1, OwnTimers
  <2>3. CASE view
    <3> DEFINE n == NewSource
               q == [seats[s] EXCEPT !.key = k, !.source = n, !.strayed = FALSE]
    <3>1. /\ seats' = [seats EXCEPT ![s] = q]
          /\ repeats' = {r \in repeats : r.seat # s}
                          \cup {[id |-> NewSource, seat |-> s, kind |-> "delay"]}
      BY <1>5, <2>2, <2>3 DEF KeyDown
    <3>2. n \in Nat
      BY NewSourceFresh
    <3>3. n = NewSource
      OBVIOUS
    <3> HIDE DEF n
    <3>4. /\ q \in SeatStates /\ q.source = NewSource /\ q.key = k
          /\ q.keyboard = seats[s].keyboard /\ q.bound = seats[s].bound
          /\ SameScroll(q, seats[s])
      BY <1>1, <3>2, <3>3 DEF SeatStates, SameScroll
    <3> HIDE DEF q
    <3>5. Exactly(q, scrolls'[s])
      BY <1>1, <1>2, <3>4 DEF Exactly, Reported, SameScroll
    <3>6. k \in fingers'[s] /\ q.keyboard /\ q.bound /\ focus' = s /\ scrolls' \in [Seats -> Scrolled]
      BY <1>1, <1>2, <1>3, <1>5, <3>4 DEF SeatTyped
    <3> QED
      BY <1>2, <1>3, <1>5, <2>1, <3>1, <3>4, <3>5, <3>6, SeatTimed
  <2>4. CASE ~view
    <3> DEFINE q == [seats[s] EXCEPT !.source = 0]
    <3>1. seats' = [seats EXCEPT ![s] = q] /\ repeats' = {r \in repeats : r.seat # s}
      BY <1>5, <2>2, <2>4 DEF KeyDown
    <3>2. /\ q \in SeatStates /\ q.source = 0 /\ q.keyboard = seats[s].keyboard
          /\ q.pointer = seats[s].pointer /\ q.bound = seats[s].bound
          /\ SameScroll(q, seats[s])
      BY <1>1 DEF SeatStates, SameScroll
    <3> HIDE DEF q
    <3>3. Exactly(q, scrolls'[s])
      BY <1>1, <1>2, <3>2 DEF Exactly, Reported, SameScroll
    <3> QED
      BY <1>1, <1>2, <1>3, <2>1, <3>1, <3>2, <3>3, SeatCleared DEF SeatTyped
  <2> QED
    BY <2>3, <2>4
<1> QED
  BY <1>4, <1>5

LEMMA KeyUpKeeps ==
  ASSUME SeatIInv, NEW s \in Seats, NEW k \in KeyCodes, KeyUp(s, k) PROVE SeatIInv'
<1>1. /\ SeatTyped /\ seats[s] \in SeatStates /\ Exactly(seats[s], scrolls[s])
      /\ seats[s].keyboard \/ seats[s].pointer => seats[s].bound
      /\ seats = [seats EXCEPT ![s] = seats[s]] /\ SeatHolds(s)
  BY SeatHas DEF SeatIInv
<1>2. /\ focus' = focus /\ scrolls' = scrolls
      /\ fingers' = [fingers EXCEPT ![s] = @ \ {k}]
  BY DEF KeyUp
<1>3. /\ fingers' \in [Seats -> SUBSET KeyCodes] /\ fingers'[s] = fingers[s] \ {k}
      /\ \A t \in Seats : t # s => fingers'[t] = fingers[t]
  BY <1>1, <1>2 DEF SeatTyped
<1>4. CASE focus # s
  <2>1. seats' = seats /\ repeats' = repeats /\ view' = view
    BY <1>4 DEF KeyUp
  <2>2. \A r \in repeats : r.seat = s => seats[s].strayed
    BY <1>1, <1>4 DEF SeatHolds
  <2> QED
    BY <1>1, <1>2, <1>3, <2>1, <2>2, SeatAsWas DEF SeatTyped
<1>5. CASE focus = s
  <2>1. view' \in BOOLEAN /\ Released(s, k)
    BY <1>1, <1>5 DEF KeyUp, Updated, SeatTyped
  <2>2. CASE seats[s].key = k
    <3> DEFINE q == [seats[s] EXCEPT !.key = 0, !.source = 0]
    <3>1. seats' = [seats EXCEPT ![s] = q] /\ repeats' = {r \in repeats : r.seat # s}
      BY <2>1, <2>2, OwnTimers DEF Released, CancelRepeat
    <3>2. /\ q \in SeatStates /\ q.source = 0 /\ q.keyboard = seats[s].keyboard
          /\ q.pointer = seats[s].pointer /\ q.bound = seats[s].bound
          /\ SameScroll(q, seats[s])
      BY <1>1 DEF SeatStates, SameScroll
    <3> HIDE DEF q
    <3>3. Exactly(q, scrolls'[s])
      BY <1>1, <1>2, <3>2 DEF Exactly, Reported, SameScroll
    <3> QED
      BY <1>1, <1>2, <1>3, <2>1, <3>1, <3>2, <3>3, SeatCleared DEF SeatTyped
  <2>3. CASE seats[s].key # k
    <3>1. seats' = seats /\ repeats' = repeats
      BY <2>1, <2>3 DEF Released
    <3>2. seats[s].key \in fingers[s] => seats[s].key \in fingers'[s]
      BY <1>3, <2>3
    <3> QED
      BY <1>1, <1>2, <1>3, <2>1, <3>1, <3>2, SeatAsWas DEF SeatTyped
  <2> QED
    BY <2>2, <2>3
<1> QED
  BY <1>4, <1>5

LEMMA RepeatInfoKeeps ==
  ASSUME SeatIInv, NEW s \in Seats, RepeatInfo(s) PROVE SeatIInv'
<1>1. /\ SeatTyped /\ seats[s] \in SeatStates /\ Exactly(seats[s], scrolls[s])
      /\ seats[s].keyboard \/ seats[s].pointer => seats[s].bound
  BY SeatHas
<1>2. PICK rate \in Rates :
        seats' = [seats EXCEPT ![s] = [@ EXCEPT !.key = 0, !.rate = rate, !.source = 0]]
  BY DEF RepeatInfo
<1> DEFINE q == [seats[s] EXCEPT !.key = 0, !.rate = rate, !.source = 0]
<1>3. seats' = [seats EXCEPT ![s] = q] /\ repeats' = {r \in repeats : r.seat # s}
  BY <1>2, OwnTimers DEF RepeatInfo, CancelRepeat
<1>4. rate \in Nat
  BY SeatAssumption
<1>5. /\ q \in SeatStates /\ q.source = 0 /\ q.keyboard = seats[s].keyboard
      /\ q.pointer = seats[s].pointer /\ q.bound = seats[s].bound
      /\ SameScroll(q, seats[s])
  BY <1>1, <1>4 DEF SeatStates, SameScroll
<1> HIDE DEF q
<1>6. UNCHANGED <<view, fingers, focus, scrolls>>
  BY DEF RepeatInfo
<1>7. Exactly(q, scrolls'[s])
  BY <1>1, <1>5, <1>6 DEF Exactly, Reported, SameScroll
<1> QED
  BY <1>1, <1>3, <1>5, <1>6, <1>7, SeatCleared DEF SeatTyped

(* A timer fires: another takes its place, or none, or it goes on. *)
LEMMA TimersKeep ==
  ASSUME SeatIInv, NEW r \in repeats, DelayOver(r) \/ RepeatKey(r) PROVE SeatIInv'
<1> DEFINE s == r.seat
           none == [seats[s] EXCEPT !.source = 0]
<1>1. s \in Seats
  BY DEF SeatIInv, SeatTyped, Timers
<1>2. /\ SeatTyped /\ seats[s] \in SeatStates /\ Exactly(seats[s], scrolls[s])
      /\ seats[s].keyboard \/ seats[s].pointer => seats[s].bound
      /\ seats = [seats EXCEPT ![s] = seats[s]] /\ SeatHolds(s)
  BY <1>1, SeatHas DEF SeatIInv
<1>3. repeats \ {r} = {p \in repeats : p.seat # s}
  BY <1>1, OwnTimers
<1>4. /\ UNCHANGED <<fingers, focus, scrolls>> /\ view' \in BOOLEAN
  BY <1>2 DEF DelayOver, RepeatKey, Updated, SeatTyped
<1>5. /\ none \in SeatStates /\ none.source = 0 /\ none.keyboard = seats[s].keyboard
      /\ none.pointer = seats[s].pointer /\ none.bound = seats[s].bound
      /\ SameScroll(none, seats[s])
  BY <1>2 DEF SeatStates, SameScroll
<1>6. Exactly(none, scrolls'[s])
  BY <1>2, <1>4, <1>5 DEF Exactly, Reported, SameScroll
<1>7. ASSUME seats' = [seats EXCEPT ![s] = none], repeats' = repeats \ {r} PROVE SeatIInv'
  <2> HIDE DEF none, s
  <2> QED
    BY <1>1, <1>2, <1>3, <1>4, <1>5, <1>6, <1>7, SeatCleared DEF SeatTyped
<1>8. CASE RepeatKey(r)
  <2>1. CASE seats[s].key # 0 /\ view
    <3>1. seats' = seats /\ repeats' = repeats
      BY <1>8, <2>1 DEF RepeatKey
    <3> HIDE DEF s
    <3> QED
      BY <1>1, <1>2, <1>4, <3>1, SeatAsWas DEF SeatTyped
  <2>2. CASE ~(seats[s].key # 0 /\ view)
    BY <1>7, <1>8, <2>2 DEF RepeatKey
  <2> QED
    BY <2>1, <2>2
<1>9. CASE DelayOver(r)
  <2> DEFINE n == NewSource
             q == [seats[s] EXCEPT !.source = n]
             again == seats[s].key # 0 /\ view /\ seats[s].rate > 0
  <2>1. CASE ~again
    <3>1. seats' = [seats EXCEPT ![s] = none] /\ repeats' = repeats \ {r}
      BY <1>9, <2>1 DEF DelayOver
    <3> QED
      BY <1>7, <3>1
  <2>2. CASE again
    <3>1. /\ seats' = [seats EXCEPT ![s] = q]
          /\ repeats' = (repeats \ {r})
                          \cup {[id |-> NewSource, seat |-> s, kind |-> "repeat"]}
      BY <1>9, <2>2 DEF DelayOver
    <3>2. n \in Nat /\ n = NewSource
      BY NewSourceFresh
    <3> HIDE DEF n
    <3>3. /\ q \in SeatStates /\ q.source = NewSource /\ q.key = seats[s].key
          /\ q.keyboard = seats[s].keyboard /\ q.bound = seats[s].bound
          /\ SameScroll(q, seats[s]) /\ q.strayed = seats[s].strayed
      BY <1>2, <3>2 DEF SeatStates, SameScroll
    <3> HIDE DEF q
    <3>4. Exactly(q, scrolls'[s])
      BY <1>2, <1>4, <3>3 DEF Exactly, Reported, SameScroll
    <3>5. /\ seats[s].keyboard /\ seats[s].key # 0
          /\ seats[s].strayed \/ (focus = s /\ seats[s].key \in fingers[s])
      BY <1>2 DEF SeatHolds
    <3> HIDE DEF s
    <3>6. /\ q.keyboard /\ q.bound /\ q.key # 0
          /\ q.strayed \/ (focus' = s /\ q.key \in fingers'[s])
      BY <1>2, <1>4, <3>3, <3>5
    <3> QED
      BY <1>1, <1>2, <1>3, <1>4, <3>1, <3>3, <3>4, <3>6, SeatTimed DEF SeatTyped
  <2> QED
    BY <2>1, <2>2
<1> QED
  BY <1>8, <1>9

(* C's division loses less than its divisor, and what is left goes on. *)
LEMMA Halved ==
  ASSUME NEW n \in Int
  PROVE  /\ Quotient(n, 2) \in Int /\ Magnitude(2 * Quotient(n, 2) - n) <= 1
         /\ \A k \in Int : n = 2 * k => Quotient(n, 2) = k
<1>1. CASE n < 0
  <2> DEFINE m == -n
  <2>1. m \in Nat /\ m = -n /\ n = -m
    BY <1>1
  <2> HIDE DEF m
  <2>2. m \div 2 \in Int /\ 2 * (m \div 2) <= m /\ m <= 2 * (m \div 2) + 1
    BY <2>1
  <2>3. Quotient(n, 2) = -(m \div 2)
    BY <1>1, <2>1 DEF Quotient
  <2> QED
    BY <2>1, <2>2, <2>3 DEF Magnitude
<1>2. CASE n >= 0
  <2>2. n \div 2 \in Int /\ 2 * (n \div 2) <= n /\ n <= 2 * (n \div 2) + 1
    BY <1>2
  <2>3. Quotient(n, 2) = n \div 2
    BY <1>2 DEF Quotient
  <2> QED
    BY <2>2, <2>3 DEF Magnitude
<1> QED
  BY <1>1, <1>2

LEMMA TicksAndRest ==
  ASSUME NEW n \in Int
  PROVE  /\ Quotient(n, 120) \in Int /\ Remainder(n) \in Int
         /\ 120 * Quotient(n, 120) + Remainder(n) = n
<1>1. CASE n < 0
  <2> DEFINE m == -n
  <2>1. m \in Nat /\ m = -n /\ n = -m /\ Magnitude(n) = m
    BY <1>1 DEF Magnitude
  <2> HIDE DEF m
  <2>2. m \div 120 \in Int /\ m % 120 \in Int /\ 120 * (m \div 120) + (m % 120) = m
        /\ m % 120 \in 0..119
    BY <2>1
  <2>3. Quotient(n, 120) = -(m \div 120)
    BY <1>1, <2>1 DEF Quotient
  <2>4. Remainder(n) = -(m % 120)
    BY <1>1, <2>1, <2>2 DEF Remainder
  <2> QED
    BY <2>1, <2>2, <2>3, <2>4
<1>2. CASE n >= 0
  <2>2. n \div 120 \in Int /\ n % 120 \in Int /\ 120 * (n \div 120) + (n % 120) = n
        /\ n % 120 \in 0..119
    BY <1>2
  <2>3. Quotient(n, 120) = n \div 120
    BY <1>2 DEF Quotient
  <2>4. Remainder(n) = n % 120
    BY <1>2, <2>2 DEF Remainder, Magnitude
  <2> QED
    BY <2>2, <2>3, <2>4
<1> QED
  BY <1>1, <1>2

LEMMA PointerMoved ==
  ASSUME SeatIInv, NEW s \in Seats, NEW q \in SeatStates, seats' = [seats EXCEPT ![s] = q],
         q.bound = seats[s].bound, q.keyboard = seats[s].keyboard,
         q.pointer = seats[s].pointer, q.key = seats[s].key, q.source = seats[s].source,
         q.strayed = seats[s].strayed, UNCHANGED <<repeats, fingers, focus>>,
         view' \in BOOLEAN, NEW c \in Scrolled, scrolls' = [scrolls EXCEPT ![s] = c],
         Exactly(q, c)
  PROVE  SeatIInv'
<1>1. /\ SeatTyped
      /\ seats[s].keyboard \/ seats[s].pointer => seats[s].bound
  BY SeatHas
<1>2. /\ scrolls' \in [Seats -> Scrolled] /\ scrolls'[s] = c
      /\ \A t \in Seats : t # s => scrolls'[t] = scrolls[t]
  BY <1>1 DEF SeatTyped
<1> QED
  BY <1>1, <1>2, SeatAsWas DEF SeatTyped

LEMMA PointerKeeps ==
  ASSUME SeatIInv, NEW s \in Seats, PointerMotion(s) \/ PointerButton(s) PROVE SeatIInv'
<1>1. /\ SeatTyped /\ seats[s] \in SeatStates /\ Exactly(seats[s], scrolls[s])
      /\ scrolls[s] \in Scrolled
  BY SeatHas
<1>2. /\ UNCHANGED <<repeats, fingers, focus, scrolls>> /\ view' = view
      /\ scrolls' = [scrolls EXCEPT ![s] = scrolls[s]] /\ view' \in BOOLEAN
  BY <1>1 DEF PointerMotion, PointerButton, SeatTyped
<1>3. CASE PointerMotion(s)
  <2>1. PICK inside \in {TRUE, ~Capture} : seats' = [seats EXCEPT ![s].inside = inside]
    BY <1>3 DEF PointerMotion
  <2> DEFINE q == [seats[s] EXCEPT !.inside = inside]
  <2>2. inside \in BOOLEAN
    OBVIOUS
  <2>3. seats' = [seats EXCEPT ![s] = q]
    BY <2>1
  <2>4. /\ q \in SeatStates /\ q.source = seats[s].source /\ q.key = seats[s].key
        /\ q.keyboard = seats[s].keyboard /\ q.pointer = seats[s].pointer
        /\ q.bound = seats[s].bound /\ SameScroll(q, seats[s])
        /\ q.strayed = seats[s].strayed
    BY <1>1, <2>2 DEF SeatStates, SameScroll
  <2> HIDE DEF q
  <2>5. Exactly(q, scrolls[s])
    BY <1>1, <2>4 DEF Exactly, Reported, SameScroll
  <2> QED
    BY <1>1, <1>2, <2>3, <2>4, <2>5, PointerMoved
<1>4. CASE PointerButton(s)
  <2>1. PICK how \in {"press", "release"} : seats' = [seats EXCEPT ![s].button = how]
    BY <1>4 DEF PointerButton
  <2> DEFINE q == [seats[s] EXCEPT !.button = how]
  <2>3. seats' = [seats EXCEPT ![s] = q]
    BY <2>1
  <2>4. /\ q \in SeatStates /\ q.source = seats[s].source /\ q.key = seats[s].key
        /\ q.keyboard = seats[s].keyboard /\ q.pointer = seats[s].pointer
        /\ q.bound = seats[s].bound /\ SameScroll(q, seats[s])
        /\ q.strayed = seats[s].strayed
    BY <1>1 DEF SeatStates, SameScroll
  <2> HIDE DEF q
  <2>5. Exactly(q, scrolls[s])
    BY <1>1, <2>4 DEF Exactly, Reported, SameScroll
  <2> QED
    BY <1>1, <1>2, <2>3, <2>4, <2>5, PointerMoved
<1> QED
  BY <1>3, <1>4

LEMMA PointerAxisKeeps ==
  ASSUME SeatIInv, NEW s \in Seats, PointerAxis(s) PROVE SeatIInv'
<1> DEFINE was == seats[s]
           sent == scrolls[s]
<1>1. /\ SeatTyped /\ was \in SeatStates /\ Exactly(was, sent) /\ sent \in Scrolled
  BY SeatHas
<1>2. UNCHANGED <<repeats, fingers, focus>> /\ view' \in BOOLEAN
  BY <1>1 DEF PointerAxis, SeatTyped
<1>3. ASSUME NEW v \in Notches,
             seats' = [seats EXCEPT ![s] =
                         [seats[s] EXCEPT !.wheel = @ + v, !.continuous = @ + v,
                                          !.finger = FALSE]],
             scrolls' = [scrolls EXCEPT ![s] =
                           [scrolls[s] EXCEPT !.count = @ + 1, !.received = @ + 2 * v,
                                              !.devices = @ \cup {"wheel"}]]
      PROVE  SeatIInv'
  <2> DEFINE a == was.wheel + v
             b == was.continuous + v
             n == sent.count + 1
             m == sent.received + 2 * v
             all == sent.devices \cup {"wheel"}
             q == [was EXCEPT !.wheel = a, !.continuous = b, !.finger = FALSE]
             c == [sent EXCEPT !.count = n, !.received = m, !.devices = all]
  <2>1. seats' = [seats EXCEPT ![s] = q] /\ scrolls' = [scrolls EXCEPT ![s] = c]
    BY <1>3
  <2>2. v \in Int /\ a \in Int /\ b \in Int /\ n \in Nat /\ m \in Int
    BY <1>1, SeatAssumption DEF SeatStates, Scrolled
  <2>3. /\ a = was.wheel + v /\ m = sent.received + 2 * v
        /\ all \in SUBSET {"wheel", "finger"} /\ "wheel" \in all
        /\ all = {"wheel"} => sent.devices \in {{}, {"wheel"}}
    BY <1>1 DEF Scrolled
  <2> HIDE DEF a, b, n, m, all
  <2>4. /\ q \in SeatStates /\ q.source = was.source /\ q.key = was.key
        /\ q.keyboard = was.keyboard /\ q.pointer = was.pointer
        /\ q.bound = was.bound /\ q.wheel = a /\ q.strayed = was.strayed /\ ~q.finger
    BY <1>1, <2>2 DEF SeatStates
  <2>5. /\ c \in Scrolled /\ c.received = m /\ c.ticks = sent.ticks
        /\ c.swiped = sent.swiped /\ c.devices = all /\ c.underway = sent.underway
        /\ c.mixed = sent.mixed
    BY <1>1, <2>2, <2>3 DEF Scrolled
  <2>6. /\ was.wheel \in Int /\ sent.ticks \in Int /\ sent.received \in Int
    BY <1>1 DEF SeatStates, Scrolled
  <2> HIDE DEF q, c, was, sent
  <2>7. Exactly(q, c)
    <3>1. 2 * (120 * c.ticks + q.wheel) - c.received
            = 2 * (120 * sent.ticks + was.wheel) - sent.received
      BY <2>2, <2>3, <2>4, <2>5, <2>6
    <3>2. was.bound => Reported(q, c)
      BY <1>1, <2>3, <2>4, <2>5 DEF Exactly, Reported
    <3> QED
      BY <1>1, <2>4, <2>5, <3>1, <3>2 DEF Exactly
  <2> QED
    BY <1>1, <1>2, <2>1, <2>4, <2>5, <2>7, PointerMoved DEF was
<1>4. ASSUME NEW v \in Swipes,
             seats' = [seats EXCEPT ![s] =
                         [seats[s] EXCEPT !.continuous = @ + v, !.finger = TRUE]],
             scrolls' = [scrolls EXCEPT ![s] =
                           [scrolls[s] EXCEPT !.count = @ + 1, !.underway = @ + v,
                                              !.devices = @ \cup {"finger"}]]
      PROVE  SeatIInv'
  <2> DEFINE b == was.continuous + v
             n == sent.count + 1
             m == sent.underway + v
             all == sent.devices \cup {"finger"}
             q == [was EXCEPT !.continuous = b, !.finger = TRUE]
             c == [sent EXCEPT !.count = n, !.underway = m, !.devices = all]
  <2>1. seats' = [seats EXCEPT ![s] = q] /\ scrolls' = [scrolls EXCEPT ![s] = c]
    BY <1>4
  <2>2. b \in Int /\ n \in Nat /\ m \in Int
    BY <1>1, SeatAssumption DEF SeatStates, Scrolled
  <2>3. /\ all \in SUBSET {"wheel", "finger"} /\ "finger" \in all
        /\ all = {"finger"} => sent.devices \in {{}, {"finger"}}
    BY <1>1 DEF Scrolled
  <2>6. was.bound /\ sent.devices \in {{}, {"finger"}} => b = m
    BY <1>1 DEF Exactly, Reported
  <2> HIDE DEF b, n, m, all
  <2>4. /\ q \in SeatStates /\ q.source = was.source /\ q.key = was.key
        /\ q.keyboard = was.keyboard /\ q.pointer = was.pointer
        /\ q.bound = was.bound /\ q.wheel = was.wheel /\ q.strayed = was.strayed
        /\ q.finger /\ q.continuous = b
    BY <1>1, <2>2 DEF SeatStates
  <2>5. /\ c \in Scrolled /\ c.received = sent.received /\ c.ticks = sent.ticks
        /\ c.swiped = sent.swiped /\ c.devices = all /\ c.underway = m
        /\ c.mixed = sent.mixed
    BY <1>1, <2>2, <2>3 DEF Scrolled
  <2> HIDE DEF q, c
  <2>7. Exactly(q, c)
    <3>1. was.bound => Reported(q, c)
      BY <2>3, <2>4, <2>5, <2>6 DEF Reported
    <3> QED
      BY <1>1, <2>4, <2>5, <3>1 DEF Exactly
  <2> QED
    BY <1>1, <1>2, <2>1, <2>4, <2>5, <2>7, PointerMoved
<1> QED
  BY <1>3, <1>4 DEF PointerAxis

LEMMA PointerFrameKeeps ==
  ASSUME SeatIInv, NEW s \in Seats, PointerFrame(s) PROVE SeatIInv'
<1> DEFINE was == seats[s]
           sent == scrolls[s]
<1>1. /\ SeatTyped /\ was \in SeatStates /\ Exactly(was, sent) /\ sent \in Scrolled
      /\ seats = [seats EXCEPT ![s] = was] /\ scrolls = [scrolls EXCEPT ![s] = sent]
  BY SeatHas DEF SeatTyped
<1>2. UNCHANGED <<repeats, fingers, focus>>
  BY DEF PointerFrame
<1>3. CASE ~view
  <2>1. UNCHANGED <<seats, view, scrolls>>
    BY <1>3 DEF PointerFrame
  <2> HIDE DEF was, sent
  <2> QED
    BY <1>1, <1>2, <2>1, PointerMoved DEF was, SeatTyped
<1>4. CASE view /\ Capture /\ seats[s].button = "press" /\ ~seats[s].inside
  <2> DEFINE q == [was EXCEPT !.button = "none"]
  <2>1. seats' = [seats EXCEPT ![s] = q] /\ UNCHANGED scrolls /\ view' \in BOOLEAN
    BY <1>1, <1>4 DEF PointerFrame, Updated, SeatTyped
  <2>2. /\ q \in SeatStates /\ q.source = was.source /\ q.key = was.key
        /\ q.keyboard = was.keyboard /\ q.pointer = was.pointer
        /\ q.bound = was.bound /\ SameScroll(q, was) /\ q.strayed = was.strayed
    BY <1>1 DEF SeatStates, SameScroll
  <2> HIDE DEF q, sent
  <2>3. Exactly(q, sent)
    BY <1>1, <2>2 DEF Exactly, Reported, SameScroll
  <2> HIDE DEF was
  <2> QED
    BY <1>1, <1>2, <2>1, <2>2, <2>3, PointerMoved DEF was
<1>5. CASE view /\ ~(Capture /\ seats[s].button = "press" /\ ~seats[s].inside)
  <2> DEFINE x == IF was.finger THEN was.continuous ELSE 0
             n == Quotient(2 * was.wheel + x, 2)
             rest == Remainder(n)
             ticked == sent.ticks + Quotient(n, 120)
             way == sent.underway
             got == sent.received + way
             often == IF way # 0 THEN sent.swiped + 1 ELSE sent.swiped
             both == sent.mixed \/ sent.devices = {"wheel", "finger"}
             q == [was EXCEPT !.button = "none", !.wheel = rest,
                              !.continuous = 0, !.finger = FALSE]
             c == [sent EXCEPT !.received = got, !.ticks = ticked, !.swiped = often,
                               !.mixed = both, !.devices = {}, !.underway = 0]
  <2>1. seats' = [seats EXCEPT ![s] = q] /\ scrolls' = [scrolls EXCEPT ![s] = c]
    BY <1>5 DEF PointerFrame, FrameTaken
  <2>2. view' \in BOOLEAN
    BY <1>1, <1>5 DEF PointerFrame, Updated, SeatTyped
  <2>3. /\ x \in Int /\ was.wheel \in Int /\ sent.ticks \in Int /\ sent.received \in Int
        /\ sent.swiped \in Nat /\ way \in Int /\ both \in BOOLEAN
    BY <1>1 DEF SeatStates, Scrolled
  <2>12. was.bound /\ ~both => x = way /\ ~sent.mixed
    <3>1. ~both => sent.devices \in {{}, {"wheel"}, {"finger"}}
      BY <1>1 DEF Scrolled
    <3> QED
      BY <1>1, <3>1 DEF Exactly, Reported
  <2> HIDE DEF x, way, both
  <2>4. /\ n \in Int /\ Magnitude(2 * n - (2 * was.wheel + x)) <= 1
        /\ x = 0 => n = was.wheel
    <3>1. 2 * was.wheel + x \in Int /\ (x = 0 => 2 * was.wheel + x = 2 * was.wheel)
      BY <2>3
    <3> QED
      BY <2>3, <3>1, Halved
  <2> HIDE DEF n
  <2>5. Quotient(n, 120) \in Int /\ rest \in Int /\ 120 * Quotient(n, 120) + rest = n
    BY <2>4, TicksAndRest
  <2> HIDE DEF rest
  <2>6. ticked \in Int /\ got \in Int /\ often \in Nat
    BY <2>3, <2>5
  <2>7. x = way =>
          Magnitude(2 * (120 * ticked + rest) - got)
          <= Magnitude(2 * (120 * sent.ticks + was.wheel) - sent.received)
               + (IF x # 0 THEN 1 ELSE 0)
    <3> DEFINE a == 2 * (120 * sent.ticks + was.wheel) - sent.received
               b == 2 * n - (2 * was.wheel + x)
    <3>1. x = way => 2 * (120 * ticked + rest) - got = a + b
      BY <2>3, <2>4, <2>5
    <3>2. a \in Int /\ b \in Int /\ (x = 0 => b = 0)
      BY <2>3, <2>4
    <3> HIDE DEF a, b
    <3> QED
      BY <2>4, <3>1, <3>2 DEF Magnitude, a, b
  <2>8. often = sent.swiped + (IF way # 0 THEN 1 ELSE 0)
    BY <2>3
  <2> HIDE DEF ticked, got, often
  <2>9. /\ q \in SeatStates /\ q.source = was.source /\ q.key = was.key
        /\ q.keyboard = was.keyboard /\ q.pointer = was.pointer
        /\ q.bound = was.bound /\ q.wheel = rest /\ q.strayed = was.strayed
        /\ ~q.finger /\ q.continuous = 0
    <3> DEFINE p == [was EXCEPT !.button = "none", !.wheel = rest]
    <3>1. /\ p \in SeatStates /\ p.source = was.source /\ p.key = was.key
          /\ p.keyboard = was.keyboard /\ p.pointer = was.pointer
          /\ p.bound = was.bound /\ p.wheel = rest /\ p.strayed = was.strayed
      BY <1>1, <2>5 DEF SeatStates
    <3>2. q = [p EXCEPT !.continuous = 0, !.finger = FALSE]
      OBVIOUS
    <3> HIDE DEF p, q, was
    <3>3. /\ q.source = p.source /\ q.key = p.key /\ q.keyboard = p.keyboard
          /\ q.pointer = p.pointer /\ q.bound = p.bound /\ q.wheel = p.wheel
          /\ q.strayed = p.strayed
      BY <3>1, <3>2 DEF SeatStates
    <3>5. ~q.finger /\ q.continuous = 0
      BY <3>1, <3>2 DEF SeatStates
    <3>4. q \in SeatStates
      <4> DEFINE o == [p EXCEPT !.continuous = 0]
      <4>1. o \in SeatStates
        BY <3>1 DEF SeatStates
      <4>2. q = [o EXCEPT !.finger = FALSE]
        BY <3>2
      <4> HIDE DEF o
      <4> QED
        BY <4>1, <4>2 DEF SeatStates
    <3> QED
      BY <3>1, <3>3, <3>4, <3>5
  <2>10. /\ c \in Scrolled /\ c.received = got /\ c.ticks = ticked /\ c.swiped = often
         /\ c.mixed = both /\ c.devices = {} /\ c.underway = 0
    <3> DEFINE p == [sent EXCEPT !.received = got, !.ticks = ticked, !.swiped = often]
    <3>1. p \in Scrolled /\ p.received = got /\ p.ticks = ticked /\ p.swiped = often
      BY <1>1, <2>6 DEF Scrolled
    <3>2. c = [p EXCEPT !.mixed = both, !.devices = {}, !.underway = 0]
      OBVIOUS
    <3> HIDE DEF p, c, sent
    <3> DEFINE o == [p EXCEPT !.devices = {}, !.underway = 0]
    <3>3. /\ o \in Scrolled /\ o.received = got /\ o.ticks = ticked /\ o.swiped = often
          /\ o.devices = {} /\ o.underway = 0
      <4> DEFINE a == [p EXCEPT !.devices = {}]
      <4>1. a \in Scrolled
        BY <3>1 DEF Scrolled
      <4>2. /\ a.received = got /\ a.ticks = ticked /\ a.swiped = often
            /\ a.devices = {}
        BY <3>1 DEF Scrolled
      <4>3. o = [a EXCEPT !.underway = 0]
        BY <3>1 DEF Scrolled
      <4> HIDE DEF a, o
      <4> QED
        BY <4>1, <4>2, <4>3 DEF Scrolled
    <3>4. c = [o EXCEPT !.mixed = both]
      BY <3>1, <3>2 DEF Scrolled
    <3> HIDE DEF o
    <3>5. /\ c.received = o.received /\ c.ticks = o.ticks /\ c.swiped = o.swiped
          /\ c.devices = o.devices /\ c.underway = o.underway /\ c.mixed = both
      BY <3>3, <3>4 DEF Scrolled
    <3>6. c \in Scrolled
      BY <2>3, <3>3, <3>4 DEF Scrolled
    <3> QED
      BY <3>3, <3>5, <3>6
  <2> HIDE DEF q, c, was, sent
  <2>11. Exactly(q, c)
    <3> DEFINE a == Magnitude(2 * (120 * sent.ticks + was.wheel) - sent.received)
               b == Magnitude(2 * (120 * ticked + rest) - got)
    <3>1. a \in Int /\ b \in Int
      BY <2>3, <2>5, <2>6 DEF Magnitude
    <3>2. was.bound /\ ~sent.mixed => a <= sent.swiped
      BY <1>1 DEF Exactly
    <3>3. x = way => b <= a + (IF x # 0 THEN 1 ELSE 0)
      BY <2>7
    <3> HIDE DEF a, b
    <3>4. was.bound /\ ~both => b <= often
      BY <2>3, <2>6, <2>8, <2>12, <3>1, <3>2, <3>3
    <3>5. Reported(q, c)
      BY <2>9, <2>10 DEF Reported
    <3> QED
      BY <2>9, <2>10, <3>4, <3>5 DEF Exactly, b
  <2> QED
    BY <1>1, <1>2, <2>1, <2>2, <2>9, <2>10, <2>11, PointerMoved DEF was
<1> QED
  BY <1>3, <1>4, <1>5

LEMMA SeatStarts ==
  ASSUME NEW on \in BOOLEAN, SeatInit(on) PROVE SeatIInv
<1> DEFINE n == IF on THEN 0 ELSE MaxScrolls
           c == NothingSent(n)
<1>1. Unbound \in SeatStates /\ ~Unbound.bound /\ ~Unbound.keyboard /\ ~Unbound.pointer
      /\ Unbound.source = 0
  BY UnboundIs
<1>2. c \in Scrolled
  <2>1. n \in Nat
    BY SeatAssumption
  <2> QED
    BY <2>1 DEF Scrolled, NothingSent
<1>3. scrolls = [s \in Seats |-> c]
  BY DEF SeatInit
<1> HIDE DEF c
<1>4. SeatTyped
  BY <1>1, <1>2, <1>3 DEF SeatTyped, SeatInit
<1>5. repeats = {} /\ \A s \in Seats : seats[s] = Unbound
  BY DEF SeatInit
<1> QED
  BY <1>1, <1>4, <1>5 DEF SeatIInv, TimersDiffer, SeatHolds, Exactly

LEMMA SeatKept ==
  ASSUME SeatIInv, [SeatNext]_seatVars PROVE SeatIInv'
<1>1. CASE UNCHANGED seatVars
  BY <1>1 DEF seatVars, SeatIInv, SeatTyped, TimersDiffer, SeatHolds, Exactly
<1>2. CASE SeatStep
  <2>1. ASSUME NEW s \in Seats, SeatAdded(s) \/ SeatRemoved(s) PROVE SeatIInv'
    BY <2>1, SeatComesAndGoes
  <2>2. ASSUME NEW s \in Seats, Capabilities(s) PROVE SeatIInv'
    BY <2>2, CapabilitiesKeep
  <2>3. CASE (\E s \in Seats : KeyboardEnter(s)) \/ KeyboardLeave
    BY <2>3, FocusKeeps
  <2>4. ASSUME NEW s \in Seats, NEW k \in KeyCodes, KeyDown(s, k) \/ KeyUp(s, k)
        PROVE  SeatIInv'
    BY <2>4, KeyDownKeeps, KeyUpKeeps
  <2>5. ASSUME NEW s \in Seats, RepeatInfo(s) PROVE SeatIInv'
    BY <2>5, RepeatInfoKeeps
  <2>6. ASSUME NEW r \in repeats, DelayOver(r) \/ RepeatKey(r) PROVE SeatIInv'
    BY <2>6, TimersKeep
  <2>7. ASSUME NEW s \in Seats,
               \/ PointerMotion(s) \/ PointerButton(s) \/ PointerAxis(s) \/ PointerFrame(s)
        PROVE  SeatIInv'
    BY <2>7, PointerKeeps, PointerAxisKeeps, PointerFrameKeeps
  <2>8. CASE ViewOpens
    BY <2>8 DEF ViewOpens, SeatIInv, SeatTyped, TimersDiffer, SeatHolds, Exactly
  <2> QED
    BY <1>2, <2>1, <2>2, <2>3, <2>4, <2>5, <2>6, <2>7, <2>8 DEF SeatStep
<1> QED
  BY <1>1, <1>2 DEF SeatNext
--------------------------------------------------------------------------------
(* What is shown on Wayland: pools of buffers, and outputs.                     *)

BufferStates == {"free", "held", "gone"}
Pools == [scale : Nat, toFree : BOOLEAN, freed : BOOLEAN,
          buffers : [1..Buffers -> BufferStates]]

(* A pool that is dropped has no buffer to give, and is unmapped when none is   *)
(* held any more.                                                               *)
PoolKept(pool) ==
  /\ pool \in Pools
  /\ pool.toFree => \A b \in 1..Buffers : pool.buffers[b] # "free"
  /\ pool.freed <=> pool.toFree /\ \A b \in 1..Buffers : pool.buffers[b] # "held"

(* A picture of the screen: each view has a pool there is, and a frame was      *)
(* committed at its pool's scale.                                               *)
Pictures == [views : Seq(Nat), pools : Seq(Pools), shown : [pool : Nat, scale : Nat]]
PictureKept(w) ==
  /\ w \in Pictures
  /\ \A i \in 1..Len(w.views) : w.views[i] <= Len(w.pools)
  /\ \A p \in 1..Len(w.pools) : PoolKept(w.pools[p])
  /\ w.shown.pool <= Len(w.pools)
  /\ w.shown.pool # 0 => w.pools[w.shown.pool].scale = w.shown.scale

(* The pool of the view on top, if it has one, is made for the scale x.         *)
TopFits(w, x) ==
  w.views # <<>> /\ Last(w.views) # 0 => w.pools[Last(w.views)].scale = x

OutputStates == [bound : BOOLEAN, pending : Scales, current : Scales, xdg : BOOLEAN]
Globals == [compositor : BOOLEAN, shell : BOOLEAN, manager : BOOLEAN]
SurfaceIInv ==
  /\ PictureKept(Now) /\ TopFits(Now, scale) /\ scale \in Nat
  /\ outputs \in [Monitors -> OutputStates] /\ globals \in Globals
  /\ changes.late \in BOOLEAN /\ changes = [count |-> changes.count, late |-> changes.late]
  /\ OutputsDescribed

LEMMA SurfaceEnough == SurfaceIInv => FramesFit /\ OutputsDescribed
<1> SUFFICES ASSUME SurfaceIInv PROVE FramesFit
  BY DEF SurfaceIInv
<1>1. /\ Now.pools = pools /\ Now.shown = shown
  BY DEF Now
<1>2. /\ shown.pool # 0 => pools[shown.pool].scale = shown.scale
      /\ \A p \in 1..Len(pools) : PoolKept(pools[p])
  BY <1>1 DEF SurfaceIInv, PictureKept
<1>3. DOMAIN pools = 1..Len(pools)
  <2>1. pools \in Seq(Pools)
    BY <1>1 DEF SurfaceIInv, PictureKept, Pictures
  <2> QED
    BY <2>1, LenProperties
<1>4. ASSUME NEW p \in DOMAIN pools
      PROVE  pools[p].freed <=>
               pools[p].toFree /\ {b \in 1..Buffers : pools[p].buffers[b] = "held"} = {}
  <2>1. pools[p].freed <=>
          pools[p].toFree /\ \A b \in 1..Buffers : pools[p].buffers[b] # "held"
    BY <1>2, <1>3 DEF PoolKept
  <2>2. {b \in 1..Buffers : pools[p].buffers[b] = "held"} = {}
          <=> \A b \in 1..Buffers : pools[p].buffers[b] # "held"
    OBVIOUS
  <2> QED
    BY <2>1, <2>2
<1> QED
  BY <1>2, <1>4 DEF FramesFit

(* A buffer is given or comes back; a pool is dropped. *)
LEMMA CleanupKept ==
  ASSUME NEW pool \in Pools, ~pool.toFree => PoolKept(pool)
  PROVE  PoolKept(Cleanup(pool)) /\ Cleanup(pool).scale = pool.scale
<1>1. CASE ~pool.toFree
  BY <1>1 DEF Cleanup
<1>2. CASE pool.toFree
  <2> DEFINE left == [b \in 1..Buffers |->
                        IF pool.buffers[b] = "free" THEN "gone" ELSE pool.buffers[b]]
             f == \A b \in 1..Buffers : left[b] = "gone"
             r == Cleanup(pool)
  <2>1. pool.buffers \in [1..Buffers -> BufferStates]
    BY DEF Pools
  <2>2. /\ left \in [1..Buffers -> BufferStates]
        /\ \A b \in 1..Buffers : left[b] # "free"
    BY <2>1 DEF BufferStates
  <2>3. f <=> \A b \in 1..Buffers : left[b] # "held"
    BY <2>2 DEF BufferStates
  <2>4. r = [pool EXCEPT !.buffers = left, !.freed = f]
    BY <1>2 DEF Cleanup
  <2>5. f \in BOOLEAN
    OBVIOUS
  <2> HIDE DEF left, f, r
  <2>6. /\ r \in Pools /\ r.buffers = left /\ r.freed = f /\ r.toFree = pool.toFree
        /\ r.scale = pool.scale
    BY <2>2, <2>4, <2>5 DEF Pools
  <2> QED
    BY <1>2, <2>2, <2>3, <2>6 DEF PoolKept, r
<1> QED
  BY <1>1, <1>2

(* One pool of a picture is replaced by another of its scale. *)
LEMMA PoolReplaced ==
  ASSUME NEW all \in Seq(Pools), NEW p \in 1..Len(all), NEW pool \in Pools,
         pool.scale = all[p].scale
  PROVE  LET r == [all EXCEPT ![p] = pool]
         IN /\ r \in Seq(Pools) /\ Len(r) = Len(all) /\ r[p] = pool
            /\ \A q \in 1..Len(all) : q # p => r[q] = all[q]
            /\ \A q \in 1..Len(all) : r[q].scale = all[q].scale
<1> DEFINE r == [all EXCEPT ![p] = pool]
<1>1. r \in Seq(Pools) /\ Len(r) = Len(all)
  BY ExceptSeq
<1>2. DOMAIN all = 1..Len(all)
  BY LenProperties
<1>3. r[p] = pool /\ \A q \in 1..Len(all) : q # p => r[q] = all[q]
  BY <1>2
<1> QED
  BY <1>1, <1>3

LEMMA PoolFreedKept ==
  ASSUME NEW w, PictureKept(w), NEW p \in Nat, p <= Len(w.pools)
  PROVE  LET r == PoolFreed(w.pools, p)
         IN /\ r \in Seq(Pools) /\ Len(r) = Len(w.pools)
            /\ \A q \in 1..Len(w.pools) : PoolKept(r[q]) /\ r[q].scale = w.pools[q].scale
<1> DEFINE all == w.pools
           r == PoolFreed(all, p)
<1>1. all \in Seq(Pools) /\ \A q \in 1..Len(all) : PoolKept(all[q])
  BY DEF PictureKept, Pictures
<1>2. CASE p = 0
  BY <1>1, <1>2 DEF PoolFreed
<1>3. CASE p # 0
  <2> DEFINE thrown == [all[p] EXCEPT !.toFree = TRUE]
             pool == Cleanup(thrown)
  <2>1. p \in 1..Len(all) /\ all[p] \in Pools
    <3>1. Len(all) \in Nat
      BY <1>1, LenProperties
    <3> QED
      BY <1>1, <1>3, <3>1, ElementOfSeq
  <2>2. thrown \in Pools /\ thrown.toFree = TRUE /\ thrown.scale = all[p].scale
    BY <2>1 DEF Pools
  <2>3. r = [all EXCEPT ![p] = pool]
    BY <1>3 DEF PoolFreed
  <2> HIDE DEF thrown
  <2>4. PoolKept(pool) /\ pool.scale = all[p].scale
    BY <2>2, CleanupKept
  <2> HIDE DEF pool, r, all
  <2>5. pool \in Pools
    BY <2>4 DEF PoolKept
  <2>6. /\ r \in Seq(Pools) /\ Len(r) = Len(all) /\ r[p] = pool
        /\ \A q \in 1..Len(all) : q # p => r[q] = all[q]
        /\ \A q \in 1..Len(all) : r[q].scale = all[q].scale
    BY <1>1, <2>1, <2>3, <2>4, <2>5, PoolReplaced
  <2> QED
    BY <1>1, <2>4, <2>6 DEF r, all
<1> QED
  BY <1>2, <1>3

(* The first buffer that is free. *)
LEMMA FirstFree ==
  ASSUME NEW I \in SUBSET (1..Buffers), I # {}
  PROVE  (CHOOSE n \in I : \A m \in I : n <= m) \in I
<1>1. Buffers \in Nat /\ I \in SUBSET Nat
  BY SurfaceAssumption
<1> QED
  BY <1>1, Smallest

(* A commit takes a buffer of the top view's pool, and shows it at its scale.   *)
LEMMA CommittedKept ==
  ASSUME NEW w, PictureKept(w), NEW there, NEW x \in Nat, TopFits(w, x),
         w.views # <<>>, Last(w.views) # 0
  PROVE  PictureKept(Committed(w, there, x)) /\ TopFits(Committed(w, there, x), x)
<1> DEFINE p == Last(w.views)
           pool == w.pools[p]
           free == FreeBuffers(pool)
           r == Committed(w, there, x)
<1>1. CASE free = {} \/ ~there
  BY <1>1 DEF Committed
<1>2. CASE ~(free = {} \/ ~there)
  <2> DEFINE b == CHOOSE n \in free : \A m \in free : n <= m
             s == [pool |-> p, scale |-> x]
             given == [pool.buffers EXCEPT ![b] = "held"]
             filled == [pool EXCEPT !.buffers = given]
             all == [w.pools EXCEPT ![p] = filled]
  <2>1. /\ w.pools \in Seq(Pools) /\ w.views \in Seq(Nat) /\ w \in Pictures
        /\ \A i \in 1..Len(w.views) : w.views[i] <= Len(w.pools)
        /\ \A q \in 1..Len(w.pools) : PoolKept(w.pools[q])
        /\ w.shown.pool <= Len(w.pools) /\ w.shown.pool \in Nat
    BY DEF PictureKept, Pictures
  <2>2. p \in 1..Len(w.pools)
    <3>1. Len(w.views) \in 1..Len(w.views)
      BY <2>1, LenProperties, EmptySeq
    <3>2. p \in Nat /\ p <= Len(w.pools)
      BY <2>1, <3>1, ElementOfSeq DEF Last
    <3>3. Len(w.pools) \in Nat
      BY <2>1, LenProperties
    <3> QED
      BY <3>2, <3>3
  <2>3. PoolKept(pool) /\ pool.scale = x /\ pool \in Pools
    BY <2>1, <2>2 DEF TopFits, PoolKept
  <2>4. b \in free /\ free \subseteq 1..Buffers
    <3>1. free \in SUBSET (1..Buffers)
      BY DEF FreeBuffers
    <3> HIDE DEF free
    <3> QED
      BY <1>2, <3>1, FirstFree
  <2>5. b \in 1..Buffers /\ pool.buffers[b] = "free"
    BY <2>4 DEF FreeBuffers
  <2>6. r = [w EXCEPT !.pools[p].buffers[b] = "held", !.shown = s]
    BY <1>2 DEF Committed
  <2>7. r = [w EXCEPT !.pools = all, !.shown = s]
    BY <2>6
  <2> HIDE DEF b, r, pool, free
  <2>8. given \in [1..Buffers -> BufferStates] /\ ~pool.toFree /\ ~pool.freed
    <3>1. pool.buffers \in [1..Buffers -> BufferStates]
      BY <2>3 DEF Pools
    <3> QED
      BY <2>3, <2>5, <3>1 DEF BufferStates, PoolKept
  <2> HIDE DEF given
  <2>9. /\ filled \in Pools /\ filled.scale = x /\ filled.toFree = pool.toFree
        /\ filled.freed = pool.freed
    BY <2>3, <2>8 DEF Pools
  <2> HIDE DEF filled
  <2>10. PoolKept(filled)
    BY <2>8, <2>9 DEF PoolKept
  <2>11. /\ all \in Seq(Pools) /\ Len(all) = Len(w.pools) /\ all[p] = filled
         /\ \A q \in 1..Len(w.pools) : q # p => all[q] = w.pools[q]
         /\ \A q \in 1..Len(w.pools) : all[q].scale = w.pools[q].scale
    <3>1. w.pools[p].scale = x
      BY <2>3 DEF pool
    <3> QED
      BY <2>1, <2>2, <2>9, <3>1, PoolReplaced
  <2>12. s \in [pool : Nat, scale : Nat] /\ s.pool = p /\ s.scale = x
    BY <2>2
  <2> HIDE DEF all, s
  <2>13. /\ r \in Pictures /\ r.pools = all /\ r.shown = s /\ r.views = w.views
    BY <2>1, <2>7, <2>11, <2>12 DEF Pictures
  <2>14. \A q \in 1..Len(all) : PoolKept(all[q])
    BY <2>1, <2>10, <2>11
  <2>15. all[p].scale = x /\ p <= Len(all)
    BY <2>2, <2>9, <2>11
  <2>16. PictureKept(r)
    BY <2>1, <2>11, <2>12, <2>13, <2>14, <2>15 DEF PictureKept
  <2>17. TopFits(r, x)
    BY <2>13, <2>15 DEF TopFits
  <2> QED
    BY <2>16, <2>17 DEF r
<1> QED
  BY <1>1, <1>2

(* The last of a sequence gives way to another. *)
LEMMA LastReplaced ==
  ASSUME NEW s \in Seq(Nat), s # <<>>, NEW n \in Nat
  PROVE  LET r == Append(Front(s), n)
         IN /\ r \in Seq(Nat) /\ r # <<>> /\ Len(r) = Len(s) /\ Last(r) = n /\ r[Len(s)] = n
            /\ \A i \in 1..Len(s) : i # Len(s) => r[i] = s[i]
<1> DEFINE k == Len(s)
           f == Front(s)
           r == Append(f, n)
<1>1. k \in Nat /\ k > 0 /\ \A i \in 1..k : s[i] \in Nat
  BY LenProperties, EmptySeq, ElementOfSeq
<1>2. 1 \in Int /\ k - 1 \in Int /\ \A i \in 1..(k - 1) : s[i] \in Nat
  BY <1>1
<1>3. f = SubSeq(s, 1, k - 1)
  BY DEF Front
<1> HIDE DEF k, f
<1>4. /\ f \in Seq(Nat) /\ Len(f) = (IF 1 <= k - 1 THEN k - 1 - 1 + 1 ELSE 0)
      /\ \A i \in 1..(k - 1 - 1 + 1) : f[i] = s[1 + i - 1]
  <2>1. /\ SubSeq(s, 1, k - 1) \in Seq(Nat)
        /\ Len(SubSeq(s, 1, k - 1)) = (IF 1 <= k - 1 THEN k - 1 - 1 + 1 ELSE 0)
        /\ \A i \in 1..(k - 1 - 1 + 1) : SubSeq(s, 1, k - 1)[i] = s[1 + i - 1]
    BY <1>2, SubSeqProperties
  <2> QED
    BY <1>3, <2>1
<1>5. Len(f) = k - 1 /\ \A i \in 1..(k - 1) : f[i] = s[i]
  <2>1. Len(f) = k - 1
    BY <1>1, <1>4
  <2>2. ASSUME NEW i \in 1..(k - 1) PROVE f[i] = s[i]
    <3>1. i \in 1..(k - 1 - 1 + 1) /\ 1 + i - 1 = i
      BY <1>1
    <3>2. f[i] = s[1 + i - 1]
      BY <1>4, <3>1
    <3> QED
      BY <3>1, <3>2
  <2> QED
    BY <2>1, <2>2
<1>6. /\ r \in Seq(Nat) /\ Len(r) = k /\ r[k] = n
      /\ \A i \in 1..(k - 1) : r[i] = f[i]
  <2>1. /\ r \in Seq(Nat) /\ Len(r) = Len(f) + 1 /\ r[Len(f) + 1] = n
        /\ \A i \in 1..Len(f) : r[i] = f[i]
    BY <1>4, AppendProperties
  <2> QED
    BY <1>1, <1>5, <2>1
<1> HIDE DEF r
<1>7. r # <<>>
  BY <1>1, <1>6, EmptySeq
<1>8. Last(r) = n
  BY <1>6 DEF Last
<1>9. \A i \in 1..k : i # k => r[i] = s[i]
  BY <1>1, <1>5, <1>6
<1> QED
  BY <1>6, <1>7, <1>8, <1>9 DEF r, f, k

(* The view on top gets another pool, or none. *)
TopIs(r, w, all, p) == r = [w EXCEPT !.pools = all, !.views = Append(Front(@), p)]

LEMMA TopPool ==
  ASSUME NEW w, PictureKept(w), w.views # <<>>, NEW p \in Nat,
         NEW all \in Seq(Pools), Len(all) >= Len(w.pools), p <= Len(all),
         \A q \in 1..Len(all) : PoolKept(all[q]),
         \A q \in 1..Len(w.pools) : all[q].scale = w.pools[q].scale,
         NEW r, TopIs(r, w, all, p)
  PROVE  PictureKept(r) /\ r.pools = all /\ r.views # <<>> /\ Last(r.views) = p
<1> DEFINE v == Append(Front(w.views), p)
<1>0. r = [w EXCEPT !.pools = all, !.views = v]
  BY DEF TopIs
<1>1. /\ w.views \in Seq(Nat) /\ w \in Pictures /\ w.pools \in Seq(Pools)
      /\ \A i \in 1..Len(w.views) : w.views[i] <= Len(w.pools)
      /\ w.shown.pool <= Len(w.pools) /\ w.shown.pool \in Nat
      /\ w.shown.pool # 0 => w.pools[w.shown.pool].scale = w.shown.scale
  BY DEF PictureKept, Pictures
<1>2. /\ v \in Seq(Nat) /\ v # <<>> /\ Len(v) = Len(w.views) /\ Last(v) = p
      /\ v[Len(w.views)] = p /\ \A i \in 1..Len(w.views) : i # Len(w.views) => v[i] = w.views[i]
  BY <1>1, LastReplaced
<1> HIDE DEF v
<1>3. r \in Pictures /\ r.pools = all /\ r.views = v /\ r.shown = w.shown
  BY <1>0, <1>1, <1>2 DEF Pictures
<1>4. Len(all) \in Nat /\ Len(w.pools) \in Nat
  BY <1>1, LenProperties
<1>5. \A i \in 1..Len(v) : v[i] <= Len(all)
  <2> SUFFICES ASSUME NEW i \in 1..Len(v) PROVE v[i] <= Len(all)
    OBVIOUS
  <2>1. CASE i = Len(w.views)
    BY <1>2, <2>1
  <2>2. CASE i # Len(w.views)
    <3>1. v[i] = w.views[i] /\ w.views[i] <= Len(w.pools) /\ v[i] \in Nat
      BY <1>1, <1>2, <2>2, ElementOfSeq
    <3> QED
      BY <1>4, <3>1
  <2> QED
    BY <2>1, <2>2
<1>6. w.shown.pool <= Len(all)
      /\ (w.shown.pool # 0 => all[w.shown.pool].scale = w.shown.scale)
  <2> DEFINE n == w.shown.pool
  <2>1. n \in Nat /\ n <= Len(w.pools) /\ (n # 0 => w.pools[n].scale = w.shown.scale)
    BY <1>1
  <2> HIDE DEF n
  <2>2. n <= Len(all) /\ (n # 0 => n \in 1..Len(w.pools))
    BY <1>4, <2>1
  <2> QED
    BY <2>1, <2>2 DEF n
<1>7. PictureKept(r)
  BY <1>3, <1>5, <1>6 DEF PictureKept
<1> QED
  BY <1>2, <1>3, <1>7

LEMMA DrawnKept ==
  ASSUME NEW w, PictureKept(w), NEW there, NEW x \in Nat, TopFits(w, x)
  PROVE  PictureKept(Drawn(w, there, x)) /\ TopFits(Drawn(w, there, x), x)
<1>1. CASE w.views = <<>>
  BY <1>1 DEF Drawn
<1>2. CASE w.views # <<>> /\ Last(w.views) # 0
  BY <1>2, CommittedKept DEF Drawn
<1>3. CASE w.views # <<>> /\ Last(w.views) = 0 /\ Len(w.pools) = MaxPools
  BY <1>3 DEF Drawn
<1>4. CASE w.views # <<>> /\ Last(w.views) = 0 /\ Len(w.pools) # MaxPools
  <2> DEFINE new == [NewPool EXCEPT !.scale = x]
             all == Append(w.pools, new)
             n == Len(w.pools) + 1
             v == [w EXCEPT !.pools = all, !.views = Append(Front(@), n)]
  <2>1. PICK made : made = NewPool
    OBVIOUS
  <2>2. PoolKept(new) /\ new \in Pools /\ new.scale = x
    <3> DEFINE idle == [b \in 1..Buffers |-> "free"]
    <3>1. idle \in [1..Buffers -> BufferStates]
      BY DEF BufferStates
    <3> HIDE DEF idle
    <3>2. /\ made.toFree = FALSE /\ made.freed = FALSE /\ made.buffers = idle
          /\ made = [scale |-> scale, toFree |-> FALSE, freed |-> FALSE, buffers |-> idle]
      BY <2>1 DEF NewPool, idle
    <3>3. /\ new = [scale |-> x, toFree |-> FALSE, freed |-> FALSE, buffers |-> idle]
      <4>1. new = [made EXCEPT !.scale = x]
        BY <2>1
      <4> HIDE DEF new
      <4> QED
        BY <3>2, <4>1
    <3> HIDE DEF new
    <3> QED
      BY <3>1, <3>3 DEF PoolKept, Pools
  <2> HIDE DEF new
  <2>3. /\ w.pools \in Seq(Pools) /\ Len(w.pools) \in Nat
        /\ \A q \in 1..Len(w.pools) : PoolKept(w.pools[q])
    <3>1. w.pools \in Seq(Pools) /\ \A q \in 1..Len(w.pools) : PoolKept(w.pools[q])
      BY DEF PictureKept, Pictures
    <3> QED
      BY <3>1, LenProperties
  <2>4. /\ all \in Seq(Pools) /\ Len(all) = n /\ all[n] = new
        /\ \A q \in 1..Len(w.pools) : all[q] = w.pools[q]
    BY <2>2, <2>3, AppendProperties
  <2>5. Drawn(w, there, x) = Committed(v, there, x)
    BY <1>4 DEF Drawn, new
  <2> HIDE DEF all
  <2>6. n \in Nat /\ Len(all) >= Len(w.pools) /\ n <= Len(all)
    BY <2>3, <2>4
  <2>7. \A q \in 1..Len(all) : PoolKept(all[q])
    <3> SUFFICES ASSUME NEW q \in 1..Len(all) PROVE PoolKept(all[q])
      OBVIOUS
    <3>1. q = n \/ q \in 1..Len(w.pools)
      BY <2>3, <2>4
    <3> QED
      BY <2>2, <2>3, <2>4, <3>1
  <2>8. PictureKept(v) /\ v.pools = all /\ v.views # <<>> /\ Last(v.views) = n
    <3>1. TopIs(v, w, all, n)
      BY DEF TopIs
    <3>2. \A q \in 1..Len(w.pools) : all[q].scale = w.pools[q].scale
      BY <2>4
    <3> HIDE DEF v, n
    <3> QED
      BY <1>4, <2>4, <2>6, <2>7, <3>1, <3>2, TopPool
  <2>9. n # 0 /\ all[n].scale = x
    BY <2>2, <2>3, <2>4
  <2>10. TopFits(v, x)
    BY <2>8, <2>9 DEF TopFits
  <2> HIDE DEF v, n
  <2> QED
    BY <2>5, <2>8, <2>9, <2>10, CommittedKept
<1> QED
  BY <1>1, <1>2, <1>3, <1>4

(* Whatever the scale was, a picture that is refreshed has its top view's pool  *)
(* made for the one there is now.                                               *)
LEMMA RefreshedKept ==
  ASSUME NEW w, PictureKept(w), NEW there, NEW x \in Nat, NEW v \in Refreshed(w, there, x)
  PROVE  PictureKept(v) /\ TopFits(v, x)
<1>1. CASE w.views = <<>>
  <2>1. v = w
    BY <1>1 DEF Refreshed
  <2> QED
    BY <1>1, <2>1 DEF TopFits
<1>2. CASE w.views # <<>>
  <2> DEFINE p == Last(w.views)
             all == PoolFreed(w.pools, p)
             u == [w EXCEPT !.pools = all, !.views = Append(Front(@), 0)]
  <2>1. u = [w EXCEPT !.pools = PoolFreed(@, Last(w.views)), !.views = Append(Front(@), 0)]
    OBVIOUS
  <2>2. v = u \/ v = Drawn(u, there, x)
    BY <1>2, <2>1 DEF Refreshed
  <2>3. p \in Nat /\ p <= Len(w.pools) /\ Len(w.pools) \in Nat
    <3>1. /\ w.views \in Seq(Nat) /\ w.pools \in Seq(Pools)
          /\ \A i \in 1..Len(w.views) : w.views[i] <= Len(w.pools)
      BY DEF PictureKept, Pictures
    <3>2. Len(w.views) \in 1..Len(w.views)
      BY <1>2, <3>1, LenProperties, EmptySeq
    <3> QED
      BY <3>1, <3>2, ElementOfSeq, LenProperties DEF Last
  <2>4. /\ all \in Seq(Pools) /\ Len(all) = Len(w.pools)
        /\ \A q \in 1..Len(w.pools) : PoolKept(all[q]) /\ all[q].scale = w.pools[q].scale
    BY <2>3, PoolFreedKept
  <2> HIDE DEF all, p
  <2>5. PictureKept(u) /\ u.views # <<>> /\ Last(u.views) = 0
    <3>1. 0 \in Nat /\ 0 <= Len(all) /\ Len(all) >= Len(w.pools)
      BY <2>3, <2>4
    <3>2. TopIs(u, w, all, 0)
      BY DEF TopIs
    <3> HIDE DEF u
    <3> QED
      BY <1>2, <2>4, <3>1, <3>2, TopPool
  <2> HIDE DEF u
  <2>6. TopFits(u, x)
    BY <2>5 DEF TopFits
  <2> QED
    BY <2>2, <2>5, <2>6, DrawnKept
<1> QED
  BY <1>1, <1>2

LEMMA SurfaceStarts == ASSUME NEW on, SurfaceInit(on) PROVE SurfaceIInv
<1>1. Now = [views |-> <<>>, pools |-> <<>>, shown |-> [pool |-> 0, scale |-> 1]]
  BY DEF SurfaceInit, Now, NoCommit
<1>2. /\ Now \in Pictures /\ Now.views = <<>> /\ Now.pools = <<>> /\ Now.shown.pool = 0
      /\ Len(Now.views) = 0 /\ Len(Now.pools) = 0
  BY <1>1, EmptySeq DEF Pictures
<1> HIDE DEF Now
<1>3. PictureKept(Now) /\ TopFits(Now, scale)
  BY <1>2 DEF PictureKept, TopFits
<1>4. Unplugged \in OutputStates
  BY SurfaceAssumption DEF Unplugged, OutputStates
<1>5. /\ scale \in Nat /\ outputs \in [Monitors -> OutputStates] /\ globals \in Globals
      /\ changes.late \in BOOLEAN /\ changes = [count |-> changes.count, late |-> changes.late]
      /\ OutputsDescribed
  <2>1. globals.manager = FALSE
    BY DEF SurfaceInit
  <2>2. scale \in Nat /\ globals \in Globals
    BY DEF SurfaceInit, Globals
  <2>3. changes.late \in BOOLEAN /\ changes = [count |-> changes.count, late |-> changes.late]
    BY DEF SurfaceInit
  <2> QED
    BY <1>4, <2>1, <2>2, <2>3 DEF SurfaceInit, OutputsDescribed
<1> QED
  BY <1>3, <1>5 DEF SurfaceIInv

LEMMA PictureBecomes ==
  ASSUME NEW w, PictureKept(w), Becomes(w)
  PROVE  Now' = w
  BY DEF PictureKept, Pictures, Becomes, Now

(* A change is counted, and that a manager came late is kept. *)
LEMMA ChangeCounted ==
  ASSUME SurfaceIInv, Change \/ UNCHANGED changes
  PROVE  /\ changes'.late = changes.late
         /\ changes' = [count |-> changes'.count, late |-> changes'.late]
  BY DEF SurfaceIInv, Change

(* Steps that leave the outputs. *)
LEMMA PictureSteps ==
  ASSUME SurfaceIInv, PictureKept(Now)', TopFits(Now, scale)', scale' \in Nat,
         UNCHANGED <<globals, stage, outputs>>, Change \/ UNCHANGED changes
  PROVE  SurfaceIInv'
<1>1. /\ changes'.late = changes.late
      /\ changes' = [count |-> changes'.count, late |-> changes'.late]
  BY ChangeCounted
<1>2. OutputsDescribed'
  BY <1>1 DEF SurfaceIInv, OutputsDescribed
<1> QED
  BY <1>1, <1>2 DEF SurfaceIInv

(* Steps that leave the picture. *)
LEMMA OutputSteps ==
  ASSUME SurfaceIInv, UNCHANGED <<scale, views, pools, shown>>,
         outputs' \in [Monitors -> OutputStates], globals' \in Globals,
         changes'.late \in BOOLEAN,
         changes' = [count |-> changes'.count, late |-> changes'.late], OutputsDescribed'
  PROVE  SurfaceIInv'
<1>1. Now' = Now /\ scale' = scale
  BY DEF Now
<1>2. PictureKept(Now)' /\ TopFits(Now, scale)'
  BY <1>1 DEF SurfaceIInv
<1> QED
  BY <1>1, <1>2 DEF SurfaceIInv

LEMMA BufferReleaseKeeps ==
  ASSUME SurfaceIInv, NEW p \in DOMAIN pools, NEW b \in 1..Buffers, BufferRelease(p, b)
  PROVE  SurfaceIInv'
<1> DEFINE given == [pools[p].buffers EXCEPT ![b] = "free"]
           back == [pools[p] EXCEPT !.buffers = given]
           pool == Cleanup(back)
           w == [views |-> views, pools |-> pools', shown |-> shown]
<1>1. /\ PictureKept(Now) /\ Now.pools = pools /\ Now.views = views /\ Now.shown = shown
      /\ TopFits(Now, scale) /\ Now \in Pictures
  BY DEF SurfaceIInv, Now, PictureKept
<1>2. pools \in Seq(Pools) /\ \A q \in 1..Len(pools) : PoolKept(pools[q])
  BY <1>1 DEF PictureKept, Pictures
<1>3. p \in 1..Len(pools)
  BY <1>2, LenProperties
<1>4. PoolKept(pools[p]) /\ pools[p] \in Pools /\ pools[p].buffers[b] = "held"
  BY <1>2, <1>3 DEF PoolKept, BufferRelease
<1>5. given \in [1..Buffers -> BufferStates]
  <2>1. pools[p].buffers \in [1..Buffers -> BufferStates]
    BY <1>4 DEF Pools
  <2> QED
    BY <2>1 DEF BufferStates
<1>6. pools' = [pools EXCEPT ![p] = pool]
  BY DEF BufferRelease
<1>7. ~pools[p].toFree => ~pools[p].freed
  BY <1>4 DEF PoolKept
<1> HIDE DEF given
<1>8. /\ back \in Pools /\ back.toFree = pools[p].toFree /\ back.freed = pools[p].freed
      /\ back.scale = pools[p].scale
  BY <1>4, <1>5 DEF Pools
<1> HIDE DEF back
<1>9. ~back.toFree => PoolKept(back)
  BY <1>7, <1>8 DEF PoolKept
<1>10. PoolKept(pool) /\ pool.scale = pools[p].scale
  BY <1>8, <1>9, CleanupKept
<1> HIDE DEF pool
<1>11. /\ pools' \in Seq(Pools) /\ Len(pools') = Len(pools) /\ pools'[p] = pool
       /\ \A q \in 1..Len(pools) : q # p => pools'[q] = pools[q]
       /\ \A q \in 1..Len(pools) : pools'[q].scale = pools[q].scale
  <2>1. pool \in Pools
    BY <1>10 DEF PoolKept
  <2> QED
    BY <1>2, <1>3, <1>6, <1>10, <2>1, PoolReplaced
<1>12. \A q \in 1..Len(pools') : PoolKept(pools'[q])
  BY <1>2, <1>10, <1>11
<1>13. w \in Pictures /\ w.pools = pools' /\ w.views = views /\ w.shown = shown
  BY <1>1, <1>11 DEF Pictures
<1>14. Now' = w
  BY <1>13 DEF BufferRelease, Now, Pictures
<1> HIDE DEF w
<1>15. Len(pools) \in Nat /\ shown.pool \in Nat
  BY <1>1, <1>2, LenProperties DEF Pictures
<1>16. PictureKept(w)
  BY <1>1, <1>11, <1>12, <1>13, <1>15 DEF PictureKept
<1>17. TopFits(w, scale)
  <2> SUFFICES ASSUME views # <<>>, Last(views) # 0
               PROVE  pools'[Last(views)].scale = scale
    BY <1>13 DEF TopFits
  <2>1. views \in Seq(Nat) /\ \A i \in 1..Len(views) : views[i] <= Len(pools)
    BY <1>1 DEF PictureKept, Pictures
  <2>2. Len(views) \in 1..Len(views)
    BY <2>1, LenProperties, EmptySeq
  <2>3. Last(views) \in 1..Len(pools)
    BY <1>15, <2>1, <2>2, ElementOfSeq DEF Last
  <2> QED
    BY <1>1, <1>11, <2>3 DEF TopFits
<1> QED
  BY <1>14, <1>16, <1>17, PictureSteps DEF BufferRelease, SurfaceIInv

(* A picture of a view more, or less: whatever is refreshed then fits. *)
LEMMA ViewPushed ==
  ASSUME NEW w, PictureKept(w)
  PROVE  PictureKept([w EXCEPT !.views = Append(@, 0)])
<1> DEFINE v == Append(w.views, 0)
           r == [w EXCEPT !.views = v]
<1>1. /\ w \in Pictures /\ w.views \in Seq(Nat) /\ w.pools \in Seq(Pools)
      /\ \A i \in 1..Len(w.views) : w.views[i] <= Len(w.pools)
  BY DEF PictureKept, Pictures
<1>2. /\ v \in Seq(Nat) /\ Len(v) = Len(w.views) + 1 /\ v[Len(w.views) + 1] = 0
      /\ \A i \in 1..Len(w.views) : v[i] = w.views[i]
  BY <1>1, AppendProperties
<1>3. Len(w.pools) \in Nat /\ Len(w.views) \in Nat
  BY <1>1, LenProperties
<1> HIDE DEF v
<1>4. r \in Pictures /\ r.views = v /\ r.pools = w.pools /\ r.shown = w.shown
  BY <1>1, <1>2 DEF Pictures
<1> HIDE DEF r
<1>5. ASSUME NEW i \in 1..Len(v) PROVE v[i] <= Len(w.pools)
  <2>1. i \in 1..Len(w.views) \/ i = Len(w.views) + 1
    BY <1>2, <1>3
  <2>2. 0 <= Len(w.pools)
    BY <1>3
  <2> QED
    BY <1>1, <1>2, <2>1, <2>2
<1>6. PictureKept(r)
  BY <1>4, <1>5 DEF PictureKept
<1> QED
  BY <1>6 DEF r, v

LEMMA ViewPopped ==
  ASSUME NEW w, PictureKept(w), w.views # <<>>
  PROVE  PictureKept([w EXCEPT !.views = Front(@)])
<1> DEFINE n == Len(w.views) - 1
           v == Front(w.views)
           r == [w EXCEPT !.views = v]
<1>1. /\ w \in Pictures /\ w.views \in Seq(Nat) /\ w.pools \in Seq(Pools)
      /\ \A i \in 1..Len(w.views) : w.views[i] <= Len(w.pools)
  BY DEF PictureKept, Pictures
<1>2. Len(w.views) \in Nat /\ Len(w.views) > 0 /\ \A i \in 1..Len(w.views) : w.views[i] \in Nat
  BY <1>1, LenProperties, EmptySeq, ElementOfSeq
<1>3. 1 \in Int /\ n \in Int /\ \A i \in 1..n : w.views[i] \in Nat
  BY <1>2
<1>4. v = SubSeq(w.views, 1, n)
  BY DEF Front
<1>5. n \in Nat /\ \A i \in 1..n : i \in 1..Len(w.views)
  BY <1>2
<1> HIDE DEF n, v
<1>6. /\ v \in Seq(Nat) /\ Len(v) = (IF 1 <= n THEN n - 1 + 1 ELSE 0)
      /\ \A i \in 1..(n - 1 + 1) : v[i] = w.views[1 + i - 1]
  <2>1. /\ SubSeq(w.views, 1, n) \in Seq(Nat)
        /\ Len(SubSeq(w.views, 1, n)) = (IF 1 <= n THEN n - 1 + 1 ELSE 0)
        /\ \A i \in 1..(n - 1 + 1) : SubSeq(w.views, 1, n)[i] = w.views[1 + i - 1]
    BY <1>3, SubSeqProperties
  <2> QED
    BY <1>4, <2>1
<1>7. \A i \in 1..Len(v) : i \in 1..n /\ i \in 1..(n - 1 + 1) /\ 1 + i - 1 = i
  BY <1>5, <1>6
<1>8. \A i \in 1..Len(v) : v[i] <= Len(w.pools)
  BY <1>1, <1>5, <1>6, <1>7
<1>9. r \in Pictures /\ r.views = v /\ r.pools = w.pools /\ r.shown = w.shown
  BY <1>1, <1>6 DEF Pictures
<1> HIDE DEF r
<1>10. PictureKept(r)
  BY <1>8, <1>9 DEF PictureKept
<1> QED
  BY <1>10 DEF r, v

LEMMA PictureAction ==
  ASSUME SurfaceIInv, NEW w, PictureKept(w), TopFits(w, scale'), Becomes(w), scale' \in Nat,
         UNCHANGED <<globals, stage, outputs>>, Change \/ UNCHANGED changes
  PROVE  SurfaceIInv'
<1>1. Now' = w
  BY PictureBecomes
<1>2. PictureKept(Now)' /\ TopFits(Now, scale)'
  BY <1>1
<1> QED
  BY <1>2, PictureSteps

LEMMA SurfaceEnterKeeps ==
  ASSUME SurfaceIInv, NEW o \in Monitors, SurfaceEnter(o) PROVE SurfaceIInv'
<1>1. PictureKept(Now) /\ TopFits(Now, scale) /\ UNCHANGED <<globals, stage, outputs, changes>>
  BY DEF SurfaceIInv, SurfaceEnter
<1>2. scale' \in Nat
  <2>1. outputs[o].current \in Scales
    BY DEF SurfaceIInv, OutputStates
  <2> QED
    BY <2>1, SurfaceAssumption DEF SurfaceEnter
<1>3. CASE scale' = scale
  <2>1. Now' = Now
    BY <1>3 DEF SurfaceEnter, Now
  <2>2. PictureKept(Now)' /\ TopFits(Now, scale)'
    BY <1>1, <1>3, <2>1
  <2> QED
    BY <1>1, <1>2, <2>2, PictureSteps
<1>4. CASE scale' # scale
  <2>1. PICK w \in Refreshed(Now, surface, scale') :
          \E v \in Refreshed(w, surface, scale') : Becomes(v)
    BY <1>4 DEF SurfaceEnter
  <2>2. PICK v \in Refreshed(w, surface, scale') : Becomes(v)
    BY <2>1
  <2>3. PictureKept(w)
    BY <1>1, <1>2, RefreshedKept
  <2>4. PictureKept(v) /\ TopFits(v, scale')
    BY <1>2, <2>3, RefreshedKept
  <2> QED
    BY <1>1, <1>2, <2>2, <2>4, PictureAction
<1> QED
  BY <1>3, <1>4

LEMMA SurfaceClosedKeeps ==
  ASSUME SurfaceIInv, SurfaceClosed PROVE SurfaceIInv'
<1>1. PictureKept(Now) /\ scale' = scale /\ scale \in Nat
  BY DEF SurfaceIInv, SurfaceClosed
<1>2. PICK w \in Refreshed(Now, surface', scale) :
        \E v \in Refreshed(w, surface', scale) : Becomes(v)
  BY DEF SurfaceClosed
<1>3. PICK v \in Refreshed(w, surface', scale) : Becomes(v)
  BY <1>2
<1>4. PictureKept(w)
  BY <1>1, RefreshedKept
<1>5. PictureKept(v) /\ TopFits(v, scale)
  BY <1>1, <1>4, RefreshedKept
<1> QED
  BY <1>1, <1>3, <1>5, PictureAction DEF SurfaceClosed

LEMMA ViewsKeep ==
  ASSUME SurfaceIInv, Repaint \/ PushView \/ PopView \/ SetFullscreen PROVE SurfaceIInv'
<1>1. PictureKept(Now) /\ TopFits(Now, scale) /\ scale \in Nat /\ Now.views = views
  BY DEF SurfaceIInv, Now
<1>2. UNCHANGED <<globals, stage, outputs, changes>> /\ scale' = scale
  BY DEF Repaint, PushView, PopView, SetFullscreen
<1>3. CASE Repaint
  <2>1. PictureKept(Drawn(Now, surface, scale)) /\ TopFits(Drawn(Now, surface, scale), scale)
    BY <1>1, DrawnKept
  <2> QED
    BY <1>1, <1>2, <1>3, <2>1, PictureAction DEF Repaint
<1>4. ASSUME NEW w, PictureKept(w), \E v \in Refreshed(w, surface, scale) : Becomes(v)
      PROVE  SurfaceIInv'
  <2>1. PICK v \in Refreshed(w, surface, scale) : Becomes(v)
    BY <1>4
  <2>2. PictureKept(v) /\ TopFits(v, scale)
    BY <1>1, <1>4, <2>1, RefreshedKept
  <2> QED
    BY <1>1, <1>2, <2>1, <2>2, PictureAction
<1>5. CASE PushView
  <2>1. PictureKept([Now EXCEPT !.views = Append(@, 0)])
    BY <1>1, ViewPushed
  <2> QED
    BY <1>4, <1>5, <2>1 DEF PushView
<1>6. CASE PopView
  <2>1. PictureKept([Now EXCEPT !.views = Front(@)])
    BY <1>1, <1>6, ViewPopped DEF PopView
  <2> QED
    BY <1>4, <1>6, <2>1 DEF PopView, Uncovered
<1>7. CASE SetFullscreen
  BY <1>1, <1>4, <1>7 DEF SetFullscreen
<1> QED
  BY <1>3, <1>5, <1>6, <1>7

(* Globals and outputs, that come and go. *)
LEMMA EnsuredTyped ==
  ASSUME SurfaceIInv, NEW r \in OutputStates
  PROVE  /\ Ensured(r) \in OutputStates /\ Ensured(r).bound = r.bound
         /\ globals.manager /\ r.bound => Ensured(r).xdg
<1> DEFINE e == r.xdg \/ (r.bound /\ globals.manager)
<1>1. e \in BOOLEAN
  BY DEF SurfaceIInv, Globals, OutputStates
<1>2. Ensured(r) = [r EXCEPT !.xdg = e]
  BY DEF Ensured
<1>3. globals.manager /\ r.bound => e
  OBVIOUS
<1> HIDE DEF e
<1> QED
  BY <1>1, <1>2, <1>3 DEF OutputStates

LEMMA OneOutput ==
  ASSUME SurfaceIInv, NEW o \in Monitors, NEW r \in OutputStates,
         outputs' = [outputs EXCEPT ![o] = r], globals' = globals, stage' = stage,
         UNCHANGED <<scale, views, pools, shown>>, Change \/ UNCHANGED changes,
         globals.manager /\ ~changes.late /\ stage = "up" /\ r.bound => r.xdg
  PROVE  SurfaceIInv'
<1>1. /\ changes'.late = changes.late
      /\ changes' = [count |-> changes'.count, late |-> changes'.late]
  BY ChangeCounted
<1>2. /\ outputs' \in [Monitors -> OutputStates] /\ outputs'[o] = r
      /\ \A m \in Monitors : m # o => outputs'[m] = outputs[m]
  BY DEF SurfaceIInv
<1>3. OutputsDescribed'
  <2> SUFFICES ASSUME (stage = "up")', globals.manager', ~changes.late',
                      NEW m \in Monitors, outputs'[m].bound
               PROVE  outputs'[m].xdg
    BY DEF OutputsDescribed
  <2>1. stage = "up" /\ globals.manager /\ ~changes.late
    BY <1>1
  <2> QED
    BY <1>2, <2>1 DEF SurfaceIInv, OutputsDescribed
<1> QED
  BY <1>1, <1>2, <1>3, OutputSteps DEF SurfaceIInv

LEMMA OutputAddedKeeps ==
  ASSUME SurfaceIInv, NEW o \in Monitors, OutputAdded(o) PROVE SurfaceIInv'
<1> DEFINE r == Ensured([Unplugged EXCEPT !.bound = TRUE])
<1>1. [Unplugged EXCEPT !.bound = TRUE] \in OutputStates
      /\ [Unplugged EXCEPT !.bound = TRUE].bound = TRUE
  BY SurfaceAssumption DEF Unplugged, OutputStates
<1>2. r \in OutputStates /\ (globals.manager => r.xdg)
  BY <1>1, EnsuredTyped
<1>3. outputs' = [outputs EXCEPT ![o] = r]
  BY DEF OutputAdded
<1> HIDE DEF r
<1> QED
  BY <1>2, <1>3, OneOutput DEF OutputAdded

LEMMA OutputsKeep ==
  ASSUME SurfaceIInv, NEW o \in Monitors, OutputRemoved(o) \/ OutputScale(o) \/ OutputDone(o)
  PROVE  SurfaceIInv'
<1>1. outputs \in [Monitors -> OutputStates] /\ outputs[o] \in OutputStates /\ OutputsDescribed
  BY DEF SurfaceIInv
<1>2. CASE OutputRemoved(o)
  <2>1. Unplugged \in OutputStates /\ Unplugged.bound = FALSE
    BY SurfaceAssumption DEF Unplugged, OutputStates
  <2> QED
    BY <1>2, <2>1, OneOutput DEF OutputRemoved
<1>3. CASE OutputScale(o)
  <2>1. PICK x \in Scales : outputs' = [outputs EXCEPT ![o].pending = x]
    BY <1>3 DEF OutputScale
  <2> DEFINE r == [outputs[o] EXCEPT !.pending = x]
  <2>2. r \in OutputStates /\ r.bound = outputs[o].bound /\ r.xdg = outputs[o].xdg
    BY <1>1 DEF OutputStates
  <2>3. outputs' = [outputs EXCEPT ![o] = r]
    BY <2>1
  <2> HIDE DEF r
  <2> QED
    BY <1>1, <1>3, <2>2, <2>3, OneOutput DEF OutputScale, OutputsDescribed
<1>4. CASE OutputDone(o)
  <2> DEFINE r == [outputs[o] EXCEPT !.current = outputs[o].pending]
  <2>2. r \in OutputStates /\ r.bound = outputs[o].bound /\ r.xdg = outputs[o].xdg
    BY <1>1 DEF OutputStates
  <2>3. outputs' = [outputs EXCEPT ![o] = r]
    BY <1>4 DEF OutputDone
  <2> HIDE DEF r
  <2> QED
    BY <1>1, <1>4, <2>2, <2>3, OneOutput DEF OutputDone, OutputsDescribed
<1> QED
  BY <1>2, <1>3, <1>4

LEMMA GlobalsTyped ==
  ASSUME NEW all \in Globals, NEW g \in DOMAIN all, NEW on \in BOOLEAN
  PROVE  /\ [all EXCEPT ![g] = on] \in Globals
         /\ [all EXCEPT ![g] = on].manager = IF g = "manager" THEN on ELSE all.manager
<1>1. g \in {"compositor", "shell", "manager"}
  BY DEF Globals
<1>2. CASE g = "compositor"
  BY <1>2 DEF Globals
<1>3. CASE g = "shell"
  BY <1>3 DEF Globals
<1>4. CASE g = "manager"
  BY <1>4 DEF Globals
<1> QED
  BY <1>1, <1>2, <1>3, <1>4

LEMMA GlobalAddedKeeps ==
  ASSUME SurfaceIInv, GlobalAdded PROVE SurfaceIInv'
<1>1. PICK g \in DOMAIN globals :
        /\ ~globals[g] /\ globals' = [globals EXCEPT ![g] = TRUE]
        /\ changes' = IF stage = "setup" THEN changes
                      ELSE [count |-> changes.count + 1,
                            late |-> changes.late \/ g = "manager"]
  BY DEF GlobalAdded
<1>2. /\ globals \in Globals /\ changes.late \in BOOLEAN
      /\ changes = [count |-> changes.count, late |-> changes.late] /\ OutputsDescribed
  BY DEF SurfaceIInv
<1>3. /\ globals' \in Globals
      /\ globals'.manager = IF g = "manager" THEN TRUE ELSE globals.manager
  BY <1>1, <1>2, GlobalsTyped
<1>4. CASE stage = "setup"
  <2>1. changes' = changes /\ stage' # "up" /\ outputs' = outputs
    BY <1>1, <1>4 DEF GlobalAdded
  <2>2. OutputsDescribed'
    BY <2>1 DEF OutputsDescribed
  <2> QED
    BY <1>2, <1>3, <2>1, <2>2, OutputSteps DEF GlobalAdded, SurfaceIInv
<1>5. CASE stage # "setup"
  <2> DEFINE l == changes.late \/ g = "manager"
             n == changes.count + 1
  <2>1. changes' = [count |-> n, late |-> l]
    BY <1>1, <1>5
  <2>2. l \in BOOLEAN
    OBVIOUS
  <2>3. (~l) => ~changes.late /\ globals'.manager = globals.manager
    BY <1>3
  <2> HIDE DEF l, n
  <2>4. changes'.late = l /\ changes'.count = n
    BY <2>1
  <2>5. OutputsDescribed'
    BY <1>2, <2>3, <2>4 DEF OutputsDescribed, GlobalAdded
  <2> QED
    BY <1>2, <1>3, <2>1, <2>2, <2>4, <2>5, OutputSteps DEF GlobalAdded, SurfaceIInv
<1> QED
  BY <1>4, <1>5

LEMMA GlobalRemovedKeeps ==
  ASSUME SurfaceIInv, GlobalRemoved PROVE SurfaceIInv'
<1>1. PICK g \in DOMAIN globals : globals' = [globals EXCEPT ![g] = FALSE]
  BY DEF GlobalRemoved
<1>2. globals \in Globals
  BY DEF SurfaceIInv
<1>3. /\ globals' \in Globals
      /\ globals'.manager = IF g = "manager" THEN FALSE ELSE globals.manager
  BY <1>1, <1>2, GlobalsTyped
<1>4. /\ changes'.late = changes.late
      /\ changes' = [count |-> changes'.count, late |-> changes'.late]
  BY ChangeCounted DEF GlobalRemoved
<1>5. OutputsDescribed'
  BY <1>3, <1>4 DEF SurfaceIInv, OutputsDescribed, GlobalRemoved
<1> QED
  BY <1>3, <1>4, <1>5, OutputSteps DEF GlobalRemoved, SurfaceIInv

LEMMA SetupKeeps ==
  ASSUME SurfaceIInv, Setup PROVE SurfaceIInv'
<1>1. /\ changes' = changes /\ globals' = globals
      /\ UNCHANGED <<scale, views, pools, shown>>
  BY DEF Setup
<1>2. CASE stage' = "up" /\ outputs' = Swept
  <2>1. \A o \in Monitors : outputs[o] \in OutputStates
    BY DEF SurfaceIInv
  <2>2. /\ outputs' \in [Monitors -> OutputStates]
        /\ \A o \in Monitors : globals.manager /\ outputs'[o].bound => outputs'[o].xdg
    BY <1>2, <2>1, EnsuredTyped DEF Swept
  <2>3. OutputsDescribed'
    BY <1>1, <2>2 DEF OutputsDescribed
  <2> QED
    BY <1>1, <2>2, <2>3, OutputSteps DEF SurfaceIInv
<1>3. CASE stage' = "off" /\ UNCHANGED outputs
  <2>1. OutputsDescribed'
    BY <1>3 DEF OutputsDescribed
  <2> QED
    BY <1>1, <1>3, <2>1, OutputSteps DEF SurfaceIInv
<1> QED
  BY <1>2, <1>3 DEF Setup

LEMMA SurfaceKept ==
  ASSUME SurfaceIInv, [SurfaceNext]_surfaceVars PROVE SurfaceIInv'
<1>1. CASE LateSetup \/ EarlyCleanup \/ UNCHANGED surfaceVars
  <2>1. UNCHANGED <<globals, stage, outputs, scale, views, pools, shown, changes>>
    BY <1>1 DEF LateSetup, EarlyCleanup, surfaceVars
  <2>2. OutputsDescribed'
    BY <2>1 DEF SurfaceIInv, OutputsDescribed
  <2> QED
    BY <2>1, <2>2, OutputSteps DEF SurfaceIInv
<1> QED
  BY <1>1, BufferReleaseKeeps, OutputAddedKeeps, OutputsKeep, SurfaceEnterKeeps,
     GlobalAddedKeeps, GlobalRemovedKeeps, SetupKeeps, SurfaceClosedKeeps, ViewsKeep
     DEF SurfaceNext
--------------------------------------------------------------------------------
(* The machines of MCModes share nothing: each goes on by its own steps.        *)

LEMMA EachByItself ==
  ASSUME [Next]_modeVars
  PROVE  /\ [VolumeNext]_volumeVars /\ [SheetsNext]_sheetsVars /\ [PeerNext]_peerVars
         /\ [SeatNext]_seatVars /\ [SurfaceNext]_surfaceVars /\ [ClockNext]_clockVars
         /\ [ScriptNext]_scriptVars /\ [LuaNext]_luaVars
         /\ [WindowNext]_windowVars /\ [SwitcherNext]_switcherVars
<1>1. CASE UNCHANGED modeVars
  BY <1>1 DEF modeVars
<1>2. CASE Next
  BY Zenon, <1>2 DEF Next
<1> QED
  BY <1>1, <1>2

(* However presses, commands, answers and signals interleave, be lost or late,  *)
(* rows are what was read back, and what is said is about the last key          *)
(* (RowsReadBack of volume.c:862, sheets.c:274, bluetooth-bluez.c:415).         *)
THEOREM RowsAreRead == Spec => []RowsReadBack
<1> DEFINE IInv == VolumeIInv /\ SheetsIInv /\ PeerIInv
<1>1. Init => IInv
  <2> SUFFICES ASSUME Init PROVE IInv
    OBVIOUS
  <2>1. VolumeInit(On("volume")) /\ SheetsInit(On("sheets")) /\ PeerInit(On("bluetooth"))
    BY DEF Init
  <2>2. On("volume") \in BOOLEAN /\ On("bluetooth") \in BOOLEAN
    BY DEF On
  <2> QED
    BY <2>1, <2>2, VolumeStarts, SheetsStarts, PeerStarts, SheetsAssumption
<1>2. IInv /\ [Next]_modeVars => IInv'
  BY EachByItself, VolumeKept, SheetsKept, PeerKept, VolumeAssumption, SheetsAssumption,
     PeersAssumption
<1>3. IInv => RowsReadBack
  BY VolumeEnough, SheetsEnough, PeerEnough DEF RowsReadBack
<1> QED
  BY <1>1, <1>2, <1>3, PTL DEF Spec

(* Whatever the compositor, the seats, the outputs and the views do, a key that *)
(* repeats is the one that is held, scrolls come out exactly, a frame is made   *)
(* for the scale it says, outputs are known by what was told of them, and the   *)
(* surface moves for as long as it should and only fades on its way out         *)
(* (wayland/display.c:514, 345, 1682, anim.c:284, 853).                         *)
THEOREM WaylandIsServed == Spec => []WaylandServed
<1> DEFINE IInv == SeatIInv /\ SurfaceIInv /\ ClockIInv
<1>1. Init => IInv
  <2> SUFFICES ASSUME Init PROVE IInv
    OBVIOUS
  <2>1. SeatInit(On("seat")) /\ SurfaceInit(On("surface")) /\ ClockInit(On("motion"))
    BY DEF Init
  <2>2. On("seat") \in BOOLEAN /\ On("motion") \in BOOLEAN
    BY DEF On
  <2> QED
    BY <2>1, <2>2, SeatStarts, SurfaceStarts, AnimationStarts
<1>2. IInv /\ [Next]_modeVars => IInv'
  BY EachByItself, SeatKept, SurfaceKept, ClockSteps
<1>3. IInv => WaylandServed
  <2>1. ClockIInv => MotionsTimed /\ ExitFades
    BY DEF ClockIInv, ExitOnItsWay, ExitFades, Alpha
  <2> QED
    BY <2>1, SeatEnough, SurfaceEnough DEF WaylandServed
<1> QED
  BY <1>1, <1>2, <1>3, PTL DEF Spec

(* Whatever scripts put out and users do, the list on screen is the last output *)
(* of the script, with its highlights and its message; a mode in Lua that is    *)
(* late is stopped within what its threads may still run                        *)
(* (script.c:449, script-lua.c:204).                                            *)
THEOREM ScriptIsServed == Spec => []ScriptServed
<1> DEFINE IInv == ScriptIInv /\ LuaIInv
<1>1. Init => IInv
  <2> SUFFICES ASSUME Init PROVE IInv
    OBVIOUS
  <2>1. ScriptInit(On("script")) /\ LuaInit(On("lua"))
    BY DEF Init
  <2>2. On("script") \in BOOLEAN /\ On("lua") \in BOOLEAN
    BY DEF On
  <2> QED
    BY <2>1, <2>2, ScriptStarts, LuaStarts
<1>2. IInv /\ [Next]_modeVars => IInv'
  BY EachByItself, ScriptKept, LuaKept
<1>3. IInv => ScriptServed
  BY ScriptEnough, LuaEnough DEF ScriptServed
<1> QED
  BY <1>1, <1>2, <1>3, PTL DEF Spec

(* Whatever windows open, are renamed, made small and closed, however the two   *)
(* protocols overtake each other: where no match was made while one of them was *)
(* ahead, a command is run on the window of its row.  On X11, when the server   *)
(* has told all, each of the switcher's modes lists the windows there are, as   *)
(* they are (wayland-window.c:143, window.c:438).                               *)
THEOREM WindowsAreReached == Spec => []WindowsReached
<1> DEFINE IInv == WindowIInv /\ SwitcherIInv
<1>1. Init => IInv
  <2> SUFFICES ASSUME Init PROVE IInv
    OBVIOUS
  <2>1. WindowInit(On("windows")) /\ SwitcherInit(On("switcher"))
    BY DEF Init
  <2> QED
    BY <2>1, WindowInitially, SwitcherInitially, WindowAssumption, SwitcherAssumption
<1>2. IInv /\ [Next]_modeVars => IInv'
  BY EachByItself, WindowStep, SwitcherStep, WindowAssumption
<1>3. IInv => WindowsReached
  BY WindowEnough, SwitcherEnough DEF WindowsReached
<1> QED
  BY <1>1, <1>2, <1>3, PTL DEF Spec
================================================================================
