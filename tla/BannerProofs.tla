------------------------------ MODULE BannerProofs -----------------------------
(* What holds of the banner for every number of notifications and of frames,   *)
(* with motion and without, whatever the main loop's sources and the           *)
(* compositor interleave.                                                      *)
EXTENDS Banner, SequenceTheorems, TLAPS

(* The strengthening, of a world.  A view that ends with a row has one. *)
Picked(w) == w.view.retv = "ok" => w.view.sel > 0

(* There is the one surface or none. *)
Sized(w) ==
  /\ w.surface.count \in {0, 1} /\ (w.surface.down <=> w.surface.count = 0)
  /\ w.view.active => w.surface.count = 1

(* Only a surface that was mapped, with motion, exits. *)
Held(w) ==
  /\ w.anim.exiting => /\ w.view.active /\ w.view.quit /\ Defers(w)
                       /\ w.loop.guard \/ w.loop.settle
  /\ ~w.view.active => /\ ~w.anim.mapped /\ ~w.anim.exiting /\ w.anim.tween = 0
                       /\ ~w.loop.settle /\ ~w.loop.guard

(* The rows were counted and fetched since the store last changed, unless a    *)
(* reload is coming or the view is going.                                      *)
InRows(w) == w.view.shown = w.live /\ w.view.lines = Len(w.live)
Rows(w) == w.view.active /\ ~w.view.quit /\ ~w.loop.timer => InRows(w)

Sound(w) == w \in Worlds /\ Picked(w) /\ Sized(w) /\ Held(w)
BannerIInv == Sound(World) /\ Rows(World) /\ arrived \in Nat

(* What repaints leave alone, and what of the view. *)
Calm(w, r) ==
  /\ r.live = w.live /\ r.anim = w.anim
  /\ r.loop.timer = w.loop.timer /\ r.loop.settle = w.loop.settle
  /\ r.loop.guard = w.loop.guard
  /\ r.surface.count = w.surface.count /\ r.surface.down = w.surface.down
Same(w, r) ==
  /\ r.view.active = w.view.active /\ r.view.quit = w.view.quit
  /\ r.view.retv = w.view.retv /\ r.view.sel = w.view.sel
--------------------------------------------------------------------------------
(* The invariant is what is meant. *)
LEMMA BannerEnough == BannerIInv => SurfaceTracksView /\ ExitHeld /\ RowsInStep
  BY DEF BannerIInv, Sound, Sized, Held, Rows, InRows, World,
         SurfaceTracksView, ExitHeld, RowsInStep

(* The texts of as many rows as there are entries are the entries. *)
LEMMA TextsDo ==
  ASSUME NEW w \in Worlds
  PROVE  /\ Texts(w) \in Seq(Nat)
         /\ w.view.lines = Len(w.live) => Texts(w) = w.live
<1>1. w.live \in Seq(Nat) /\ w.view.lines \in Nat
  BY DEF Worlds, Views
<1>2. Texts(w) \in Seq(Nat) /\ Len(Texts(w)) = w.view.lines
  <2> DEFINE n == w.view.lines
  <2>1. \A i \in 1 .. n : (IF i <= Len(w.live) THEN w.live[i] ELSE 0) \in Nat
    BY <1>1, LenProperties, ElementOfSeq
  <2>2. Texts(w) \in [1 .. n -> Nat]
    BY <2>1 DEF Texts
  <2>3. Texts(w) \in Seq(Nat) /\ n \in Nat
    <3>1. [1 .. n -> Nat] \in {[1 .. k -> Nat] : k \in Nat}
      BY <1>1
    <3>2. Seq(Nat) = UNION {[1 .. k -> Nat] : k \in Nat}
      BY SeqDef
    <3> QED BY <1>1, <2>2, <3>1, <3>2
  <2>4. DOMAIN Texts(w) = 1 .. n
    BY DEF Texts
  <2> QED BY <2>3, <2>4, LenProperties
<1>3. \A i \in 1 .. w.view.lines : i <= Len(w.live) => Texts(w)[i] = w.live[i]
  BY DEF Texts
<1>4. ASSUME w.view.lines = Len(w.live) PROVE Texts(w) = w.live
  <2>1. \A i \in 1 .. Len(Texts(w)) : Texts(w)[i] = w.live[i]
    BY <1>1, <1>2, <1>3, <1>4
  <2> QED BY <1>1, <1>2, <1>4, <2>1, SeqEqual
<1> QED BY <1>2, <1>4

LEMMA QueueRedrawDoes ==
  ASSUME NEW w \in Worlds
  PROVE  LET r == QueueRedraw[w]
         IN /\ r \in Worlds /\ Calm(w, r) /\ Same(w, r)
            /\ r.view.refilter = w.view.refilter /\ r.view.lines = w.view.lines
            /\ r.view.shown = w.view.shown
<1>1. CASE w.view.active /\ ~w.loop.source
  <2> DEFINE r == [w EXCEPT !.view.dirty = TRUE, !.loop.source = TRUE, !.loop.queued = TRUE]
  <2>1. r \in Worlds
    BY DEF Worlds, Views, Loops
  <2>2. /\ Calm(w, r) /\ Same(w, r) /\ r.view.refilter = w.view.refilter
        /\ r.view.lines = w.view.lines /\ r.view.shown = w.view.shown
    BY DEF Worlds, Views, Loops, Calm, Same
  <2>3. QueueRedraw[w] = r
    BY <1>1 DEF QueueRedraw
  <2> QED BY <2>1, <2>2, <2>3
<1>2. CASE ~(w.view.active /\ ~w.loop.source)
  BY <1>2 DEF QueueRedraw, Calm, Same
<1> QED BY <1>1, <1>2

LEMMA PaintDoes ==
  ASSUME NEW w \in Worlds
  PROVE  LET r == Paint[w]
         IN /\ r \in Worlds /\ Calm(w, r) /\ Same(w, r)
            /\ r.view.refilter = w.view.refilter /\ r.view.lines = w.view.lines
            /\ r.view.shown = IF w.view.changed THEN Texts(w) ELSE w.view.shown
<1> DEFINE s == IF w.view.changed THEN Texts(w) ELSE w.view.shown
           f == IF w.surface.count > 0 /\ w.surface.frame = "asked" THEN "due"
                ELSE w.surface.frame
           b == (~w.anim.exiting /\ w.anim.tween = 0)
           r == [w EXCEPT !.view.shown = s, !.view.changed = FALSE, !.view.dirty = FALSE,
                          !.view.still = b, !.surface.frame = f]
<1>1. Paint[w] = r
  BY DEF Paint
<1>2. s \in Seq(Nat) /\ f \in {"none", "asked", "due"} /\ b \in BOOLEAN
  BY TextsDo DEF Worlds, Views, Surfaces
<1> HIDE DEF s, f, b
<1>3. r \in Worlds
  BY <1>2 DEF Worlds, Views, Surfaces
<1>4. Calm(w, r) /\ Same(w, r) /\ r.view.refilter = w.view.refilter
      /\ r.view.lines = w.view.lines /\ r.view.shown = s
  BY <1>2 DEF Worlds, Views, Surfaces, Calm, Same
<1> QED BY <1>1, <1>3, <1>4 DEF s

LEMMA UpdateDoes ==
  ASSUME NEW w \in Worlds
  PROVE  LET r == Update[w]
         IN /\ r \in Worlds /\ Calm(w, r) /\ Same(w, r)
            /\ r.view.refilter = w.view.refilter /\ r.view.lines = w.view.lines
            /\ r.view.shown \in {w.view.shown, Texts(w)}
            /\ w.view.dirty /\ w.view.changed => r.view.shown = Texts(w)
<1> DEFINE p == Paint[w]
           q == QueueRedraw[p]
<1>1. /\ p \in Worlds /\ Calm(w, p) /\ Same(w, p)
      /\ p.view.refilter = w.view.refilter /\ p.view.lines = w.view.lines
      /\ p.view.shown = IF w.view.changed THEN Texts(w) ELSE w.view.shown
  BY PaintDoes
<1> HIDE DEF p
<1>2. /\ q \in Worlds /\ Calm(p, q) /\ Same(p, q)
      /\ q.view.refilter = p.view.refilter /\ q.view.lines = p.view.lines
      /\ q.view.shown = p.view.shown
  BY <1>1, QueueRedrawDoes
<1> HIDE DEF q
<1>3. Calm(w, q) /\ Same(w, q)
  BY <1>1, <1>2 DEF Calm, Same
<1>4. CASE w.view.dirty
  <2>1. Update[w] = q
    BY <1>4 DEF Update, q, p
  <2> QED BY <1>1, <1>2, <1>3, <2>1
<1>5. CASE ~w.view.dirty /\ Busy(w)
  <2>1. Update[w] = p
    BY <1>5 DEF Update, p
  <2> QED BY <1>1, <1>5, <2>1
<1>6. CASE ~w.view.dirty /\ ~Busy(w)
  <2>1. Update[w] = w
    BY <1>6 DEF Update
  <2>2. Calm(w, w) /\ Same(w, w)
    BY DEF Calm, Same
  <2> QED BY <1>6, <2>1, <2>2
<1> QED BY <1>4, <1>5, <1>6

(* The rows are counted and fetched. *)
LEMMA RefilterDoes ==
  ASSUME NEW w \in Worlds
  PROVE  LET r == Refilter[w]
         IN /\ r \in Worlds /\ Calm(w, r) /\ Same(w, r) /\ InRows(r)
            /\ r.view.refilter = FALSE
<1> DEFINE n == Len(w.live)
           v == [w EXCEPT !.view.lines = n, !.view.changed = TRUE,
                          !.view.dirty = TRUE, !.view.refilter = FALSE]
           r == Update[v]
<1>1. n \in Nat
  BY LenProperties DEF Worlds
<1>2. Refilter[w] = r
  BY DEF Refilter
<1>3. n = Len(w.live)
  OBVIOUS
<1> HIDE DEF n
<1>4. v \in Worlds
  BY <1>1 DEF Worlds, Views
<1>5. /\ Calm(w, v) /\ Same(w, v) /\ v.view.lines = n /\ v.view.changed = TRUE
      /\ v.view.dirty = TRUE /\ v.view.refilter = FALSE
  BY <1>1 DEF Worlds, Views, Calm, Same
<1> HIDE DEF v
<1>6. /\ r \in Worlds /\ Calm(v, r) /\ Same(v, r)
      /\ r.view.refilter = v.view.refilter /\ r.view.lines = v.view.lines
      /\ r.view.shown = Texts(v)
  BY <1>4, <1>5, UpdateDoes
<1>7. Texts(v) = v.live /\ v.live = w.live /\ v.view.lines = Len(v.live)
  BY <1>3, <1>4, <1>5, TextsDo DEF Calm
<1> HIDE DEF r
<1>8. Calm(w, r) /\ Same(w, r) /\ InRows(r)
  BY <1>5, <1>6, <1>7 DEF Calm, Same, InRows
<1> QED BY <1>2, <1>5, <1>6, <1>8

(* The same mode again: the view goes on, with the rows of now. *)
LEMMA SwitchModeDoes ==
  ASSUME NEW w \in Worlds
  PROVE  LET r == SwitchMode[w]
         IN /\ r \in Worlds /\ Calm(w, r) /\ InRows(r) /\ r.view.active = w.view.active
            /\ r.view.quit = FALSE /\ r.view.retv = "cancel"
<1> DEFINE a == [w EXCEPT !.view.quit = FALSE, !.view.retv = "cancel"]
           b == Refilter[a]
           r == Update[b]
<1>1. a \in Worlds
  BY DEF Worlds, Views
<1>2. Calm(w, a) /\ a.view.active = w.view.active /\ a.view.quit = FALSE
      /\ a.view.retv = "cancel"
  BY DEF Worlds, Views, Calm
<1>3. SwitchMode[w] = r
  BY DEF SwitchMode
<1> HIDE DEF a
<1>4. b \in Worlds /\ Calm(a, b) /\ Same(a, b) /\ InRows(b)
  BY <1>1, RefilterDoes
<1> HIDE DEF b
<1>5. /\ r \in Worlds /\ Calm(b, r) /\ Same(b, r) /\ r.view.lines = b.view.lines
      /\ r.view.shown \in {b.view.shown, Texts(b)}
  BY <1>4, UpdateDoes
<1>6. Texts(b) = b.live
  BY <1>4, TextsDo DEF InRows
<1> HIDE DEF r
<1>7. Calm(w, r) /\ InRows(r)
  BY <1>2, <1>4, <1>5, <1>6 DEF Calm, InRows
<1> QED BY <1>2, <1>3, <1>4, <1>5, <1>7 DEF Same

LEMMA SurfaceMapDoes ==
  ASSUME NEW w \in Worlds
  PROVE  LET r == SurfaceMap[w]
         IN /\ r \in Worlds /\ r.live = w.live /\ r.view = w.view /\ r.loop = w.loop
            /\ r.surface = w.surface /\ r.anim.exiting = FALSE
<1> DEFINE a == [w EXCEPT !.anim.mapped = TRUE, !.anim.exiting = FALSE, !.anim.tween = 0]
           b == [w EXCEPT !.anim.mapped = TRUE, !.anim.exiting = FALSE, !.anim.tween = Frames]
<1>1. a \in Worlds /\ a.live = w.live /\ a.view = w.view /\ a.loop = w.loop
      /\ a.surface = w.surface /\ a.anim.exiting = FALSE
  BY DEF Worlds, Anims
<1>2. b \in Worlds /\ b.live = w.live /\ b.view = w.view /\ b.loop = w.loop
      /\ b.surface = w.surface /\ b.anim.exiting = FALSE
  BY BannerAssumption DEF Worlds, Anims
<1>3. w.anim.exiting \in BOOLEAN
  BY DEF Worlds, Anims
<1>4. SurfaceMap[w] = IF ~Motion THEN a ELSE IF w.anim.mapped /\ ~w.anim.exiting THEN w ELSE b
  BY DEF SurfaceMap
<1> HIDE DEF a, b
<1> QED BY <1>1, <1>2, <1>3, <1>4

LEMMA SurfaceUnmapDoes ==
  ASSUME NEW w \in Worlds
  PROVE  LET r == SurfaceUnmap[w]
         IN /\ r \in Worlds /\ r.live = w.live /\ r.view = w.view
            /\ r.surface = w.surface /\ r.loop.timer = w.loop.timer
            /\ r.loop.settle = w.loop.settle
            /\ Defers(w) => /\ Defers(r) /\ r.anim.exiting = TRUE
                            /\ r.loop.guard = TRUE \/ (w.anim.exiting /\ r.loop.guard = w.loop.guard)
            /\ ~Defers(w) => /\ r.anim.exiting = FALSE /\ r.anim.mapped = FALSE
                             /\ r.anim.tween = 0 /\ r.loop.guard = w.loop.guard
<1> DEFINE a == [w EXCEPT !.anim.mapped = FALSE, !.anim.exiting = FALSE, !.anim.tween = 0]
           b == [w EXCEPT !.anim.exiting = TRUE, !.anim.tween = Frames, !.loop.guard = TRUE]
<1>1. /\ a \in Worlds /\ a.live = w.live /\ a.view = w.view /\ a.loop = w.loop
      /\ a.surface = w.surface /\ a.anim.exiting = FALSE /\ a.anim.mapped = FALSE
      /\ a.anim.tween = 0
  BY DEF Worlds, Anims
<1>2. b \in Worlds
  BY BannerAssumption DEF Worlds, Anims, Loops
<1>3. /\ b.live = w.live /\ b.view = w.view /\ b.surface = w.surface
      /\ b.loop.timer = w.loop.timer /\ b.loop.settle = w.loop.settle
      /\ b.loop.guard = TRUE /\ b.anim.exiting = TRUE /\ b.anim.mapped = w.anim.mapped
  BY BannerAssumption DEF Worlds, Anims, Loops
<1>4. SurfaceUnmap[w] = IF ~Defers(w) THEN a ELSE IF w.anim.exiting THEN w ELSE b
  BY DEF SurfaceUnmap
<1>5. w.anim.exiting \in BOOLEAN
  BY DEF Worlds, Anims
<1> HIDE DEF a, b
<1> QED BY <1>1, <1>2, <1>3, <1>4, <1>5 DEF Defers

LEMMA SurfaceSettleDoes ==
  ASSUME NEW w \in Worlds
  PROVE  LET r == SurfaceSettle[w]
         IN /\ r \in Worlds /\ r.live = w.live /\ r.view = w.view /\ r.surface = w.surface
            /\ r.loop.timer = w.loop.timer /\ r.loop.guard = FALSE
            /\ r.loop.settle = w.anim.exiting /\ r.anim = Resting
<1> DEFINE e == w.anim.exiting
           r == [w EXCEPT !.loop.guard = FALSE, !.loop.settle = e, !.anim = Resting]
<1>1. e \in BOOLEAN /\ Resting \in Anims
  BY DEF Worlds, Anims, Resting
<1>2. SurfaceSettle[w] = r
  BY DEF SurfaceSettle
<1>3. e = w.anim.exiting
  OBVIOUS
<1> HIDE DEF e
<1>4. r \in Worlds
  BY <1>1 DEF Worlds, Loops
<1>5. /\ r.live = w.live /\ r.view = w.view /\ r.surface = w.surface
      /\ r.loop.timer = w.loop.timer /\ r.loop.guard = FALSE
      /\ r.loop.settle = e /\ r.anim = Resting
  BY <1>1 DEF Worlds, Loops
<1> QED BY <1>2, <1>3, <1>4, <1>5

LEMMA AnimFrameDoes ==
  ASSUME NEW w \in Worlds, NEW left \in Nat
  PROVE  LET r == AnimFrame[w][left]
         IN /\ r \in Worlds /\ r.live = w.live /\ r.view = w.view /\ r.surface = w.surface
            /\ r.loop.timer = w.loop.timer /\ r.loop.guard = w.loop.guard
            /\ w.loop.settle => r.loop.settle
            /\ ~w.anim.exiting => r.loop.settle = w.loop.settle
            /\ r.anim.exiting = w.anim.exiting /\ r.anim.mapped = w.anim.mapped
            /\ r.anim.tween = left
<1> DEFINE busy == left > 0
           idle == ~busy
           trail == w.anim.was /\ ~busy
           settle == w.loop.settle \/ (w.anim.exiting /\ ~busy)
           r == [w EXCEPT !.anim.tween = left, !.anim.dormant = idle,
                          !.anim.trailing = trail, !.anim.was = busy,
                          !.loop.settle = settle]
<1>1. /\ busy \in BOOLEAN /\ idle \in BOOLEAN /\ trail \in BOOLEAN /\ settle \in BOOLEAN
      /\ w.loop.settle => settle
      /\ ~w.anim.exiting => settle = w.loop.settle
  BY DEF Worlds, Anims, Loops
<1>2. AnimFrame[w][left] = r
  BY DEF AnimFrame
<1> HIDE DEF busy, idle, trail, settle
<1>3. r \in Worlds
  BY <1>1 DEF Worlds, Anims, Loops
<1>4. /\ r.live = w.live /\ r.view = w.view /\ r.surface = w.surface
      /\ r.loop.timer = w.loop.timer /\ r.loop.guard = w.loop.guard
      /\ r.loop.settle = settle
  BY <1>1 DEF Worlds, Anims, Loops
<1>5. /\ r.anim.exiting = w.anim.exiting /\ r.anim.mapped = w.anim.mapped
      /\ r.anim.tween = left
  BY <1>1 DEF Worlds, Anims
<1> HIDE DEF r
<1> QED BY <1>1, <1>2, <1>3, <1>4, <1>5

LEMMA FrameCallbackDoes ==
  ASSUME NEW w \in Worlds
  PROVE  LET r == FrameCallback[w]
         IN /\ r \in Worlds /\ r.live = w.live /\ r.view = w.view /\ r.surface = w.surface
            /\ r.loop.timer = w.loop.timer /\ r.loop.guard = w.loop.guard
            /\ r.loop.settle = w.loop.settle /\ r.anim = w.anim
<1> DEFINE r == [w EXCEPT !.loop.source = TRUE, !.loop.queued = TRUE]
<1>1. /\ r \in Worlds /\ r.live = w.live /\ r.view = w.view /\ r.surface = w.surface
      /\ r.loop.timer = w.loop.timer /\ r.loop.guard = w.loop.guard
      /\ r.loop.settle = w.loop.settle /\ r.anim = w.anim
  BY DEF Worlds, Loops
<1>2. FrameCallback[w] = IF w.loop.source THEN w ELSE r
  BY DEF FrameCallback
<1> HIDE DEF r
<1> QED BY <1>1, <1>2

LEMMA LateSetupDoes ==
  ASSUME NEW w \in Worlds, Held(w)
  PROVE  LET r == LateSetup[w]
         IN /\ r \in Worlds /\ r.live = w.live /\ r.view = w.view
            /\ r.surface.count = w.surface.count + 1 /\ r.surface.down = w.surface.down
            /\ r.loop.timer = w.loop.timer /\ Held(r)
            /\ r.anim.exiting = w.anim.exiting /\ (w.loop.settle => r.loop.settle)
<1> DEFINE f == AnimFrame[w][w.anim.tween]
           l == IF w.surface.frame = "none" THEN w ELSE FrameCallback[f]
           n == l.surface.count + 1
           r == [l EXCEPT !.surface.count = n, !.surface.frame = "asked"]
<1>1. /\ f \in Worlds /\ f.live = w.live /\ f.view = w.view /\ f.surface = w.surface
      /\ f.loop.timer = w.loop.timer /\ f.loop.guard = w.loop.guard
      /\ w.loop.settle => f.loop.settle
      /\ ~w.anim.exiting => f.loop.settle = w.loop.settle
      /\ f.anim.exiting = w.anim.exiting /\ f.anim.mapped = w.anim.mapped
      /\ f.anim.tween = w.anim.tween
  <2>1. w.anim.tween \in Nat
    BY DEF Worlds, Anims
  <2> QED BY <2>1, AnimFrameDoes
<1>2. LateSetup[w] = [l EXCEPT !.surface.count = @ + 1, !.surface.frame = "asked"]
  BY DEF LateSetup
<1> HIDE DEF f
<1>3. /\ l \in Worlds /\ l.live = w.live /\ l.view = w.view /\ l.surface = w.surface
      /\ l.loop.timer = w.loop.timer /\ l.loop.guard = w.loop.guard
      /\ w.loop.settle => l.loop.settle
      /\ ~w.anim.exiting => l.loop.settle = w.loop.settle
      /\ l.anim.exiting = w.anim.exiting /\ l.anim.mapped = w.anim.mapped
      /\ l.anim.tween = w.anim.tween
  BY <1>1, FrameCallbackDoes
<1> HIDE DEF l
<1>4. n \in Nat /\ n = w.surface.count + 1 /\ n = l.surface.count + 1
  BY <1>3 DEF Worlds, Surfaces
<1>5. LateSetup[w] = r
  BY <1>2
<1> HIDE DEF n
<1>6. r \in Worlds
  BY <1>3, <1>4 DEF Worlds, Surfaces
<1>7. /\ r.live = l.live /\ r.view = l.view /\ r.loop = l.loop /\ r.anim = l.anim
      /\ r.surface.count = n /\ r.surface.down = l.surface.down
  BY <1>3, <1>4 DEF Worlds, Surfaces
<1> HIDE DEF r
<1>8. Held(r)
  BY <1>3, <1>7 DEF Held, Defers
<1> QED BY <1>3, <1>4, <1>5, <1>6, <1>7, <1>8

LEMMA SurfaceDestroyDoes ==
  ASSUME NEW w \in Worlds
  PROVE  LET r == SurfaceDestroy[w]
         IN /\ r \in Worlds /\ r.live = w.live /\ r.view = w.view
            /\ r.loop.timer = w.loop.timer /\ r.loop.guard = FALSE
            /\ r.loop.settle = w.anim.exiting /\ r.anim = Resting
            /\ r.surface.count = IF w.surface.count > 0 THEN w.surface.count - 1 ELSE 0
            /\ r.surface.down = w.surface.down
<1> DEFINE v == SurfaceSettle[w]
           n == IF v.surface.count > 0 THEN v.surface.count - 1 ELSE 0
           r == [v EXCEPT !.surface.count = n]
<1>1. SurfaceDestroy[w] = r
  BY DEF SurfaceDestroy
<1>2. /\ v \in Worlds /\ v.live = w.live /\ v.view = w.view /\ v.surface = w.surface
      /\ v.loop.timer = w.loop.timer /\ v.loop.guard = FALSE
      /\ v.loop.settle = w.anim.exiting /\ v.anim = Resting
  BY SurfaceSettleDoes
<1> HIDE DEF v
<1>3. n \in Nat /\ n = IF w.surface.count > 0 THEN w.surface.count - 1 ELSE 0
  BY <1>2 DEF Worlds, Surfaces
<1> HIDE DEF n
<1>4. /\ r \in Worlds /\ r.live = v.live /\ r.view = v.view /\ r.loop = v.loop
      /\ r.anim = v.anim /\ r.surface.count = n /\ r.surface.down = v.surface.down
  BY <1>2, <1>3 DEF Worlds, Surfaces
<1> QED BY <1>1, <1>2, <1>3, <1>4

LEMMA HideDoes ==
  ASSUME NEW w \in Worlds, ~w.anim.exiting, w.surface.count \in {0, 1}
  PROVE  LET r == Hide[w]
         IN /\ r \in Worlds /\ r.live = w.live /\ r.view = w.view
            /\ r.loop.timer = w.loop.timer /\ ~r.loop.guard /\ ~r.loop.settle
            /\ r.anim = Resting /\ r.surface.count = 0 /\ r.surface.down = TRUE
<1> DEFINE v == SurfaceDestroy[w]
           r == [v EXCEPT !.surface.down = TRUE]
<1>1. Hide[w] = r
  BY DEF Hide
<1>2. /\ v \in Worlds /\ v.live = w.live /\ v.view = w.view
      /\ v.loop.timer = w.loop.timer /\ v.loop.guard = FALSE
      /\ v.loop.settle = w.anim.exiting /\ v.anim = Resting
      /\ v.surface.count = IF w.surface.count > 0 THEN w.surface.count - 1 ELSE 0
  BY SurfaceDestroyDoes
<1>3. v.surface.count = 0
  BY <1>2
<1> HIDE DEF v
<1>4. /\ r \in Worlds /\ r.live = v.live /\ r.view = v.view /\ r.loop = v.loop
      /\ r.anim = v.anim /\ r.surface.count = v.surface.count /\ r.surface.down = TRUE
  BY <1>2 DEF Worlds, Surfaces
<1> QED BY <1>1, <1>2, <1>3, <1>4

(* A view is made and shows the store of now. *)
LEMMA CreateDoes ==
  ASSUME NEW w \in Worlds
  PROVE  LET r == Create[w]
         IN /\ r \in Worlds /\ r.live = w.live /\ InRows(r)
            /\ r.view.active = TRUE /\ r.view.quit = FALSE /\ r.view.retv = "cancel"
            /\ r.loop.timer = w.loop.timer /\ r.loop.guard = w.loop.guard
            /\ r.loop.settle = w.loop.settle /\ r.anim.exiting = FALSE
            /\ r.surface.count = w.surface.count /\ r.surface.down = w.surface.down
<1> DEFINE a == [w EXCEPT !.view = NoView]
           made == Refilter[a]
           drawn == [made EXCEPT !.view.dirty = TRUE]
           m == SurfaceMap[drawn]
           v == [m EXCEPT !.view.active = TRUE]
           r == QueueRedraw[v]
<1>1. Create[w] = r
  BY DEF Create
<1>2. NoView \in Views
  <2>1. <<>> \in Seq(Nat)
    BY EmptySeq
  <2> QED BY <2>1 DEF NoView, Views
<1>3. a \in Worlds /\ Calm(w, a) /\ a.view = NoView
  BY <1>2 DEF Worlds, Calm
<1> HIDE DEF a
<1>4. made \in Worlds /\ Calm(a, made) /\ Same(a, made) /\ InRows(made)
  BY <1>3, RefilterDoes
<1> HIDE DEF made
<1>5. /\ drawn \in Worlds /\ Calm(made, drawn) /\ Same(made, drawn)
      /\ drawn.view.lines = made.view.lines /\ drawn.view.shown = made.view.shown
  BY <1>4 DEF Worlds, Views, Calm, Same
<1> HIDE DEF drawn
<1>6. /\ m \in Worlds /\ m.live = drawn.live /\ m.view = drawn.view
      /\ m.loop = drawn.loop /\ m.surface = drawn.surface /\ m.anim.exiting = FALSE
  BY <1>5, SurfaceMapDoes
<1> HIDE DEF m
<1>7. /\ v \in Worlds /\ v.live = m.live /\ v.loop = m.loop /\ v.surface = m.surface
      /\ v.anim = m.anim /\ v.view.active = TRUE /\ v.view.quit = m.view.quit
      /\ v.view.retv = m.view.retv /\ v.view.lines = m.view.lines
      /\ v.view.shown = m.view.shown
  BY <1>6 DEF Worlds, Views
<1> HIDE DEF v
<1>8. /\ r \in Worlds /\ Calm(v, r) /\ Same(v, r) /\ r.view.lines = v.view.lines
      /\ r.view.shown = v.view.shown
  BY <1>7, QueueRedrawDoes
<1> HIDE DEF r
<1>9. a.view.quit = FALSE /\ a.view.retv = "cancel"
  BY <1>3 DEF NoView
<1>10. InRows(r) /\ r.live = w.live
  BY <1>3, <1>4, <1>5, <1>6, <1>7, <1>8 DEF InRows, Calm
<1>11. r.view.active = TRUE /\ r.view.quit = FALSE /\ r.view.retv = "cancel"
  BY <1>4, <1>5, <1>6, <1>7, <1>8, <1>9 DEF Same
<1>12. /\ r.loop.timer = w.loop.timer /\ r.loop.guard = w.loop.guard
       /\ r.loop.settle = w.loop.settle /\ r.anim.exiting = FALSE
       /\ r.surface.count = w.surface.count /\ r.surface.down = w.surface.down
  BY <1>3, <1>4, <1>5, <1>6, <1>7, <1>8 DEF Calm
<1> QED BY <1>1, <1>8, <1>10, <1>11, <1>12

(* A banner that is up is told of a change, or that it is to go. *)
LEMMA RefreshOfView ==
  ASSUME NEW w \in Worlds, NEW ok \in BOOLEAN, w.view.active
  PROVE  LET r == Refresh[w][ok]
         IN /\ r \in Worlds /\ r.live = w.live /\ r.anim = w.anim
            /\ r.surface = w.surface /\ r.loop.settle = w.loop.settle
            /\ r.loop.guard = w.loop.guard /\ r.view.active
            /\ w.view.quit => r.view.quit
            /\ r.view.quit \/ r.loop.timer
            /\ r.view.retv \in {"cancel", w.view.retv} /\ r.view.sel = w.view.sel
<1> DEFINE a == [w EXCEPT !.view.retv = "cancel", !.view.quit = TRUE]
           b == [w EXCEPT !.loop.timer = TRUE]
<1>1. /\ a \in Worlds /\ a.live = w.live /\ a.anim = w.anim /\ a.surface = w.surface
      /\ a.loop = w.loop /\ a.view.active = w.view.active /\ a.view.quit = TRUE
      /\ a.view.retv = "cancel" /\ a.view.sel = w.view.sel
  BY DEF Worlds, Views
<1>2. /\ b \in Worlds /\ b.live = w.live /\ b.anim = w.anim /\ b.surface = w.surface
      /\ b.loop.settle = w.loop.settle /\ b.loop.guard = w.loop.guard
      /\ b.loop.timer = TRUE /\ b.view = w.view
  BY DEF Worlds, Loops
<1>3. Cancelled[w] = a
  BY DEF Cancelled
<1> HIDE DEF a, b
<1>4. CASE w.live = <<>>
  <2>1. Refresh[w][ok] = a
    BY <1>3, <1>4 DEF Refresh
  <2> QED BY <1>1, <2>1
<1>5. CASE w.live # <<>>
  <2>1. Refresh[w][ok] = b
    BY <1>5 DEF Refresh, b
  <2> QED BY <1>2, <2>1
<1> QED BY <1>4, <1>5

(* A refresh leaves every invariant standing, and the rows right. *)
LEMMA RefreshDoes ==
  ASSUME NEW w, Sound(w), NEW ok \in BOOLEAN
  PROVE  LET r == Refresh[w][ok]
         IN Sound(r) /\ Rows(r) /\ (w.anim.exiting => r.anim.exiting)
<1> DEFINE r == Refresh[w][ok]
<1>0. w \in Worlds /\ Picked(w) /\ Sized(w) /\ Held(w)
  BY DEF Sound
<1>1. CASE w.view.active
  <2>1. /\ r \in Worlds /\ r.live = w.live /\ r.anim = w.anim
        /\ r.surface = w.surface /\ r.loop.settle = w.loop.settle
        /\ r.loop.guard = w.loop.guard /\ r.view.active
        /\ w.view.quit => r.view.quit
        /\ r.view.quit \/ r.loop.timer
        /\ r.view.retv \in {"cancel", w.view.retv} /\ r.view.sel = w.view.sel
    BY <1>0, <1>1, RefreshOfView
  <2> HIDE DEF r
  <2>2. Picked(r) /\ Sized(r)
    BY <1>0, <1>1, <2>1 DEF Picked, Sized
  <2>3. Held(r)
    BY <1>0, <1>1, <2>1 DEF Held, Defers
  <2>4. Rows(r)
    BY <2>1 DEF Rows
  <2> QED BY <2>1, <2>2, <2>3, <2>4 DEF Sound, r
<1>2. CASE ~w.view.active
  <2>1. ~w.anim.exiting /\ ~w.loop.settle /\ ~w.loop.guard
    BY <1>0, <1>2 DEF Held
  <2>2. ASSUME NEW v \in Worlds, ~v.anim.exiting, ~v.loop.settle, ~v.loop.guard,
               v.surface.count = 1, ~v.surface.down, r = Create[v]
        PROVE  Sound(r) /\ Rows(r)
    <3> DEFINE c == Create[v]
    <3>1. /\ c \in Worlds /\ c.live = v.live /\ InRows(c)
          /\ c.view.active = TRUE /\ c.view.quit = FALSE /\ c.view.retv = "cancel"
          /\ c.loop.timer = v.loop.timer /\ c.loop.guard = v.loop.guard
          /\ c.loop.settle = v.loop.settle /\ c.anim.exiting = FALSE
          /\ c.surface.count = v.surface.count /\ c.surface.down = v.surface.down
      BY <2>2, CreateDoes
    <3>2. r = c
      BY <2>2
    <3> HIDE DEF c, r
    <3>3. Picked(c) /\ Sized(c) /\ Held(c) /\ Rows(c)
      BY <2>2, <3>1 DEF Picked, Sized, Held, Rows
    <3> QED BY <3>1, <3>2, <3>3 DEF Sound
  <2>3. CASE w.live = <<>>
    <3>1. r = w
      BY <1>0, <1>2, <2>3 DEF Refresh
    <3> QED BY <1>2, <3>1 DEF Rows
  <2>4. CASE w.live # <<>> /\ ~w.surface.down
    <3>1. r = Create[w]
      BY <1>0, <1>2, <2>4 DEF Refresh
    <3>2. w.surface.count = 1
      BY <1>0, <2>4 DEF Sized
    <3> QED BY <1>0, <2>1, <2>2, <2>4, <3>1, <3>2
  <2>5. CASE w.live # <<>> /\ w.surface.down /\ ok
    <3> DEFINE l == LateSetup[w]
               v == [l EXCEPT !.surface.down = FALSE]
    <3>1. r = Create[v]
      BY <1>0, <1>2, <2>5 DEF Refresh
    <3>2. /\ l \in Worlds /\ l.view = w.view /\ l.surface.count = w.surface.count + 1
          /\ Held(l) /\ l.anim.exiting = w.anim.exiting
      BY <1>0, LateSetupDoes
    <3> HIDE DEF l
    <3>3. w.surface.count = 0
      BY <1>0, <2>5 DEF Sized
    <3>4. ~l.loop.settle /\ ~l.loop.guard
      BY <1>2, <3>2 DEF Held
    <3>5. /\ v \in Worlds /\ v.anim = l.anim /\ v.loop = l.loop
          /\ v.surface.count = l.surface.count /\ v.surface.down = FALSE
      BY <3>2 DEF Worlds, Surfaces
    <3> HIDE DEF v
    <3> QED BY <2>1, <2>2, <3>1, <3>2, <3>3, <3>4, <3>5
  <2>6. CASE w.live # <<>> /\ w.surface.down /\ ~ok
    <3>1. r = w
      BY <1>0, <1>2, <2>6 DEF Refresh
    <3> QED BY <1>2, <3>1 DEF Rows
  <2> QED BY <2>1, <2>3, <2>4, <2>5, <2>6
<1> QED BY <1>1, <1>2

(* An entry less. *)
LEMMA RemovedTyped ==
  ASSUME NEW s \in Seq(Nat), NEW i \in 1 .. Len(s)
  PROVE  RemoveAt(s, i) \in Seq(Nat)
<1>1. Len(s) \in Nat /\ i \in Nat
  BY LenProperties
<1>2. SubSeq(s, 1, i - 1) \in Seq(Nat)
  <2>1. \A j \in 1 .. i - 1 : s[j] \in Nat
    BY <1>1, ElementOfSeq
  <2> QED BY <1>1, <2>1, SubSeqProperties
<1>3. SubSeq(s, i + 1, Len(s)) \in Seq(Nat)
  <2>1. \A j \in i + 1 .. Len(s) : s[j] \in Nat
    BY <1>1, ElementOfSeq
  <2> QED BY <1>1, <2>1, SubSeqProperties
<1> QED BY <1>2, <1>3, ConcatProperties DEF RemoveAt

(* A view that is done is gone, or goes on with the rows of now. *)
LEMMA ProcessResultDoes ==
  ASSUME NEW w \in Worlds, w.view.active, Picked(w)
  PROVE  LET r == ProcessResult[w]
         IN /\ r \in Worlds /\ r.anim = w.anim
            /\ r.surface.count = w.surface.count /\ r.surface.down = w.surface.down
            /\ r.loop.settle = w.loop.settle /\ r.loop.guard = w.loop.guard
            /\ \/ r.view = NoView
               \/ /\ r.view.active /\ ~r.view.quit /\ r.view.retv = "cancel"
                  /\ InRows(r)
<1> DEFINE r == ProcessResult[w]
<1>1. w.view.retv \in {"cancel", "ok", "clear"} /\ w.view.sel \in Nat /\ w.live \in Seq(Nat)
      /\ Len(w.live) \in Nat /\ w.view.meant \in Nat
  BY LenProperties DEF Worlds, Views
<1>2. ASSUME NEW v \in Worlds, v.view.active, v.anim = w.anim, v.surface = w.surface,
             v.loop.settle = w.loop.settle, v.loop.guard = w.loop.guard, r = SwitchMode[v]
      PROVE  /\ r \in Worlds /\ r.anim = w.anim
             /\ r.surface.count = w.surface.count /\ r.surface.down = w.surface.down
             /\ r.loop.settle = w.loop.settle /\ r.loop.guard = w.loop.guard
             /\ r.view.active /\ ~r.view.quit /\ r.view.retv = "cancel"
             /\ InRows(r)
  <2> DEFINE q == SwitchMode[v]
  <2>1. /\ q \in Worlds /\ Calm(v, q) /\ InRows(q) /\ q.view.active = v.view.active
        /\ q.view.quit = FALSE /\ q.view.retv = "cancel"
    BY <1>2, SwitchModeDoes
  <2>2. r = q
    BY <1>2
  <2> HIDE DEF q, r
  <2> QED BY <1>2, <2>1, <2>2 DEF Calm
<1>3. ASSUME NEW u \in Worlds, u.view.active, u.anim = w.anim, u.surface = w.surface,
             u.loop = w.loop, r = SwitchMode[Refresh[u][TRUE]]
      PROVE  /\ r \in Worlds /\ r.anim = w.anim
             /\ r.surface.count = w.surface.count /\ r.surface.down = w.surface.down
             /\ r.loop.settle = w.loop.settle /\ r.loop.guard = w.loop.guard
             /\ r.view.active /\ ~r.view.quit /\ r.view.retv = "cancel"
             /\ InRows(r)
  <2> DEFINE v == Refresh[u][TRUE]
  <2>1. /\ v \in Worlds /\ v.anim = u.anim /\ v.surface = u.surface
        /\ v.loop.settle = u.loop.settle /\ v.loop.guard = u.loop.guard /\ v.view.active
    BY <1>3, RefreshOfView
  <2>2. r = SwitchMode[v]
    BY <1>3
  <2> HIDE DEF v, r
  <2> QED BY <1>2, <1>3, <2>1, <2>2
<1>4. CASE w.view.retv = "cancel"
  <2> DEFINE c == [w EXCEPT !.view = NoView]
  <2>1. NoView \in Views
    <3>1. <<>> \in Seq(Nat)
      BY EmptySeq
    <3> QED BY <3>1 DEF NoView, Views
  <2>2. r = c
    BY <1>4 DEF ProcessResult
  <2>3. c \in Worlds /\ c.anim = w.anim /\ c.surface = w.surface /\ c.loop = w.loop
        /\ c.view = NoView
    BY <2>1 DEF Worlds
  <2> HIDE DEF c, r
  <2> QED BY <2>2, <2>3 DEF r
<1>5. CASE w.view.retv = "ok" /\ w.view.sel > Len(w.live)
  <2>1. r = SwitchMode[w]
    BY <1>5 DEF ProcessResult
  <2> HIDE DEF r
  <2>2. /\ r \in Worlds /\ r.anim = w.anim
        /\ r.surface.count = w.surface.count /\ r.surface.down = w.surface.down
        /\ r.loop.settle = w.loop.settle /\ r.loop.guard = w.loop.guard
        /\ r.view.active /\ ~r.view.quit /\ r.view.retv = "cancel"
        /\ InRows(r)
    BY <1>2, <2>1
  <2> QED BY <2>2 DEF r
<1>6. CASE w.view.retv = "ok" /\ ~(w.view.sel > Len(w.live))
  <2> DEFINE gone == RemoveAt(w.live, w.view.sel)
             did == [meant |-> w.view.meant, target |-> w.live[w.view.sel]]
             u == [w EXCEPT !.live = gone, !.acted = did]
  <2>1. w.view.sel \in 1 .. Len(w.live)
    BY <1>1, <1>6 DEF Picked
  <2>2. gone \in Seq(Nat) /\ did \in [meant : Nat, target : Nat]
    BY <1>1, <2>1, RemovedTyped, ElementOfSeq
  <2>3. r = SwitchMode[Refresh[u][TRUE]]
    BY <1>6 DEF ProcessResult
  <2> HIDE DEF gone, did
  <2>4. /\ u \in Worlds /\ u.view = w.view /\ u.anim = w.anim /\ u.surface = w.surface
        /\ u.loop = w.loop
    BY <2>2 DEF Worlds
  <2> HIDE DEF u, r
  <2>5. /\ r \in Worlds /\ r.anim = w.anim
        /\ r.surface.count = w.surface.count /\ r.surface.down = w.surface.down
        /\ r.loop.settle = w.loop.settle /\ r.loop.guard = w.loop.guard
        /\ r.view.active /\ ~r.view.quit /\ r.view.retv = "cancel"
        /\ InRows(r)
    BY <1>3, <2>3, <2>4
  <2> QED BY <2>5 DEF r
<1>7. CASE w.view.retv = "clear"
  <2> DEFINE u == [w EXCEPT !.live = <<>>]
  <2>1. r = SwitchMode[IF w.live = <<>> THEN w ELSE Refresh[u][TRUE]]
    BY <1>7 DEF ProcessResult
  <2>2. /\ u \in Worlds /\ u.view = w.view /\ u.anim = w.anim /\ u.surface = w.surface
        /\ u.loop = w.loop
    <3>1. <<>> \in Seq(Nat)
      BY EmptySeq
    <3> QED BY <3>1 DEF Worlds
  <2> HIDE DEF u, r
  <2>3. /\ r \in Worlds /\ r.anim = w.anim
        /\ r.surface.count = w.surface.count /\ r.surface.down = w.surface.down
        /\ r.loop.settle = w.loop.settle /\ r.loop.guard = w.loop.guard
        /\ r.view.active /\ ~r.view.quit /\ r.view.retv = "cancel"
        /\ InRows(r)
    <3>1. CASE w.live = <<>>
      BY <1>2, <2>1, <3>1
    <3>2. CASE w.live # <<>>
      BY <1>3, <2>1, <2>2, <3>2
    <3> QED BY <3>1, <3>2
  <2> QED BY <2>3 DEF r
<1> QED BY <1>1, <1>4, <1>5, <1>6, <1>7

(* The end of an update: a reload that was asked for is done. *)
LEMMA RestDoes ==
  ASSUME NEW w \in Worlds
  PROVE  LET r == Rest[w]
         IN /\ r \in Worlds /\ Calm(w, r) /\ Same(w, r)
            /\ w.view.refilter \/ InRows(w) => InRows(r)
<1> DEFINE v == IF w.view.refilter THEN Refilter[w] ELSE w
           r == Update[v]
<1>1. Rest[w] = r
  BY DEF Rest
<1>2. v \in Worlds /\ Calm(w, v) /\ Same(w, v) /\ (w.view.refilter \/ InRows(w) => InRows(v))
  <2>1. CASE w.view.refilter
    BY <2>1, RefilterDoes
  <2>2. CASE ~w.view.refilter
    BY <2>2 DEF Calm, Same
  <2> QED BY <2>1, <2>2
<1> HIDE DEF v
<1>3. /\ r \in Worlds /\ Calm(v, r) /\ Same(v, r) /\ r.view.lines = v.view.lines
      /\ r.view.shown \in {v.view.shown, Texts(v)}
  BY <1>2, UpdateDoes
<1>4. v.view.lines = Len(v.live) => Texts(v) = v.live
  BY <1>2, TextsDo
<1> HIDE DEF r
<1>5. InRows(v) => InRows(r)
  BY <1>3, <1>4 DEF InRows, Calm
<1> QED BY <1>1, <1>2, <1>3, <1>5 DEF Calm, Same

(* The update of a view that is up. *)
LEMMA MaybeUpdateDoes ==
  ASSUME NEW w, Sound(w), w.view.active
  PROVE  LET r == MaybeUpdate[w]
         IN /\ Sound(r) /\ (~w.view.quit => r.loop.timer = w.loop.timer)
            /\ r.view.active /\ ~r.view.quit =>
                 (w.view.quit \/ w.view.refilter \/ InRows(w) => InRows(r))
            /\ w.anim.exiting => r.anim.exiting
            /\ w.view.quit /\ ~w.anim.mapped => ~r.view.quit
<1> DEFINE r == MaybeUpdate[w]
<1>0. w \in Worlds /\ Picked(w) /\ Sized(w) /\ Held(w)
  BY DEF Sound
<1>1. CASE ~w.view.quit
  <2>1. r = Rest[w]
    BY <1>0, <1>1 DEF MaybeUpdate
  <2>2. /\ r \in Worlds /\ Calm(w, r) /\ Same(w, r)
        /\ w.view.refilter \/ InRows(w) => InRows(r)
    BY <1>0, <2>1, RestDoes
  <2> HIDE DEF r
  <2>3. Picked(r) /\ Sized(r)
    BY <1>0, <2>2 DEF Picked, Sized, Calm, Same
  <2>4. Held(r)
    BY <1>0, <2>2 DEF Held, Defers, Calm, Same
  <2> QED BY <1>1, <2>2, <2>3, <2>4 DEF Sound, Calm, Same, r
<1>2. CASE w.view.quit /\ Defers(w)
  <2> DEFINE u == SurfaceUnmap[w]
  <2>1. r = Update[u]
    BY <1>0, <1>2 DEF MaybeUpdate
  <2>2. /\ u \in Worlds /\ u.live = w.live /\ u.view = w.view
        /\ u.surface = w.surface /\ u.loop.timer = w.loop.timer
        /\ u.loop.settle = w.loop.settle
        /\ Defers(w) => /\ Defers(u) /\ u.anim.exiting = TRUE
                        /\ u.loop.guard = TRUE \/ (w.anim.exiting /\ u.loop.guard = w.loop.guard)
    BY <1>0, SurfaceUnmapDoes
  <2> HIDE DEF u
  <2>3. r \in Worlds /\ Calm(u, r) /\ Same(u, r)
    BY <2>1, <2>2, UpdateDoes
  <2> HIDE DEF r
  <2>4. Picked(r) /\ Sized(r)
    BY <1>0, <2>2, <2>3 DEF Picked, Sized, Calm, Same
  <2>5. Held(r)
    BY <1>0, <1>2, <2>2, <2>3 DEF Held, Defers, Calm, Same
  <2>6. r.view.quit /\ r.anim.exiting
    BY <1>2, <2>2, <2>3 DEF Calm, Same
  <2> QED BY <1>2, <2>2, <2>3, <2>4, <2>5, <2>6 DEF Sound, Calm, Defers, r
<1>3. CASE w.view.quit /\ ~Defers(w)
  <2> DEFINE u == SurfaceUnmap[w]
             left == ProcessResult[u]
  <2>0. ~w.anim.exiting
    BY <1>0, <1>3 DEF Held
  <2>1. r = IF left.view.active THEN Rest[left] ELSE Hide[left]
    BY <1>0, <1>3 DEF MaybeUpdate
  <2>2. /\ u \in Worlds /\ u.live = w.live /\ u.view = w.view
        /\ u.surface = w.surface /\ u.loop.timer = w.loop.timer
        /\ u.loop.settle = w.loop.settle
        /\ ~Defers(w) => /\ u.anim.exiting = FALSE /\ u.anim.mapped = FALSE
                         /\ u.anim.tween = 0 /\ u.loop.guard = w.loop.guard
    BY <1>0, SurfaceUnmapDoes
  <2> HIDE DEF u
  <2>3. Picked(u) /\ u.view.active
    BY <1>0, <2>2 DEF Picked
  <2>4. /\ left \in Worlds /\ left.anim = u.anim
        /\ left.surface.count = u.surface.count /\ left.surface.down = u.surface.down
        /\ left.loop.settle = u.loop.settle /\ left.loop.guard = u.loop.guard
        /\ \/ left.view = NoView
           \/ /\ left.view.active /\ ~left.view.quit /\ left.view.retv = "cancel"
              /\ InRows(left)
    BY <2>2, <2>3, ProcessResultDoes
  <2>5. ~left.anim.exiting
    BY <1>3, <2>2, <2>4
  <2> HIDE DEF left
  <2>6. CASE left.view.active
    <3>1. ~left.view.quit /\ left.view.retv = "cancel" /\ InRows(left)
      BY <2>4, <2>6 DEF NoView
    <3>2. r \in Worlds /\ Calm(left, r) /\ Same(left, r) /\ InRows(r)
      BY <2>1, <2>4, <2>6, <3>1, RestDoes
    <3> HIDE DEF r
    <3>3. Picked(r) /\ Sized(r)
      BY <1>0, <2>2, <2>4, <2>6, <3>1, <3>2 DEF Picked, Sized, Calm, Same
    <3>4. Held(r)
      BY <2>5, <2>6, <3>2 DEF Held, Calm, Same
    <3> QED BY <2>0, <3>1, <3>2, <3>3, <3>4, <1>3 DEF Sound, Same, r
  <2>7. CASE ~left.view.active
    <3>1. left.view = NoView
      BY <2>4, <2>7
    <3>2. r = Hide[left]
      BY <2>1, <2>7
    <3>3. left.surface.count \in {0, 1}
      BY <1>0, <2>2, <2>4 DEF Sized
    <3> HIDE DEF r
    <3>4. /\ r \in Worlds /\ r.view = left.view /\ ~r.loop.guard /\ ~r.loop.settle
          /\ r.anim = Resting /\ r.surface.count = 0 /\ r.surface.down = TRUE
      <4> DEFINE h == Hide[left]
      <4>1. /\ h \in Worlds /\ h.view = left.view /\ ~h.loop.guard /\ ~h.loop.settle
            /\ h.anim = Resting /\ h.surface.count = 0 /\ h.surface.down = TRUE
        BY <2>4, <2>5, <3>3, HideDoes
      <4>2. r = h
        BY <3>2
      <4> HIDE DEF h
      <4> QED BY <4>1, <4>2
    <3>5. Picked(r) /\ Sized(r) /\ Held(r)
      BY <3>1, <3>4 DEF Picked, Sized, Held, NoView, Resting
    <3>6. ~r.view.active /\ ~r.view.quit
      BY <3>1, <3>4 DEF NoView
    <3> QED BY <1>3, <2>0, <3>4, <3>5, <3>6 DEF Sound, r
  <2> QED BY <2>6, <2>7
<1> QED BY <1>1, <1>2, <1>3

(* With the rows right before, they are right after. *)
LEMMA UpdateKeepsRows ==
  ASSUME NEW w, Sound(w), w.view.active, w.view.refilter \/ Rows(w)
  PROVE  LET r == MaybeUpdate[w]
         IN /\ r.view.active /\ ~r.view.quit /\ w.view.refilter => InRows(r)
            /\ Rows(w) => Rows(r)
<1> DEFINE r == MaybeUpdate[w]
<1>1. /\ ~w.view.quit => r.loop.timer = w.loop.timer
      /\ r.view.active /\ ~r.view.quit =>
           (w.view.quit \/ w.view.refilter \/ InRows(w) => InRows(r))
  BY MaybeUpdateDoes
<1> HIDE DEF r
<1> QED BY <1>1 DEF Rows, r
--------------------------------------------------------------------------------
(* The dispatch of a source: the invariant holds after it, and no exit is lost. *)
Step == BannerIInv' /\ (anim.exiting /\ ~anim'.exiting => loop'.settle \/ ~view'.quit)

LEMMA Landing ==
  ASSUME NEW r, Sound(r), Rows(r), Become(r), arrived' \in Nat,
         anim.exiting /\ ~r.anim.exiting => r.loop.settle \/ ~r.view.quit
  PROVE  Step
<1>1. /\ live' = r.live /\ view' = r.view /\ loop' = r.loop
      /\ surface' = r.surface /\ anim' = r.anim /\ acted' = r.acted
  BY DEF Become
<1>2. World' = r
  BY <1>1 DEF World, Worlds, Sound
<1> QED BY <1>1, <1>2 DEF Step, BannerIInv

LEMMA Standing ==
  ASSUME BannerIInv
  PROVE  /\ Sound(World) /\ Rows(World) /\ World \in Worlds
         /\ Picked(World) /\ Sized(World) /\ Held(World)
         /\ World.live = live /\ World.view = view /\ World.loop = loop
         /\ World.surface = surface /\ World.anim = anim /\ arrived \in Nat
  BY DEF BannerIInv, Sound, World

LEMMA BannerInitially == Init => BannerIInv
<1> SUFFICES ASSUME Init PROVE BannerIInv
  OBVIOUS
<1>1. <<>> \in Seq(Nat)
  BY EmptySeq
<1>2. /\ view \in Views /\ loop \in Loops /\ surface \in Surfaces /\ anim \in Anims
      /\ acted \in [meant : Nat, target : Nat]
  BY <1>1 DEF Init, NoView, Views, Loops, Surfaces, Resting, Anims
<1>3. World \in Worlds
  BY <1>1, <1>2 DEF Init, World, Worlds
<1>4. Picked(World) /\ Sized(World) /\ Held(World) /\ Rows(World)
  BY DEF Init, World, NoView, Resting, Picked, Sized, Held, Rows
<1> QED BY <1>3, <1>4 DEF BannerIInv, Sound, Init

(* Whatever changes the store ends in a refresh. *)
LEMMA ArriveSteps == ASSUME BannerIInv, NEW ok \in BOOLEAN, Arrive(ok) PROVE Step
<1> DEFINE new == <<arrived + 1>> \o World.live
           w == [World EXCEPT !.live = new]
           r == Refresh[w][ok]
<1>1. /\ World \in Worlds /\ Picked(World) /\ Sized(World) /\ Held(World)
      /\ World.anim = anim /\ arrived \in Nat /\ World.live = live
  BY Standing
<1>2. new \in Seq(Nat)
  <2>1. <<arrived + 1>> \in Seq(Nat) /\ World.live \in Seq(Nat)
    BY <1>1 DEF Worlds
  <2> QED BY <2>1, ConcatProperties
<1>3. Become(r) /\ arrived' \in Nat
  BY <1>1 DEF Arrive
<1> HIDE DEF new
<1>4. /\ w \in Worlds /\ w.view = World.view /\ w.loop = World.loop
      /\ w.surface = World.surface /\ w.anim = World.anim
  BY <1>1, <1>2 DEF Worlds
<1> HIDE DEF w
<1>5. Sound(w)
  BY <1>1, <1>4 DEF Sound, Picked, Sized, Held, Defers
<1>6. Sound(r) /\ Rows(r) /\ (w.anim.exiting => r.anim.exiting)
  BY <1>5, RefreshDoes
<1> HIDE DEF r
<1> QED BY <1>1, <1>3, <1>4, <1>6, Landing

LEMMA GoneSteps ==
  ASSUME BannerIInv, NEW ok \in BOOLEAN, NEW i \in DOMAIN live, Gone(i, ok)
  PROVE  Step
<1> DEFINE new == RemoveAt(World.live, i)
           w == [World EXCEPT !.live = new]
           r == Refresh[w][ok]
<1>1. /\ World \in Worlds /\ Picked(World) /\ Sized(World) /\ Held(World)
      /\ World.anim = anim /\ arrived \in Nat /\ World.live = live
  BY Standing
<1>2. new \in Seq(Nat)
  <2>1. World.live \in Seq(Nat) /\ i \in 1 .. Len(World.live)
    <3>1. World.live \in Seq(Nat)
      BY <1>1 DEF Worlds
    <3> QED BY <1>1, <3>1, LenProperties
  <2> QED BY <2>1, RemovedTyped
<1>3. Become(r) /\ arrived' \in Nat
  BY <1>1 DEF Gone
<1> HIDE DEF new
<1>4. /\ w \in Worlds /\ w.view = World.view /\ w.loop = World.loop
      /\ w.surface = World.surface /\ w.anim = World.anim
  BY <1>1, <1>2 DEF Worlds
<1> HIDE DEF w
<1>5. Sound(w)
  BY <1>1, <1>4 DEF Sound, Picked, Sized, Held, Defers
<1>6. Sound(r) /\ Rows(r) /\ (w.anim.exiting => r.anim.exiting)
  BY <1>5, RefreshDoes
<1> HIDE DEF r
<1> QED BY <1>1, <1>3, <1>4, <1>6, Landing

LEMMA ChangedSteps == ASSUME BannerIInv, NEW ok \in BOOLEAN, Changed(ok) PROVE Step
<1> DEFINE r == Refresh[World][ok]
<1>1. Sound(World) /\ World.anim = anim /\ arrived \in Nat
  BY Standing
<1>2. Become(r) /\ arrived' \in Nat
  BY <1>1 DEF Changed
<1>3. Sound(r) /\ Rows(r) /\ (World.anim.exiting => r.anim.exiting)
  BY <1>1, RefreshDoes
<1> HIDE DEF r
<1> QED BY <1>1, <1>2, <1>3, Landing

(* The reload fetches the rows of now. *)
LEMMA ReloadTimerSteps == ASSUME BannerIInv, ReloadTimer PROVE Step
<1> DEFINE v == [World EXCEPT !.view.refilter = TRUE]
           u == IF view.active THEN MaybeUpdate[v] ELSE World
           r == [u EXCEPT !.loop.timer = FALSE]
<1>1. /\ World \in Worlds /\ Picked(World) /\ Sized(World) /\ Held(World) /\ Sound(World)
      /\ World.anim = anim /\ World.view = view /\ arrived \in Nat
  BY Standing
<1>2. Become(r) /\ arrived' \in Nat
  BY <1>1 DEF ReloadTimer
<1>3. /\ v \in Worlds /\ v.live = World.live /\ v.loop = World.loop
      /\ v.surface = World.surface /\ v.anim = World.anim
      /\ v.view.active = World.view.active /\ v.view.quit = World.view.quit
      /\ v.view.retv = World.view.retv /\ v.view.sel = World.view.sel
      /\ v.view.refilter = TRUE
  BY <1>1 DEF Worlds, Views
<1> HIDE DEF v
<1>4. Sound(v)
  BY <1>1, <1>3 DEF Sound, Picked, Sized, Held, Defers
<1>5. /\ Sound(u) /\ (u.view.active /\ ~u.view.quit => InRows(u))
      /\ anim.exiting => u.anim.exiting
  <2>1. CASE view.active
    <3>1. v.view.active
      BY <1>1, <1>3, <2>1
    <3> DEFINE m == MaybeUpdate[v]
    <3>2. Sound(m) /\ (v.anim.exiting => m.anim.exiting)
      BY <1>4, <3>1, MaybeUpdateDoes
    <3>3. m.view.active /\ ~m.view.quit => InRows(m)
      BY <1>3, <1>4, <3>1, UpdateKeepsRows
    <3>4. u = m
      BY <2>1
    <3> HIDE DEF m, u
    <3> QED BY <1>1, <1>3, <3>2, <3>3, <3>4
  <2>2. CASE ~view.active
    <3>1. u = World
      BY <2>2
    <3> HIDE DEF u
    <3> QED BY <1>1, <2>2, <3>1
  <2> QED BY <2>1, <2>2
<1> HIDE DEF u
<1>6. /\ r \in Worlds /\ r.live = u.live /\ r.view = u.view /\ r.surface = u.surface
      /\ r.anim = u.anim /\ r.loop.settle = u.loop.settle /\ r.loop.guard = u.loop.guard
  BY <1>5 DEF Sound, Worlds, Loops
<1> HIDE DEF r
<1>7. Sound(r) /\ Rows(r)
  BY <1>5, <1>6 DEF Sound, Picked, Sized, Held, Defers, Rows, InRows
<1> QED BY <1>2, <1>5, <1>6, <1>7, Landing

LEMMA RepaintIdleSteps == ASSUME BannerIInv, RepaintIdle PROVE Step
<1> DEFINE v == [World EXCEPT !.loop.queued = FALSE]
           m == MaybeUpdate[v]
           u == [m EXCEPT !.loop.source = FALSE]
           r == IF view.active THEN u ELSE v
<1>1. /\ World \in Worlds /\ Picked(World) /\ Sized(World) /\ Held(World) /\ Rows(World)
      /\ World.anim = anim /\ World.view = view /\ arrived \in Nat
  BY Standing
<1>2. Become(r) /\ arrived' \in Nat
  BY <1>1 DEF RepaintIdle
<1>3. /\ v \in Worlds /\ v.live = World.live /\ v.view = World.view
      /\ v.surface = World.surface /\ v.anim = World.anim
      /\ v.loop.timer = World.loop.timer /\ v.loop.settle = World.loop.settle
      /\ v.loop.guard = World.loop.guard
  BY <1>1 DEF Worlds, Loops
<1> HIDE DEF v
<1>4. Sound(v) /\ Rows(v)
  BY <1>1, <1>3 DEF Sound, Picked, Sized, Held, Defers, Rows, InRows
<1>5. CASE view.active
  <2>1. Sound(m) /\ Rows(m) /\ (v.anim.exiting => m.anim.exiting)
    BY <1>1, <1>3, <1>4, <1>5, MaybeUpdateDoes, UpdateKeepsRows
  <2> HIDE DEF m
  <2>2. /\ u \in Worlds /\ u.live = m.live /\ u.view = m.view /\ u.surface = m.surface
        /\ u.anim = m.anim /\ u.loop.settle = m.loop.settle
        /\ u.loop.guard = m.loop.guard /\ u.loop.timer = m.loop.timer
    BY <2>1 DEF Sound, Worlds, Loops
  <2>3. r = u
    BY <1>5
  <2> HIDE DEF u, r
  <2>4. Sound(u) /\ Rows(u)
    BY <2>1, <2>2 DEF Sound, Picked, Sized, Held, Defers, Rows, InRows
  <2> QED BY <1>1, <1>2, <1>3, <2>1, <2>2, <2>3, <2>4, Landing
<1>6. CASE ~view.active
  <2>1. r = v
    BY <1>6
  <2> HIDE DEF r
  <2> QED BY <1>1, <1>2, <1>3, <1>4, <2>1, Landing
<1> QED BY <1>5, <1>6

(* A frame moves the surface, and can only ask for the end of an exit. *)
LEMMA FrameMoves ==
  ASSUME NEW w, Sound(w), Rows(w), NEW left \in Nat, NEW c \in {"none", "asked", "due"},
         ~w.view.active => left = 0
  PROVE  LET r == [FrameCallback[AnimFrame[w][left]] EXCEPT !.surface.frame = c]
         IN Sound(r) /\ Rows(r) /\ r.anim.exiting = w.anim.exiting
<1> DEFINE f == AnimFrame[w][left]
           g == FrameCallback[f]
           r == [g EXCEPT !.surface.frame = c]
<1>0. w \in Worlds /\ Picked(w) /\ Sized(w) /\ Held(w)
  BY DEF Sound
<1>1. /\ f \in Worlds /\ f.live = w.live /\ f.view = w.view /\ f.surface = w.surface
      /\ f.loop.timer = w.loop.timer /\ f.loop.guard = w.loop.guard
      /\ w.loop.settle => f.loop.settle
      /\ ~w.anim.exiting => f.loop.settle = w.loop.settle
      /\ f.anim.exiting = w.anim.exiting /\ f.anim.mapped = w.anim.mapped
      /\ f.anim.tween = left
  BY <1>0, AnimFrameDoes
<1> HIDE DEF f
<1>2. /\ g \in Worlds /\ g.live = f.live /\ g.view = f.view /\ g.surface = f.surface
      /\ g.loop.timer = f.loop.timer /\ g.loop.guard = f.loop.guard
      /\ g.loop.settle = f.loop.settle /\ g.anim = f.anim
  BY <1>1, FrameCallbackDoes
<1> HIDE DEF g
<1>3. /\ r \in Worlds /\ r.live = g.live /\ r.view = g.view /\ r.loop = g.loop
      /\ r.anim = g.anim /\ r.surface.count = g.surface.count
      /\ r.surface.down = g.surface.down
  BY <1>2 DEF Worlds, Surfaces
<1> HIDE DEF r
<1>4. Picked(r) /\ Sized(r) /\ Rows(r)
  BY <1>0, <1>1, <1>2, <1>3 DEF Picked, Sized, Rows, InRows
<1>5. Held(r)
  BY <1>0, <1>1, <1>2, <1>3 DEF Held, Defers
<1> QED BY <1>1, <1>2, <1>3, <1>4, <1>5 DEF Sound, r, g, f

LEMMA FrameSteps ==
  ASSUME BannerIInv, NEW left \in 0 .. Frames, Frame(left)
  PROVE  Step
<1> DEFINE r == [FrameCallback[AnimFrame[World][left]] EXCEPT !.surface.frame = "asked"]
<1>1. /\ World \in Worlds /\ Sound(World) /\ Rows(World) /\ Held(World)
      /\ World.anim = anim /\ World.view = view /\ arrived \in Nat
  BY Standing
<1>2. Become(r) /\ arrived' \in Nat /\ left \in Nat
  BY <1>1, BannerAssumption DEF Frame
<1>3. ~World.view.active => left = 0
  <2> SUFFICES ASSUME ~World.view.active PROVE left = 0
    OBVIOUS
  <2>1. World.anim.tween = 0
    BY <1>1 DEF Held
  <2>2. left \in IF World.anim.dormant THEN {World.anim.tween}
                ELSE {0} \cup 0 .. (World.anim.tween - 1)
    BY DEF Frame, Elapses
  <2> QED BY <2>1, <2>2
<1>4. Sound(r) /\ Rows(r) /\ r.anim.exiting = World.anim.exiting
  BY <1>1, <1>2, <1>3, FrameMoves
<1> HIDE DEF r
<1> QED BY <1>1, <1>2, <1>4, Landing

LEMMA StrayFrameSteps == ASSUME BannerIInv, StrayFrame PROVE Step
<1> DEFINE left == anim.tween
           r == [FrameCallback[AnimFrame[World][left]] EXCEPT !.surface.frame = "none"]
<1>1. /\ World \in Worlds /\ Sound(World) /\ Rows(World) /\ Held(World)
      /\ World.anim = anim /\ World.view = view /\ arrived \in Nat
  BY Standing
<1>2. Become(r) /\ arrived' \in Nat
  BY <1>1 DEF StrayFrame
<1>3. left \in Nat /\ (~World.view.active => left = 0)
  BY <1>1 DEF Worlds, Anims, Held
<1> HIDE DEF left
<1>4. Sound(r) /\ Rows(r) /\ r.anim.exiting = World.anim.exiting
  BY <1>1, <1>3, FrameMoves
<1> HIDE DEF r
<1> QED BY <1>1, <1>2, <1>4, Landing

(* The exit is over: the view that it held up is finished. *)
LEMMA SettleIdleSteps == ASSUME BannerIInv, SettleIdle PROVE Step
<1> DEFINE v == [World EXCEPT !.loop.settle = FALSE, !.loop.guard = FALSE,
                              !.anim.exiting = FALSE, !.anim.mapped = FALSE,
                              !.anim.tween = 0, !.anim.dormant = TRUE]
           m == MaybeUpdate[v]
           r == IF view.active THEN m ELSE v
<1>1. /\ World \in Worlds /\ Picked(World) /\ Sized(World) /\ Held(World) /\ Rows(World)
      /\ World.anim = anim /\ World.view = view /\ arrived \in Nat
  BY Standing
<1>2. Become(r) /\ arrived' \in Nat
  BY <1>1 DEF SettleIdle
<1>3. v \in Worlds
  BY <1>1 DEF Worlds, Loops, Anims
<1>4. /\ v.live = World.live /\ v.view = World.view /\ v.surface = World.surface
      /\ v.loop.timer = World.loop.timer /\ v.loop.settle = FALSE /\ v.loop.guard = FALSE
      /\ v.anim.exiting = FALSE /\ v.anim.mapped = FALSE /\ v.anim.tween = 0
  BY <1>1 DEF Worlds, Loops, Anims
<1> HIDE DEF v
<1>5. Sound(v) /\ Rows(v)
  BY <1>1, <1>3, <1>4 DEF Sound, Picked, Sized, Held, Rows, InRows
<1>6. CASE view.active
  <2>1. Sound(m) /\ Rows(m) /\ (v.view.quit /\ ~v.anim.mapped => ~m.view.quit)
    BY <1>1, <1>4, <1>5, <1>6, MaybeUpdateDoes, UpdateKeepsRows
  <2>2. r = m
    BY <1>6
  <2> HIDE DEF m, r
  <2>3. anim.exiting => ~m.view.quit
    BY <1>1, <1>4, <2>1 DEF Held
  <2> QED BY <1>2, <2>1, <2>2, <2>3, Landing
<1>7. CASE ~view.active
  <2>1. r = v
    BY <1>7
  <2> HIDE DEF r
  <2>2. ~anim.exiting
    BY <1>1, <1>7 DEF Held
  <2> QED BY <1>2, <1>5, <2>1, <2>2, Landing
<1> QED BY <1>6, <1>7

LEMMA GuardSteps == ASSUME BannerIInv, Guard PROVE Step
<1> DEFINE e == loop.settle \/ anim.exiting
           r == [World EXCEPT !.loop.guard = FALSE, !.loop.settle = e]
<1>1. /\ World \in Worlds /\ Picked(World) /\ Sized(World) /\ Held(World) /\ Rows(World)
      /\ World.anim = anim /\ World.loop = loop /\ arrived \in Nat
  BY Standing
<1>2. Become(r) /\ arrived' \in Nat
  <2>1. Become([World EXCEPT !.loop.guard = FALSE, !.loop.settle = @ \/ anim.exiting])
    BY DEF Guard
  <2>2. [World EXCEPT !.loop.guard = FALSE, !.loop.settle = @ \/ anim.exiting] = r
    BY <1>1 DEF Worlds, Loops
  <2> HIDE DEF r
  <2> QED BY <1>1, <2>1, <2>2 DEF Guard
<1>3. e \in BOOLEAN /\ (e <=> World.loop.settle \/ World.anim.exiting)
  BY <1>1 DEF Worlds, Loops, Anims
<1> HIDE DEF e
<1>4. /\ r \in Worlds /\ r.live = World.live /\ r.view = World.view
      /\ r.surface = World.surface /\ r.anim = World.anim
      /\ r.loop.timer = World.loop.timer /\ r.loop.settle = e /\ r.loop.guard = FALSE
  BY <1>1, <1>3 DEF Worlds, Loops
<1> HIDE DEF r
<1>5. Sound(r) /\ Rows(r)
  BY <1>1, <1>3, <1>4 DEF Sound, Picked, Sized, Held, Defers, Rows, InRows
<1> QED BY <1>1, <1>2, <1>4, <1>5, Landing

(* The pointer: what it does to the view is done by the update that follows. *)
LEMMA PointerSteps ==
  ASSUME BannerIInv, view.active, arrived' \in Nat,
         NEW w \in Worlds, Become(MaybeUpdate[w]),
         w.live = live, w.loop = loop, w.surface = surface, w.anim = anim,
         w.view.active = view.active, Picked(w),
         \/ w.view.quit
         \/ /\ w.view.quit = view.quit /\ w.view.shown = view.shown
            /\ w.view.lines = view.lines
  PROVE  Step
<1> DEFINE r == MaybeUpdate[w]
<1>1. /\ Sized(World) /\ Held(World) /\ Rows(World) /\ World.live = live
      /\ World.anim = anim /\ World.view = view /\ World.loop = loop
      /\ World.surface = surface
  BY Standing
<1>2. Sized(w)
  BY <1>1 DEF Sized
<1>3. Held(w)
  BY <1>1 DEF Held, Defers
<1>4. Sound(w) /\ Rows(w)
  BY <1>1, <1>2, <1>3 DEF Sound, Rows, InRows
<1>5. Sound(r) /\ Rows(r) /\ (w.anim.exiting => r.anim.exiting)
  BY <1>4, MaybeUpdateDoes, UpdateKeepsRows
<1> HIDE DEF r
<1> QED BY <1>5, Landing DEF r

LEMMA ClickSteps ==
  ASSUME BannerIInv, NEW k \in DOMAIN view.shown, Click(k)
  PROVE  Step
<1> DEFINE e == view.shown[k]
           a == [World EXCEPT !.view.retv = "ok", !.view.sel = k, !.view.meant = e]
           w == [a EXCEPT !.view.quit = TRUE, !.view.changed = TRUE, !.view.dirty = TRUE]
<1>1. /\ World \in Worlds /\ World.live = live /\ World.anim = anim
      /\ World.view = view /\ World.loop = loop /\ World.surface = surface /\ arrived \in Nat
  BY Standing
<1>2. Become(MaybeUpdate[w]) /\ arrived' \in Nat /\ view.active
  BY <1>1 DEF Click
<1>3. k \in Nat /\ k > 0 /\ e \in Nat
  <2>1. view.shown \in Seq(Nat)
    BY <1>1 DEF Worlds, Views
  <2>2. k \in 1 .. Len(view.shown) /\ Len(view.shown) \in Nat
    BY <2>1, LenProperties
  <2>3. e \in Nat
    BY <2>1, <2>2, ElementOfSeq
  <2> QED BY <2>2, <2>3
<1> HIDE DEF e
<1>4. /\ a \in Worlds /\ a.live = World.live /\ a.loop = World.loop
      /\ a.surface = World.surface /\ a.anim = World.anim
      /\ a.view.active = World.view.active /\ a.view.sel = k
  BY <1>1, <1>3 DEF Worlds, Views
<1> HIDE DEF a
<1>5. /\ w \in Worlds /\ w.live = a.live /\ w.loop = a.loop /\ w.surface = a.surface
      /\ w.anim = a.anim /\ w.view.active = a.view.active /\ w.view.quit = TRUE
      /\ w.view.sel = a.view.sel
  BY <1>4 DEF Worlds, Views
<1> HIDE DEF w
<1>6. Picked(w)
  BY <1>3, <1>4, <1>5 DEF Picked
<1> QED BY <1>1, <1>2, <1>4, <1>5, <1>6, PointerSteps

LEMMA ClickClearSteps == ASSUME BannerIInv, ClickClear PROVE Step
<1> DEFINE w == [World EXCEPT !.view.retv = "clear", !.view.quit = TRUE]
<1>1. /\ World \in Worlds /\ World.live = live /\ World.anim = anim
      /\ World.view = view /\ World.loop = loop /\ World.surface = surface /\ arrived \in Nat
  BY Standing
<1>2. Become(MaybeUpdate[w]) /\ arrived' \in Nat /\ view.active
  BY <1>1 DEF ClickClear
<1>3. /\ w \in Worlds /\ w.live = World.live /\ w.loop = World.loop
      /\ w.surface = World.surface /\ w.anim = World.anim
      /\ w.view.active = World.view.active /\ w.view.quit = TRUE /\ w.view.retv = "clear"
  BY <1>1 DEF Worlds, Views
<1> HIDE DEF w
<1>4. Picked(w)
  BY <1>3 DEF Picked
<1> QED BY <1>1, <1>2, <1>3, <1>4, PointerSteps

LEMMA MoveSteps == ASSUME BannerIInv, NEW other \in BOOLEAN, Move(other) PROVE Step
<1> DEFINE c == view.changed \/ other
           d == view.dirty \/ other
           w == [World EXCEPT !.view.changed = c, !.view.dirty = d]
<1>1. /\ World \in Worlds /\ World.live = live /\ World.anim = anim /\ Picked(World)
      /\ World.view = view /\ World.loop = loop /\ World.surface = surface /\ arrived \in Nat
  BY Standing
<1>2. Become(MaybeUpdate[w]) /\ arrived' \in Nat /\ view.active
  <2> DEFINE u == [World EXCEPT !.view.changed = @ \/ other, !.view.dirty = @ \/ other]
  <2>1. Become(MaybeUpdate[u]) /\ arrived' = arrived /\ view.active
    BY DEF Move
  <2>2. u = w
    BY <1>1 DEF Worlds, Views
  <2> HIDE DEF u, w
  <2> QED BY <1>1, <2>1, <2>2
<1>3. c \in BOOLEAN /\ d \in BOOLEAN
  BY <1>1 DEF Worlds, Views
<1> HIDE DEF c, d
<1>4. w \in Worlds
  BY <1>1, <1>3 DEF Worlds, Views
<1>5. /\ w.live = World.live /\ w.loop = World.loop /\ w.surface = World.surface
      /\ w.anim = World.anim /\ w.view.active = World.view.active
      /\ w.view.quit = World.view.quit /\ w.view.retv = World.view.retv
      /\ w.view.sel = World.view.sel /\ w.view.shown = World.view.shown
      /\ w.view.lines = World.view.lines
  BY <1>1, <1>3 DEF Worlds, Views
<1> HIDE DEF w
<1>6. Picked(w)
  BY <1>1, <1>5 DEF Picked
<1> QED BY <1>1, <1>2, <1>4, <1>5, <1>6, PointerSteps

(* The surface is taken away and made anew; an exit in flight goes to the idle. *)
LEMMA LayerClosedSteps ==
  ASSUME BannerIInv, "refused" \notin Inputs, NEW ok \in BOOLEAN, LayerClosed(ok)
  PROVE  Step
<1> DEFINE d == SurfaceDestroy[World]
           l == LateSetup[d]
           v == [l EXCEPT !.view.dirty = TRUE]
           u == Update[v]
           r == IF view.active THEN u ELSE l
<1>1. /\ World \in Worlds /\ Picked(World) /\ Sized(World) /\ Held(World) /\ Rows(World)
      /\ World.anim = anim /\ World.view = view /\ World.surface = surface
      /\ arrived \in Nat
  BY Standing
<1>2. ok
  BY DEF LayerClosed
<1>3. Become(r) /\ arrived' \in Nat /\ surface.count > 0
  BY <1>1, <1>2 DEF LayerClosed
<1>4. surface.count = 1 /\ ~surface.down
  BY <1>1, <1>3 DEF Sized
<1>5. /\ d \in Worlds /\ d.live = World.live /\ d.view = World.view
      /\ d.loop.timer = World.loop.timer /\ d.loop.guard = FALSE
      /\ d.loop.settle = World.anim.exiting /\ d.anim = Resting
      /\ d.surface.count = IF World.surface.count > 0 THEN World.surface.count - 1 ELSE 0
      /\ d.surface.down = World.surface.down
  BY <1>1, SurfaceDestroyDoes
<1> HIDE DEF d
<1>6. Held(d) /\ d.surface.count = 0
  BY <1>1, <1>4, <1>5 DEF Held, Resting
<1>7. /\ l \in Worlds /\ l.live = d.live /\ l.view = d.view
      /\ l.surface.count = d.surface.count + 1 /\ l.surface.down = d.surface.down
      /\ l.loop.timer = d.loop.timer /\ Held(l)
      /\ d.loop.settle => l.loop.settle
  BY <1>5, <1>6, LateSetupDoes
<1> HIDE DEF l
<1>8. Sound(l) /\ Rows(l) /\ (anim.exiting => l.loop.settle)
  BY <1>1, <1>4, <1>5, <1>6, <1>7 DEF Sound, Picked, Sized, Rows, InRows
<1>9. CASE view.active
  <2>1. /\ v \in Worlds /\ Calm(l, v) /\ Same(l, v) /\ v.view.lines = l.view.lines
        /\ v.view.shown = l.view.shown
    BY <1>7 DEF Worlds, Views, Calm, Same
  <2> HIDE DEF v
  <2>2. /\ u \in Worlds /\ Calm(v, u) /\ Same(v, u) /\ u.view.lines = v.view.lines
        /\ u.view.shown \in {v.view.shown, Texts(v)}
        /\ v.view.lines = Len(v.live) => Texts(v) = v.live
    BY <2>1, UpdateDoes, TextsDo
  <2>3. r = u
    BY <1>9
  <2> HIDE DEF u, r
  <2>4. Picked(u) /\ Sized(u)
    BY <1>8, <2>1, <2>2 DEF Sound, Picked, Sized, Calm, Same
  <2>5. Held(u)
    BY <1>7, <2>1, <2>2 DEF Held, Defers, Calm, Same
  <2>6. Rows(u)
    BY <1>8, <2>1, <2>2 DEF Rows, InRows, Calm, Same
  <2>7. anim.exiting => u.loop.settle
    BY <1>8, <2>1, <2>2 DEF Calm
  <2> QED BY <1>3, <2>2, <2>3, <2>4, <2>5, <2>6, <2>7, Landing DEF Sound
<1>10. CASE ~view.active
  <2>1. r = l
    BY <1>10
  <2> HIDE DEF r
  <2> QED BY <1>3, <1>8, <2>1, Landing
<1> QED BY <1>9, <1>10

LEMMA BannerSteps ==
  ASSUME "refused" \notin Inputs, BannerIInv, [Next]_vars
  PROVE  Step
<1>1. CASE UNCHANGED vars
  BY <1>1 DEF vars, BannerIInv, World, Step
<1>2. CASE \E ok \in SetupOutcomes :
             \/ Arrive(ok) \/ (\E i \in DOMAIN live : Gone(i, ok)) \/ Changed(ok)
  BY <1>2, BannerAssumption, ArriveSteps, GoneSteps, ChangedSteps
<1>3. CASE \E ok \in BOOLEAN : LayerClosed(ok)
  BY <1>3, LayerClosedSteps
<1>4. CASE \E left \in 0 .. Frames : Frame(left)
  BY <1>4, FrameSteps
<1>5. CASE \/ ReloadTimer \/ RepaintIdle \/ StrayFrame \/ SettleIdle \/ Guard \/ ClickClear
  BY <1>5, ReloadTimerSteps, RepaintIdleSteps, StrayFrameSteps, SettleIdleSteps,
     GuardSteps, ClickClearSteps
<1>6. CASE \E k \in DOMAIN view.shown : Click(k)
  BY <1>6, ClickSteps
<1>7. CASE \E other \in BOOLEAN : Move(other)
  BY <1>7, MoveSteps
<1> QED BY <1>1, <1>2, <1>3, <1>4, <1>5, <1>6, <1>7 DEF Next
--------------------------------------------------------------------------------
(* Where the compositor grants the surfaces it is asked for: the flag that the *)
(* surface is down tells the truth, and a view has the one surface             *)
(* (sofi.c:396-460, wayland/display.c:1981-2014).                              *)
THEOREM SurfaceKept ==
  ASSUME "refused" \notin Inputs PROVE Spec => []SurfaceTracksView
<1>1. Spec => []BannerIInv
  BY BannerInitially, BannerSteps, PTL DEF Spec, Step
<1> QED BY <1>1, BannerEnough, PTL

(* An exit that was put off always has a source that ends it, and nothing of a *)
(* closed banner is left to the next (anim.c:713-744, 807-838, 901-939).       *)
THEOREM ExitsHeld ==
  ASSUME "refused" \notin Inputs PROVE Spec => []ExitHeld
<1>1. Spec => []BannerIInv
  BY BannerInitially, BannerSteps, PTL DEF Spec, Step
<1> QED BY <1>1, BannerEnough, PTL

(* A banner that stays and has no reload coming shows the live entries, row    *)
(* for row (notifications.c, view.c:940-1004, sofi.c:396-460).                 *)
THEOREM RowsKept ==
  ASSUME "refused" \notin Inputs PROVE Spec => []RowsInStep
<1>1. Spec => []BannerIInv
  BY BannerInitially, BannerSteps, PTL DEF Spec, Step
<1> QED BY <1>1, BannerEnough, PTL

(* However an exit is cut short, the close it was carrying has happened or has *)
(* its idle in the main loop (anim.c:713-744, 901-939).                        *)
THEOREM ExitsNotLost ==
  ASSUME "refused" \notin Inputs PROVE Spec => ExitNotLost
<1>1. ASSUME BannerIInv, [Next]_vars
      PROVE  [anim.exiting /\ ~anim'.exiting => loop'.settle \/ ~view'.quit]_vars
  BY <1>1, BannerSteps DEF Step
<1>2. Spec => []BannerIInv
  BY BannerInitially, BannerSteps, PTL DEF Spec, Step
<1> QED BY <1>1, <1>2, PTL DEF Spec, ExitNotLost
================================================================================
