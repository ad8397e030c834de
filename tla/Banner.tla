-------------------------------- MODULE Banner --------------------------------
(***************************************************************************)
(* The notification banner: how the daemon turns changes of the live set   *)
(* into a layer surface, a view and frames, and how the view goes away     *)
(* again (source/sofi.c, source/view.c, source/wayland/view.c,             *)
(* source/wayland/display.c, source/anim.c, source/modes/notifications.c). *)
(*                                                                         *)
(* Everything runs on one GLib main loop.  A step is the dispatch of one   *)
(* source: a D-Bus handler or expiry that changed the store, the reload    *)
(* timeout, the repaint idle, the settle idle, the exit guard, or one      *)
(* Wayland event.  What a dispatch does is a composition of operators on   *)
(* a world w, one operator per function of the program.                    *)
(*                                                                         *)
(* A world has the fields                                                  *)
(*   live     ids of the store's live entries, newest first                *)
(*   view     the SofiViewState, when active                               *)
(*   loop     the banner's sources in the main loop                        *)
(*   surface  the layer surface and its frame callback                     *)
(*   anim     the entry and exit motion of the surface                     *)
(*   acted    the last click that was carried out: the entry drawn under   *)
(*            the pointer and the entry that was retired (history)         *)
(***************************************************************************)
EXTENDS Integers, Sequences, SequencesExt

CONSTANTS MaxArrivals,    \* bound: notifications that arrive
          Frames,         \* bound: frames a motion lasts
          Motion,         \* anim_enabled(): is anything animated at all
          SetupOutcomes,  \* whether display_late_setup() may succeed, fail
          Inputs          \* the environment's events an instance allows

ASSUME BannerAssumption ==
  /\ MaxArrivals \in Nat
  /\ Frames \in Nat \ {0}
  /\ Motion \in BOOLEAN
  /\ SetupOutcomes \subseteq BOOLEAN
  /\ Inputs \subseteq {"gone", "click", "clear", "move", "closed", "refused",
                     "stray"}

Ids == 1..MaxArrivals

Views ==
  [active : BOOLEAN,    \* is there a SofiViewState on screen
   quit : BOOLEAN, retv : {"cancel", "ok", "clear"}, sel : Nat,
   refilter : BOOLEAN,  \* refilter and reload
   lines : Nat,         \* num_lines
   changed : BOOLEAN,   \* listview.rchanged: the texts are fetched again
   dirty : BOOLEAN,     \* need_redraw of the main window
   shown : Seq(Nat),    \* what the rows show since the last frame painted
   still : BOOLEAN,     \* was that frame painted at rest
   meant : Nat]         \* the entry drawn under the last click (history)

Loops == [timer : BOOLEAN,   \* idle_timeout: a reload is coming
          source : BOOLEAN,  \* repaint_source # 0
          queued : BOOLEAN,  \* a repaint idle is in the main loop
          settle : BOOLEAN,  \* settle_source
          guard : BOOLEAN]   \* guard_source

Surfaces == [count : Nat,    \* layer surfaces in existence
             down : BOOLEAN, \* view_daemon_surface_down
             frame : {"none", "asked", "due"}]  \* frame_cb; due: committed

Anims == [mapped : BOOLEAN, exiting : BOOLEAN, tween : Nat,
          was : BOOLEAN, trailing : BOOLEAN, dormant : BOOLEAN]

Worlds == [live : Seq(Nat), view : Views, loop : Loops, surface : Surfaces,
           anim : Anims, acted : [meant : Nat, target : Nat]]

VARIABLES live, view, loop, surface, anim, acted,
          arrived    \* notifications so far (history)

vars == <<live, view, loop, surface, anim, acted, arrived>>

World == [live |-> live, view |-> view, loop |-> loop, surface |-> surface,
          anim |-> anim, acted |-> acted]

(* The dispatch leaves the world w behind. *)
Become(w) ==
  \E next \in {w} :
    /\ live' = next.live /\ view' = next.view /\ loop' = next.loop
    /\ surface' = next.surface /\ anim' = next.anim /\ acted' = next.acted

NoView ==
  [active |-> FALSE, quit |-> FALSE, retv |-> "cancel", sel |-> 0,
   refilter |-> FALSE, lines |-> 0, changed |-> FALSE, dirty |-> FALSE,
   shown |-> <<>>, still |-> TRUE, meant |-> 0]
--------------------------------------------------------------------------------
(* anim.c: the motion of the surface.  tween is the number of frames left. *)

Busy(w) == w.anim.trailing \/ w.anim.tween > 0

SurfaceMap ==
  [w \in Worlds |->
    IF ~Motion
    THEN [w EXCEPT !.anim.mapped = TRUE, !.anim.exiting = FALSE,
                   !.anim.tween = 0]
    ELSE IF w.anim.mapped /\ ~w.anim.exiting
    THEN w
    ELSE [w EXCEPT !.anim.mapped = TRUE, !.anim.exiting = FALSE,
                   !.anim.tween = Frames]]

(* What sofi_anim_surface_unmap() answers: is the teardown put off. *)
Defers(w) == Motion /\ w.anim.mapped

(* Mutant of SurfaceUnmap: no guard behind the frame callbacks. *)
SurfaceUnmapUnguarded ==
  [w \in Worlds |->
    IF ~Defers(w)
    THEN [w EXCEPT !.anim.mapped = FALSE, !.anim.exiting = FALSE,
                   !.anim.tween = 0]
    ELSE IF w.anim.exiting
    THEN w
    ELSE [w EXCEPT !.anim.exiting = TRUE, !.anim.tween = Frames]]

SurfaceUnmap ==
  [w \in Worlds |->
    IF ~Defers(w)
    THEN [w EXCEPT !.anim.mapped = FALSE, !.anim.exiting = FALSE,
                   !.anim.tween = 0]
    ELSE IF w.anim.exiting
    THEN w
    ELSE [w EXCEPT !.anim.exiting = TRUE, !.anim.tween = Frames,
                   !.loop.guard = TRUE]]

Resting == [mapped |-> FALSE, exiting |-> FALSE, tween |-> 0, was |-> FALSE,
            trailing |-> FALSE, dormant |-> TRUE]

(* Mutant of SurfaceSettle: the exit in flight is dropped with its sources. *)
SurfaceSettleDropped ==
  [w \in Worlds |->
    [w EXCEPT !.loop.guard = FALSE, !.loop.settle = FALSE,
              !.anim = Resting]]

(* Mutant of SurfaceSettle: an idle queued before outlives the surface. *)
SurfaceSettleKeepsIdle ==
  [w \in Worlds |->
    [w EXCEPT !.loop.guard = FALSE, !.loop.settle = @ \/ w.anim.exiting,
              !.anim = Resting]]

(* The surface goes: an exit in flight is finished from an idle. *)
SurfaceSettle ==
  [w \in Worlds |->
    [w EXCEPT !.loop.guard = FALSE, !.loop.settle = w.anim.exiting,
              !.anim = Resting]]

(* sofi_clock_stamp(), sofi_clock_advance(): the frames a motion may have  *)
(* left after one more.  A clock on which nothing ran starts from here.    *)
Elapses(w) ==
  IF w.anim.dormant THEN {w.anim.tween} ELSE {0} \cup 0..(w.anim.tween - 1)

(* Mutant of AnimFrame: no frame beyond the last one that moved. *)
AnimFrameShort ==
  [w \in Worlds |-> [left \in Nat |->
    LET busy == left > 0
    IN [w EXCEPT !.anim.tween = left, !.anim.dormant = ~busy, !.anim.was = busy,
                 !.loop.settle = @ \/ (w.anim.exiting /\ ~busy)]]]

(* sofi_anim_frame(): one frame more is asked for after the last that      *)
(* moved, and an exit that has run its course is handed to the main loop.  *)
AnimFrame ==
  [w \in Worlds |-> [left \in Nat |->
    LET busy == left > 0
    IN [w EXCEPT !.anim.tween = left, !.anim.dormant = ~busy,
                 !.anim.trailing = w.anim.was /\ ~busy, !.anim.was = busy,
                 !.loop.settle = @ \/ (w.anim.exiting /\ ~busy)]]]
--------------------------------------------------------------------------------
(* wayland/view.c: repaints.  loop.source is WlState.repaint_source # 0,   *)
(* loop.queued that such an idle is in the main loop.                      *)

QueueRedraw ==
  [w \in Worlds |->
    IF w.view.active /\ ~w.loop.source
    THEN [w EXCEPT !.view.dirty = TRUE, !.loop.source = TRUE,
                   !.loop.queued = TRUE]
    ELSE w]

FrameCallback ==
  [w \in Worlds |->
    IF w.loop.source THEN w
    ELSE [w EXCEPT !.loop.source = TRUE, !.loop.queued = TRUE]]

(* The rows' texts, fetched by index from the store when the list changed; *)
(* 0 is a row that outlived its entry.                                     *)
Texts(w) ==
  [i \in 1..w.view.lines |-> IF i <= Len(w.live) THEN w.live[i] ELSE 0]

(* widget_draw() and display_surface_commit(), which also makes a          *)
(* requested frame callback effective.                                     *)
Paint ==
  [w \in Worlds |->
    [w EXCEPT
       !.view.shown = IF w.view.changed THEN Texts(w) ELSE @,
       !.view.changed = FALSE,
       !.view.dirty = FALSE,
       !.view.still = ~w.anim.exiting /\ w.anim.tween = 0,
       !.surface.frame = IF w.surface.count > 0 /\ @ = "asked"
                         THEN "due" ELSE @]]

(* wayland_sofi_view_update(state, TRUE). *)
Update ==
  [w \in Worlds |->
    IF w.view.dirty THEN QueueRedraw[Paint[w]]
    ELSE IF Busy(w) THEN Paint[w]
    ELSE w]
--------------------------------------------------------------------------------
(* wayland/display.c: the surface. *)

SurfaceDestroy ==
  [w \in Worlds |->
    [SurfaceSettle[w] EXCEPT !.surface.count = IF @ > 0 THEN @ - 1 ELSE 0]]

(* display_late_setup() when it succeeds.  Its last call is the frame      *)
(* handler, which takes a callback left by an earlier surface for a frame. *)
LateSetup ==
  [w \in Worlds |->
    LET left == IF w.surface.frame = "none" THEN w
                ELSE FrameCallback[AnimFrame[w][w.anim.tween]]
    IN [left EXCEPT !.surface.count = @ + 1, !.surface.frame = "asked"]]

(* sofi_view_hide() and the flag sofi_view_maybe_update() sets after it. *)
Hide ==
  [w \in Worlds |->
     [SurfaceDestroy[w] EXCEPT !.surface.down = TRUE]]
--------------------------------------------------------------------------------
(* view.c and sofi.c: the view. *)

(* sofi_view_refilter_real() with an empty filter and reload set. *)
Refilter ==
  [w \in Worlds |->
    Update[[w EXCEPT !.view.lines = Len(w.live), !.view.changed = TRUE,
                     !.view.dirty = TRUE, !.view.refilter = FALSE]]]

(* sofi_view_switch_mode() to the same mode: what RELOAD_DIALOG comes to. *)
SwitchMode ==
  [w \in Worlds |->
    Update[Refilter[[w EXCEPT !.view.quit = FALSE, !.view.retv = "cancel"]]]]

(* sofi_view_cancel() *)
Cancelled ==
  [w \in Worlds |->
    [w EXCEPT !.view.retv = "cancel", !.view.quit = TRUE]]

(* run_mode_index(): the new view paints before it is made the active one. *)
Create ==
  [w \in Worlds |->
    LET made  == Refilter[[w EXCEPT !.view = NoView]]
        drawn == [made EXCEPT !.view.dirty = TRUE]
    IN QueueRedraw[[SurfaceMap[drawn] EXCEPT !.view.active = TRUE]]]

(* Mutant of Refresh: a surface that could not be made is not noticed. *)
RefreshUnchecked ==
  [w \in Worlds |-> [ok \in BOOLEAN |->
    IF w.live = <<>>
    THEN IF w.view.active THEN Cancelled[w] ELSE w
    ELSE IF w.view.active
    THEN [w EXCEPT !.loop.timer = TRUE]
    ELSE IF ~w.surface.down
    THEN Create[w]
    ELSE Create[[(IF ok THEN LateSetup[w] ELSE w) EXCEPT
                   !.surface.down = FALSE]]]]

(* Mutant of Refresh: a view that is up is not reloaded. *)
RefreshNoReload ==
  [w \in Worlds |-> [ok \in BOOLEAN |->
    IF w.live = <<>>
    THEN IF w.view.active THEN Cancelled[w] ELSE w
    ELSE IF w.view.active
    THEN w
    ELSE IF ~w.surface.down
    THEN Create[w]
    ELSE IF ok
    THEN Create[[LateSetup[w] EXCEPT !.surface.down = FALSE]]
    ELSE w]]

(* sofi_notify_daemon_refresh(); ok: does display_late_setup() succeed. *)
Refresh ==
  [w \in Worlds |-> [ok \in BOOLEAN |->
    IF w.live = <<>>
    THEN IF w.view.active THEN Cancelled[w] ELSE w
    ELSE IF w.view.active
    THEN [w EXCEPT !.loop.timer = TRUE]
    ELSE IF ~w.surface.down
    THEN Create[w]
    ELSE IF ok
    THEN Create[[LateSetup[w] EXCEPT !.surface.down = FALSE]]
    ELSE w]]

(* notifications_mode_result() and process_result() of a finished view.    *)
(* The row is looked up in the store of now.  A view is up, so the refresh *)
(* inside sets nothing up.                                                 *)
ProcessResult ==
  [w \in Worlds |->
    CASE w.view.retv = "cancel" -> [w EXCEPT !.view = NoView]
      [] w.view.retv = "ok" ->
           IF w.view.sel > Len(w.live)
           THEN SwitchMode[w]
           ELSE SwitchMode[Refresh[
                  [w EXCEPT !.live = RemoveAt(@, w.view.sel),
                            !.acted = [meant  |-> w.view.meant,
                                       target |-> w.live[w.view.sel]]]][TRUE]]
      [] w.view.retv = "clear" ->
           SwitchMode[IF w.live = <<>> THEN w
                      ELSE Refresh[[w EXCEPT !.live = <<>>]][TRUE]]]

(* The end of sofi_view_maybe_update(). *)
Rest ==
  [w \in Worlds |->
     Update[IF w.view.refilter THEN Refilter[w] ELSE w]]

MaybeUpdate ==
  [w \in Worlds |->
    IF ~w.view.quit THEN Rest[w]
    ELSE IF Defers(w) THEN Update[SurfaceUnmap[w]]
    ELSE LET left == ProcessResult[SurfaceUnmap[w]]
         IN IF left.view.active THEN Rest[left] ELSE Hide[left]]
--------------------------------------------------------------------------------
Init ==
  /\ live = <<>>
  /\ view = NoView
  /\ loop = [timer |-> FALSE, source |-> FALSE, queued |-> FALSE,
             settle |-> FALSE, guard |-> FALSE]
  /\ surface = [count |-> 1, down |-> FALSE, frame |-> "asked"]
  /\ anim = Resting
  /\ acted = [meant |-> 0, target |-> 0]
  /\ arrived = 0

(* Notify with a new id. *)
Arrive(ok) ==
  /\ arrived < MaxArrivals
  /\ arrived' = arrived + 1
  /\ Become(Refresh[[World EXCEPT !.live = <<arrived + 1>> \o @]][ok])

(* An entry expires, is closed by its sender or dismissed from the panel. *)
Gone(i, ok) ==
  /\ "gone" \in Inputs
  /\ Become(Refresh[[World EXCEPT !.live = RemoveAt(@, i)]][ok])
  /\ UNCHANGED arrived

(* The store changed and the live set did not: an in-place update, or the  *)
(* history cleared.                                                        *)
Changed(ok) ==
  /\ Become(Refresh[World][ok])
  /\ UNCHANGED arrived

(* wayland_sofi_view_reload_idle(), 66 ms after the first request. *)
ReloadTimer ==
  /\ loop.timer
  /\ LET w == IF view.active
              THEN MaybeUpdate[[World EXCEPT !.view.refilter = TRUE]]
              ELSE World
     IN Become([w EXCEPT !.loop.timer = FALSE])
  /\ UNCHANGED arrived

(* wayland_sofi_view_repaint(): the source id is forgotten only if there   *)
(* was a view to repaint.                                                  *)
RepaintIdle ==
  /\ loop.queued
  /\ LET w == [World EXCEPT !.loop.queued = FALSE]
     IN Become(IF view.active
               THEN [MaybeUpdate[w] EXCEPT !.loop.source = FALSE]
               ELSE w)
  /\ UNCHANGED arrived

(* wl_callback.done of the last commit. *)
Frame(left) ==
  /\ surface.frame = "due" /\ surface.count > 0
  /\ left \in Elapses(World)
  /\ Become([FrameCallback[AnimFrame[World][left]] EXCEPT
               !.surface.frame = "asked"])
  /\ UNCHANGED arrived

(* wl_callback.done that was on its way when the surface was destroyed. *)
StrayFrame ==
  /\ "stray" \in Inputs
  /\ surface.frame = "due" /\ surface.count = 0
  /\ Become([FrameCallback[AnimFrame[World][anim.tween]] EXCEPT
               !.surface.frame = "none"])
  /\ UNCHANGED arrived

(* anim_settle_idle() and the handler view_exit_settled().  A repaint has  *)
(* G_PRIORITY_HIGH_IDLE and goes first.                                    *)
SettleIdle ==
  /\ loop.settle /\ ~loop.queued
  /\ LET w == [World EXCEPT !.loop.settle = FALSE, !.loop.guard = FALSE,
                            !.anim.exiting = FALSE, !.anim.mapped = FALSE,
                            !.anim.tween = 0, !.anim.dormant = TRUE]
     IN Become(IF view.active THEN MaybeUpdate[w] ELSE w)
  /\ UNCHANGED arrived

(* Mutant of Guard: the exit is left to its frames. *)
GuardIdle ==
  /\ loop.guard
  /\ Become([World EXCEPT !.loop.guard = FALSE])
  /\ UNCHANGED arrived

(* anim_settle_guard() *)
Guard ==
  /\ loop.guard
  /\ Become([World EXCEPT !.loop.guard = FALSE,
                          !.loop.settle = @ \/ anim.exiting])
  /\ UNCHANGED arrived

(* A click that accepts row k.  The selection follows the pointer. *)
Click(k) ==
  /\ "click" \in Inputs
  /\ view.active /\ surface.count > 0
  /\ Become(MaybeUpdate[[World EXCEPT !.view.retv = "ok", !.view.sel = k,
                                      !.view.meant = view.shown[k],
                                      !.view.quit = TRUE,
                                      !.view.changed = TRUE,
                                      !.view.dirty = TRUE]])
  /\ UNCHANGED arrived

(* A click on the Clear button: kb-custom-1. *)
ClickClear ==
  /\ "clear" \in Inputs
  /\ view.active /\ surface.count > 0
  /\ Become(MaybeUpdate[[World EXCEPT !.view.retv = "clear",
                                      !.view.quit = TRUE]])
  /\ UNCHANGED arrived

(* The pointer moves over the banner, to another row or within one. *)
Move(other) ==
  /\ "move" \in Inputs
  /\ view.active /\ surface.count > 0
  /\ Become(MaybeUpdate[[World EXCEPT !.view.changed = @ \/ other,
                                      !.view.dirty = @ \/ other]])
  /\ UNCHANGED arrived

(* The compositor closes the layer surface, its output being gone; it is   *)
(* made anew, unless that is refused, and repainted.                       *)
LayerClosed(ok) ==
  /\ (IF ok THEN "closed" ELSE "refused") \in Inputs
  /\ surface.count > 0
  /\ LET w == IF ok THEN LateSetup[SurfaceDestroy[World]]
                    ELSE SurfaceDestroy[World]
     IN Become(IF view.active THEN Update[[w EXCEPT !.view.dirty = TRUE]]
               ELSE w)
  /\ UNCHANGED arrived

Next ==
  \/ \E ok \in SetupOutcomes :
       \/ Arrive(ok)
       \/ \E i \in DOMAIN live : Gone(i, ok)
       \/ Changed(ok)
  \/ \E ok \in BOOLEAN : LayerClosed(ok)
  \/ ReloadTimer
  \/ RepaintIdle
  \/ \E left \in 0..Frames : Frame(left)
  \/ StrayFrame
  \/ SettleIdle
  \/ Guard
  \/ \E k \in DOMAIN view.shown : Click(k)
  \/ ClickClear
  \/ \E other \in BOOLEAN : Move(other)

Spec == Init /\ [][Next]_vars

(* GLib dispatches every source that is ready, an idle of low priority as  *)
(* soon as the loop has nothing else to do; nothing is promised about      *)
(* frames, which a compositor withholds from a surface nobody sees.        *)
Loop ==
  /\ WF_vars(ReloadTimer) /\ WF_vars(RepaintIdle) /\ WF_vars(Guard)
  /\ SF_vars(SettleIdle)

FairSpec == Spec /\ Loop

(* The surface is seen: every commit is answered by a frame. *)
Seen == WF_vars(\E left \in 0..Frames : Frame(left))

VisibleSpec == FairSpec /\ Seen
--------------------------------------------------------------------------------
(* view_daemon_surface_down tells the truth, so a notification neither     *)
(* stacks a second surface on the first nor leaves a view without one      *)
(* (as long as the compositor grants the surfaces it is asked for).        *)
SurfaceTracksView ==
  /\ surface.down <=> surface.count = 0
  /\ view.active => surface.count = 1

(* An exit that was put off is never forgotten: while it lasts the view it *)
(* holds up is finished, and a source that ends it is in the main loop     *)
(* whether or not a frame ever comes.  Nothing of a closed banner is left  *)
(* in the animation layer to end, or to shorten, the motion of the next.   *)
ExitHeld ==
  /\ anim.exiting => view.active /\ view.quit /\ (loop.guard \/ loop.settle)
  /\ ~view.active => /\ ~anim.mapped /\ ~anim.exiting /\ anim.tween = 0
                     /\ ~loop.settle /\ ~loop.guard

(* However an exit is cut short -- by its frames, by the guard, by the     *)
(* compositor taking the surface away -- the close it was carrying is not  *)
(* lost: it has happened, or the idle that makes it happen is pending.     *)
ExitNotLost ==
  [][anim.exiting /\ ~anim'.exiting => loop'.settle \/ ~view'.quit]_vars

(* However the coalesced reloads, redraws, clicks and exits interleave, a  *)
(* banner that is staying and has no reload coming shows the live entries, *)
(* row for row.                                                            *)
RowsInStep ==
  view.active /\ ~view.quit /\ ~loop.timer => view.shown = live

(* A deferred exit comes to its end even if no frame is ever presented     *)
(* (the comment on anim_settle_guard, anim.c:730-735).                     *)
ExitEnds == anim.exiting ~> ~anim.exiting

(* On a surface that is seen, a motion comes to rest where it was going:   *)
(* the last frame painted of a banner is not one of the frames of its      *)
(* entry (anim.c:750-754).  Exempt is a banner whose loop has no repaint   *)
(* left to queue: one was dispatched when there was no view, and its       *)
(* source is remembered ever since (wayland/view.c:137).                   *)
ComesToRest ==
  Seen => ((view.active /\ ~view.still) ~>
             (~view.active \/ view.still \/ (loop.source /\ ~loop.queued)))

(* FEATURES.md:321-322: the surface is unmapped when the last notification *)
(* goes.                                                                   *)
EmptyBannerLeaves ==
  (view.active /\ live = <<>>) ~> (~view.active \/ live # <<>>)

(* notifications.c:204-206: a click runs the default action of, or         *)
(* dismisses, the notification it was made on.                             *)
ActsOnClicked == acted.meant = acted.target
================================================================================
