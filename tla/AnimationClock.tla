----------------------------- MODULE AnimationClock -----------------------------
(* The time of what moves (anim.c): three motions on one clock that is advanced *)
(* by the compositor's frames alone, and the way a surface goes.                *)
(*                                                                              *)
(* Frames are stamped in milliseconds modulo 2^32, from an epoch of their own,  *)
(* and come only while there is a surface and something to draw on it.  Of the  *)
(* curves only three values are told apart: none, full, and on the way.         *)
EXTENDS Integers, Sequences

CONSTANTS
  Wrap,                 \* 2^32
  DefaultDuration, MaxDuration,
  Overrides,            \* what the theme may say of the duration, -1: nothing
  Candidates,           \* what the places of hikari.lua may hold, in their order
  Gaps,                 \* milliseconds from one frame to the next
  MaxTime               \* bound: of the clock

ASSUME ClockAssumption ==
  /\ Wrap \in Nat \ {0} /\ Gaps \subseteq 1..(Wrap - 1) /\ MaxTime \in Nat
  /\ DefaultDuration \in Nat /\ MaxDuration \in Nat /\ Overrides \subseteq Int
  /\ Candidates \subseteq Seq([reads : BOOLEAN, duration : Int, enabled : BOOLEAN])

Motions == {"surface", "selection", "live"}
None == 0
OnTheWay == 1
Full == 2

VARIABLES
  clock,    \* now, base, the last stamp; was there one; is the loop at rest
  tween,    \* the motions: value, to, start, duration, is it running
  anim,     \* the rest of Anim, and what is cached of the duration
  surface_up,  \* is there a surface
  raw,      \* the compositor's time
  wishes,   \* what the theme and hikari say
  seen,     \* time since a motion began, from frames that moved on (history)
  painted   \* how opaque the surface was painted last, or at the least of its
            \* exit (history)

clockVars == <<clock, tween, anim, surface_up, raw, wishes, seen, painted>>

Lesser(a, b) == IF a < b THEN a ELSE b

(* sofi_tween_init() *)
TweenInit(value) ==
  [value |-> value, to |-> value, start |-> 0, duration |-> 0, running |-> FALSE]

ClockInit(on) ==
  /\ clock = [now |-> 0, base |-> 0, last |-> 0, stamped |-> FALSE, dormant |-> FALSE]
  /\ tween = [m \in Motions |-> TweenInit(IF m = "surface" THEN None ELSE Full)]
  /\ anim = [available |-> on, duration |-> DefaultDuration, resolved |-> FALSE,
             mapped |-> FALSE, exiting |-> FALSE, wasBusy |-> FALSE, trailing |-> FALSE,
             settle |-> FALSE, guard |-> FALSE]
  /\ surface_up = FALSE
  /\ raw \in IF on THEN 0..(Wrap - 1) ELSE {0}
  /\ wishes \in IF on THEN [theme : Overrides, files : Candidates]
                ELSE {[theme |-> 0, files |-> <<>>]}
  /\ seen = [m \in Motions |-> 0]
  /\ painted = None
--------------------------------------------------------------------------------
(* The duration of a motion. *)

(* anim_read_hikari_lua(): the duration a file gives, -1 if it gives none.       *)
FromFile(f) ==
  IF ~f.reads THEN -1
  ELSE IF ~f.enabled THEN 0
  ELSE IF f.duration \in 0..MaxDuration THEN f.duration ELSE -1

(* anim_duration_from_hikari(): the first of the places that gives one           *)
FromHikari(files) ==
  LET giving == {i \in DOMAIN files : FromFile(files[i]) >= 0}
  IN IF giving = {} THEN DefaultDuration
     ELSE FromFile(files[CHOOSE i \in giving : \A k \in giving : i <= k])

(* sofi_anim_duration(): found once, and kept *)
Duration ==
  IF anim.resolved THEN anim.duration
  ELSE IF wishes.theme >= 0 THEN Lesser(wishes.theme, MaxDuration)
  ELSE FromHikari(wishes.files)

Enabled == anim.available /\ Duration > 0

(* anim_enabled() asks for the duration when there is a clock to move by.        *)
Resolved(a) ==
  IF a.available THEN [a EXCEPT !.duration = Duration, !.resolved = TRUE] ELSE a
--------------------------------------------------------------------------------
(* The clock. *)

(* tween_begin().  What is left in a motion that has stopped is never read: it   *)
(* is as if it had not begun.                                                    *)
Begun(from, to) ==
  IF Duration > 0
  THEN [value |-> from, to |-> to, start |-> clock.now, duration |-> Duration,
        running |-> TRUE]
  ELSE TweenInit(to)

(* sofi_tween_advance() *)
Advanced(t, now) ==
  IF ~t.running THEN t
  ELSE IF now - t.start >= t.duration THEN TweenInit(t.to)
  ELSE IF now <= t.start \/ t.value = t.to THEN t
  ELSE [t EXCEPT !.value = OnTheWay]

(* Mutant of Stamped: a loop that has stopped goes on where it was. *)
StampedThrough(stamp) ==
  LET base == IF ~clock.stamped THEN clock.now - stamp
              ELSE IF stamp < clock.last THEN clock.base + Wrap
              ELSE clock.base
  IN [clock EXCEPT !.stamped = TRUE, !.dormant = FALSE, !.base = base,
                   !.last = stamp, !.now = base + stamp]

(* sofi_clock_stamp(), and now_ms of sofi_clock_advance() *)
Stamped(stamp) ==
  LET base == IF ~clock.stamped \/ clock.dormant THEN clock.now - stamp
              ELSE IF stamp < clock.last THEN clock.base + Wrap
              ELSE clock.base
  IN [clock EXCEPT !.stamped = TRUE, !.dormant = FALSE, !.base = base,
                   !.last = stamp, !.now = base + stamp]

Moving(tweens) == \E m \in Motions : tweens[m].running

(* The compositor's time wraps. *)
Later(stamp, gap) == IF stamp + gap < Wrap THEN stamp + gap ELSE stamp + gap - Wrap

(* Mutant of Alpha: a motion that has stopped is none. *)
AlphaAtRest(a, tweens) == IF tweens["surface"].running THEN tweens["surface"].value ELSE Full

(* sofi_anim_surface_state(): how opaque the surface is painted *)
Alpha(a, tweens) ==
  IF tweens["surface"].running \/ a.exiting THEN tweens["surface"].value ELSE Full

(* wayland_frame_callback(): sofi_anim_frame(), and the frame is painted *)
Frame(gap) ==
  LET stamp == Later(raw, gap)
      ticked == Stamped(stamp)
      moved == [m \in Motions |-> Advanced(tween[m], ticked.now)]
      busy == Moving(moved)
      a == [anim EXCEPT !.trailing = anim.wasBusy /\ ~busy, !.wasBusy = busy,
                        !.settle = @ \/ (anim.exiting /\ ~moved["surface"].running)]
  IN /\ surface_up /\ ticked.now <= MaxTime
     /\ raw' = stamp
     /\ clock' = [ticked EXCEPT !.dormant = ~busy]
     /\ tween' = moved /\ anim' = a
     /\ seen' = [m \in Motions |->
                   IF ~moved[m].running THEN 0
                   ELSE IF anim.wasBusy THEN seen[m] + gap ELSE seen[m]]
     /\ painted' = IF anim.exiting THEN Lesser(painted, Alpha(a, moved)) ELSE Alpha(a, moved)
     /\ UNCHANGED <<surface_up, wishes>>
--------------------------------------------------------------------------------
(* The motions. *)

Rise == Begun(None, Full)

(* sofi_anim_surface_map(), as a first view becomes the active one: the live cue *)
(* rides on it                                                                   *)
SurfaceMap ==
  /\ ~surface_up /\ surface_up' = TRUE
  /\ anim' = [Resolved(anim) EXCEPT !.mapped = TRUE, !.exiting = FALSE]
  /\ IF Enabled
     THEN /\ tween' = [tween EXCEPT !["surface"] = Rise, !["live"] = Rise]
          /\ seen' = [seen EXCEPT !["surface"] = 0, !["live"] = 0]
     ELSE tween' = [tween EXCEPT !["surface"] = TweenInit(Full)] /\ UNCHANGED seen
  /\ painted' = None
  /\ UNCHANGED <<clock, raw, wishes>>

(* sofi_anim_selection_move() and sofi_anim_selection_reset(), from a list drawn *)
SelectionMove ==
  /\ surface_up
  /\ anim' = Resolved(anim)
  /\ tween' = [tween EXCEPT !["selection"] = IF Enabled THEN Rise ELSE TweenInit(Full)]
  /\ seen' = [seen EXCEPT !["selection"] = 0]
  /\ UNCHANGED <<clock, surface_up, raw, wishes, painted>>

SelectionReset ==
  /\ surface_up
  /\ tween' = [tween EXCEPT !["selection"] = TweenInit(Full)]
  /\ UNCHANGED <<clock, anim, surface_up, raw, wishes, seen, painted>>

(* sofi_anim_surface_settle(), of the state anim is in when it is called *)
SettledAnim(a) ==
  [a EXCEPT !.settle = a.exiting, !.guard = FALSE, !.exiting = FALSE, !.mapped = FALSE,
            !.wasBusy = FALSE, !.trailing = FALSE]

SettledTweens ==
  [tween EXCEPT !["surface"] = TweenInit(None), !["selection"] = TweenInit(Full)]

(* Whoever finds that the view is done (sofi_view_maybe_update): the surface    *)
(* goes at once, or once its exit has been drawn.                               *)
CloseView ==
  /\ surface_up
  /\ IF Enabled /\ anim.mapped
     THEN /\ anim' = IF anim.exiting THEN anim
                     ELSE [Resolved(anim) EXCEPT !.exiting = TRUE, !.guard = TRUE]
          /\ tween' = IF anim.exiting THEN tween
                      ELSE [tween EXCEPT !["surface"] = Begun(@.value, None)]
          /\ seen' = IF anim.exiting THEN seen ELSE [seen EXCEPT !["surface"] = 0]
          /\ UNCHANGED <<clock, surface_up>>
     ELSE /\ anim' = SettledAnim([Resolved(anim) EXCEPT !.exiting = FALSE])
          /\ tween' = SettledTweens /\ surface_up' = FALSE
          /\ clock' = [clock EXCEPT !.dormant = TRUE]
          /\ UNCHANGED seen
  /\ UNCHANGED <<raw, wishes, painted>>

(* anim_settle_idle(): the view's handler closes it for good *)
SettleIdle ==
  /\ anim.settle /\ surface_up
  /\ anim' = SettledAnim([anim EXCEPT !.exiting = FALSE])
  /\ tween' = SettledTweens /\ surface_up' = FALSE
  /\ clock' = [clock EXCEPT !.dormant = TRUE]
  /\ UNCHANGED <<raw, wishes, seen, painted>>

(* anim_settle_guard() *)
SettleGuard ==
  /\ anim.guard
  /\ anim' = [anim EXCEPT !.guard = FALSE, !.settle = @ \/ anim.exiting]
  /\ UNCHANGED <<clock, tween, surface_up, raw, wishes, seen, painted>>

(* The compositor closes the surface: it is destroyed and made again. *)
LayerClosed ==
  /\ surface_up
  /\ anim' = SettledAnim(anim)
  /\ tween' = SettledTweens
  /\ clock' = [clock EXCEPT !.dormant = TRUE]
  /\ UNCHANGED <<surface_up, raw, wishes, seen, painted>>

ClockNext ==
  \/ \E gap \in Gaps : Frame(gap)
  \/ SurfaceMap \/ SelectionMove \/ SelectionReset
  \/ CloseView \/ SettleIdle \/ SettleGuard \/ LayerClosed
--------------------------------------------------------------------------------
(* A motion runs for its duration and no longer, in the time from frames that    *)
(* moved something to the next: whatever epoch the compositor counts from,       *)
(* wherever its counter wraps, and however long nothing moved (anim.c:284-313).  *)
MotionsTimed ==
  \A m \in Motions :
    tween[m].running => /\ clock.now - tween[m].start = seen[m]
                        /\ seen[m] < tween[m].duration

(* A surface on its way out is never painted more opaque than it was, not even   *)
(* by the frame between the end of the motion and the idle that drops it         *)
(* (anim.c:853-861).                                                             *)
ExitFades == anim.exiting => Alpha(anim, tween) <= painted
================================================================================
