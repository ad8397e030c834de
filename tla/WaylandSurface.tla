---------------------------- MODULE WaylandSurface ----------------------------
(* What sofi shows on Wayland (wayland/display.c, the drawing half of            *)
(* wayland/view.c): globals and outputs that come in any order and go, the       *)
(* surface that takes its scale from the output it is on, and the pools of       *)
(* buffers, one for each view, that the compositor reads and gives back.         *)
(*                                                                               *)
(* Out: the place and size of the surface, the cursor, input, and what is drawn. *)
EXTENDS Integers, Sequences, FiniteSets, SequencesExt

CONSTANTS
  Monitors,
  Scales,
  Buffers,      \* buffer_count
  MaxPools,     \* bound: pools made; another is refused, as one too large would be
  MaxViews,     \* bound: views upon one another
  MaxChanges    \* bound: outputs and globals that come, change or go after setup

ASSUME SurfaceAssumption ==
  /\ Scales \subseteq Nat \ {0} /\ 1 \in Scales /\ Buffers \in Nat \ {0}
  /\ {MaxPools, MaxViews, MaxChanges} \subseteq Nat

VARIABLES
  globals,   \* compositor, shell, manager (of xdg outputs): which are bound
  stage,     \* "setup", "up" or "off"
  outputs,   \* [bound, pending, current, xdg]
  surface,   \* is there one
  scale,     \* wayland->scale
  views,     \* each view's pool, 0 for none; the active view is the last
  pools,     \* every pool that was made
  shown,     \* ghost: pool and scale of the last commit
  changes    \* changes so far, and (ghost) did a manager come after setup

surfaceVars ==
  <<globals, stage, outputs, surface, scale, views, pools, shown, changes>>

Unplugged == [bound |-> FALSE, pending |-> 1, current |-> 1, xdg |-> FALSE]
NoCommit == [pool |-> 0, scale |-> 1]

SurfaceInit(on) ==
  /\ globals = [compositor |-> FALSE, shell |-> FALSE, manager |-> FALSE]
  /\ stage = IF on THEN "setup" ELSE "off"
  /\ outputs = [o \in Monitors |-> Unplugged]
  /\ surface = FALSE /\ scale = 1 /\ views = <<>> /\ pools = <<>>
  /\ shown = NoCommit /\ changes = [count |-> 0, late |-> FALSE]

Change == changes' = IF stage = "up" THEN [changes EXCEPT !.count = @ + 1] ELSE changes
MayChange == stage = "setup" \/ (stage = "up" /\ changes.count < MaxChanges)
--------------------------------------------------------------------------------
(* Pools.  A buffer is "free" (released), "held" by the compositor or "gone".   *)

(* display_buffer_pool_new() *)
NewPool ==
  [scale |-> scale, toFree |-> FALSE, freed |-> FALSE,
   buffers |-> [b \in 1..Buffers |-> "free"]]

(* wayland_buffer_cleanup() *)
Cleanup(pool) ==
  IF ~pool.toFree THEN pool
  ELSE LET left == [b \in 1..Buffers |->
                      IF pool.buffers[b] = "free" THEN "gone" ELSE pool.buffers[b]]
       IN [pool EXCEPT !.buffers = left,
                       !.freed = \A b \in 1..Buffers : left[b] = "gone"]

(* display_buffer_pool_free() *)
PoolFreed(all, p) ==
  IF p = 0 THEN all ELSE [all EXCEPT ![p] = Cleanup([@ EXCEPT !.toFree = TRUE])]

(* A picture of the screen: the views' pools and the pools.                     *)
Now == [views |-> views, pools |-> pools, shown |-> shown]

FreeBuffers(pool) == {b \in 1..Buffers : pool.buffers[b] = "free"}

(* display_buffer_pool_get_next_buffer() and display_surface_commit(): nothing  *)
(* without a buffer that is free, nothing without a surface.  x: the scale      *)
Committed(w, there, x) ==
  LET p == Last(w.views)
      free == FreeBuffers(w.pools[p])
      b == CHOOSE n \in free : \A m \in free : n <= m
  IN IF free = {} \/ ~there THEN w
     ELSE [w EXCEPT !.pools[p].buffers[b] = "held",
                    !.shown = [pool |-> p, scale |-> x]]

(* wayland_sofi_view_update() of a view that needs it *)
Drawn(w, there, x) ==
  IF w.views = <<>> THEN w
  ELSE IF Last(w.views) # 0 THEN Committed(w, there, x)
  ELSE IF Len(w.pools) = MaxPools THEN w
  ELSE Committed([w EXCEPT !.pools = Append(@, [NewPool EXCEPT !.scale = x]),
                           !.views = Append(Front(@), Len(w.pools) + 1)],
                 there, x)

(* wayland_sofi_view_pool_refresh(); a view without a change is not drawn anew. *)
Refreshed(w, there, x) ==
  IF w.views = <<>> THEN {w}
  ELSE LET without == [w EXCEPT !.pools = PoolFreed(@, Last(w.views)),
                                !.views = Append(Front(@), 0)]
       IN {without, Drawn(without, there, x)}

Becomes(w) == views' = w.views /\ pools' = w.pools /\ shown' = w.shown

(* wayland_buffer_release() *)
BufferRelease(p, b) ==
  /\ pools[p].buffers[b] = "held"
  /\ pools' = [pools EXCEPT ![p] = Cleanup([@ EXCEPT !.buffers[b] = "free"])]
  /\ UNCHANGED <<globals, stage, outputs, surface, scale, views, shown, changes>>

(* A repaint: frame callback, idle or pointer motion. *)
Repaint ==
  /\ stage = "up" /\ views # <<>>
  /\ Becomes(Drawn(Now, surface, scale))
  /\ UNCHANGED <<globals, stage, outputs, surface, scale, changes>>

(* Mutant of Uncovered: the view that comes back keeps its pool. *)
UncoveredAsItWas(w) == {w, Drawn(w, surface, scale)}

(* sofi_view_set_active(NULL): the view below gets its size and a new pool. *)
Uncovered(w) == Refreshed(w, surface, scale)

(* sofi_view_set_active() of a new view *)
PushView ==
  /\ stage = "up" /\ Len(views) < MaxViews /\ surface
  /\ \E w \in Refreshed([Now EXCEPT !.views = Append(@, 0)], surface, scale) : Becomes(w)
  /\ UNCHANGED <<globals, stage, outputs, surface, scale, changes>>

(* sofi_view_remove_active() and sofi_view_free(), which leaves the pool *)
PopView ==
  /\ stage = "up" /\ views # <<>>
  /\ \E w \in Uncovered([Now EXCEPT !.views = Front(@)]) : Becomes(w)
  /\ UNCHANGED <<globals, stage, outputs, surface, scale, changes>>
--------------------------------------------------------------------------------
(* Globals and outputs. *)

(* wayland_output_ensure_xdg_output() *)
Ensured(output) == [output EXCEPT !.xdg = @ \/ (output.bound /\ globals.manager)]

(* wayland_registry_handle_global() *)
GlobalAdded ==
  /\ MayChange
  /\ \E g \in DOMAIN globals :
       /\ ~globals[g]
       /\ globals' = [globals EXCEPT ![g] = TRUE]
       /\ changes' = IF stage = "setup" THEN changes
                     ELSE [count |-> changes.count + 1,
                           late |-> changes.late \/ g = "manager"]
  /\ UNCHANGED <<stage, outputs, surface, scale, views, pools, shown>>

OutputAdded(o) ==
  /\ MayChange /\ ~outputs[o].bound
  /\ outputs' = [outputs EXCEPT ![o] = Ensured([Unplugged EXCEPT !.bound = TRUE])]
  /\ Change
  /\ UNCHANGED <<globals, stage, surface, scale, views, pools, shown>>

(* wayland_registry_handle_global_remove(), wayland_output_release() *)
GlobalRemoved ==
  /\ stage = "up" /\ changes.count < MaxChanges
  /\ \E g \in DOMAIN globals :
       /\ globals[g] /\ globals' = [globals EXCEPT ![g] = FALSE]
  /\ Change
  /\ UNCHANGED <<stage, outputs, surface, scale, views, pools, shown>>

OutputRemoved(o) ==
  /\ stage = "up" /\ changes.count < MaxChanges /\ outputs[o].bound
  /\ outputs' = [outputs EXCEPT ![o] = Unplugged]
  /\ Change
  /\ UNCHANGED <<globals, stage, surface, scale, views, pools, shown>>

(* wayland_output_scale() *)
OutputScale(o) ==
  /\ stage = "up" /\ changes.count < MaxChanges /\ outputs[o].bound
  /\ \E x \in Scales \ {outputs[o].pending} :
       outputs' = [outputs EXCEPT ![o].pending = x]
  /\ Change
  /\ UNCHANGED <<globals, stage, surface, scale, views, pools, shown>>

(* wayland_output_done(), wayland_xdg_output_done() *)
OutputDone(o) ==
  /\ stage = "up" /\ outputs[o].bound
  /\ outputs' = [outputs EXCEPT ![o].current = outputs[o].pending]
  /\ UNCHANGED <<globals, stage, surface, scale, views, pools, shown, changes>>

(* Mutant of Swept: outputs that came before the manager stay without. *)
NotSwept == outputs

Swept == [o \in Monitors |-> Ensured(outputs[o])]

(* wayland_display_setup() after its first roundtrip *)
Setup ==
  /\ stage = "setup"
  /\ IF globals.compositor /\ globals.shell /\ \E o \in Monitors : outputs[o].bound
     THEN stage' = "up" /\ outputs' = Swept
     ELSE stage' = "off" /\ UNCHANGED outputs
  /\ UNCHANGED <<globals, surface, scale, views, pools, shown, changes>>
--------------------------------------------------------------------------------
(* The surface. *)

SetupPossible == globals.compositor /\ globals.shell

(* wayland_display_late_setup() for the first view *)
LateSetup ==
  /\ stage = "up" /\ ~surface
  /\ surface' = SetupPossible
  /\ UNCHANGED <<globals, stage, outputs, scale, views, pools, shown, changes>>

(* wayland_surface_protocol_enter() *)
SurfaceEnter(o) ==
  /\ surface /\ shown # NoCommit /\ outputs[o].bound
  /\ scale' = outputs[o].current
  /\ IF scale' = scale THEN UNCHANGED <<views, pools, shown>>
     ELSE \E w \in Refreshed(Now, surface, scale') :
            \E v \in Refreshed(w, surface, scale') : Becomes(v)
  /\ UNCHANGED <<globals, stage, outputs, surface, changes>>

(* wayland_layer_shell_surface_closed(): a new surface if that can be *)
SurfaceClosed ==
  /\ surface /\ changes.count < MaxChanges
  /\ Change
  /\ surface' = SetupPossible
  /\ \E w \in Refreshed(Now, surface', scale) :
       \E v \in Refreshed(w, surface', scale) : Becomes(v)
  /\ UNCHANGED <<globals, stage, outputs, scale>>

(* wayland_display_early_cleanup() of sofi_view_hide() *)
EarlyCleanup ==
  /\ stage = "up" /\ surface
  /\ surface' = FALSE
  /\ UNCHANGED <<globals, stage, outputs, scale, views, pools, shown, changes>>

(* wayland_set_fullscreen_mode() *)
SetFullscreen ==
  /\ stage = "up" /\ surface /\ views # <<>>
  /\ \E w \in Refreshed(Now, surface, scale) : Becomes(w)
  /\ UNCHANGED <<globals, stage, outputs, surface, scale, changes>>

SurfaceNext ==
  \/ \E p \in DOMAIN pools, b \in 1..Buffers : BufferRelease(p, b)
  \/ \E o \in Monitors :
       OutputAdded(o) \/ OutputRemoved(o) \/ OutputScale(o) \/ OutputDone(o)
         \/ SurfaceEnter(o)
  \/ GlobalAdded \/ GlobalRemoved \/ Setup \/ LateSetup \/ SurfaceClosed
  \/ EarlyCleanup \/ SetFullscreen \/ Repaint \/ PushView \/ PopView

(* A frame is committed at the scale that its buffers were made for -- the      *)
(* compositor kills a client whose buffer does not divide by it -- whatever     *)
(* view was below another while the scale changed; and a pool that is dropped   *)
(* is unmapped when the compositor has given back its last buffer, not before   *)
(* and not never (wayland/display.c:164-200, 340-372, 383-428).                 *)
FramesFit ==
  /\ shown.pool # 0 => pools[shown.pool].scale = shown.scale
  /\ \A p \in DOMAIN pools :
       LET held == {b \in 1..Buffers : pools[p].buffers[b] = "held"}
       IN pools[p].freed <=> pools[p].toFree /\ held = {}

(* In whatever order the compositor announces them, every output is asked for   *)
(* its name and logical size once the manager of xdg outputs is there           *)
(* (wayland/display.c:1682-1699, 2138-2151); not so one that comes only after    *)
(* setup.                                                                       *)
OutputsDescribed ==
  stage = "up" /\ globals.manager /\ ~changes.late =>
    \A o \in Monitors : outputs[o].bound => outputs[o].xdg
================================================================================
