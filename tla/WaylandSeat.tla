------------------------------ MODULE WaylandSeat ------------------------------
(* The seats of a Wayland session (wayland/display.c): keyboards and pointers    *)
(* that come and go, a key that repeats by timers of the main loop, scroll       *)
(* events collected until their frame.  The compositor, the user's fingers and   *)
(* the view are the environment.  One of the two scroll axes is modelled, the    *)
(* other is its copy.                                                            *)
(*                                                                               *)
(* Out: the keymap, the cursor's image, the clipboard, and what a key or button  *)
(* is bound to: an event that is handled may close the view, and no more.        *)
EXTENDS Integers, FiniteSets, Functions

CONSTANTS
  Seats, KeyCodes,
  Hardware,    \* what there may be to plug in: [keyboards, pointers], sets of seats
  Rates,       \* what repeat_info may say, in keys a second
  Notches,     \* what a wheel may report, in 1/120 of a tick
  Swipes,      \* what a finger may report, in halves of those
  Capture,     \* config.click_to_exit
  MaxScrolls,  \* bound
  MaxSources   \* bound: ids of timers, of which no seat holds two

ASSUME SeatAssumption ==
  /\ Rates \subseteq Nat /\ Notches \subseteq Int /\ Swipes \subseteq Int
  /\ Capture \in BOOLEAN /\ 0 \notin KeyCodes
  /\ MaxScrolls \in Nat /\ "none" \notin Seats /\ IsFiniteSet(Seats)
  /\ MaxSources \in Nat /\ Cardinality(Seats) < MaxSources
  /\ Hardware \subseteq [keyboards : SUBSET Seats, pointers : SUBSET Seats]

VARIABLES
  seats,      \* wayland->seats
  repeats,    \* the timers of the main loop
  lastSeat,   \* wayland->last_seat
  view,       \* is there an active view
  fingers,    \* [seat |-> keys held down]
  focus,      \* the seat whose keyboard is on the surface, or "none"
  scrolls,    \* ghost: what each seat was sent, and how many ticks came out
  hardware    \* one of Hardware

seatVars == <<seats, repeats, lastSeat, view, fingers, focus, scrolls, hardware>>

(* g_new0() of a wayland_seat.  source: repeat.source_id, 0 for none; strayed:  *)
(* has the keyboard left the surface since repeat.key was stored (ghost).       *)
NewSeat ==
  [bound |-> TRUE, keyboard |-> FALSE, pointer |-> FALSE, textInput |-> FALSE,
   key |-> 0, source |-> 0, rate |-> 0, strayed |-> FALSE,
   wheel |-> 0, continuous |-> 0, finger |-> FALSE, button |-> "none",
   inside |-> TRUE]
Unbound == [NewSeat EXCEPT !.bound = FALSE]

(* What a new seat was sent: devices, those whose scrolls no frame took yet;    *)
(* underway, what the finger among them reported; mixed, has one frame taken    *)
(* the scrolls of both.                                                         *)
NothingSent(n) ==
  [count |-> n, received |-> 0, ticks |-> 0, swiped |-> 0,
   devices |-> {}, underway |-> 0, mixed |-> FALSE]

SeatInit(on) ==
  /\ seats = [s \in Seats |-> Unbound]
  /\ repeats = {} /\ lastSeat = "none" /\ view = on
  /\ fingers = [s \in Seats |-> {}] /\ focus = "none"
  /\ scrolls = [s \in Seats |-> NothingSent(IF on THEN 0 ELSE MaxScrolls)]
  /\ hardware \in IF on THEN Hardware ELSE {CHOOSE h \in Hardware : TRUE}

(* sofi_view_maybe_update(): the event may have closed the view. *)
Updated == view' \in {view, FALSE}

SourceIds(s) == {r.id : r \in {x \in repeats : x.seat = s}}
NewSource == CHOOSE n \in 1..MaxSources : n \notin {r.id : r \in repeats}
--------------------------------------------------------------------------------
(* Keyboards. *)

(* wayland_key_repeat_cancel(): g_source_remove() and no id *)
CancelRepeat(s) == repeats' = {r \in repeats : r.id # seats[s].source}

(* wayland_keyboard_release() *)
WithoutKeyboard(s) ==
  [seats[s] EXCEPT !.keyboard = FALSE, !.key = 0, !.source = 0]

(* wayland_seat_capabilities(); the text input stays when the keyboard goes *)
Capabilities(s) ==
  /\ seats[s].bound
  /\ \E keyboard, pointer \in BOOLEAN :
       LET kept == IF ~keyboard /\ seats[s].keyboard THEN WithoutKeyboard(s)
                   ELSE seats[s]
       IN /\ keyboard => s \in hardware.keyboards
          /\ pointer => s \in hardware.pointers
          /\ seats' = [seats EXCEPT ![s] =
                         [kept EXCEPT !.keyboard = keyboard, !.pointer = pointer,
                                      !.textInput = @ \/ keyboard]]
          /\ IF ~keyboard /\ seats[s].keyboard THEN CancelRepeat(s)
             ELSE UNCHANGED repeats
          /\ focus' = IF ~keyboard /\ focus = s THEN "none" ELSE focus
  /\ UNCHANGED <<lastSeat, view, fingers, scrolls>>

(* wayland_registry_handle_global() of a wl_seat *)
SeatAdded(s) ==
  /\ ~seats[s].bound /\ scrolls[s].count < MaxScrolls
  /\ seats' = [seats EXCEPT ![s] = NewSeat]
  /\ scrolls' = [scrolls EXCEPT ![s] = NothingSent(scrolls[s].count)]
  /\ UNCHANGED <<repeats, lastSeat, view, fingers, focus>>

(* wayland_seat_release(): last_seat is left as it is *)
SeatRemoved(s) ==
  /\ seats[s].bound
  /\ seats' = [seats EXCEPT ![s] = Unbound]
  /\ IF seats[s].keyboard THEN CancelRepeat(s) ELSE UNCHANGED repeats
  /\ focus' = IF focus = s THEN "none" ELSE focus
  /\ UNCHANGED <<lastSeat, view, fingers, scrolls>>

(* wayland_keyboard_enter() *)
KeyboardEnter(s) ==
  /\ seats[s].keyboard /\ focus = "none" /\ view
  /\ focus' = s /\ lastSeat' = s
  /\ UNCHANGED <<seats, repeats, view, fingers, scrolls>>

(* wayland_keyboard_leave() does nothing. *)
KeyboardLeave ==
  /\ focus # "none"
  /\ seats' = [seats EXCEPT ![focus].strayed = TRUE]
  /\ focus' = "none"
  /\ UNCHANGED <<repeats, lastSeat, view, fingers, scrolls>>

(* wayland_keyboard_key() of a key that goes down *)
KeyDown(s, k) ==
  /\ seats[s].keyboard /\ k \notin fingers[s]
  /\ fingers' = [fingers EXCEPT ![s] = @ \cup {k}]
  /\ IF focus # s THEN UNCHANGED <<seats, repeats, lastSeat, view>>
     ELSE /\ lastSeat' = s /\ Updated
          /\ LET rest == repeats \ {r \in repeats : r.id = seats[s].source}
             IN IF view
                THEN LET id == NewSource
                     IN /\ seats' = [seats EXCEPT ![s] =
                                       [@ EXCEPT !.key = k, !.source = id,
                                                 !.strayed = FALSE]]
                        /\ repeats' = rest \cup {[id |-> id, seat |-> s, kind |-> "delay"]}
                ELSE /\ seats' = [seats EXCEPT ![s].source = 0]
                     /\ repeats' = rest
  /\ UNCHANGED <<focus, scrolls>>

(* Mutant of Released: only the key is forgotten. *)
ReleasedOnly(s, k) ==
  /\ seats' = IF seats[s].key = k THEN [seats EXCEPT ![s].key = 0] ELSE seats
  /\ UNCHANGED repeats

Released(s, k) ==
  IF seats[s].key = k
  THEN /\ seats' = [seats EXCEPT ![s] = [@ EXCEPT !.key = 0, !.source = 0]]
       /\ CancelRepeat(s)
  ELSE UNCHANGED <<seats, repeats>>

(* of a key that comes up *)
KeyUp(s, k) ==
  /\ k \in fingers[s]
  /\ fingers' = [fingers EXCEPT ![s] = @ \ {k}]
  /\ IF focus # s THEN UNCHANGED <<seats, repeats, lastSeat, view>>
     ELSE lastSeat' = s /\ Updated /\ Released(s, k)
  /\ UNCHANGED <<focus, scrolls>>

(* wayland_keyboard_repeat_info() *)
RepeatInfo(s) ==
  /\ seats[s].keyboard
  /\ \E rate \in Rates :
       seats' = [seats EXCEPT ![s] = [@ EXCEPT !.key = 0, !.rate = rate, !.source = 0]]
  /\ CancelRepeat(s)
  /\ UNCHANGED <<lastSeat, view, fingers, focus, scrolls>>

(* wayland_key_repeat_delay(): the source ends, and another repeats the key *)
DelayOver(r) ==
  /\ r.kind = "delay"
  /\ LET s == r.seat
         again == seats[s].key # 0 /\ view /\ seats[s].rate > 0
         id == NewSource
     IN /\ seats' = [seats EXCEPT ![s].source = IF again THEN id ELSE 0]
        /\ repeats' = (repeats \ {r}) \cup
                      IF again THEN {[id |-> id, seat |-> s, kind |-> "repeat"]} ELSE {}
        /\ IF seats[s].key # 0 THEN Updated ELSE UNCHANGED view
  /\ UNCHANGED <<lastSeat, fingers, focus, scrolls>>

(* wayland_key_repeat() *)
RepeatKey(r) ==
  /\ r.kind = "repeat"
  /\ IF seats[r.seat].key # 0 /\ view
     THEN Updated /\ UNCHANGED <<seats, repeats>>
     ELSE /\ seats' = [seats EXCEPT ![r.seat].source = 0]
          /\ repeats' = repeats \ {r} /\ UNCHANGED view
  /\ UNCHANGED <<lastSeat, fingers, focus, scrolls>>
--------------------------------------------------------------------------------
(* Pointers. *)

Magnitude(n) == IF n < 0 THEN -n ELSE n
(* C's division, towards zero *)
Quotient(n, d) == IF n < 0 THEN -((-n) \div d) ELSE n \div d

(* wayland_pointer_motion(), wayland_pointer_button() *)
PointerMotion(s) ==
  /\ seats[s].pointer
  /\ \E inside \in {TRUE, ~Capture} :
       seats' = [seats EXCEPT ![s].inside = inside]
  /\ UNCHANGED <<repeats, lastSeat, view, fingers, focus, scrolls>>

PointerButton(s) ==
  /\ seats[s].pointer
  /\ \E how \in {"press", "release"} : seats' = [seats EXCEPT ![s].button = how]
  /\ lastSeat' = s
  /\ UNCHANGED <<repeats, view, fingers, focus, scrolls>>

(* wayland_pointer_axis_source() with _axis(), _axis_discrete() or _axis120() *)
PointerAxis(s) ==
  /\ seats[s].pointer /\ scrolls[s].count < MaxScrolls
  /\ \/ \E v \in Notches :
          /\ seats' = [seats EXCEPT ![s] =
                         [seats[s] EXCEPT !.wheel = @ + v, !.continuous = @ + v,
                                          !.finger = FALSE]]
          /\ scrolls' = [scrolls EXCEPT ![s] =
                           [scrolls[s] EXCEPT !.count = @ + 1, !.received = @ + 2 * v,
                                              !.devices = @ \cup {"wheel"}]]
     \/ \E v \in Swipes :
          /\ seats' = [seats EXCEPT ![s] =
                         [seats[s] EXCEPT !.continuous = @ + v, !.finger = TRUE]]
          /\ scrolls' = [scrolls EXCEPT ![s] =
                           [scrolls[s] EXCEPT !.count = @ + 1, !.underway = @ + v,
                                              !.devices = @ \cup {"finger"}]]
  /\ UNCHANGED <<repeats, lastSeat, view, fingers, focus>>

(* Mutant of Remainder: what is left keeps no sign. *)
RemainderUnsigned(n) == Magnitude(n) % 120

(* What is left in wheel.vertical when its ticks are sent. *)
Remainder(n) ==
  IF Magnitude(n) < 120 THEN n ELSE IF n > 0 THEN n % 120 ELSE -((-n) % 120)

(* The ghost of a frame that is taken and brings n ticks. *)
FrameTaken(sent, n) ==
  [sent EXCEPT !.received = @ + sent.underway, !.ticks = @ + n,
               !.swiped = IF sent.underway # 0 THEN @ + 1 ELSE @,
               !.mixed = @ \/ sent.devices = {"wheel", "finger"},
               !.devices = {}, !.underway = 0]

(* wayland_pointer_send_events() of wayland_pointer_frame(); a press outside    *)
(* the menu cancels the view and leaves the rest of the frame.                  *)
PointerFrame(s) ==
  /\ seats[s].pointer
  /\ IF ~view THEN UNCHANGED <<seats, view, scrolls>>
     ELSE IF Capture /\ seats[s].button = "press" /\ ~seats[s].inside
     THEN /\ seats' = [seats EXCEPT ![s].button = "none"]
          /\ Updated /\ UNCHANGED scrolls
     ELSE LET swiped == IF seats[s].finger THEN seats[s].continuous ELSE 0
              wheel == Quotient(2 * seats[s].wheel + swiped, 2)
          IN /\ seats' = [seats EXCEPT ![s] =
                            [@ EXCEPT !.button = "none", !.wheel = Remainder(wheel),
                                      !.continuous = 0, !.finger = FALSE]]
             /\ scrolls' = [scrolls EXCEPT ![s] =
                              FrameTaken(scrolls[s], Quotient(wheel, 120))]
             /\ Updated
  /\ UNCHANGED <<repeats, lastSeat, fingers, focus>>

ViewOpens ==
  /\ ~view /\ \E s \in Seats : seats[s].bound
  /\ view' = TRUE
  /\ UNCHANGED <<seats, repeats, lastSeat, fingers, focus, scrolls>>

SeatStep ==
  \/ \E s \in Seats :
       \/ SeatAdded(s) \/ SeatRemoved(s) \/ Capabilities(s) \/ KeyboardEnter(s)
       \/ RepeatInfo(s) \/ PointerMotion(s) \/ PointerButton(s) \/ PointerAxis(s)
       \/ PointerFrame(s)
       \/ \E k \in KeyCodes : KeyDown(s, k) \/ KeyUp(s, k)
  \/ \E r \in repeats : DelayOver(r) \/ RepeatKey(r)
  \/ KeyboardLeave \/ ViewOpens

SeatNext == SeatStep /\ UNCHANGED hardware

(* Every timer that repeats a key is the one that its seat holds, so that none  *)
(* outlives the seat, its keyboard or a cancel; its key is still down, unless   *)
(* the keyboard has left the surface meanwhile, whose release nobody tells.     *)
(* (wayland/display.c:514-665, 1085-1096)                                       *)
RepeatIsTheHeldKey ==
  /\ \A s \in Seats : SourceIds(s) = {seats[s].source} \ {0}
  /\ \A r \in repeats :
       LET seat == seats[r.seat]
       IN /\ seat.bound /\ seat.keyboard /\ seat.key # 0
          /\ seat.strayed \/ seat.key \in fingers[r.seat]

(* The ticks that were sent and what is left of the next one are what the seat  *)
(* was sent, in either direction and over frames of either device, but for less *)
(* than 1/120 of a tick for every frame of a finger.  Not so once one frame     *)
(* took scrolls of both, which pile up while no view is there to take a frame   *)
(* or a press outside the menu cut one short (wayland/display.c:717-719,        *)
(* 769-774, 800-832): a wheel's are then counted a second time as the finger's.  *)
ScrollsExactly ==
  \A s \in Seats :
    LET out == 2 * (120 * scrolls[s].ticks + seats[s].wheel)
    IN seats[s].bound /\ ~scrolls[s].mixed =>
         Magnitude(out - scrolls[s].received) <= scrolls[s].swiped
================================================================================
