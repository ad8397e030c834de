------------------------------ MODULE DisplayPanel -------------------------------
(* The display panel (modes/display.c): levels of rows over a listing of the  *)
(* outputs, and the verb that turns an output off.                            *)
(*                                                                            *)
(* Outputs come and go while the panel is open.  It lists them again when it  *)
(* has changed one or is told to, and not otherwise.                          *)
EXTENDS Integers, FiniteSets

CONSTANTS
  Outputs,        \* names of outputs
  MaxHotplugs     \* outputs that are plugged in or pulled out in a run

NoOutput == "none"

ASSUME DisplayAssumption == NoOutput \notin Outputs /\ MaxHotplugs \in Nat

VARIABLES
  machine,   \* per output: "gone", "off" or "on"
  surface,   \* the output the menu is on, or NoOutput: no panel is open
  outputs,   \* pd->outputs, what was listed last: as machine
  view,      \* DisplayView
  focus,     \* the output the deeper levels are about
  armed,     \* disable_armed
  rows,      \* the rows on display: kind and output
  entered,   \* the row Enter was pressed on last
  harm,      \* what turning outputs off has done
  hotplugs

displayVars == <<machine, surface, outputs, view, focus, armed, rows, entered,
                 harm, hotplugs>>

OutputsOn(listing) == {o \in Outputs : listing[o] = "on"}

PanelRow(kind, output) == [kind |-> kind, output |-> output]

(* monitor_active(), which on wayland names no output. *)
OwnOutput == NoOutput
--------------------------------------------------------------------------------
(* display_build_*(): the rows of a level. *)

OutputRows(listing) == {PanelRow("output", o) : o \in {p \in Outputs : listing[p] # "gone"}}

ControlRows(listing, o) ==
  {PanelRow("back", o), PanelRow("enable", o)}
    \cup IF listing[o] = "on" THEN {PanelRow("control", o), PanelRow("picker", o)} ELSE {}

ValueRows(listing, o) ==
  {PanelRow("back", o)} \cup IF listing[o] = "gone" THEN {} ELSE {PanelRow("value", o)}

(* display_refresh(): a focus that is gone leads back to the outputs, except  *)
(* from a picker, which is left empty.                                        *)
ListOutputs(listing, level, f) ==
  LET lost == level = "output" /\ (f = NoOutput \/ listing[f] = "gone")
  IN /\ outputs' = listing
     /\ view' = IF lost THEN "outputs" ELSE level
     /\ focus' = IF lost THEN NoOutput ELSE f
     /\ rows' = CASE lost \/ level = "outputs" -> OutputRows(listing)
                  [] level = "output" /\ ~lost -> ControlRows(listing, f)
                  [] level = "picker" -> ValueRows(listing, f)

(* display_reload(): wlr-randr lists what there is, or fails. *)
Listings(m) == {m, [o \in Outputs |-> "gone"]}

DisplayInit(on) ==
  /\ machine = [o \in Outputs |-> "on"]
  /\ surface = NoOutput
  /\ outputs = machine /\ view = "outputs" /\ focus = NoOutput /\ armed = NoOutput
  /\ rows = {} /\ entered = PanelRow("none", NoOutput) /\ harm = {}
  /\ hotplugs = IF on THEN 0 ELSE MaxHotplugs + 1

(* display_mode_init(); the compositor chooses where the menu is. *)
OpenPanel ==
  /\ surface = NoOutput /\ hotplugs <= MaxHotplugs
  /\ surface' \in OutputsOn(machine)
  /\ armed' = NoOutput /\ entered' = PanelRow("none", NoOutput)
  /\ \E l \in Listings(machine) : ListOutputs(l, "outputs", NoOutput)
  /\ UNCHANGED <<machine, harm, hotplugs>>
--------------------------------------------------------------------------------
(* The machine: an output is pulled out, or plugged in.  A menu on an output  *)
(* that is not on is gone.                                                    *)

Lit(m) == IF surface # NoOutput /\ m[surface] = "on" THEN surface ELSE NoOutput

Hotplug(o) ==
  /\ hotplugs < MaxHotplugs
  /\ hotplugs' = hotplugs + 1
  /\ machine' = [machine EXCEPT ![o] = IF @ = "gone" THEN "on" ELSE "gone"]
  /\ surface' = Lit(machine')
  /\ UNCHANGED <<outputs, view, focus, armed, rows, entered, harm>>
--------------------------------------------------------------------------------
(* display_mode_result(), Enter: an armed verb survives it on its own row.    *)

EnterRow(r) ==
  /\ surface # NoOutput /\ r \in rows
  /\ entered' = r

Disarmed(r) == IF r = PanelRow("enable", armed) THEN armed ELSE NoOutput

GoTo(level, f) ==
  /\ ListOutputs(outputs, level, f)
  /\ UNCHANGED <<machine, surface, harm, hotplugs>>

EnterOutput(r) ==
  /\ EnterRow(r) /\ r.kind = "output"
  /\ armed' = NoOutput
  /\ GoTo("output", r.output)

EnterBack(r) ==
  /\ EnterRow(r) /\ r.kind = "back"
  /\ armed' = NoOutput
  /\ IF view = "output" THEN GoTo("outputs", NoOutput) ELSE GoTo("output", focus)

EnterPicker(r) ==
  /\ EnterRow(r) /\ r.kind = "picker"
  /\ armed' = NoOutput
  /\ GoTo(IF outputs[r.output] = "gone" THEN view ELSE "picker", focus)

(* display_apply(): wlr-randr may refuse; the outputs are listed again. *)
ApplyOutput(o, state) ==
  /\ \/ machine' = machine
     \/ machine[o] # "gone" /\ machine' = [machine EXCEPT ![o] = state]
  /\ surface' = Lit(machine')
  /\ \E l \in Listings(machine') : ListOutputs(l, view, focus)
  /\ UNCHANGED hotplugs

(* A resolution, a scale, a rotation or a place: the output stays on. *)
EnterValue(r) ==
  /\ EnterRow(r) /\ r.kind \in {"control", "value"}
  /\ armed' = NoOutput
  /\ IF outputs[r.output] = "gone" THEN GoTo(view, focus)
     ELSE ApplyOutput(r.output, machine[r.output]) /\ UNCHANGED harm

EnterOn(r) ==
  /\ EnterRow(r) /\ r.kind = "enable" /\ outputs[r.output] = "off"
  /\ armed' = Disarmed(r)
  /\ ApplyOutput(r.output, "on")
  /\ UNCHANGED harm

(* The first Enter arms the verb ... *)
Arm(r) ==
  /\ EnterRow(r) /\ r.kind = "enable" /\ outputs[r.output] = "on"
  /\ armed # r.output
  /\ armed' = r.output
  /\ GoTo(view, focus)

(* Mutant of Refused: the guards were checked when the row was drawn. *)
NeverRefused(o) == FALSE

(* ... and the second turns the output off, unless by what was listed last it *)
(* is the only one on, or the menu is on it.                                  *)
Refused(o) == Cardinality(OutputsOn(outputs)) <= 1 \/ o = OwnOutput

(* What is done by turning it off. *)
Harm(o) ==
  (IF machine[o] # "on" \/ o # surface THEN {} ELSE {"own"})
    \cup (IF OutputsOn(machine) # {o} THEN {}
          ELSE IF outputs = machine THEN {"last"} ELSE {"last unseen"})

TurnOff(r) ==
  /\ EnterRow(r) /\ r.kind = "enable" /\ outputs[r.output] = "on"
  /\ armed = r.output
  /\ armed' = NoOutput
  /\ IF Refused(r.output) THEN GoTo(view, focus)
     ELSE /\ ApplyOutput(r.output, "off")
          /\ harm' = IF machine' = machine THEN harm ELSE harm \cup Harm(r.output)

(* Alt+3, and Alt+4: they leave an armed verb armed. *)
ReloadOutputs ==
  /\ surface # NoOutput
  /\ \E l \in Listings(machine) : ListOutputs(l, view, focus)
  /\ UNCHANGED <<machine, surface, armed, entered, harm, hotplugs>>

BackLevel ==
  /\ surface # NoOutput
  /\ IF view = "outputs"
     THEN surface' = NoOutput /\ UNCHANGED <<machine, outputs, view, focus, rows, harm, hotplugs>>
     ELSE IF view = "output" THEN GoTo("outputs", NoOutput) ELSE GoTo("output", focus)
  /\ UNCHANGED <<armed, entered>>

DisplayNext ==
  \/ OpenPanel \/ ReloadOutputs \/ BackLevel
  \/ \E o \in Outputs : Hotplug(o)
  \/ \E r \in rows :
       \/ EnterOutput(r) \/ EnterBack(r) \/ EnterPicker(r) \/ EnterValue(r)
       \/ EnterOn(r) \/ Arm(r) \/ TurnOff(r)
--------------------------------------------------------------------------------
(* As long as the listing is true, the panel never turns off the last output: *)
(* the windows would be out of reach until the compositor restarts            *)
(* (display.c:1236-1247).  The verb stays armed only while Enter was last      *)
(* pressed on its own row.                                                    *)
LastOutputStaysOn ==
  /\ "last" \notin harm
  /\ armed # NoOutput => entered = PanelRow("enable", armed)

(* The output the menu is on is never turned off from it (display.c:1215,     *)
(* :1842-1844).                                                               *)
OwnOutputStaysOn == "own" \notin harm
================================================================================
