--------------------------------- MODULE Dialog ---------------------------------
(* A dialog (view.c, sofi.c, mode.c, the keyboard of wayland/display.c): from a *)
(* key to a filtered list, a result handed to a mode, the next mode, and the    *)
(* end of the process.  A step is the dispatch of one source of the main loop;  *)
(* it is a composition of operators on a world w, one for each function.        *)
(*                                                                              *)
(* Modes are known by what they answer: their entries, which may grow while the *)
(* dialog is up, and the outcome of a result.  A line is a position from 1; 0   *)
(* is the code's UINT32_MAX.  NoLine, and an empty text, are 0.                 *)
EXTENDS Integers, Sequences, FiniteSets, SequencesExt

CONSTANTS
  NumModes, MaxEntries,  \* bounds: the modes, the entries of each
  MaxKeys,               \* bound: keys that do something
  Growing,               \* the modes whose entries grow
  Texts,                 \* what can be typed, besides nothing
  Fits,                  \* Fits[t][e]: token match of an entry
  DelayLimit,            \* 25: refilters put off before one is not
  DialogMotion,          \* is the surface animated when it leaves
  AutoSelect,            \* -auto-select
  Answers                \* the outcomes of a result an instance allows

ASSUME DialogAssumption ==
  /\ {NumModes, DelayLimit} \subseteq Nat \ {0}
  /\ {MaxEntries, MaxKeys} \subseteq Nat
  /\ DialogMotion \in BOOLEAN /\ AutoSelect \in BOOLEAN

VARIABLE world

DialogModes == 0..(NumModes - 1)
MODE_EXIT == 1000
RELOAD_DIALOG == 1002
RESET_DIALOG == 1004
NoText == "empty"
NoLine == 0
NoneChosen == [entry |-> NoLine, toggled |-> FALSE]

(* __sofi_view_state_create() *)
BlankView ==
  [kind |-> "menu", mode |-> 0, lines |-> 0, map |-> <<>>, text |-> NoText,
   sel |-> 1, refilter |-> TRUE, reload |-> FALSE, quit |-> FALSE,
   retv |-> "cancel", line |-> NoLine, to |-> 0, tabbed |-> FALSE,
   chosen |-> NoneChosen]
(* sofi_view_error_dialog(): the text is the message *)
ErrorView ==
  [BlankView EXCEPT !.kind = "error", !.text = "message", !.refilter = FALSE]

Nobody == [retv |-> "none", entry |-> NoLine, chosen |-> NoneChosen]

NoDialog ==
  [running |-> FALSE, keys |-> 0, views |-> <<>>, mode |-> 0,
   entries |-> [m \in DialogModes |-> <<>>], slow |-> FALSE, count |-> 0, due |-> 0, owner |-> "menu",
   reload |-> FALSE, leaving |-> FALSE, told |-> Nobody]
--------------------------------------------------------------------------------
(* The filter. *)

TopView(w) == Head(w.views)
WithTop(w, v) == [w EXCEPT !.views = <<v>> \o Tail(@)]

Matching(entries, lines, text) ==
  SelectSeq([i \in 1..lines |-> i],
            LAMBDA i : text = NoText \/ Fits[text][entries[i]])

Row(entries, line) ==
  [toggled |-> FALSE,
   entry |-> IF line \in 1..Len(entries) THEN entries[line] ELSE NoLine]

(* sofi_view_refilter_real(), with what listview_set_num_elements() does to the *)
(* selection; s: took the filter longer than config.refilter_timeout_limit      *)
FilterView(v, entries) ==
  LET lines == IF v.reload THEN Len(entries) ELSE v.lines
      map == Matching(entries, lines, v.text)
      sel == IF Len(map) = 0 THEN 1 ELSE IF v.sel > Len(map) THEN Len(map)
             ELSE v.sel
      found == [v EXCEPT !.lines = lines, !.map = map, !.sel = sel,
                         !.reload = FALSE, !.refilter = FALSE]
  IN IF AutoSelect /\ Len(map) = 1 /\ lines > 1
     THEN [found EXCEPT !.line = map[sel], !.retv = "ok", !.quit = TRUE,
                        !.chosen = Row(entries, map[sel])]
     ELSE found

RefilterReal(w, s) ==
  LET idle == [w EXCEPT !.due = 0, !.owner = "menu", !.count = 0]
  IN IF TopView(w).kind = "error" THEN idle
     ELSE [WithTop(idle, FilterView(TopView(w), w.entries[TopView(w).mode]))
             EXCEPT !.slow = IF TopView(w).text = NoText THEN @ ELSE s]

(* Mutant of MayDelay: every further key puts the filter off. *)
MayAlwaysDelay(w) == TopView(w).text # NoText

MayDelay(w) == TopView(w).text # NoText /\ w.count + 1 < DelayLimit

(* sofi_view_refilter(); due alternates, so that a source that was replaced is *)
(* not taken for the same one                                                  *)
RefilterView(w, s) ==
  IF w.slow /\ MayDelay(w)
  THEN [w EXCEPT !.count = IF @ < DelayLimit THEN @ + 1 ELSE @,
                 !.due = IF @ = 1 THEN 2 ELSE 1, !.owner = TopView(w).kind]
  ELSE RefilterReal(w, s)

(* sofi_view_refilter_force() *)
RefilterForce(w, s) ==
  LET idle == [w EXCEPT !.due = 0, !.owner = "menu"]
  IN IF TopView(w).refilter THEN RefilterReal(idle, s) ELSE idle
--------------------------------------------------------------------------------
(* The result and what follows it. *)

(* sofi_view_remove_active() and sofi_view_free() of the menu or error at i *)
DropView(w, i) == [w EXCEPT !.views = RemoveAt(@, i)]

(* sofi_view_clear_input() *)
ClearInput(v) == [v EXCEPT !.text = NoText, !.sel = 1, !.line = 1]

(* sofi_view_switch_mode() of the view at i *)
SwitchMode(w, i, m, s) ==
  LET v == [w.views[i] EXCEPT !.mode = m, !.quit = FALSE, !.retv = "cancel",
                              !.line = NoLine, !.to = 0, !.chosen = NoneChosen,
                              !.reload = TRUE, !.refilter = TRUE]
      filtered == FilterView(v, w.entries[m])
  IN [w EXCEPT !.views[i] = filtered, !.mode = m, !.due = 0, !.owner = "menu", !.count = 0,
               !.slow = IF v.text = NoText THEN @ ELSE s]

(* What a mode's _result may do: end the dialog, show a mode, clear the input,  *)
(* drop the entry it was told to, and put an error over the dialog.             *)
Results == [then : {MODE_EXIT, RELOAD_DIALOG, RESET_DIALOG} \cup DialogModes,
            error : BOOLEAN, drops : BOOLEAN]
ASSUME AnswersAssumption == Answers \subseteq Results

(* mode_result(): some results the mode is not asked about *)
ModeAfter(w, v, r) ==
  CASE v.retv = "next" -> (w.mode + 1) % NumModes
    [] v.retv = "previous" -> (w.mode + NumModes - 1) % NumModes
    [] v.retv = "switch" -> v.to
    [] OTHER -> IF r.then \in DialogModes THEN r.then ELSE w.mode

Asked(v) == v.retv \notin {"next", "previous", "switch"}

(* process_result() of the top view of w *)
ProcessResult(w, r, s) ==
  LET v == TopView(w)
      told == [retv |-> v.retv,
               entry |-> Row(w.entries[v.mode], v.line).entry, chosen |-> v.chosen]
      drop == r.drops /\ Asked(v) /\ v.retv = "delete" /\ told.entry # NoLine
      heard == [w EXCEPT !.told = IF Asked(v) THEN told ELSE @,
                  !.entries[v.mode] = IF drop THEN RemoveAt(@, v.line) ELSE @]
      error == Asked(v) /\ r.error
      at == IF error THEN 2 ELSE 1
      shown == IF error THEN [heard EXCEPT !.views = <<ErrorView>> \o @] ELSE heard
      cleared == IF Asked(v) /\ r.then = RESET_DIALOG
                 THEN [shown EXCEPT !.views[at] = ClearInput(@)] ELSE shown
  IN IF v.kind = "error" THEN DropView(w, 1)
     ELSE IF Asked(v) /\ r.then = MODE_EXIT THEN DropView(shown, at)
     ELSE SwitchMode(cleared, at, ModeAfter(w, v, r), s)

(* sofi_view_maybe_update(); m: has the motion of the surface ended *)
RestOfUpdate(w, s) == IF TopView(w).refilter THEN RefilterView(w, s) ELSE w

Update(w, m, r, s) ==
  IF ~TopView(w).quit THEN RestOfUpdate(w, s)
  ELSE IF Len(w.views) = 1 /\ DialogMotion /\ ~m
  THEN [w EXCEPT !.leaving = TRUE]
  ELSE LET done == ProcessResult([w EXCEPT !.leaving = FALSE], r, s)
       IN IF done.views = <<>> THEN [done EXCEPT !.running = FALSE]
          ELSE RestOfUpdate(done, s)

(* told: what a mode is told in this dispatch (history) *)
MaybeUpdate(w, m, r, s) == Update([w EXCEPT !.told = Nobody], m, r, s)

(* the answers that matter to that *)
AnswersTo(w, m) ==
  IF TopView(w).quit /\ TopView(w).kind = "menu" /\ Asked(TopView(w))
     /\ (m \/ ~DialogMotion \/ Len(w.views) > 1)
  THEN Answers ELSE {CHOOSE r \in Answers : TRUE}
--------------------------------------------------------------------------------
(* sofi_view_trigger_global_action(): views after an action. *)

Ends(v, retv, line) == [v EXCEPT !.retv = retv, !.line = line, !.quit = TRUE]

(* Mutant of LineAt: the position itself, which is right until one filters. *)
PositionAt(v, pos) == IF pos <= Len(v.map) THEN pos ELSE NoLine

(* the row at a position of the list, if there is one *)
LineAt(v, pos) == IF pos <= Len(v.map) THEN v.map[pos] ELSE NoLine

(* what the user means by the row at a position of the list as it is drawn *)
Meant(w, v, pos) ==
  LET map == Matching(w.entries[v.mode], v.lines, v.text)
  IN IF v.kind = "menu" /\ pos <= Len(map)
     THEN Row(w.entries[v.mode], map[pos]) ELSE NoneChosen

(* What is on screen, whatever was typed since. *)
Drawn(w, v, pos) ==
  IF pos <= Len(v.map) THEN Row(w.entries[v.mode], v.map[pos]) ELSE NoneChosen

(* ACCEPT_ENTRY, ACCEPT_ALT *)
Accept(w, s) ==
  LET f == RefilterForce(w, s)
      v == TopView(f)
      line == LineAt(v, v.sel)
  IN WithTop(f, [Ends(v, IF line = NoLine THEN "input" ELSE "ok", line)
                   EXCEPT !.chosen = Meant(f, v, v.sel)])

(* ACCEPT_CUSTOM, ACCEPT_CUSTOM_ALT *)
AcceptCustom(w, s) ==
  LET f == RefilterForce(w, s)
  IN WithTop(f, [Ends(TopView(f), "input", NoLine) EXCEPT !.chosen = NoneChosen])

(* SELECT_ELEMENT_n, and a click that activates a row *)
Select(w, pos) ==
  LET v == TopView(w)
  IN IF LineAt(v, pos) = NoLine THEN w
     ELSE WithTop(w, [Ends(v, "ok", LineAt(v, pos))
                        EXCEPT !.chosen = Drawn(w, v, pos)])

(* DELETE_ENTRY *)
Delete(w) ==
  LET v == TopView(w)
  IN IF LineAt(v, v.sel) = NoLine THEN w
     ELSE WithTop(w, [Ends(v, "delete", LineAt(v, v.sel))
                        EXCEPT !.chosen = Drawn(w, v, v.sel)])

(* MODE_COMPLETE, CUSTOM_n *)
EndWith(w, retv) ==
  LET v == TopView(w)
  IN WithTop(w, [Ends(v, retv, LineAt(v, v.sel)) EXCEPT !.chosen = Drawn(w, v, v.sel)])

(* MODE_NEXT, MODE_PREVIOUS; a click on the mode switcher; CANCEL *)
Leaves(w, retv) ==
  WithTop(w, [Ends(TopView(w), retv, 1) EXCEPT !.chosen = NoneChosen])

Switches(w, m) ==
  WithTop(w, [TopView(w) EXCEPT !.retv = "switch", !.to = m, !.quit = TRUE,
                            !.chosen = NoneChosen])

Cancels(w) ==
  WithTop(w, [Ends(TopView(w), "cancel", NoLine) EXCEPT !.chosen = NoneChosen])

(* sofi_view_nav_row_tab() *)
Tab(w) ==
  LET v == TopView(w)
      n == Len(v.map)
  IN WithTop(w,
       IF n = 1
       THEN [Ends(v, "ok", v.map[v.sel]) EXCEPT !.chosen = Drawn(w, v, v.sel)]
       ELSE IF n = 0 /\ v.tabbed
       THEN [Ends(v, "next", 1) EXCEPT !.tabbed = TRUE, !.chosen = NoneChosen]
       ELSE [v EXCEPT !.tabbed = TRUE, !.sel = IF @ < n THEN @ + 1 ELSE 1])

(* the keys of the list: ROW_UP ... ROW_LAST *)
Moves(w, pos) ==
  IF pos \in 1..Len(TopView(w).map) THEN WithTop(w, [TopView(w) EXCEPT !.sel = pos]) ELSE w

(* text, from a key, an input method or the clipboard, and the keys that edit; *)
(* ROW_SELECT completes with an entry's own text                               *)
Types(w, text) ==
  IF TopView(w).kind = "error" \/ TopView(w).text = text THEN w
  ELSE WithTop(w, [TopView(w) EXCEPT !.text = text, !.refilter = TRUE])

(* TOGGLE_CASE_SENSITIVITY sets selected_line, whatever has been chosen *)
TogglesCase(w) ==
  IF TopView(w).kind = "error" THEN w
  ELSE WithTop(w, [TopView(w) EXCEPT !.line = 1, !.refilter = TRUE,
                                 !.chosen.toggled = TRUE])

TogglesSort(w) ==
  IF TopView(w).kind = "error" THEN w
  ELSE WithTop(w, [TopView(w) EXCEPT !.refilter = TRUE])

(* MATCHER_UP, MATCHER_DOWN *)
Matchers(w, s) == RefilterView(w, s)

Handled(w, s) ==
  {Accept(w, s), AcceptCustom(w, s), Delete(w), EndWith(w, "complete"),
   EndWith(w, "custom"), Leaves(w, "next"), Leaves(w, "previous"),
   Cancels(w), Tab(w), TogglesCase(w), TogglesSort(w), Matchers(w, s)}
  \cup {Select(w, pos) : pos \in 1..MaxEntries}
  \cup {Switches(w, m) : m \in IF TopView(w).kind = "menu" THEN DialogModes ELSE {}}
  \cup {Moves(w, pos) : pos \in 1..MaxEntries}
  \cup {Types(w, text) : text \in Texts \cup {NoText}}
--------------------------------------------------------------------------------
(* The main loop. *)

(* startup(), run_mode_index(), sofi_view_create(); a mode that fails to        *)
(* initialise is reported instead                                               *)
Started(entries, fails, s) ==
  LET w == [NoDialog EXCEPT !.running = TRUE, !.entries = entries]
      created == [BlankView EXCEPT !.lines = Len(entries[0])]
  IN IF fails THEN [w EXCEPT !.views = <<ErrorView>>]
     ELSE RefilterView([w EXCEPT !.views = <<created>>], s)

DialogInit(on) ==
  IF on THEN \E fails, s \in BOOLEAN :
               world = Started([m \in DialogModes |-> <<10 * m + 1>>], fails, s)
  ELSE world = NoDialog

Up == world.running

(* wayland_keyboard_key(), pressed or repeated; text_input_commit_string() *)
Key ==
  /\ Up /\ world.keys < MaxKeys
  /\ \E s \in BOOLEAN :
       \E w \in Handled([world EXCEPT !.keys = @ + 1], s) :
       \E r \in AnswersTo(w, FALSE) : world' = MaybeUpdate(w, FALSE, r, s)

(* a key released, a modifier, a pointer that only moves; a repaint *)
Poke ==
  /\ Up
  /\ \E s \in BOOLEAN, r \in AnswersTo(world, FALSE) :
       world' = MaybeUpdate(world, FALSE, r, s)

(* view_exit_settled() *)
ExitSettled ==
  /\ Up /\ world.leaving
  /\ \E s \in BOOLEAN, r \in AnswersTo(world, TRUE) :
       world' = MaybeUpdate(world, TRUE, r, s)

(* The timeout of a delayed filter.  Its view may be gone: what it reads then   *)
(* is freed memory.                                                             *)
Orphaned == ~\E i \in DOMAIN world.views : world.views[i].kind = world.owner

FilterTimer(b) ==
  /\ Up /\ world.due = b
  /\ IF Orphaned
     THEN world' \in {[world EXCEPT !.due = 0, !.owner = "menu"],
                     [world EXCEPT !.running = FALSE]}
     ELSE IF TopView(world).kind # world.owner
     THEN \E i \in DOMAIN world.views :
            /\ world.views[i].kind = world.owner
            /\ world' = [world EXCEPT !.due = 0, !.owner = "menu", !.count = 0,
                 !.views[i] = IF @.kind = "error" THEN @
                              ELSE FilterView(@, world.entries[@.mode])]
     ELSE \E s \in BOOLEAN : world' = RefilterReal(world, s)

(* sofi_view_user_timeout() with the action kb-cancel; nothing updates the view *)
UserTimeout == Up /\ world' = Cancels([world EXCEPT !.told = Nobody])

(* a mode whose entries grow behind the dialog, and its sofi_view_reload() *)
Grow(m) ==
  LET n == Len(world.entries[m])
  IN /\ Up /\ n < MaxEntries
     /\ world' = [world EXCEPT !.reload = TRUE,
          !.entries[m] = Append(@, IF n = 0 THEN 10 * m + 1 ELSE @[n] + 1)]

(* wayland_sofi_view_reload_idle() *)
ReloadRows ==
  /\ Up /\ world.reload
  /\ LET v == [TopView(world) EXCEPT !.reload = TRUE, !.refilter = TRUE]
         w == [WithTop(world, v) EXCEPT !.reload = FALSE]
     IN \E s \in BOOLEAN, r \in AnswersTo(w, FALSE) : world' = MaybeUpdate(w, FALSE, r, s)

DialogNext ==
  \/ Key \/ Poke \/ ExitSettled \/ UserTimeout \/ ReloadRows
  \/ \E b \in {1, 2} : FilterTimer(b)
  \/ \E m \in Growing : Grow(m)

DialogFairness ==
  /\ \A b \in {1, 2} : WF_world(FilterTimer(b))
  /\ WF_world(ReloadRows) /\ WF_world(ExitSettled)
--------------------------------------------------------------------------------
(* A mode that is told to run or to delete an entry is told the entry the user  *)
(* chose: the highlighted row of the list filtered by all that was typed, or    *)
(* the row as it was drawn, through filters, reloads and the exit motion        *)
(* between the key and process_result().  Toggling the case sensitivity while   *)
(* a choice is held resets the line (view.c:1198).  And what was typed is       *)
(* filtered in the end, however often something delays it: a delayed filter is  *)
(* started over by every dispatch that updates the view, but not for ever       *)
(* (view.c:1016).                                                               *)
DeliversChosen ==
  LET t == world.told
  IN t.retv \in {"ok", "delete"} /\ ~t.chosen.toggled => t.entry = t.chosen.entry
ToFilter == Up /\ TopView(world).kind = "menu" /\ TopView(world).refilter
DialogServes == []DeliversChosen /\ (ToFilter ~> ~ToFilter)
================================================================================
