------------------------------- MODULE ScriptMode -------------------------------
(* A script mode (script.c): a program that is run, or a Lua function that is    *)
(* called, once for each interaction, and answers with options and rows.  Some   *)
(* options last until they are set again, some for one output; the list, its     *)
(* highlights and the selection all come from outputs, by different ways.  The   *)
(* dialog around it is reduced to its text, its line map and its selection.      *)
(* Below it, by itself, the deadline of a mode written in Lua.                   *)
EXTENDS Integers, Sequences, FiniteSets, SequencesExt, SequenceLemmas

CONSTANTS
  Outputs,         \* what an interaction may answer: options and rows
  MaxInteractions  \* bound

(* An option that an output leaves out is "unset". *)
ASSUME OutputsAssumption ==
  Outputs \subseteq
    [rows : Seq([entry : BOOLEAN, fits : BOOLEAN, selectable : BOOLEAN,
                 permanent : BOOLEAN]),
     highlights : BOOLEAN, message : {"unset", "own", "clear"},
     keepSelection : BOOLEAN, keepFilter : BOOLEAN, newSelection : {-1} \cup Nat,
     noCustom : {"unset", "true", "false"}, hotKeys : {"unset", "true", "false"},
     switch : BOOLEAN]
ASSUME InteractionsAssumption == MaxInteractions \in Nat

VARIABLES script, menu

scriptVars == <<script, menu>>

(* The row that script_lua_quarantine() makes of an error. *)
ErrorRows ==
  <<[entry |-> TRUE, fits |-> FALSE, selectable |-> FALSE, permanent |-> TRUE]>>
NoOutput ==
  [rows |-> <<>>, highlights |-> FALSE, message |-> "unset",
   keepSelection |-> FALSE, keepFilter |-> FALSE, newSelection |-> -1,
   noCustom |-> "unset", hotKeys |-> "unset", switch |-> FALSE]

(* ScriptModePrivateData.  output: the number of the last one; of: the output   *)
(* that rows are of; ranges: the outputs whose urgent and active ranges are in  *)
(* the lists.                                                                   *)
Unstarted ==
  [kind |-> "none", output |-> 0, of |-> 0, rows |-> <<>>, ranges |-> {},
   message |-> "none", messageIsError |-> FALSE, quarantined |-> FALSE,
   keepSelection |-> FALSE, keepFilter |-> FALSE, newSelection |-> -1,
   noCustom |-> FALSE, hotKeys |-> FALSE, switch |-> FALSE,
   refused |-> FALSE, discarded |-> FALSE]
(* asked: the selection that the script has asked for, 0 where the user moved   *)
ClosedMenu == [up |-> FALSE, shows |-> "script", filtered |-> FALSE,
               map |-> <<>>, sel |-> 1, asked |-> 0]

ScriptInit(on) ==
  /\ script = [Unstarted EXCEPT !.output = IF on THEN 0 ELSE MaxInteractions]
  /\ menu = ClosedMenu
--------------------------------------------------------------------------------
(* The producer. *)

Set(option, old) == IF option = "unset" THEN old ELSE option = "true"

(* parse_header_entry() of each option of an output; o is numbered n *)
Options(s, o, n) ==
  [s EXCEPT !.message = CASE o.message = "unset" -> @
                          [] o.message = "own" -> "own"
                          [] o.message = "clear" -> "none",
            !.ranges = IF o.highlights THEN @ \cup {n} ELSE @,
            !.keepSelection = o.keepSelection, !.keepFilter = o.keepFilter,
            !.newSelection = o.newSelection,
            !.noCustom = Set(o.noCustom, @), !.hotKeys = Set(o.hotKeys, @),
            !.switch = @ \/ o.switch]

(* The three options that execute_executor() and script_lua_executor() reset. *)
ResetOptions(s) ==
  [s EXCEPT !.keepSelection = FALSE, !.keepFilter = FALSE, !.newSelection = -1]

(* A row without an entry -- a blank line of a program is an empty header -- is *)
(* left out.                                                                    *)
ReadRows(rows) == Without(rows, {r \in ToSet(rows) : ~r.entry})

(* The row of an error is sofi's own: it is told from whatever a script says. *)
ASSUME ErrorRowsAssumption == \A o \in Outputs : ReadRows(o.rows) # ErrorRows

(* execute_executor() *)
RunProgram(s, o) ==
  [s |-> Options(ResetOptions(s), o, s.output), rows |-> ReadRows(o.rows)]

(* The mode came back: the error it reported last time is over. *)
Recovered(s) ==
  [s EXCEPT !.message = IF s.messageIsError THEN "none" ELSE @,
            !.messageIsError = FALSE]

(* script_lua_executor() *)
CallLua(s, o, fails) ==
  IF fails
  THEN [s |-> [ResetOptions(s) EXCEPT !.message = "error", !.messageIsError = TRUE],
        rows |-> ErrorRows]
  ELSE [s |-> Options(Recovered(ResetOptions(s)), o, s.output),
        rows |-> ReadRows(o.rows)]

(* script_run_executor() *)
Produce(s, o, fails) ==
  LET n == [s EXCEPT !.output = @ + 1]
  IN CASE n.quarantined -> [s |-> n, rows |-> ErrorRows]
       [] ~n.quarantined /\ n.kind = "lua" -> CallLua(n, o, fails)
       [] ~n.quarantined /\ n.kind = "program" -> RunProgram(n, o)

(* script_mode_reset_highlight() *)
ResetHighlight(s) == [s EXCEPT !.ranges = {}]
--------------------------------------------------------------------------------
(* The dialog: script_token_match(), the refilter of a view that reloads, and   *)
(* sofi_view_set_selected_line().                                               *)
Every(rows) == [i \in 1..Len(rows) |-> i]
Shown(rows, filtered) ==
  IF filtered THEN SelectSeq(Every(rows), LAMBDA i : rows[i].fits \/ rows[i].permanent)
  ELSE Every(rows)

Clamped(n, map) == IF Len(map) = 0 THEN 1 ELSE IF n > Len(map) THEN Len(map) ELSE n

Refiltered(m, rows) ==
  LET map == Shown(rows, m.filtered)
  IN [m EXCEPT !.map = map, !.sel = Clamped(@, map)]

(* The selection is looked for in the line map of the list that is going. *)
SetSelectedLine(m, line) ==
  [m EXCEPT !.sel = IF Contains(m.map, line)
                    THEN Clamped(CHOOSE i \in DOMAIN m.map : m.map[i] = line, m.map)
                    ELSE 1]

(* script_mode_result() after the producer; kept: the options of the output     *)
(* before, which are those that count                                           *)
Take(kept, p, line) ==
  LET s == p.s
      next == IF s.newSelection >= 0 /\ s.newSelection < Len(p.rows)
              THEN s.newSelection + 1 ELSE line
      told == IF ~kept.keepSelection THEN 1 ELSE next
      gone == IF kept.keepFilter THEN menu.filtered ELSE FALSE
  IN IF s.switch
     THEN /\ script' = [s EXCEPT !.switch = FALSE, !.discarded = TRUE]
          /\ menu' = [ClosedMenu EXCEPT !.up = TRUE, !.shows = "other"]
     ELSE IF p.rows = <<>>
     THEN script' = s /\ menu' = ClosedMenu
     ELSE /\ script' = [s EXCEPT !.rows = p.rows, !.of = s.output,
                                 !.refused = FALSE, !.discarded = FALSE]
          /\ menu' = [Refiltered([SetSelectedLine(menu, told)
                                    EXCEPT !.filtered = gone], p.rows)
                        EXCEPT !.asked = IF menu.filtered \/ told > Len(menu.map)
                                            \/ told = 0 THEN 0
                                         ELSE told]

(* RELOAD_DIALOG without a new list *)
Reload(s) ==
  /\ script' = s
  /\ menu' = [Refiltered(menu, s.rows) EXCEPT !.asked = 0]
--------------------------------------------------------------------------------
(* script_mode_init() with script_is_lua_mode() and script_lua_open(); the menu *)
(* comes up with the first output, whose switch-mode is dropped                 *)
StartScript ==
  /\ script.output = 0
  /\ \E kind \in {"program", "lua"}, bad \in BOOLEAN, o \in Outputs, fails \in BOOLEAN :
       /\ bad \/ fails => kind = "lua"
       /\ LET p == Produce([script EXCEPT !.kind = kind, !.quarantined = bad,
                                          !.message = IF bad THEN "error" ELSE "none"],
                           o, fails)
          IN /\ script' = [p.s EXCEPT !.rows = p.rows, !.of = 1, !.switch = FALSE]
             /\ menu' = Refiltered([ClosedMenu EXCEPT !.up = TRUE], p.rows)

Showing == menu.up /\ menu.shows = "script"
Interacts == Showing /\ script.output < MaxInteractions
(* selected_line: 0 for UINT32_MAX *)
Line == IF menu.sel \in DOMAIN menu.map THEN menu.map[menu.sel] ELSE 0

(* The text is typed or deleted; a row is moved to. *)
EditText ==
  /\ Showing
  /\ menu' = [Refiltered([menu EXCEPT !.filtered = ~@], script.rows) EXCEPT !.asked = 0]
  /\ UNCHANGED script

MoveTo ==
  /\ Showing
  /\ \E i \in DOMAIN menu.map : menu' = [menu EXCEPT !.sel = i, !.asked = 0]
  /\ UNCHANGED script

(* Mutant of Answer: the ranges of the list that is going stay. *)
AnswerOver(s, line) ==
  \E o \in Outputs, fails \in BOOLEAN :
    (fails => s.kind = "lua") /\ Take(script, Produce(s, o, fails), line)

Answer(s, line) ==
  \E o \in Outputs, fails \in BOOLEAN :
    /\ fails => s.kind = "lua"
    /\ Take(script, Produce(ResetHighlight(s), o, fails), line)

(* script_mode_result() of a row that is chosen or deleted *)
ChooseEntry ==
  /\ Interacts /\ Line > 0
  /\ IF script.rows[Line].selectable THEN Answer(script, Line) ELSE Reload(script)

DeleteEntry == Interacts /\ Line > 0 /\ Answer(script, Line)

(* of the text: no row fits it, or kb-accept-custom passes the row over *)
EnterText ==
  /\ Interacts
  /\ IF script.noCustom THEN Reload(script) ELSE Answer(script, 0)

(* of one of the keys that a script may ask for *)
PressHotKey ==
  /\ Interacts
  /\ IF script.hotKeys
     THEN IF Line = 0 /\ script.noCustom
          THEN Reload([ResetHighlight(script) EXCEPT !.refused = TRUE])
          ELSE Answer(script, Line)
     ELSE /\ menu' = [ClosedMenu EXCEPT !.up = TRUE, !.shows = "other"]
          /\ UNCHANGED script

(* The user comes back from another mode, with its text and selection: nothing  *)
(* is run.                                                                      *)
ReturnToScript ==
  /\ menu.up /\ menu.shows = "other"
  /\ \E filtered \in BOOLEAN, n \in 1..3 :
       menu' = Refiltered([ClosedMenu EXCEPT !.up = TRUE, !.filtered = filtered,
                                             !.sel = n], script.rows)
  /\ UNCHANGED script

ScriptNext ==
  \/ StartScript \/ EditText \/ MoveTo \/ ChooseEntry \/ DeleteEntry
  \/ EnterText \/ PressHotKey \/ ReturnToScript

(* What is on screen is one output's: the highlights are those of the rows, the *)
(* message tells of an error exactly while the rows do, and the selection is    *)
(* where the output before and this one ask for it.  Not so after a hot key     *)
(* that is refused, which takes the highlights, or an output that switched the  *)
(* mode, which leaves its options; see README on the selection of a list that   *)
(* was filtered or has grown (script.c:1320-1405, doc/sofi-script.5.markdown).  *)
ShowsOneOutput ==
  Showing =>
    /\ script.discarded \/ script.ranges \subseteq {script.of}
    /\ script.discarded
       \/ (script.message = "error" <=> script.rows = ErrorRows)
    /\ menu.asked > 0 => Line = menu.asked \/ menu.asked > Len(menu.map)
--------------------------------------------------------------------------------
(* The deadline (script_lua_watchdog() and script_lua_call()): one interaction   *)
(* after another with a mode that may loop, protect calls, call C functions that *)
(* cannot be suspended, and make, keep and resume coroutines of its own.  The    *)
(* interpreter is external: a thread has frames and a hook with the instructions *)
(* left until it samples.  Out: finalizers and C calls that block, which no hook *)
(* interrupts.                                                                   *)
CONSTANTS
  Sample,        \* SCRIPT_LUA_SAMPLE: instructions between two looks at the clock
  MaxThreads,    \* bound: coroutines resumed within one another
  MaxFrames,     \* bound: frames of a coroutine
  MaxCalls

ASSUME DeadlineAssumption ==
  /\ Sample \in Nat /\ Sample > 1
  /\ {MaxThreads, MaxFrames, MaxCalls} \subseteq Nat \ {0}

VARIABLES
  calls,  \* calls into the mode so far
  threads,       \* the interaction's coroutine, and those resumed from it
  spare,          \* a suspended coroutine that the mode holds
  late,          \* is the clock past the deadline
  expired,       \* lua_expired
  overrun,       \* instructions run since the clock passed it
  outcome        \* what the last call came back with

(* Each coroutine there is may run up to its next look at the clock: those       *)
(* resumed within one another, and the one that is kept.                         *)
Allowance == Sample * (MaxThreads + 1)

luaVars == <<calls, threads, spare, late, expired, overrun, outcome>>

(* A frame is "lua", "protected" (below pcall) or "pinned" (below a C function  *)
(* that does not yield).  every: the interval of the hook; left: instructions   *)
(* until the next event; skips: does the next one pass without, since the hook  *)
(* has suspended the thread before it.                                          *)
NewThread(every) ==
  [frames |-> <<"lua">>, every |-> every, left |-> every, skips |-> FALSE]
NoThread == [frames |-> <<>>, every |-> 1, left |-> 1, skips |-> FALSE]

Running == threads # <<>>
CurrentThread == Last(threads)
WithCurrent(t) == Append(Front(threads), t)
Yieldable(t) == "pinned" \notin ToSet(t.frames)

LuaInit(on) ==
  /\ calls = IF on THEN 0 ELSE MaxCalls
  /\ threads = <<>> /\ spare = NoThread
  /\ late = FALSE /\ expired = FALSE /\ overrun = 0 /\ outcome = "none"
--------------------------------------------------------------------------------
(* script_lua_call() up to lua_resume(), with script_lua_arm() *)
CallMode ==
  /\ ~Running /\ calls < MaxCalls
  /\ calls' = calls + 1
  /\ threads' = <<NewThread(Sample)>>
  /\ late' = FALSE /\ expired' = FALSE /\ overrun' = 0 /\ outcome' = "none"
  /\ UNCHANGED spare

(* Mutant of EndCall: what comes back too late is taken. *)
EndCallAnyway(status) == threads' = <<>> /\ outcome' = status

(* script_lua_call() after it: a mode that came back too late is not believed. *)
EndCall(status) ==
  /\ threads' = <<>>
  /\ outcome' = IF status = "ok" /\ late THEN "deadline" ELSE status

(* A thread is suspended: its resumer goes on, or the interaction is over.  The *)
(* mode may keep the thread.                                                    *)
Suspend(t, x) ==
  IF Len(threads) = 1
  THEN EndCall(IF x THEN "deadline" ELSE "suspended") /\ UNCHANGED spare
  ELSE threads' = Front(threads) /\ spare' \in {spare, t} /\ UNCHANGED outcome

(* An error: the frames above the nearest protected call are gone; a thread     *)
(* without one dies, and its resumer gets the error.                            *)
Raise(t) ==
  LET caught == {i \in DOMAIN t.frames : t.frames[i] = "protected"}
      nearest == CHOOSE i \in caught : \A j \in caught : j <= i
  IN /\ UNCHANGED spare
     /\ IF caught # {}
        THEN /\ threads' = WithCurrent([t EXCEPT !.frames = SubSeq(@, 1, nearest - 1)])
             /\ UNCHANGED outcome
        ELSE IF Len(threads) > 1 THEN threads' = Front(threads) /\ UNCHANGED outcome
        ELSE EndCall("error")

(* A count event is not due, or is only watched: one that finds the deadline    *)
(* passed stops the thread, but for the instruction it was suspended at.        *)
Unwatched(t) == t.left > 1 \/ t.skips \/ ~late

(* script_lua_watchdog(): once the deadline has passed the thread is sampled at *)
(* every instruction                                                            *)
Noticed(t, x) == IF x THEN [t EXCEPT !.every = 1, !.left = 1] ELSE t

(* script_lua_watchdog() of a count event that finds the deadline passed *)
Interrupt ==
  /\ Running /\ ~Unwatched(CurrentThread)
  /\ expired' = TRUE
  /\ LET t == Noticed([CurrentThread EXCEPT !.left = @ + CurrentThread.every - 1], TRUE)
     IN IF Yieldable(t) THEN Suspend([t EXCEPT !.skips = TRUE], TRUE) ELSE Raise(t)
  /\ UNCHANGED <<calls, late, overrun>>

(* The mode's next instruction, which it is the mode's to choose.  A call or a  *)
(* return is an event of its own.                                               *)
Resumes(t, new) == threads' = Append(WithCurrent(t), new)

Loop(t) == threads' = WithCurrent(t) /\ UNCHANGED <<spare, outcome>>

Enter(t, how) ==
  /\ Len(t.frames) < MaxFrames
  /\ threads' = WithCurrent(Noticed([t EXCEPT !.frames = Append(@, how)], late))
  /\ UNCHANGED <<spare, outcome>>

Return(t) ==
  IF Len(t.frames) > 1
  THEN /\ threads' = WithCurrent(Noticed([t EXCEPT !.frames = Front(@)], late))
       /\ UNCHANGED <<spare, outcome>>
  ELSE IF Len(threads) > 1
       THEN threads' = Front(threads) /\ UNCHANGED <<spare, outcome>>
       ELSE EndCall("ok") /\ UNCHANGED spare

(* lua_newthread() copies the hook of the thread that makes the new one. *)
Create(t) ==
  LET maker == Noticed(t, late)
  IN /\ Len(threads) < MaxThreads
     /\ Resumes(maker, Noticed(NewThread(maker.every), late))
     /\ UNCHANGED <<spare, outcome>>

ResumeKept(t) ==
  /\ Len(threads) < MaxThreads /\ spare # NoThread
  /\ Resumes(Noticed(t, late), spare)
  /\ spare' = NoThread /\ UNCHANGED outcome

Yield(t) ==
  /\ Yieldable(t)
  /\ Suspend(Noticed(t, late), expired \/ late)

Instruction ==
  LET t == [CurrentThread EXCEPT !.left = IF @ > 1 THEN @ - 1 ELSE CurrentThread.every,
                           !.skips = FALSE]
  IN /\ Running
     /\ Unwatched(CurrentThread)
     /\ \/ Loop(t) /\ UNCHANGED expired
        \/ /\ \/ \E how \in {"lua", "protected", "pinned"} : Enter(t, how)
              \/ Return(t) \/ Create(t) \/ ResumeKept(t) \/ Yield(t) \/ Raise(t)
           /\ expired' = (expired \/ late)
     /\ overrun' = IF late /\ overrun <= Allowance THEN overrun + 1 ELSE overrun
     /\ UNCHANGED <<calls, late>>

DeadlinePasses ==
  /\ Running /\ ~late
  /\ late' = TRUE
  /\ UNCHANGED <<calls, threads, spare, expired, overrun, outcome>>

LuaNext == CallMode \/ Interrupt \/ Instruction \/ DeadlinePasses

(* A mode that overruns its deadline is stopped before each of its coroutines   *)
(* has run more instructions than lie between two looks at the clock, whatever  *)
(* it protects, pins, creates or keeps from an earlier interaction, and what it *)
(* returns too late is not taken (script.c:423-482, 541-545).                    *)
StopsInTime ==
  /\ overrun <= Allowance
  /\ late /\ ~Running => outcome # "ok"
================================================================================
