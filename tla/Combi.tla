---------------------------------- MODULE Combi --------------------------------
(* The mode that shows the rows of several others as one list (modes/combi.c).  *)
(* It keeps where each one's rows start, as of the last time it was asked for   *)
(* their number, and passes a row of its own on as a row of the mode's.         *)
(*                                                                              *)
(* An entry is told apart by when it was made.  A mode may find more entries at *)
(* any time, at the end of its list, and has the view reloaded for them; one is *)
(* removed by the user only.  Out: what else a mode does with a result, text    *)
(* beyond the bang, a label that counts the rows, which asks for the number     *)
(* before the list is filtered anew.                                            *)
EXTENDS Integers, FiniteSetsExt, SequencesExt

CONSTANTS
  Names,      \* the names of the modes, in their order: sequences of letters
  Bangs,      \* what may be typed after "!"; <<>> stands for no bang
  MaxFinds,   \* bound: entries found meanwhile
  MaxTries    \* bound: results

ASSUME CombiAssumption ==
  Names # <<>> /\ <<>> \in Bangs /\ MaxFinds \in Nat /\ MaxTries \in Nat

Switchers == DOMAIN Names

VARIABLES
  entries,    \* entries[i]: what mode i has
  ranges,     \* pd->starts and pd->lengths
  enabled,    \* the switchers that are not disabled
  bang,       \* typed; the view has filtered its rows by it
  lines,      \* line_map
  onScreen,   \* ghost: the entries that were there when it was filled
  passed,     \* the last result: [switcher, entry: that it was passed for], and,
              \*   ghost, [shown: the entry on the line, sure: no two modes matched]
  finds, tries

combiVars == <<entries, ranges, enabled, bang, lines, onScreen, passed, finds, tries>>

Nothing == [switcher |-> 0, entry |-> 0, shown |-> 0, sure |-> TRUE]
Total(lists) == FoldSeq(LAMBDA list, n : n + Len(list), 0, lists)
RowsOf(lists) == [k \in 1..Total(lists) |-> k - 1]
--------------------------------------------------------------------------------
(* Mutant of NumEntries: every mode but the first starts where the second does. *)
NumEntriesOfTwo(lists) ==
  [i \in Switchers |->
     [start |-> IF i = 1 THEN 0 ELSE Len(lists[1]), length |-> Len(lists[i])]]

(* combi_mode_get_num_entries() *)
NumEntries(lists) ==
  [i \in Switchers |->
     [start |-> Total(SubSeq(lists, 1, i - 1)), length |-> Len(lists[i])]]

(* The modes a bang is the beginning of. *)
Matching(text) == {i \in Switchers : IsPrefix(text, Names[i])}

(* combi_preprocess_input(); a lone "!" disables none *)
PreprocessInput(text) == Matching(text)

InRange(at, row) == at.start <= row /\ row < at.start + at.length

(* The switcher whose row it is, as combi_mode_match(), combi_mgrv() and        *)
(* combi_mode_result() look for it; none if it is no row.                       *)
OwnersOf(starts, row) == {i \in Switchers : InRange(starts[i], row)}

(* Refiltering: combi_mode_match() of all rows; every entry of a mode matches   *)
(* what else is typed.                                                          *)
Refilter(text, lists) ==
  LET starts == NumEntries(lists)
      rows == RowsOf(lists)
  IN /\ bang' = text /\ enabled' = PreprocessInput(text) /\ ranges' = starts
     /\ lines' = SelectSeq(rows, LAMBDA row : OwnersOf(starts, row) \cap enabled' # {})
     /\ onScreen' = [k \in DOMAIN lines' |->
          LET i == CHOOSE j \in OwnersOf(starts, lines'[k]) : TRUE
          IN lists[i][lines'[k] - starts[i].start + 1]]

CombiInit(on) ==
  /\ entries = [i \in Switchers |-> IF on THEN <<10 * i, 10 * i + 1>> ELSE <<>>]
  /\ ranges = NumEntries(entries) /\ enabled = Switchers /\ bang = <<>>
  /\ lines = (IF on THEN RowsOf(entries) ELSE <<>>)
  /\ onScreen = FlattenSeq(entries) /\ passed = Nothing
  /\ finds = (IF on THEN 0 ELSE MaxFinds) /\ tries = (IF on THEN 0 ELSE MaxTries)

Type(text) ==
  /\ tries < MaxTries /\ text # bang /\ Refilter(text, entries)
  /\ UNCHANGED <<entries, passed, finds, tries>>

(* Mode i has found one more; the view is reloaded later. *)
FindEntry(i) ==
  /\ finds < MaxFinds /\ finds' = finds + 1
  /\ entries' = [entries EXCEPT ![i] = Append(@, 10 * i + 2 + finds)]
  /\ UNCHANGED <<ranges, enabled, bang, lines, onScreen, passed, tries>>

ReloadRows ==
  /\ ranges # NumEntries(entries) /\ Refilter(bang, entries)
  /\ UNCHANGED <<entries, passed, finds, tries>>

(* combi_mode_result(): with a bang it is the first mode that has it, whatever  *)
(* row of that one it makes; without one the mode whose row it is               *)
ByBang == IF bang = <<>> \/ Matching(bang) = {} THEN {} ELSE {Min(Matching(bang))}
Receiver(row) == IF ByBang # {} THEN ByBang ELSE OwnersOf(ranges, row)

(* The entry that mode i takes a row for, 0 if it is past its entries. *)
TakenFor(i, row) ==
  LET k == row - ranges[i].start + 1
  IN IF k \in DOMAIN entries[i] THEN entries[i][k] ELSE 0

Result(k) ==
  /\ tries < MaxTries /\ tries' = tries + 1
  /\ \E i \in Receiver(lines[k]) :
       passed' = [switcher |-> i, entry |-> TakenFor(i, lines[k]),
                 shown |-> onScreen[k], sure |-> Cardinality(Matching(bang)) <= 1]

(* A line is chosen, or its entry deleted, after which the view is reloaded. *)
ChooseLine(k) ==
  Result(k) /\ UNCHANGED <<entries, ranges, enabled, bang, lines, onScreen, finds>>
DeleteLine(k) ==
  /\ Result(k)
  /\ entries' = [entries EXCEPT
       ![passed'.switcher] = SelectSeq(@, LAMBDA e : e # passed'.entry)]
  /\ Refilter(bang, entries') /\ UNCHANGED finds

(* Text that is no line's goes to the mode of the bang or to the first one. *)
CustomInput ==
  /\ tries < MaxTries /\ tries' = tries + 1
  /\ \E i \in IF ByBang # {} THEN ByBang ELSE {1} : passed' = [Nothing EXCEPT !.switcher = i]
  /\ UNCHANGED <<entries, ranges, enabled, bang, lines, onScreen, finds>>

CombiNext ==
  \/ \E text \in Bangs : Type(text)
  \/ \E i \in Switchers : FindEntry(i)
  \/ \E k \in DOMAIN lines : ChooseLine(k) \/ DeleteLine(k)
  \/ ReloadRows \/ CustomInput
--------------------------------------------------------------------------------
(* The entry that was on the line is the one that is taken, of the mode that    *)
(* has it, whatever the modes found since the list was filtered; as long as no  *)
(* two modes' names begin with what follows the bang (combi.c:152-217).         *)
TakesTheLine == passed.sure => passed.entry = passed.shown
================================================================================
