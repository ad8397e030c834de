------------------------------- MODULE TextEntry -------------------------------
(* The text of the entry: editing (widgets/textbox.c) and the history of what   *)
(* was entered (view.c), over several dialogs that share one file.              *)
(*                                                                              *)
(* A text is a sequence of characters, a cursor the number of characters before *)
(* it.  Where the code walks over an end of the string -- backwards from its    *)
(* start, forwards from its NUL -- what it finds there is anything; the cursor  *)
(* is cut to the text either way, if the walk ends.                             *)
EXTENDS Integers, Sequences, SequencesExt, FiniteSetsExt

CONSTANTS
  WordCharacters, OtherCharacters,  \* the break types the code tells apart
  Pastes,                           \* texts that a key or a paste may bring
  MaxText, MaxEdits,                \* bounds: characters; edits of a dialog
  MaxHistory,                       \* theme: entry.max-history
  MaxDialogs                        \* bound: dialogs, one after another

ASSUME TextAssumption ==
  /\ {MaxText, MaxEdits, MaxDialogs} \subseteq Nat /\ MaxHistory \in Nat \ {0}

VARIABLES
  box,      \* the textbox: text, cursor; edits so far; is there one
  past,     \* CacheState.entry_history: strings with their cursors, and index
  entry_file,     \* sofi-entry-history.txt
  dialogs,  \* dialogs so far
  edit      \* what the last step did to the text (history)

textVars == <<box, past, entry_file, dialogs, edit>>

Character == WordCharacters \cup OtherCharacters
NoBox == [up |-> FALSE, text |-> <<>>, cursor |-> 0, edits |-> 0]
NoPast == [strings |-> <<>>, index |-> 0]
Unedited == [kind |-> "none", before |-> <<>>, at |-> 0]

Lower(a, b) == IF a < b THEN a ELSE b

TextInit(on) ==
  /\ box = NoBox /\ past = NoPast /\ entry_file = <<>> /\ edit = Unedited
  /\ dialogs = IF on THEN 0 ELSE MaxDialogs
--------------------------------------------------------------------------------
(* The cursor. *)

(* textbox_cursor() *)
Put(b, pos) ==
  [b EXCEPT !.cursor = IF pos < 0 THEN 0 ELSE Lower(pos, Len(b.text))]

IsWord(text, i) == text[i] \in WordCharacters

(* textbox_cursor_inc_word(): past the end of the next word *)
WordEnd(b) ==
  LET starts == {i \in (b.cursor + 2)..Len(b.text) : IsWord(b.text, i)}
      from == Min(starts)
      ends == {i \in (from + 1)..Len(b.text) : ~IsWord(b.text, i)}
  IN IF starts = {} THEN Len(b.text)
     ELSE IF ends = {} THEN Len(b.text) ELSE Min(ends) - 1

(* textbox_cursor_dec_word(): the start of the word before *)
WordStart(b) ==
  LET ends == {i \in 2..b.cursor : IsWord(b.text, i)}
      from == Max(ends)
      stops == {i \in 1..(from - 1) : ~IsWord(b.text, i)}
  IN IF ends = {} THEN 0 ELSE IF stops = {} THEN 0 ELSE Max(stops)
--------------------------------------------------------------------------------
(* Edits. *)

(* textbox_insert(), and the step of textbox_append_text() over the character *)
Insert(b, c) ==
  [b EXCEPT !.text = SubSeq(@, 1, b.cursor) \o <<c>>
                     \o SubSeq(@, b.cursor + 1, Len(@)),
            !.cursor = @ + 1]

(* textbox_append_text(): control characters are skipped, "\t" and the like are *)
(* a space; here both are among what Pastes leave out                           *)
AppendText(b, pad) == FoldLeft(Insert, b, pad)

(* Mutant of DeleteText: the cursor stays behind what was cut before it. *)
DeleteTextOnly(b, pos, n) ==
  IF Len(b.text) = pos THEN b
  ELSE [b EXCEPT !.text = SubSeq(@, 1, pos) \o SubSeq(@, pos + n + 1, Len(@)),
                 !.cursor = IF @ >= pos /\ @ < pos + n THEN pos ELSE @]

(* textbox_delete(), whose callers never ask for more than there is *)
DeleteText(b, pos, n) ==
  IF Len(b.text) = pos THEN b
  ELSE [b EXCEPT !.text = SubSeq(@, 1, pos) \o SubSeq(@, pos + n + 1, Len(@)),
                 !.cursor = IF @ >= pos + n THEN @ - n
                            ELSE IF @ >= pos THEN pos ELSE @]

CharBack(b) ==
  IF b.cursor = 0 THEN b ELSE DeleteText(Put(b, b.cursor - 1), b.cursor - 1, 1)

WordBack(b) ==
  LET moved == Put(b, WordStart(b))
  IN IF b.cursor > 0 /\ b.cursor > moved.cursor
     THEN DeleteText(moved, moved.cursor, b.cursor - moved.cursor) ELSE b

WordForward(b) ==
  LET moved == Put(b, WordEnd(b))
  IN IF b.cursor < moved.cursor
     THEN DeleteText(moved, b.cursor, moved.cursor - b.cursor) ELSE moved

(* textbox_transpose_chars() *)
Transpose(b) ==
  IF b.cursor < 2 THEN b
  ELSE [b EXCEPT !.text[b.cursor - 1] = b.text[b.cursor],
                 !.text[b.cursor] = b.text[b.cursor - 1]]

(* textbox_keybinding(): what each key makes of the box; those that only move  *)
(* the cursor                                                                  *)
Moved(b) ==
  {Put(b, b.cursor - 1), Put(b, b.cursor + 1), Put(b, 0), Put(b, Len(b.text)),
   Put(b, WordStart(b)), Put(b, WordEnd(b))}

Cuts == {"clear", "word back", "word forward", "to end", "to start",
         "char forward", "char back"}
Cut(b, kind) ==
  CASE kind = "clear" -> [b EXCEPT !.text = <<>>, !.cursor = 0]
    [] kind = "word back" -> WordBack(b)
    [] kind = "word forward" -> WordForward(b)
    [] kind = "to end" -> DeleteText(b, b.cursor, Len(b.text) - b.cursor)
    [] kind = "to start" -> DeleteText(b, 0, b.cursor)
    [] kind = "char forward" -> DeleteText(b, b.cursor, 1)
    [] kind = "char back" -> CharBack(b)

(* textbox_text() *)
SetText(b, text) == [b EXCEPT !.text = text, !.cursor = Lower(Len(text), @)]
--------------------------------------------------------------------------------
(* The history. *)

Remembered(b) == [text |-> b.text, cursor |-> b.cursor]
Current == past.strings[past.index]

(* input_history_initialize() *)
Loaded ==
  [strings |-> [i \in 1..Len(entry_file) |-> [text |-> entry_file[i], cursor |-> Len(entry_file[i])]]
               \o <<[text |-> <<>>, cursor |-> 0]>>,
   index |-> Len(entry_file) + 1]

(* what input_history_save() writes *)
Saved ==
  LET from == IF Len(past.strings) > MaxHistory
              THEN Len(past.strings) - MaxHistory ELSE 0
      kept == SubSeq(past.strings, from + 1, Len(past.strings))
  IN [i \in 1..Len(SelectSeq(kept, LAMBDA s : s.text # <<>>)) |->
        SelectSeq(kept, LAMBDA s : s.text # <<>>)[i].text]

(* sofi_view_input_changed() *)
InputChanged(b) == past' = [past EXCEPT !.strings[past.index] = Remembered(b)]

Editable == box.up /\ box.edits < MaxEdits
Edited(b) == [b EXCEPT !.edits = @ + 1]

OpenEntry ==
  /\ ~box.up /\ dialogs < MaxDialogs
  /\ box' = [NoBox EXCEPT !.up = TRUE] /\ past' = Loaded
  /\ dialogs' = dialogs + 1 /\ edit' = Unedited /\ UNCHANGED entry_file

(* sofi_view_handle_text() *)
TypeText ==
  /\ Editable
  /\ \E pad \in Pastes :
       /\ Len(box.text) + Len(pad) <= MaxText
       /\ box' = Edited(AppendText(box, pad))
       /\ edit' = [kind |-> "insert", before |-> box.text, at |-> box.cursor]
  /\ InputChanged(box') /\ UNCHANGED <<entry_file, dialogs>>

CutText ==
  /\ Editable
  /\ \E kind \in Cuts :
       /\ box' = Edited(Cut(box, kind))
       /\ edit' = [kind |-> "cut", before |-> box.text, at |-> box.cursor]
  /\ InputChanged(box') /\ UNCHANGED <<entry_file, dialogs>>

SwapText ==
  /\ Editable
  /\ box' = Edited(Transpose(box))
  /\ edit' = [kind |-> "swap", before |-> box.text, at |-> box.cursor]
  /\ InputChanged(box') /\ UNCHANGED <<entry_file, dialogs>>

MoveCursor ==
  /\ Editable /\ \E b \in Moved(box) : box' = Edited(b)
  /\ edit' = Unedited /\ UNCHANGED <<past, entry_file, dialogs>>

(* ROW_SELECT: the entry's completion takes the place of what was typed *)
CompleteText ==
  /\ Editable
  /\ \E pad \in Pastes :
       box' = Edited([box EXCEPT !.text = pad, !.cursor = Len(pad)])
  /\ edit' = Unedited /\ UNCHANGED <<past, entry_file, dialogs>>

(* ENTRY_HISTORY_DOWN *)
HistoryDown ==
  /\ Editable
  /\ LET marked == [past EXCEPT !.strings[past.index].cursor = box.cursor]
         to == IF past.index > 1 THEN past.index - 1 ELSE 1
     IN /\ past' = [marked EXCEPT !.index = to]
        /\ box' = Edited(Put(SetText(box, marked.strings[to].text),
                             marked.strings[to].cursor))
  /\ edit' = Unedited /\ UNCHANGED <<entry_file, dialogs>>

(* ENTRY_HISTORY_UP *)
HistoryUp ==
  /\ Editable
  /\ LET kept == [past EXCEPT !.strings[past.index] = Remembered(box)]
         on == [kept EXCEPT !.index = @ + 1]
         grown == IF on.index > Len(on.strings)
                  THEN [on EXCEPT !.strings = Append(@, [text |-> <<>>, cursor |-> 0])]
                  ELSE on
         next == IF box.text = <<>> THEN kept ELSE grown
         now == next.strings[next.index]
     IN /\ past' = next
        /\ box' = Edited(Put(SetText(box, now.text), now.cursor))
  /\ edit' = Unedited /\ UNCHANGED <<entry_file, dialogs>>

CloseEntry ==
  /\ box.up
  /\ entry_file' = Saved /\ past' = NoPast /\ box' = NoBox
  /\ edit' = Unedited /\ UNCHANGED dialogs

TextNext ==
  \/ OpenEntry \/ TypeText \/ CutText \/ SwapText \/ MoveCursor
  \/ CompleteText \/ HistoryDown \/ HistoryUp \/ CloseEntry
--------------------------------------------------------------------------------
(* An edit touches the text at the cursor and nowhere else: what is inserted    *)
(* is before the new cursor, what is cut ran from the old cursor to one side,   *)
(* and the cursor is where the edit was; so that typing and cutting it again    *)
(* leaves no trace, and the cursor never leaves the text (textbox.c:753-910).   *)
EditsAtCursor ==
  LET old == edit.before
      n == Len(box.text)
      start == SubSeq(old, 1, box.cursor)
      end == SubSeq(box.text, box.cursor + 1, n)
  IN /\ box.cursor \in 0..n
     /\ edit.kind = "insert" =>
          box.text = SubSeq(old, 1, edit.at)
                     \o SubSeq(box.text, edit.at + 1, box.cursor)
                     \o SubSeq(old, edit.at + 1, Len(old))
     /\ edit.kind = "cut" /\ box.text # <<>> =>
          /\ box.cursor <= edit.at /\ SubSeq(box.text, 1, box.cursor) = start
          /\ IsSuffix(end, old)
          /\ box.cursor = edit.at \/ Len(end) = Len(old) - edit.at
================================================================================
