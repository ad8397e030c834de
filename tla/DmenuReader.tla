------------------------------- MODULE DmenuReader -------------------------------
(* dmenu.c, asynchronous: a thread splits standard input into rows and hands  *)
(* them to the main loop in blocks, through a queue and a pipe that wakes it. *)
(* The dialog may end before the input does.                                  *)
EXTENDS Integers, Sequences, FiniteSets, SequencesExt

CONSTANTS
  Input,         \* what the producer writes, a sequence of "x" and Separator
  Separator,
  BlockSize,     \* rows of a full block
  ReadSize       \* bytes of one read

ASSUME ReaderAssumption ==
  Input \in Seq(ToSet(Input)) /\ {BlockSize, ReadSize} \subseteq Nat \ {0}

VARIABLES
  dialog,        \* "off", "up", "stopping", "ended"
  sent, closed,  \* bytes the producer has written; it has closed its end
  taken,         \* bytes the thread has read
  thread,        \* "select", "split", "ended", "failed"
  partial,       \* line[0 .. nread)
  block,         \* rows of the block being filled; <<>> when there is none
  blocks,        \* async_queue
  wake, abort,   \* bytes in pipefd2 and pipefd
  rows,          \* cmd_list
  chosen,        \* selected_list
  loading        \* "Loading.." is shown

readerVars == <<dialog, sent, closed, taken, thread, partial, block, blocks,
                wake, abort, rows, chosen, loading>>

ReaderInit(on) ==
  /\ dialog = IF on THEN "up" ELSE "off"
  /\ sent = 0 /\ closed = FALSE /\ taken = 0
  /\ thread = "select" /\ partial = <<>> /\ block = <<>> /\ blocks = <<>>
  /\ wake = <<>> /\ abort = FALSE
  /\ rows = <<>> /\ chosen = {} /\ loading = TRUE

Stopped == thread \in {"ended", "failed"}
Running == dialog \in {"up", "stopping"} /\ ~Stopped
--------------------------------------------------------------------------------
(* The producer, at the other end of standard input. *)

Produce ==
  /\ dialog = "up" /\ sent < Len(Input)
  /\ \E n \in (sent + 1)..Len(Input) : sent' = n
  /\ UNCHANGED <<dialog, closed, taken, thread, partial, block, blocks, wake,
                 abort, rows, chosen, loading>>

CloseInput ==
  /\ dialog = "up" /\ sent = Len(Input) /\ ~closed
  /\ closed' = TRUE
  /\ UNCHANGED <<dialog, sent, taken, thread, partial, block, blocks, wake,
                 abort, rows, chosen, loading>>
--------------------------------------------------------------------------------
(* read_input_thread() *)

(* A block is queued, and the main loop is woken. *)
Flush(b) ==
  IF b = <<>> THEN UNCHANGED <<blocks, wake>> /\ block' = <<>>
  ELSE /\ blocks' = Append(blocks, b) /\ block' = <<>>
       /\ wake' = Append(wake, "r")

ReadInput ==
  /\ Running /\ thread = "select" /\ ~abort /\ taken < sent
  /\ \E n \in 1..ReadSize :
       /\ taken + n <= sent
       /\ taken' = taken + n
       /\ partial' = partial \o SubSeq(Input, taken + 1, taken + n)
  /\ thread' = "split"
  /\ UNCHANGED <<dialog, sent, closed, block, blocks, wake, abort, rows, chosen,
                 loading>>

(* The first row of what was read: the block is queued when it is full or     *)
(* 100 ms have passed since the last one.                                     *)
SplitRow ==
  /\ Running /\ thread = "split" /\ Contains(partial, Separator)
  /\ LET i == SelectInSeq(partial, LAMBDA c : c = Separator)
         b == Append(block, SubSeq(partial, 1, i - 1))
     IN /\ partial' = SubSeq(partial, i + 1, Len(partial))
        /\ \/ Flush(b)
           \/ Len(b) < BlockSize /\ block' = b /\ UNCHANGED <<blocks, wake>>
  /\ UNCHANGED <<dialog, sent, closed, taken, thread, abort, rows, chosen,
                 loading>>

SplitEnd ==
  /\ Running /\ thread = "split" /\ ~Contains(partial, Separator)
  /\ thread' = "select"
  /\ UNCHANGED <<dialog, sent, closed, taken, partial, block, blocks, wake,
                 abort, rows, chosen, loading>>

(* Mutant of SelectTimeout: what has been read of a row is taken for one.     *)
SelectTimeoutPartial ==
  /\ Running /\ thread = "select" /\ ~abort /\ taken = sent /\ ~closed
  /\ Flush(IF partial = <<>> THEN block ELSE Append(block, partial))
  /\ partial' = <<>>
  /\ UNCHANGED <<dialog, sent, closed, taken, thread, abort, rows, chosen,
                 loading>>

(* Nothing for 250 ms: whole rows are handed over, an unfinished one waits.   *)
SelectTimeout ==
  /\ Running /\ thread = "select" /\ ~abort /\ taken = sent /\ ~closed
  /\ Flush(block)
  /\ UNCHANGED <<dialog, sent, closed, taken, thread, partial, abort, rows,
                 chosen, loading>>

(* Mutant of EndOfInput: the block that is being filled is not queued. *)
EndOfInputSilent ==
  /\ Running /\ thread = "select" /\ ~abort /\ taken = sent /\ closed
  /\ wake' = Append(wake, "q")
  /\ thread' = "ended"
  /\ UNCHANGED <<dialog, sent, closed, taken, partial, block, blocks, abort,
                 rows, chosen, loading>>

(* End of input: the rest is the last row. *)
EndOfInput ==
  /\ Running /\ thread = "select" /\ ~abort /\ taken = sent /\ closed
  /\ LET b == IF partial = <<>> THEN block ELSE Append(block, partial)
     IN /\ blocks' = IF b = <<>> THEN blocks ELSE Append(blocks, b)
        /\ wake' = wake \o (IF b = <<>> THEN <<"q">> ELSE <<"r", "q">>)
  /\ block' = <<>> /\ partial' = <<>> /\ thread' = "ended"
  /\ UNCHANGED <<dialog, sent, closed, taken, abort, rows, chosen, loading>>

(* select() fails, and the thread gives up: what was not queued is lost.      *)
SelectFails ==
  /\ Running /\ thread = "select"
  /\ wake' = Append(wake, "q") /\ thread' = "failed"
  /\ UNCHANGED <<dialog, sent, closed, taken, partial, block, blocks, abort,
                 rows, chosen, loading>>

(* The main thread ends the dialog: what was not queued is lost. *)
Aborted ==
  /\ Running /\ thread = "select" /\ abort
  /\ wake' = Append(wake, "q") /\ thread' = "ended"
  /\ UNCHANGED <<dialog, sent, closed, taken, partial, block, blocks, abort,
                 rows, chosen, loading>>
--------------------------------------------------------------------------------
(* The main loop. *)

(* dmenu_async_read_proc(): one byte, but every block that is queued. *)
ReadProc ==
  /\ dialog = "up" /\ wake # <<>>
  /\ wake' = Tail(wake)
  /\ IF Head(wake) = "r"
     THEN /\ rows' = rows \o FlattenSeq(blocks) /\ blocks' = <<>>
          /\ UNCHANGED loading
     ELSE /\ loading' = FALSE
          /\ UNCHANGED <<rows, blocks>>
  /\ UNCHANGED <<dialog, sent, closed, taken, thread, partial, block, abort,
                 chosen>>

(* dmenu_finalize(), -multi-select: a row is marked or unmarked, and the view *)
(* goes on.                                                                   *)
Toggle(i) ==
  /\ dialog = "up" /\ i \in DOMAIN rows
  /\ chosen' = SymDiff(chosen, {i})
  /\ UNCHANGED <<dialog, sent, closed, taken, thread, partial, block, blocks,
                 wake, abort, rows, loading>>

(* dmenu_finish(): no more wake-ups, the thread is told to stop ... *)
Finish ==
  /\ dialog = "up"
  /\ dialog' = "stopping" /\ abort' = TRUE
  /\ UNCHANGED <<sent, closed, taken, thread, partial, block, blocks, wake,
                 rows, chosen, loading>>

(* ... and joined, and what it queued is freed. *)
Join ==
  /\ dialog = "stopping" /\ Stopped
  /\ dialog' = "ended" /\ blocks' = <<>>
  /\ UNCHANGED <<sent, closed, taken, thread, partial, block, wake, abort, rows,
                 chosen, loading>>

ReaderThread ==
  ReadInput \/ SplitRow \/ SplitEnd \/ SelectTimeout \/ EndOfInput \/ Aborted

ReaderNext ==
  \/ Produce \/ CloseInput
  \/ ReaderThread \/ SelectFails
  \/ ReadProc \/ Finish \/ Join
  \/ \E i \in DOMAIN rows : Toggle(i)

(* The thread runs, and its select() times out; the main loop dispatches.     *)
ReaderFairness ==
  /\ WF_readerVars(ReaderThread) /\ WF_readerVars(ReadProc) /\ WF_readerVars(Join)
--------------------------------------------------------------------------------
(* The rows of a text, letter by letter: those that end with a separator, and *)
(* a last one that the end of the input ends.                                 *)
RowsOf(text, ended) ==
  LET cut[i \in 0..Len(text)] ==
        IF i = 0 THEN [whole |-> <<>>, rest |-> <<>>]
        ELSE IF text[i] = Separator
             THEN [whole |-> Append(cut[i - 1].whole, cut[i - 1].rest), rest |-> <<>>]
             ELSE [whole |-> cut[i - 1].whole, rest |-> Append(cut[i - 1].rest, text[i])]
      all == cut[Len(text)]
  IN IF ended /\ all.rest # <<>> THEN Append(all.whole, all.rest) ELSE all.whole

(* The list on display is a prefix of the rows of the input, in order: none   *)
(* is split, merged, lost or repeated, whatever the producer's pauses and     *)
(* the boundaries of reads and blocks (dmenu.c:349-353).                      *)
RowsArePrefix == IsPrefix(rows, RowsOf(Input, closed))

(* Every row arrives unless the dialog ends first or select() fails, and      *)
(* "Loading.." goes away either way; a dialog that is ended does end.         *)
ReaderDelivers ==
  /\ closed ~> (dialog # "up" \/ (~loading /\ (rows = RowsOf(Input, TRUE) \/ thread = "failed")))
  /\ dialog = "stopping" ~> dialog = "ended"
================================================================================
