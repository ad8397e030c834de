---------------------------- MODULE InstanceProofs -----------------------------
(* What holds of one instance of sofi: of the lock it takes, for any number of  *)
(* launches; of the scripts it runs, for any outputs, calls and threads; of the *)
(* windows it lists and switches between, for any number of them; of what its   *)
(* panels say of sinks, sheets and devices.                                     *)
EXTENDS InstanceLock, ScriptMode, WindowList, SoundAndSheets, BluetoothDevices,
        SequenceLemmas, SequenceTheorems,
        FunctionTheorems, FiniteSetTheorems, TLAPS
--------------------------------------------------------------------------------
(* The lock. *)
LockSpec == LockInit(TRUE) /\ [][LockNext]_lockVars

Holding == {"swap", "locked", "empty", "up", "killed"}
Stages == {"new", "read", "wait", "again", "gone"} \cup Holding

(* The strengthening.  Whoever is past the lock holds it, and nobody else; the *)
(* pid in the file is of one who was up; whoever is being ended has one that   *)
(* waits for the end; a launch that failed or was ended has left one that is   *)
(* still on its way, or up.                                                    *)
StagesTyped ==
  /\ progress \in [Launches -> Stages] /\ replaces \subseteq Launches
  /\ lock \subseteq Launches /\ pid \subseteq Launches /\ owed \in BOOLEAN
HoldersLock == \A p \in Launches : progress[p] \in Holding <=> lock = {p}
LockHeld == lock = {} \/ \E p \in Launches : lock = {p}
PidWasUp == \A p \in pid : progress[p] \in {"up", "killed", "gone"}
KilledAwaited ==
  (\E p \in Launches : progress[p] = "killed") => \E q \in Launches : progress[q] = "wait"
OwedUnderWay == owed => \E p \in Launches : progress[p] \notin {"new", "gone"}
LockIInv ==
  /\ StagesTyped /\ HoldersLock /\ LockHeld /\ PidWasUp /\ KilledAwaited /\ OwedUnderWay
--------------------------------------------------------------------------------
(* The strengthening is enough: two that are up both hold the one lock, and    *)
(* one that is on its way is, where all rest, up.                              *)
LEMMA LockEnough == LockIInv => SomeoneStands
<1> SUFFICES ASSUME LockIInv PROVE SomeoneStands
  OBVIOUS
<1>1. ASSUME NEW p \in Launches, NEW q \in Launches,
             progress[p] = "up", progress[q] = "up"
      PROVE  p = q
  <2>1. lock = {p} /\ lock = {q}
    BY <1>1 DEF LockIInv, HoldersLock, Holding
  <2> QED BY <2>1
<1>2. ASSUME owed, \A p \in Launches : progress[p] \in {"new", "up", "gone"}
      PROVE  \E p \in Launches : progress[p] = "up"
  BY <1>2 DEF LockIInv, OwedUnderWay
<1> QED BY <1>1, <1>2 DEF SomeoneStands

(* It holds when nothing was launched yet.                                     *)
LEMMA LockInitially == LockInit(TRUE) => LockIInv
BY DEF LockInit, LockIInv, StagesTyped, HoldersLock, LockHeld, PidWasUp, KilledAwaited,
       OwedUnderWay, Holding, Stages

(* What a step of one launch alone keeps: it moves from a stage to another, and *)
(* the lock moves with it.                                                      *)
LEMMA LockStep ==
  ASSUME LockIInv, [LockNext]_lockVars PROVE LockIInv'
<1> USE DEF LockIInv, StagesTyped, HoldersLock, LockHeld, PidWasUp, KilledAwaited,
            OwedUnderWay, Holding, Stages
<1>1. ASSUME NEW p \in Launches, CreatePidFile(p) PROVE LockIInv'
  <2>1. ASSUME lock # {}, Refused(p) PROVE lock' = lock
    BY <1>1, <2>1 DEF CreatePidFile, Refused, RemovePidFile
  <2> QED BY <1>1, <2>1 DEF CreatePidFile, Refused, Obtains, Goes
<1>2. ASSUME NEW p \in Launches, KillRunning(p) PROVE LockIInv'
  BY <1>2 DEF KillRunning, Goes
<1>3. ASSUME NEW p \in Launches, Poll(p) PROVE LockIInv'
  BY <1>3 DEF Poll, Goes
<1>4. ASSUME NEW p \in Launches, PollTimeout(p) PROVE LockIInv'
  BY <1>4 DEF PollTimeout, Refused, RemovePidFile, Goes
<1>5. ASSUME NEW p \in Launches, ClosePolled(p) PROVE LockIInv'
  BY <1>5 DEF ClosePolled, RemovePidFile, Goes
<1>6. ASSUME NEW p \in Launches, CreateAgain(p) PROVE LockIInv'
  <2>1. ASSUME lock # {}, Refused(p) PROVE lock' = lock
    BY <1>6, <2>1 DEF CreateAgain, Refused, RemovePidFile
  <2> QED BY <1>6, <2>1 DEF CreateAgain, Refused, Obtains, Goes
<1>7. ASSUME NEW p \in Launches, EmptyPidFile(p) PROVE LockIInv'
  BY <1>7 DEF EmptyPidFile, Goes
<1>8. ASSUME NEW p \in Launches, WritePid(p) PROVE LockIInv'
  BY <1>8 DEF WritePid, Goes
<1>9. ASSUME NEW p \in Launches, Teardown(p) PROVE LockIInv'
  BY <1>9 DEF Teardown, RemovePidFile, Goes
<1>10. ASSUME NEW p \in Launches, Die(p) PROVE LockIInv'
  BY <1>10 DEF Die, Goes
<1>11. CASE UNCHANGED lockVars
  BY <1>11 DEF lockVars
<1> QED
  BY <1>1, <1>2, <1>3, <1>4, <1>5, <1>6, <1>7, <1>8, <1>9, <1>10, <1>11 DEF LockNext

(* However many launch, and whichever of them replace the one before: never are *)
(* two up, and none is ended or refused but for one that stands                 *)
(* (helper.c:585-679).                                                          *)
THEOREM LockKept == LockSpec => []SomeoneStands
<1>1. LockInit(TRUE) => LockIInv
  BY LockInitially
<1>2. LockIInv /\ [LockNext]_lockVars => LockIInv'
  BY LockStep
<1>3. LockIInv => SomeoneStands
  BY LockEnough
<1> QED BY <1>1, <1>2, <1>3, PTL DEF LockSpec
--------------------------------------------------------------------------------
(* A script and its menu.  The message tells of an error exactly where the mode  *)
(* is in quarantine or its last call failed, and then the rows do; the line map  *)
(* of a list that is not filtered is straight, so that the line asked for is the *)
(* one selected.                                                                 *)

ScriptRows == [entry : BOOLEAN, fits : BOOLEAN, selectable : BOOLEAN, permanent : BOOLEAN]
Scripts ==
  [kind : {"none", "program", "lua"}, output : Nat, of : Nat, rows : Seq(ScriptRows),
   ranges : SUBSET Nat, message : {"none", "own", "error"}, messageIsError : BOOLEAN,
   quarantined : BOOLEAN, keepSelection : BOOLEAN, keepFilter : BOOLEAN,
   newSelection : {-1} \cup Nat, noCustom : BOOLEAN, hotKeys : BOOLEAN,
   switch : BOOLEAN, refused : BOOLEAN, discarded : BOOLEAN]

Failing(s) == s.quarantined \/ s.messageIsError
Told(s) ==
  /\ s \in Scripts /\ (s.message = "error" <=> Failing(s))
  /\ s.kind = "program" => ~Failing(s)
Started(s) == Told(s) /\ s.kind # "none"

LineOf(m) == IF m.sel \in DOMAIN m.map THEN m.map[m.sel] ELSE 0
Fields == {"up", "shows", "filtered", "map", "sel", "asked"}
IsMenu(m) ==
  /\ m = [f \in Fields |-> m[f]]
  /\ m.filtered \in BOOLEAN /\ m.asked \in Nat
AskedIsHit(m) == m.asked > 0 => LineOf(m) = m.asked \/ m.asked > Len(m.map)
StraightFor(m, rows) == ~m.filtered => m.map = Every(rows)
MenuOf(m, rows) ==
  IsMenu(m) /\ (m.up /\ m.shows = "script" => AskedIsHit(m) /\ StraightFor(m, rows))

FromOneOutput(s) ==
  ~s.discarded => s.ranges \subseteq {s.of} /\ (Failing(s) <=> s.rows = ErrorRows)
ScriptIInv ==
  /\ Told(script) /\ MenuOf(menu, script.rows)
  /\ script.output = 0 => script = Unstarted
  /\ menu.up => script.kind # "none" /\ FromOneOutput(script)

LEMMA ScriptEnough == ScriptIInv => ShowsOneOutput
<1> SUFFICES ASSUME ScriptIInv, Showing PROVE ShowsOneOutput
  BY DEF ShowsOneOutput
<1>1. menu.up /\ menu.shows = "script"
  BY DEF Showing
<1>2. Line = LineOf(menu)
  BY DEF Line, LineOf
<1>3. menu.asked > 0 => Line = menu.asked \/ menu.asked > Len(menu.map)
  BY <1>1, <1>2 DEF ScriptIInv, MenuOf, AskedIsHit
<1>4. script.discarded \/ script.ranges \subseteq {script.of}
  BY <1>1 DEF ScriptIInv, FromOneOutput
<1>5. script.discarded \/ (script.message = "error" <=> script.rows = ErrorRows)
  BY <1>1 DEF ScriptIInv, FromOneOutput, Told
<1> QED
  BY <1>3, <1>4, <1>5 DEF ShowsOneOutput

(* The producer. *)
LEMMA OutputIs ==
  ASSUME NEW o \in Outputs
  PROVE  /\ ReadRows(o.rows) \in Seq(ScriptRows) /\ ReadRows(o.rows) # ErrorRows
         /\ o.highlights \in BOOLEAN /\ o.message \in {"unset", "own", "clear"}
         /\ o.keepSelection \in BOOLEAN /\ o.keepFilter \in BOOLEAN
         /\ o.newSelection \in {-1} \cup Nat /\ o.switch \in BOOLEAN
<1>1. o.rows \in Seq(ScriptRows)
  BY OutputsAssumption DEF ScriptRows
<1>2. ReadRows(o.rows) \in Seq(ScriptRows)
  <2> DEFINE S == {r \in ToSet(o.rows) : ~r.entry}
  <2>1. ReadRows(o.rows) = Without(o.rows, S)
    BY DEF ReadRows
  <2> HIDE DEF S
  <2>2. PICK w : Without(o.rows, S) = w[Len(o.rows)]
                 /\ \A i \in 0..Len(o.rows) : w[i] \in Seq(ScriptRows)
    BY <1>1, WithoutSteps
  <2>3. Len(o.rows) \in 0..Len(o.rows)
    BY <1>1, LenProperties
  <2> QED
    BY <2>1, <2>2, <2>3
<1> QED
  BY <1>2, OutputsAssumption, ErrorRowsAssumption

LEMMA ErrorRowsIs == ErrorRows \in Seq(ScriptRows)
  BY DEF ErrorRows, ScriptRows

LEMMA SetIs == \A option, old : old \in BOOLEAN => Set(option, old) \in BOOLEAN
  BY DEF Set

LEMMA OptionsKeep ==
  ASSUME NEW s, Told(s), NEW o \in Outputs, s.output \in Nat, ~Failing(s)
  PROVE  LET r == Options(s, o, s.output)
         IN /\ Told(r) /\ ~Failing(r) /\ r.output = s.output /\ r.kind = s.kind
            /\ r.ranges \subseteq s.ranges \cup {s.output} /\ r.discarded = s.discarded
<1> DEFINE r == Options(s, o, s.output)
           message == CASE o.message = "unset" -> s.message
                        [] o.message = "own" -> "own"
                        [] o.message = "clear" -> "none"
           marked == IF o.highlights THEN s.ranges \cup {s.output} ELSE s.ranges
           noCustom == Set(o.noCustom, s.noCustom)
           hotKeys == Set(o.hotKeys, s.hotKeys)
           switch == s.switch \/ o.switch
<1>1. /\ s \in Scripts /\ s.message # "error" /\ s.message \in {"none", "own", "error"}
      /\ s.ranges \in SUBSET Nat /\ s.noCustom \in BOOLEAN /\ s.hotKeys \in BOOLEAN
      /\ s.switch \in BOOLEAN
  BY DEF Told, Scripts
<1>2. message \in {"none", "own", "error"} /\ message # "error"
  BY <1>1, OutputIs
<1>3. marked \in SUBSET Nat /\ marked \subseteq s.ranges \cup {s.output}
  BY <1>1
<1>4. noCustom \in BOOLEAN /\ hotKeys \in BOOLEAN /\ switch \in BOOLEAN
  BY <1>1, SetIs
<1>5. r = [s EXCEPT !.message = message, !.ranges = marked,
                    !.keepSelection = o.keepSelection, !.keepFilter = o.keepFilter,
                    !.newSelection = o.newSelection, !.noCustom = noCustom,
                    !.hotKeys = hotKeys, !.switch = switch]
  BY DEF Options
<1>6. /\ o.keepSelection \in BOOLEAN /\ o.keepFilter \in BOOLEAN
      /\ o.newSelection \in {-1} \cup Nat
  BY OutputIs
<1> HIDE DEF r, message, marked, noCustom, hotKeys, switch
<1>7. r \in Scripts
  <2> DEFINE q == [s EXCEPT !.message = message, !.ranges = marked]
             k == [q EXCEPT !.keepSelection = o.keepSelection, !.keepFilter = o.keepFilter,
                            !.newSelection = o.newSelection]
             c == [k EXCEPT !.noCustom = noCustom, !.hotKeys = hotKeys]
  <2>1. q \in Scripts
    BY <1>1, <1>2, <1>3 DEF Scripts
  <2> HIDE DEF q
  <2>2. k \in Scripts
    BY <1>6, <2>1 DEF Scripts
  <2> HIDE DEF k
  <2>3. c \in Scripts
    BY <1>4, <2>2 DEF Scripts
  <2>4. r = [c EXCEPT !.switch = switch]
    BY <1>5 DEF k, q
  <2> HIDE DEF c
  <2> QED
    BY <1>4, <2>3, <2>4 DEF Scripts
<1>8. /\ r.message = message /\ r.ranges = marked /\ r.output = s.output
      /\ r.kind = s.kind /\ r.discarded = s.discarded
      /\ r.quarantined = s.quarantined /\ r.messageIsError = s.messageIsError
  BY <1>1, <1>5 DEF Scripts
<1>9. Told(r) /\ ~Failing(r)
  BY <1>2, <1>7, <1>8 DEF Told, Failing
<1> QED
  BY <1>3, <1>8, <1>9 DEF r

LEMMA ResetOptionsKeep ==
  ASSUME NEW s, Told(s)
  PROVE  LET r == ResetOptions(s)
         IN /\ Told(r) /\ (Failing(r) <=> Failing(s)) /\ r.output = s.output
            /\ r.kind = s.kind /\ r.ranges = s.ranges /\ r.discarded = s.discarded
            /\ r.quarantined = s.quarantined
<1> DEFINE r == ResetOptions(s)
<1>1. s \in Scripts
  BY DEF Told
<1>2. /\ r \in Scripts /\ r.output = s.output /\ r.kind = s.kind /\ r.ranges = s.ranges
      /\ r.discarded = s.discarded /\ r.quarantined = s.quarantined
      /\ r.messageIsError = s.messageIsError /\ r.message = s.message
  BY <1>1 DEF ResetOptions, Scripts
<1> HIDE DEF r
<1>3. Told(r) /\ (Failing(r) <=> Failing(s))
  BY <1>2 DEF Told, Failing
<1> QED
  BY <1>2, <1>3 DEF r

Produced(s, p) ==
  /\ Told(p.s) /\ p.s.kind = s.kind /\ p.s.output = s.output + 1
  /\ p.s.ranges \subseteq s.ranges \cup {p.s.output} /\ p.s.discarded = s.discarded
  /\ p.rows \in Seq(ScriptRows) /\ (Failing(p.s) <=> p.rows = ErrorRows)

LEMMA ProduceDoes ==
  ASSUME NEW s, Started(s), NEW o \in Outputs, NEW fails \in BOOLEAN,
         fails => s.kind = "lua"
  PROVE  Produced(s, Produce(s, o, fails))
<1> DEFINE n == [s EXCEPT !.output = @ + 1]
           t == ResetOptions(n)
           p == Produce(s, o, fails)
<1>1. s \in Scripts /\ s.output \in Nat /\ s.kind \in {"program", "lua"}
  BY DEF Started, Told, Scripts
<1>2. /\ n \in Scripts /\ n.output = s.output + 1 /\ n.kind = s.kind /\ n.ranges = s.ranges
      /\ n.discarded = s.discarded /\ n.quarantined = s.quarantined
      /\ n.messageIsError = s.messageIsError /\ n.message = s.message
  BY <1>1 DEF Scripts
<1>3. p = CASE n.quarantined -> [s |-> n, rows |-> ErrorRows]
            [] ~n.quarantined /\ n.kind = "lua" -> CallLua(n, o, fails)
            [] ~n.quarantined /\ n.kind = "program" -> RunProgram(n, o)
  BY DEF Produce
<1> HIDE DEF n
<1>4. Told(n) /\ (Failing(n) <=> Failing(s)) /\ n.output \in Nat
  BY <1>1, <1>2 DEF Told, Failing, Started
<1>5. /\ Told(t) /\ (Failing(t) <=> Failing(n)) /\ t.output = n.output
      /\ t.kind = n.kind /\ t.ranges = n.ranges /\ t.discarded = n.discarded
      /\ t.quarantined = n.quarantined
  BY <1>4, ResetOptionsKeep
<1>6. ReadRows(o.rows) \in Seq(ScriptRows) /\ ReadRows(o.rows) # ErrorRows
  BY OutputIs
<1> HIDE DEF t, p
<1>7. CASE n.quarantined
  <2>1. p.s = n /\ p.rows = ErrorRows
    BY <1>3, <1>7
  <2>2. Failing(n)
    BY <1>7 DEF Failing
  <2> QED
    BY <1>2, <1>4, <2>1, <2>2, ErrorRowsIs DEF Produced, p
<1>8. CASE ~n.quarantined /\ n.kind = "program"
  <2> DEFINE r == Options(t, o, t.output)
  <2>1. p.s = r /\ p.rows = ReadRows(o.rows)
    <3>1. p = RunProgram(n, o)
      BY <1>3, <1>8
    <3> QED
      BY <1>5, <3>1 DEF RunProgram, t
  <2>2. ~Failing(t)
    BY <1>5, <1>8 DEF Told
  <2>3. /\ Told(r) /\ ~Failing(r) /\ r.output = t.output /\ r.kind = t.kind
        /\ r.ranges \subseteq t.ranges \cup {t.output} /\ r.discarded = t.discarded
    BY <1>4, <1>5, <2>2, OptionsKeep
  <2> HIDE DEF r
  <2> QED
    BY <1>2, <1>5, <1>6, <2>1, <2>3 DEF Produced, p
<1>9. CASE ~n.quarantined /\ n.kind = "lua" /\ fails
  <2> DEFINE r == [t EXCEPT !.message = "error", !.messageIsError = TRUE]
  <2>1. p.s = r /\ p.rows = ErrorRows
    <3>1. p = CallLua(n, o, fails)
      BY <1>3, <1>9
    <3> QED
      BY <1>9, <3>1 DEF CallLua, t
  <2>2. /\ r \in Scripts /\ r.message = "error" /\ r.messageIsError /\ r.kind = t.kind
        /\ r.output = t.output /\ r.ranges = t.ranges /\ r.discarded = t.discarded
    BY <1>5 DEF Told, Scripts
  <2> HIDE DEF r
  <2>3. Told(r) /\ Failing(r)
    BY <1>5, <1>9, <2>2 DEF Told, Failing
  <2> QED
    BY <1>2, <1>5, <2>1, <2>2, <2>3, ErrorRowsIs DEF Produced, p
<1>10. CASE ~n.quarantined /\ n.kind = "lua" /\ ~fails
  <2> DEFINE q == Recovered(t)
             r == Options(q, o, q.output)
  <2>1. /\ q \in Scripts /\ q.kind = t.kind /\ q.output = t.output
        /\ q.ranges = t.ranges /\ q.discarded = t.discarded /\ q.messageIsError = FALSE
        /\ q.quarantined = t.quarantined
        /\ q.message = IF t.messageIsError THEN "none" ELSE t.message
    <3> DEFINE message == IF t.messageIsError THEN "none" ELSE t.message
    <3>1. t \in Scripts /\ message \in {"none", "own", "error"}
      BY <1>5 DEF Told, Scripts
    <3>2. q = [t EXCEPT !.message = message, !.messageIsError = FALSE]
      BY DEF Recovered
    <3> HIDE DEF message, q
    <3>3. q \in Scripts /\ q.message = message /\ q.kind = t.kind /\ q.output = t.output
          /\ q.ranges = t.ranges /\ q.discarded = t.discarded /\ q.messageIsError = FALSE
          /\ q.quarantined = t.quarantined
      BY <3>1, <3>2 DEF Scripts
    <3> QED
      BY <3>3 DEF message
  <2>2. p.s = r /\ p.rows = ReadRows(o.rows)
    <3>1. p = CallLua(n, o, fails)
      BY <1>3, <1>10
    <3> QED
      BY <1>5, <1>10, <2>1, <3>1 DEF CallLua, t
  <2> HIDE DEF q
  <2>3. Told(q) /\ ~Failing(q)
    BY <1>5, <1>10, <2>1 DEF Told, Failing
  <2>4. /\ Told(r) /\ ~Failing(r) /\ r.output = q.output /\ r.kind = q.kind
        /\ r.ranges \subseteq q.ranges \cup {q.output} /\ r.discarded = q.discarded
    BY <1>4, <1>5, <2>1, <2>3, OptionsKeep
  <2> HIDE DEF r
  <2> QED
    BY <1>2, <1>5, <1>6, <2>1, <2>2, <2>4 DEF Produced, p
<1> QED
  BY <1>1, <1>2, <1>7, <1>8, <1>9, <1>10

(* The dialog. *)
LEMMA EveryIs ==
  ASSUME NEW rows \in Seq(ScriptRows)
  PROVE  /\ Len(Every(rows)) = Len(rows) /\ Len(rows) \in Nat
         /\ DOMAIN Every(rows) = 1..Len(rows)
         /\ \A i \in 1..Len(rows) : Every(rows)[i] = i
<1> DEFINE n == Len(rows)
           f == [i \in 1..n |-> i]
<1>1. n \in Nat
  BY LenProperties
<1>2. f \in [1..n -> Nat]
  OBVIOUS
<1>3. Every(rows) = f /\ \A i \in 1..n : f[i] = i
  BY DEF Every
<1> HIDE DEF n, f
<1>4. Len(f) = n /\ DOMAIN f = 1..n
  BY <1>1, <1>2, FunctionIsSeq
<1> QED
  BY <1>1, <1>3, <1>4 DEF n

LEMMA RefilteredIs ==
  ASSUME NEW m, IsMenu(m), NEW rows
  PROVE  LET r == Refiltered(m, rows)
         IN /\ IsMenu(r) /\ r.asked = m.asked /\ r.filtered = m.filtered
            /\ r.up = m.up /\ r.shows = m.shows
            /\ r.map = Shown(rows, m.filtered) /\ r.sel = Clamped(m.sel, r.map)
            /\ StraightFor(r, rows)
<1> DEFINE map == Shown(rows, m.filtered)
           r == Refiltered(m, rows)
<1>1. r = [m EXCEPT !.map = map, !.sel = Clamped(@, map)]
  BY DEF Refiltered
<1>2. ~m.filtered => map = Every(rows)
  BY DEF Shown
<1> HIDE DEF map, r
<1>3. /\ IsMenu(r) /\ r.asked = m.asked /\ r.filtered = m.filtered
      /\ r.up = m.up /\ r.shows = m.shows /\ r.map = map /\ r.sel = Clamped(m.sel, map)
  BY <1>1 DEF IsMenu, Fields
<1> QED
  BY <1>2, <1>3 DEF StraightFor, r, map

(* A line of a straight map is found; where the new one has it, it is selected. *)
LEMMA LineFound ==
  ASSUME NEW m, IsMenu(m), NEW rows \in Seq(ScriptRows), m.map = Every(rows),
         NEW wished \in 1..Len(rows)
  PROVE  SetSelectedLine(m, wished).sel = wished
<1>1. /\ Len(m.map) = Len(rows) /\ Len(rows) \in Nat /\ DOMAIN m.map = 1..Len(rows)
      /\ \A i \in 1..Len(rows) : m.map[i] = i
  BY EveryIs
<1>2. Contains(m.map, wished)
  BY <1>1 DEF Contains
<1>3. (CHOOSE i \in DOMAIN m.map : m.map[i] = wished) = wished
  BY <1>1
<1>4. Clamped(wished, m.map) = wished
  <2>1. ~(wished > Len(m.map)) /\ Len(m.map) # 0
    BY <1>1
  <2> QED
    BY <2>1 DEF Clamped
<1>5. SetSelectedLine(m, wished) = [m EXCEPT !.sel = wished]
  BY <1>2, <1>3, <1>4 DEF SetSelectedLine
<1> QED
  BY <1>5 DEF IsMenu, Fields

LEMMA SelectedIsAsked ==
  ASSUME NEW rows \in Seq(ScriptRows), NEW r, NEW wished \in Nat \ {0}, NEW sel, sel = wished,
         r.map = Every(rows), r.sel = Clamped(sel, r.map)
  PROVE  LineOf(r) = wished \/ wished > Len(r.map)
<1>1. /\ Len(r.map) = Len(rows) /\ Len(rows) \in Nat /\ DOMAIN r.map = 1..Len(rows)
      /\ \A i \in 1..Len(rows) : r.map[i] = i
  BY EveryIs
<1>2. CASE wished > Len(rows)
  BY <1>1, <1>2
<1>3. CASE ~(wished > Len(rows))
  <2>1. wished \in 1..Len(rows) /\ Len(rows) # 0
    BY <1>1, <1>3
  <2>2. Clamped(wished, r.map) = wished
    <3>1. ~(wished > Len(r.map)) /\ Len(r.map) # 0
      BY <1>1, <1>3, <2>1
    <3> QED
      BY <3>1 DEF Clamped
  <2> QED
    BY <1>1, <2>1, <2>2 DEF LineOf
<1> QED
  BY <1>2, <1>3

LEMMA ClosedMenuIs == IsMenu(ClosedMenu) /\ ~ClosedMenu.up /\ ClosedMenu.asked = 0
  BY DEF ClosedMenu, IsMenu, Fields

LEMMA MenuComes ==
  ASSUME NEW m, IsMenu(m), NEW shows
  PROVE  /\ IsMenu([m EXCEPT !.up = TRUE]) /\ [m EXCEPT !.up = TRUE].asked = m.asked
         /\ IsMenu([m EXCEPT !.up = TRUE, !.shows = shows])
         /\ [m EXCEPT !.up = TRUE, !.shows = shows].shows = shows
<1>1. IsMenu([m EXCEPT !.up = TRUE]) /\ [m EXCEPT !.up = TRUE].asked = m.asked
  BY DEF IsMenu, Fields
<1>2. /\ IsMenu([m EXCEPT !.up = TRUE, !.shows = shows])
      /\ [m EXCEPT !.up = TRUE, !.shows = shows].shows = shows
  BY DEF IsMenu, Fields
<1> QED
  BY <1>1, <1>2

(* A menu that asks for nothing and is what rows make it. *)
LEMMA RefilteredOf ==
  ASSUME NEW m, IsMenu(m), NEW rows
  PROVE  MenuOf([Refiltered(m, rows) EXCEPT !.asked = 0], rows)
<1> DEFINE r == Refiltered(m, rows)
           q == [r EXCEPT !.asked = 0]
<1>1. IsMenu(r) /\ StraightFor(r, rows)
  BY RefilteredIs
<1> HIDE DEF r
<1>2. IsMenu(q) /\ q.asked = 0 /\ q.filtered = r.filtered /\ q.map = r.map
  BY <1>1 DEF IsMenu, Fields
<1> HIDE DEF q
<1>3. MenuOf(q, rows)
  BY <1>1, <1>2 DEF MenuOf, AskedIsHit, StraightFor
<1> QED
  BY <1>3 DEF q, r

LEMMA RefilteredAt0 ==
  ASSUME NEW m, IsMenu(m), m.asked = 0, NEW rows
  PROVE  MenuOf(Refiltered(m, rows), rows)
<1> DEFINE r == Refiltered(m, rows)
<1>1. IsMenu(r) /\ StraightFor(r, rows) /\ r.asked = 0
  BY RefilteredIs
<1> HIDE DEF r
<1>2. MenuOf(r, rows)
  BY <1>1 DEF MenuOf, AskedIsHit
<1> QED
  BY <1>2 DEF r

LEMMA ReloadKeeps ==
  ASSUME ScriptIInv, menu.up, NEW s, Reload(s), Told(s), s.rows = script.rows,
         s.output = script.output, s.kind # "none", FromOneOutput(s), script.output # 0
  PROVE  ScriptIInv'
<1>1. IsMenu(menu)
  BY DEF ScriptIInv, MenuOf
<1>2. script' = s /\ menu' = [Refiltered(menu, s.rows) EXCEPT !.asked = 0]
  BY DEF Reload
<1>3. MenuOf([Refiltered(menu, s.rows) EXCEPT !.asked = 0], s.rows)
  BY <1>1, RefilteredOf
<1>4. MenuOf(menu', script'.rows)
  BY <1>2, <1>3
<1> QED
  BY <1>2, <1>4 DEF ScriptIInv

LEMMA EditTextKeeps == ASSUME ScriptIInv, EditText PROVE ScriptIInv'
<1> DEFINE m == [menu EXCEPT !.filtered = ~@]
<1>1. IsMenu(menu)
  BY DEF ScriptIInv, MenuOf
<1>2. IsMenu(m) /\ m.filtered = ~menu.filtered
  BY <1>1 DEF IsMenu, Fields
<1>3. script' = script /\ menu' = [Refiltered(m, script.rows) EXCEPT !.asked = 0] /\ menu.up
  BY DEF EditText, Showing
<1> HIDE DEF m
<1>4. MenuOf([Refiltered(m, script.rows) EXCEPT !.asked = 0], script.rows)
  BY <1>2, RefilteredOf
<1>5. MenuOf(menu', script'.rows)
  BY <1>3, <1>4
<1> QED
  BY <1>3, <1>5 DEF ScriptIInv

LEMMA MoveToKeeps == ASSUME ScriptIInv, MoveTo PROVE ScriptIInv'
<1>1. PICK i \in DOMAIN menu.map : menu' = [menu EXCEPT !.sel = i, !.asked = 0]
  BY Zenon DEF MoveTo
<1>2. script' = script /\ menu.up /\ menu.shows = "script"
  BY DEF MoveTo, Showing
<1>3. IsMenu(menu) /\ StraightFor(menu, script.rows)
  BY <1>2 DEF ScriptIInv, MenuOf
<1>4. IsMenu(menu') /\ menu'.asked = 0 /\ menu'.filtered = menu.filtered /\ menu'.map = menu.map
  BY <1>1, <1>3 DEF IsMenu, Fields
<1>5. MenuOf(menu', script'.rows)
  BY <1>2, <1>3, <1>4 DEF MenuOf, AskedIsHit, StraightFor
<1> QED
  BY <1>2, <1>5 DEF ScriptIInv

LEMMA ReturnKeeps == ASSUME ScriptIInv, ReturnToScript PROVE ScriptIInv'
<1>1. PICK filtered \in BOOLEAN, n \in 1..3 :
        menu' = Refiltered([ClosedMenu EXCEPT !.up = TRUE, !.filtered = filtered,
                                              !.sel = n], script.rows)
  BY Zenon DEF ReturnToScript
<1> DEFINE m == [ClosedMenu EXCEPT !.up = TRUE, !.filtered = filtered, !.sel = n]
<1>2. IsMenu(m) /\ m.asked = 0
  BY DEF ClosedMenu, IsMenu, Fields
<1>3. script' = script /\ menu.up /\ menu' = Refiltered(m, script.rows)
  BY <1>1 DEF ReturnToScript
<1> HIDE DEF m
<1>4. MenuOf(menu', script'.rows)
  BY <1>2, <1>3, RefilteredAt0
<1> QED
  BY <1>3, <1>4 DEF ScriptIInv

(* An output is taken: the line it asks for is selected where it is there. *)
LEMMA MenuTakes ==
  ASSUME NEW m, IsMenu(m), NEW old \in Seq(ScriptRows), StraightFor(m, old),
         NEW rows \in Seq(ScriptRows), NEW wished, ~m.filtered => wished \in Nat,
         NEW gone \in BOOLEAN, ~m.filtered => ~gone,
         NEW asked,
         asked = IF m.filtered \/ wished > Len(m.map) \/ wished = 0 THEN 0 ELSE wished
  PROVE  MenuOf([Refiltered([SetSelectedLine(m, wished) EXCEPT !.filtered = gone], rows)
                   EXCEPT !.asked = asked], rows)
<1> DEFINE a == SetSelectedLine(m, wished)
           b == [a EXCEPT !.filtered = gone]
           c == Refiltered(b, rows)
           d == [c EXCEPT !.asked = asked]
<1>1. IsMenu(a)
  BY DEF SetSelectedLine, IsMenu, Fields
<1>2. CASE asked = 0
  <2> HIDE DEF a
  <2>1. IsMenu(b)
    BY <1>1 DEF IsMenu, Fields
  <2> HIDE DEF b
  <2>2. MenuOf([Refiltered(b, rows) EXCEPT !.asked = 0], rows)
    BY <2>1, RefilteredOf
  <2>3. MenuOf(d, rows)
    BY <1>2, <2>2
  <2> QED
    BY <2>3 DEF a, b, d
<1>3. CASE asked # 0
  <2>1. ~m.filtered /\ wished \in Nat \ {0} /\ ~(wished > Len(m.map)) /\ asked = wished
    BY <1>3
  <2>2. m.map = Every(old) /\ Len(m.map) = Len(old) /\ Len(old) \in Nat
    BY <2>1, EveryIs DEF StraightFor
  <2>3. wished \in 1..Len(old)
    <3> DEFINE n == Len(old)
    <3>1. n \in Nat /\ ~(wished > n)
      BY <2>1, <2>2
    <3> HIDE DEF n
    <3>2. wished \in 1..n
      BY <2>1, <3>1
    <3> QED
      BY <3>2 DEF n
  <2>4. a.sel = wished
    BY <2>2, <2>3, LineFound
  <2> HIDE DEF a
  <2>5. IsMenu(b) /\ b.sel = wished /\ b.filtered = FALSE
    BY <1>1, <2>1, <2>4 DEF IsMenu, Fields
  <2> HIDE DEF b
  <2>6. /\ IsMenu(c) /\ c.map = Shown(rows, FALSE) /\ c.sel = Clamped(wished, c.map)
        /\ StraightFor(c, rows) /\ c.filtered = FALSE
    BY <2>5, RefilteredIs
  <2> HIDE DEF c
  <2>7. /\ IsMenu(d) /\ d.asked = wished /\ d.map = c.map /\ d.sel = c.sel
        /\ d.filtered = FALSE
    <3>1. asked \in Nat
      BY <2>1
    <3>2. /\ IsMenu(d) /\ d.asked = asked /\ d.map = c.map /\ d.sel = c.sel
          /\ d.filtered = c.filtered
      BY <2>6, <3>1 DEF IsMenu, Fields
    <3> QED
      BY <2>1, <2>6, <3>2
  <2>8. d.map = Every(rows) /\ d.sel = Clamped(wished, d.map)
    BY <2>6, <2>7 DEF Shown
  <2> HIDE DEF d
  <2>9. LineOf(d) = wished \/ wished > Len(d.map)
    BY <2>1, <2>8, SelectedIsAsked
  <2>10. MenuOf(d, rows)
    BY <2>7, <2>8, <2>9 DEF MenuOf, AskedIsHit, StraightFor
  <2> QED
    BY <2>10 DEF a, b, c, d
<1> QED
  BY <1>2, <1>3

LEMMA LineIs ==
  ASSUME ScriptIInv, Showing, ~menu.filtered
  PROVE  Line \in Nat
<1>1. script.rows \in Seq(ScriptRows) /\ menu.map = Every(script.rows)
  BY DEF ScriptIInv, MenuOf, StraightFor, Showing, Told, Scripts
<1>2. /\ DOMAIN menu.map = 1..Len(script.rows) /\ Len(script.rows) \in Nat
      /\ \A i \in 1..Len(script.rows) : menu.map[i] = i
  BY <1>1, EveryIs
<1> QED
  BY <1>2 DEF Line

LEMMA TakeKeeps ==
  ASSUME ScriptIInv, Showing, NEW s, Started(s), s.ranges = {}, NEW p, Produced(s, p),
         NEW line, ~menu.filtered => line \in Nat, Take(script, p, line)
  PROVE  ScriptIInv'
<1>1. /\ Told(p.s) /\ p.s.output # 0 /\ p.s.output \in Nat /\ p.s.kind # "none"
      /\ p.s.ranges \subseteq {p.s.output} /\ p.rows \in Seq(ScriptRows)
      /\ Failing(p.s) <=> p.rows = ErrorRows
  <2>1. s.output \in Nat
    BY DEF Started, Told, Scripts
  <2> QED
    BY <2>1 DEF Produced, Started
<1>2. p.s \in Scripts
  BY <1>1 DEF Told
<1>3. CASE p.s.switch
  <2> DEFINE r == [p.s EXCEPT !.switch = FALSE, !.discarded = TRUE]
             m == [ClosedMenu EXCEPT !.up = TRUE, !.shows = "other"]
  <2>1. script' = r /\ menu' = m
    BY <1>3 DEF Take
  <2>2. /\ r \in Scripts /\ r.discarded /\ r.output = p.s.output /\ r.kind = p.s.kind
        /\ r.message = p.s.message /\ r.quarantined = p.s.quarantined
        /\ r.messageIsError = p.s.messageIsError
    BY <1>2 DEF Scripts
  <2>3. IsMenu(m) /\ m.shows = "other"
    BY Zenon, ClosedMenuIs, MenuComes
  <2> HIDE DEF r, m
  <2>4. Told(r) /\ FromOneOutput(r)
    BY <1>1, <2>2 DEF Told, FromOneOutput, Failing
  <2>5. MenuOf(m, r.rows)
    BY <2>3 DEF MenuOf
  <2> QED
    BY <1>1, <2>1, <2>2, <2>4, <2>5 DEF ScriptIInv
<1>4. CASE ~p.s.switch /\ p.rows = <<>>
  <2>1. script' = p.s /\ menu' = ClosedMenu
    BY <1>4 DEF Take
  <2>2. MenuOf(ClosedMenu, p.s.rows)
    BY ClosedMenuIs DEF MenuOf
  <2> QED
    BY <1>1, <2>1, <2>2, ClosedMenuIs DEF ScriptIInv
<1>5. CASE ~p.s.switch /\ p.rows # <<>>
  <2> DEFINE r == [p.s EXCEPT !.rows = p.rows, !.of = p.s.output, !.refused = FALSE,
                              !.discarded = FALSE]
             next == IF p.s.newSelection >= 0 /\ p.s.newSelection < Len(p.rows)
                     THEN p.s.newSelection + 1 ELSE line
             wished == IF ~script.keepSelection THEN 1 ELSE next
             gone == IF script.keepFilter THEN menu.filtered ELSE FALSE
             asked == IF menu.filtered \/ wished > Len(menu.map) \/ wished = 0 THEN 0
                      ELSE wished
  <2>1. /\ script' = r
        /\ menu' = [Refiltered([SetSelectedLine(menu, wished) EXCEPT !.filtered = gone],
                               p.rows) EXCEPT !.asked = asked]
    BY <1>5 DEF Take
  <2>2. /\ r \in Scripts /\ r.rows = p.rows /\ r.of = p.s.output
        /\ r.discarded = FALSE /\ r.output = p.s.output /\ r.kind = p.s.kind
        /\ r.message = p.s.message /\ r.quarantined = p.s.quarantined
        /\ r.messageIsError = p.s.messageIsError /\ r.ranges = p.s.ranges
    BY <1>1, <1>2 DEF Scripts
  <2> HIDE DEF r
  <2>3. Told(r) /\ FromOneOutput(r)
    BY <1>1, <2>2 DEF Told, FromOneOutput, Failing
  <2>4. /\ IsMenu(menu) /\ StraightFor(menu, script.rows) /\ menu.filtered \in BOOLEAN
        /\ script.rows \in Seq(ScriptRows)
    BY DEF ScriptIInv, MenuOf, Showing, Told, Scripts, IsMenu
  <2>5. gone \in BOOLEAN /\ (~menu.filtered => ~gone)
    BY <2>4
  <2>6. ~menu.filtered => wished \in Nat
    <3>1. p.s.newSelection \in {-1} \cup Nat
      BY <1>2 DEF Scripts
    <3>2. ~menu.filtered => next \in Nat
      BY <3>1
    <3> HIDE DEF next
    <3> QED
      BY <3>2
  <2> HIDE DEF wished, gone
  <2>7. MenuOf(menu', p.rows)
    BY <1>1, <2>1, <2>4, <2>5, <2>6, MenuTakes
  <2> QED
    BY <1>1, <2>1, <2>2, <2>3, <2>7 DEF ScriptIInv
<1> QED
  BY <1>3, <1>4, <1>5

LEMMA ResetHighlightIs ==
  ASSUME ScriptIInv, Showing
  PROVE  LET s == ResetHighlight(script)
         IN /\ Started(s) /\ s.ranges = {} /\ s.rows = script.rows
            /\ s.output = script.output /\ s.discarded = script.discarded
            /\ (Failing(s) <=> Failing(script))
<1> DEFINE s == ResetHighlight(script)
<1>1. script \in Scripts /\ Told(script) /\ script.kind # "none"
  BY DEF ScriptIInv, Told, Showing
<1>2. /\ s \in Scripts /\ s.ranges = {} /\ s.rows = script.rows /\ s.kind = script.kind
      /\ s.output = script.output /\ s.discarded = script.discarded
      /\ s.message = script.message /\ s.quarantined = script.quarantined
      /\ s.messageIsError = script.messageIsError
  BY <1>1 DEF ResetHighlight, Scripts
<1> HIDE DEF s
<1>3. Started(s) /\ (Failing(s) <=> Failing(script))
  BY <1>1, <1>2 DEF Started, Told, Failing
<1> QED
  BY <1>2, <1>3 DEF s

LEMMA AnswerKeeps ==
  ASSUME ScriptIInv, Showing, NEW line, ~menu.filtered => line \in Nat,
         Answer(script, line)
  PROVE  ScriptIInv'
<1> DEFINE s == ResetHighlight(script)
<1>1. Started(s) /\ s.ranges = {} /\ s.kind = script.kind
  BY ResetHighlightIs DEF ResetHighlight, ScriptIInv, Told, Scripts
<1> HIDE DEF s
<1>2. PICK o \in Outputs, fails \in BOOLEAN :
        (fails => script.kind = "lua") /\ Take(script, Produce(s, o, fails), line)
  BY DEF Answer, s
<1>3. Produced(s, Produce(s, o, fails))
  BY <1>1, <1>2, ProduceDoes
<1> QED
  BY <1>1, <1>2, <1>3, TakeKeeps

LEMMA StartKeeps == ASSUME ScriptIInv, StartScript PROVE ScriptIInv'
<1>1. script = Unstarted /\ script \in Scripts
  BY DEF StartScript, ScriptIInv, Told
<1>2. PICK kind \in {"program", "lua"}, bad \in BOOLEAN, o \in Outputs, fails \in BOOLEAN :
        /\ bad \/ fails => kind = "lua"
        /\ LET p == Produce([script EXCEPT !.kind = kind, !.quarantined = bad,
                                          !.message = IF bad THEN "error" ELSE "none"],
                           o, fails)
           IN /\ script' = [p.s EXCEPT !.rows = p.rows, !.of = 1, !.switch = FALSE]
              /\ menu' = Refiltered([ClosedMenu EXCEPT !.up = TRUE], p.rows)
  BY Zenon DEF StartScript
<1> DEFINE message == IF bad THEN "error" ELSE "none"
           s == [script EXCEPT !.kind = kind, !.quarantined = bad, !.message = message]
           p == Produce(s, o, fails)
           r == [p.s EXCEPT !.rows = p.rows, !.of = 1, !.switch = FALSE]
           m == [ClosedMenu EXCEPT !.up = TRUE]
<1>3. script.messageIsError = FALSE /\ script.ranges = {} /\ script.output = 0
  BY <1>1 DEF Unstarted
<1>4. message \in {"none", "own", "error"}
  OBVIOUS
<1>5. /\ s \in Scripts /\ s.kind = kind /\ s.quarantined = bad /\ s.message = message
      /\ s.messageIsError = FALSE /\ s.ranges = {} /\ s.output = 0
  BY Zenon, <1>1, <1>3, <1>4 DEF Scripts
<1>6. script' = r /\ menu' = Refiltered(m, p.rows)
  BY <1>2
<1> HIDE DEF s
<1>7. Started(s)
  BY <1>2, <1>5 DEF Started, Told, Failing
<1>8. Produced(s, p)
  BY <1>2, <1>5, <1>7, ProduceDoes
<1> HIDE DEF p
<1>9. /\ p.s \in Scripts /\ Told(p.s) /\ p.s.output = 1 /\ p.s.kind = kind
      /\ p.s.ranges \subseteq {1} /\ p.rows \in Seq(ScriptRows)
      /\ Failing(p.s) <=> p.rows = ErrorRows
  BY <1>5, <1>8 DEF Produced, Told
<1>10. /\ r \in Scripts /\ r.rows = p.rows /\ r.of = 1 /\ r.output = 1 /\ r.kind = kind
       /\ r.message = p.s.message /\ r.quarantined = p.s.quarantined
       /\ r.messageIsError = p.s.messageIsError /\ r.ranges = p.s.ranges
  BY <1>9 DEF Scripts
<1> HIDE DEF r
<1>11. Told(r) /\ FromOneOutput(r)
  BY <1>9, <1>10 DEF Told, FromOneOutput, Failing
<1>12. IsMenu(m) /\ m.asked = 0
  BY Zenon, ClosedMenuIs, MenuComes
<1> HIDE DEF m
<1>13. MenuOf(menu', r.rows)
  BY <1>6, <1>10, <1>12, RefilteredAt0
<1> QED
  BY <1>6, <1>10, <1>11, <1>13 DEF ScriptIInv

LEMMA InteractionKeeps ==
  ASSUME ScriptIInv, ChooseEntry \/ DeleteEntry \/ EnterText \/ PressHotKey
  PROVE  ScriptIInv'
<1>1. Showing
  BY DEF ChooseEntry, DeleteEntry, EnterText, PressHotKey, Interacts
<1>2. CASE \E line \in {Line, 0} : Answer(script, line)
  <2>1. PICK line \in {Line, 0} : Answer(script, line)
    BY <1>2
  <2>2. ~menu.filtered => line \in Nat
    BY <1>1, LineIs
  <2> QED
    BY <1>1, <2>1, <2>2, AnswerKeeps
<1>3. script.output # 0
  BY <1>1 DEF ScriptIInv, Showing, Unstarted
<1>4. CASE Reload(script)
  BY <1>1, <1>3, <1>4, ReloadKeeps DEF ScriptIInv, Showing
<1>5. CASE Reload([ResetHighlight(script) EXCEPT !.refused = TRUE])
  <2> DEFINE s == ResetHighlight(script)
             r == [s EXCEPT !.refused = TRUE]
  <2>1. /\ Started(s) /\ s.ranges = {} /\ s.rows = script.rows
        /\ s.output = script.output /\ s.discarded = script.discarded
        /\ (Failing(s) <=> Failing(script))
    BY <1>1, ResetHighlightIs
  <2>2. s \in Scripts
    BY <2>1 DEF Started, Told
  <2> HIDE DEF s
  <2>3. /\ r \in Scripts /\ r.ranges = {} /\ r.rows = script.rows /\ r.kind = s.kind
        /\ r.output = script.output /\ r.discarded = script.discarded
        /\ r.message = s.message /\ r.quarantined = s.quarantined
        /\ r.messageIsError = s.messageIsError
    BY <2>1, <2>2 DEF Scripts
  <2> HIDE DEF r
  <2>4. Told(r) /\ r.kind # "none" /\ (Failing(r) <=> Failing(script))
    BY <2>1, <2>3 DEF Started, Told, Failing
  <2>5. FromOneOutput(script)
    BY <1>1 DEF ScriptIInv, Showing
  <2>6. FromOneOutput(r)
    BY <2>3, <2>4, <2>5 DEF FromOneOutput
  <2>7. Reload(r)
    BY <1>5 DEF r, s
  <2> QED
    BY <1>1, <1>3, <2>3, <2>4, <2>6, <2>7, ReloadKeeps DEF Showing
<1>6. CASE menu' = [ClosedMenu EXCEPT !.up = TRUE, !.shows = "other"] /\ UNCHANGED script
  <2>1. IsMenu(menu') /\ menu'.shows = "other"
    BY Zenon, <1>6, ClosedMenuIs, MenuComes
  <2>2. MenuOf(menu', script'.rows)
    BY <2>1 DEF MenuOf
  <2> QED
    BY <1>1, <1>6, <2>2 DEF ScriptIInv, Showing
<1> QED
  BY <1>2, <1>4, <1>5, <1>6 DEF ChooseEntry, DeleteEntry, EnterText, PressHotKey

LEMMA ScriptKept ==
  ASSUME ScriptIInv, [ScriptNext]_scriptVars PROVE ScriptIInv'
<1>1. CASE UNCHANGED scriptVars
  BY <1>1 DEF scriptVars, ScriptIInv
<1> QED
  BY <1>1, StartKeeps, EditTextKeeps, MoveToKeeps, InteractionKeeps, ReturnKeeps
     DEF ScriptNext

LEMMA ScriptStarts == ASSUME NEW on \in BOOLEAN, ScriptInit(on) PROVE ScriptIInv
<1> DEFINE n == IF on THEN 0 ELSE MaxInteractions
<1>1. script = [Unstarted EXCEPT !.output = n] /\ menu = ClosedMenu
  BY DEF ScriptInit
<1>2. n \in Nat
  BY InteractionsAssumption
<1> HIDE DEF n
<1>3. <<>> \in Seq(ScriptRows)
  BY EmptySeq
<1>4. /\ Unstarted \in Scripts /\ Unstarted.output = 0 /\ Unstarted.message = "none"
      /\ Unstarted.quarantined = FALSE /\ Unstarted.messageIsError = FALSE
  BY <1>3 DEF Unstarted, Scripts
<1>5. /\ script \in Scripts /\ script.output = n /\ script.message = "none"
      /\ script.quarantined = FALSE /\ script.messageIsError = FALSE
      /\ (n = 0 => script = Unstarted)
  BY <1>1, <1>2, <1>4 DEF Scripts
<1>6. Told(script)
  BY <1>5 DEF Told, Failing
<1>7. MenuOf(menu, script.rows) /\ ~menu.up
  BY <1>1, ClosedMenuIs DEF MenuOf
<1> QED
  BY <1>5, <1>6, <1>7 DEF ScriptIInv

--------------------------------------------------------------------------------
(* The deadline of a mode in Lua.  A thread that the hook has not seen late runs *)
(* what is left of its interval, one that it has suspended one instruction more; *)
(* what a thread has, and the one that is kept has, bounds what is run.          *)

Frames == {"lua", "protected", "pinned"}
Threads == [frames : Seq(Frames), every : 1..Sample,
            left : 1..Sample, skips : BOOLEAN]
Quiet(t) == t.skips => t.left = 1 /\ t.every = 1
Rest(t) == IF t.skips THEN 1 ELSE IF t.left > 1 THEN t.left ELSE 0
Reserve(t) == IF t.skips THEN 1 ELSE t.left

StackKept(ts, kept) ==
  /\ ts \in Seq(Threads) /\ Len(ts) <= MaxThreads
  /\ kept \in Threads /\ Quiet(kept)
  /\ \A i \in 1..Len(ts) :
       Quiet(ts[i]) /\ (ts[i].skips => i = Len(ts) /\ kept = NoThread)

Due(k) == Sample * k

(* Of the stack, those from some place up have nothing left, but for the top;  *)
(* those below have at most an interval each.                                  *)
Allotted(ts, kept, n, k) ==
  /\ \A i \in 1..Len(ts) : i > k /\ i < Len(ts) => Rest(ts[i]) = 0
  /\ n + Reserve(kept) + Rest(ts[Len(ts)]) + Due(k) <= Allowance
Held(ts, kept, n) == \E k \in 0..(Len(ts) - 1) : Allotted(ts, kept, n, k)

Supervised(ts, kept, n, overdue) ==
  /\ StackKept(ts, kept) /\ n \in Nat /\ n <= Allowance
  /\ overdue \/ n = 0
  /\ overdue /\ ts # <<>> => Held(ts, kept, n)
LuaIInv ==
  /\ Supervised(threads, spare, overrun, late) /\ late \in BOOLEAN
  /\ late /\ ~Running => outcome # "ok"

LEMMA LuaEnough == LuaIInv => StopsInTime
  BY DEF LuaIInv, Supervised, StopsInTime

(* The stack, its top replaced, taken off, or with one more. *)
LEMMA TopTaken ==
  ASSUME NEW ts \in Seq(Threads), ts # <<>>
  PROVE  /\ Front(ts) \in Seq(Threads) /\ Len(Front(ts)) = Len(ts) - 1
         /\ Len(ts) \in Nat \ {0}
         /\ \A i \in 1..(Len(ts) - 1) : Front(ts)[i] = ts[i]
<1>1. Len(ts) \in Nat \ {0}
  BY EmptySeq, LenProperties
<1> DEFINE n == Len(ts) - 1
<1>2. 1 \in Int /\ n \in Nat /\ \A i \in 1..n : ts[i] \in Threads
  BY <1>1, ElementOfSeq
<1>3. Front(ts) = SubSeq(ts, 1, n)
  BY DEF Front
<1> HIDE DEF n
<1>4. /\ SubSeq(ts, 1, n) \in Seq(Threads) /\ Len(SubSeq(ts, 1, n)) = n
      /\ \A i \in 1..n : SubSeq(ts, 1, n)[i] = ts[i]
  <2>1. /\ SubSeq(ts, 1, n) \in Seq(Threads)
        /\ Len(SubSeq(ts, 1, n)) = IF 1 <= n THEN n - 1 + 1 ELSE 0
        /\ \A i \in 1..(n - 1 + 1) : SubSeq(ts, 1, n)[i] = ts[1 + i - 1]
    BY <1>2, SubSeqProperties
  <2>2. n - 1 + 1 = n /\ \A i \in 1..n : 1 + i - 1 = i
    BY <1>2
  <2> QED
    BY <1>2, <2>1, <2>2
<1> USE DEF n
<1> QED
  BY <1>1, <1>3, <1>4

LEMMA TopReplaced ==
  ASSUME NEW ts \in Seq(Threads), ts # <<>>, NEW t \in Threads
  PROVE  /\ Append(Front(ts), t) \in Seq(Threads)
         /\ Len(Append(Front(ts), t)) = Len(ts) /\ Len(ts) \in Nat \ {0}
         /\ \A i \in 1..Len(ts) :
              Append(Front(ts), t)[i] = IF i = Len(ts) THEN t ELSE ts[i]
<1>1. Len(ts) \in Nat \ {0}
  BY EmptySeq, LenProperties
<1>2. /\ Front(ts) \in Seq(Threads) /\ Len(Front(ts)) = Len(ts) - 1
      /\ \A i \in 1..(Len(ts) - 1) : Front(ts)[i] = ts[i]
  BY TopTaken
<1> QED
  BY <1>1, <1>2, AppendProperties

LEMMA Sizes ==
  ASSUME NEW t \in Threads
  PROVE  /\ Rest(t) \in Nat /\ Reserve(t) \in Nat /\ Rest(t) <= Reserve(t)
         /\ Reserve(t) <= Sample /\ 1 <= Reserve(t) /\ Rest(t) <= Sample
  BY DeadlineAssumption DEF Threads, Rest, Reserve

LEMMA Intervals ==
  /\ Allowance \in Nat
  /\ \A k \in Nat : Due(k) \in Nat
  /\ \A k \in Nat : k > 0 => Due(k - 1) = Due(k) - Sample
  /\ \A k \in Nat : k <= MaxThreads - 1 => 2 * Sample + Due(k) <= Allowance
<1>1. Sample \in Nat /\ MaxThreads \in Nat
  BY DeadlineAssumption
<1>2. \A k \in Nat : k > 0 => Sample * (k - 1) = Sample * k - Sample
  BY <1>1
<1>3. \A k \in Nat : Sample * k \in Nat
  BY <1>1
<1>4. Sample * (MaxThreads + 1) \in Nat
  BY <1>1
<1>5. ASSUME NEW k \in Nat, k <= MaxThreads - 1
      PROVE  2 * Sample + Sample * k <= Sample * (MaxThreads + 1)
  <2>1. Sample * (k + 2) = 2 * Sample + Sample * k
    BY <1>1
  <2>2. k + 2 <= MaxThreads + 1
    BY <1>1, <1>5
  <2>3. Sample * (k + 2) <= Sample * (MaxThreads + 1)
    BY <1>1, <2>2
  <2> QED
    BY <2>1, <2>3
<1> QED
  BY <1>2, <1>3, <1>4, <1>5 DEF Allowance, Due

LEMMA HeldAtTop ==
  ASSUME NEW ts, NEW kept, StackKept(ts, kept), ts # <<>>, NEW n \in Nat, NEW m \in Nat,
         Held(ts, kept, n), NEW t \in Threads, m + Rest(t) <= n + Rest(ts[Len(ts)])
  PROVE  Held(Append(Front(ts), t), kept, m)
<1>1. ts \in Seq(Threads) /\ kept \in Threads
  BY DEF StackKept
<1> DEFINE new == Append(Front(ts), t)
<1>2. /\ Len(new) = Len(ts) /\ Len(ts) \in Nat \ {0}
      /\ \A i \in 1..Len(ts) : new[i] = IF i = Len(ts) THEN t ELSE ts[i]
  BY <1>1, TopReplaced
<1>3. PICK k \in 0..(Len(ts) - 1) : Allotted(ts, kept, n, k)
  BY DEF Held
<1>4. ts[Len(ts)] \in Threads
  BY <1>1, <1>2, ElementOfSeq
<1>5. /\ Rest(t) \in Nat /\ Rest(ts[Len(ts)]) \in Nat /\ Reserve(kept) \in Nat
      /\ k \in Nat /\ Due(k) \in Nat /\ Allowance \in Nat
  <2>1. Rest(t) \in Nat /\ Rest(ts[Len(ts)]) \in Nat /\ Reserve(kept) \in Nat
    BY <1>1, <1>4, Sizes
  <2>2. k \in Nat
    BY <1>2
  <2> QED
    BY <2>1, <2>2, Intervals
<1> HIDE DEF new
<1>6. m + Reserve(kept) + Rest(new[Len(new)]) + Due(k) <= Allowance
  BY <1>2, <1>3, <1>5 DEF Allotted
<1>7. \A i \in 1..Len(new) : i > k /\ i < Len(new) => Rest(new[i]) = 0
  BY <1>2, <1>3 DEF Allotted
<1>8. Held(new, kept, m)
  BY <1>2, <1>6, <1>7 DEF Held, Allotted
<1> QED
  BY <1>8 DEF new

LEMMA HeldBelow ==
  ASSUME NEW ts, NEW kept, StackKept(ts, kept), ts # <<>>, Len(ts) # 1,
         NEW n \in Nat, NEW m \in Nat, Held(ts, kept, n), NEW other \in Threads,
         m + Reserve(other) <= n + Reserve(kept) + Rest(ts[Len(ts)])
  PROVE  Held(Front(ts), other, m)
<1>1. ts \in Seq(Threads) /\ kept \in Threads
  BY DEF StackKept
<1> DEFINE new == Front(ts)
<1>2. /\ Len(new) = Len(ts) - 1 /\ Len(ts) \in Nat \ {0}
      /\ \A i \in 1..(Len(ts) - 1) : new[i] = ts[i]
  BY <1>1, TopTaken
<1>3. PICK k \in Nat : k <= Len(ts) - 1 /\ Allotted(ts, kept, n, k)
  BY <1>2 DEF Held
<1>4. ts[Len(ts)] \in Threads /\ ts[Len(ts) - 1] \in Threads
  BY <1>1, <1>2, ElementOfSeq
<1>5. /\ Rest(ts[Len(ts)]) \in Nat /\ Reserve(kept) \in Nat /\ Reserve(other) \in Nat
      /\ k \in Nat /\ Due(k) \in Nat /\ Allowance \in Nat /\ Sample \in Nat
      /\ Rest(ts[Len(ts) - 1]) \in Nat /\ Rest(ts[Len(ts) - 1]) <= Sample
  <2>1. /\ Rest(ts[Len(ts)]) \in Nat /\ Reserve(kept) \in Nat /\ Reserve(other) \in Nat
        /\ Rest(ts[Len(ts) - 1]) \in Nat /\ Rest(ts[Len(ts) - 1]) <= Sample
    BY <1>1, <1>4, Sizes
  <2>2. k \in Nat /\ Sample \in Nat
    BY <1>2, DeadlineAssumption
  <2> QED
    BY <2>1, <2>2, Intervals
<1> HIDE DEF new
<1>6. /\ new[Len(new)] = ts[Len(ts) - 1] /\ Len(new) \in Nat
      /\ Rest(new[Len(new)]) \in Nat /\ Rest(new[Len(new)]) <= Sample
      /\ n + Reserve(kept) + Rest(ts[Len(ts)]) + Due(k) <= Allowance
  <2>1. n + Reserve(kept) + Rest(ts[Len(ts)]) + Due(k) <= Allowance
    BY <1>3 DEF Allotted
  <2>2. new[Len(new)] = ts[Len(ts) - 1] /\ Len(new) \in Nat
    BY <1>2
  <2> QED
    BY <1>5, <2>1, <2>2
<1>7. ASSUME k = Len(ts) - 1 PROVE Held(new, other, m)
  <2>0. k > 0 /\ k \in Nat /\ k - 1 \in Nat
    BY <1>2, <1>7
  <2>1. Due(k - 1) = Due(k) - Sample /\ Due(k - 1) \in Nat
    BY <2>0, Intervals
  <2>2. m + Reserve(other) + Rest(new[Len(new)]) + Due(k - 1) <= Allowance
    <3> DEFINE r == Rest(new[Len(new)])
               d == Due(k - 1)
    <3>1. r \in Nat /\ r <= Sample /\ d \in Nat /\ d = Due(k) - Sample
      BY <1>6, <2>1
    <3> HIDE DEF r, d
    <3>2. m + Reserve(other) + Due(k) <= Allowance
      BY <1>5, <1>6
    <3>3. /\ Due(k) \in Nat /\ Sample \in Nat /\ Reserve(other) \in Nat
          /\ Allowance \in Nat
      BY <1>5
    <3>4. m + Reserve(other) + r + d <= Allowance
      BY <3>1, <3>2, <3>3
    <3> QED
      BY <3>4 DEF r, d
  <2>3. \A i \in 1..Len(new) : i > k - 1 /\ i < Len(new) => Rest(new[i]) = 0
    <3>1. Len(new) = k /\ k \in Nat
      BY <1>2, <1>7
    <3>2. \A i \in 1..k : ~(i > k - 1 /\ i < k)
      BY <3>1
    <3> QED
      BY <3>1, <3>2
  <2>4. k - 1 \in 0..(Len(new) - 1)
    BY <1>2, <1>7, <2>0
  <2> QED
    BY <2>2, <2>3, <2>4 DEF Held, Allotted
<1>8. ASSUME k # Len(ts) - 1 PROVE Held(new, other, m)
  <2>1. Rest(ts[Len(ts) - 1]) = 0
    BY <1>2, <1>3, <1>8 DEF Allotted
  <2>2. m + Reserve(other) + Rest(new[Len(new)]) + Due(k) <= Allowance
    BY <1>5, <1>6, <2>1
  <2>3. \A i \in 1..Len(new) : i > k /\ i < Len(new) => Rest(new[i]) = 0
    BY <1>2, <1>3 DEF Allotted
  <2>4. k \in 0..(Len(new) - 1)
    BY <1>2, <1>3, <1>8
  <2> QED
    BY <2>2, <2>3, <2>4 DEF Held, Allotted
<1> QED
  BY <1>7, <1>8 DEF new

LEMMA HeldAbove ==
  ASSUME NEW ts, NEW kept, StackKept(ts, kept), ts # <<>>, NEW n \in Nat, NEW m \in Nat,
         Held(ts, kept, n), NEW t \in Threads, NEW top \in Threads, NEW other \in Threads,
         Rest(t) = 0,
         m + Reserve(other) + Rest(top) <= n + Reserve(kept) + Rest(ts[Len(ts)])
  PROVE  Held(Append(Append(Front(ts), t), top), other, m)
<1>1. ts \in Seq(Threads) /\ kept \in Threads
  BY DEF StackKept
<1> DEFINE new == Append(Append(Front(ts), t), top)
<1>2. /\ Append(Front(ts), t) \in Seq(Threads)
      /\ Len(Append(Front(ts), t)) = Len(ts) /\ Len(ts) \in Nat \ {0}
      /\ \A i \in 1..Len(ts) :
           Append(Front(ts), t)[i] = IF i = Len(ts) THEN t ELSE ts[i]
  BY <1>1, TopReplaced
<1>3. /\ Len(new) = Len(ts) + 1 /\ new[Len(ts) + 1] = top
      /\ \A i \in 1..Len(ts) : new[i] = IF i = Len(ts) THEN t ELSE ts[i]
  BY <1>2, AppendProperties
<1>4. PICK k \in 0..(Len(ts) - 1) : Allotted(ts, kept, n, k)
  BY DEF Held
<1>5. ts[Len(ts)] \in Threads
  BY <1>1, <1>2, ElementOfSeq
<1>6. /\ Rest(top) \in Nat /\ Rest(ts[Len(ts)]) \in Nat /\ Reserve(kept) \in Nat
      /\ Reserve(other) \in Nat /\ k \in Nat /\ Due(k) \in Nat /\ Allowance \in Nat
  <2>1. /\ Rest(top) \in Nat /\ Rest(ts[Len(ts)]) \in Nat /\ Reserve(kept) \in Nat
        /\ Reserve(other) \in Nat
    BY <1>1, <1>5, Sizes
  <2>2. k \in Nat
    BY <1>2
  <2> QED
    BY <2>1, <2>2, Intervals
<1> HIDE DEF new
<1>7. m + Reserve(other) + Rest(new[Len(new)]) + Due(k) <= Allowance
  BY <1>3, <1>4, <1>6 DEF Allotted
<1>8. \A i \in 1..Len(new) : i > k /\ i < Len(new) => Rest(new[i]) = 0
  BY <1>2, <1>3, <1>4 DEF Allotted
<1>9. Held(new, other, m)
  BY <1>2, <1>3, <1>7, <1>8 DEF Held, Allotted
<1> QED
  BY <1>9 DEF new

LEMMA HeldWithin ==
  ASSUME NEW ts \in Seq(Threads), ts # <<>>, NEW kept \in Threads, NEW n \in Nat,
         Held(ts, kept, n)
  PROVE  n + Rest(ts[Len(ts)]) + 1 <= Allowance /\ Rest(ts[Len(ts)]) \in Nat
<1>1. Len(ts) \in Nat /\ ts[Len(ts)] \in Threads
  BY EmptySeq, LenProperties, ElementOfSeq
<1>2. PICK k \in Nat : n + Reserve(kept) + Rest(ts[Len(ts)]) + Due(k) <= Allowance
  BY <1>1 DEF Held, Allotted
<1> DEFINE r == Rest(ts[Len(ts)])
<1>3. r \in Nat /\ Reserve(kept) \in Nat /\ 1 <= Reserve(kept)
  BY <1>1, Sizes
<1>4. Due(k) \in Nat /\ Allowance \in Nat
  BY Intervals
<1> HIDE DEF r
<1>5. n + Reserve(kept) + r + Due(k) <= Allowance
  BY <1>2 DEF r
<1>6. n + r + 1 <= Allowance
  BY <1>3, <1>4, <1>5
<1> QED
  BY <1>3, <1>6 DEF r

(* What is done to the stack, under supervision or before it. *)
LEMMA TopChanges ==
  ASSUME NEW ts, NEW kept, NEW n, NEW overdue \in BOOLEAN, Supervised(ts, kept, n, overdue),
         ts # <<>>, NEW t \in Threads, ~t.skips, NEW m \in Nat, overdue \/ m = 0,
         overdue => m + Rest(t) <= n + Rest(ts[Len(ts)])
  PROVE  Supervised(Append(Front(ts), t), kept, m, overdue)
<1> DEFINE new == Append(Front(ts), t)
<1>1. ts \in Seq(Threads) /\ kept \in Threads /\ n \in Nat /\ StackKept(ts, kept)
  BY DEF Supervised, StackKept
<1>2. /\ new \in Seq(Threads) /\ Len(new) = Len(ts) /\ Len(ts) \in Nat \ {0}
      /\ \A i \in 1..Len(ts) : new[i] = IF i = Len(ts) THEN t ELSE ts[i]
  BY <1>1, TopReplaced
<1>3. overdue => Held(new, kept, m)
  BY <1>1, HeldAtTop DEF Supervised
<1> HIDE DEF new
<1>4. new # <<>>
  BY <1>2, EmptySeq
<1>5. StackKept(new, kept)
  BY <1>2 DEF Supervised, StackKept, Quiet
<1>6. m <= Allowance
  <2>1. CASE overdue
    <3>1. m + Rest(new[Len(new)]) + 1 <= Allowance /\ Rest(new[Len(new)]) \in Nat
      BY <1>1, <1>2, <1>3, <1>4, <2>1, HeldWithin
    <3> QED
      BY <3>1, Intervals
  <2> QED
    BY <2>1, Intervals
<1>7. Supervised(new, kept, m, overdue)
  BY <1>3, <1>5, <1>6 DEF Supervised
<1> QED
  BY <1>7 DEF new

LEMMA TopGoes ==
  ASSUME NEW ts, NEW kept, NEW n, NEW overdue \in BOOLEAN, Supervised(ts, kept, n, overdue),
         ts # <<>>, Len(ts) # 1, NEW other \in Threads, Quiet(other),
         NEW m \in Nat, overdue \/ m = 0,
         overdue => m + Reserve(other) <= n + Reserve(kept) + Rest(ts[Len(ts)])
  PROVE  Supervised(Front(ts), other, m, overdue)
<1> DEFINE new == Front(ts)
<1>1. ts \in Seq(Threads) /\ kept \in Threads /\ n \in Nat /\ StackKept(ts, kept)
  BY DEF Supervised, StackKept
<1>2. /\ new \in Seq(Threads) /\ Len(new) = Len(ts) - 1 /\ Len(ts) \in Nat \ {0}
      /\ \A i \in 1..(Len(ts) - 1) : new[i] = ts[i]
  BY <1>1, TopTaken
<1>3. overdue => Held(new, other, m)
  BY <1>1, HeldBelow DEF Supervised
<1> HIDE DEF new
<1>4. new # <<>>
  BY <1>2, EmptySeq
<1>5. StackKept(new, other)
  BY <1>2, DeadlineAssumption DEF Supervised, StackKept, Quiet
<1>6. m <= Allowance
  <2>1. CASE overdue
    <3>1. m + Rest(new[Len(new)]) + 1 <= Allowance /\ Rest(new[Len(new)]) \in Nat
      BY <1>2, <1>3, <1>4, <2>1, HeldWithin
    <3> QED
      BY <3>1, Intervals
  <2> QED
    BY <2>1, Intervals
<1>7. Supervised(new, other, m, overdue)
  BY <1>3, <1>5, <1>6 DEF Supervised
<1> QED
  BY <1>7 DEF new

LEMMA TopComes ==
  ASSUME NEW ts, NEW kept, NEW n, NEW overdue \in BOOLEAN, Supervised(ts, kept, n, overdue),
         ts # <<>>, Len(ts) < MaxThreads,
         NEW t \in Threads, NEW top \in Threads, NEW other \in Threads,
         ~t.skips, Quiet(top), Quiet(other), top.skips => other = NoThread,
         NEW m \in Nat, overdue \/ m = 0,
         overdue => /\ Rest(t) = 0
                   /\ m + Reserve(other) + Rest(top)
                        <= n + Reserve(kept) + Rest(ts[Len(ts)])
  PROVE  Supervised(Append(Append(Front(ts), t), top), other, m, overdue)
<1> DEFINE below == Append(Front(ts), t)
           new == Append(below, top)
<1>1. ts \in Seq(Threads) /\ kept \in Threads /\ n \in Nat /\ StackKept(ts, kept)
  BY DEF Supervised, StackKept
<1>2. /\ below \in Seq(Threads) /\ Len(below) = Len(ts) /\ Len(ts) \in Nat \ {0}
      /\ \A i \in 1..Len(ts) : below[i] = IF i = Len(ts) THEN t ELSE ts[i]
  BY <1>1, TopReplaced
<1>3. overdue => Held(new, other, m)
  BY <1>1, HeldAbove DEF Supervised
<1> HIDE DEF below
<1>4. /\ new \in Seq(Threads) /\ Len(new) = Len(ts) + 1 /\ new[Len(ts) + 1] = top
      /\ \A i \in 1..Len(ts) : new[i] = below[i]
  BY <1>2, AppendProperties
<1> HIDE DEF new
<1>5. new # <<>>
  BY <1>2, <1>4, EmptySeq
<1>6. StackKept(new, other)
  <2>1. ASSUME NEW i \in 1..Len(new)
        PROVE  Quiet(new[i]) /\ (new[i].skips => i = Len(new) /\ other = NoThread)
    <3>1. CASE i = Len(new)
      BY <1>2, <1>4, <3>1
    <3>2. CASE i # Len(new)
      <4>1. i \in 1..Len(ts) /\ new[i] = IF i = Len(ts) THEN t ELSE ts[i]
        BY <1>2, <1>4, <3>2
      <4> QED
        BY <1>1, <4>1 DEF StackKept, Quiet
    <3> QED
      BY <3>1, <3>2
  <2>2. Len(new) <= MaxThreads
    BY <1>2, <1>4, DeadlineAssumption
  <2> QED
    BY <1>4, <2>1, <2>2 DEF StackKept
<1>7. m <= Allowance
  <2>1. CASE overdue
    <3>1. m + Rest(new[Len(new)]) + 1 <= Allowance /\ Rest(new[Len(new)]) \in Nat
      BY <1>3, <1>4, <1>5, <2>1, HeldWithin
    <3> QED
      BY <3>1, Intervals
  <2> QED
    BY <2>1, Intervals
<1>8. Supervised(new, other, m, overdue)
  BY <1>3, <1>6, <1>7 DEF Supervised
<1> QED
  BY <1>8 DEF new, below

LEMMA StackEnds ==
  ASSUME NEW ts, NEW kept, NEW n, NEW overdue \in BOOLEAN, Supervised(ts, kept, n, overdue),
         ts # <<>>, NEW m \in Nat, overdue \/ m = 0,
         overdue => m <= n + Rest(ts[Len(ts)])
  PROVE  Supervised(<<>>, kept, m, overdue)
<1>1. ts \in Seq(Threads) /\ kept \in Threads /\ n \in Nat /\ Quiet(kept)
  BY DEF Supervised, StackKept
<1>2. Len(<<>>) = 0 /\ <<>> \in Seq(Threads)
  BY EmptySeq
<1>3. StackKept(<<>>, kept)
  BY <1>1, <1>2, DeadlineAssumption DEF StackKept
<1>4. m <= Allowance
  <2>1. CASE overdue
    <3> DEFINE r == Rest(ts[Len(ts)])
    <3>1. n + r + 1 <= Allowance /\ r \in Nat /\ Allowance \in Nat
      BY <1>1, <2>1, HeldWithin, Intervals DEF Supervised
    <3>2. m <= n + r
      BY <2>1
    <3> HIDE DEF r
    <3> QED
      BY <1>1, <3>1, <3>2
  <2> QED
    BY <2>1, Intervals
<1> QED
  BY <1>3, <1>4 DEF Supervised

(* What is done to a thread. *)
LEMMA NoThreadIs == NoThread \in Threads /\ Quiet(NoThread) /\ Reserve(NoThread) = 1
<1>1. <<>> \in Seq(Frames)
  BY EmptySeq
<1> QED
  BY <1>1, DeadlineAssumption DEF NoThread, Threads, Quiet, Reserve

LEMMA NewThreadIs ==
  ASSUME NEW every \in 1..Sample
  PROVE  NewThread(every) \in Threads /\ ~NewThread(every).skips
<1>1. <<"lua">> \in Seq(Frames)
  BY DEF Frames
<1> QED
  BY <1>1, DeadlineAssumption DEF NewThread, Threads

LEMMA NoticedIs ==
  ASSUME NEW t \in Threads, ~t.skips, NEW x \in BOOLEAN
  PROVE  /\ Noticed(t, x) \in Threads /\ ~Noticed(t, x).skips
         /\ x => Rest(Noticed(t, x)) = 0 /\ Reserve(Noticed(t, x)) = 1
<1> DEFINE r == [t EXCEPT !.every = 1, !.left = 1]
<1>1. 1 \in 1..Sample
  BY DeadlineAssumption
<1>2. r \in Threads /\ ~r.skips /\ r.left = 1
  BY <1>1 DEF Threads
<1>3. Rest(r) = 0 /\ Reserve(r) = 1
  BY <1>2 DEF Rest, Reserve
<1>4. Noticed(t, x) = IF x THEN r ELSE t
  BY DEF Noticed
<1> HIDE DEF r
<1> QED
  BY <1>2, <1>3, <1>4

LEMMA Framed ==
  ASSUME NEW t \in Threads, ~t.skips, NEW f \in Seq(Frames)
  PROVE  /\ [t EXCEPT !.frames = f] \in Threads /\ ~[t EXCEPT !.frames = f].skips
         /\ Rest([t EXCEPT !.frames = f]) = Rest(t)
  BY DEF Threads, Rest

(* The frames that an error leaves: those below the highest protected one. *)
LEMMA Highest ==
  ASSUME NEW n \in Nat, NEW I \in SUBSET (1..n), I # {}
  PROVE  \E x \in I : \A y \in I : y <= x
<1> DEFINE J == {n - i : i \in I}
<1>1. J \in SUBSET Nat /\ J # {}
  <2>1. \A i \in I : n - i \in Nat
    OBVIOUS
  <2> QED
    BY <2>1
<1>2. PICK z \in J : \A y \in J : z <= y
  BY <1>1, Smallest
<1>3. PICK x \in I : z = n - x
  BY <1>2
<1>4. \A y \in I : n - x <= n - y
  BY <1>2, <1>3
<1>5. \A y \in I : y <= x
  BY <1>4
<1> QED
  BY <1>5

LEMMA FramesLeft ==
  ASSUME NEW f \in Seq(Frames), NEW n \in 1..Len(f)
  PROVE  SubSeq(f, 1, n - 1) \in Seq(Frames)
<1>1. Len(f) \in Nat
  BY LenProperties
<1>2. 1 \in Int /\ n - 1 \in Int /\ \A i \in 1..(n - 1) : f[i] \in Frames
  BY <1>1, ElementOfSeq
<1> DEFINE m == n - 1
<1> HIDE DEF m
<1>3. 1 \in Int /\ m \in Int /\ \A i \in 1..m : f[i] \in Frames
  BY <1>2 DEF m
<1>4. SubSeq(f, 1, m) \in Seq(Frames)
  BY <1>3, SubSeqProperties
<1> QED
  BY <1>4 DEF m

(* The thread that runs, and it after an instruction, before what that does. *)
Stepped(c) ==
  [c EXCEPT !.left = IF @ > 1 THEN @ - 1 ELSE c.every, !.skips = FALSE]

LEMMA TopThreadIs ==
  ASSUME LuaIInv, Running
  PROVE  LET c == CurrentThread
         IN /\ c = threads[Len(threads)] /\ c \in Threads /\ Quiet(c)
            /\ c.skips => spare = NoThread
<1>1. threads \in Seq(Threads) /\ threads # <<>>
  BY DEF LuaIInv, Supervised, StackKept, Running
<1>2. Len(threads) \in Nat \ {0} /\ threads[Len(threads)] \in Threads
  BY <1>1, EmptySeq, LenProperties, ElementOfSeq
<1>3. Len(threads) \in 1..Len(threads) /\ CurrentThread = threads[Len(threads)]
  BY <1>2 DEF CurrentThread, Last
<1> QED
  BY <1>2, <1>3 DEF LuaIInv, Supervised, StackKept

LEMMA SteppedOn ==
  ASSUME NEW c \in Threads
  PROVE  /\ Stepped(c) \in Threads /\ ~Stepped(c).skips
         /\ Stepped(c).left = IF c.left > 1 THEN c.left - 1 ELSE c.every
<1> DEFINE l == IF c.left > 1 THEN c.left - 1 ELSE c.every
<1>1. l \in 1..Sample
  <2>1. c.left \in 1..Sample /\ c.every \in 1..Sample
    BY DEF Threads
  <2> QED
    BY <2>1, DeadlineAssumption
<1>2. Stepped(c) = [c EXCEPT !.left = l, !.skips = FALSE]
  BY DEF Stepped
<1> HIDE DEF l
<1>3. Stepped(c) \in Threads /\ ~Stepped(c).skips /\ Stepped(c).left = l
  BY <1>1, <1>2 DEF Threads
<1> QED
  BY <1>3 DEF l

LEMMA SteppedIs ==
  ASSUME NEW c \in Threads, Quiet(c), c.left > 1 \/ c.skips
  PROVE  /\ Rest(Stepped(c)) + 1 <= Rest(c) /\ Rest(c) \in Nat /\ Rest(Stepped(c)) \in Nat
         /\ ~c.skips => 2 <= Rest(c)
<1>1. c.left \in Nat /\ c.skips \in BOOLEAN
  BY DEF Threads
<1>2. ~Stepped(c).skips /\ Stepped(c).left = IF c.left > 1 THEN c.left - 1 ELSE c.every
  BY SteppedOn
<1>3. CASE c.skips
  BY <1>1, <1>2, <1>3 DEF Quiet, Rest
<1>4. CASE ~c.skips
  BY <1>1, <1>2, <1>4 DEF Rest
<1> QED
  BY <1>3, <1>4

(* The steps, from what each does to the stack. *)
LEMMA StillSupervised ==
  ASSUME LuaIInv, late' = late, Supervised(threads', spare', overrun', late),
         threads' = <<>> => outcome' # "ok" \/ ~late
  PROVE  LuaIInv'
  BY DEF LuaIInv, Running

LEMMA CallEnds ==
  ASSUME LuaIInv, Running, late' = late, UNCHANGED spare, NEW status, EndCall(status),
         overrun' \in Nat, late \/ overrun' = 0,
         late => overrun' <= overrun + Rest(CurrentThread)
  PROVE  LuaIInv'
<1>1. late \in BOOLEAN /\ Supervised(threads, spare, overrun, late) /\ threads # <<>>
  BY DEF LuaIInv, Running
<1>2. CurrentThread = threads[Len(threads)]
  BY TopThreadIs
<1>3. Supervised(<<>>, spare, overrun', late)
  BY <1>1, <1>2, StackEnds
<1>4. threads' = <<>> /\ (outcome' # "ok" \/ ~late)
  BY DEF EndCall
<1> QED
  BY <1>3, <1>4, StillSupervised

LEMMA SuspendKeeps ==
  ASSUME LuaIInv, Running, late' = late, NEW t \in Threads, Quiet(t), NEW status,
         IF Len(threads) = 1 THEN EndCall(status) /\ UNCHANGED spare
         ELSE threads' = Front(threads) /\ spare' \in {spare, t},
         overrun' \in Nat, late \/ overrun' = 0,
         late => overrun' <= overrun + Rest(CurrentThread) /\ Reserve(t) = 1
  PROVE  LuaIInv'
<1>1. /\ late \in BOOLEAN /\ Supervised(threads, spare, overrun, late) /\ threads # <<>>
      /\ spare \in Threads /\ Quiet(spare) /\ overrun \in Nat /\ threads \in Seq(Threads)
  BY DEF LuaIInv, Running, Supervised, StackKept
<1>2. CurrentThread = threads[Len(threads)] /\ CurrentThread \in Threads
  BY TopThreadIs
<1>3. CASE Len(threads) = 1
  BY <1>3, CallEnds
<1>4. CASE Len(threads) # 1
  <2>1. threads' = Front(threads) /\ spare' \in {spare, t}
    BY <1>4
  <2>2. late => overrun' + Reserve(spare') <= overrun + Reserve(spare) + Rest(CurrentThread)
    <3>1. /\ Reserve(spare) \in Nat /\ 1 <= Reserve(spare)
          /\ Rest(CurrentThread) \in Nat
      BY <1>1, <1>2, Sizes
    <3>2. CASE spare' = spare
      BY <1>1, <3>1, <3>2
    <3>3. CASE spare' = t
      BY <1>1, <3>1, <3>3
    <3> QED
      BY <2>1, <3>2, <3>3
  <2>3. spare' \in Threads /\ Quiet(spare')
    BY <1>1, <2>1
  <2>4. Supervised(Front(threads), spare', overrun', late)
    BY <1>1, <1>2, <1>4, <2>2, <2>3, TopGoes
  <2>5. threads' # <<>>
    <3>1. Len(Front(threads)) = Len(threads) - 1 /\ Len(threads) \in Nat \ {0}
      BY <1>1, TopTaken
    <3>2. Len(Front(threads)) # 0
      BY <1>4, <3>1
    <3> QED
      BY <2>1, <3>2, EmptySeq
  <2> QED
    BY <2>1, <2>4, <2>5, StillSupervised
<1> QED
  BY <1>3, <1>4

(* The top goes and nothing is kept: it returned, or died of an error. *)
LEMMA TopLeaves ==
  ASSUME LuaIInv, Running, late' = late, UNCHANGED <<spare, outcome>>, Len(threads) > 1,
         threads' = Front(threads), overrun' \in Nat, late \/ overrun' = 0,
         late => overrun' <= overrun + Rest(CurrentThread)
  PROVE  LuaIInv'
<1>1. /\ late \in BOOLEAN /\ Supervised(threads, spare, overrun, late) /\ threads # <<>>
      /\ spare \in Threads /\ Quiet(spare) /\ overrun \in Nat /\ threads \in Seq(Threads)
  BY DEF LuaIInv, Running, Supervised, StackKept
<1>2. CurrentThread = threads[Len(threads)] /\ CurrentThread \in Threads
  BY TopThreadIs
<1>3. late => overrun' + Reserve(spare) <= overrun + Reserve(spare) + Rest(CurrentThread)
  <2>1. Reserve(spare) \in Nat /\ Rest(CurrentThread) \in Nat
    BY <1>1, <1>2, Sizes
  <2> QED
    BY <1>1, <2>1
<1>4. Len(threads) # 1
  <2>1. ASSUME NEW n \in Nat, n > 1 PROVE n # 1
    BY <2>1
  <2>2. Len(threads) \in Nat
    BY <1>1, LenProperties
  <2> QED
    BY <2>1, <2>2, Zenon
<1>5. Supervised(Front(threads), spare, overrun', late)
  BY <1>1, <1>2, <1>3, <1>4, TopGoes
<1>6. threads' # <<>>
  <2>1. Len(Front(threads)) = Len(threads) - 1 /\ Len(threads) \in Nat \ {0}
    BY <1>1, TopTaken
  <2>2. Len(Front(threads)) # 0
    BY <1>4, <2>1
  <2> QED
    BY <2>2, EmptySeq
<1> QED
  BY <1>5, <1>6, StillSupervised

(* The top goes on, its frames and its hook changed. *)
LEMMA TopStays ==
  ASSUME LuaIInv, Running, late' = late, UNCHANGED spare, NEW t \in Threads, ~t.skips,
         threads' = WithCurrent(t), overrun' \in Nat, late \/ overrun' = 0,
         late => overrun' + Rest(t) <= overrun + Rest(CurrentThread)
  PROVE  LuaIInv'
<1>1. /\ late \in BOOLEAN /\ Supervised(threads, spare, overrun, late) /\ threads # <<>>
      /\ threads \in Seq(Threads)
  BY DEF LuaIInv, Running, Supervised, StackKept
<1>2. CurrentThread = threads[Len(threads)]
  BY TopThreadIs
<1>3. Supervised(Append(Front(threads), t), spare, overrun', late)
  BY <1>1, <1>2, TopChanges
<1>4. threads' # <<>>
  <2>1. Len(Append(Front(threads), t)) = Len(threads) /\ Len(threads) \in Nat \ {0}
    BY <1>1, TopReplaced
  <2> QED
    BY <2>1, EmptySeq DEF WithCurrent
<1> QED
  BY <1>3, <1>4, StillSupervised DEF WithCurrent

LEMMA RaiseKeeps ==
  ASSUME LuaIInv, Running, late' = late, NEW t \in Threads, ~t.skips, Raise(t),
         overrun' \in Nat, late \/ overrun' = 0,
         late => overrun' + Rest(t) <= overrun + Rest(CurrentThread)
  PROVE  LuaIInv'
<1> DEFINE caught == {i \in DOMAIN t.frames : t.frames[i] = "protected"}
           nearest == CHOOSE i \in caught : \A j \in caught : j <= i
           left == SubSeq(t.frames, 1, nearest - 1)
<1>1. late => overrun' <= overrun + Rest(CurrentThread)
  <2>1. Rest(t) \in Nat /\ Rest(CurrentThread) \in Nat /\ overrun \in Nat
    BY TopThreadIs, Sizes DEF LuaIInv, Supervised
  <2> QED
    BY <2>1
<1>2. CASE caught # {}
  <2>1. t.frames \in Seq(Frames) /\ Len(t.frames) \in Nat
    BY LenProperties DEF Threads
  <2>2. caught \in SUBSET (1..Len(t.frames)) /\ DOMAIN t.frames = 1..Len(t.frames)
    BY <2>1, LenProperties
  <2>3. \E i \in caught : \A j \in caught : j <= i
    BY <1>2, <2>1, <2>2, Highest
  <2>4. nearest \in 1..Len(t.frames)
    BY <2>2, <2>3
  <2> HIDE DEF nearest
  <2>5. left \in Seq(Frames)
    BY <2>1, <2>4, FramesLeft
  <2>6. /\ [t EXCEPT !.frames = left] \in Threads /\ ~[t EXCEPT !.frames = left].skips
        /\ Rest([t EXCEPT !.frames = left]) = Rest(t)
    BY <2>5, Framed
  <2>7. threads' = WithCurrent([t EXCEPT !.frames = left]) /\ UNCHANGED spare
    BY <1>2 DEF Raise, nearest
  <2> QED
    BY <2>6, <2>7, TopStays
<1>3. CASE caught = {} /\ Len(threads) > 1
  <2>1. threads' = Front(threads) /\ UNCHANGED <<spare, outcome>>
    BY <1>3 DEF Raise
  <2> QED
    BY <1>1, <1>3, <2>1, TopLeaves
<1>4. CASE caught = {} /\ ~(Len(threads) > 1)
  <2>1. EndCall("error") /\ UNCHANGED spare
    BY <1>4 DEF Raise
  <2> QED
    BY <1>1, <2>1, CallEnds
<1> QED
  BY <1>2, <1>3, <1>4

LEMMA InterruptKeeps == ASSUME LuaIInv, Interrupt PROVE LuaIInv'
<1> DEFINE c == CurrentThread
           t == Noticed([c EXCEPT !.left = @ + c.every - 1], TRUE)
           u == [t EXCEPT !.skips = TRUE]
<1>0. /\ Running /\ late /\ ~(c.left > 1) /\ ~c.skips /\ late' = late
      /\ overrun' = overrun
      /\ IF Yieldable(t) THEN Suspend(u, TRUE) ELSE Raise(t)
  BY DEF Interrupt, Unwatched
<1>2. c \in Threads
  BY <1>0, TopThreadIs
<1>1. c.left = 1
  <2>1. c.left \in 1..Sample
    BY <1>2 DEF Threads
  <2> QED
    BY <1>0, <2>1, DeadlineAssumption
<1>3. t \in Threads /\ ~t.skips /\ t.left = 1 /\ t.every = 1
  <2>1. 1 \in 1..Sample
    BY DeadlineAssumption
  <2> QED
    BY <1>0, <1>1, <1>2, <2>1 DEF Noticed, Threads
<1> HIDE DEF t
<1>4. u \in Threads /\ Quiet(u) /\ Reserve(u) = 1 /\ Rest(t) = 0 /\ Rest(c) = 0
  <2>1. u \in Threads /\ u.skips /\ u.left = 1 /\ u.every = 1
    BY <1>3 DEF Threads
  <2> HIDE DEF u
  <2>2. Quiet(u) /\ Reserve(u) = 1
    BY <2>1 DEF Quiet, Reserve
  <2>3. Rest(t) = 0 /\ Rest(c) = 0
    BY <1>0, <1>1, <1>3 DEF Rest
  <2> QED
    BY <2>1, <2>2, <2>3
<1>5. overrun \in Nat
  BY DEF LuaIInv, Supervised
<1> HIDE DEF u
<1>6. CASE Yieldable(t)
  <2>1. Suspend(u, TRUE)
    BY <1>0, <1>6
  <2>2. IF Len(threads) = 1 THEN EndCall("deadline") /\ UNCHANGED spare
        ELSE threads' = Front(threads) /\ spare' \in {spare, u}
    BY <2>1 DEF Suspend
  <2> QED
    BY <1>0, <1>4, <1>5, <2>2, SuspendKeeps
<1>7. CASE ~Yieldable(t)
  BY <1>0, <1>3, <1>4, <1>5, <1>7, RaiseKeeps
<1> QED
  BY <1>6, <1>7

LEMMA InstructionKeeps == ASSUME LuaIInv, Instruction PROVE LuaIInv'
<1> DEFINE c == CurrentThread
           t == Stepped(c)
<1>1. /\ Running
      /\ c.left > 1 \/ c.skips \/ ~late
      /\ overrun' = IF late /\ overrun <= Allowance THEN overrun + 1 ELSE overrun
      /\ late' = late
      /\ \/ Loop(t)
         \/ \E how \in {"lua", "protected", "pinned"} : Enter(t, how)
         \/ Return(t) \/ Create(t) \/ ResumeKept(t) \/ Yield(t) \/ Raise(t)
  BY DEF Instruction, Stepped, Unwatched
<1>2. /\ late \in BOOLEAN /\ Supervised(threads, spare, overrun, late) /\ threads # <<>>
      /\ spare \in Threads /\ Quiet(spare) /\ threads \in Seq(Threads)
      /\ overrun \in Nat /\ overrun <= Allowance /\ (late \/ overrun = 0)
  BY <1>1 DEF LuaIInv, Running, Supervised, StackKept
<1>3. /\ c = threads[Len(threads)] /\ c \in Threads /\ Quiet(c)
      /\ c.skips => spare = NoThread
  BY <1>1, TopThreadIs
<1>4. t \in Threads /\ ~t.skips
  BY <1>3, SteppedOn
<1>5. late => /\ Rest(t) + 1 <= Rest(c) /\ Rest(c) \in Nat /\ Rest(t) \in Nat
              /\ ~c.skips => 2 <= Rest(c)
  BY <1>1, <1>3, SteppedIs
<1> HIDE DEF t
<1>6. overrun' \in Nat /\ (late \/ overrun' = 0)
  BY <1>1, <1>2
<1>7. late => overrun' + Rest(t) <= overrun + Rest(c) /\ overrun' = overrun + 1
  BY <1>1, <1>2, <1>5
<1>8. late => overrun' <= overrun + Rest(c)
  BY <1>2, <1>5, <1>7
<1>9. LET u == Noticed(t, late)
      IN /\ u \in Threads /\ ~u.skips
         /\ late => Rest(u) = 0 /\ Reserve(u) = 1
  BY <1>2, <1>4, NoticedIs
<1>10. CASE Loop(t)
  BY <1>1, <1>4, <1>6, <1>7, <1>10, TopStays DEF Loop
<1>11. ASSUME NEW f \in Seq(Frames),
              threads' = WithCurrent(Noticed([t EXCEPT !.frames = f], late)),
              UNCHANGED spare
       PROVE  LuaIInv'
  <2> DEFINE g == [t EXCEPT !.frames = f]
  <2>1. g \in Threads /\ ~g.skips
    BY <1>4, Framed
  <2> HIDE DEF g
  <2> DEFINE u == Noticed(g, late)
  <2>2. u \in Threads /\ ~u.skips /\ (late => Rest(u) = 0)
    BY <1>2, <2>1, NoticedIs
  <2>3. threads' = WithCurrent(u)
    BY <1>11 DEF g
  <2> HIDE DEF u
  <2>4. late => overrun' + Rest(u) <= overrun + Rest(c)
    BY <1>6, <1>8, <2>2
  <2> QED
    BY <1>1, <1>6, <1>11, <2>2, <2>3, <2>4, TopStays
<1>12. ASSUME NEW how \in {"lua", "protected", "pinned"}, Enter(t, how) PROVE LuaIInv'
  <2>1. Append(t.frames, how) \in Seq(Frames)
    BY <1>4, AppendProperties DEF Threads, Frames
  <2> QED
    BY <1>11, <1>12, <2>1 DEF Enter
<1>13. CASE Return(t)
  <2>1. t.frames \in Seq(Frames) /\ Len(t.frames) \in Nat
    BY <1>4, LenProperties DEF Threads
  <2>2. CASE Len(t.frames) > 1
    <3>1. Front(t.frames) \in Seq(Frames)
      <4>1. Len(t.frames) \in 1..Len(t.frames)
        BY <2>1, <2>2
      <4> QED
        BY <2>1, <4>1, FramesLeft DEF Front
    <3> QED
      BY <1>11, <1>13, <2>2, <3>1 DEF Return
  <2>3. CASE ~(Len(t.frames) > 1) /\ Len(threads) > 1
    BY <1>1, <1>6, <1>8, <1>13, <2>3, TopLeaves DEF Return
  <2>4. CASE ~(Len(t.frames) > 1) /\ ~(Len(threads) > 1)
    <3>1. EndCall("ok") /\ UNCHANGED spare
      BY <1>13, <2>4 DEF Return
    <3> QED
      BY <1>1, <1>6, <1>8, <3>1, CallEnds
  <2> QED
    BY <2>2, <2>3, <2>4
<1>14. CASE Raise(t)
  BY <1>1, <1>4, <1>6, <1>7, <1>14, RaiseKeeps
<1>15. CASE Yield(t)
  <2> DEFINE u == Noticed(t, late)
  <2>1. u \in Threads /\ Quiet(u) /\ (late => Reserve(u) = 1)
    BY <1>9 DEF Quiet
  <2>2. \E status : IF Len(threads) = 1 THEN EndCall(status) /\ UNCHANGED spare
                    ELSE threads' = Front(threads) /\ spare' \in {spare, u}
    BY <1>15 DEF Yield, Suspend
  <2> HIDE DEF u
  <2> QED
    BY <1>1, <1>6, <1>8, <2>1, <2>2, SuspendKeeps
<1>16. ASSUME NEW u \in Threads, ~u.skips, NEW top \in Threads, Quiet(top),
              NEW other \in Threads, Quiet(other), top.skips => other = NoThread,
              Len(threads) < MaxThreads, threads' = Append(WithCurrent(u), top),
              spare' = other,
              late => /\ Rest(u) = 0
                      /\ overrun' + Reserve(other) + Rest(top)
                           <= overrun + Reserve(spare) + Rest(c)
       PROVE  LuaIInv'
  <2>1. Supervised(threads', spare', overrun', late)
    BY <1>2, <1>3, <1>6, <1>16, TopComes DEF WithCurrent
  <2>2. threads' # <<>>
    <3>1. Append(Front(threads), u) \in Seq(Threads)
      BY <1>2, TopReplaced
    <3> QED
      BY <1>16, <3>1, AppendProperties, EmptySeq DEF WithCurrent
  <2> QED
    BY <1>1, <2>1, <2>2, StillSupervised
<1>17. CASE Create(t)
  <2> DEFINE u == Noticed(t, late)
             top == Noticed(NewThread(u.every), late)
  <2>1. u.every \in 1..Sample
    BY <1>9 DEF Threads
  <2>2. top \in Threads /\ ~top.skips /\ (late => Rest(top) = 0)
    BY <1>2, <2>1, NewThreadIs, NoticedIs
  <2>3. /\ Len(threads) < MaxThreads /\ threads' = Append(WithCurrent(u), top)
        /\ UNCHANGED spare
    BY <1>17 DEF Create, Resumes
  <2>4. Quiet(top)
    BY <2>2 DEF Quiet
  <2> HIDE DEF top
  <2>5. late => overrun' + Reserve(spare) + Rest(top) <= overrun + Reserve(spare) + Rest(c)
    <3>1. Reserve(spare) \in Nat
      BY <1>2, Sizes
    <3> QED
      BY <1>2, <1>5, <1>6, <1>8, <2>2, <3>1
  <2>6. u \in Threads /\ ~u.skips /\ (late => Rest(u) = 0)
    BY <1>9
  <2> HIDE DEF u
  <2> QED
    BY <1>2, <1>16, <2>2, <2>3, <2>4, <2>5, <2>6
<1>18. CASE ResumeKept(t)
  <2> DEFINE u == Noticed(t, late)
  <2>1. /\ Len(threads) < MaxThreads /\ threads' = Append(WithCurrent(u), spare)
        /\ spare' = NoThread /\ spare # NoThread
    BY <1>18 DEF ResumeKept, Resumes
  <2>2. late => overrun' + Reserve(NoThread) + Rest(spare)
                  <= overrun + Reserve(spare) + Rest(c)
    <3>1. /\ Reserve(spare) \in Nat /\ Rest(spare) \in Nat /\ Rest(spare) <= Reserve(spare)
          /\ Reserve(NoThread) = 1
      BY <1>2, Sizes, NoThreadIs
    <3>2. late => 2 <= Rest(c) /\ Rest(c) \in Nat /\ overrun' = overrun + 1
      BY <1>3, <1>5, <1>7, <2>1
    <3> QED
      BY <1>2, <3>1, <3>2
  <2>3. u \in Threads /\ ~u.skips /\ (late => Rest(u) = 0)
    BY <1>9
  <2> HIDE DEF u
  <2> QED
    BY <1>2, <1>16, <2>1, <2>2, <2>3, NoThreadIs
<1> QED
  BY <1>1, <1>10, <1>12, <1>13, <1>14, <1>15, <1>17, <1>18

LEMMA CallModeKeeps == ASSUME LuaIInv, CallMode PROVE LuaIInv'
<1> DEFINE t == NewThread(Sample)
<1>1. t \in Threads /\ ~t.skips
  BY DeadlineAssumption, NewThreadIs
<1> HIDE DEF t
<1>2. threads' = <<t>> /\ spare' = spare /\ late' = FALSE /\ overrun' = 0
  BY DEF CallMode, t
<1>3. threads' \in Seq(Threads) /\ Len(threads') = 1 /\ threads'[1] = t
  BY <1>1, <1>2
<1>4. StackKept(threads', spare')
  <2>1. spare \in Threads /\ Quiet(spare)
    BY DEF LuaIInv, Supervised, StackKept
  <2>2. 1 <= MaxThreads
    BY DeadlineAssumption
  <2> QED
    BY <1>1, <1>2, <1>3, <2>1, <2>2 DEF StackKept, Quiet
<1>5. 0 <= Allowance
  BY Intervals
<1> QED
  BY <1>2, <1>4, <1>5 DEF LuaIInv, Supervised

LEMMA DeadlinePassesKeeps == ASSUME LuaIInv, DeadlinePasses PROVE LuaIInv'
<1>1. /\ threads' = threads /\ spare' = spare /\ overrun' = overrun /\ late' = TRUE
      /\ Running /\ ~late
  BY DEF DeadlinePasses
<1>2. /\ threads \in Seq(Threads) /\ Len(threads) <= MaxThreads /\ spare \in Threads
      /\ StackKept(threads, spare) /\ threads # <<>> /\ overrun = 0 /\ overrun <= Allowance
  BY <1>1 DEF LuaIInv, Supervised, StackKept, Running
<1>3. Len(threads) \in Nat \ {0} /\ threads[Len(threads)] \in Threads
  BY <1>2, EmptySeq, LenProperties, ElementOfSeq
<1> DEFINE k == Len(threads) - 1
           r == Rest(threads[Len(threads)])
<1>4. k \in Nat /\ k <= MaxThreads - 1
  BY <1>2, <1>3, DeadlineAssumption
<1>5. r \in Nat /\ r <= Sample /\ Reserve(spare) \in Nat /\ Reserve(spare) <= Sample
  BY <1>2, <1>3, Sizes
<1>6. \A i \in 1..Len(threads) : ~(i > k /\ i < Len(threads))
  BY <1>3
<1> HIDE DEF k, r
<1>7. 2 * Sample + Due(k) <= Allowance /\ Due(k) \in Nat /\ Allowance \in Nat
  BY <1>4, Intervals
<1>8. 0 + Reserve(spare) + r + Due(k) <= Allowance
  BY <1>5, <1>7, DeadlineAssumption
<1>9. k \in 0..(Len(threads) - 1)
  BY <1>3, <1>4 DEF k
<1>10. Held(threads, spare, 0)
  BY <1>6, <1>8, <1>9 DEF Held, Allotted, r
<1> QED
  BY <1>1, <1>2, <1>10 DEF LuaIInv, Supervised, Running

LEMMA LuaKept ==
  ASSUME LuaIInv, [LuaNext]_luaVars PROVE LuaIInv'
<1>1. CASE UNCHANGED luaVars
  BY <1>1 DEF luaVars, LuaIInv, Supervised, Running
<1> QED
  BY <1>1, CallModeKeeps, InterruptKeeps, InstructionKeeps, DeadlinePassesKeeps DEF LuaNext

LEMMA LuaStarts == ASSUME NEW on \in BOOLEAN, LuaInit(on) PROVE LuaIInv
<1>1. threads = <<>> /\ spare = NoThread /\ late = FALSE /\ overrun = 0
  BY DEF LuaInit
<1>2. Len(<<>>) = 0 /\ <<>> \in Seq(Threads)
  BY EmptySeq
<1>3. StackKept(threads, spare)
  BY <1>1, <1>2, NoThreadIs, DeadlineAssumption DEF StackKept
<1>4. 0 <= Allowance
  BY Intervals
<1> QED
  BY <1>1, <1>3, <1>4 DEF LuaIInv, Supervised, Running
--------------------------------------------------------------------------------
(* The window lists.  What a listener knows of windows, and the events that are *)
(* still on their way to it, add up to what the compositor has: K are the       *)
(* places of these events, in order.                                            *)

WindowNames == Apps \cup {Unset}
Handles ==
  [win : 1..Windows, app : WindowNames, small : BOOLEAN, identifier : 0..Windows]
Toplevels == [win : 1..Windows, app : WindowNames, used : BOOLEAN]
Announcements ==
  [what : {"toplevel", "app", "state", "closed"}, win : 1..Windows,
   app : WindowNames, small : BOOLEAN]
DeskStates ==
  [opened : 0..Windows, open : SUBSET (1..Windows),
   app : [1..Windows -> WindowNames], small : SUBSET (1..Windows), renames : Nat]

TellsOpening(e, w) == e.what = "toplevel" /\ e.win = w
TellsName(e, w) == e.what = "app" /\ e.win = w
TellsEnd(e, w) == e.what = "closed" /\ e.win = w

(* A window is known, or is yet to be, once, after those opened before it. *)
TopsInOrder(E, ev, K, d) ==
  \A k \in K : ev[k].what = "toplevel" =>
    /\ ev[k].win \in 1..d.opened /\ \A r \in E : r.win < ev[k].win
    /\ \A l \in K : l > k /\ ev[l].what = "toplevel" => ev[l].win > ev[k].win
KnownOpened(E, d) == \A r \in E : r.win \in 1..d.opened
OpenComes(E, ev, K, d) ==
  \A w \in d.open : (\E r \in E : r.win = w) \/ \E k \in K : TellsOpening(ev[k], w)
OfTheKnown(E, ev, K) ==
  \A k \in K : ev[k].what # "toplevel" =>
    \/ \E r \in E : r.win = ev[k].win
    \/ \E l \in K : l < k /\ TellsOpening(ev[l], ev[k].win)

(* One that is closed is told of so, last. *)
EndIsLast(ev, K, d) ==
  \A k \in K : ev[k].what = "closed" =>
    ev[k].win \notin d.open /\ \A l \in K : l > k => ev[l].win # ev[k].win
ClosedEnds(E, ev, K, d) ==
  /\ \A r \in E : r.win \notin d.open => \E k \in K : TellsEnd(ev[k], r.win)
  /\ \A k \in K : ev[k].what = "toplevel" /\ ev[k].win \notin d.open =>
       \E l \in K : TellsEnd(ev[l], ev[k].win)

(* The last app id that is told is the window's. *)
AppsFollow(E, ev, K, d) ==
  /\ \A r \in E : r.app = d.app[r.win] \/ \E k \in K : TellsName(ev[k], r.win)
  /\ \A k \in K :
       \/ ev[k].what = "app" /\ ev[k].app = d.app[ev[k].win]
       \/ ev[k].what \in {"state", "closed"}
       \/ \E l \in K : l > k /\ TellsName(ev[l], ev[k].win)

Trails(E, ev, K, d) ==
  /\ TopsInOrder(E, ev, K, d) /\ KnownOpened(E, d) /\ OpenComes(E, ev, K, d)
  /\ OfTheKnown(E, ev, K) /\ EndIsLast(ev, K, d) /\ ClosedEnds(E, ev, K, d)
  /\ AppsFollow(E, ev, K, d)

(* With nothing on its way, a listener knows the windows that are open.         *)
LEMMA NothingComes ==
  ASSUME NEW E, NEW ev, NEW d, Trails(E, ev, {}, d)
  PROVE  /\ \A w \in d.open : \E r \in E : r.win = w
         /\ \A r \in E : r.win \in d.open /\ r.app = d.app[r.win]
  BY DEF Trails, OpenComes, ClosedEnds, AppsFollow

(* What a listener makes of the first event. *)
AllBut(E, w) == {r \in E : r.win # w}
LEMMA NewKnown ==
  ASSUME NEW E, NEW ev, NEW K \in SUBSET Int, NEW d, Trails(E, ev, K, d),
         NEW f \in K, \A k \in K : f <= k, ev[f].what = "toplevel",
         NEW y, y.win = ev[f].win
  PROVE  Trails(E \cup {y}, ev, K \ {f}, d)
<1> DEFINE w == ev[f].win
           J == K \ {f}
           F == E \cup {y}
<1>1. /\ \A k \in J : k \in K /\ k > f
      /\ w \in 1..d.opened /\ \A k \in J : ev[k].what = "toplevel" => ev[k].win > w
  BY DEF Trails, TopsInOrder
<1>2. TopsInOrder(F, ev, J, d)
  BY <1>1 DEF Trails, TopsInOrder
<1>3. KnownOpened(F, d)
  BY <1>1 DEF Trails, KnownOpened
<1>4. OpenComes(F, ev, J, d)
  BY DEF Trails, OpenComes, TellsOpening
<1>5. OfTheKnown(F, ev, J)
  BY DEF Trails, OfTheKnown, TellsOpening
<1>6. EndIsLast(ev, J, d)
  BY DEF Trails, EndIsLast
<1>7. ClosedEnds(F, ev, J, d)
  BY DEF Trails, ClosedEnds, TellsEnd
<1>8. AppsFollow(F, ev, J, d)
  <2>1. \E l \in J : TellsName(ev[l], w)
    BY DEF Trails, AppsFollow, TellsName
  <2>2. ASSUME NEW r \in F PROVE r.app = d.app[r.win] \/ \E k \in J : TellsName(ev[k], r.win)
    BY <2>1 DEF Trails, AppsFollow, TellsName
  <2>3. ASSUME NEW k \in J
        PROVE  \/ ev[k].what = "app" /\ ev[k].app = d.app[ev[k].win]
               \/ ev[k].what \in {"state", "closed"}
               \/ \E l \in J : l > k /\ TellsName(ev[l], ev[k].win)
    BY <1>1 DEF Trails, AppsFollow, TellsName
  <2> QED
    BY <2>2, <2>3 DEF AppsFollow
<1> QED
  BY <1>2, <1>3, <1>4, <1>5, <1>6, <1>7, <1>8 DEF Trails

LEMMA KnownChanges ==
  ASSUME NEW E, NEW ev, NEW K \in SUBSET Int, NEW d, Trails(E, ev, K, d),
         NEW f \in K, \A k \in K : f <= k, ev[f].what \in {"app", "state"},
         NEW r0 \in E, r0.win = ev[f].win, NEW y, y.win = ev[f].win,
         y.app = IF ev[f].what = "app" THEN ev[f].app ELSE r0.app
  PROVE  Trails(AllBut(E, ev[f].win) \cup {y}, ev, K \ {f}, d)
<1> DEFINE w == ev[f].win
           J == K \ {f}
           F == AllBut(E, w) \cup {y}
<1>1. \A k \in J : k \in K /\ k > f
  <2>1. ASSUME NEW k \in J PROVE k \in K /\ k > f
    <3>1. k \in K /\ k # f
      BY <2>1
    <3>2. k \in Int /\ f \in Int /\ f <= k
      BY <3>1
    <3> QED
      BY <3>1, <3>2
  <2> QED
    BY <2>1
<1>2. \A r \in F : r = y \/ (r \in E /\ r.win # w)
  BY DEF AllBut
<1>3. \A r \in E : \E x \in F : x.win = r.win
  BY DEF AllBut
<1>4. \A r \in F : \E x \in E : x.win = r.win
  BY <1>2
<1>5. TopsInOrder(F, ev, J, d)
  <2> HIDE DEF F
  <2> QED
    BY <1>4 DEF Trails, TopsInOrder
<1>6. KnownOpened(F, d)
  <2> HIDE DEF F
  <2> QED
    BY <1>4 DEF Trails, KnownOpened
<1>7. OpenComes(F, ev, J, d)
  <2> HIDE DEF F
  <2> QED
    BY <1>3 DEF Trails, OpenComes, TellsOpening
<1>8. OfTheKnown(F, ev, J)
  <2> HIDE DEF F
  <2>1. ev[f].what # "toplevel"
    OBVIOUS
  <2>2. ASSUME NEW k \in J, ev[k].what # "toplevel"
        PROVE  \/ \E r \in F : r.win = ev[k].win
               \/ \E l \in J : l < k /\ TellsOpening(ev[l], ev[k].win)
    <3>1. CASE \E r \in E : r.win = ev[k].win
      BY <1>3, <3>1
    <3>2. CASE \E l \in K : l < k /\ TellsOpening(ev[l], ev[k].win)
      BY <2>1, <3>2 DEF TellsOpening
    <3> QED
      BY <2>2, <3>1, <3>2 DEF Trails, OfTheKnown
  <2> QED
    BY <2>2 DEF OfTheKnown
<1>9. EndIsLast(ev, J, d)
  BY DEF Trails, EndIsLast
<1>10. ClosedEnds(F, ev, J, d)
  <2> HIDE DEF F
  <2> QED
    BY <1>4 DEF Trails, ClosedEnds, TellsEnd
<1>11. AppsFollow(F, ev, J, d)
  <2>1. ASSUME NEW r \in F PROVE r.app = d.app[r.win] \/ \E k \in J : TellsName(ev[k], r.win)
    <3>1. CASE r \in E /\ r.win # w
      BY <3>1 DEF Trails, AppsFollow, TellsName
    <3>2. CASE r = y /\ ev[f].what = "app"
      BY <3>2 DEF Trails, AppsFollow, TellsName
    <3>3. CASE r = y /\ ev[f].what # "app"
      BY <3>3 DEF Trails, AppsFollow, TellsName
    <3> QED
      BY <1>2, <3>1, <3>2, <3>3
  <2>2. ASSUME NEW k \in J
        PROVE  \/ ev[k].what = "app" /\ ev[k].app = d.app[ev[k].win]
               \/ ev[k].what \in {"state", "closed"}
               \/ \E l \in J : l > k /\ TellsName(ev[l], ev[k].win)
    BY <1>1 DEF Trails, AppsFollow, TellsName
  <2> QED
    BY <2>1, <2>2 DEF AppsFollow
<1> QED
  BY <1>5, <1>6, <1>7, <1>8, <1>9, <1>10, <1>11 DEF Trails

LEMMA KnownGoes ==
  ASSUME NEW E, NEW ev, NEW K \in SUBSET Int, NEW d, Trails(E, ev, K, d),
         NEW f \in K, \A k \in K : f <= k, ev[f].what = "closed"
  PROVE  Trails(AllBut(E, ev[f].win), ev, K \ {f}, d)
<1> DEFINE w == ev[f].win
           J == K \ {f}
           F == AllBut(E, w)
<1>1. /\ \A k \in J : k \in K /\ k > f
      /\ w \notin d.open /\ \A k \in J : ev[k].win # w
  BY DEF Trails, EndIsLast
<1>2. \A r : r \in F <=> r \in E /\ r.win # w
  BY DEF AllBut
<1> HIDE DEF F
<1>3. TopsInOrder(F, ev, J, d)
  BY <1>2 DEF Trails, TopsInOrder
<1>4. KnownOpened(F, d)
  BY <1>2 DEF Trails, KnownOpened
<1>5. OpenComes(F, ev, J, d)
  BY <1>1, <1>2 DEF Trails, OpenComes, TellsOpening
<1>6. OfTheKnown(F, ev, J)
  BY <1>1, <1>2 DEF Trails, OfTheKnown, TellsOpening
<1>7. EndIsLast(ev, J, d)
  BY DEF Trails, EndIsLast
<1>8. ClosedEnds(F, ev, J, d)
  BY <1>1, <1>2 DEF Trails, ClosedEnds, TellsEnd
<1>9. AppsFollow(F, ev, J, d)
  <2>1. ASSUME NEW r \in F PROVE r.app = d.app[r.win] \/ \E k \in J : TellsName(ev[k], r.win)
    BY <1>2 DEF Trails, AppsFollow, TellsName
  <2>2. ASSUME NEW k \in J
        PROVE  \/ ev[k].what = "app" /\ ev[k].app = d.app[ev[k].win]
               \/ ev[k].what \in {"state", "closed"}
               \/ \E l \in J : l > k /\ TellsName(ev[l], ev[k].win)
    BY <1>1 DEF Trails, AppsFollow, TellsName
  <2> QED
    BY <2>1, <2>2 DEF AppsFollow
<1>10. Trails(F, ev, J, d)
  BY <1>3, <1>4, <1>5, <1>6, <1>7, <1>8, <1>9 DEF Trails
<1> QED
  BY <1>10 DEF F

(* What the compositor tells next. *)
LEMMA WinsOpened ==
  ASSUME NEW E, NEW ev, NEW K \in SUBSET Int, NEW d, Trails(E, ev, K, d)
  PROVE  \A k \in K : ev[k].win \in 1..d.opened
<1> SUFFICES ASSUME NEW k \in K PROVE ev[k].win \in 1..d.opened
  OBVIOUS
<1>1. CASE ev[k].what = "toplevel"
  BY <1>1 DEF Trails, TopsInOrder
<1>2. CASE ev[k].what # "toplevel"
  BY <1>2 DEF Trails, TopsInOrder, OfTheKnown, KnownOpened, TellsOpening
<1> QED
  BY <1>1, <1>2

LEMMA EndTold ==
  ASSUME NEW E, NEW ev, NEW K \in SUBSET Int, NEW d, Trails(E, ev, K, d),
         NEW a \in Int, \A k \in K : k < a, NEW w \in d.open, TellsEnd(ev[a], w),
         NEW d2, d2.opened = d.opened, d2.app = d.app, d2.open = d.open \ {w}
  PROVE  Trails(E, ev, K \cup {a}, d2)
<1> DEFINE J == K \cup {a}
<1>1. /\ \A k \in J : k \in K \/ k = a
      /\ ev[a].what = "closed" /\ ev[a].win = w
  BY DEF TellsEnd
<1>2. TopsInOrder(E, ev, J, d2)
  BY <1>1 DEF Trails, TopsInOrder
<1>3. KnownOpened(E, d2)
  BY DEF Trails, KnownOpened
<1>4. OpenComes(E, ev, J, d2)
  BY DEF Trails, OpenComes, TellsOpening
<1>5. OfTheKnown(E, ev, J)
  <2>1. K \subseteq J
    OBVIOUS
  <2>2. (\E r \in E : r.win = w) \/ \E l \in K : l < a /\ TellsOpening(ev[l], w)
    BY DEF Trails, OpenComes
  <2>3. \A k \in K : ev[k].what # "toplevel" =>
          \/ \E r \in E : r.win = ev[k].win
          \/ \E l \in K : l < k /\ TellsOpening(ev[l], ev[k].win)
    BY DEF Trails, OfTheKnown
  <2> HIDE DEF J
  <2> QED
    BY <1>1, <2>1, <2>2, <2>3 DEF OfTheKnown
<1>6. EndIsLast(ev, J, d2)
  <2>1. \A l \in J : l > a => l # a /\ l \notin K
    BY DEF J
  <2>2. d2.open \subseteq d.open /\ w \notin d2.open
    OBVIOUS
  <2>3. ASSUME NEW k \in K, ev[k].what = "closed"
        PROVE  /\ ev[k].win \notin d.open
               /\ \A l \in K : l > k => ev[l].win # ev[k].win
    BY <2>3 DEF Trails, EndIsLast
  <2>4. ASSUME NEW k \in J, ev[k].what = "closed"
        PROVE  ev[k].win \notin d2.open /\ \A l \in J : l > k => ev[l].win # ev[k].win
    <3>1. CASE k = a
      BY <1>1, <2>1, <2>2, <3>1
    <3>2. CASE k \in K
      BY <1>1, <2>2, <2>3, <2>4, <3>2
    <3> QED
      BY <1>1, <3>1, <3>2
  <2> QED
    BY <2>4 DEF EndIsLast
<1>7. ClosedEnds(E, ev, J, d2)
  BY <1>1 DEF Trails, ClosedEnds, TellsEnd
<1>8. AppsFollow(E, ev, J, d2)
  BY <1>1 DEF Trails, AppsFollow, TellsName
<1> QED
  BY <1>2, <1>3, <1>4, <1>5, <1>6, <1>7, <1>8 DEF Trails

LEMMA StateTold ==
  ASSUME NEW E, NEW ev, NEW K \in SUBSET Int, NEW d, Trails(E, ev, K, d),
         NEW a \in Int, \A k \in K : k < a, ev[a].what = "state", ev[a].win \in d.open,
         NEW d2, d2.opened = d.opened, d2.app = d.app, d2.open = d.open
  PROVE  Trails(E, ev, K \cup {a}, d2)
<1> DEFINE J == K \cup {a}
<1>1. \A k \in J : k \in K \/ k = a
  OBVIOUS
<1>2. TopsInOrder(E, ev, J, d2)
  BY <1>1 DEF Trails, TopsInOrder
<1>3. KnownOpened(E, d2)
  BY DEF Trails, KnownOpened
<1>4. OpenComes(E, ev, J, d2)
  BY DEF Trails, OpenComes, TellsOpening
<1>5. OfTheKnown(E, ev, J)
  BY <1>1 DEF Trails, OfTheKnown, OpenComes, TellsOpening
<1>6. EndIsLast(ev, J, d2)
  BY <1>1 DEF Trails, EndIsLast
<1>7. ClosedEnds(E, ev, J, d2)
  BY <1>1 DEF Trails, ClosedEnds, TellsEnd
<1>8. AppsFollow(E, ev, J, d2)
  BY <1>1 DEF Trails, AppsFollow, TellsName
<1> QED
  BY <1>2, <1>3, <1>4, <1>5, <1>6, <1>7, <1>8 DEF Trails

LEMMA NameTold ==
  ASSUME NEW E, NEW ev, NEW K \in SUBSET Int, NEW d, Trails(E, ev, K, d),
         NEW a \in Int, \A k \in K : k < a, NEW w \in d.open, TellsName(ev[a], w),
         NEW d2, d2.opened = d.opened, d2.open = d.open,
         d2.app[w] = ev[a].app, \A x \in 1..d.opened : x # w => d2.app[x] = d.app[x]
  PROVE  Trails(E, ev, K \cup {a}, d2)
<1> DEFINE J == K \cup {a}
<1>1. /\ \A k \in J : k \in K \/ k = a
      /\ ev[a].what = "app" /\ ev[a].win = w
  BY DEF TellsName
<1>2. TopsInOrder(E, ev, J, d2)
  BY <1>1 DEF Trails, TopsInOrder
<1>3. KnownOpened(E, d2)
  BY DEF Trails, KnownOpened
<1>4. OpenComes(E, ev, J, d2)
  BY DEF Trails, OpenComes, TellsOpening
<1>5. OfTheKnown(E, ev, J)
  BY <1>1 DEF Trails, OfTheKnown, OpenComes, TellsOpening
<1>6. EndIsLast(ev, J, d2)
  BY <1>1 DEF Trails, EndIsLast
<1>7. ClosedEnds(E, ev, J, d2)
  BY <1>1 DEF Trails, ClosedEnds, TellsEnd
<1>8. AppsFollow(E, ev, J, d2)
  <2>1. ASSUME NEW r \in E PROVE r.app = d2.app[r.win] \/ \E k \in J : TellsName(ev[k], r.win)
    BY <1>1 DEF Trails, AppsFollow, TellsName, KnownOpened
  <2>2. ASSUME NEW k \in J
        PROVE  \/ ev[k].what = "app" /\ ev[k].app = d2.app[ev[k].win]
               \/ ev[k].what \in {"state", "closed"}
               \/ \E l \in J : l > k /\ TellsName(ev[l], ev[k].win)
    <3>1. CASE k = a
      BY <1>1, <3>1
    <3>2. CASE k \in K /\ ev[k].win = w
      BY <1>1, <3>2 DEF TellsName
    <3>3. CASE k \in K /\ ev[k].win # w
      BY <3>3, WinsOpened DEF Trails, AppsFollow
    <3> QED
      BY <1>1, <3>1, <3>2, <3>3
  <2> QED
    BY <2>1, <2>2 DEF AppsFollow
<1> QED
  BY <1>2, <1>3, <1>4, <1>5, <1>6, <1>7, <1>8 DEF Trails

LEMMA OpeningTold ==
  ASSUME NEW E, NEW ev, NEW K \in SUBSET Int, NEW d, Trails(E, ev, K, d),
         NEW a \in Int, NEW b \in Int, \A k \in K : k < a, a < b,
         d.opened \in Nat, NEW w, w = d.opened + 1,
         TellsOpening(ev[a], w), TellsName(ev[b], w),
         NEW d2, d2.opened = w, d2.open = d.open \cup {w},
         d2.app[w] = ev[b].app, \A x \in 1..d.opened : d2.app[x] = d.app[x]
  PROVE  Trails(E, ev, K \cup {a, b}, d2)
<1> DEFINE J == K \cup {a, b}
<1>1. /\ \A k \in J : k \in K \/ k = a \/ k = b
      /\ ev[a].what = "toplevel" /\ ev[a].win = w /\ ev[b].what = "app" /\ ev[b].win = w
      /\ \A x \in 1..d.opened : x \in 1..w /\ x < w
      /\ w \in 1..w
  BY DEF TellsOpening, TellsName
<1>2. \A k \in K : ev[k].win # w /\ k < a /\ k < b /\ ev[k].win < w
  BY <1>1, WinsOpened
<1>3. \A r \in E : r.win < w /\ r.win # w /\ r.win \in 1..d.opened
  BY <1>1 DEF Trails, KnownOpened
<1>4. TopsInOrder(E, ev, J, d2)
  <2> SUFFICES ASSUME NEW k \in J, ev[k].what = "toplevel"
               PROVE  /\ ev[k].win \in 1..d2.opened /\ \A r \in E : r.win < ev[k].win
                      /\ \A l \in J : l > k /\ ev[l].what = "toplevel" => ev[l].win > ev[k].win
    BY DEF TopsInOrder
  <2>1. CASE k \in K
    <3>1. ev[k].win \in 1..d.opened /\ \A r \in E : r.win < ev[k].win
      BY <2>1 DEF Trails, TopsInOrder
    <3>2. \A l \in J : l > k /\ ev[l].what = "toplevel" => ev[l].win > ev[k].win
      BY <1>1, <1>2, <2>1 DEF Trails, TopsInOrder
    <3> QED
      BY <1>1, <3>1, <3>2
  <2>2. CASE k = a
    BY <1>1, <1>2, <1>3, <2>2
  <2> QED
    BY <1>1, <2>1, <2>2
<1>5. KnownOpened(E, d2)
  BY <1>1 DEF Trails, KnownOpened
<1>6. OpenComes(E, ev, J, d2)
  BY DEF Trails, OpenComes, TellsOpening
<1>7. OfTheKnown(E, ev, J)
  BY <1>1 DEF Trails, OfTheKnown, TellsOpening
<1>8. EndIsLast(ev, J, d2)
  BY <1>1, <1>2 DEF Trails, EndIsLast
<1>9. ClosedEnds(E, ev, J, d2)
  BY <1>1 DEF Trails, ClosedEnds, TellsEnd
<1>10. AppsFollow(E, ev, J, d2)
  <2>1. ASSUME NEW r \in E PROVE r.app = d2.app[r.win] \/ \E k \in J : TellsName(ev[k], r.win)
    BY <1>3 DEF Trails, AppsFollow, TellsName
  <2>2. ASSUME NEW k \in J
        PROVE  \/ ev[k].what = "app" /\ ev[k].app = d2.app[ev[k].win]
               \/ ev[k].what \in {"state", "closed"}
               \/ \E l \in J : l > k /\ TellsName(ev[l], ev[k].win)
    <3>1. CASE k = a \/ k = b
      BY <1>1, <3>1 DEF TellsName
    <3>2. CASE k \in K
      BY <3>2, WinsOpened DEF Trails, AppsFollow
    <3> QED
      BY <1>1, <3>1, <3>2
  <2> QED
    BY <2>1, <2>2 DEF AppsFollow
<1> QED
  BY <1>4, <1>5, <1>6, <1>7, <1>8, <1>9, <1>10 DEF Trails

(* The same events, at other places in the same order. *)
LEMMA Reindexed ==
  ASSUME NEW E, NEW ev, NEW K, NEW d, Trails(E, ev, K, d),
         NEW new, NEW J, NEW g, \A k \in J : g[k] \in K /\ new[k] = ev[g[k]],
         \A k \in K : \E j \in J : g[j] = k,
         \A j \in J, k \in J : j < k <=> g[j] < g[k],
         \A j \in J, k \in J : j > k <=> g[j] > g[k]
  PROVE  Trails(E, new, J, d)
<1>1. TopsInOrder(E, new, J, d)
  BY DEF Trails, TopsInOrder
<1>2. KnownOpened(E, d)
  BY DEF Trails
<1>3. OpenComes(E, new, J, d)
  BY DEF Trails, OpenComes
<1>4. OfTheKnown(E, new, J)
  BY DEF Trails, OfTheKnown
<1>5. EndIsLast(new, J, d)
  BY DEF Trails, EndIsLast
<1>6. ClosedEnds(E, new, J, d)
  BY DEF Trails, ClosedEnds
<1>7. AppsFollow(E, new, J, d)
  <2>1. ASSUME NEW r \in E PROVE r.app = d.app[r.win] \/ \E k \in J : TellsName(new[k], r.win)
    BY DEF Trails, AppsFollow
  <2>2. ASSUME NEW k \in J
        PROVE  \/ new[k].what = "app" /\ new[k].app = d.app[new[k].win]
               \/ new[k].what \in {"state", "closed"}
               \/ \E l \in J : l > k /\ TellsName(new[l], new[k].win)
    BY DEF Trails, AppsFollow
  <2> QED
    BY <2>1, <2>2 DEF AppsFollow
<1> QED
  BY <1>1, <1>2, <1>3, <1>4, <1>5, <1>6, <1>7 DEF Trails

(* What the names of the windows are not, is nothing to this. *)
LEMMA SameNames ==
  ASSUME NEW E, NEW ev, NEW K, NEW d, Trails(E, ev, K, d), NEW F,
         \A r \in E : \E x \in F : x.win = r.win /\ x.app = r.app,
         \A x \in F : \E r \in E : x.win = r.win /\ x.app = r.app
  PROVE  Trails(F, ev, K, d)
  BY DEF Trails, TopsInOrder, KnownOpened, OpenComes, OfTheKnown, EndIsLast, ClosedEnds,
         AppsFollow

LEMMA SameDesk ==
  ASSUME NEW E, NEW ev, NEW K, NEW d, Trails(E, ev, K, d),
         NEW d2, d2.opened = d.opened, d2.app = d.app, d2.open = d.open
  PROVE  Trails(E, ev, K, d2)
  BY DEF Trails, TopsInOrder, KnownOpened, OpenComes, OfTheKnown, EndIsLast, ClosedEnds,
         AppsFollow

LEMMA SameEvents ==
  ASSUME NEW E, NEW ev, NEW K, NEW d, Trails(E, ev, K, d),
         NEW new, \A k \in K : new[k] = ev[k]
  PROVE  Trails(E, new, K, d)
<1> DEFINE g == [k \in K |-> k]
<1>1. \A k \in K : g[k] = k
  OBVIOUS
<1> HIDE DEF g
<1> QED
  BY <1>1, Reindexed

LEMMA WireMovesOn ==
  ASSUME NEW E, NEW wire \in Seq(Announcements), wire # <<>>, NEW d,
         Trails(E, wire, (1..Len(wire)) \ {1}, d)
  PROVE  Trails(E, Tail(wire), 1..Len(Tail(wire)), d)
<1> DEFINE n == Len(wire)
           K == (1..n) \ {1}
           m == Len(Tail(wire))
           J == 1..m
           g == [j \in J |-> j + 1]
<1>1. n \in Nat /\ n > 0 /\ m = n - 1 /\ \A j \in J : Tail(wire)[j] = wire[j + 1]
  <2>1. Len(wire) > 0 /\ Len(wire) \in Nat
    BY EmptySeq, LenProperties
  <2> QED
    BY <2>1, HeadTailProperties
<1> HIDE DEF n, m
<1>2. \A j \in J : j \in Int /\ g[j] = j + 1 /\ g[j] \in K
  BY <1>1
<1>3. \A k \in K : k - 1 \in J /\ g[k - 1] = k
  BY <1>1
<1>4. \A j \in J, k \in J : (j < k <=> g[j] < g[k]) /\ (j > k <=> g[j] > g[k])
  BY <1>2
<1>5. \A j \in J : Tail(wire)[j] = wire[g[j]]
  BY <1>1, <1>2
<1>6. Trails(E, wire, K, d)
  BY DEF n
<1> HIDE DEF g, J, K
<1>7. \A k \in K : \E j \in J : g[j] = k
  BY <1>3
<1>8. \A k \in J : g[k] \in K /\ Tail(wire)[k] = wire[g[k]]
  BY <1>2, <1>5
<1>9. /\ \A j \in J, k \in J : j < k <=> g[j] < g[k]
      /\ \A j \in J, k \in J : j > k <=> g[j] > g[k]
  BY <1>4
<1> DEFINE rest == Tail(wire)
<1>10. \A k \in J : g[k] \in K /\ rest[k] = wire[g[k]]
  BY <1>8
<1> HIDE DEF rest
<1>11. Trails(E, rest, J, d)
  BY <1>6, <1>7, <1>9, <1>10, Reindexed
<1> QED
  BY <1>11 DEF J, m, rest

(* The lists: the newest window first. *)
NewestFirst(list) == \A i, j \in 1..Len(list) : i < j => list[i].win > list[j].win
Numbered(S) == \A x \in S : x.win \in Nat

LEMMA ToSetIs ==
  ASSUME NEW S, NEW list \in Seq(S)
  PROVE  /\ \A x : x \in ToSet(list) <=> \E i \in 1..Len(list) : x = list[i]
         /\ ToSet(list) \subseteq S /\ Len(list) \in Nat /\ DOMAIN list = 1..Len(list)
<1>1. DOMAIN list = 1..Len(list) /\ Len(list) \in Nat /\ \A i \in 1..Len(list) : list[i] \in S
  BY LenProperties, ElementOfSeq
<1> QED
  BY <1>1 DEF ToSet

LEMMA NewHandle ==
  ASSUME NEW S, Numbered(S), NEW list \in Seq(S), NewestFirst(list), NEW h \in S,
         \A r \in ToSet(list) : r.win < h.win
  PROVE  /\ <<h>> \o list \in Seq(S) /\ NewestFirst(<<h>> \o list)
         /\ ToSet(<<h>> \o list) = ToSet(list) \cup {h}
<1> DEFINE n == Len(list)
           new == <<h>> \o list
<1>1. n \in Nat /\ \A i \in 1..n : list[i] \in S /\ list[i] \in ToSet(list)
  BY ToSetIs, ElementOfSeq
<1>2. <<h>> \in Seq(S) /\ Len(<<h>>) = 1 /\ <<h>>[1] = h
  OBVIOUS
<1>3. /\ new \in Seq(S) /\ Len(new) = n + 1
      /\ \A i \in 1..(n + 1) : new[i] = IF i <= 1 THEN <<h>>[i] ELSE list[i - 1]
  BY <1>1, <1>2, ConcatProperties
<1> HIDE DEF new, n
<1>4. new[1] = h /\ \A i \in 1..n : new[i + 1] = list[i]
  BY <1>1, <1>2, <1>3
<1>5. \A i \in 1..(n + 1) : i = 1 \/ (i - 1 \in 1..n /\ new[i] = list[i - 1] /\ i > 1)
  BY <1>1, <1>2, <1>3
<1>6. NewestFirst(new)
  <2> SUFFICES ASSUME NEW i \in 1..(n + 1), NEW j \in 1..(n + 1), i < j
               PROVE  new[i].win > new[j].win
    BY <1>3 DEF NewestFirst
  <2>1. j - 1 \in 1..n /\ new[j] = list[j - 1]
    BY <1>1, <1>5
  <2>2. CASE i = 1
    <3>1. list[j - 1].win < h.win /\ list[j - 1].win \in Nat /\ h.win \in Nat
      BY <1>1, <2>1 DEF Numbered
    <3> QED
      BY <1>4, <2>1, <2>2, <3>1
  <2>3. CASE i # 1
    <3>1. i - 1 \in 1..n /\ new[i] = list[i - 1] /\ i - 1 < j - 1
      BY <1>1, <1>5, <2>3
    <3>2. list[i - 1].win > list[j - 1].win
      BY <2>1, <3>1 DEF NewestFirst, n
    <3> QED
      BY <2>1, <3>1, <3>2
  <2> QED
    BY <2>2, <2>3
<1>7. \A x : x \in ToSet(new) <=> x \in ToSet(list) \/ x = h
  <2>1. \A x : x \in ToSet(new) <=> \E i \in 1..(n + 1) : x = new[i]
    BY <1>3, ToSetIs
  <2>2. \A x : x \in ToSet(list) <=> \E i \in 1..n : x = list[i]
    BY ToSetIs DEF n
  <2>3. ASSUME NEW x, x \in ToSet(new) PROVE x \in ToSet(list) \/ x = h
    <3>1. PICK i \in 1..(n + 1) : x = new[i]
      BY <2>1, <2>3
    <3> QED
      BY <1>4, <1>5, <2>2, <3>1
  <2>4. ASSUME NEW x \in ToSet(list) PROVE x \in ToSet(new)
    <3>1. PICK i \in 1..n : x = list[i]
      BY <2>2
    <3>2. i + 1 \in 1..(n + 1) /\ new[i + 1] = x
      BY <1>1, <1>4, <3>1
    <3> QED
      BY <2>1, <3>2
  <2>5. h \in ToSet(new)
    <3>1. 1 \in 1..(n + 1)
      BY <1>1
    <3> QED
      BY <1>4, <2>1, <3>1
  <2> QED
    BY <2>3, <2>4, <2>5
<1> QED
  BY <1>3, <1>6, <1>7 DEF new

ReplacedAt(list, i, h, new) ==
  /\ Len(new) = Len(list) /\ DOMAIN new = DOMAIN list
  /\ \A k \in 1..Len(list) : new[k] = IF k = i THEN h ELSE list[k]

LEMMA ReplacedBy ==
  ASSUME NEW S, NEW list \in Seq(S), NEW i \in 1..Len(list), NEW h \in S
  PROVE  /\ [list EXCEPT ![i] = h] \in Seq(S)
         /\ ReplacedAt(list, i, h, [list EXCEPT ![i] = h])
<1>1. Len(list) \in Nat /\ DOMAIN list = 1..Len(list)
  BY LenProperties
<1>2. [list EXCEPT ![i] = h] \in Seq(S) /\ Len([list EXCEPT ![i] = h]) = Len(list)
  BY ExceptSeq
<1>3. \A k \in 1..Len(list) : [list EXCEPT ![i] = h][k] = IF k = i THEN h ELSE list[k]
  BY <1>1
<1> QED
  BY <1>2, <1>3 DEF ReplacedAt

OrderedList(S, list) == Numbered(S) /\ list \in Seq(S) /\ NewestFirst(list)
HandleOf(list, i, h) == i \in 1..Len(list) /\ h.win = list[i].win

LEMMA HandleChanges ==
  ASSUME NEW S, NEW list, OrderedList(S, list), NEW i, NEW h \in S, HandleOf(list, i, h),
         NEW new, new \in Seq(S), ReplacedAt(list, i, h, new)
  PROVE  NewestFirst(new) /\ ToSet(new) = AllBut(ToSet(list), h.win) \cup {h}
<1> DEFINE n == Len(list)
<1> USE DEF OrderedList, HandleOf
<1>1. n \in Nat /\ \A k \in 1..n : list[k] \in S
  BY LenProperties, ElementOfSeq
<1>2. new \in Seq(S) /\ Len(new) = n
  BY DEF ReplacedAt
<1>3. \A k \in 1..n : new[k] = IF k = i THEN h ELSE list[k]
  BY DEF ReplacedAt
<1> HIDE DEF n
<1>4. i \in 1..n /\ h.win = list[i].win
  BY DEF n
<1>5. \A k \in 1..n : new[k].win = list[k].win
  BY <1>3, <1>4
<1>6. NewestFirst(new)
  BY <1>2, <1>5 DEF NewestFirst, n
<1>7. \A k \in 1..n : k # i => list[k].win # h.win
  <2> SUFFICES ASSUME NEW k \in 1..n, k # i PROVE list[k].win # h.win
    OBVIOUS
  <2>1. list[k].win \in Nat /\ list[i].win \in Nat
    BY <1>1, <1>4 DEF Numbered
  <2>2. k < i \/ k > i
    BY <1>1, <1>4
  <2>3. list[k].win > list[i].win \/ list[i].win > list[k].win
    BY <1>4, <2>2 DEF NewestFirst, n
  <2> QED
    BY <1>4, <2>1, <2>3
<1>8. \A x : x \in ToSet(new) <=> (x \in ToSet(list) /\ x.win # h.win) \/ x = h
  <2>1. \A x : x \in ToSet(new) <=> \E k \in 1..n : x = new[k]
    BY <1>2, ToSetIs
  <2>2. \A x : x \in ToSet(list) <=> \E k \in 1..n : x = list[k]
    BY ToSetIs DEF n
  <2> QED
    BY <1>3, <1>4, <1>7, <2>1, <2>2
<1>9. ToSet(new) = AllBut(ToSet(list), h.win) \cup {h}
  BY <1>8 DEF AllBut
<1> QED
  BY <1>2, <1>6, <1>9

LEMMA HandleGoes ==
  ASSUME NEW S, Numbered(S), NEW list \in Seq(S), NewestFirst(list), NEW i \in 1..Len(list)
  PROVE  /\ RemoveAt(list, i) \in Seq(S) /\ NewestFirst(RemoveAt(list, i))
         /\ ToSet(RemoveAt(list, i)) = AllBut(ToSet(list), list[i].win)
<1> DEFINE n == Len(list)
           new == RemoveAt(list, i)
           a == SubSeq(list, 1, i - 1)
           b == SubSeq(list, i + 1, n)
<1>1. n \in Nat /\ i \in 1..n /\ \A k \in 1..n : list[k] \in S
  BY LenProperties, ElementOfSeq
<1>2. /\ a \in Seq(S) /\ Len(a) = i - 1 /\ \A k \in 1..(i - 1) : a[k] = list[k]
  <2>1. 1 \in Int /\ i - 1 \in Int /\ \A k \in 1..(i - 1) : list[k] \in S
    BY <1>1
  <2> HIDE DEF n
  <2>2. /\ a \in Seq(S) /\ Len(a) = IF 1 <= i - 1 THEN i - 1 - 1 + 1 ELSE 0
        /\ \A k \in 1..(i - 1 - 1 + 1) : a[k] = list[1 + k - 1]
    BY <2>1, SubSeqProperties
  <2> HIDE DEF a
  <2>3. i - 1 - 1 + 1 = i - 1 /\ \A k \in 1..(i - 1) : 1 + k - 1 = k
    BY <1>1
  <2> QED
    BY <1>1, <2>2, <2>3
<1>3. /\ b \in Seq(S) /\ Len(b) = n - i /\ \A k \in 1..(n - i) : b[k] = list[i + k]
  <2>1. i + 1 \in Int /\ n \in Int /\ \A k \in (i + 1)..n : list[k] \in S
    BY <1>1
  <2> HIDE DEF n
  <2>2. /\ b \in Seq(S) /\ Len(b) = IF i + 1 <= n THEN n - (i + 1) + 1 ELSE 0
        /\ \A k \in 1..(n - (i + 1) + 1) : b[k] = list[i + 1 + k - 1]
    BY <2>1, SubSeqProperties
  <2> HIDE DEF b
  <2>3. n - (i + 1) + 1 = n - i /\ \A k \in 1..(n - i) : i + 1 + k - 1 = i + k
    BY <1>1
  <2> QED
    BY <1>1, <2>2, <2>3
<1>4. new = a \o b
  BY DEF RemoveAt
<1> HIDE DEF a, b, n, new
<1>5. /\ new \in Seq(S) /\ Len(new) = n - 1
      /\ \A k \in 1..(n - 1) : new[k] = IF k <= i - 1 THEN a[k] ELSE b[k - (i - 1)]
  <2>1. /\ new \in Seq(S) /\ Len(new) = Len(a) + Len(b)
        /\ \A k \in 1..(Len(a) + Len(b)) : new[k] = IF k <= Len(a) THEN a[k] ELSE b[k - Len(a)]
    BY <1>2, <1>3, <1>4, ConcatProperties
  <2>2. i - 1 + (n - i) = n - 1
    BY <1>1
  <2> QED
    BY <1>2, <1>3, <2>1, <2>2
<1> DEFINE g == [k \in 1..(n - 1) |-> IF k < i THEN k ELSE k + 1]
<1>6. /\ \A k \in 1..(n - 1) : g[k] \in 1..n /\ g[k] # i
      /\ \A j \in 1..n : j # i => \E k \in 1..(n - 1) : g[k] = j
      /\ \A j, k \in 1..(n - 1) : j < k => g[j] < g[k]
  <2>1. \A k \in 1..(n - 1) : g[k] = IF k < i THEN k ELSE k + 1
    OBVIOUS
  <2> HIDE DEF g
  <2>2. ASSUME NEW j \in 1..n, j # i PROVE \E k \in 1..(n - 1) : g[k] = j
    <3>1. CASE j < i
      BY <1>1, <2>1, <3>1
    <3>2. CASE ~(j < i)
      <4>1. j - 1 \in 1..(n - 1) /\ ~(j - 1 < i) /\ (j - 1) + 1 = j
        BY <1>1, <2>2, <3>2
      <4>2. g[j - 1] = (j - 1) + 1
        BY <2>1, <4>1
      <4> QED
        BY <4>1, <4>2
    <3> QED
      BY <3>1, <3>2
  <2> QED
    <3>1. \A k \in 1..(n - 1) : g[k] \in 1..n /\ g[k] # i
      BY <1>1, <2>1
    <3>2. \A j, k \in 1..(n - 1) : j < k => g[j] < g[k]
      BY <1>1, <2>1
    <3> QED
      BY <2>2, <3>1, <3>2
<1>7. \A k \in 1..(n - 1) : new[k] = list[g[k]]
  <2> SUFFICES ASSUME NEW k \in 1..(n - 1) PROVE new[k] = list[g[k]]
    OBVIOUS
  <2>1. CASE k < i
    <3>1. k \in 1..(i - 1) /\ k <= i - 1 /\ g[k] = k
      BY <1>1, <2>1
    <3> QED
      BY <1>2, <1>5, <3>1
  <2>2. CASE ~(k < i)
    <3>1. /\ k - (i - 1) \in 1..(n - i) /\ ~(k <= i - 1)
          /\ g[k] = k + 1 /\ i + (k - (i - 1)) = k + 1
      BY <1>1, <2>2
    <3> QED
      BY <1>3, <1>5, <3>1
  <2> QED
    BY <2>1, <2>2
<1> HIDE DEF g
<1>8. NewestFirst(new)
  <2> SUFFICES ASSUME NEW j \in 1..(n - 1), NEW k \in 1..(n - 1), j < k
               PROVE  new[j].win > new[k].win
    BY <1>5 DEF NewestFirst
  <2>1. g[j] \in 1..n /\ g[k] \in 1..n /\ g[j] < g[k]
    BY <1>6
  <2>2. list[g[j]].win > list[g[k]].win
    BY <2>1 DEF NewestFirst, n
  <2> QED
    BY <1>7, <2>2
<1>9. \A k \in 1..n : k # i => list[k].win # list[i].win
  <2> SUFFICES ASSUME NEW k \in 1..n, k # i PROVE list[k].win # list[i].win
    OBVIOUS
  <2>1. list[k].win \in Nat /\ list[i].win \in Nat
    BY <1>1 DEF Numbered
  <2>2. k < i \/ k > i
    BY <1>1
  <2>3. list[k].win > list[i].win \/ list[i].win > list[k].win
    BY <1>1, <2>2 DEF NewestFirst, n
  <2> QED
    BY <2>1, <2>3
<1>10. \A x : x \in ToSet(new) <=> x \in ToSet(list) /\ x.win # list[i].win
  <2>1. \A x : x \in ToSet(new) <=> \E k \in 1..(n - 1) : x = new[k]
    BY <1>5, ToSetIs
  <2>2. \A x : x \in ToSet(list) <=> \E k \in 1..n : x = list[k]
    BY ToSetIs DEF n
  <2> QED
    BY <1>1, <1>6, <1>7, <1>9, <2>1, <2>2
<1>11. ToSet(new) = AllBut(ToSet(list), list[i].win)
  BY <1>10 DEF AllBut
<1> QED
  BY <1>5, <1>8, <1>11 DEF new

LEMMA HandleIs ==
  ASSUME NEW S, NEW list \in Seq(S), NEW w, \E r \in ToSet(list) : r.win = w
  PROVE  /\ HandleAt(list, w) \in 1..Len(list) /\ list[HandleAt(list, w)].win = w
         /\ list[HandleAt(list, w)] \in ToSet(list)
<1>1. \E i \in DOMAIN list : list[i].win = w
  BY DEF ToSet
<1>2. HandleAt(list, w) \in DOMAIN list /\ list[HandleAt(list, w)].win = w
  BY <1>1 DEF HandleAt
<1> QED
  BY <1>2, ToSetIs

(* The identifiers are set one after the other: each handle gets one at most,   *)
(* and keeps it.                                                                *)
PairedLists(wins, exts) ==
  {l \in [wlr : Seq(Handles), ext : Seq(Toplevels)] :
     /\ Len(l.wlr) = Len(wins) /\ Len(l.ext) = Len(exts)
     /\ \A j \in 1..Len(wins) : l.wlr[j].win = wins[j].win /\ l.wlr[j].app = wins[j].app
     /\ \A k \in 1..Len(exts) : l.ext[k].win = exts[k].win /\ l.ext[k].app = exts[k].app}

LEMMA PartnerIs ==
  ASSUME NEW list, Len(list) \in Nat, NEW app
  PROVE  LET j == Partner(list, app)
         IN  /\ j = 0 => \A h \in 1..Len(list) :
                           ~(list[h].app = app /\ list[h].identifier = NoIdentifier)
             /\ j # 0 => /\ j \in 1..Len(list)
                         /\ list[j].app = app /\ list[j].identifier = NoIdentifier
                         /\ \A h \in 1..Len(list) :
                              list[h].app = app /\ list[h].identifier = NoIdentifier
                                => j <= h
<1> DEFINE I == {h \in 1..Len(list) : list[h].app = app /\ list[h].identifier = NoIdentifier}
           j == Partner(list, app)
<1>1. I \in SUBSET Nat /\ 0 \notin I
  OBVIOUS
<1>2. j = IF I # {} THEN Min(I) ELSE 0
  BY DEF Partner, SelectInSeq
<1>3. I # {} => Min(I) \in I /\ \A h \in I : Min(I) <= h
  <2> HIDE DEF I
  <2>1. I # {} => \E x \in I : \A y \in I : x <= y
    BY <1>1, Smallest
  <2> QED
    BY <2>1 DEF Min
<1> HIDE DEF j
<1>4. (j = 0 => I = {}) /\ (j # 0 => j \in I /\ \A h \in I : j <= h)
  <2> HIDE DEF I
  <2> QED
    BY <1>1, <1>2, <1>3
<1>5. j = 0 => \A h \in 1..Len(list) :
                 ~(list[h].app = app /\ list[h].identifier = NoIdentifier)
  BY <1>4
<1>6. j # 0 => /\ j \in 1..Len(list)
               /\ list[j].app = app /\ list[j].identifier = NoIdentifier
               /\ \A h \in 1..Len(list) :
                    list[h].app = app /\ list[h].identifier = NoIdentifier => j <= h
  BY <1>4
<1> QED
  BY <1>5, <1>6 DEF j

KeptIdentifiers(a, b) ==
  \A j \in 1..Len(a.wlr) : a.wlr[j].identifier # 0 => b.wlr[j].identifier # 0
GainedIdentifier(a, b) ==
  a = b \/ \E j \in 1..Len(a.wlr) : a.wlr[j].identifier = 0 /\ b.wlr[j].identifier # 0

LEMMA OneSet ==
  ASSUME WindowAssumption, NEW wins, NEW exts, NEW l \in PairedLists(wins, exts),
         NEW i \in 1..Len(exts)
  PROVE  LET m == SetOneIdentifier(l, i)
             j == Partner(l.wlr, l.ext[i].app)
         IN  /\ m \in PairedLists(wins, exts)
             /\ KeptIdentifiers(l, m) /\ GainedIdentifier(l, m)
             /\ l.ext[i].used \/ j = 0 => m = l
             /\ ~(l.ext[i].used \/ j = 0) =>
                  /\ j \in 1..Len(wins) /\ i \in 1..Len(exts)
                  /\ \A h \in 1..Len(wins) : m.wlr[h].identifier =
                       IF h = j THEN exts[i].win ELSE l.wlr[h].identifier
                  /\ \A k \in 1..Len(exts) : m.ext[k].used = (k = i \/ l.ext[k].used)
<1> DEFINE e == l.ext[i]
           j == Partner(l.wlr, e.app)
           m == SetOneIdentifier(l, i)
           n == Len(wins)
           x == Len(exts)
<1>1. /\ l.wlr \in Seq(Handles) /\ l.ext \in Seq(Toplevels)
      /\ Len(l.wlr) = n /\ Len(l.ext) = x /\ n \in Nat /\ x \in Nat
      /\ l = [wlr |-> l.wlr, ext |-> l.ext]
      /\ \A h \in 1..n : l.wlr[h] \in Handles
      /\ \A k \in 1..x : l.ext[k] \in Toplevels
      /\ \A h \in 1..n : l.wlr[h].win = wins[h].win /\ l.wlr[h].app = wins[h].app
      /\ \A k \in 1..x : l.ext[k].win = exts[k].win /\ l.ext[k].app = exts[k].app
  <2>1. /\ l.wlr \in Seq(Handles) /\ l.ext \in Seq(Toplevels)
        /\ Len(l.wlr) = n /\ Len(l.ext) = x
        /\ l = [wlr |-> l.wlr, ext |-> l.ext]
        /\ \A h \in 1..n : l.wlr[h].win = wins[h].win /\ l.wlr[h].app = wins[h].app
        /\ \A k \in 1..x : l.ext[k].win = exts[k].win /\ l.ext[k].app = exts[k].app
    BY DEF PairedLists
  <2> QED
    BY <2>1, LenProperties, ElementOfSeq
<1>2. CASE e.used \/ j = 0
  <2>1. m = l
    BY <1>2 DEF SetOneIdentifier
  <2> QED
    BY <1>2, <2>1 DEF KeptIdentifiers, GainedIdentifier
<1>3. CASE ~(e.used \/ j = 0)
  <2>1. j \in 1..n /\ l.wlr[j].identifier = 0
    BY <1>1, <1>3, PartnerIs DEF NoIdentifier
  <2> DEFINE hand == [l.wlr[j] EXCEPT !.identifier = e.win]
             top == [l.ext[i] EXCEPT !.used = TRUE]
  <2>2. m = [wlr |-> [l.wlr EXCEPT ![j] = hand], ext |-> [l.ext EXCEPT ![i] = top]]
    BY <1>1, <1>3 DEF SetOneIdentifier
  <2> HIDE DEF j, m, n, x
  <2>3. /\ hand \in Handles /\ hand.win = l.wlr[j].win /\ hand.app = l.wlr[j].app
        /\ hand.identifier = exts[i].win /\ e.win \in 1..Windows
    <3>1. l.wlr[j] \in Handles /\ l.ext[i] \in Toplevels /\ e.win = exts[i].win
      BY <1>1, <2>1 DEF x
    <3>2. e.win \in 1..Windows /\ e.win \in 0..Windows
      BY <3>1, WindowAssumption DEF Toplevels
    <3> HIDE DEF e
    <3> QED
      BY <3>1, <3>2 DEF Handles
  <2>4. top \in Toplevels /\ top.win = e.win /\ top.app = e.app /\ top.used = TRUE
    BY <1>1 DEF Toplevels, x
  <2> HIDE DEF hand, top
  <2>5. /\ m.wlr \in Seq(Handles) /\ Len(m.wlr) = n
        /\ \A h \in 1..n : m.wlr[h] = IF h = j THEN hand ELSE l.wlr[h]
    BY <1>1, <2>1, <2>2, <2>3, ExceptSeq
  <2>6. /\ m.ext \in Seq(Toplevels) /\ Len(m.ext) = x
        /\ \A k \in 1..x : m.ext[k] = IF k = i THEN top ELSE l.ext[k]
    BY <1>1, <2>2, <2>4, ExceptSeq DEF x
  <2>7. m \in PairedLists(wins, exts)
    <3>1. m \in [wlr : Seq(Handles), ext : Seq(Toplevels)]
      BY <2>2, <2>5, <2>6
    <3>2. \A h \in 1..n : m.wlr[h].win = wins[h].win /\ m.wlr[h].app = wins[h].app
      BY <1>1, <2>1, <2>3, <2>5
    <3>3. \A k \in 1..x : m.ext[k].win = exts[k].win /\ m.ext[k].app = exts[k].app
      BY <1>1, <2>4, <2>6
    <3> HIDE DEF e
    <3> QED
      BY <2>5, <2>6, <3>1, <3>2, <3>3 DEF PairedLists, n, x
  <2>8. hand.identifier # 0
    BY <1>1, <2>3 DEF x
  <2>9. KeptIdentifiers(l, m) /\ GainedIdentifier(l, m)
    BY <1>1, <2>1, <2>5, <2>8 DEF KeptIdentifiers, GainedIdentifier
  <2>10. \A h \in 1..n : m.wlr[h].identifier =
           IF h = j THEN exts[i].win ELSE l.wlr[h].identifier
    BY <2>3, <2>5
  <2>11. \A k \in 1..x : m.ext[k].used = (k = i \/ l.ext[k].used)
    <3>1. \A k \in 1..x : l.ext[k].used \in BOOLEAN
      BY <1>1 DEF Toplevels
    <3> QED
      BY <2>4, <2>6, <3>1
  <2> QED
    BY <1>3, <2>1, <2>7, <2>9, <2>10, <2>11 DEF j, m, n, x
<1> QED
  BY <1>2, <1>3

MatchSteps(f) ==
  /\ f[0] = [wlr |-> wlr, ext |-> ext]
  /\ \A i \in 1..Len(ext) : f[i] = SetOneIdentifier(f[i - 1], i)
MatchRecursion(f) ==
  f = [i \in 0..Len(ext) |->
         IF i = 0 THEN [wlr |-> wlr, ext |-> ext] ELSE SetOneIdentifier(f[i - 1], i)]

LEMMA MatchedOneByOne ==
  ASSUME WindowAssumption, wlr \in Seq(Handles), ext \in Seq(Toplevels)
  PROVE  \E f : /\ MatchSteps(f) /\ Matched = f[Len(ext)]
                /\ \A i \in 0..Len(ext) : f[i] \in PairedLists(wlr, ext)
<1> DEFINE n == Len(ext)
           V == PairedLists(wlr, ext)
           b == [wlr |-> wlr, ext |-> ext]
           G == [p \in (1..n) \X V |-> SetOneIdentifier(p[2], p[1])]
<1>1. n \in Nat /\ b \in V
  <2>1. b \in [wlr : Seq(Handles), ext : Seq(Toplevels)] /\ b.wlr = wlr /\ b.ext = ext
    OBVIOUS
  <2> HIDE DEF b
  <2>2. b \in PairedLists(wlr, ext)
    BY <2>1 DEF PairedLists
  <2> QED
    BY <2>2, LenProperties
<1>2. \A i \in 1..n, l \in V : SetOneIdentifier(l, i) \in V
  BY OneSet
<1> HIDE DEF V, b, n
<1>3. G \in [(1..n) \X V -> V] /\ \A i \in 1..n, l \in V : G[<<i, l>>] = SetOneIdentifier(l, i)
  <2>1. \A p \in (1..n) \X V : p[1] \in 1..n /\ p[2] \in V
    OBVIOUS
  <2>2. \A i \in 1..n, l \in V : <<i, l>> \in (1..n) \X V /\ <<i, l>>[1] = i /\ <<i, l>>[2] = l
    OBVIOUS
  <2> QED
    BY <1>2, <2>1, <2>2
<1> HIDE DEF G
<1>4. PICK g \in [0..n -> V] : Follows(g, b, n, G)
  BY <1>1, <1>3, Recursion
<1>5. g[0] = b /\ \A i \in 1..n : g[i] = SetOneIdentifier(g[i - 1], i)
  <2>1. \A i \in 1..n : i - 1 \in 0..n
    BY <1>1
  <2> QED
    BY <1>3, <1>4, <2>1 DEF Follows
<1>6. \E f : MatchRecursion(f)
  <2>1. g = [i \in 0..n |-> g[i]]
    BY <1>4
  <2>2. \A i \in 0..n : g[i] = IF i = 0 THEN b ELSE SetOneIdentifier(g[i - 1], i)
    <3>1. \A i \in 0..n : i # 0 => i \in 1..n
      BY <1>1
    <3> QED
      BY <1>5, <3>1
  <2>3. g = [i \in 0..n |-> IF i = 0 THEN b ELSE SetOneIdentifier(g[i - 1], i)]
    BY <2>1, <2>2
  <2> QED
    BY <2>3 DEF MatchRecursion, n, b
<1>7. Matched = (CHOOSE f : MatchRecursion(f))[Len(ext)]
  BY DEF Matched, MatchRecursion
<1>8. PICK f : MatchRecursion(f) /\ Matched = f[Len(ext)]
  BY <1>6, <1>7
<1>9. \A i \in 0..n : f[i] = IF i = 0 THEN b ELSE SetOneIdentifier(f[i - 1], i)
  BY <1>8 DEF MatchRecursion, n, b
<1>10. f[0] = b /\ \A i \in 1..n : f[i] = SetOneIdentifier(f[i - 1], i)
  <2>1. 0 \in 0..n /\ \A i \in 1..n : i # 0 /\ i \in 0..n
    BY <1>1
  <2> QED
    BY <1>9, <2>1
<1> DEFINE S == {i \in 0..n : f[i] \in V}
<1>11. \A i \in 0..n : f[i] \in V
  <2>1. 0 \in S /\ S \in SUBSET Nat
    BY <1>1, <1>10
  <2>2. ASSUME NEW i \in S, i < n PROVE i + 1 \in S
    <3>1. i + 1 \in 1..n /\ i + 1 \in 0..n /\ i + 1 - 1 = i /\ f[i] \in V
      BY <1>1, <2>2
    <3>2. f[i + 1] = SetOneIdentifier(f[i], i + 1)
      BY <1>10, <3>1
    <3> QED
      BY <1>2, <3>1, <3>2
  <2> HIDE DEF S
  <2>3. 0..n \subseteq S
    BY <1>1, <2>1, <2>2, UpTo
  <2> QED
    BY <2>3 DEF S
<1> QED
  BY <1>8, <1>10, <1>11 DEF MatchSteps, n, b, V

(* What a step shows of the lists, all steps do. *)
LEMMA MatchedKeeps ==
  ASSUME WindowAssumption, wlr \in Seq(Handles), ext \in Seq(Toplevels)
  PROVE  /\ Matched \in PairedLists(wlr, ext)
         /\ GainedIdentifier([wlr |-> wlr, ext |-> ext], Matched)
<1> DEFINE n == Len(ext)
           b == [wlr |-> wlr, ext |-> ext]
<1>1. PICK f : /\ MatchSteps(f) /\ Matched = f[n]
               /\ \A i \in 0..n : f[i] \in PairedLists(wlr, ext)
  BY MatchedOneByOne
<1>2. n \in Nat
  BY LenProperties
<1> DEFINE S == {i \in 0..n : GainedIdentifier(b, f[i])}
<1>3. \A i \in 0..n : Len(f[i].wlr) = Len(wlr)
  BY <1>1 DEF PairedLists
<1>4. b.wlr = wlr
  OBVIOUS
<1> HIDE DEF b, n
<1>5. f[0] = b
  BY <1>1 DEF MatchSteps, b
<1>6. 0 \in S
  BY <1>2, <1>5 DEF GainedIdentifier
<1>7. ASSUME NEW i \in S, i < n PROVE i + 1 \in S
  <2>1. /\ i + 1 \in 1..n /\ i + 1 \in 0..n /\ i + 1 - 1 = i /\ i \in 0..n
        /\ GainedIdentifier(b, f[i])
    BY <1>2, <1>7
  <2>2. f[i + 1] = SetOneIdentifier(f[i], i + 1)
    BY <1>1, <2>1 DEF MatchSteps, n
  <2>3. KeptIdentifiers(f[i], f[i + 1]) /\ GainedIdentifier(f[i], f[i + 1])
    BY <1>1, <2>1, <2>2, OneSet DEF n
  <2>4. Len(f[i].wlr) = Len(b.wlr)
    BY <1>3, <1>4, <2>1
  <2>5. CASE f[i] = b
    BY <2>1, <2>3, <2>5
  <2>6. CASE f[i] # b
    <3>1. PICK j \in 1..Len(b.wlr) : b.wlr[j].identifier = 0 /\ f[i].wlr[j].identifier # 0
      BY <2>1, <2>6 DEF GainedIdentifier
    <3>2. f[i + 1].wlr[j].identifier # 0
      BY <2>3, <2>4, <3>1 DEF KeptIdentifiers
    <3> QED
      BY <2>1, <3>1, <3>2 DEF GainedIdentifier
  <2> QED
    BY <2>5, <2>6
<1>8. S \in SUBSET Nat
  OBVIOUS
<1> HIDE DEF S
<1>9. 0..n \subseteq S
  BY <1>2, <1>6, <1>7, <1>8, UpTo
<1>10. n \in S /\ n \in 0..n
  BY <1>2, <1>9
<1> QED
  BY <1>1, <1>10 DEF S, b

(* With nothing on its way, the handle that gets an identifier is the window's. *)
SameWindows(wins, exts) ==
  /\ NewestFirst(wins) /\ NewestFirst(exts)
  /\ \A k \in 1..Len(exts) : \E j \in 1..Len(wins) :
       wins[j].win = exts[k].win /\ wins[j].app = exts[k].app
  /\ \A j \in 1..Len(wins) : \E k \in 1..Len(exts) : wins[j].win = exts[k].win
MarksAgree(l) ==
  /\ \A j \in 1..Len(l.wlr) : l.wlr[j].identifier \in {0, l.wlr[j].win}
  /\ \A j \in 1..Len(l.wlr), k \in 1..Len(l.ext) :
       l.wlr[j].win = l.ext[k].win => (l.ext[k].used <=> l.wlr[j].identifier # 0)

LEMMA OneAgrees ==
  ASSUME WindowAssumption, NEW wins \in Seq(Handles), NEW exts \in Seq(Toplevels),
         SameWindows(wins, exts), NEW l \in PairedLists(wins, exts), MarksAgree(l),
         NEW i \in 1..Len(exts), \A k \in 1..(i - 1) : l.ext[k].used
  PROVE  LET m == SetOneIdentifier(l, i)
         IN MarksAgree(m) /\ \A k \in 1..i : m.ext[k].used
<1> DEFINE m == SetOneIdentifier(l, i)
           e == l.ext[i]
           j == Partner(l.wlr, e.app)
           n == Len(wins)
           x == Len(exts)
<1>1. /\ Len(l.wlr) = n /\ Len(l.ext) = x /\ n \in Nat /\ x \in Nat
      /\ \A h \in 1..n : l.wlr[h].win = wins[h].win /\ l.wlr[h].app = wins[h].app
      /\ \A k \in 1..x : l.ext[k].win = exts[k].win /\ l.ext[k].app = exts[k].app
      /\ \A h \in 1..n : wins[h].win \in 1..Windows
      /\ \A k \in 1..x : exts[k].win \in 1..Windows
  <2>1. /\ \A h \in 1..n : wins[h] \in Handles
        /\ \A k \in 1..x : exts[k] \in Toplevels
    BY ElementOfSeq
  <2>2. /\ \A h \in 1..n : wins[h].win \in 1..Windows
        /\ \A k \in 1..x : exts[k].win \in 1..Windows
    BY <2>1 DEF Handles, Toplevels
  <2> QED
    BY <2>2, LenProperties DEF PairedLists
<1>2. CASE e.used
  <2>1. m = l
    BY <1>2, OneSet
  <2>2. \A k \in 1..i : k = i \/ k \in 1..(i - 1)
    BY <1>1
  <2> QED
    BY <1>2, <2>1, <2>2
<1>3. CASE ~e.used
  <2>1. PICK h \in 1..n : wins[h].win = exts[i].win /\ wins[h].app = exts[i].app
    BY DEF SameWindows
  <2>2. l.wlr[h].app = e.app /\ l.wlr[h].identifier = NoIdentifier
    <3>1. l.wlr[h].win = e.win /\ l.wlr[h].app = e.app
      BY <1>1, <2>1
    <3> QED
      BY <1>1, <1>3, <3>1 DEF MarksAgree, NoIdentifier
  <2>3. /\ j # 0 /\ j \in 1..n /\ j <= h
        /\ l.wlr[j].identifier = 0
    <3> HIDE DEF e
    <3>1. j # 0 /\ j \in 1..Len(l.wlr) /\ j <= h /\ l.wlr[j].identifier = NoIdentifier
      BY <1>1, <2>2, PartnerIs
    <3> QED
      BY <1>1, <3>1 DEF NoIdentifier
  <2> HIDE DEF j, n, x
  <2>4. j = h
    <3> SUFFICES ASSUME j < h PROVE FALSE
      BY <2>1, <2>3 DEF n
    <3>1. wins[j].win > wins[h].win
      BY <2>1, <2>3 DEF SameWindows, NewestFirst, n
    <3>2. PICK k \in 1..x : wins[j].win = exts[k].win
      BY <2>3 DEF SameWindows, n, x
    <3>3. k < i
      <4>1. CASE k = i
        BY <1>1, <2>1, <2>3, <3>1, <3>2, <4>1
      <4>2. CASE i < k
        <5>1. exts[i].win > exts[k].win
          BY <3>2, <4>2 DEF SameWindows, NewestFirst, x
        <5>2. /\ exts[i].win \in 1..Windows /\ exts[k].win \in 1..Windows
              /\ wins[j].win \in 1..Windows /\ wins[h].win \in 1..Windows
          BY <1>1, <2>1, <2>3, <3>2 DEF x
        <5> QED
          BY <2>1, <3>1, <3>2, <5>1, <5>2, WindowAssumption
      <4> QED
        BY <1>1, <3>2, <4>1, <4>2 DEF x
    <3>4. l.ext[k].used
      BY <1>1, <3>2, <3>3 DEF x
    <3>5. l.wlr[j].win = l.ext[k].win
      BY <1>1, <2>3, <3>2
    <3> QED
      BY <1>1, <2>3, <3>2, <3>4, <3>5 DEF MarksAgree
  <2>5. /\ m \in PairedLists(wins, exts)
        /\ \A g \in 1..n : m.wlr[g].identifier =
             IF g = h THEN exts[i].win ELSE l.wlr[g].identifier
        /\ \A k \in 1..x : m.ext[k].used = (k = i \/ l.ext[k].used)
    <3>1. ~(l.ext[i].used \/ Partner(l.wlr, l.ext[i].app) = 0)
      BY <1>3, <2>3 DEF j
    <3>2. /\ m \in PairedLists(wins, exts)
          /\ \A g \in 1..Len(wins) : m.wlr[g].identifier =
               IF g = Partner(l.wlr, l.ext[i].app) THEN exts[i].win ELSE l.wlr[g].identifier
          /\ \A k \in 1..Len(exts) : m.ext[k].used = (k = i \/ l.ext[k].used)
      BY <3>1, OneSet
    <3> HIDE DEF m
    <3> QED
      BY <2>4, <3>2 DEF j, n, x
  <2> HIDE DEF m, e
  <2>6. /\ Len(m.wlr) = n /\ Len(m.ext) = x
        /\ \A g \in 1..n : m.wlr[g].win = wins[g].win /\ l.wlr[g].win = wins[g].win
        /\ \A k \in 1..x : m.ext[k].win = exts[k].win /\ l.ext[k].win = exts[k].win
    BY <1>1, <2>5 DEF PairedLists, n, x
  <2>7. \A g \in 1..n, k \in 1..x : wins[g].win = exts[k].win => (g = h <=> k = i)
    <3> SUFFICES ASSUME NEW g \in 1..n, NEW k \in 1..x, wins[g].win = exts[k].win
                 PROVE  g = h <=> k = i
      OBVIOUS
    <3>1. /\ wins[g].win \in 1..Windows /\ wins[h].win \in 1..Windows
          /\ exts[k].win \in 1..Windows /\ exts[i].win \in 1..Windows
      BY <1>1 DEF x
    <3>2. g # h => wins[g].win > wins[h].win \/ wins[h].win > wins[g].win
      <4>1. g # h => g < h \/ h < g
        BY <1>1
      <4> QED
        BY <4>1 DEF SameWindows, NewestFirst, n
    <3>3. k # i => exts[k].win > exts[i].win \/ exts[i].win > exts[k].win
      <4>1. k # i => k < i \/ i < k
        BY <1>1
      <4> QED
        BY <4>1 DEF SameWindows, NewestFirst, x
    <3> QED
      BY <2>1, <3>1, <3>2, <3>3, WindowAssumption
  <2>8. MarksAgree(m)
    <3>1. ASSUME NEW g \in 1..n PROVE m.wlr[g].identifier \in {0, m.wlr[g].win}
      <4>1. l.wlr[g].identifier \in {0, l.wlr[g].win}
        BY <1>1 DEF MarksAgree
      <4>2. m.wlr[g].win = wins[g].win /\ l.wlr[g].win = wins[g].win
        BY <2>6
      <4>3. g = h => wins[g].win = exts[i].win
        BY <2>1
      <4> QED
        BY <2>5, <4>1, <4>2, <4>3
    <3>2. ASSUME NEW g \in 1..n, NEW k \in 1..x, m.wlr[g].win = m.ext[k].win
          PROVE  m.ext[k].used <=> m.wlr[g].identifier # 0
      <4>1. wins[g].win = exts[k].win /\ l.wlr[g].win = l.ext[k].win
        BY <2>6, <3>2
      <4>2. CASE g = h
        <5>1. k = i /\ m.wlr[g].identifier = exts[i].win /\ m.ext[k].used = TRUE
          BY <2>5, <2>7, <4>1, <4>2
        <5>2. exts[i].win \in 1..Windows
          BY <1>1 DEF x
        <5> QED
          BY <5>1, <5>2, WindowAssumption
      <4>3. CASE g # h
        <5>1. /\ k # i /\ m.wlr[g].identifier = l.wlr[g].identifier
              /\ m.ext[k].used = l.ext[k].used
          <6>1. l.ext[k].used \in BOOLEAN
            <7>1. l.ext \in Seq(Toplevels) /\ k \in 1..Len(l.ext)
              BY <1>1 DEF PairedLists
            <7>2. l.ext[k] \in Toplevels
              BY <7>1, ElementOfSeq
            <7> QED
              BY <7>2 DEF Toplevels
          <6> QED
            BY <2>5, <2>7, <4>1, <4>3, <6>1
        <5> QED
          BY <1>1, <4>1, <5>1 DEF MarksAgree
      <4> QED
        BY <4>2, <4>3
    <3> QED
      BY <2>6, <3>1, <3>2 DEF MarksAgree
  <2>9. \A k \in 1..i : m.ext[k].used
    <3>1. \A k \in 1..i : k \in 1..x /\ (k = i \/ k \in 1..(i - 1))
      BY <1>1 DEF x
    <3> QED
      BY <2>5, <3>1
  <2> QED
    BY <2>8, <2>9 DEF m
<1> QED
  BY <1>2, <1>3

LEMMA MatchedAgrees ==
  ASSUME WindowAssumption, wlr \in Seq(Handles), ext \in Seq(Toplevels),
         SameWindows(wlr, ext), MarksAgree([wlr |-> wlr, ext |-> ext])
  PROVE  MarksAgree(Matched)
<1> DEFINE n == Len(ext)
<1>1. PICK f : /\ MatchSteps(f) /\ Matched = f[n]
               /\ \A i \in 0..n : f[i] \in PairedLists(wlr, ext)
  BY MatchedOneByOne
<1>2. n \in Nat
  BY LenProperties
<1> DEFINE S == {i \in 0..n : MarksAgree(f[i]) /\ \A k \in 1..i : f[i].ext[k].used}
<1>3. 0 \in S
  <2>1. MarksAgree(f[0])
    BY <1>1 DEF MatchSteps
  <2> QED
    BY <1>2, <2>1
<1>4. ASSUME NEW i \in S, i < n PROVE i + 1 \in S
  <2>1. i + 1 \in 1..n /\ i + 1 \in 0..n /\ i + 1 - 1 = i /\ i \in 0..n /\ MarksAgree(f[i])
        /\ \A k \in 1..(i + 1 - 1) : f[i].ext[k].used
    BY <1>2, <1>4
  <2>2. f[i + 1] = SetOneIdentifier(f[i], i + 1)
    BY <1>1, <2>1 DEF MatchSteps
  <2>3. f[i] \in PairedLists(wlr, ext)
    BY <1>1, <2>1
  <2>4. MarksAgree(f[i + 1]) /\ \A k \in 1..(i + 1) : f[i + 1].ext[k].used
    BY <2>1, <2>2, <2>3, OneAgrees
  <2> QED
    BY <2>1, <2>4
<1>5. S \in SUBSET Nat
  OBVIOUS
<1> HIDE DEF S
<1>6. 0..n \subseteq S
  BY <1>2, <1>3, <1>4, <1>5, UpTo
<1>7. n \in S
  BY <1>2, <1>6
<1> QED
  BY <1>1, <1>7 DEF S

(* A wire, longer by what is told now. *)
Coming(wire, w) == \E k \in 1..Len(wire) : TellsOpening(wire[k], w)
Longer(wire, new, c) ==
  /\ new \in Seq(Announcements) /\ Len(new) = Len(wire) + c
  /\ \A k \in 1..Len(wire) : new[k] = wire[k]

LEMMA WireAppend ==
  ASSUME NEW wire \in Seq(Announcements), NEW e \in Announcements
  PROVE  /\ Longer(wire, wire \o <<e>>, 1) /\ (wire \o <<e>>)[Len(wire) + 1] = e
         /\ Append(wire, e) = wire \o <<e>>
<1> DEFINE one == <<e>>
           n == Len(wire)
           new == wire \o one
<1>1. n \in Nat
  BY LenProperties
<1>2. one \in Seq(Announcements) /\ Len(one) = 1 /\ one[1] = e
  OBVIOUS
<1>3. Append(wire, e) = wire \o <<e>>
  OBVIOUS
<1> HIDE DEF one
<1>4. /\ new \in Seq(Announcements) /\ Len(new) = n + 1
      /\ \A k \in 1..(n + 1) : new[k] = IF k <= n THEN wire[k] ELSE one[k - n]
  <2>1. /\ new \in Seq(Announcements) /\ Len(new) = n + Len(one)
        /\ \A k \in 1..(n + Len(one)) : new[k] = IF k <= n THEN wire[k] ELSE one[k - n]
    BY <1>2, ConcatProperties
  <2> HIDE DEF new, n
  <2> QED
    BY <1>2, <2>1
<1> HIDE DEF new, n
<1>5. \A k \in 1..n : k \in 1..(n + 1) /\ k <= n
  BY <1>1
<1>6. n + 1 \in 1..(n + 1) /\ ~(n + 1 <= n) /\ n + 1 - n = 1
  BY <1>1
<1>7. new[n + 1] = e
  <2>1. \A k \in 1..(n + 1) : ~(k <= n) => new[k] = one[k - n]
    BY <1>4
  <2>2. PICK a : a = n + 1
    OBVIOUS
  <2>3. new[a] = one[a - n] /\ a - n = 1
    BY <1>1, <1>6, <2>1, <2>2
  <2> QED
    BY <1>2, <2>2, <2>3
<1>8. Longer(wire, new, 1)
  BY <1>4, <1>5 DEF Longer, n
<1> QED
  BY <1>3, <1>7, <1>8 DEF new, n, one

LEMMA WireAppendTwo ==
  ASSUME NEW wire \in Seq(Announcements), NEW e \in Announcements, NEW f \in Announcements
  PROVE  /\ Longer(wire, wire \o <<e, f>>, 2)
         /\ (wire \o <<e, f>>)[Len(wire) + 1] = e
         /\ (wire \o <<e, f>>)[Len(wire) + 2] = f
<1> DEFINE two == <<e, f>>
           n == Len(wire)
           new == wire \o two
<1>1. n \in Nat
  BY LenProperties
<1>2. two \in Seq(Announcements) /\ Len(two) = 2 /\ two[1] = e /\ two[2] = f
  OBVIOUS
<1> HIDE DEF two
<1>4. /\ new \in Seq(Announcements) /\ Len(new) = n + 2
      /\ \A k \in 1..(n + 2) : new[k] = IF k <= n THEN wire[k] ELSE two[k - n]
  <2>1. /\ new \in Seq(Announcements) /\ Len(new) = n + Len(two)
        /\ \A k \in 1..(n + Len(two)) : new[k] = IF k <= n THEN wire[k] ELSE two[k - n]
    BY <1>2, ConcatProperties
  <2> HIDE DEF new, n
  <2> QED
    BY <1>2, <2>1
<1> HIDE DEF new, n
<1>5. \A k \in 1..n : k \in 1..(n + 2) /\ k <= n
  BY <1>1
<1>6. /\ n + 1 \in 1..(n + 2) /\ ~(n + 1 <= n) /\ n + 1 - n = 1
      /\ n + 2 \in 1..(n + 2) /\ ~(n + 2 <= n) /\ n + 2 - n = 2
  BY <1>1
<1>7. new[n + 1] = e /\ new[n + 2] = f
  <2>1. \A k \in 1..(n + 2) : ~(k <= n) => new[k] = two[k - n]
    BY <1>4
  <2>2. PICK a, b : a = n + 1 /\ b = n + 2
    OBVIOUS
  <2>3. new[a] = two[a - n] /\ a - n = 1 /\ new[b] = two[b - n] /\ b - n = 2
    BY <1>1, <1>6, <2>1, <2>2
  <2> QED
    BY <1>2, <2>2, <2>3
<1>8. Longer(wire, new, 2)
  BY <1>4, <1>5 DEF Longer, n
<1> QED
  BY <1>7, <1>8 DEF new, n, two

LEMMA OneOnWire ==
  ASSUME NEW E, NEW d, NEW wire \in Seq(Announcements),
         Trails(E, wire, 1..Len(wire), d), NEW new, Longer(wire, new, 1),
         NEW d2, d2.opened = d.opened,
         LET e == new[Len(wire) + 1]
         IN  \/ \E w \in d.open : TellsEnd(e, w) /\ d2.app = d.app /\ d2.open = d.open \ {w}
             \/ e.what = "state" /\ e.win \in d.open /\ d2.app = d.app /\ d2.open = d.open
             \/ \E w \in d.open :
                  /\ TellsName(e, w) /\ d2.open = d.open /\ d2.app[w] = e.app
                  /\ \A x \in 1..d.opened : x # w => d2.app[x] = d.app[x]
  PROVE  /\ Trails(E, new, 1..Len(new), d2)
         /\ \A x : Coming(new, x) <=> Coming(wire, x)
<1> DEFINE n == Len(wire)
           K == 1..n
           a == n + 1
           e == new[a]
<1>1. /\ n \in Nat /\ K \in SUBSET Int /\ a \in Int /\ Len(new) = a
      /\ \A k \in K : k < a /\ new[k] = wire[k]
      /\ 1..Len(new) = K \cup {a}
  BY LenProperties DEF Longer
<1> HIDE DEF n, K, a
<1>2. Trails(E, wire, K, d)
  BY DEF K, n
<1>3. Trails(E, new, K, d)
  BY <1>1, <1>2, SameEvents
<1>4. \/ \E w \in d.open : TellsEnd(e, w) /\ d2.app = d.app /\ d2.open = d.open \ {w}
      \/ e.what = "state" /\ e.win \in d.open /\ d2.app = d.app /\ d2.open = d.open
      \/ \E w \in d.open :
           /\ TellsName(e, w) /\ d2.open = d.open /\ d2.app[w] = e.app
           /\ \A x \in 1..d.opened : x # w => d2.app[x] = d.app[x]
  BY DEF a, n
<1>5. Trails(E, new, K \cup {a}, d2)
  <2>1. CASE \E w \in d.open : TellsEnd(e, w) /\ d2.app = d.app /\ d2.open = d.open \ {w}
    BY <1>1, <1>3, <2>1, EndTold
  <2>2. CASE e.what = "state" /\ e.win \in d.open /\ d2.app = d.app /\ d2.open = d.open
    BY <1>1, <1>3, <2>2, StateTold
  <2>3. CASE \E w \in d.open :
               /\ TellsName(e, w) /\ d2.open = d.open /\ d2.app[w] = e.app
               /\ \A x \in 1..d.opened : x # w => d2.app[x] = d.app[x]
    BY <1>1, <1>3, <2>3, NameTold
  <2> QED
    BY <1>4, <2>1, <2>2, <2>3
<1>6. e.what # "toplevel"
  BY <1>4 DEF TellsEnd, TellsName
<1>7. \A x : Coming(new, x) <=> Coming(wire, x)
  <2>1. \A x : Coming(new, x) <=> \E k \in K \cup {a} : TellsOpening(new[k], x)
    BY <1>1 DEF Coming
  <2>2. \A x : Coming(wire, x) <=> \E k \in K : TellsOpening(wire[k], x)
    BY DEF Coming, K, n
  <2> QED
    BY <1>1, <1>6, <2>1, <2>2 DEF TellsOpening
<1> QED
  BY <1>1, <1>5, <1>7

OpenedAs(d, d2, w, e, f) ==
  /\ d.opened \in Nat /\ w = d.opened + 1 /\ d2.opened = w /\ d2.open = d.open \cup {w}
  /\ TellsOpening(e, w) /\ TellsName(f, w) /\ d2.app[w] = f.app
  /\ \A x \in 1..d.opened : d2.app[x] = d.app[x]

LEMMA OpeningOnWire ==
  ASSUME NEW E, NEW d, NEW wire \in Seq(Announcements),
         Trails(E, wire, 1..Len(wire), d), NEW new, Longer(wire, new, 2), NEW w, NEW d2,
         OpenedAs(d, d2, w, new[Len(wire) + 1], new[Len(wire) + 2])
  PROVE  /\ Trails(E, new, 1..Len(new), d2)
         /\ \A x : Coming(new, x) <=> Coming(wire, x) \/ x = w
         /\ \A r \in E : r.win # w
<1> DEFINE n == Len(wire)
           K == 1..n
           a == n + 1
           b == n + 2
<1>1. /\ n \in Nat /\ K \in SUBSET Int /\ a \in Int /\ b \in Int /\ Len(new) = b /\ a < b
      /\ \A k \in K : k < a /\ new[k] = wire[k]
      /\ 1..Len(new) = K \cup {a, b}
  BY LenProperties DEF Longer
<1>2. /\ TellsOpening(new[a], w) /\ TellsName(new[b], w) /\ d2.app[w] = new[b].app
      /\ d.opened \in Nat /\ w = d.opened + 1 /\ d2.opened = w /\ d2.open = d.open \cup {w}
      /\ \A x \in 1..d.opened : d2.app[x] = d.app[x]
  BY DEF OpenedAs
<1> HIDE DEF n, K, a, b
<1>3. Trails(E, wire, K, d)
  BY DEF K, n
<1>4. Trails(E, new, K, d)
  BY <1>1, <1>3, SameEvents
<1>5. Trails(E, new, K \cup {a, b}, d2)
  <2>1. /\ K \in SUBSET Int /\ a \in Int /\ b \in Int /\ a < b
        /\ \A k \in K : k < a
    BY <1>1
  <2>2. d2.app[w] = new[b].app /\ TellsOpening(new[a], w) /\ TellsName(new[b], w)
    BY <1>2
  <2> QED
    BY <1>2, <1>4, <2>1, <2>2, OpeningTold, SMTT(60)
<1>6. \A x : Coming(new, x) <=> Coming(wire, x) \/ x = w
  <2>1. \A x : Coming(new, x) <=> \E k \in K \cup {a, b} : TellsOpening(new[k], x)
    BY <1>1 DEF Coming
  <2>2. \A x : Coming(wire, x) <=> \E k \in K : TellsOpening(wire[k], x)
    BY DEF Coming, K, n
  <2>3. /\ TellsOpening(new[a], w)
        /\ \A x : ~TellsOpening(new[b], x) /\ (TellsOpening(new[a], x) => x = w)
        /\ \A k \in K : new[k] = wire[k]
    BY <1>1, <1>2 DEF TellsOpening, TellsName
  <2> QED
    BY <2>1, <2>2, <2>3
<1>7. \A r \in E : r.win # w
  BY <1>2, <1>3 DEF Trails, KnownOpened
<1> QED
  BY <1>1, <1>5, <1>6, <1>7

(* The first event of a wire is handled. *)
LEMMA FirstOfWire ==
  ASSUME NEW E, NEW d, NEW wire \in Seq(Announcements), wire # <<>>,
         Trails(E, wire, 1..Len(wire), d)
  PROVE  LET e == Head(wire)
             rest == Tail(wire)
         IN  /\ e \in Announcements /\ rest \in Seq(Announcements)
             /\ e = wire[1]
             /\ \A k \in 1..Len(rest) : rest[k] = wire[k + 1] /\ k + 1 \in 1..Len(wire)
             /\ \A x : Coming(wire, x) <=> TellsOpening(e, x) \/ Coming(rest, x)
             /\ e.what = "toplevel" => \A r \in E : r.win < e.win
             /\ e.what # "toplevel" => \E r \in E : r.win = e.win
             /\ \A y : e.what = "toplevel" /\ y.win = e.win =>
                  Trails(E \cup {y}, rest, 1..Len(rest), d)
             /\ \A y : \A r \in E :
                  /\ e.what \in {"app", "state"} /\ r.win = e.win /\ y.win = e.win
                  /\ y.app = IF e.what = "app" THEN e.app ELSE r.app
                  => Trails(AllBut(E, e.win) \cup {y}, rest, 1..Len(rest), d)
             /\ e.what = "closed" => Trails(AllBut(E, e.win), rest, 1..Len(rest), d)
<1> DEFINE n == Len(wire)
           K == 1..n
           e == Head(wire)
           rest == Tail(wire)
<1>1. /\ n \in Nat /\ n > 0 /\ e = wire[1] /\ e \in Announcements
      /\ rest \in Seq(Announcements) /\ Len(rest) = n - 1
      /\ \A k \in 1..Len(rest) : rest[k] = wire[k + 1]
  <2>1. Len(wire) > 0 /\ Len(wire) \in Nat
    BY EmptySeq, LenProperties
  <2> QED
    BY <2>1, HeadTailProperties, ElementOfSeq
<1>2. \A k \in 1..Len(rest) : k + 1 \in 1..n
  BY <1>1
<1>3. \A F : Trails(F, wire, K \ {1}, d) => Trails(F, rest, 1..Len(rest), d)
  BY WireMovesOn
<1> HIDE DEF rest, e, n
<1>4. 1 \in K /\ K \in SUBSET Int /\ \A k \in K : 1 <= k
  BY <1>1
<1>5. \A k \in K : k = 1 \/ k - 1 \in 1..Len(rest)
  BY <1>1
<1>6. \A x : Coming(wire, x) <=> TellsOpening(e, x) \/ Coming(rest, x)
  <2>1. \A x : Coming(wire, x) <=> \E k \in K : TellsOpening(wire[k], x)
    BY DEF Coming, n
  <2>2. ASSUME NEW x, NEW k \in K, TellsOpening(wire[k], x)
        PROVE  TellsOpening(e, x) \/ Coming(rest, x)
    <3>1. CASE k = 1
      BY <1>1, <2>2, <3>1
    <3>2. CASE k # 1
      <4>1. k - 1 \in 1..Len(rest) /\ k - 1 + 1 = k
        BY <1>1, <1>5, <3>2
      <4> QED
        BY <1>1, <2>2, <4>1 DEF Coming
    <3> QED
      BY <3>1, <3>2
  <2>3. ASSUME NEW x, Coming(rest, x) PROVE \E k \in K : TellsOpening(wire[k], x)
    BY <1>1, <1>2, <2>3 DEF Coming
  <2>4. ASSUME NEW x, TellsOpening(e, x) PROVE \E k \in K : TellsOpening(wire[k], x)
    BY <1>1, <1>4, <2>4
  <2> QED
    BY <2>1, <2>2, <2>3, <2>4
<1>7. Trails(E, wire, K, d)
  BY DEF n
<1>8. e.what = "toplevel" => \A r \in E : r.win < e.win
  BY <1>1, <1>4, <1>7 DEF Trails, TopsInOrder
<1>9. e.what # "toplevel" => \E r \in E : r.win = e.win
  <2> SUFFICES ASSUME e.what # "toplevel" PROVE \E r \in E : r.win = e.win
    OBVIOUS
  <2>1. \/ \E r \in E : r.win = wire[1].win
        \/ \E l \in K : l < 1 /\ TellsOpening(wire[l], wire[1].win)
    BY <1>1, <1>4, <1>7 DEF Trails, OfTheKnown
  <2> HIDE DEF K
  <2>2. \A l \in K : ~(l < 1)
    BY <1>4
  <2> QED
    BY <1>1, <2>1, <2>2
<1> HIDE DEF K
<1>10. ASSUME NEW y, e.what = "toplevel", y.win = e.win
       PROVE  Trails(E \cup {y}, rest, 1..Len(rest), d)
  BY <1>1, <1>3, <1>4, <1>7, <1>10, NewKnown
<1>11. ASSUME NEW r \in E, NEW y, e.what \in {"app", "state"}, r.win = e.win, y.win = e.win,
              y.app = IF e.what = "app" THEN e.app ELSE r.app
       PROVE  Trails(AllBut(E, e.win) \cup {y}, rest, 1..Len(rest), d)
  <2>1. Trails(AllBut(E, wire[1].win) \cup {y}, wire, K \ {1}, d)
    BY <1>1, <1>4, <1>7, <1>11, KnownChanges
  <2> QED
    BY <1>1, <1>3, <2>1
<1>12. e.what = "closed" => Trails(AllBut(E, e.win), rest, 1..Len(rest), d)
  <2>1. wire[1].what = "closed" => Trails(AllBut(E, wire[1].win), wire, K \ {1}, d)
    BY <1>4, <1>7, KnownGoes
  <2> QED
    BY <1>1, <1>3, <2>1
<1> QED
  BY <1>1, <1>2, <1>6, <1>8, <1>9, <1>10, <1>11, <1>12 DEF e, rest, n

(* The strengthening.  While no match was made early, an identifier is the      *)
(* window's, a window that both lists hold is marked in both or in neither, and *)
(* one that only the one holds yet is marked in neither.                        *)
Users ==
  [row : Nat, verb : {"none", "raise", "command", "close", "minimise"},
   hidden : BOOLEAN, hasty : BOOLEAN, acts : Nat]
Marked(E, X, toE, toX) ==
  /\ \A h \in E : h.identifier \in {0, h.win}
  /\ \A h \in E, x \in X : h.win = x.win => (x.used <=> h.identifier # 0)
  /\ \A h \in E : Coming(toX, h.win) => h.identifier = 0
  /\ \A x \in X : Coming(toE, x.win) => ~x.used
WindowTyped ==
  /\ desk \in DeskStates /\ user \in Users
  /\ wlrWire \in Seq(Announcements) /\ extWire \in Seq(Announcements)
  /\ \A k \in 1..Len(extWire) : extWire[k].what # "state"
  /\ wlr \in Seq(Handles) /\ ext \in Seq(Toplevels) /\ NewestFirst(wlr) /\ NewestFirst(ext)
WindowTrails ==
  /\ Trails(ToSet(wlr), wlrWire, 1..Len(wlrWire), desk)
  /\ Trails(ToSet(ext), extWire, 1..Len(extWire), desk)
WindowSound == ~user.hasty => Marked(ToSet(wlr), ToSet(ext), wlrWire, extWire)
WindowIInv == WindowTyped /\ WindowTrails /\ WindowSound

LEMMA WindowEnough == WindowIInv => CommandsHitTheirWindow
  BY DEF WindowIInv, WindowSound, Marked, CommandsHitTheirWindow, NoIdentifier

LEMMA WindowInitially ==
  ASSUME WindowAssumption, NEW on, WindowInit(on) PROVE WindowIInv
<1>1. /\ wlrWire = <<>> /\ extWire = <<>> /\ wlr = <<>> /\ ext = <<>> /\ user = NoUser
      /\ desk.open = {} /\ desk \in DeskStates
  BY WindowAssumption DEF WindowInit, DeskStates, WindowNames
<1>2. WindowTyped
  BY <1>1 DEF WindowTyped, Users, NoUser, NewestFirst
<1>3. ToSet(<<>>) = {} /\ Len(<<>>) = 0
  BY DEF ToSet
<1>4. WindowTrails
  BY <1>1, <1>3 DEF WindowTrails, Trails, TopsInOrder, KnownOpened, OpenComes, OfTheKnown,
     EndIsLast, ClosedEnds, AppsFollow
<1>5. WindowSound
  BY <1>1, <1>3 DEF WindowSound, Marked
<1> QED
  BY <1>2, <1>4, <1>5 DEF WindowIInv

LEMMA SoundLess ==
  ASSUME NEW E, NEW X, NEW toE, NEW toX, Marked(E, X, toE, toX),
         NEW F, NEW Y, NEW newE, NEW newX,
         \A h \in F : \E g \in E : h.win = g.win /\ h.identifier = g.identifier,
         \A x \in Y : \E y \in X : x.win = y.win /\ x.used = y.used,
         \A h \in F : Coming(newX, h.win) => Coming(toX, h.win),
         \A x \in Y : Coming(newE, x.win) => Coming(toE, x.win)
  PROVE  Marked(F, Y, newE, newX)
<1>1. \A h \in F : h.identifier \in {0, h.win}
  BY DEF Marked
<1>2. \A h \in F, x \in Y : h.win = x.win => (x.used <=> h.identifier # 0)
  BY DEF Marked
<1>3. \A h \in F : Coming(newX, h.win) => h.identifier = 0
  BY DEF Marked
<1>4. \A x \in Y : Coming(newE, x.win) => ~x.used
  BY DEF Marked
<1> QED
  BY <1>1, <1>2, <1>3, <1>4 DEF Marked

LEMMA HandleSets ==
  ASSUME WindowAssumption
  PROVE  Numbered(Handles) /\ Numbered(Toplevels)
  BY WindowAssumption DEF Numbered, Handles, Toplevels

LEMMA EventsTyped ==
  ASSUME NEW w \in 1..Windows, NEW a \in WindowNames
  PROVE  /\ WindowEvent("toplevel", w) \in Announcements
         /\ WindowEvent("closed", w) \in Announcements /\ Named(w, a) \in Announcements
         /\ \A s \in BOOLEAN : Bearing(w, s) \in Announcements
         /\ TellsOpening(WindowEvent("toplevel", w), w) /\ TellsEnd(WindowEvent("closed", w), w)
         /\ TellsName(Named(w, a), w) /\ Named(w, a).app = a
         /\ \A s : Bearing(w, s).what = "state" /\ Bearing(w, s).win = w
         /\ Named(w, a).what = "app" /\ WindowEvent("closed", w).what = "closed"
         /\ WindowEvent("toplevel", w).what = "toplevel"
  BY DEF WindowEvent, Named, Bearing, Announcements, WindowNames, TellsOpening, TellsName,
         TellsEnd

(* What the compositor does. *)
LEMMA TwoTold ==
  ASSUME NEW E, NEW d, NEW wire \in Seq(Announcements), Trails(E, wire, 1..Len(wire), d),
         NEW e \in Announcements, NEW f \in Announcements, NEW d2, NEW w,
         OpenedAs(d, d2, w, e, f)
  PROVE  /\ Trails(E, wire \o <<e, f>>, 1..Len(wire \o <<e, f>>), d2)
         /\ \A x : Coming(wire \o <<e, f>>, x) <=> Coming(wire, x) \/ x = w
         /\ \A h \in E : h.win # w
         /\ wire \o <<e, f>> \in Seq(Announcements)
         /\ \A k \in 1..Len(wire \o <<e, f>>) :
              \/ k \in 1..Len(wire) /\ (wire \o <<e, f>>)[k] = wire[k]
              \/ (wire \o <<e, f>>)[k] \in {e, f}
<1> DEFINE new == wire \o <<e, f>>
<1>1. /\ Longer(wire, new, 2) /\ new[Len(wire) + 1] = e /\ new[Len(wire) + 2] = f
  BY WireAppendTwo
<1> HIDE DEF new
<1>2. Longer(wire, new, 2) /\ OpenedAs(d, d2, w, new[Len(wire) + 1], new[Len(wire) + 2])
  BY <1>1
<1>4. /\ Trails(E, new, 1..Len(new), d2)
      /\ \A x : Coming(new, x) <=> Coming(wire, x) \/ x = w
      /\ \A h \in E : h.win # w
  BY <1>2, OpeningOnWire
<1>5. \A k \in 1..(Len(wire) + 2) :
        k \in 1..Len(wire) \/ k = Len(wire) + 1 \/ k = Len(wire) + 2
  BY LenProperties
<1>6. \A k \in 1..Len(new) : (k \in 1..Len(wire) /\ new[k] = wire[k]) \/ new[k] \in {e, f}
  BY <1>1, <1>5 DEF Longer
<1> QED
  BY <1>1, <1>4, <1>6 DEF Longer, new

LEMMA WindowOpens ==
  ASSUME WindowAssumption, WindowIInv, NEW a \in Apps, OpenWindow(a)
  PROVE  WindowIInv'
<1> DEFINE w == desk.opened + 1
           e == WindowEvent("toplevel", w)
           f == Named(w, a)
<1>1. /\ desk \in DeskStates /\ w \in 1..Windows /\ a \in WindowNames
      /\ desk.opened \in Nat
      /\ \A x \in 1..desk.opened : x # w /\ x \in 1..Windows
  BY WindowAssumption DEF WindowIInv, WindowTyped, OpenWindow, DeskStates, WindowNames
<1>2. /\ wlrWire' = wlrWire \o <<e, f>> /\ extWire' = extWire \o <<e, f>>
      /\ UNCHANGED <<wlr, ext, user>>
      /\ desk' = [desk EXCEPT !.opened = w, !.open = @ \cup {w}, !.app[w] = a]
  BY DEF OpenWindow, Announce
<1>3. /\ desk' \in DeskStates /\ desk'.opened = w /\ desk'.open = desk.open \cup {w}
      /\ desk'.app[w] = a /\ \A x \in 1..desk.opened : desk'.app[x] = desk.app[x]
  <2> HIDE DEF w
  <2>1. desk' = [opened |-> w, open |-> desk.open \cup {w}, app |-> [desk.app EXCEPT ![w] = a],
                 small |-> desk.small, renames |-> desk.renames]
    BY <1>1, <1>2 DEF DeskStates
  <2>2. [desk.app EXCEPT ![w] = a] \in [1..Windows -> WindowNames]
    BY <1>1 DEF DeskStates
  <2>3. /\ [desk.app EXCEPT ![w] = a][w] = a
        /\ \A x \in 1..desk.opened : [desk.app EXCEPT ![w] = a][x] = desk.app[x]
    BY <1>1 DEF DeskStates
  <2>4. w \in 0..Windows /\ desk.open \cup {w} \in SUBSET (1..Windows)
    BY <1>1, WindowAssumption DEF DeskStates
  <2>5. desk' \in DeskStates
    BY <1>1, <2>1, <2>2, <2>4 DEF DeskStates
  <2> QED
    BY <2>1, <2>3, <2>5
<1>4. /\ e \in Announcements /\ f \in Announcements /\ TellsOpening(e, w) /\ TellsName(f, w)
      /\ f.app = a /\ e.what # "state" /\ f.what # "state"
  <2> HIDE DEF w
  <2> QED
    BY <1>1, EventsTyped
<1> HIDE DEF w, e, f
<1>5. wlrWire \in Seq(Announcements) /\ extWire \in Seq(Announcements)
  BY DEF WindowIInv, WindowTyped
<1>6. w = desk.opened + 1
  BY DEF w
<1>12. OpenedAs(desk, desk', w, e, f)
  BY <1>1, <1>3, <1>4, <1>6 DEF OpenedAs
<1>7. /\ Trails(ToSet(wlr), wlrWire', 1..Len(wlrWire'), desk')
      /\ \A x : Coming(wlrWire', x) <=> Coming(wlrWire, x) \/ x = w
      /\ \A h \in ToSet(wlr) : h.win # w
      /\ wlrWire' \in Seq(Announcements)
  <2>1. Trails(ToSet(wlr), wlrWire, 1..Len(wlrWire), desk)
    BY DEF WindowIInv, WindowTrails
  <2> QED
    BY <1>2, <1>4, <1>5, <1>12, <2>1, TwoTold
<1>8. /\ Trails(ToSet(ext), extWire', 1..Len(extWire'), desk')
      /\ \A x : Coming(extWire', x) <=> Coming(extWire, x) \/ x = w
      /\ \A h \in ToSet(ext) : h.win # w
      /\ extWire' \in Seq(Announcements)
      /\ \A k \in 1..Len(extWire') : extWire'[k].what # "state"
  <2>1. Trails(ToSet(ext), extWire, 1..Len(extWire), desk)
    BY DEF WindowIInv, WindowTrails
  <2>2. \A k \in 1..Len(extWire) : extWire[k].what # "state"
    BY DEF WindowIInv, WindowTyped
  <2> QED
    BY <1>2, <1>4, <1>5, <1>12, <2>1, <2>2, TwoTold
<1>9. WindowSound'
  <2> SUFFICES ASSUME ~user'.hasty
               PROVE  Marked(ToSet(wlr), ToSet(ext), wlrWire', extWire')
    BY <1>2 DEF WindowSound
  <2>1. Marked(ToSet(wlr), ToSet(ext), wlrWire, extWire)
    BY <1>2 DEF WindowIInv, WindowSound
  <2> QED
    BY <1>7, <1>8, <2>1, SoundLess
<1>10. WindowTyped'
  BY <1>2, <1>3, <1>7, <1>8 DEF WindowIInv, WindowTyped
<1>11. WindowTrails'
  BY <1>2, <1>7, <1>8 DEF WindowTrails
<1> QED
  BY <1>9, <1>10, <1>11 DEF WindowIInv

(* One thing is told of an open window, over both protocols or over the one. *)
Tells(e, d2) ==
  \/ \E w \in desk.open :
       TellsEnd(e, w) /\ d2.app = desk.app /\ d2.open = desk.open \ {w}
  \/ e.what = "state" /\ e.win \in desk.open /\ d2.app = desk.app /\ d2.open = desk.open
  \/ \E w \in desk.open :
       /\ TellsName(e, w) /\ d2.open = desk.open /\ d2.app[w] = e.app
       /\ \A x \in 1..desk.opened : x # w => d2.app[x] = desk.app[x]

LEMMA OneTold ==
  ASSUME NEW E, NEW wire \in Seq(Announcements), Trails(E, wire, 1..Len(wire), desk),
         NEW e \in Announcements, NEW d2, d2.opened = desk.opened, Tells(e, d2)
  PROVE  /\ Trails(E, wire \o <<e>>, 1..Len(wire \o <<e>>), d2)
         /\ \A x : Coming(wire \o <<e>>, x) <=> Coming(wire, x)
         /\ wire \o <<e>> \in Seq(Announcements)
         /\ \A k \in 1..Len(wire \o <<e>>) :
              (k \in 1..Len(wire) /\ (wire \o <<e>>)[k] = wire[k]) \/ (wire \o <<e>>)[k] = e
<1> DEFINE new == wire \o <<e>>
<1>1. Longer(wire, new, 1) /\ new[Len(wire) + 1] = e
  BY WireAppend
<1> HIDE DEF new
<1>2. \/ \E w \in desk.open :
           /\ TellsEnd(new[Len(wire) + 1], w)
           /\ d2.app = desk.app /\ d2.open = desk.open \ {w}
      \/ /\ new[Len(wire) + 1].what = "state" /\ new[Len(wire) + 1].win \in desk.open
         /\ d2.app = desk.app /\ d2.open = desk.open
      \/ \E w \in desk.open :
           /\ TellsName(new[Len(wire) + 1], w) /\ d2.open = desk.open
           /\ d2.app[w] = new[Len(wire) + 1].app
           /\ \A x \in 1..desk.opened : x # w => d2.app[x] = desk.app[x]
  BY <1>1 DEF Tells
<1>3. /\ Trails(E, new, 1..Len(new), d2)
      /\ \A x : Coming(new, x) <=> Coming(wire, x)
  BY <1>1, <1>2, OneOnWire
<1>4. \A k \in 1..(Len(wire) + 1) : k \in 1..Len(wire) \/ k = Len(wire) + 1
  BY LenProperties
<1>5. \A k \in 1..Len(new) : (k \in 1..Len(wire) /\ new[k] = wire[k]) \/ new[k] = e
  BY <1>1, <1>4 DEF Longer
<1> QED
  BY <1>1, <1>3, <1>5 DEF Longer, new

LEMMA WindowTold ==
  ASSUME WindowIInv, NEW e \in Announcements, Tells(e, desk'),
         desk' \in DeskStates, desk'.opened = desk.opened, UNCHANGED <<wlr, ext>>,
         user' \in Users, user'.hasty = user.hasty, wlrWire' = wlrWire \o <<e>>,
         \/ extWire' = extWire \o <<e>> /\ e.what # "state"
         \/ extWire' = extWire /\ desk'.app = desk.app /\ desk'.open = desk.open
  PROVE  WindowIInv'
<1>1. /\ wlrWire \in Seq(Announcements) /\ extWire \in Seq(Announcements)
      /\ Trails(ToSet(wlr), wlrWire, 1..Len(wlrWire), desk)
      /\ Trails(ToSet(ext), extWire, 1..Len(extWire), desk)
      /\ \A k \in 1..Len(extWire) : extWire[k].what # "state"
  BY DEF WindowIInv, WindowTyped, WindowTrails
<1>2. /\ Trails(ToSet(wlr), wlrWire', 1..Len(wlrWire'), desk')
      /\ \A x : Coming(wlrWire', x) <=> Coming(wlrWire, x)
      /\ wlrWire' \in Seq(Announcements)
  BY <1>1, OneTold
<1>3. /\ Trails(ToSet(ext), extWire', 1..Len(extWire'), desk')
      /\ \A x : Coming(extWire', x) <=> Coming(extWire, x)
      /\ extWire' \in Seq(Announcements)
      /\ \A k \in 1..Len(extWire') : extWire'[k].what # "state"
  <2>1. CASE extWire' = extWire \o <<e>> /\ e.what # "state"
    BY <1>1, <2>1, OneTold
  <2>2. CASE extWire' = extWire /\ desk'.app = desk.app /\ desk'.open = desk.open
    BY <1>1, <2>2, SameDesk
  <2> QED
    BY <2>1, <2>2
<1>4. WindowSound'
  <2> SUFFICES ASSUME ~user'.hasty
               PROVE  Marked(ToSet(wlr), ToSet(ext), wlrWire', extWire')
    BY DEF WindowSound
  <2>1. Marked(ToSet(wlr), ToSet(ext), wlrWire, extWire)
    BY DEF WindowIInv, WindowSound
  <2> QED
    BY <1>2, <1>3, <2>1, SoundLess
<1>5. WindowTyped'
  BY <1>2, <1>3 DEF WindowIInv, WindowTyped
<1>6. WindowTrails'
  BY <1>2, <1>3 DEF WindowTrails
<1> QED
  BY <1>4, <1>5, <1>6 DEF WindowIInv

(* What the listeners do. *)
LEMMA SoundNewHandle ==
  ASSUME NEW E, NEW X, NEW toE, NEW toX, Marked(E, X, toE, toX), NEW y,
         y.identifier = 0, Coming(toE, y.win),
         NEW rest, \A x : Coming(rest, x) => Coming(toE, x)
  PROVE  Marked(E \cup {y}, X, rest, toX)
<1>1. \A h \in E \cup {y} : h.identifier \in {0, h.win}
  BY DEF Marked
<1>2. \A h \in E \cup {y}, x \in X : h.win = x.win => (x.used <=> h.identifier # 0)
  <2>1. \A x \in X : x.win = y.win => ~x.used
    BY DEF Marked
  <2>2. \A h \in E, x \in X : h.win = x.win => (x.used <=> h.identifier # 0)
    BY DEF Marked
  <2> QED
    BY <2>1, <2>2
<1>3. \A h \in E \cup {y} : Coming(toX, h.win) => h.identifier = 0
  BY DEF Marked
<1>4. \A x \in X : Coming(rest, x.win) => ~x.used
  BY DEF Marked
<1> QED
  BY <1>1, <1>2, <1>3, <1>4 DEF Marked

LEMMA SoundNewToplevel ==
  ASSUME NEW E, NEW X, NEW toE, NEW toX, Marked(E, X, toE, toX), NEW y,
         ~y.used, Coming(toX, y.win),
         NEW rest, \A x : Coming(rest, x) => Coming(toX, x)
  PROVE  Marked(E, X \cup {y}, toE, rest)
<1>1. \A h \in E : h.identifier \in {0, h.win}
  BY DEF Marked
<1>2. \A h \in E, x \in X \cup {y} : h.win = x.win => (x.used <=> h.identifier # 0)
  <2>1. \A h \in E : h.win = y.win => h.identifier = 0
    BY DEF Marked
  <2>2. \A h \in E, x \in X : h.win = x.win => (x.used <=> h.identifier # 0)
    BY DEF Marked
  <2> QED
    BY <2>1, <2>2
<1>3. \A h \in E : Coming(rest, h.win) => h.identifier = 0
  BY DEF Marked
<1>4. \A x \in X \cup {y} : Coming(toE, x.win) => ~x.used
  BY DEF Marked
<1> QED
  BY <1>1, <1>2, <1>3, <1>4 DEF Marked

LEMMA WlrHandled ==
  ASSUME WindowAssumption, WindowIInv, WlrEvent
  PROVE  WindowIInv'
<1> DEFINE e == Head(wlrWire)
           rest == Tail(wlrWire)
           i == HandleAt(wlr, e.win)
           E == ToSet(wlr)
<1>1. /\ desk \in DeskStates /\ user \in Users
      /\ wlrWire \in Seq(Announcements) /\ extWire \in Seq(Announcements)
      /\ wlr \in Seq(Handles) /\ ext \in Seq(Toplevels) /\ NewestFirst(wlr) /\ NewestFirst(ext)
      /\ Trails(E, wlrWire, 1..Len(wlrWire), desk)
      /\ Numbered(Handles)
  BY HandleSets DEF WindowIInv, WindowTyped, WindowTrails
<1>2. /\ wlrWire # <<>> /\ wlrWire' = rest /\ UNCHANGED <<desk, extWire, ext, user>>
      /\ wlr' = CASE e.what = "toplevel" ->
                       <<[win |-> e.win, app |-> Unset, small |-> FALSE,
                          identifier |-> NoIdentifier]>> \o wlr
                  [] e.what = "app" -> [wlr EXCEPT ![i].app = e.app]
                  [] e.what = "state" -> [wlr EXCEPT ![i].small = e.small]
                  [] e.what = "closed" -> RemoveAt(wlr, i)
  BY DEF WlrEvent
<1> HIDE DEF i
<1>3. /\ e \in Announcements /\ rest \in Seq(Announcements)
      /\ \A x : Coming(wlrWire, x) <=> TellsOpening(e, x) \/ Coming(rest, x)
      /\ e.what = "toplevel" => \A r \in E : r.win < e.win
      /\ e.what # "toplevel" => \E r \in E : r.win = e.win
  BY <1>1, <1>2, FirstOfWire
<1>4. /\ \A y : e.what = "toplevel" /\ y.win = e.win =>
           Trails(E \cup {y}, rest, 1..Len(rest), desk)
      /\ \A y : \A r \in E :
           /\ e.what \in {"app", "state"} /\ r.win = e.win /\ y.win = e.win
           /\ y.app = IF e.what = "app" THEN e.app ELSE r.app
           => Trails(AllBut(E, e.win) \cup {y}, rest, 1..Len(rest), desk)
      /\ e.what = "closed" => Trails(AllBut(E, e.win), rest, 1..Len(rest), desk)
  BY <1>1, <1>2, FirstOfWire
<1>5. e.what # "toplevel" => i \in 1..Len(wlr) /\ wlr[i].win = e.win /\ wlr[i] \in E
  BY <1>1, <1>3, HandleIs DEF i
<1> HIDE DEF e, rest
<1>6. e.what \in {"toplevel", "app", "state", "closed"} /\ e.win \in 1..Windows
      /\ e.app \in WindowNames /\ e.small \in BOOLEAN
  BY <1>3 DEF Announcements
<1>7. /\ wlr' \in Seq(Handles) /\ NewestFirst(wlr')
      /\ Trails(ToSet(wlr'), rest, 1..Len(rest), desk)
      /\ ~user.hasty => Marked(ToSet(wlr'), ToSet(ext), rest, extWire)
  <2>1. ~user.hasty => Marked(E, ToSet(ext), wlrWire, extWire)
    BY DEF WindowIInv, WindowSound
  <2>2. \A x : Coming(rest, x) => Coming(wlrWire, x)
    BY <1>3
  <2>3. CASE e.what = "toplevel"
    <3> DEFINE y == [win |-> e.win, app |-> Unset, small |-> FALSE, identifier |-> 0]
    <3>1. y \in Handles /\ y.win = e.win /\ y.identifier = 0
      BY <1>6, WindowAssumption DEF Handles, WindowNames
    <3>2. wlr' = <<y>> \o wlr
      BY <1>2, <2>3 DEF NoIdentifier
    <3> HIDE DEF y
    <3>3. wlr' \in Seq(Handles) /\ NewestFirst(wlr') /\ ToSet(wlr') = E \cup {y}
      BY <1>1, <1>3, <2>3, <3>1, <3>2, NewHandle
    <3>4. Coming(wlrWire, y.win)
      BY <1>3, <2>3, <3>1 DEF TellsOpening
    <3> HIDE DEF E
    <3> QED
      BY <1>4, <2>1, <2>2, <2>3, <3>1, <3>3, <3>4, SoundNewHandle
  <2>4. ASSUME NEW y \in Handles, wlr' = [wlr EXCEPT ![i] = y],
               e.what \in {"app", "state"}, y.win = e.win,
               y.app = IF e.what = "app" THEN e.app ELSE wlr[i].app,
               y.identifier = wlr[i].identifier
        PROVE  /\ wlr' \in Seq(Handles) /\ NewestFirst(wlr')
               /\ Trails(ToSet(wlr'), rest, 1..Len(rest), desk)
               /\ ~user.hasty => Marked(ToSet(wlr'), ToSet(ext), rest, extWire)
    <3>1. e.what # "toplevel"
      BY <2>4
    <3>2. /\ wlr' \in Seq(Handles) /\ NewestFirst(wlr')
          /\ ToSet(wlr') = AllBut(E, e.win) \cup {y}
      <4>1. i \in 1..Len(wlr) /\ y.win = wlr[i].win /\ y.win = e.win
        BY <1>5, <2>4, <3>1
      <4>2. wlr \in Seq(Handles) /\ NewestFirst(wlr) /\ Numbered(Handles)
        BY <1>1
      <4>4. y \in Handles
        BY <2>4
      <4>3. wlr' \in Seq(Handles) /\ ReplacedAt(wlr, i, y, wlr')
        BY <2>4, <4>1, <4>2, <4>4, ReplacedBy
      <4>5. OrderedList(Handles, wlr) /\ HandleOf(wlr, i, y)
        BY <4>1, <4>2 DEF OrderedList, HandleOf
      <4>6. NewestFirst(wlr') /\ ToSet(wlr') = AllBut(ToSet(wlr), y.win) \cup {y}
        BY <4>3, <4>4, <4>5, HandleChanges
      <4> QED
        BY <4>1, <4>3, <4>6
    <3>3. Trails(ToSet(wlr'), rest, 1..Len(rest), desk)
      BY <1>4, <1>5, <2>4, <3>1, <3>2
    <3>4. \A h \in ToSet(wlr') : \E g \in E : h.win = g.win /\ h.identifier = g.identifier
      BY <1>5, <2>4, <3>1, <3>2 DEF AllBut
    <3>5. ~user.hasty => Marked(ToSet(wlr'), ToSet(ext), rest, extWire)
      BY <2>1, <2>2, <3>4, SoundLess
    <3> QED
      BY <3>2, <3>3, <3>5
  <2>5. CASE e.what = "app"
    <3> DEFINE y == [wlr[i] EXCEPT !.app = e.app]
    <3>1. wlr[i] \in Handles
      BY <1>1, <1>5, <2>5, ElementOfSeq
    <3>2. /\ y \in Handles /\ y.win = wlr[i].win /\ y.app = e.app
          /\ y.identifier = wlr[i].identifier
      BY <1>6, <3>1 DEF Handles
    <3>3. wlr' = [wlr EXCEPT ![i] = y]
      BY <1>2, <2>5
    <3> HIDE DEF y
    <3> QED
      BY <1>5, <2>4, <2>5, <3>2, <3>3
  <2>6. CASE e.what = "state"
    <3> DEFINE y == [wlr[i] EXCEPT !.small = e.small]
    <3>1. wlr[i] \in Handles
      BY <1>1, <1>5, <2>6, ElementOfSeq
    <3>2. /\ y \in Handles /\ y.win = wlr[i].win /\ y.app = wlr[i].app
          /\ y.identifier = wlr[i].identifier
      BY <1>6, <3>1 DEF Handles
    <3>3. wlr' = [wlr EXCEPT ![i] = y]
      BY <1>2, <2>6
    <3> HIDE DEF y
    <3> QED
      BY <1>5, <2>4, <2>6, <3>2, <3>3
  <2>7. CASE e.what = "closed"
    <3>1. wlr' = RemoveAt(wlr, i)
      BY <1>2, <2>7
    <3>2. wlr' \in Seq(Handles) /\ NewestFirst(wlr') /\ ToSet(wlr') = AllBut(E, e.win)
      BY <1>1, <1>5, <2>7, <3>1, HandleGoes
    <3>3. \A h \in ToSet(wlr') : \E g \in E : h.win = g.win /\ h.identifier = g.identifier
      BY <3>2 DEF AllBut
    <3>4. ~user.hasty => Marked(ToSet(wlr'), ToSet(ext), rest, extWire)
      BY <2>1, <2>2, <3>3, SoundLess
    <3> QED
      BY <1>4, <2>7, <3>2, <3>4
  <2> QED
    BY <1>6, <2>3, <2>5, <2>6, <2>7
<1>8. WindowTyped'
  BY <1>1, <1>2, <1>3, <1>7 DEF WindowIInv, WindowTyped
<1>9. WindowTrails'
  BY <1>2, <1>7 DEF WindowIInv, WindowTrails
<1>10. WindowSound'
  BY <1>2, <1>7 DEF WindowSound
<1> QED
  BY <1>8, <1>9, <1>10 DEF WindowIInv

LEMMA ExtHandled ==
  ASSUME WindowAssumption, WindowIInv, ExtEvent
  PROVE  WindowIInv'
<1> DEFINE e == Head(extWire)
           rest == Tail(extWire)
           i == HandleAt(ext, e.win)
           E == ToSet(ext)
<1>1. /\ desk \in DeskStates /\ user \in Users
      /\ wlrWire \in Seq(Announcements) /\ extWire \in Seq(Announcements)
      /\ wlr \in Seq(Handles) /\ ext \in Seq(Toplevels) /\ NewestFirst(wlr) /\ NewestFirst(ext)
      /\ Trails(E, extWire, 1..Len(extWire), desk)
      /\ Numbered(Toplevels) /\ \A k \in 1..Len(extWire) : extWire[k].what # "state"
  BY HandleSets DEF WindowIInv, WindowTyped, WindowTrails
<1>2. /\ extWire # <<>> /\ extWire' = rest /\ UNCHANGED <<desk, wlrWire, wlr, user>>
      /\ ext' = CASE e.what = "toplevel" ->
                       <<[win |-> e.win, app |-> Unset, used |-> FALSE]>> \o ext
                  [] e.what = "app" -> [ext EXCEPT ![i].app = e.app]
                  [] e.what = "closed" -> RemoveAt(ext, i)
  BY DEF ExtEvent
<1> HIDE DEF i
<1>3. /\ e \in Announcements /\ rest \in Seq(Announcements)
      /\ \A x : Coming(extWire, x) <=> TellsOpening(e, x) \/ Coming(rest, x)
      /\ e.what = "toplevel" => \A r \in E : r.win < e.win
      /\ e.what # "toplevel" => \E r \in E : r.win = e.win
  BY <1>1, <1>2, FirstOfWire
<1>4. /\ \A y : e.what = "toplevel" /\ y.win = e.win =>
           Trails(E \cup {y}, rest, 1..Len(rest), desk)
      /\ \A y : \A r \in E :
           /\ e.what \in {"app", "state"} /\ r.win = e.win /\ y.win = e.win
           /\ y.app = IF e.what = "app" THEN e.app ELSE r.app
           => Trails(AllBut(E, e.win) \cup {y}, rest, 1..Len(rest), desk)
      /\ e.what = "closed" => Trails(AllBut(E, e.win), rest, 1..Len(rest), desk)
  BY <1>1, <1>2, FirstOfWire
<1>5. e.what # "toplevel" => i \in 1..Len(ext) /\ ext[i].win = e.win /\ ext[i] \in E
  BY <1>1, <1>3, HandleIs DEF i
<1>11. /\ e = extWire[1]
       /\ \A k \in 1..Len(rest) : rest[k] = extWire[k + 1] /\ k + 1 \in 1..Len(extWire)
  BY <1>1, <1>2, FirstOfWire
<1>12. 1 \in 1..Len(extWire)
  BY <1>1, <1>2, EmptySeq, LenProperties
<1> HIDE DEF e, rest
<1>6. e.what \in {"toplevel", "app", "closed"} /\ e.win \in 1..Windows /\ e.app \in WindowNames
  BY <1>1, <1>3, <1>11, <1>12 DEF Announcements
<1>7. /\ ext' \in Seq(Toplevels) /\ NewestFirst(ext')
      /\ Trails(ToSet(ext'), rest, 1..Len(rest), desk)
      /\ ~user.hasty => Marked(ToSet(wlr), ToSet(ext'), wlrWire, rest)
  <2>1. ~user.hasty => Marked(ToSet(wlr), E, wlrWire, extWire)
    BY DEF WindowIInv, WindowSound
  <2>2. \A x : Coming(rest, x) => Coming(extWire, x)
    BY <1>3
  <2>3. CASE e.what = "toplevel"
    <3> DEFINE y == [win |-> e.win, app |-> Unset, used |-> FALSE]
    <3>1. y \in Toplevels /\ y.win = e.win /\ ~y.used
      BY <1>6, WindowAssumption DEF Toplevels, WindowNames
    <3>2. ext' = <<y>> \o ext
      BY <1>2, <2>3
    <3> HIDE DEF y
    <3>3. ext' \in Seq(Toplevels) /\ NewestFirst(ext') /\ ToSet(ext') = E \cup {y}
      BY <1>1, <1>3, <2>3, <3>1, <3>2, NewHandle
    <3>4. Coming(extWire, y.win)
      BY <1>3, <2>3, <3>1 DEF TellsOpening
    <3> HIDE DEF E
    <3> QED
      BY <1>4, <2>1, <2>2, <2>3, <3>1, <3>3, <3>4, SoundNewToplevel
  <2>5. CASE e.what = "app"
    <3> DEFINE y == [ext[i] EXCEPT !.app = e.app]
    <3>1. ext[i] \in Toplevels
      BY <1>1, <1>5, <2>5, ElementOfSeq
    <3>2. y \in Toplevels /\ y.win = ext[i].win /\ y.app = e.app /\ y.used = ext[i].used
      BY <1>6, <3>1 DEF Toplevels
    <3>3. ext' = [ext EXCEPT ![i] = y]
      BY <1>2, <2>5
    <3> HIDE DEF y
    <3>4. e.what # "toplevel"
      BY <2>5
    <3>5. /\ ext' \in Seq(Toplevels) /\ NewestFirst(ext')
          /\ ToSet(ext') = AllBut(E, e.win) \cup {y}
      <4>1. i \in 1..Len(ext) /\ y.win = ext[i].win /\ y.win = e.win
        BY <1>5, <3>2, <3>4
      <4>2. ext \in Seq(Toplevels) /\ NewestFirst(ext) /\ Numbered(Toplevels)
        BY <1>1
      <4>4. y \in Toplevels
        BY <3>2
      <4>3. ext' \in Seq(Toplevels) /\ ReplacedAt(ext, i, y, ext')
        BY <3>3, <4>1, <4>2, <4>4, ReplacedBy
      <4>5. OrderedList(Toplevels, ext) /\ HandleOf(ext, i, y)
        BY <4>1, <4>2 DEF OrderedList, HandleOf
      <4>6. NewestFirst(ext') /\ ToSet(ext') = AllBut(ToSet(ext), y.win) \cup {y}
        BY <4>3, <4>4, <4>5, HandleChanges
      <4> QED
        BY <4>1, <4>3, <4>6
    <3>6. Trails(ToSet(ext'), rest, 1..Len(rest), desk)
      BY <1>4, <1>5, <2>5, <3>2, <3>4, <3>5
    <3>7. \A h \in ToSet(ext') : \E g \in E : h.win = g.win /\ h.used = g.used
      BY <1>5, <3>2, <3>4, <3>5 DEF AllBut
    <3>8. ~user.hasty => Marked(ToSet(wlr), ToSet(ext'), wlrWire, rest)
      BY <2>1, <2>2, <3>7, SoundLess
    <3> QED
      BY <3>5, <3>6, <3>8
  <2>7. CASE e.what = "closed"
    <3>1. ext' = RemoveAt(ext, i)
      BY <1>2, <2>7
    <3>2. ext' \in Seq(Toplevels) /\ NewestFirst(ext') /\ ToSet(ext') = AllBut(E, e.win)
      BY <1>1, <1>5, <2>7, <3>1, HandleGoes
    <3>3. \A h \in ToSet(ext') : \E g \in E : h.win = g.win /\ h.used = g.used
      BY <3>2 DEF AllBut
    <3>4. ~user.hasty => Marked(ToSet(wlr), ToSet(ext'), wlrWire, rest)
      BY <2>1, <2>2, <3>3, SoundLess
    <3> QED
      BY <1>4, <2>7, <3>2, <3>4
  <2> QED
    BY <1>6, <2>3, <2>5, <2>7
<1>13. \A k \in 1..Len(rest) : rest[k].what # "state"
  BY <1>1, <1>11
<1>8. WindowTyped'
  BY <1>1, <1>2, <1>3, <1>7, <1>13 DEF WindowIInv, WindowTyped
<1>9. WindowTrails'
  BY <1>2, <1>7 DEF WindowIInv, WindowTrails
<1>10. WindowSound'
  BY <1>2, <1>7 DEF WindowSound
<1> QED
  BY <1>8, <1>9, <1>10 DEF WindowIInv

(* What the user and the windows themselves do. *)
LEMMA WindowSame ==
  ASSUME WindowIInv, UNCHANGED <<desk, wlrWire, extWire, wlr, ext>>,
         user' \in Users, user'.hasty = user.hasty
  PROVE  WindowIInv'
  BY DEF WindowIInv, WindowTyped, WindowTrails, WindowSound

LEMMA UserTyped ==
  ASSUME NEW u \in Users, NEW b \in BOOLEAN
  PROVE  /\ UserDone(u) \in Users /\ UserDone(u).hasty = u.hasty
         /\ UserDone([u EXCEPT !.hidden = b]) \in Users
         /\ UserDone([u EXCEPT !.hidden = b]).hasty = u.hasty
         /\ UserDone([u EXCEPT !.hasty = b]) \in Users
         /\ UserDone([u EXCEPT !.hasty = b]).hasty = b
  BY DEF Users, UserDone

LEMMA WindowChosen ==
  ASSUME WindowIInv, NEW row \in Nat,
         NEW verb \in {"raise", "command", "close", "minimise"}, ChooseWindow(row, verb)
  PROVE  WindowIInv'
<1>1. user \in Users
  BY DEF WindowIInv, WindowTyped
<1>2. user' \in Users /\ user'.hasty = user.hasty
  <2>1. user' = [row |-> row, verb |-> verb, hidden |-> user.hidden, hasty |-> user.hasty,
                 acts |-> user.acts + 1]
    BY <1>1 DEF ChooseWindow, Users
  <2>2. user.hidden \in BOOLEAN /\ user.hasty \in BOOLEAN /\ user.acts + 1 \in Nat
    BY <1>1 DEF Users
  <2>3. verb \in {"none", "raise", "command", "close", "minimise"}
    OBVIOUS
  <2> QED
    BY <2>1, <2>2, <2>3 DEF Users
<1> QED
  BY <1>2, WindowSame DEF ChooseWindow

LEMMA WindowVanishes ==
  ASSUME WindowIInv, Vanished PROVE WindowIInv'
<1>1. user \in Users
  BY DEF WindowIInv, WindowTyped
<1>2. user' \in Users /\ user'.hasty = user.hasty
  <2> DEFINE b == user.verb \in {"raise", "command"}
  <2>1. b \in BOOLEAN /\ user' = UserDone([user EXCEPT !.hidden = b])
    BY DEF Vanished
  <2> HIDE DEF b
  <2> QED
    BY <1>1, <2>1, UserTyped
<1> QED
  BY <1>2, WindowSame DEF Vanished

LEMMA WindowRenamed ==
  ASSUME WindowAssumption, WindowIInv, NEW a \in Apps, NEW w \in desk.open, RenameApp(w, a)
  PROVE  WindowIInv'
<1> DEFINE e == Named(w, a)
<1>1. /\ desk \in DeskStates /\ w \in 1..Windows /\ a \in WindowNames /\ user \in Users
  BY DEF WindowIInv, WindowTyped, DeskStates, WindowNames
<1>2. /\ wlrWire' = wlrWire \o <<e>> /\ extWire' = extWire \o <<e>>
      /\ UNCHANGED <<wlr, ext, user>>
      /\ desk' = [desk EXCEPT !.app[w] = a, !.renames = @ + 1]
  BY DEF RenameApp, Announce
<1>3. e \in Announcements /\ TellsName(e, w) /\ e.app = a /\ e.what # "state"
  BY <1>1, EventsTyped
<1> HIDE DEF e
<1>4. desk' = [opened |-> desk.opened, open |-> desk.open, app |-> [desk.app EXCEPT ![w] = a],
               small |-> desk.small, renames |-> desk.renames + 1]
  BY <1>1, <1>2 DEF DeskStates
<1>5. /\ [desk.app EXCEPT ![w] = a] \in [1..Windows -> WindowNames]
      /\ [desk.app EXCEPT ![w] = a][w] = a
      /\ \A x : x \in 1..desk.opened /\ x # w => [desk.app EXCEPT ![w] = a][x] = desk.app[x]
  BY <1>1, WindowAssumption DEF DeskStates
<1>6. desk' \in DeskStates
  BY <1>1, <1>4, <1>5 DEF DeskStates
<1>7. Tells(e, desk')
  BY <1>3, <1>4, <1>5 DEF Tells
<1> QED
  BY <1>1, <1>2, <1>3, <1>4, <1>6, <1>7, WindowTold

LEMMA WindowShut ==
  ASSUME WindowIInv, NEW w \in desk.open,
         desk' = [desk EXCEPT !.open = @ \ {w}, !.small = @ \ {w}],
         Announce(<<WindowEvent("closed", w)>>), UNCHANGED <<wlr, ext>>,
         user' \in Users, user'.hasty = user.hasty
  PROVE  WindowIInv'
<1> DEFINE e == WindowEvent("closed", w)
<1>1. desk \in DeskStates /\ w \in 1..Windows
  BY DEF WindowIInv, WindowTyped, DeskStates
<1>2. e \in Announcements /\ TellsEnd(e, w) /\ e.what # "state"
  BY <1>1, EventsTyped DEF WindowNames
<1>3. wlrWire' = wlrWire \o <<e>> /\ extWire' = extWire \o <<e>>
  BY DEF Announce
<1> HIDE DEF e
<1>4. /\ desk'.opened = desk.opened /\ desk'.open = desk.open \ {w} /\ desk'.app = desk.app
      /\ desk' \in DeskStates
  BY <1>1 DEF DeskStates
<1>5. Tells(e, desk')
  BY <1>2, <1>4 DEF Tells
<1> QED
  BY <1>2, <1>3, <1>4, <1>5, WindowTold

LEMMA WindowMinimized ==
  ASSUME WindowIInv, ToggleMinimized PROVE WindowIInv'
<1> DEFINE h == wlr[user.row]
           e == Bearing(h.win, ~h.small)
<1>1. /\ desk \in DeskStates /\ user \in Users /\ wlr \in Seq(Handles)
      /\ wlrWire \in Seq(Announcements)
  BY DEF WindowIInv, WindowTyped
<1>2. user' \in Users /\ user'.hasty = user.hasty /\ UNCHANGED <<extWire, wlr, ext>>
  BY <1>1, UserTyped DEF ToggleMinimized
<1>3. h \in Handles
  BY <1>1, ElementOfSeq DEF ToggleMinimized
<1>4. h.win \in 1..Windows /\ h.small \in BOOLEAN
  BY <1>3 DEF Handles
<1>5. CASE h.win \in desk.open
  <2>1. /\ desk' = [desk EXCEPT !.small = IF h.small THEN @ \ {h.win} ELSE @ \cup {h.win}]
        /\ wlrWire' = Append(wlrWire, e)
    BY <1>5 DEF ToggleMinimized
  <2>2. e \in Announcements /\ e.what = "state" /\ e.win = h.win
    <3>1. \A s : Bearing(h.win, s).what = "state" /\ Bearing(h.win, s).win = h.win
      BY DEF Bearing, WindowEvent
    <3>2. \A s \in BOOLEAN : Bearing(h.win, s) \in Announcements
      <4> HIDE DEF h
      <4> QED
        BY <1>4, EventsTyped DEF WindowNames
    <3> QED
      BY <3>1, <3>2
  <2> HIDE DEF e, h
  <2>3. wlrWire' = wlrWire \o <<e>>
    BY <1>1, <2>1, <2>2, WireAppend
  <2>4. /\ desk'.opened = desk.opened /\ desk'.open = desk.open /\ desk'.app = desk.app
        /\ desk' \in DeskStates
    BY <1>1, <1>4, <2>1 DEF DeskStates
  <2>5. Tells(e, desk')
    BY <1>5, <2>2, <2>4 DEF Tells
  <2> QED
    BY <1>2, <2>2, <2>3, <2>4, <2>5, WindowTold
<1>6. CASE h.win \notin desk.open
  <2>1. UNCHANGED <<desk, wlrWire>>
    BY <1>6 DEF ToggleMinimized
  <2> QED
    BY <1>2, <2>1, WindowSame
<1> QED
  BY <1>5, <1>6

LEMMA WindowRequested ==
  ASSUME WindowIInv, AskWindow PROVE WindowIInv'
<1> DEFINE w == wlr[user.row].win
<1>1. user \in Users
  BY DEF WindowIInv, WindowTyped
<1>2. user' \in Users /\ user'.hasty = user.hasty /\ UNCHANGED <<wlr, ext>>
  BY <1>1, UserTyped DEF AskWindow
<1>3. CASE user.verb = "close" /\ w \in desk.open
  BY <1>2, <1>3, WindowShut DEF AskWindow
<1>4. CASE ~(user.verb = "close" /\ w \in desk.open)
  BY <1>2, <1>4, WindowSame DEF AskWindow
<1> QED
  BY <1>3, <1>4

LEMMA AgreeIs ==
  ASSUME NEW l, l.wlr \in Seq(Handles), l.ext \in Seq(Toplevels)
  PROVE  /\ Marked(ToSet(l.wlr), ToSet(l.ext), wlrWire, extWire) => MarksAgree(l)
         /\ MarksAgree(l) /\ wlrWire = <<>> /\ extWire = <<>>
              => Marked(ToSet(l.wlr), ToSet(l.ext), wlrWire, extWire)
<1>1. /\ \A x : x \in ToSet(l.wlr) <=> \E i \in 1..Len(l.wlr) : x = l.wlr[i]
      /\ \A x : x \in ToSet(l.ext) <=> \E i \in 1..Len(l.ext) : x = l.ext[i]
  BY ToSetIs
<1>2. wlrWire = <<>> /\ extWire = <<>> => \A w : ~Coming(wlrWire, w) /\ ~Coming(extWire, w)
  BY DEF Coming
<1>3. ASSUME Marked(ToSet(l.wlr), ToSet(l.ext), wlrWire, extWire) PROVE MarksAgree(l)
  BY <1>1, <1>3 DEF Marked, MarksAgree
<1>4. ASSUME MarksAgree(l), wlrWire = <<>> /\ extWire = <<>>
      PROVE  Marked(ToSet(l.wlr), ToSet(l.ext), wlrWire, extWire)
  BY <1>1, <1>2, <1>4 DEF Marked, MarksAgree
<1> QED
  BY <1>3, <1>4

LEMMA WindowCommand ==
  ASSUME WindowAssumption, WindowIInv, RunCommand PROVE WindowIInv'
<1> DEFINE b == [wlr |-> wlr, ext |-> ext]
           m == Matched
           lists == IF wlr[user.row].identifier = NoIdentifier THEN m ELSE b
           early == user.hasty \/ (InFlight /\ lists.wlr # wlr)
<1>1. /\ user \in Users /\ wlr \in Seq(Handles) /\ ext \in Seq(Toplevels)
      /\ user.hasty \in BOOLEAN /\ b.wlr = wlr /\ b.ext = ext
      /\ NewestFirst(wlr) /\ NewestFirst(ext)
  BY DEF WindowIInv, WindowTyped, Users
<1>2. early \in BOOLEAN
  OBVIOUS
<1> HIDE DEF m, b
<1>3. /\ wlr' = lists.wlr /\ ext' = lists.ext /\ UNCHANGED <<desk, wlrWire, extWire>>
      /\ user' = UserDone([user EXCEPT !.hasty = early])
  BY DEF RunCommand, m, b
<1> HIDE DEF early
<1>4. user' \in Users /\ user'.hasty = early
  BY <1>1, <1>2, <1>3, UserTyped
<1>5. CASE lists = b
  <2>1. wlr' = wlr /\ ext' = ext
    BY <1>1, <1>3, <1>5
  <2>2. early = user.hasty
    BY <1>1, <1>5 DEF early
  <2> QED
    BY <1>3, <1>4, <2>1, <2>2, WindowSame
<1>6. CASE lists # b
  <2>1. lists = m
    BY <1>6
  <2>2. m \in PairedLists(wlr, ext) /\ GainedIdentifier(b, m)
    BY <1>1, MatchedKeeps DEF m, b
  <2> HIDE DEF lists
  <2>3. /\ wlr' \in Seq(Handles) /\ ext' \in Seq(Toplevels)
        /\ Len(wlr') = Len(wlr) /\ Len(ext') = Len(ext)
        /\ \A j \in 1..Len(wlr) : wlr'[j].win = wlr[j].win /\ wlr'[j].app = wlr[j].app
        /\ \A k \in 1..Len(ext) : ext'[k].win = ext[k].win /\ ext'[k].app = ext[k].app
    BY <1>3, <2>1, <2>2 DEF PairedLists
  <2>4. NewestFirst(wlr') /\ NewestFirst(ext')
    BY <1>1, <2>3 DEF NewestFirst
  <2>5. WindowTyped'
    BY <1>3, <1>4, <2>3, <2>4 DEF WindowIInv, WindowTyped
  <2>6. WindowTrails'
    <3>1. /\ \A x : x \in ToSet(wlr) <=> \E i \in 1..Len(wlr) : x = wlr[i]
          /\ \A x : x \in ToSet(ext) <=> \E i \in 1..Len(ext) : x = ext[i]
      BY <1>1, ToSetIs
    <3>2. /\ \A x : x \in ToSet(wlr') <=> \E i \in 1..Len(wlr) : x = wlr'[i]
          /\ \A x : x \in ToSet(ext') <=> \E i \in 1..Len(ext) : x = ext'[i]
      BY <2>3, ToSetIs
    <3>3. /\ \A r \in ToSet(wlr) : \E x \in ToSet(wlr') : x.win = r.win /\ x.app = r.app
          /\ \A x \in ToSet(wlr') : \E r \in ToSet(wlr) : x.win = r.win /\ x.app = r.app
      <4>1. ASSUME NEW r \in ToSet(wlr)
            PROVE  \E x \in ToSet(wlr') : x.win = r.win /\ x.app = r.app
        <5>1. PICK i \in 1..Len(wlr) : r = wlr[i]
          BY <3>1
        <5>2. wlr'[i] \in ToSet(wlr')
          BY <3>2
        <5> QED
          BY <2>3, <5>1, <5>2
      <4>2. ASSUME NEW x \in ToSet(wlr')
            PROVE  \E r \in ToSet(wlr) : x.win = r.win /\ x.app = r.app
        <5>1. PICK i \in 1..Len(wlr) : x = wlr'[i]
          BY <3>2
        <5>2. wlr[i] \in ToSet(wlr)
          BY <3>1
        <5> QED
          BY <2>3, <5>1, <5>2
      <4> QED
        BY <4>1, <4>2
    <3>4. /\ \A r \in ToSet(ext) : \E x \in ToSet(ext') : x.win = r.win /\ x.app = r.app
          /\ \A x \in ToSet(ext') : \E r \in ToSet(ext) : x.win = r.win /\ x.app = r.app
      <4>1. ASSUME NEW r \in ToSet(ext)
            PROVE  \E x \in ToSet(ext') : x.win = r.win /\ x.app = r.app
        <5>1. PICK i \in 1..Len(ext) : r = ext[i]
          BY <3>1
        <5>2. ext'[i] \in ToSet(ext')
          BY <3>2
        <5> QED
          BY <2>3, <5>1, <5>2
      <4>2. ASSUME NEW x \in ToSet(ext')
            PROVE  \E r \in ToSet(ext) : x.win = r.win /\ x.app = r.app
        <5>1. PICK i \in 1..Len(ext) : x = ext'[i]
          BY <3>2
        <5>2. ext[i] \in ToSet(ext)
          BY <3>1
        <5> QED
          BY <2>3, <5>1, <5>2
      <4> QED
        BY <4>1, <4>2
    <3>5. /\ Trails(ToSet(wlr), wlrWire, 1..Len(wlrWire), desk)
          /\ Trails(ToSet(ext), extWire, 1..Len(extWire), desk)
      BY DEF WindowIInv, WindowTrails
    <3>6. /\ Trails(ToSet(wlr'), wlrWire, 1..Len(wlrWire), desk)
          /\ Trails(ToSet(ext'), extWire, 1..Len(extWire), desk)
      BY <3>3, <3>4, <3>5, SameNames
    <3> QED
      BY <1>3, <3>6 DEF WindowTrails
  <2>7. WindowSound'
    <3> SUFFICES ASSUME ~user'.hasty
                 PROVE  Marked(ToSet(wlr'), ToSet(ext'), wlrWire, extWire)
      BY <1>3 DEF WindowSound
    <3>1. ~user.hasty /\ (~InFlight \/ m.wlr = wlr)
      BY <1>1, <1>4, <2>1 DEF early
    <3>2. m.wlr # wlr
      BY <1>1, <1>6, <2>1, <2>2 DEF GainedIdentifier
    <3>3. wlrWire = <<>> /\ extWire = <<>>
      BY <3>1, <3>2 DEF InFlight
    <3>4. Marked(ToSet(wlr), ToSet(ext), wlrWire, extWire)
      BY <3>1 DEF WindowIInv, WindowSound
    <3>5. MarksAgree(b)
      BY <1>1, <3>4, AgreeIs
    <3>6. SameWindows(wlr, ext)
      <4>1. Trails(ToSet(wlr), wlrWire, {}, desk) /\ Trails(ToSet(ext), extWire, {}, desk)
        <5>1. Len(wlrWire) = 0 /\ Len(extWire) = 0 /\ 1..0 = {}
          BY <3>3
        <5> QED
          BY <5>1 DEF WindowIInv, WindowTrails
      <4>2. /\ \A w \in desk.open : \E r \in ToSet(wlr) : r.win = w
            /\ \A r \in ToSet(wlr) : r.win \in desk.open /\ r.app = desk.app[r.win]
        BY <4>1, NothingComes
      <4>3. /\ \A w \in desk.open : \E r \in ToSet(ext) : r.win = w
            /\ \A r \in ToSet(ext) : r.win \in desk.open /\ r.app = desk.app[r.win]
        BY <4>1, NothingComes
      <4>4. /\ \A x : x \in ToSet(wlr) <=> \E i \in 1..Len(wlr) : x = wlr[i]
            /\ \A x : x \in ToSet(ext) <=> \E i \in 1..Len(ext) : x = ext[i]
        BY <1>1, ToSetIs
      <4>5. \A k \in 1..Len(ext) : \E j \in 1..Len(wlr) :
              wlr[j].win = ext[k].win /\ wlr[j].app = ext[k].app
        <5> SUFFICES ASSUME NEW k \in 1..Len(ext)
                     PROVE  \E j \in 1..Len(wlr) :
                              wlr[j].win = ext[k].win /\ wlr[j].app = ext[k].app
          OBVIOUS
        <5>1. ext[k].win \in desk.open /\ ext[k].app = desk.app[ext[k].win]
          BY <4>3, <4>4
        <5>2. PICK r \in ToSet(wlr) : r.win = ext[k].win
          BY <4>2, <5>1
        <5>3. r.app = ext[k].app
          BY <4>2, <5>1, <5>2
        <5> QED
          BY <4>4, <5>2, <5>3
      <4>6. \A j \in 1..Len(wlr) : \E k \in 1..Len(ext) : wlr[j].win = ext[k].win
        <5> SUFFICES ASSUME NEW j \in 1..Len(wlr)
                     PROVE  \E k \in 1..Len(ext) : wlr[j].win = ext[k].win
          OBVIOUS
        <5>1. wlr[j].win \in desk.open
          BY <4>2, <4>4
        <5>2. PICK r \in ToSet(ext) : r.win = wlr[j].win
          BY <4>3, <5>1
        <5> QED
          BY <4>4, <5>2
      <4> QED
        BY <1>1, <4>5, <4>6 DEF SameWindows
    <3>7. MarksAgree(m)
      BY <1>1, <3>5, <3>6, MatchedAgrees DEF m, b
    <3>8. m.wlr \in Seq(Handles) /\ m.ext \in Seq(Toplevels)
      BY <2>2 DEF PairedLists
    <3>9. Marked(ToSet(m.wlr), ToSet(m.ext), wlrWire, extWire)
      BY <3>3, <3>7, <3>8, AgreeIs
    <3> QED
      BY <1>3, <2>1, <3>9
  <2> QED
    BY <2>5, <2>6, <2>7 DEF WindowIInv
<1> QED
  BY <1>5, <1>6

LEMMA WindowStep ==
  ASSUME WindowAssumption, WindowIInv, [WindowNext]_windowVars PROVE WindowIInv'
<1>1. ASSUME NEW a \in Apps, OpenWindow(a) PROVE WindowIInv'
  BY <1>1, WindowOpens
<1>2. ASSUME NEW a \in Apps, NEW w \in desk.open, RenameApp(w, a) PROVE WindowIInv'
  BY <1>2, WindowRenamed
<1>3. ASSUME NEW w \in desk.open, CloseWindow(w) PROVE WindowIInv'
  <2>1. user' \in Users /\ user'.hasty = user.hasty
    BY <1>3 DEF WindowIInv, WindowTyped, CloseWindow
  <2> QED
    BY <1>3, <2>1, WindowShut DEF CloseWindow
<1>4. ASSUME NEW row \in 1..Windows, NEW verb \in {"raise", "command", "close", "minimise"},
             ChooseWindow(row, verb)
      PROVE  WindowIInv'
  <2>1. row \in Nat
    BY WindowAssumption
  <2> QED
    BY <1>4, <2>1, WindowChosen
<1>5. CASE UNCHANGED windowVars
  BY <1>5, WindowSame DEF windowVars, WindowIInv, WindowTyped
<1> QED
  BY <1>1, <1>2, <1>3, <1>4, <1>5, WlrHandled, ExtHandled, WindowVanishes, WindowCommand,
     WindowMinimized, WindowRequested DEF WindowNext
--------------------------------------------------------------------------------
(* The switcher under X11: whatever is not yet told is on its way, or about to  *)
(* be loaded; all windows are loaded before those of the desktop.               *)
SwitcherTyped ==
  /\ clients = [x \in XIds |-> clients[x]] /\ here \subseteq Listed(clients)
  /\ ids \in [all : SUBSET XIds, here : SUBSET XIds]
  /\ signals \in Nat /\ reloading \in {"no", "timer", "all", "here"} /\ openings \in Nat
SwitcherIInv ==
  /\ SwitcherTyped
  /\ signals = 0 /\ reloading = "no" =>
       /\ ids.all = Listed(clients) /\ ids.here = here
       /\ \A x \in Listed(clients) : cache[x] = clients[x]
  /\ signals = 0 /\ reloading = "here" => ids.all = Listed(clients)

LEMMA SwitcherEnough == SwitcherIInv => SwitcherInStep
<1> SUFFICES ASSUME SwitcherIInv, signals = 0, reloading = "no"
             PROVE  /\ ids = [all |-> Listed(clients), here |-> here]
                    /\ \A x \in ids.all : cache[x] = clients[x]
  BY DEF SwitcherInStep
<1>1. ids = [all |-> ids.all, here |-> ids.here]
  BY DEF SwitcherIInv, SwitcherTyped
<1> QED
  BY <1>1 DEF SwitcherIInv

LEMMA SwitcherInitially ==
  ASSUME SwitcherAssumption, NEW on, SwitcherInit(on) PROVE SwitcherIInv
<1>1. /\ clients \in [XIds -> 0..Cardinality(XIds)] /\ here \subseteq Listed(clients)
      /\ ids = [all |-> Listed(clients), here |-> here] /\ cache = clients
      /\ signals = 0 /\ reloading = "no"
  BY DEF SwitcherInit
<1>2. Listed(clients) \subseteq XIds
  BY DEF Listed
<1>3. openings \in Nat
  <2>1. Cardinality(Listed(clients)) \in Nat
    BY <1>2, SwitcherAssumption, FS_Subset, FS_CardinalityType DEF SwitcherAssumption
  <2> QED
    BY <2>1, SwitcherAssumption DEF SwitcherInit, SwitcherAssumption
<1> QED
  BY <1>1, <1>2, <1>3 DEF SwitcherIInv, SwitcherTyped

LEMMA SwitcherStep ==
  ASSUME SwitcherIInv, [SwitcherNext]_switcherVars PROVE SwitcherIInv'
<1>0. /\ SwitcherTyped /\ Listed(clients) \subseteq XIds /\ Listed(clients') \subseteq XIds
      /\ signals \in Nat /\ ids \in [all : SUBSET XIds, here : SUBSET XIds]
  BY DEF SwitcherIInv, SwitcherTyped, Listed
<1>1. CASE ReloadTimer
  BY <1>1 DEF ReloadTimer, SwitcherIInv, SwitcherTyped, Listed
<1>2. CASE LoadAll
  <2>1. /\ ids' = [all |-> Listed(clients), here |-> ids.here] /\ reloading' = "here"
        /\ UNCHANGED <<clients, here, signals, openings>>
    BY <1>0, <1>2 DEF LoadAll
  <2>2. ids' \in [all : SUBSET XIds, here : SUBSET XIds] /\ ids'.all = Listed(clients)
    BY <1>0, <2>1
  <2>3. Listed(clients') = Listed(clients)
    BY <2>1 DEF Listed
  <2> QED
    BY <2>1, <2>2, <2>3 DEF SwitcherIInv, SwitcherTyped
<1>3. CASE LoadHere
  <2>1. /\ ids' = [all |-> ids.all, here |-> here] /\ reloading = "here" /\ reloading' = "no"
        /\ cache' = LookedUp(NoClients) /\ UNCHANGED <<clients, here, signals, openings>>
    BY <1>0, <1>3 DEF LoadHere, Freed
  <2>2. /\ ids' \in [all : SUBSET XIds, here : SUBSET XIds]
        /\ ids'.all = ids.all /\ ids'.here = here
    BY <1>0, <2>1 DEF SwitcherTyped
  <2>3. \A x \in Listed(clients) : cache'[x] = clients[x]
    BY <2>1 DEF LookedUp, NoClients, Listed
  <2>4. /\ Listed(clients') = Listed(clients)
        /\ \A x \in Listed(clients) : cache'[x] = clients'[x]
    BY <2>1, <2>3 DEF Listed
  <2> QED
    BY <2>1, <2>2, <2>4 DEF SwitcherIInv, SwitcherTyped
<1>4. CASE HandleSignal
  <2>1. /\ signals' \in Nat /\ reloading' = "timer" /\ UNCHANGED <<clients, here, ids, openings>>
    BY <1>0, <1>4 DEF HandleSignal
  <2>2. Listed(clients') = Listed(clients)
    BY <2>1 DEF Listed
  <2> QED
    BY <2>1, <2>2 DEF SwitcherIInv, SwitcherTyped
<1>5. CASE OpenClient
  <2>1. PICK x \in XIds, visible \in BOOLEAN :
          /\ clients' = [clients EXCEPT ![x] = openings + 1]
          /\ here' = IF visible THEN here \cup {x} ELSE here
    BY <1>5 DEF OpenClient
  <2>2. /\ signals' = signals + 1 /\ openings' = openings + 1
        /\ UNCHANGED <<reloading, ids, cache>>
    BY <1>5 DEF OpenClient
  <2>3. signals' \in Nat /\ signals' # 0 /\ openings + 1 # 0 /\ openings' \in Nat
    BY <1>0, <2>2 DEF SwitcherTyped
  <2>4. /\ clients' = [y \in XIds |-> IF y = x THEN openings + 1 ELSE clients[y]]
        /\ \A y \in XIds : clients'[y] = IF y = x THEN openings + 1 ELSE clients[y]
    BY <1>0, <2>1 DEF SwitcherTyped
  <2>5. here' \subseteq Listed(clients')
    BY <1>0, <2>1, <2>3, <2>4 DEF SwitcherTyped, Listed
  <2>6. clients' = [y \in XIds |-> clients'[y]]
    BY <2>4
  <2> QED
    BY <1>0, <2>2, <2>3, <2>5, <2>6 DEF SwitcherIInv, SwitcherTyped
<1>6. CASE CloseClient \/ CloseRow
  <2>1. PICK x \in XIds : Destroy(x)
    <3>1. \E x \in ids.all \cup ids.here \cup Listed(clients) : Destroy(x)
      BY <1>6 DEF CloseClient, CloseRow
    <3> QED
      BY <1>0, <3>1
  <2>2. /\ clients' = [clients EXCEPT ![x] = 0] /\ here' = here \ {x} /\ signals' = signals + 1
    BY <2>1 DEF Destroy
  <2>3. UNCHANGED <<reloading, ids, cache, openings>>
    BY <1>6 DEF CloseClient, CloseRow
  <2>4. signals' \in Nat /\ signals' # 0
    BY <1>0, <2>2 DEF SwitcherTyped
  <2>5. /\ clients' = [y \in XIds |-> IF y = x THEN 0 ELSE clients[y]]
        /\ \A y \in XIds : clients'[y] = IF y = x THEN 0 ELSE clients[y]
    BY <1>0, <2>2 DEF SwitcherTyped
  <2>6. here' \subseteq Listed(clients')
    BY <1>0, <2>2, <2>5 DEF SwitcherTyped, Listed
  <2>7. clients' = [y \in XIds |-> clients'[y]]
    BY <2>5
  <2> QED
    BY <1>0, <2>3, <2>4, <2>6, <2>7 DEF SwitcherIInv, SwitcherTyped
<1>7. CASE UNCHANGED switcherVars
  <2>1. Listed(clients') = Listed(clients)
    BY <1>7 DEF switcherVars, Listed
  <2> QED
    BY <1>7, <2>1 DEF switcherVars, SwitcherIInv, SwitcherTyped
<1> QED
  BY <1>1, <1>2, <1>3, <1>4, <1>5, <1>6, <1>7 DEF SwitcherNext
--------------------------------------------------------------------------------
(* The volume panel. *)

Tool == {"wpctl", "pactl", "mixer"}

(* The row of a sink that was read says what the sink is at.  *)
RowTrue(row, backend, level, muted) ==
  row.volume = VolumeClamp(level[row.id]) /\ row.muted = (backend # "mixer" /\ muted[row.id])
RowsTrue(rows, backend, level, muted, except) ==
  \A i \in DOMAIN rows :
    rows[i].id \in Known /\ (rows[i].id \notin except => RowTrue(rows[i], backend, level, muted))

MutedTyped(muted) == \A s \in Known : muted[s] \in BOOLEAN
VolumeTyped ==
  /\ sound = [level |-> sound.level, muted |-> sound.muted,
              default |-> sound.default, up |-> sound.up]
  /\ sound.level = [s \in Known |-> sound.level[s]]
  /\ sound.muted = [s \in Known |-> sound.muted[s]] /\ MutedTyped(sound.muted)
  /\ meant = [s \in Known |-> meant[s]]
  /\ onPath \subseteq Tool
  /\ volumePanel = [backend |-> volumePanel.backend, sinks |-> volumePanel.sinks]
  /\ volumePanel.backend \in Tool \cup {"closed"}

(* What is meant is what is; a row is out of date only if its sink is theirs; *)
(* and mixer(8) was asked only without a server's tool.                       *)
VolumeIInv ==
  /\ VolumeTyped
  /\ sound.level = meant
  /\ volumePanel.backend # "closed" =>
       RowsTrue(volumePanel.sinks, volumePanel.backend, sound.level, sound.muted, theirs)
  /\ volumePanel.backend = "mixer" /\ sound.up /\ Sinks # <<>> => onPath = {"mixer"}

LEMMA VolumeEnough == VolumeIInv => PressesAddUp
  BY DEF VolumeIInv, VolumeTyped, PressesAddUp, RowsTrue, RowTrue

LEMMA SinksAre ==
  ASSUME VolumeAssumption
  PROVE  /\ Len(Sinks) \in Nat /\ DOMAIN Sinks = 1..Len(Sinks)
         /\ \A i \in DOMAIN Sinks : Sinks[i] \in Known /\ Sinks[i] \notin ToSet(Devices)
         /\ ~(1 \in DOMAIN Sinks) => Sinks = <<>>
<1>1. Sinks \in Seq(ToSet(Sinks))
  BY DEF VolumeAssumption
<1>2. Len(Sinks) \in Nat /\ DOMAIN Sinks = 1..Len(Sinks)
  BY <1>1, LenProperties
<1>3. \A i \in DOMAIN Sinks : Sinks[i] \in ToSet(Sinks)
  BY DEF ToSet
<1>4. ~(1 \in DOMAIN Sinks) => Sinks = <<>>
  <2>1. ~(1 \in DOMAIN Sinks) => Len(Sinks) = 0
    BY <1>2
  <2> QED
    BY <1>1, <2>1, EmptySeq
<1> QED
  BY <1>2, <1>3, <1>4 DEF Known, VolumeAssumption

LEMMA RowIsTrue ==
  ASSUME NEW row, NEW backend, NEW level, NEW muted,
         row.volume = VolumeClamp(level[row.id]), muted[row.id] \in BOOLEAN,
         \/ backend = "mixer" /\ row.muted = FALSE
         \/ backend # "mixer" /\ row.muted = muted[row.id]
  PROVE  RowTrue(row, backend, level, muted)
<1>1. row.muted = (backend # "mixer" /\ muted[row.id])
  <2>1. CASE backend = "mixer"
    BY <2>1, Zenon
  <2>2. CASE backend # "mixer" /\ muted[row.id] = TRUE
    BY <2>2, Zenon
  <2>3. CASE backend # "mixer" /\ muted[row.id] = FALSE
    BY <2>3, Zenon
  <2> QED
    BY <2>1, <2>2, <2>3
<1> QED
  BY <1>1, Zenon DEF RowTrue

(* Whatever a tool does not read, the rows it lists are true of the rest. *)
LEMMA ListingTrue ==
  ASSUME VolumeAssumption, NEW now, NEW backend \in Tool, NEW unread, MutedTyped(now.muted)
  PROVE  RowsTrue(Listing(now, backend, unread), backend, now.level, now.muted,
                  Guessed(backend, unread))
<1> DEFINE rows == Listing(now, backend, unread)
           True(i) == /\ rows[i].id \in Known
                      /\ rows[i].id \notin Guessed(backend, unread) =>
                           RowTrue(rows[i], backend, now.level, now.muted)
<1>1. CASE backend = "mixer"
  <2> DEFINE read == Answering(unread)
  <2>1. Devices \in Seq(ToSet(Devices))
    BY DEF VolumeAssumption
  <2>2. read = Without(Devices, unread)
    BY DEF Answering, Without
  <2>3. read \in Seq(ToSet(Devices))
    BY <2>1, <2>2, WithoutFrom
  <2>4. \A i \in DOMAIN read : read[i] \in Known
    BY <2>3, ElementOfSeq, LenProperties DEF Known
  <2> HIDE DEF read
  <2>5. rows = [i \in DOMAIN read |-> Row(read[i], now.level[read[i]], FALSE, i = 1)]
    BY <1>1 DEF Listing, MixerList, read
  <2>6. ASSUME NEW i \in DOMAIN rows PROVE True(i)
    <3>1. i \in DOMAIN read /\ read[i] \in Known /\ now.muted[read[i]] \in BOOLEAN
      BY <2>4, <2>5, <2>6 DEF MutedTyped
    <3>2. PICK d : d = (i = 1)
      OBVIOUS
    <3>3. rows[i] = Row(read[i], now.level[read[i]], FALSE, d)
      BY <2>5, <3>1, <3>2
    <3>4. /\ rows[i].id = read[i] /\ rows[i].muted = FALSE
          /\ rows[i].volume = VolumeClamp(now.level[read[i]])
      BY <3>3 DEF Row
    <3> HIDE DEF rows
    <3> QED
      BY <1>1, <3>1, <3>4, RowIsTrue
  <2> QED
    BY <2>6 DEF RowsTrue
<1>2. CASE backend # "mixer" /\ ~now.up
  BY <1>2 DEF Listing, RowsTrue
<1>3. CASE backend # "mixer" /\ now.up
  <2>1. DOMAIN rows = DOMAIN Sinks
    BY <1>3 DEF Listing, WpctlList, PactlList
  <2>2. ASSUME NEW i \in DOMAIN rows PROVE True(i)
    <3> DEFINE s == Sinks[i]
    <3>1. i \in DOMAIN Sinks /\ s \in Known /\ now.muted[s] \in BOOLEAN
      BY <2>1, <2>2, SinksAre DEF MutedTyped
    <3>2. CASE backend = "wpctl" /\ s \in unread
      <4>1. rows[i] = Row(s, 0, FALSE, s = now.default) /\ Guessed(backend, unread) = unread
        BY <1>3, <3>1, <3>2 DEF Listing, WpctlList, Guessed
      <4>2. rows[i].id = s
        BY <4>1 DEF Row
      <4> HIDE DEF rows, s
      <4> QED
        BY <3>1, <3>2, <4>1, <4>2
    <3>3. CASE ~(backend = "wpctl" /\ s \in unread)
      <4>1. \E d : rows[i] = Row(s, now.level[s], now.muted[s], d)
        BY <1>3, <3>1, <3>3 DEF Listing, WpctlList, PactlList
      <4>2. PICK d : rows[i] = Row(s, now.level[s], now.muted[s], d)
        BY <4>1
      <4>3. /\ rows[i].id = s /\ rows[i].muted = now.muted[s]
            /\ rows[i].volume = VolumeClamp(now.level[s])
        BY <4>2 DEF Row
      <4> HIDE DEF rows, s
      <4> QED
        BY <1>3, <3>1, <4>3, RowIsTrue
    <3> QED
      BY <3>2, <3>3
  <2> QED
    BY <2>2 DEF RowsTrue
<1> QED
  BY <1>1, <1>2, <1>3

(* A server with a sink answers through either of its tools. *)
LEMMA ServerAnswers ==
  ASSUME VolumeAssumption, NEW tool \in {"wpctl", "pactl"}, tool \in onPath,
         sound.up, Sinks # <<>>, NEW unread
  PROVE  Answers(tool, unread)
<1>1. 1 \in DOMAIN Sinks
  BY SinksAre
<1>2. DOMAIN Listing(sound, tool, unread) = DOMAIN Sinks
  BY DEF Listing, WpctlList, PactlList
<1>3. DOMAIN <<>> = {}
  OBVIOUS
<1> QED
  BY <1>1, <1>2, <1>3 DEF Answers

LEMMA VolumeStarts == ASSUME NEW on \in BOOLEAN, VolumeInit(on) PROVE VolumeIInv
<1>1. ToSet(Tools) = Tool
  BY DEF ToSet, Tools, Tool
<1>2. PICK up \in BOOLEAN : sound = [level |-> [s \in Known |-> 98], muted |-> [s \in Known |-> FALSE],
                           default |-> Head(Sinks), up |-> up]
  BY DEF VolumeInit
<1>3. onPath \subseteq Tool
  BY <1>1 DEF VolumeInit
<1>4. sound.muted = [s \in Known |-> FALSE] /\ MutedTyped(sound.muted)
  BY <1>2 DEF MutedTyped
<1> QED
  BY <1>2, <1>3, <1>4 DEF VolumeInit, VolumeIInv, VolumeTyped, ClosedVolume, Tool

LEMMA SelectBackendKeeps ==
  ASSUME VolumeAssumption, VolumeIInv, NEW unread, SelectBackend(unread)
  PROVE  VolumeIInv'
<1>1. PICK i \in DOMAIN Tools :
        /\ Answers(Tools[i], unread) /\ \A j \in 1..i - 1 : ~Answers(Tools[j], unread)
        /\ volumePanel' = [backend |-> Tools[i], sinks |-> Listing(sound, Tools[i], unread)]
        /\ theirs' = Guessed(Tools[i], unread)
  BY DEF SelectBackend
<1>2. i \in 1..3 /\ Tools[1] = "wpctl" /\ Tools[2] = "pactl" /\ Tools[3] = "mixer" /\ Tools[i] \in Tool
  BY DEF Tools, Tool
<1>3. sound' = sound /\ onPath' = onPath /\ meant' = sound.level
  BY DEF SelectBackend
<1>4. VolumeTyped'
  BY <1>1, <1>2, <1>3 DEF VolumeTyped, VolumeIInv
<1>5. RowsTrue(volumePanel'.sinks, volumePanel'.backend, sound'.level, sound'.muted, theirs')
  <2>1. MutedTyped(sound.muted)
    BY DEF VolumeIInv, VolumeTyped
  <2>2. RowsTrue(Listing(sound, Tools[i], unread), Tools[i], sound.level, sound.muted,
                 Guessed(Tools[i], unread))
    BY <1>2, <2>1, ListingTrue
  <2> QED
    BY <1>1, <1>3, <2>2
<1>6. Tools[i] = "mixer" /\ sound.up /\ Sinks # <<>> => onPath = {"mixer"}
  <2> SUFFICES ASSUME Tools[i] = "mixer", sound.up, Sinks # <<>>
               PROVE  onPath = {"mixer"}
    OBVIOUS
  <2>1. i = 3 /\ 1 \in 1..i - 1 /\ 2 \in 1..i - 1
    BY <1>2
  <2>2. "wpctl" \notin onPath /\ "pactl" \notin onPath
    BY <1>1, <1>2, <2>1, ServerAnswers
  <2>3. "mixer" \in onPath
    BY <1>1 DEF Answers
  <2> QED
    BY <2>2, <2>3 DEF VolumeIInv, VolumeTyped, Tool
<1> QED
  BY <1>1, <1>3, <1>4, <1>5, <1>6 DEF VolumeIInv

LEMMA SetVolumeKeeps ==
  ASSUME VolumeAssumption, VolumeIInv, onPath' = onPath, NEW unread, NEW step,
         volumePanel.backend # "closed", NEW line \in DOMAIN volumePanel.sinks,
         SetVolume(volumePanel.sinks[line], step, unread)
  PROVE  VolumeIInv'
<1> DEFINE row == volumePanel.sinks[line]
           asked == VolumeClamp(row.volume + step)
<1>1. CASE UNCHANGED <<sound, meant, volumePanel, theirs>>
  BY <1>1 DEF VolumeIInv, VolumeTyped
<1>2. CASE /\ sound' = [sound EXCEPT !.level[row.id] = asked]
           /\ meant' = [meant EXCEPT ![row.id] =
                          IF row.id \in theirs THEN asked
                          ELSE VolumeClamp(VolumeClamp(@) + step)]
           /\ VolumeRefresh(unread)
  <2>1. row.id \in Known /\ (row.id \notin theirs => row.volume = VolumeClamp(meant[row.id]))
    BY DEF VolumeIInv, RowsTrue, RowTrue
  <2>2. meant' = [meant EXCEPT ![row.id] = asked]
    BY <1>2, <2>1
  <2> HIDE DEF asked, row
  <2>3. /\ sound' = [level |-> sound'.level, muted |-> sound'.muted,
                     default |-> sound'.default, up |-> sound'.up]
        /\ sound'.level = [sound.level EXCEPT ![row.id] = asked] /\ sound'.muted = sound.muted
        /\ sound'.up = sound.up
    BY <1>2 DEF VolumeIInv, VolumeTyped
  <2>4. /\ volumePanel' = [backend |-> volumePanel.backend,
                           sinks |-> Listing(sound', volumePanel.backend, unread)]
        /\ theirs' = Guessed(volumePanel.backend, unread)
    BY <1>2 DEF VolumeRefresh, VolumeIInv, VolumeTyped
  <2>5. volumePanel.backend \in Tool
    BY DEF VolumeIInv, VolumeTyped
  <2>6. RowsTrue(volumePanel'.sinks, volumePanel'.backend, sound'.level, sound'.muted, theirs')
    <3>1. MutedTyped(sound'.muted)
      BY <2>3 DEF VolumeIInv, VolumeTyped
    <3>2. RowsTrue(Listing(sound', volumePanel.backend, unread), volumePanel.backend,
                   sound'.level, sound'.muted, Guessed(volumePanel.backend, unread))
      BY <2>5, <3>1, ListingTrue
    <3> QED
      BY <2>4, <3>2
  <2>7. sound'.level = meant' /\ meant' = [s \in Known |-> meant'[s]]
    BY <2>2, <2>3 DEF VolumeIInv, VolumeTyped
  <2>8. VolumeTyped'
    BY <2>3, <2>4, <2>5, <2>7 DEF VolumeIInv, VolumeTyped
  <2> QED
    BY <2>3, <2>4, <2>6, <2>7, <2>8 DEF VolumeIInv
<1> QED
  BY <1>1, <1>2 DEF SetVolume

LEMMA SetMuteKeeps ==
  ASSUME VolumeAssumption, VolumeIInv, onPath' = onPath, NEW unread,
         volumePanel.backend # "closed", NEW line \in DOMAIN volumePanel.sinks,
         SetMute(volumePanel.sinks[line], unread)
  PROVE  VolumeIInv'
<1> DEFINE row == volumePanel.sinks[line]
<1>1. CASE UNCHANGED <<sound, meant, volumePanel, theirs>>
  BY <1>1 DEF VolumeIInv, VolumeTyped
<1>2. CASE /\ sound' = [sound EXCEPT !.muted[row.id] = ~@]
           /\ VolumeRefresh(unread) /\ UNCHANGED meant
  <2>1. PICK b \in BOOLEAN : b = ~sound.muted[row.id]
    OBVIOUS
  <2>2. sound' = [sound EXCEPT !.muted[row.id] = b]
    BY <1>2, <2>1
  <2> HIDE DEF row
  <2>3. /\ sound' = [level |-> sound'.level, muted |-> sound'.muted,
                     default |-> sound'.default, up |-> sound'.up]
        /\ sound'.level = sound.level /\ sound'.muted = [sound.muted EXCEPT ![row.id] = b]
        /\ sound'.up = sound.up
    BY <2>2 DEF VolumeIInv, VolumeTyped
  <2>4. /\ volumePanel' = [backend |-> volumePanel.backend,
                           sinks |-> Listing(sound', volumePanel.backend, unread)]
        /\ theirs' = Guessed(volumePanel.backend, unread)
    BY <1>2 DEF VolumeRefresh, VolumeIInv, VolumeTyped
  <2>5. volumePanel.backend \in Tool
    BY DEF VolumeIInv, VolumeTyped
  <2>7. sound'.muted = [s \in Known |-> sound'.muted[s]] /\ MutedTyped(sound'.muted)
    BY <2>3 DEF VolumeIInv, VolumeTyped, MutedTyped
  <2>6. RowsTrue(volumePanel'.sinks, volumePanel'.backend, sound'.level, sound'.muted, theirs')
    <3>1. MutedTyped(sound'.muted)
      BY <2>7
    <3>2. RowsTrue(Listing(sound', volumePanel.backend, unread), volumePanel.backend,
                   sound'.level, sound'.muted, Guessed(volumePanel.backend, unread))
      BY <2>5, <3>1, ListingTrue
    <3> QED
      BY <2>4, <3>2
  <2>8. VolumeTyped'
    BY <1>2, <2>3, <2>4, <2>5, <2>7 DEF VolumeIInv, VolumeTyped
  <2> QED
    BY <1>2, <2>3, <2>4, <2>6, <2>8 DEF VolumeIInv
<1> QED
  BY <1>1, <1>2 DEF SetMute

LEMMA SetDefaultKeeps == ASSUME VolumeIInv, SetDefault PROVE VolumeIInv'
<1>1. volumePanel' = ClosedVolume /\ meant' = meant /\ onPath' = onPath
  BY DEF SetDefault
<1>2. sound' = sound \/ \E d : sound' = [sound EXCEPT !.default = d]
  BY DEF SetDefault
<1>3. /\ sound' = [level |-> sound'.level, muted |-> sound'.muted,
                   default |-> sound'.default, up |-> sound'.up]
      /\ sound'.level = sound.level /\ sound'.muted = sound.muted
  BY <1>2 DEF VolumeIInv, VolumeTyped
<1> QED
  BY <1>1, <1>3 DEF VolumeIInv, VolumeTyped, ClosedVolume

LEMMA TurnKeeps == ASSUME VolumeIInv, Turn PROVE VolumeIInv'
<1>1. onPath' = onPath /\ volumePanel' = volumePanel
  BY DEF Turn
<1>2. CASE sound' = [sound EXCEPT !.up = FALSE] /\ UNCHANGED <<meant, theirs>>
  <2>1. /\ sound' = [level |-> sound'.level, muted |-> sound'.muted,
                     default |-> sound'.default, up |-> sound'.up]
        /\ sound'.level = sound.level /\ sound'.muted = sound.muted /\ ~sound'.up
    BY <1>2 DEF VolumeIInv, VolumeTyped
  <2> QED
    BY <1>1, <1>2, <2>1 DEF VolumeIInv, VolumeTyped
<1>3. ASSUME NEW s \in Known, NEW level \in Levels,
             sound' = [sound EXCEPT !.level[s] = level],
             meant' = [meant EXCEPT ![s] = level], theirs' = theirs \cup {s}
      PROVE  VolumeIInv'
  <2>1. /\ sound' = [level |-> sound'.level, muted |-> sound'.muted,
                     default |-> sound'.default, up |-> sound'.up]
        /\ sound'.level = [sound.level EXCEPT ![s] = level] /\ sound'.muted = sound.muted
        /\ sound'.up = sound.up
    BY <1>3 DEF VolumeIInv, VolumeTyped
  <2>2. /\ sound'.level = meant' /\ meant' = [r \in Known |-> meant'[r]]
        /\ \A r \in Known : r # s => sound'.level[r] = sound.level[r]
    BY <1>3, <2>1 DEF VolumeIInv, VolumeTyped
  <2>3. volumePanel.backend # "closed" =>
          RowsTrue(volumePanel.sinks, volumePanel.backend, sound'.level, sound'.muted, theirs')
    BY <1>3, <2>1, <2>2 DEF VolumeIInv, RowsTrue, RowTrue
  <2>4. VolumeTyped'
    BY <1>1, <2>1, <2>2 DEF VolumeIInv, VolumeTyped
  <2> QED
    BY <1>1, <2>1, <2>2, <2>3, <2>4 DEF VolumeIInv
<1> QED
  BY <1>2, <1>3 DEF Turn

LEMMA VolumeKept ==
  ASSUME VolumeAssumption, VolumeIInv, [VolumeNext]_volumeVars PROVE VolumeIInv'
<1>1. ASSUME NEW unread, Press(unread) PROVE VolumeIInv'
  <2>1. onPath' = onPath /\ volumePanel.backend # "closed"
    BY <1>1 DEF Press
  <2>2. CASE UNCHANGED <<sound, meant, volumePanel, theirs>>
    BY <2>1, <2>2 DEF VolumeIInv, VolumeTyped
  <2> QED
    BY <1>1, <2>1, <2>2, SetVolumeKeeps, SetMuteKeeps DEF Press
<1>2. CASE VolumeDestroy
  BY <1>2 DEF VolumeDestroy, VolumeIInv, VolumeTyped, ClosedVolume
<1>3. CASE UNCHANGED volumeVars
  BY <1>3 DEF volumeVars, VolumeIInv, VolumeTyped
<1> QED
  BY <1>1, <1>2, <1>3, SelectBackendKeeps, SetDefaultKeeps, TurnKeeps DEF VolumeNext
--------------------------------------------------------------------------------
(* The sheets pane. *)

Command == [verb : {"sheet", "pin"}, nr : Numbers]
CompositorTyped(c) ==
  /\ c = [sheet |-> c.sheet, focus |-> c.focus, late |-> c.late, counts |-> c.counts]
  /\ c.sheet \in Numbers /\ c.late \subseteq Command
  /\ c.counts = [n \in Numbers |-> c.counts[n]]

(* A pane that says no sheet says nothing; what it says is an answer's. *)
OneReading(p, a) ==
  /\ p.current \in {Unsaid, a.sheet}
  /\ \A n \in Numbers : p.counts[n] \in {0, a.counts[n]}
  /\ p.current = Unsaid => \A n \in Numbers : p.counts[n] = 0
SheetsIInv ==
  /\ CompositorTyped(compositor)
  /\ sheetsPane = [open |-> sheetsPane.open, current |-> sheetsPane.current,
                   counts |-> sheetsPane.counts]
  /\ sheetsPane.open => OneReading(sheetsPane, answered)

LEMMA SheetsEnough == SheetsIInv => PaneIsOneReading
  BY DEF SheetsIInv, OneReading, PaneIsOneReading

LEMMA SheetsStarts == ASSUME SheetsAssumption, NEW on, SheetsInit(on) PROVE SheetsIInv
<1>1. 0 \in Numbers
  BY DEF Numbers, SheetsAssumption
<1> QED
  BY <1>1 DEF SheetsInit, SheetsIInv, CompositorTyped, NoPane

LEMMA PerformedTyped ==
  ASSUME NEW d, CompositorTyped(d), NEW command \in Command
  PROVE  CompositorTyped(Performed(d, command))
<1>1. command.nr \in Numbers
  BY DEF Command
<1>2. CASE command.verb = "sheet"
  BY <1>1, <1>2 DEF Performed, CompositorTyped
<1>3. CASE command.verb # "sheet"
  <2> DEFINE counts == [n \in Numbers |-> d.counts[n] - (IF n = d.focus THEN 1 ELSE 0)
                                            + (IF n = command.nr THEN 1 ELSE 0)]
  <2>1. Performed(d, command) = [d EXCEPT !.counts = counts, !.focus = command.nr]
    BY <1>3 DEF Performed
  <2>2. counts = [n \in Numbers |-> counts[n]]
    OBVIOUS
  <2> HIDE DEF counts
  <2> QED
    BY <2>1, <2>2 DEF CompositorTyped
<1> QED
  BY <1>2, <1>3

LEMMA LateTyped ==
  ASSUME CompositorTyped(compositor), NEW command \in Command
  PROVE  CompositorTyped(Late(command))
  BY DEF Late, CompositorTyped

(* What is parsed into an empty pane, from any part of an answer, is one reading. *)
LEMMA ParsedIsOne ==
  ASSUME SheetsAssumption, NEW p, p.current = Unsaid, p.counts = [n \in Numbers |-> 0],
         p = [open |-> p.open, current |-> p.current, counts |-> p.counts],
         NEW d, d.sheet \in Numbers, NEW fields \in 0..SheetsCount + 1
  PROVE  LET parsed == ParseState(p, d, fields)
         IN /\ parsed = [open |-> parsed.open, current |-> parsed.current,
                         counts |-> parsed.counts]
            /\ OneReading(parsed, d)
<1> DEFINE parsed == ParseState(p, d, fields)
           counts == [n \in Numbers |-> IF n + 1 < fields THEN d.counts[n] ELSE p.counts[n]]
           current == IF fields = 0 THEN p.current ELSE d.sheet
<1>1. parsed = [p EXCEPT !.current = current, !.counts = counts]
  BY DEF ParseState
<1>2. \A n \in Numbers : counts[n] \in {0, d.counts[n]} /\ (fields = 0 => counts[n] = 0)
  BY DEF Numbers, SheetsAssumption
<1>3. current \in {Unsaid, d.sheet} /\ (current = Unsaid => fields = 0)
  BY DEF Numbers, SheetsAssumption, Unsaid
<1> HIDE DEF counts, current
<1>4. /\ parsed = [open |-> parsed.open, current |-> parsed.current, counts |-> parsed.counts]
      /\ parsed.counts = counts /\ parsed.current = current
  BY <1>1
<1> HIDE DEF parsed
<1>5. OneReading(parsed, d)
  BY <1>2, <1>3, <1>4 DEF OneReading
<1> QED
  BY <1>4, <1>5 DEF parsed

LEMMA RefreshIsOne ==
  ASSUME SheetsAssumption, NEW d, CompositorTyped(d),
         sheetsPane = [open |-> sheetsPane.open, current |-> sheetsPane.current,
                       counts |-> sheetsPane.counts],
         NEW fields \in 0..SheetsCount + 1, SheetsRefresh(d, fields)
  PROVE  /\ sheetsPane' = [open |-> sheetsPane'.open, current |-> sheetsPane'.current,
                           counts |-> sheetsPane'.counts]
         /\ OneReading(sheetsPane', answered')
<1> DEFINE p == Emptied(sheetsPane)
<1>1. /\ p.current = Unsaid /\ p.counts = [n \in Numbers |-> 0]
      /\ p = [open |-> p.open, current |-> p.current, counts |-> p.counts]
  BY DEF Emptied, NoPane
<1>2. sheetsPane' = ParseState(p, d, fields) /\ answered' = d
  BY DEF SheetsRefresh
<1>3. d.sheet \in Numbers
  BY DEF CompositorTyped
<1> HIDE DEF p
<1> QED
  BY <1>1, <1>2, <1>3, ParsedIsOne

LEMMA OpenPaneKeeps == ASSUME SheetsAssumption, SheetsIInv, OpenPane PROVE SheetsIInv'
<1> DEFINE p == [NoPane EXCEPT !.open = TRUE]
<1>1. PICK fields \in 0..SheetsCount + 1 :
        sheetsPane' = ParseState(p, compositor, fields) /\ answered' = compositor
  BY DEF OpenPane
<1>2. /\ p.current = Unsaid /\ p.counts = [n \in Numbers |-> 0]
      /\ p = [open |-> p.open, current |-> p.current, counts |-> p.counts]
  <2> DEFINE none == [n \in Numbers |-> 0]
  <2>1. NoPane = [open |-> FALSE, current |-> Unsaid, counts |-> none]
    BY DEF NoPane
  <2> HIDE DEF none
  <2>2. p = [open |-> TRUE, current |-> Unsaid, counts |-> none]
    <3>1. PICK q : q = NoPane
      OBVIOUS
    <3>2. q = [open |-> FALSE, current |-> Unsaid, counts |-> none]
      BY <2>1, <3>1
    <3>3. PICK r : r = [q EXCEPT !.open = TRUE]
      OBVIOUS
    <3>4. r = [open |-> TRUE, current |-> Unsaid, counts |-> none]
      BY <3>2, <3>3
    <3> QED
      BY <3>1, <3>3, <3>4, Zenon
  <2> HIDE DEF p
  <2>3. /\ p.current = Unsaid /\ p.counts = none
        /\ p = [open |-> p.open, current |-> p.current, counts |-> p.counts]
    BY <2>2
  <2> QED
    BY <2>3 DEF none
<1>3. compositor' = compositor /\ CompositorTyped(compositor) /\ compositor.sheet \in Numbers
  BY DEF OpenPane, SheetsIInv, CompositorTyped
<1> HIDE DEF p
<1>4. /\ sheetsPane' = [open |-> sheetsPane'.open, current |-> sheetsPane'.current,
                        counts |-> sheetsPane'.counts]
      /\ OneReading(sheetsPane', answered')
  BY <1>1, <1>2, <1>3, ParsedIsOne
<1> QED
  BY <1>3, <1>4 DEF SheetsIInv

LEMMA PinWindowKeeps ==
  ASSUME SheetsAssumption, SheetsIInv, NEW n \in Numbers, PinWindow(n) PROVE SheetsIInv'
<1> DEFINE pin == [verb |-> "pin", nr |-> n]
           done == Performed(compositor, pin)
<1>1. pin \in Command
  BY DEF Command
<1>2. CompositorTyped(compositor) /\ CompositorTyped(done) /\ CompositorTyped(Late(pin))
  BY <1>1, PerformedTyped, LateTyped DEF SheetsIInv
<1>3. \/ /\ compositor' = done
         /\ Unanswered \/ \E fields \in 0..SheetsCount + 1 : SheetsRefresh(done, fields)
      \/ compositor' \in {compositor, Late(pin)} /\ Unanswered
  BY DEF PinWindow
<1> HIDE DEF pin, done
<1>4. CompositorTyped(compositor')
  BY <1>2, <1>3
<1>5. CASE Unanswered
  BY <1>4, <1>5 DEF Unanswered, SheetsIInv
<1>6. ASSUME NEW fields \in 0..SheetsCount + 1, SheetsRefresh(done, fields) PROVE SheetsIInv'
  BY <1>2, <1>4, <1>6, RefreshIsOne DEF SheetsIInv
<1> QED
  BY <1>3, <1>5, <1>6

LEMMA SheetsKept ==
  ASSUME SheetsAssumption, SheetsIInv, [SheetsNext]_sheetsVars PROVE SheetsIInv'
<1>1. ASSUME NEW n \in Numbers, ShowSheet(n) PROVE SheetsIInv'
  <2> DEFINE show == [verb |-> "sheet", nr |-> n]
  <2>1. show \in Command
    BY DEF Command
  <2>2. compositor' \in {compositor, Performed(compositor, show), Late(show)} /\ sheetsPane' = NoPane
    BY <1>1 DEF ShowSheet
  <2> HIDE DEF show
  <2>3. CompositorTyped(compositor')
    BY <2>1, <2>2, PerformedTyped, LateTyped DEF SheetsIInv
  <2> QED
    BY <2>2, <2>3 DEF SheetsIInv, NoPane
<1>2. CASE DestroyPane
  BY <1>2 DEF DestroyPane, SheetsIInv, NoPane
<1>3. ASSUME NEW command \in compositor.late, CatchUp(command) PROVE SheetsIInv'
  <2>1. CompositorTyped(Performed(compositor, command)) /\ compositor.late \subseteq Command
    BY <1>3, PerformedTyped DEF SheetsIInv, CompositorTyped
  <2> DEFINE rest == compositor.late \ {command}
             done == Performed(compositor, command)
  <2>2. compositor' = [done EXCEPT !.late = rest] /\ rest \subseteq Command
    BY <1>3, <2>1 DEF CatchUp
  <2> HIDE DEF rest, done
  <2>3. CompositorTyped(compositor')
    BY <2>1, <2>2 DEF CompositorTyped, done
  <2> QED
    BY <1>3, <2>3 DEF CatchUp, SheetsIInv
<1>4. CASE WindowMoves
  <2>1. PICK n \in Numbers : \/ compositor' = [compositor EXCEPT !.counts[n] = @ + 1, !.focus = n]
                             \/ compositor' = [compositor EXCEPT !.sheet = n]
    BY <1>4 DEF WindowMoves
  <2>2. CASE compositor' = [compositor EXCEPT !.sheet = n]
    BY <1>4, <2>1, <2>2 DEF WindowMoves, SheetsIInv, CompositorTyped
  <2>3. CASE compositor' = [compositor EXCEPT !.counts[n] = @ + 1, !.focus = n]
    <3> DEFINE counts == [compositor.counts EXCEPT ![n] = @ + 1]
    <3>1. compositor' = [compositor EXCEPT !.counts = counts, !.focus = n]
      BY <2>3 DEF SheetsIInv, CompositorTyped
    <3>2. counts = [k \in Numbers |-> counts[k]]
      BY DEF SheetsIInv, CompositorTyped
    <3> HIDE DEF counts
    <3>3. CompositorTyped(compositor')
      BY <3>1, <3>2 DEF SheetsIInv, CompositorTyped
    <3> QED
      BY <1>4, <3>3 DEF WindowMoves, SheetsIInv
  <2> QED
    BY <2>1, <2>2, <2>3
<1>5. CASE UNCHANGED sheetsVars
  BY <1>5 DEF sheetsVars, SheetsIInv
<1> QED
  BY <1>1, <1>2, <1>3, <1>4, <1>5, OpenPaneKeeps, PinWindowKeeps DEF SheetsNext
--------------------------------------------------------------------------------
(* The bluetooth panel. *)

RowKinds == {"adapter", "device", "discoverable", "scan", "request"}

PanelTyped ==
  pane = [live |-> pane.live, rows |-> pane.rows, adapter |-> pane.adapter,
          asked |-> pane.asked, pairing |-> pane.pairing, coalesce |-> pane.coalesce,
          status |-> pane.status]

(* A row of a question is there only while one is asked. *)
RowsKnown(rows, asked) ==
  \A i \in DOMAIN rows : rows[i].kind \in RowKinds /\ (rows[i].kind = "request" => asked # "none")

PeerIInv ==
  /\ PanelTyped
  /\ underway \in Nat /\ told \in Nat /\ (~pane.live => told = 0 /\ pane = NoPanel)
  /\ RowsKnown(pane.rows, pane.asked)
  /\ DevicesCatchUp /\ LastIsTold

LEMMA PeerEnough == PeerIInv => DevicesCatchUp /\ LastIsTold
  BY DEF PeerIInv

LEMMA KnownJoined ==
  ASSUME NEW T, NEW s \in Seq(T), NEW t \in Seq(T), NEW asked,
         RowsKnown(s, asked), RowsKnown(t, asked)
  PROVE  s \o t \in Seq(T) /\ RowsKnown(s \o t, asked)
<1>1. /\ s \o t \in Seq(T) /\ Len(s \o t) = Len(s) + Len(t)
      /\ \A i \in 1..Len(s) + Len(t) :
           (s \o t)[i] = IF i <= Len(s) THEN s[i] ELSE t[i - Len(s)]
  BY ConcatProperties
<1>2. /\ DOMAIN (s \o t) = 1..Len(s \o t)
      /\ DOMAIN s = 1..Len(s) /\ DOMAIN t = 1..Len(t) /\ Len(s) \in Nat /\ Len(t) \in Nat
  BY <1>1, LenProperties
<1> DEFINE u == s \o t
<1>3. ASSUME NEW i \in DOMAIN u
      PROVE  (\E j \in DOMAIN s : u[i] = s[j]) \/ \E j \in DOMAIN t : u[i] = t[j]
  <2>1. CASE i <= Len(s)
    BY <1>1, <1>2, <2>1
  <2>2. CASE ~(i <= Len(s))
    <3>1. i - Len(s) \in DOMAIN t /\ u[i] = t[i - Len(s)]
      BY <1>1, <1>2, <2>2
    <3> QED
      BY <3>1
  <2> QED
    BY <2>1, <2>2
<1> HIDE DEF u
<1>4. RowsKnown(u, asked)
  BY <1>3 DEF RowsKnown
<1> QED
  BY <1>1, <1>4 DEF u

LEMMA ReadingKnown ==
  ASSUME IsFiniteSet(Peers), NEW d, NEW asked PROVE RowsKnown(Reading(d), asked)
<1> DEFINE first == PeerRow("adapter", Adapter(d), Adapter(d) = "on")
           one == PeerRow("discoverable", "", d.discoverable)
           other == PeerRow("scan", "", d.discovering)
           devices == DeviceRows(d)
           T == {first, one, other} \cup {devices[i] : i \in DOMAIN devices}
<1>1. first.kind = "adapter" /\ one.kind = "discoverable" /\ other.kind = "scan"
  BY DEF PeerRow
<1>2. /\ \A i \in DOMAIN devices : devices[i].kind = "device"
      /\ devices \in Seq({devices[i] : i \in DOMAIN devices})
  <2> DEFINE Here == {p \in Peers : d.peers[p].at = "here"}
             row == PeerRow("device", "", FALSE)
             At(i) == CHOOSE p \in Here : Cardinality({q \in Here : q < p}) = i - 1
             n == Cardinality(Here)
  <2>1. n \in Nat
    BY FS_Subset, FS_CardinalityType
  <2>2. devices = [i \in 1..n |-> [row EXCEPT !.id = At(i), !.peer = d.peers[At(i)],
                                              !.on = d.peers[At(i)].connected]]
    BY DEF DeviceRows
  <2>3. \A x, y, z : [row EXCEPT !.id = x, !.peer = y, !.on = z].kind = "device"
    BY DEF PeerRow
  <2> HIDE DEF At, n, row, devices
  <2>4. DOMAIN devices = 1..n /\ \A i \in DOMAIN devices : devices[i].kind = "device"
    <3>1. DOMAIN devices = 1..n
      BY <2>2
    <3>2. ASSUME NEW i \in 1..n PROVE devices[i].kind = "device"
      <4>1. devices[i] = [row EXCEPT !.id = At(i), !.peer = d.peers[At(i)],
                                     !.on = d.peers[At(i)].connected]
        BY <2>2, Zenon
      <4>2. PICK x : x = At(i)
        OBVIOUS
      <4>3. PICK y, z : y = d.peers[x] /\ z = d.peers[x].connected
        OBVIOUS
      <4>4. devices[i] = [row EXCEPT !.id = x, !.peer = y, !.on = z]
        BY <4>1, <4>2, <4>3, Zenon
      <4> QED
        BY <2>3, <4>4
    <3> QED
      BY <3>1, <3>2
  <2>5. devices = [i \in 1..n |-> devices[i]]
    BY <2>2
  <2>6. devices \in [1..n -> {devices[i] : i \in DOMAIN devices}]
    BY <2>4, <2>5
  <2> QED
    BY <2>1, <2>4, <2>6, SeqDef
<1>3. Reading(d) = <<first>> \o IF Adapter(d) = "on" THEN devices \o <<one, other>> ELSE <<>>
  BY DEF Reading, ActionRows
<1> HIDE DEF first, one, other, devices
<1>4. <<first>> \in Seq(T) /\ <<one, other>> \in Seq(T) /\ <<>> \in Seq(T) /\ devices \in Seq(T)
  <2>1. <<first>> \in Seq(T) /\ <<one, other>> \in Seq(T) /\ <<>> \in Seq(T)
    OBVIOUS
  <2>2. \E n \in Nat : devices \in [1..n -> {devices[i] : i \in DOMAIN devices}]
    BY <1>2, SeqDef
  <2>3. \E n \in Nat : devices \in [1..n -> T]
    BY <2>2
  <2> QED
    BY <2>1, <2>3, SeqDef
<1>5. /\ RowsKnown(<<first>>, asked) /\ RowsKnown(<<one, other>>, asked)
      /\ RowsKnown(<<>>, asked) /\ RowsKnown(devices, asked)
  BY <1>1, <1>2 DEF RowsKnown, RowKinds
<1> HIDE DEF T
<1>6. CASE Adapter(d) = "on"
  <2>1. devices \o <<one, other>> \in Seq(T) /\ RowsKnown(devices \o <<one, other>>, asked)
    BY <1>4, <1>5, KnownJoined
  <2>2. RowsKnown(<<first>> \o (devices \o <<one, other>>), asked)
    BY <1>4, <1>5, <2>1, KnownJoined
  <2> QED
    BY <1>3, <1>6, <2>2
<1>7. CASE Adapter(d) # "on"
  <2>1. RowsKnown(<<first>> \o <<>>, asked)
    BY <1>4, <1>5, KnownJoined
  <2> QED
    BY <1>3, <1>7, <2>1
<1> QED
  BY <1>6, <1>7

(* What a reading, or the question in its place, makes of a panel. *)
LEMMA ReadingDoes ==
  ASSUME IsFiniteSet(Peers), NEW p, NEW d, NEW read, read = ReadAgain(p, d),
         p = [live |-> p.live, rows |-> p.rows, adapter |-> p.adapter, asked |-> p.asked,
              pairing |-> p.pairing, coalesce |-> p.coalesce, status |-> p.status]
  PROVE  /\ read = [live |-> p.live, rows |-> read.rows, adapter |-> read.adapter,
                    asked |-> p.asked, pairing |-> p.pairing, coalesce |-> p.coalesce,
                    status |-> p.status]
         /\ RowsKnown(read.rows, p.asked)
<1>1. CASE p.asked # "none"
  <2>1. read = [p EXCEPT !.rows = <<PeerRow("request", p.asked, FALSE)>>]
    BY <1>1 DEF ReadAgain
  <2> DEFINE rows == <<PeerRow("request", p.asked, FALSE)>>
  <2>2. RowsKnown(rows, p.asked)
    BY <1>1 DEF RowsKnown, PeerRow, RowKinds
  <2> HIDE DEF rows
  <2> QED
    BY <2>1, <2>2 DEF rows
<1>2. CASE p.asked = "none"
  <2> DEFINE rows == Reading(d)
             adapter == Adapter(d)
  <2>1. read = [p EXCEPT !.rows = rows, !.adapter = adapter]
    BY <1>2 DEF ReadAgain
  <2>2. RowsKnown(rows, p.asked)
    BY ReadingKnown
  <2> HIDE DEF rows, adapter
  <2> QED
    BY <2>1, <2>2
<1> QED
  BY <1>1, <1>2

LEMMA ReadAgainTyped ==
  ASSUME PeersAssumption, NEW p, NEW d,
         p = [live |-> p.live, rows |-> p.rows, adapter |-> p.adapter, asked |-> p.asked,
              pairing |-> p.pairing, coalesce |-> p.coalesce, status |-> p.status],
         pane' = ReadAgain(p, d)
  PROVE  /\ PanelTyped' /\ RowsKnown(pane'.rows, pane'.asked)
         /\ pane'.live = p.live /\ pane'.status = p.status /\ pane'.coalesce = p.coalesce
         /\ pane'.rows = ReadAgain(pane', d).rows
<1> DEFINE read == ReadAgain(p, d)
<1>0. IsFiniteSet(Peers)
  BY DEF PeersAssumption
<1>1. PICK r : r = read
  OBVIOUS
<1>2. /\ r = [live |-> p.live, rows |-> r.rows, adapter |-> r.adapter,
              asked |-> p.asked, pairing |-> p.pairing, coalesce |-> p.coalesce,
              status |-> p.status]
      /\ RowsKnown(r.rows, p.asked)
  BY <1>0, <1>1, ReadingDoes
<1>3. r.rows = ReadAgain(r, d).rows
  <2>1. r.asked = p.asked
    BY <1>2
  <2>2. \A q : q = [live |-> q.live, rows |-> q.rows, adapter |-> q.adapter,
                   asked |-> q.asked, pairing |-> q.pairing, coalesce |-> q.coalesce,
                   status |-> q.status] =>
          ReadAgain(q, d).rows = IF q.asked # "none" THEN <<PeerRow("request", q.asked, FALSE)>>
                                 ELSE Reading(d)
    BY DEF ReadAgain
  <2>3. r = [live |-> r.live, rows |-> r.rows, adapter |-> r.adapter,
             asked |-> r.asked, pairing |-> r.pairing, coalesce |-> r.coalesce,
             status |-> r.status]
    BY <1>2
  <2>4. r.rows = IF p.asked # "none" THEN <<PeerRow("request", p.asked, FALSE)>> ELSE Reading(d)
    BY <1>1, <2>2
  <2> QED
    BY <2>1, <2>2, <2>3, <2>4
<1>4. pane' = r
  BY <1>1
<1>5. /\ r.live = p.live /\ r.status = p.status /\ r.coalesce = p.coalesce /\ r.asked = p.asked
      /\ r = [live |-> r.live, rows |-> r.rows, adapter |-> r.adapter,
              asked |-> r.asked, pairing |-> r.pairing, coalesce |-> r.coalesce,
              status |-> r.status]
  BY <1>2
<1> QED
  BY <1>2, <1>3, <1>4, <1>5 DEF PanelTyped

(* What keeps the panel's record and the rows, told and redraws.  *)
LEMMA Rebuilt ==
  ASSUME PeersAssumption, PeerIInv, NEW p,
         p = [live |-> p.live, rows |-> p.rows, adapter |-> p.adapter, asked |-> p.asked,
              pairing |-> p.pairing, coalesce |-> p.coalesce, status |-> p.status],
         p.live, p.status = told', told' \in Nat, underway' \in Nat,
         \E d \in {daemon', NoAnswer} : pane' = ReadAgain(p, d),
         redraw' \/ drawn' = Surface(pane')
  PROVE  PeerIInv'
<1>1. PICK d \in {daemon', NoAnswer} : pane' = ReadAgain(p, d)
  OBVIOUS
<1>2. /\ PanelTyped' /\ RowsKnown(pane'.rows, pane'.asked)
      /\ pane'.live = p.live /\ pane'.status = p.status
      /\ pane'.rows = ReadAgain(pane', d).rows
  BY <1>1, ReadAgainTyped
<1>3. DevicesCatchUp'
  BY <1>1, <1>2 DEF DevicesCatchUp
<1>4. LastIsTold'
  BY <1>2 DEF LastIsTold
<1> QED
  BY <1>2, <1>3, <1>4 DEF PeerIInv

(* Whatever comes of a key is told of, and rows that stay are still of what is *)
(* asked.                                                                      *)
Good(o) == o.said = TRUE /\ (o.asked = pane.asked \/ o.again = TRUE)

LEMMA OutcomeGood == Good(Outcome)
  BY DEF Good, Outcome

LEMMA TryGood == ASSUME NEW possible, NEW e, NEW o \in Try(possible, e) PROVE Good(o)
<1>1. CASE o = Outcome
  BY <1>1, OutcomeGood
<1>2. ASSUME NEW a, o = [Outcome EXCEPT !.daemon = e, !.again = a]
      PROVE  Good(o)
  <2>1. o.said = TRUE /\ o.asked = pane.asked
    BY <1>2 DEF Outcome
  <2> QED
    BY <2>1 DEF Good
<1> QED
  BY <1>1, <1>2 DEF Try

LEMMA ActivateGood ==
  ASSUME NEW row, row.kind \in RowKinds, row.kind = "request" => pane.asked # "none",
         NEW o \in Activate(row)
  PROVE  Good(o)
<1>1. CASE row.kind = "adapter"
  <2>1. o \in Power(~row.on)
    BY <1>1 DEF Activate
  <2> QED
    BY <2>1, OutcomeGood, TryGood DEF Power
<1>2. CASE row.kind = "device"
  <2>1. o \in LinkPeer(row.id, FALSE) \/ o \in LinkPeer(row.id, TRUE) \/ o \in PairPeer
    BY <1>2 DEF Activate
  <2>2. CASE o \in PairPeer
    <3>1. CASE o = Outcome
      BY <3>1, OutcomeGood
    <3>2. CASE o = [Outcome EXCEPT !.pairing = TRUE, !.again = TRUE]
      <4>1. o.said = TRUE /\ o.asked = pane.asked
        BY <3>2 DEF Outcome
      <4> QED
        BY <4>1 DEF Good
    <3> QED
      BY <2>2, <3>1, <3>2 DEF PairPeer
  <2> QED
    BY <2>1, <2>2, TryGood DEF LinkPeer
<1>3. CASE row.kind = "discoverable"
  <2>1. o \in ScanEnable(~row.on)
    BY <1>3 DEF Activate
  <2> QED
    BY <2>1, TryGood DEF ScanEnable
<1>4. CASE row.kind = "scan"
  <2>1. o \in Scan(~row.on)
    BY <1>4 DEF Activate
  <2> QED
    BY <2>1, TryGood DEF Scan
<1>5. CASE row.kind = "request"
  <2>1. o \in Reply
    BY <1>5 DEF Activate
  <2>2. o = [Outcome EXCEPT !.asked = "none", !.again = TRUE]
    BY <1>5, <2>1 DEF Reply
  <2>3. o.said = TRUE /\ o.again = TRUE
    BY <2>2 DEF Outcome
  <2> QED
    BY <2>3 DEF Good
<1> QED
  BY <1>1, <1>2, <1>3, <1>4, <1>5 DEF RowKinds

LEMMA CustomGood ==
  ASSUME NEW key \in {"scan", "disconnect", "forget", "setup"}, NEW row, NEW o \in Custom(key, row)
  PROVE  Good(o)
<1>1. CASE key = "scan"
  <2>1. o \in IF pane.adapter \in {"on", "off"} THEN Scan(TRUE) ELSE {Outcome}
    BY <1>1 DEF Custom
  <2> QED
    BY <2>1, OutcomeGood, TryGood DEF Scan
<1>2. CASE key # "scan" /\ row.kind # "device"
  <2>1. o \in {Outcome}
    BY <1>2 DEF Custom
  <2> QED
    BY <2>1, OutcomeGood
<1>3. CASE key = "disconnect" /\ row.kind = "device"
  <2>1. o \in LinkPeer(row.id, FALSE)
    BY <1>3 DEF Custom
  <2> QED
    BY <2>1, TryGood DEF LinkPeer
<1>4. CASE key = "forget" /\ row.kind = "device"
  <2>1. o \in IF row.peer.paired THEN Forget(row.id) ELSE {Outcome}
    BY <1>4 DEF Custom
  <2> QED
    BY <2>1, OutcomeGood, TryGood DEF Forget
<1>5. CASE key = "setup" /\ row.kind = "device"
  <2>1. o \in SetUp(row)
    BY <1>5 DEF Custom
  <2> QED
    BY <2>1, OutcomeGood, TryGood DEF SetUp, Trust
<1> QED
  BY <1>1, <1>2, <1>3, <1>4, <1>5

LEMMA PressedKeeps ==
  ASSUME PeersAssumption, PeerIInv, pane.live, NEW o, Good(o), Pressed(o)
  PROVE  PeerIInv'
<1>1. PICK p : p = [pane EXCEPT !.asked = o.asked, !.pairing = o.pairing,
                                !.status = IF o.said THEN told + 1 ELSE 0]
  OBVIOUS
<1>2. /\ p = [live |-> p.live, rows |-> p.rows, adapter |-> p.adapter, asked |-> p.asked,
              pairing |-> p.pairing, coalesce |-> p.coalesce, status |-> p.status]
      /\ p.live = pane.live /\ p.rows = pane.rows /\ p.asked = o.asked
      /\ p.coalesce = pane.coalesce /\ p.status = told + 1
  <2>1. PICK status : status = IF o.said THEN told + 1 ELSE 0
    OBVIOUS
  <2>2. status = told + 1
    BY <2>1, Zenon DEF Good
  <2>3. p = [pane EXCEPT !.asked = o.asked, !.pairing = o.pairing, !.status = status]
    BY <1>1, <2>1, Zenon
  <2> QED
    BY <2>2, <2>3 DEF PeerIInv, PanelTyped
<1>3. /\ daemon' = o.daemon
      /\ underway' = IF o.daemon = daemon THEN underway ELSE underway + 1
      /\ drawn' = Surface(pane') /\ told' = told + 1
      /\ IF o.again THEN \E d \in {daemon', NoAnswer} : pane' = ReadAgain(p, d) ELSE pane' = p
  BY <1>1 DEF Pressed
<1>4. told' \in Nat /\ underway' \in Nat /\ p.status = told'
  BY <1>2, <1>3 DEF PeerIInv
<1>5. CASE \E d \in {daemon', NoAnswer} : pane' = ReadAgain(p, d)
  BY <1>2, <1>3, <1>4, <1>5, Rebuilt
<1>6. CASE pane' = p /\ o.asked = pane.asked
  <2>1. PanelTyped' /\ RowsKnown(pane'.rows, pane'.asked) /\ pane'.live
    BY <1>2, <1>6 DEF PeerIInv, PanelTyped
  <2>2. LastIsTold'
    BY <1>2, <1>3, <1>6 DEF LastIsTold
  <2>3. CASE daemon' = daemon
    <3>1. \A q, d : (q = [live |-> q.live, rows |-> q.rows, adapter |-> q.adapter,
                     asked |-> q.asked, pairing |-> q.pairing, coalesce |-> q.coalesce,
                     status |-> q.status]) =>
            ReadAgain(q, d).rows = IF q.asked # "none" THEN <<PeerRow("request", q.asked, FALSE)>>
                                   ELSE Reading(d)
      BY DEF ReadAgain
    <3>2. \A d : ReadAgain(pane, d).rows = ReadAgain(p, d).rows
      <4>1. /\ pane.asked = p.asked
            /\ pane = [live |-> pane.live, rows |-> pane.rows, adapter |-> pane.adapter,
                       asked |-> pane.asked, pairing |-> pane.pairing,
                       coalesce |-> pane.coalesce, status |-> pane.status]
        BY <1>2, <1>6 DEF PeerIInv, PanelTyped
      <4>2. TAKE d
      <4>3. ReadAgain(pane, d).rows = IF pane.asked # "none"
                                      THEN <<PeerRow("request", pane.asked, FALSE)>>
                                      ELSE Reading(d)
        BY <3>1, <4>1
      <4>4. ReadAgain(p, d).rows = IF p.asked # "none"
                                   THEN <<PeerRow("request", p.asked, FALSE)>>
                                   ELSE Reading(d)
        BY <1>2, <3>1
      <4> QED
        BY <4>1, <4>3, <4>4
    <3>3. underway' = underway
      BY <1>3, <2>3
    <3> QED
      BY <1>2, <1>4, <1>6, <2>1, <2>2, <2>3, <3>2, <3>3 DEF PeerIInv, DevicesCatchUp
  <2>4. CASE daemon' # daemon
    <3>1. underway' # 0
      BY <1>3, <2>4 DEF PeerIInv
    <3> QED
      BY <1>4, <2>1, <2>2, <3>1 DEF PeerIInv, DevicesCatchUp
  <2> QED
    BY <2>3, <2>4
<1> QED
  BY <1>3, <1>5, <1>6 DEF Good

LEMMA PeerStarts == ASSUME NEW on \in BOOLEAN, PeerInit(on) PROVE PeerIInv
<1>1. pane = NoPanel /\ underway = 0 /\ told = 0
  BY DEF PeerInit
<1>2. RowsKnown(<<>>, "none")
  BY DEF RowsKnown
<1> QED
  BY <1>1, <1>2 DEF PeerIInv, PanelTyped, NoPanel, DevicesCatchUp, LastIsTold

LEMMA OpenPanelKeeps == ASSUME PeersAssumption, PeerIInv, OpenPanel PROVE PeerIInv'
<1>1. PICK p : p = [NoPanel EXCEPT !.live = TRUE]
  OBVIOUS
<1>2. /\ p = [live |-> p.live, rows |-> p.rows, adapter |-> p.adapter, asked |-> p.asked,
              pairing |-> p.pairing, coalesce |-> p.coalesce, status |-> p.status]
      /\ p.live = TRUE /\ p.status = 0
  BY <1>1 DEF NoPanel
<1>3. /\ \E d \in {daemon, NoAnswer} : pane' = ReadAgain(p, d)
      /\ drawn' = Surface(pane') /\ daemon' = daemon /\ underway' = underway /\ told' = told
      /\ ~pane.live
  BY <1>1 DEF OpenPanel, Refresh
<1> QED
  BY <1>2, <1>3, Rebuilt DEF PeerIInv

LEMMA RebuildNowKeeps == ASSUME PeersAssumption, PeerIInv, RebuildNow, pane.live PROVE PeerIInv'
<1>1. PICK p : p = [pane EXCEPT !.coalesce = FALSE]
  OBVIOUS
<1>2. /\ p = [live |-> p.live, rows |-> p.rows, adapter |-> p.adapter, asked |-> p.asked,
              pairing |-> p.pairing, coalesce |-> p.coalesce, status |-> p.status]
      /\ p.live = pane.live /\ p.status = pane.status
  BY <1>1 DEF PeerIInv, PanelTyped
<1>3. /\ \E d \in {daemon, NoAnswer} : pane' = ReadAgain(p, d)
      /\ redraw' = TRUE /\ daemon' = daemon /\ underway' = underway /\ told' = told
  BY <1>1 DEF RebuildNow, Refresh
<1> QED
  BY <1>2, <1>3, Rebuilt DEF PeerIInv, LastIsTold

LEMMA AsksKeeps == ASSUME PeersAssumption, PeerIInv, Asks PROVE PeerIInv'
<1>1. PICK what : Refresh([pane EXCEPT !.asked = what])
  BY DEF Asks
<1>2. PICK p : p = [pane EXCEPT !.asked = what]
  OBVIOUS
<1>3. /\ p = [live |-> p.live, rows |-> p.rows, adapter |-> p.adapter, asked |-> p.asked,
              pairing |-> p.pairing, coalesce |-> p.coalesce, status |-> p.status]
      /\ p.live = pane.live /\ p.status = pane.status
  BY <1>2 DEF PeerIInv, PanelTyped
<1>4. /\ \E d \in {daemon, NoAnswer} : pane' = ReadAgain(p, d)
      /\ redraw' = TRUE /\ daemon' = daemon /\ underway' = underway /\ told' = told /\ pane.live
  BY <1>1, <1>2 DEF Asks, Refresh
<1> QED
  BY <1>3, <1>4, Rebuilt DEF PeerIInv, LastIsTold

(* The agent's words are told of with a number of their own. *)
LEMMA SaidKeeps ==
  ASSUME PeersAssumption, PeerIInv, NEW q,
         q = [live |-> q.live, rows |-> q.rows, adapter |-> q.adapter, asked |-> q.asked,
              pairing |-> q.pairing, coalesce |-> q.coalesce, status |-> q.status],
         q.live, Refresh(SaidOf(q)), redraw' = TRUE, told' = told + 1,
         UNCHANGED <<daemon, underway>>
  PROVE  PeerIInv'
<1>1. PICK p : p = [q EXCEPT !.status = told + 1]
  OBVIOUS
<1>2. /\ p = [live |-> p.live, rows |-> p.rows, adapter |-> p.adapter, asked |-> p.asked,
              pairing |-> p.pairing, coalesce |-> p.coalesce, status |-> p.status]
      /\ p.live = q.live /\ p.status = told + 1
  BY <1>1
<1>3. \E d \in {daemon', NoAnswer} : pane' = ReadAgain(p, d)
  BY <1>1 DEF Refresh, SaidOf
<1>4. told' \in Nat /\ underway' \in Nat
  BY DEF PeerIInv
<1> QED
  BY <1>2, <1>3, <1>4, Rebuilt

LEMMA WithdrawsKeeps == ASSUME PeersAssumption, PeerIInv, Withdraws PROVE PeerIInv'
<1>1. PICK q : q = [pane EXCEPT !.asked = "none"]
  OBVIOUS
<1>2. /\ q = [live |-> q.live, rows |-> q.rows, adapter |-> q.adapter, asked |-> q.asked,
              pairing |-> q.pairing, coalesce |-> q.coalesce, status |-> q.status]
      /\ q.live = pane.live
  BY <1>1 DEF PeerIInv, PanelTyped
<1> QED
  BY <1>1, <1>2, SaidKeeps DEF Withdraws

LEMMA PairEndsKeeps == ASSUME PeersAssumption, PeerIInv, PairEnds PROVE PeerIInv'
<1>0. PICK asked : asked = IF pane.asked = "notice" THEN "none" ELSE pane.asked
  OBVIOUS
<1>1. PICK q : q = [pane EXCEPT !.pairing = FALSE, !.asked = asked]
  OBVIOUS
<1>2. /\ q = [live |-> q.live, rows |-> q.rows, adapter |-> q.adapter, asked |-> q.asked,
              pairing |-> q.pairing, coalesce |-> q.coalesce, status |-> q.status]
      /\ q.live = pane.live
  BY <1>1 DEF PeerIInv, PanelTyped
<1>3. q = [pane EXCEPT !.pairing = FALSE, !.asked = IF @ = "notice" THEN "none" ELSE @]
  BY <1>0, <1>1 DEF PeerIInv, PanelTyped
<1> QED
  BY <1>2, <1>3, SaidKeeps DEF PairEnds

LEMMA WantsCodeKeeps == ASSUME PeerIInv, WantsCode PROVE PeerIInv'
<1>1. /\ pane' = [pane EXCEPT !.status = told + 1] /\ told' = told + 1 /\ redraw' = TRUE
      /\ daemon' = daemon /\ underway' = underway /\ pane.live
  BY DEF WantsCode, SaidOf
<1>2. /\ PanelTyped' /\ pane'.live = pane.live /\ pane'.rows = pane.rows
      /\ pane'.asked = pane.asked /\ pane'.coalesce = pane.coalesce /\ pane'.status = told'
  BY <1>1 DEF PeerIInv, PanelTyped
<1>3. \A d : ReadAgain(pane', d).rows = ReadAgain(pane, d).rows
  BY <1>2 DEF PeerIInv, PanelTyped, ReadAgain
<1>4. DevicesCatchUp' /\ LastIsTold'
  BY <1>1, <1>2, <1>3 DEF PeerIInv, DevicesCatchUp, LastIsTold
<1> QED
  BY <1>1, <1>2, <1>4 DEF PeerIInv

LEMMA SignalArrivesKeeps == ASSUME PeerIInv, SignalArrives PROVE PeerIInv'
<1>1. /\ pane' = [pane EXCEPT !.coalesce = TRUE] /\ told' = told /\ redraw' = redraw
      /\ underway' = underway - 1 /\ underway > 0 /\ drawn' = drawn /\ pane.live
  BY DEF SignalArrives
<1>2. /\ PanelTyped' /\ pane'.live = pane.live /\ pane'.rows = pane.rows
      /\ pane'.asked = pane.asked /\ pane'.coalesce = TRUE /\ pane'.status = pane.status
      /\ pane'.adapter = pane.adapter
  BY <1>1 DEF PeerIInv, PanelTyped
<1>3. Surface(pane') = Surface(pane)
  BY <1>2 DEF Surface, Hint
<1>4. DevicesCatchUp' /\ LastIsTold'
  BY <1>1, <1>2, <1>3 DEF PeerIInv, DevicesCatchUp, LastIsTold
<1> QED
  BY <1>1, <1>2, <1>4 DEF PeerIInv

(* What bluetoothd becomes without a signal is down; nothing more is asked of *)
(* the rows then.                                                             *)
LEMMA BecomesKeeps ==
  ASSUME PeerIInv, NEW d, NEW signalled \in BOOLEAN, DaemonBecomes(d, signalled),
         signalled \/ ~d.up
  PROVE  PeerIInv'
<1>1. /\ daemon' = d /\ pane' = pane /\ told' = told /\ redraw' = redraw /\ drawn' = drawn
      /\ underway' = IF signalled /\ pane.live THEN underway + 1 ELSE underway
  BY DEF DaemonBecomes
<1>2. underway' \in Nat /\ (signalled /\ pane.live => underway' # 0)
  BY <1>1 DEF PeerIInv
<1>3. LastIsTold'
  BY <1>1 DEF PeerIInv, LastIsTold, Surface, Hint
<1> QED
  BY <1>1, <1>2, <1>3 DEF PeerIInv, PanelTyped, DevicesCatchUp

LEMMA PeerKept == ASSUME PeersAssumption, PeerIInv, [PeerNext]_peerVars PROVE PeerIInv'
<1>1. CASE ClosePanel
  <2>1. RowsKnown(<<>>, "none")
    BY DEF RowsKnown
  <2> QED
    BY <1>1, <2>1 DEF ClosePanel, PeerIInv, PanelTyped, NoPanel, DevicesCatchUp, LastIsTold
<1>2. CASE Draw
  <2>1. pane' = pane /\ underway' = underway /\ told' = told /\ daemon' = daemon /\ drawn' = Surface(pane)
    BY <1>2 DEF Draw
  <2>2. LastIsTold' /\ DevicesCatchUp'
    BY <2>1 DEF PeerIInv, LastIsTold, DevicesCatchUp, ReadAgain, Surface, Hint
  <2> QED
    BY <2>1, <2>2 DEF PeerIInv, PanelTyped
<1>3. CASE RebuildNow
  <2>1. pane.live
    BY <1>3 DEF RebuildNow, PeerIInv, NoPanel
  <2> QED
    BY <1>3, <2>1, RebuildNowKeeps
<1>4. CASE PressEnter
  <2>1. PICK i \in DOMAIN pane.rows : \E o \in Activate(pane.rows[i]) : Pressed(o)
    BY <1>4 DEF PressEnter
  <2>2. /\ pane.rows[i].kind \in RowKinds /\ (pane.rows[i].kind = "request" => pane.asked # "none")
        /\ pane.live
    BY <1>4 DEF PeerIInv, RowsKnown, PressEnter
  <2> QED
    BY <2>1, <2>2, ActivateGood, PressedKeeps
<1>5. CASE PressCustom
  BY <1>5, CustomGood, PressedKeeps DEF PressCustom
<1>6. CASE Changes
  BY <1>6, BecomesKeeps DEF Changes
<1>7. CASE Dies
  <2>1. ~NoAnswer.up
    BY DEF NoAnswer
  <2> QED
    BY <1>7, <2>1, BecomesKeeps DEF Dies
<1>8. CASE Starts
  BY <1>8, BecomesKeeps DEF Starts
<1>9. CASE UNCHANGED peerVars
  <2>1. /\ pane' = pane /\ underway' = underway /\ told' = told /\ daemon' = daemon
        /\ drawn' = drawn /\ redraw' = redraw
    BY <1>9 DEF peerVars
  <2>2. LastIsTold' /\ DevicesCatchUp'
    BY <2>1 DEF PeerIInv, LastIsTold, DevicesCatchUp, ReadAgain, Surface, Hint
  <2> QED
    BY <2>1, <2>2 DEF PeerIInv, PanelTyped
<1> QED
  BY <1>1, <1>2, <1>3, <1>4, <1>5, <1>6, <1>7, <1>8, <1>9, OpenPanelKeeps,
     SignalArrivesKeeps, AsksKeeps, WithdrawsKeeps, WantsCodeKeeps, PairEndsKeeps DEF PeerNext
================================================================================
