----------------------------- MODULE SoundAndSheets ----------------------------
(* Two panels that read rows from somebody else, and read them again after what *)
(* they ask for: the volume panel (modes/volume.c) and the sheets pane          *)
(* (modes/sheets.c).  They share nothing.                                       *)
(*                                                                              *)
(* The volume panel lists the sinks of the first of three tools that lists one, *)
(* and gives commands through the same tool.  A command or a listing is a step: *)
(* the panel waits for it.  The two servers' tools differ in how a sink that    *)
(* cannot be read is listed; "mixer" asks the kernel for its devices and has no *)
(* default.  Out: how their output is parsed, the text of a row, a sink that    *)
(* comes or goes while the panel is open.                                       *)
(*                                                                              *)
(* The sheets pane shows what the compositor says of its sheets, over a socket, *)
(* one request to a connection.  It waits for an answer, for a second at most,  *)
(* and takes what has come by then.  Windows are told apart by their sheets     *)
(* only.  Out: an answer that is cut within a word, the output's name, which is *)
(* read and never used, a row's text, lines of a compositor that says more.     *)
EXTENDS Integers, SequencesExt

CONSTANTS
  Sinks,          \* the sequence in which the server lists its sinks
  Devices,        \* those of volume_mixer_devices this hardware has
  Levels,         \* what others set a level to
  MaxPresses,     \* bound: what is asked of the volumePanel
  MaxTurns        \* bound: what others do to the sound

VOLUME_STEP == 5
VOLUME_MAX == 100
Tools == <<"wpctl", "pactl", "mixer">>

ASSUME VolumeAssumption ==
  /\ Levels \subseteq Nat /\ MaxPresses \in Nat /\ MaxTurns \in Nat
  /\ Sinks \in Seq(ToSet(Sinks)) /\ Devices \in Seq(ToSet(Devices))
  /\ ToSet(Sinks) \cap ToSet(Devices) = {}

VARIABLES
  sound,      \* [level, muted: of each sink and device, default: a sink, up]
  onPath,     \* the tools on $PATH
  volumePanel,  \* [backend: "closed" or a tool, sinks: the rows]
  meant,      \* ghost: meant[s], the level s has by what was pressed
  theirs,     \* ghost: the sinks that are not what their rows say: turned by
              \*   others since, or they could not be read
  presses, turns

volumeVars == <<sound, onPath, volumePanel, meant, theirs, presses, turns>>

Known == ToSet(Sinks) \cup ToSet(Devices)
ClosedVolume == [backend |-> "closed", sinks |-> <<>>]

VolumeInit(on) ==
  /\ sound \in [level : {[s \in Known |-> 98]}, muted : {[s \in Known |-> FALSE]},
                default : {Head(Sinks)}, up : IF on THEN BOOLEAN ELSE {FALSE}]
  /\ onPath \in IF on THEN SUBSET ToSet(Tools) ELSE {{}}
  /\ volumePanel = ClosedVolume /\ meant = sound.level /\ theirs = {}
  /\ presses = (IF on THEN 0 ELSE MaxPresses) /\ turns = (IF on THEN 0 ELSE MaxTurns)
--------------------------------------------------------------------------------
VolumeClamp(percent) ==
  IF percent < 0 THEN 0 ELSE IF percent > VOLUME_MAX THEN VOLUME_MAX ELSE percent

Row(s, level, muted, default) ==
  [id |-> s, volume |-> VolumeClamp(level), muted |-> muted, is_default |-> default]

(* volume_wpctl_list() and volume_pactl_list(): what one lists when some of its *)
(* questions about a sink, or for the default, are not answered                 *)
WpctlList(now, unread) ==
  [i \in DOMAIN Sinks |->
     LET s == Sinks[i]
     IN IF s \in unread THEN Row(s, 0, FALSE, s = now.default)
        ELSE Row(s, now.level[s], now.muted[s], s = now.default)]
PactlList(now, unread) ==
  [i \in DOMAIN Sinks |->
     LET s == Sinks[i]
     IN Row(s, now.level[s], now.muted[s], unread = {} /\ s = now.default)]

(* volume_mixer_list(): of the devices that answer the first is the default     *)
Answering(unread) ==
  LET read[i \in 0..Len(Devices)] ==
        IF i = 0 THEN <<>>
        ELSE IF Devices[i] \in unread THEN read[i - 1]
        ELSE Append(read[i - 1], Devices[i])
  IN read[Len(Devices)]
MixerList(now, unread) ==
  LET read == Answering(unread)
  IN [i \in DOMAIN read |-> Row(read[i], now.level[read[i]], FALSE, i = 1)]

(* backend->list() of the sound as it is now, which adds no row when the tool     *)
(* itself fails                                                                 *)
Listing(now, backend, unread) ==
  IF backend = "mixer" THEN MixerList(now, unread)
  ELSE IF ~now.up THEN <<>>
  ELSE IF backend = "wpctl" THEN WpctlList(now, unread) ELSE PactlList(now, unread)

(* Those whose rows say what was not read. *)
Guessed(backend, unread) == IF backend = "wpctl" THEN unread ELSE {}

(* volume_select_backend() and volume_mode_init(): the first that is here and   *)
(* lists a sink                                                                 *)
Answers(tool, unread) == tool \in onPath /\ Listing(sound, tool, unread) # <<>>
SelectBackend(unread) ==
  /\ volumePanel.backend = "closed"
  /\ \E i \in DOMAIN Tools :
       /\ Answers(Tools[i], unread) /\ \A j \in 1..i - 1 : ~Answers(Tools[j], unread)
       /\ volumePanel' = [backend |-> Tools[i], sinks |-> Listing(sound, Tools[i], unread)]
       /\ theirs' = Guessed(Tools[i], unread)
  /\ meant' = sound.level
  /\ UNCHANGED <<sound, onPath, presses, turns>>

(* Mutant of VolumeRefresh: a command leaves the rows as they are. *)
RefreshNothing(unread) == UNCHANGED <<volumePanel, theirs>>

VolumeRefresh(unread) ==
  /\ volumePanel' = [volumePanel EXCEPT !.sinks = Listing(sound', volumePanel.backend, unread)]
  /\ theirs' = Guessed(volumePanel.backend, unread)

Reaches(s) == IF s \in ToSet(Devices) THEN TRUE ELSE sound.up

(* set_volume() and set_mute() of a row's sink, which may fail; only then are   *)
(* the rows not read again                                                      *)
SetVolume(row, step, unread) ==
  LET asked == VolumeClamp(row.volume + step)
  IN \/ /\ Reaches(row.id)
        /\ sound' = [sound EXCEPT !.level[row.id] = asked]
        /\ meant' = [meant EXCEPT ![row.id] =
                       IF row.id \in theirs THEN asked
                       ELSE VolumeClamp(VolumeClamp(@) + step)]
        /\ VolumeRefresh(unread)
     \/ UNCHANGED <<sound, meant, volumePanel, theirs>>
SetMute(row, unread) ==
  \/ /\ Reaches(row.id)
     /\ sound' = [sound EXCEPT !.muted[row.id] = ~@]
     /\ VolumeRefresh(unread) /\ UNCHANGED meant
  \/ UNCHANGED <<sound, meant, volumePanel, theirs>>

(* volume_mode_result() for a row, or for none *)
Press(unread) ==
  /\ volumePanel.backend # "closed" /\ presses < MaxPresses /\ presses' = presses + 1
  /\ \/ volumePanel.sinks = <<>> /\ UNCHANGED <<sound, meant, volumePanel, theirs>>
     \/ \E line \in DOMAIN volumePanel.sinks :
          \/ \E step \in {VOLUME_STEP, -VOLUME_STEP} :
               SetVolume(volumePanel.sinks[line], step, unread)
          \/ SetMute(volumePanel.sinks[line], unread)
  /\ UNCHANGED <<onPath, turns>>

(* "make default" closes the panel, whether or not the tool can *)
SetDefault ==
  /\ volumePanel.backend \in {"wpctl", "pactl"} /\ volumePanel.sinks # <<>>
  /\ \/ UNCHANGED sound
     \/ sound.up /\ \E line \in DOMAIN volumePanel.sinks :
          sound' = [sound EXCEPT !.default = volumePanel.sinks[line].id]
  /\ volumePanel' = ClosedVolume /\ theirs' = {}
  /\ UNCHANGED <<onPath, meant, presses, turns>>

VolumeDestroy ==
  /\ volumePanel.backend # "closed" /\ volumePanel' = ClosedVolume /\ theirs' = {}
  /\ UNCHANGED <<sound, onPath, meant, presses, turns>>

(* Someone else turns a sink, or the server stops. *)
Turn ==
  /\ turns < MaxTurns /\ turns' = turns + 1
  /\ \/ \E s \in Known, level \in Levels :
          /\ sound' = [sound EXCEPT !.level[s] = level]
          /\ meant' = [meant EXCEPT ![s] = level] /\ theirs' = theirs \cup {s}
     \/ sound.up /\ sound' = [sound EXCEPT !.up = FALSE] /\ UNCHANGED <<meant, theirs>>
  /\ UNCHANGED <<onPath, volumePanel, presses>>

VolumeNext ==
  \/ \E unread \in {{}} \cup {{s} : s \in Known} :
       SelectBackend(unread) \/ Press(unread)
  \/ SetDefault \/ VolumeDestroy \/ Turn
--------------------------------------------------------------------------------
(* Presses add up: a sink that nobody else turned since its row was read has    *)
(* the level it had, cut at 100, and a step for every press that succeeded,     *)
(* within 0 and 100, however quickly they came, and its row says so             *)
(* (volume.c:854-866).  And the kernel's devices never stand in for a server    *)
(* with sinks that a tool here can reach (volume.c:603-606).                    *)
PressesAddUp ==
  volumePanel.backend # "closed" =>
    /\ \A s \in Known \ theirs :
         /\ sound.level[s] = meant[s]
         /\ \A i \in DOMAIN volumePanel.sinks : volumePanel.sinks[i].id = s =>
              /\ volumePanel.sinks[i].volume = VolumeClamp(meant[s])
              /\ volumePanel.sinks[i].muted = (volumePanel.backend # "mixer" /\ sound.muted[s])
    /\ volumePanel.backend = "mixer" /\ sound.up /\ Sinks # <<>> => onPath = {"mixer"}
--------------------------------------------------------------------------------
CONSTANTS
  SheetsCount,   \* SHEETS_COUNT, 10 in the code
  MaxRequests,   \* bound: commands and openings
  MaxMoves       \* bound: what else happens in the compositor

ASSUME SheetsAssumption ==
  SheetsCount \in Nat \ {0} /\ MaxRequests \in Nat /\ MaxMoves \in Nat

Numbers == 0..(SheetsCount - 1)
Unsaid == 0 - 1

VARIABLES
  compositor,  \* [sheet, counts, focus: the sheet of the focused window,
               \*   late: the commands it has yet to carry out]
  sheetsPane,  \* pd: [open, current, counts]
  answered,    \* ghost: the compositor when the last state that came was sent
  requests, moves

sheetsVars == <<compositor, sheetsPane, answered, requests, moves>>

NoPane == [open |-> FALSE, current |-> Unsaid, counts |-> [n \in Numbers |-> 0]]

SheetsInit(on) ==
  /\ compositor = [sheet |-> 0, focus |-> 0, late |-> {},
             counts |-> [n \in Numbers |-> IF n = 0 THEN 2 ELSE 1]]
  /\ sheetsPane = NoPane /\ answered = compositor
  /\ requests = IF on THEN 0 ELSE MaxRequests
  /\ moves = IF on THEN 0 ELSE MaxMoves
--------------------------------------------------------------------------------
(* A command in the compositor. *)
Performed(d, command) ==
  IF command.verb = "sheet" THEN [d EXCEPT !.sheet = command.nr]
  ELSE [d EXCEPT !.counts = [n \in Numbers |->
                    @[n] - (IF n = d.focus THEN 1 ELSE 0)
                         + (IF n = command.nr THEN 1 ELSE 0)],
                 !.focus = command.nr]

(* sheets_parse_state() of as many fields as came before the second was over:   *)
(* none but the sheet, or some of the counts                                    *)
ParseState(pd, d, fields) ==
  [pd EXCEPT !.current = IF fields = 0 THEN @ ELSE d.sheet,
             !.counts = [n \in Numbers |-> IF n + 1 < fields THEN d.counts[n] ELSE @[n]]]

(* Mutant of Emptied: what was known is kept. *)
NotEmptied(pd) == pd

(* What sheets_refresh() forgets before it parses. *)
Emptied(pd) == [NoPane EXCEPT !.open = pd.open]

(* sheets_refresh(): an answer, whole or in part, or none *)
SheetsRefresh(d, fields) ==
  /\ sheetsPane' = ParseState(Emptied(sheetsPane), d, fields) /\ answered' = d
Unanswered == UNCHANGED <<sheetsPane, answered>>

Ask == requests < MaxRequests /\ requests' = requests + 1

(* sheets_mode_init(), which fails without an answer *)
OpenPane ==
  /\ ~sheetsPane.open /\ Ask
  /\ \E fields \in 0..(SheetsCount + 1) :
       /\ sheetsPane' = ParseState([NoPane EXCEPT !.open = TRUE], compositor, fields)
       /\ answered' = compositor
  /\ UNCHANGED <<compositor, moves>>

(* sheets_mode_result(): another sheet is shown, and the pane is gone whatever  *)
(* comes of it                                                                  *)
Late(command) == [compositor EXCEPT !.late = @ \cup {command}]
ShowSheet(n) ==
  /\ sheetsPane.open /\ Ask
  /\ compositor' \in {compositor, Performed(compositor, [verb |-> "sheet", nr |-> n]),
                Late([verb |-> "sheet", nr |-> n])}
  /\ sheetsPane' = NoPane /\ UNCHANGED <<answered, moves>>

(* The focused window is pinned: "ok", and the state is asked for anew; or it   *)
(* is refused, or there is no answer in time and it may yet be done.            *)
PinWindow(n) ==
  /\ sheetsPane.open /\ Ask
  /\ LET pin == [verb |-> "pin", nr |-> n]
         done == Performed(compositor, pin)
     IN \/ /\ compositor' = done
           /\ Unanswered \/ \E fields \in 0..(SheetsCount + 1) : SheetsRefresh(done, fields)
        \/ compositor' \in {compositor, Late(pin)} /\ Unanswered
  /\ UNCHANGED moves

DestroyPane == sheetsPane.open /\ sheetsPane' = NoPane /\ UNCHANGED <<compositor, answered, requests, moves>>

(* The compositor carries out what it was late for; a window comes or goes. *)
CatchUp(command) ==
  /\ compositor' = [Performed(compositor, command) EXCEPT !.late = compositor.late \ {command}]
  /\ UNCHANGED <<sheetsPane, answered, requests, moves>>
WindowMoves ==
  /\ moves < MaxMoves /\ moves' = moves + 1
  /\ \E n \in Numbers :
       \/ compositor' = [compositor EXCEPT !.counts[n] = @ + 1, !.focus = n]
       \/ compositor' = [compositor EXCEPT !.sheet = n]
  /\ UNCHANGED <<sheetsPane, answered, requests>>

SheetsNext ==
  \/ OpenPane \/ DestroyPane \/ WindowMoves
  \/ \E n \in Numbers : ShowSheet(n) \/ PinWindow(n)
  \/ \E command \in compositor.late : CatchUp(command)
--------------------------------------------------------------------------------
(* The pane is one reading: what it says of the sheet shown and of the windows  *)
(* is what one answer of the compositor said, or that it does not say, and is   *)
(* never put together from two, however commands and answers are cut short or   *)
(* late (sheets.c:201-303).                                                     *)
PaneIsOneReading ==
  sheetsPane.open =>
    /\ sheetsPane.current \in {Unsaid, answered.sheet}
    /\ \A n \in Numbers : sheetsPane.counts[n] \in {0, answered.counts[n]}
    /\ sheetsPane.current = Unsaid => \A n \in Numbers : sheetsPane.counts[n] = 0
================================================================================
