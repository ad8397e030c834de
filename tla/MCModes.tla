-------------------------------- MODULE MCModes --------------------------------
(* An instance for TLC of what modes and widgets keep: the list, the text,      *)
(* the layout of the widgets, the history files, the tray icons' menus, the     *)
(* window switchers, script modes, the deadline of those in Lua, the Wayland    *)
(* side's seats and surface, the X11 window and where it lies, the theme, the   *)
(* lock of an instance, the clock of what moves, and the modes that list        *)
(* applications, commands, hosts, files, sounds, sheets, bluetooth devices      *)
(* and other modes' rows.                                                       *)
(* They share nothing here: a behaviour is one of one of them.                  *)
EXTENDS ListView, LaunchHistory, TextEntry, TrayMenu, WindowList,
        ScriptMode, WidgetLayout, WaylandSeat, WaylandSurface, XWindow,
        Drun, ThemeTree, InstanceLock, SoundAndSheets, Combi,
        CommandList, FileBrowser, AnimationClock, BluetoothDevices, TLC

Plain ==
  [layout |-> "list", scroll |-> "page", flow |-> "vertical",
   reverse |-> FALSE, cycle |-> TRUE, fixed |-> FALSE, columns |-> 2,
   lines |-> 2, rows |-> {0, 2}, animated |-> TRUE, hasty |-> TRUE]
Bar == [Plain EXCEPT !.layout = "bar", !.lines = 4, !.rows = {1},
                     !.hasty = FALSE]
MCStyles ==
  {Plain, [Plain EXCEPT !.columns = 1, !.rows = {1, 3}], Bar,
   [Plain EXCEPT !.flow = "horizontal", !.reverse = TRUE, !.fixed = TRUE],
   [Plain EXCEPT !.scroll = "continuous"],
   [Plain EXCEPT !.scroll = "continuous", !.flow = "horizontal",
                 !.cycle = FALSE]}
MCWidth == [r \in 0..8 |-> 1 + (r % 3)]

MCTrayIcons == <<"icon1", "icon2">>

Mon(name, x, w, primary) == [Area(x, 0, w, 6) EXCEPT !.name = name, !.primary = primary]
MCRoot == [w |-> 14, h |-> 6]
MCDesks ==
  LET left == Mon("left", 0, 8, FALSE)
      right == Mon("right", 8, 6, TRUE)
      off == Mon("off", 0, 0, FALSE)
      Desk(by, ms, px, focused, viewport) ==
        [by |-> by, monitors |-> ms, pointer |-> [x |-> px, y |-> 2],
         focused |-> focused, viewport |-> viewport]
  IN {Desk("monitors", <<left, right>>, 3, {Area(9, 1, 4, 3)}, {[x |-> 8, y |-> 0]}),
      Desk("outputs", <<off, left, right>>, 9, {}, {}),
      Desk("xinerama", <<left>>, 9, {Area(1, 0, 4, 3)}, {}),
      Desk("none", <<>>, 1, {}, {})}
Wish(k, v) == [kind |-> k, value |-> v, name |-> "right"]
MCWishes ==
  {Wish("name", 0), Wish("primary", 0), Wish("wid", 0)}
    \cup {Wish("number", n) : n \in {-5, -4, -3, -2, -1, 1, 2}}
Placing(location, anchor) ==
  [location |-> location, anchor |-> anchor, themed |-> FALSE, offset |-> 0, full |-> FALSE]
MCPlacings ==
  {Placing({"south", "east"}, {}), Placing({"north"}, {{}}),
   [Placing({}, {}) EXCEPT !.themed = TRUE], [Placing({"west"}, {}) EXCEPT !.offset = 1],
   [Placing({}, {}) EXCEPT !.full = TRUE]}
MCSpots == {[x |-> 2, y |-> 1]}

MCPastes == {<<"a">>, <<" ">>, <<"b", " ">>}

MenuRow(i, k, v) == [id |-> i, kind |-> k, visible |-> v]
MCLayouts ==
  {[l \in {0, 1} |->
      IF l = 0
      THEN <<MenuRow(1, "submenu", TRUE), MenuRow(2, "leaf", FALSE),
             MenuRow(3, "leaf", TRUE)>>
      ELSE <<MenuRow(4, "leaf", TRUE), MenuRow(1, "submenu", TRUE)>>],
   [l \in {0} |->
      <<MenuRow(5, "separator", TRUE), MenuRow(3, "disabled", TRUE),
        MenuRow(1, "leaf", TRUE)>>]}

ScriptRow(fits, selectable) ==
  [entry |-> TRUE, fits |-> fits, selectable |-> selectable, permanent |-> FALSE]
TwoRows ==
  [NoOutput EXCEPT !.rows = <<[ScriptRow(TRUE, TRUE) EXCEPT !.entry = FALSE],
                              ScriptRow(TRUE, TRUE), ScriptRow(FALSE, TRUE)>>,
                   !.highlights = TRUE]
ThreeRows ==
  [NoOutput EXCEPT !.rows = <<ScriptRow(FALSE, TRUE), ScriptRow(TRUE, FALSE),
                              ScriptRow(TRUE, TRUE)>>,
                   !.keepSelection = TRUE]
MCOutputs ==
  {NoOutput, TwoRows, [ThreeRows EXCEPT !.hotKeys = "true", !.noCustom = "true"],
   [ThreeRows EXCEPT !.keepFilter = TRUE, !.newSelection = 1, !.message = "own",
                     !.highlights = TRUE],
   [TwoRows EXCEPT !.switch = TRUE, !.message = "own", !.hotKeys = "true"]}

MCHardware ==
  {[keyboards |-> {"s1", "s2"}, pointers |-> {}],
   [keyboards |-> {}, pointers |-> {"s1"}]}
MCNotches == {120, -180}
MCSwipes == {-75}

MCDirectories == <<"user", "system">>
MCShelves ==
  {s \in [{"user", "system"} -> [{1, 2} -> Kinds]] :
     /\ s["system"] = [i \in {1, 2} |-> IF i = 1 THEN "app" ELSE "acting"]
     /\ s["user"][2] \in {"none", "hidden"} /\ "none" \in Range(s["user"])}

Of(k, v) == [kind |-> k, v |-> v, to |-> "", otherwise |-> {}]
Num(v) == Of("number", v)
Inherit == Of("inherit", 0)
Link(to, otherwise) == [kind |-> "link", v |-> 0, to |-> to, otherwise |-> otherwise]
Rule(select, properties) == [kind |-> "rule", select |-> select, properties |-> properties]
Block(block, rules) == [kind |-> "media", block |-> block, rules |-> rules]
Nested(rules) == [kind |-> "list", rules |-> rules]
Configure(properties) == [kind |-> "configuration", properties |-> properties]
Reset == [kind |-> "reset"]
Star == <<"*">>
MCLayout == <<Rule(<<<<"listview">>>>, [gap |-> Num(9)])>>
MCDocuments ==
  {<<>>,
   <<Rule(<<Star>>, [accent |-> Link("base", {Num(1)}), gap |-> Num(2)]),
     Configure([lines |-> Num(1)])>>,
   <<Rule(<<<<"element", "normal">>, <<"listview">>>>, [color |-> Link("accent", {}), gap |-> Inherit]),
     Nested(<<Rule(<<Star>>, [base |-> Link("accent", {Num(3)})]),
              Nested(<<Nested(<<Rule(<<Star>>, [gap |-> Num(8)])>>)>>)>>)>>,
   <<Block("narrow", <<Rule(<<Star, <<"element", "normal">>>>, [base |-> Of("string", 4), gap |-> Num(5)]),
                       Block("on", <<Rule(<<<<"element">>>>, [color |-> Link("base", {Num(6)})]),
                                     Rule(<<<<"element", "normal">>>>, [gap |-> Num(4)]),
                                     Configure([lines |-> Num(2)])>>)>>),
     Rule(<<<<"element">>>>, [color |-> Inherit])>>,
   <<Reset, Rule(<<<<"*", "normal">>>>, [gap |-> Link("gap", {})])>>,
   <<Block("wide", <<Rule(<<Star>>, [base |-> Num(7)]),
                     Rule(<<<<"*", "urgent">>>>, [gap |-> Num(1)])>>),
     Block("narrow", <<Rule(<<<<"element", "normal">>>>, [gap |-> Num(3)])>>),
     Block("first", <<Rule(<<<<"element", "normal">>>>, [gap |-> Num(6)])>>)>>}
MCMedia == [narrow |-> [type |-> "max-width", value |-> 2],
            wide |-> [type |-> "min-width", value |-> 2],
            on |-> [type |-> "enabled", value |-> 1],
            first |-> [type |-> "monitor-id", value |-> 0]]
MCScreens == {[known |-> FALSE, width |-> 0, id |-> 0 - 1],
              [known |-> TRUE, width |-> 1, id |-> 0 - 1],
              [known |-> TRUE, width |-> 2, id |-> 0]}
MCWidgets == [element |-> [state |-> <<"normal">>, parent |-> "listview"],
              listview |-> [state |-> <<>>, parent |-> "window"],
              window |-> [state |-> <<"urgent">>, parent |-> ""]]

MCSinks == <<"s1", "s2">>
MCDevices == <<"vol">>

MCNames == <<<<"r", "u">>, <<"r", "e">>, <<"w">>>>
MCBangs == {<<>>, <<"r">>, <<"r", "e">>, <<"w">>, <<"x">>}

MCSupplies ==
  {[path |-> <<{1, 2}, {1, 3}, {1}>>, config |-> <<<<1, 2>>, <<2, 4>>>>,
    known |-> <<2, 5, 5>>, hosts |-> <<5, 1, 3>>],
   [path |-> <<{}, {2}, {2}>>, config |-> <<<<3>>, <<3, 1>>>>,
    known |-> <<1>>, hosts |-> <<>>]}

MCHome == <<"home">>
Lies(name, type, hidden, to) == [name |-> name, type |-> type, hidden |-> hidden, to |-> to]
MCFolders ==
  (<<>> :> <<Lies("home", "directory", FALSE, {})>>) @@
  (MCHome :> <<Lies(".git", "directory", TRUE, {}),
               Lies("link", "directory", FALSE, {<<"home", ".git">>}),
               Lies("pipe", "other", FALSE, {}), Lies("text", "file", FALSE, {})>>) @@
  (<<"home", ".git">> :> <<Lies("config", "file", FALSE, {})>>)

MCDuration(r, d, e) ==
  [reads |-> r, duration |-> d, enabled |-> e]
MCOverrides == {0 - 1, 0}
MCCandidates ==
  {<<MCDuration(FALSE, 0, TRUE), MCDuration(TRUE, 0 - 1, TRUE), MCDuration(TRUE, 3, TRUE)>>,
   <<>>}

Peer(at, paired) ==
  [at |-> at, paired |-> paired, trusted |-> FALSE, connected |-> FALSE]
MCStandings == {Peer("here", TRUE)}
Controlling(on, one, other) ==
  [up |-> TRUE, adapter |-> on, powered |-> on, discoverable |-> FALSE,
   discovering |-> FALSE, peers |-> <<one, other>>]
MCControllers ==
  {Controlling(TRUE, Peer("here", FALSE), Peer("elsewhere", TRUE)),
   Controlling(FALSE, Peer("absent", FALSE), Peer("absent", FALSE))}

VARIABLE machine   \* the one that runs

Machines ==
  {"list", "history", "text", "menu", "windows", "script", "lua",
   "seat", "surface", "x", "drun", "switcher", "theme", "lock",
   "volume", "sheets", "combi", "commands", "files", "motion", "bluetooth",
   "layout", "place"}

On(w) == machine = w

Init ==
  /\ machine \in Machines
  /\ ListInit(On("list")) /\ HistoryInit(On("history")) /\ TextInit(On("text"))
  /\ MenuInit(On("menu")) /\ WindowInit(On("windows")) /\ ScriptInit(On("script"))
  /\ LuaInit(On("lua")) /\ SeatInit(On("seat")) /\ SurfaceInit(On("surface"))
  /\ XInit(On("x")) /\ DrunInit(On("drun")) /\ SwitcherInit(On("switcher"))
  /\ ThemeInit(On("theme")) /\ LockInit(On("lock")) /\ VolumeInit(On("volume"))
  /\ SheetsInit(On("sheets")) /\ CombiInit(On("combi")) /\ CommandInit(On("commands"))
  /\ BrowserInit(On("files")) /\ ClockInit(On("motion")) /\ PeerInit(On("bluetooth"))
  /\ LayoutInit(On("layout")) /\ PlaceInit(On("place"))

Next ==
  /\ UNCHANGED machine
  /\ \/ /\ machine = "list" /\ ListNext
        /\ UNCHANGED <<historyVars, textVars, menuVars, windowVars, scriptVars,
                       luaVars, seatVars, surfaceVars, xVars, drunVars,
                       switcherVars, themeVars, lockVars, volumeVars,
                       sheetsVars, combiVars, commandVars, browserVars,
                       clockVars, peerVars, layoutVars, placeVars>>
     \/ /\ machine = "history" /\ HistoryNext
        /\ UNCHANGED <<listVars, textVars, menuVars, windowVars, scriptVars,
                       luaVars, seatVars, surfaceVars, xVars, drunVars,
                       switcherVars, themeVars, lockVars, volumeVars,
                       sheetsVars, combiVars, commandVars, browserVars,
                       clockVars, peerVars, layoutVars, placeVars>>
     \/ /\ machine = "text" /\ TextNext
        /\ UNCHANGED <<listVars, historyVars, menuVars, windowVars, scriptVars,
                       luaVars, seatVars, surfaceVars, xVars, drunVars,
                       switcherVars, themeVars, lockVars, volumeVars,
                       sheetsVars, combiVars, commandVars, browserVars,
                       clockVars, peerVars, layoutVars, placeVars>>
     \/ /\ machine = "menu" /\ MenuNext
        /\ UNCHANGED <<listVars, historyVars, textVars, windowVars, scriptVars,
                       luaVars, seatVars, surfaceVars, xVars, drunVars,
                       switcherVars, themeVars, lockVars, volumeVars,
                       sheetsVars, combiVars, commandVars, browserVars,
                       clockVars, peerVars, layoutVars, placeVars>>
     \/ /\ machine = "windows" /\ WindowNext
        /\ UNCHANGED <<listVars, historyVars, textVars, menuVars, scriptVars,
                       luaVars, seatVars, surfaceVars, xVars, drunVars,
                       switcherVars, themeVars, lockVars, volumeVars,
                       sheetsVars, combiVars, commandVars, browserVars,
                       clockVars, peerVars, layoutVars, placeVars>>
     \/ /\ machine = "script" /\ ScriptNext
        /\ UNCHANGED <<listVars, historyVars, textVars, menuVars, windowVars,
                       luaVars, seatVars, surfaceVars, xVars, drunVars,
                       switcherVars, themeVars, lockVars, volumeVars,
                       sheetsVars, combiVars, commandVars, browserVars,
                       clockVars, peerVars, layoutVars, placeVars>>
     \/ /\ machine = "lua" /\ LuaNext
        /\ UNCHANGED <<listVars, historyVars, textVars, menuVars, windowVars,
                       scriptVars, seatVars, surfaceVars, xVars, drunVars,
                       switcherVars, themeVars, lockVars, volumeVars,
                       sheetsVars, combiVars, commandVars, browserVars,
                       clockVars, peerVars, layoutVars, placeVars>>
     \/ /\ machine = "seat" /\ SeatNext
        /\ UNCHANGED <<listVars, historyVars, textVars, menuVars, windowVars,
                       scriptVars, luaVars, surfaceVars, xVars, drunVars,
                       switcherVars, themeVars, lockVars, volumeVars,
                       sheetsVars, combiVars, commandVars, browserVars,
                       clockVars, peerVars, layoutVars, placeVars>>
     \/ /\ machine = "surface" /\ SurfaceNext
        /\ UNCHANGED <<listVars, historyVars, textVars, menuVars, windowVars,
                       scriptVars, luaVars, seatVars, xVars, drunVars,
                       switcherVars, themeVars, lockVars, volumeVars,
                       sheetsVars, combiVars, commandVars, browserVars,
                       clockVars, peerVars, layoutVars, placeVars>>
     \/ /\ machine = "x" /\ XNext
        /\ UNCHANGED <<listVars, historyVars, textVars, menuVars, windowVars,
                       scriptVars, luaVars, seatVars, surfaceVars, drunVars,
                       switcherVars, themeVars, lockVars, volumeVars,
                       sheetsVars, combiVars, commandVars, browserVars,
                       clockVars, peerVars, layoutVars, placeVars>>
     \/ /\ machine = "drun" /\ DrunNext
        /\ UNCHANGED <<listVars, historyVars, textVars, menuVars, windowVars,
                       scriptVars, luaVars, seatVars, surfaceVars, xVars,
                       switcherVars, themeVars, lockVars, volumeVars,
                       sheetsVars, combiVars, commandVars, browserVars,
                       clockVars, peerVars, layoutVars, placeVars>>
     \/ /\ machine = "switcher" /\ SwitcherNext
        /\ UNCHANGED <<listVars, historyVars, textVars, menuVars, windowVars,
                       scriptVars, luaVars, seatVars, surfaceVars, xVars,
                       drunVars, themeVars, lockVars, volumeVars, sheetsVars,
                       combiVars, commandVars, browserVars, clockVars, peerVars,
                       layoutVars, placeVars>>
     \/ /\ machine = "theme" /\ ThemeNext
        /\ UNCHANGED <<listVars, historyVars, textVars, menuVars, windowVars,
                       scriptVars, luaVars, seatVars, surfaceVars, xVars,
                       drunVars, switcherVars, lockVars, volumeVars, sheetsVars,
                       combiVars, commandVars, browserVars, clockVars, peerVars,
                       layoutVars, placeVars>>
     \/ /\ machine = "lock" /\ LockNext
        /\ UNCHANGED <<listVars, historyVars, textVars, menuVars, windowVars,
                       scriptVars, luaVars, seatVars, surfaceVars, xVars,
                       drunVars, switcherVars, themeVars, volumeVars,
                       sheetsVars, combiVars, commandVars, browserVars,
                       clockVars, peerVars, layoutVars, placeVars>>
     \/ /\ machine = "volume" /\ VolumeNext
        /\ UNCHANGED <<listVars, historyVars, textVars, menuVars, windowVars,
                       scriptVars, luaVars, seatVars, surfaceVars, xVars,
                       drunVars, switcherVars, themeVars, lockVars, sheetsVars,
                       combiVars, commandVars, browserVars, clockVars, peerVars,
                       layoutVars, placeVars>>
     \/ /\ machine = "sheets" /\ SheetsNext
        /\ UNCHANGED <<listVars, historyVars, textVars, menuVars, windowVars,
                       scriptVars, luaVars, seatVars, surfaceVars, xVars,
                       drunVars, switcherVars, themeVars, lockVars, volumeVars,
                       combiVars, commandVars, browserVars, clockVars, peerVars,
                       layoutVars, placeVars>>
     \/ /\ machine = "combi" /\ CombiNext
        /\ UNCHANGED <<listVars, historyVars, textVars, menuVars, windowVars,
                       scriptVars, luaVars, seatVars, surfaceVars, xVars,
                       drunVars, switcherVars, themeVars, lockVars, volumeVars,
                       sheetsVars, commandVars, browserVars, clockVars,
                       peerVars, layoutVars, placeVars>>
     \/ /\ machine = "commands" /\ CommandNext
        /\ UNCHANGED <<listVars, historyVars, textVars, menuVars, windowVars,
                       scriptVars, luaVars, seatVars, surfaceVars, xVars,
                       drunVars, switcherVars, themeVars, lockVars, volumeVars,
                       sheetsVars, combiVars, browserVars, clockVars, peerVars,
                       layoutVars, placeVars>>
     \/ /\ machine = "files" /\ BrowserNext
        /\ UNCHANGED <<listVars, historyVars, textVars, menuVars, windowVars,
                       scriptVars, luaVars, seatVars, surfaceVars, xVars,
                       drunVars, switcherVars, themeVars, lockVars, volumeVars,
                       sheetsVars, combiVars, commandVars, clockVars, peerVars,
                       layoutVars, placeVars>>
     \/ /\ machine = "motion" /\ ClockNext
        /\ UNCHANGED <<listVars, historyVars, textVars, menuVars, windowVars,
                       scriptVars, luaVars, seatVars, surfaceVars, xVars,
                       drunVars, switcherVars, themeVars, lockVars, volumeVars,
                       sheetsVars, combiVars, commandVars, browserVars,
                       peerVars, layoutVars, placeVars>>
     \/ /\ machine = "bluetooth" /\ PeerNext
        /\ UNCHANGED <<listVars, historyVars, textVars, menuVars, windowVars,
                       scriptVars, luaVars, seatVars, surfaceVars, xVars,
                       drunVars, switcherVars, themeVars, lockVars, volumeVars,
                       sheetsVars, combiVars, commandVars, browserVars,
                       clockVars, layoutVars, placeVars>>
     \/ /\ machine = "place" /\ PlaceNext
        /\ UNCHANGED <<listVars, historyVars, textVars, menuVars, windowVars,
                       scriptVars, luaVars, seatVars, surfaceVars, xVars,
                       drunVars, switcherVars, themeVars, lockVars, volumeVars,
                       sheetsVars, combiVars, commandVars, browserVars,
                       clockVars, peerVars, layoutVars>>
     \/ /\ machine = "layout" /\ LayoutNext
        /\ UNCHANGED <<listVars, historyVars, textVars, menuVars, windowVars,
                       scriptVars, luaVars, seatVars, surfaceVars, xVars,
                       drunVars, switcherVars, themeVars, lockVars, volumeVars,
                       sheetsVars, combiVars, commandVars, browserVars,
                       clockVars, peerVars, placeVars>>

modeVars ==
  <<machine, listVars, historyVars, textVars, menuVars, windowVars, scriptVars,
    luaVars, seatVars, surfaceVars, xVars, drunVars, switcherVars, themeVars,
    lockVars, volumeVars, sheetsVars, combiVars, commandVars, browserVars,
    clockVars, peerVars, layoutVars, placeVars>>

Spec == Init /\ [][Next]_modeVars
--------------------------------------------------------------------------------
(* What is painted and edited is what was meant, and where: SelectionShown of   *)
(* the list, EditsAtCursor of the text, LaidOutInStep of the widgets around     *)
(* them and PlacedAsAsked of the window (listview.c:276, textbox.c:778,         *)
(* box.c:128, xcb/view.c:279).                                                  *)
WidgetsExact == SelectionShown /\ EditsAtCursor /\ LaidOutInStep /\ PlacedAsAsked

(* A row of a window list stands for one window: CommandsHitTheirWindow on      *)
(* Wayland, SwitcherInStep on X11 (wayland-window.c:143, window.c:438).         *)
WindowsReached == CommandsHitTheirWindow /\ SwitcherInStep

(* A script's menu is one output of the script, and a script in Lua ends in     *)
(* time: ShowsOneOutput and StopsInTime (script.c:1320, script.c:423).          *)
ScriptServed == ShowsOneOutput /\ StopsInTime

(* Keys repeat as held, scrolls arrive whole, frames have the size and scale    *)
(* they say, outputs are known by what was told of them, motions last as long   *)
(* as they should and a surface on its way out only fades: RepeatIsTheHeldKey,  *)
(* ScrollsExactly, FramesFit, OutputsDescribed, MotionsTimed and ExitFades      *)
(* (wayland/display.c:514, 345, 1682, anim.c:284, 853).                         *)
WaylandServed ==
  /\ RepeatIsTheHeldKey /\ ScrollsExactly /\ FramesFit /\ OutputsDescribed
  /\ MotionsTimed /\ ExitFades

(* A list of entries is what there is to list, each once, and a row leads where *)
(* it says: AppsListed, CommandsListed, ShowsItsFolder and TakesTheLine (drun.c, *)
(* run.c:389, filebrowser.c:241, combi.c:152).                                  *)
EntriesListed == AppsListed /\ CommandsListed /\ ShowsItsFolder /\ TakesTheLine

(* A panel's rows are what was read back after what was asked, and what it says *)
(* is about the last key: PressesAddUp of the volume, PaneIsOneReading of the   *)
(* sheets, DevicesCatchUp and LastIsTold of bluetooth (volume.c:862,            *)
(* sheets.c:274, bluetooth-bluez.c:415, bluetooth.c:2173).                      *)
RowsReadBack ==
  PressesAddUp /\ PaneIsOneReading /\ DevicesCatchUp /\ LastIsTold
================================================================================
