SPECIFICATION Spec
CONSTANTS
  Launchers = {l1, l2}
  Entries = {"a", "b", "c"}
  MaxSize = 2
  MaxLaunches = 3
  Counts = {0, 3, 5}
  Room = 6
  Spacing = 1
  Width <- MCWidth
  Styles <- MCStyles
  WordCharacters = {"a", "b"}
  OtherCharacters = {" "}
  Pastes <- MCPastes
  MaxText = 4
  MaxEdits = 3
  MaxHistory = 2
  MaxDialogs = 2
  Items = {"i1", "i2", "i3"}
  Publishers = {"i1", "i2"}
  Layouts <- MCLayouts
  MaxDepth = 2
  MaxRows = 3
  MaxClicks = 2
  Windows = 2
  Apps = {"a", "b"}
  Unset = "none"
  MaxRenames = 1
  MaxActs = 1
  Outputs <- MCOutputs
  MaxInteractions = 4
  Sample = 2
  MaxThreads = 2
  MaxFrames = 3
  MaxCalls = 2
  Seats = {"s1", "s2"}
  Hardware <- MCHardware
  KeyCodes = {1}
  Rates = {0, 25}
  Notches <- MCNotches
  Swipes <- MCSwipes
  Capture = TRUE
  MaxScrolls = 2
  MaxSources = 3
  Monitors = {"o1", "o2"}
  Scales = {1, 2}
  Buffers = 2
  MaxPools = 2
  MaxViews = 2
  MaxChanges = 1
  Heights = {1, 2}
  Managing = {TRUE, FALSE}
  MaxWindows = 2
  MaxDrawings = 3
  MaxUpsets = 2
  Desks <- MCDesks
  Wishes <- MCWishes
  Root <- MCRoot
  Placings <- MCPlacings
  Extents = {2, 4}
  Spots <- MCSpots
  MaxShifts = 3
  DesktopIds = {1, 2}
  Directories <- MCDirectories
  Shelves <- MCShelves
  MaxSessions = 2
  MaxInstalls = 1
  XIds = {"x1", "x2"}
  MaxOpenings = 3
  Documents <- MCDocuments
  Layout <- MCLayout
  Media <- MCMedia
  Screens <- MCScreens
  Widgets <- MCWidgets
  ImportDepth = 3
  Redirects = 20
  MaxReads = 3
  MaxOverrides = 1
  Launches = {p1, p2, p3}
  Sinks <- MCSinks
  Devices <- MCDevices
  Levels = {3, 120}
  MaxPresses = 2
  MaxTurns = 1
  SheetsCount = 2
  MaxRequests = 3
  MaxMoves = 1
  Names <- MCNames
  Bangs <- MCBangs
  MaxFinds = 1
  MaxTries = 2
  Programs = {1, 3}
  Supplies <- MCSupplies
  MaxCommands = 5
  MaxSupplies = 1
  Folders <- MCFolders
  Home <- MCHome
  MaxVisits = 5
  MaxLosses = 1
  Wrap = 4
  DefaultDuration = 2
  MaxDuration = 3
  Overrides <- MCOverrides
  Candidates <- MCCandidates
  Gaps = {1, 3}
  MaxTime = 6
  Peers = {1, 2}
  Standings <- MCStandings
  Controllers <- MCControllers
  MaxChanged = 1
  MaxTold = 2
  Breadth = 5
  Tallness = {0, 7}
  GivenHeights = {4, 9}
  Space = 1
  ListLines = 2
  Prompts = {1, 2}
  Notes = {3}
  Sayings = {0, 8}
  RowCounts = {0, 1, 3}
  TrayItems = {1, 2}
  TrayIcons <- MCTrayIcons
  MaxReshapes = 2
INVARIANTS WidgetsExact MenuIsTheIcons WindowsReached ScriptServed WaylandServed
  WindowInStep EntriesListed ThemeAsWritten SomeoneStands RowsReadBack
PROPERTY HistoryKept
CHECK_DEADLOCK FALSE
