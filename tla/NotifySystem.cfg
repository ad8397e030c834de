\* Crashes and restarts; the panel dismisses and clears, the command line too.
SPECIFICATION Spec
CONSTANTS
  d1 = d1
  d2 = d2
  Daemons = {d1, d2}
  LiveMax = 2
  RingCap = 2
  IdMax = 6
  MaxNotes = 3
  MaxStarts = 2
  MaxCrashes = 1
  MaxCalls = 3
  MaxInbox = 2
  Methods = {"Dismiss", "ClearHistory", "cli"}
  Races = {}
INVARIANTS
  SendersTold
  ClosesWhatWasMeant
PROPERTIES
  HistorySpec
CHECK_DEADLOCK FALSE
