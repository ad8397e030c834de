SPECIFICATION Spec
CONSTANTS
  d1 = d1
  d2 = d2
  Daemons = {d1, d2}
  LiveMax = 1
  RingCap = 2
  IdMax = 6
  MaxNotes = 3
  MaxStarts = 2
  MaxCrashes = 0
  MaxCalls = 0
  MaxInbox = 1
  Methods = {}
  Races = {"handover"}
PROPERTIES
  HistorySpec
CHECK_DEADLOCK FALSE
