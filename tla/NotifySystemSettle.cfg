\* Daemons started over one another; what is left is the owner.
SPECIFICATION FairSpec
CONSTANTS
  d1 = d1
  d2 = d2
  d3 = d3
  Daemons = {d1, d2, d3}
  LiveMax = 1
  RingCap = 2
  IdMax = 6
  MaxNotes = 1
  MaxStarts = 4
  MaxCrashes = 1
  MaxCalls = 0
  MaxInbox = 1
  Methods = {"close"}
  Races = {"handover"}
PROPERTIES
  HandoverSettles
CHECK_DEADLOCK FALSE
