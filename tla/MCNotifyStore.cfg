\* Caps, timers, signals, ids and the file of one daemon: saves may fail, the id counter wraps.
SPECIFICATION Spec
CONSTANTS
  LiveMax = 2
  RingCap = 3
  IdMax = 4
  MaxNew = 4
  MaxReplaces = 1
  MaxActions = 1
  Notices <- MCNotices
  Loads <- MCLoads
  SaveOutcomes = {TRUE, FALSE}
INVARIANTS
  TypeOK
  ClosedExactlyOnce
  TimersMatchIntent
  WithinCaps
  IdsUnique
  FileCurrent
PROPERTIES
  NeverRevived
