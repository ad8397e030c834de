\* Every event of the environment, every interleaving of the main loop's sources.
SPECIFICATION FairSpec
CONSTANTS
  MaxArrivals = 3
  Frames = 2
  Motion = TRUE
  SetupOutcomes = {TRUE, FALSE}
  Inputs = {"gone", "click", "clear", "move", "closed", "stray"}
INVARIANTS
  SurfaceTracksView
  ExitHeld
  RowsInStep
PROPERTIES
  ExitNotLost ExitEnds ComesToRest
