\* A notification arrives while a click waits for the exit motion.
SPECIFICATION Spec
CONSTANTS
  MaxArrivals = 2
  Frames = 2
  Motion = TRUE
  SetupOutcomes = {TRUE}
  Inputs = {"click"}
INVARIANTS
  ActsOnClicked
