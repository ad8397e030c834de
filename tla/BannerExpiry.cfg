\* The last notification expires and nobody touches the banner.
SPECIFICATION VisibleSpec
CONSTANTS
  MaxArrivals = 2
  Frames = 2
  Motion = TRUE
  SetupOutcomes = {TRUE}
  Inputs = {"gone"}
PROPERTIES
  EmptyBannerLeaves
