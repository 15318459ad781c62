SPECIFICATION Spec
CONSTANTS
  NoVersion = NoVersion
  Versions <- FourVersions
  MaxRestarts = 0
  ListingFails = TRUE
PROPERTY ChoosesNewest
CHECK_DEADLOCK FALSE
