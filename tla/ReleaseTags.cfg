SPECIFICATION Spec
CONSTANTS
  NoVersion = NoVersion
  Versions <- FourVersions
  MaxRestarts = 1
  ListingFails = FALSE
INVARIANTS TypeOK FloatingTagsFollow
PROPERTY NeverBackwards
CHECK_DEADLOCK FALSE
