SPECIFICATION FairSpec
CONSTANTS
  Schemes = {"unix"}
  PrunePeriods = {1}
  Faults = {"http"}
  MaxFaults = 1
PROPERTY PrunesWhileServing
