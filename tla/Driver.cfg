SPECIFICATION FairSpec
CONSTANTS
  Schemes = {"unix", "tcp", "other"}
  PrunePeriods = {0, 1}
  Faults <- FaultPoints
  MaxFaults = 4
INVARIANTS TypeOK ServesOnItsSocket PruneIsNotFatal
PROPERTIES StartsUnlessAFault ServesAgain PruningGoesOn
