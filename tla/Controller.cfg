SPECIFICATION FairSpec
CONSTANTS
  n1 = n1  n2 = n2  a = a  b = b  v1 = v1  v2 = v2  v3 = v3  v4 = v4
  NoVolume = NoVolume
  Nodes = {n1, n2}
  Names = {a, b}
  Ids = {v1, v2, v3, v4}
  MaxMishaps = 2
INVARIANTS TypeOK HeldIsKnown VolumesAreApart NothingLeaks
PROPERTY ReleasedIsDeleted
CHECK_DEADLOCK FALSE
