SPECIFICATION Spec
CONSTANTS
  a = a  b = b
  Clones = {a, b}
  MaxVersion = 2
  MaxCommits = 5
  MaxSections = 3
  Faults = {}
  MaxFaults = 0
INVARIANT ApprovedIsTagged
SYMMETRY Either
