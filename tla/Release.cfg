SPECIFICATION Spec
CONSTANTS
  a = a  b = b
  Clones = {a, b}
  MaxVersion = 2
  MaxCommits = 5
  MaxSections = 3
  Faults = {"sign", "push", "publish"}
  MaxFaults = 2
INVARIANTS TypeOK TaggedIsPrepared PublishedIsPushed PublishedInOrder
SYMMETRY Either
