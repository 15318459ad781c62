SPECIFICATION RepliesSpec
CONSTANTS
  e = e  p = p  te = te  h1 = h1  h2 = h2
  NoCall = NoCall
  Volumes = {e, p}
  Targets = {te}
  VolumeOf <- OneEphemeral
  Ephemeral = {e}
  ReadOnly = {}
  Inside = {p}
  Handlers = {h1, h2}
  Faults <- FaultPoints
  MaxFaults = 2
  RepullRewrites = TRUE
SYMMETRY HandlerSymmetry
INVARIANTS TypeOK StackBound 
