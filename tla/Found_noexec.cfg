SPECIFICATION KubeletSpec
CONSTANTS
  e = e  p = p  te = te  p1 = p1  p2 = p2  h1 = h1  h2 = h2
  NoCall = NoCall
  Volumes = {e}
  Targets = {te}
  VolumeOf <- OneEphemeral
  Ephemeral = {e}
  ReadOnly = {}
  Inside = {}
  Handlers = {h1}
  Faults = {"remount"}
  MaxFaults = 1
  Workloads = {{te}}
  RepullRewrites = FALSE
INVARIANT AlwaysNoexec
CHECK_DEADLOCK FALSE
