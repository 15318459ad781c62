SPECIFICATION KubeletSpec
CONSTANTS
  e = e  p = p  te = te  p1 = p1  p2 = p2  h1 = h1  h2 = h2
  NoCall = NoCall
  Volumes = {e, p}
  Targets = {te, p1, p2}
  VolumeOf <- BothVolumes
  Ephemeral = {e}
  ReadOnly = {p2}
  Inside = {}
  Handlers = {h1, h2}
  Faults <- AllButStat
  MaxFaults = 2
  Workloads = {{te, p1}, {p1, p2}}
  RepullRewrites = FALSE
INVARIANTS KubeletTypeOK MountedIsWhole RunningPodSeesBottle KubeletViewIsRight OptionsAsAsked
PROPERTIES ImplementsBottleVolumes CallsFailByFaultOnly
CHECK_DEADLOCK FALSE
