SPECIFICATION KubeletSpec
CONSTANTS
  e = e  p = p  te = te  p1 = p1  p2 = p2  h1 = h1  h2 = h2
  NoCall = NoCall
  Volumes = {p}
  Targets = {p1, p2}
  VolumeOf <- OnePersistent
  Ephemeral = {}
  ReadOnly = {p2}
  Inside = {}
  Handlers = {h1, h2}
  Faults = {"timeout"}
  MaxFaults = 1
  Workloads = {{p1, p2}}
  RepullRewrites = FALSE
PROPERTY UnpublishKeepsStagedData
CHECK_DEADLOCK FALSE
