SPECIFICATION Spec
CONSTANTS
  image = image
  bin = bin
  fragments = fragments
  vhd = vhd
  i0 = i0
  b0 = b0
  f0 = f0
  f1 = f1
  v0 = v0
  System = System
  None = None
  Torn = Torn
  Procs = {p1, p2}
  LoopDevices = {0, 1, 2}
  DmDevices = {dm1}
  Worlds <- MCOneImage
  Format <- MCFormat
  Files <- MCFiles
  MaxUmountRetry = 3
INVARIANT SparesOthers
CHECK_DEADLOCK FALSE
