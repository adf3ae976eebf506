SPECIFICATION FairSpec
CONSTANTS
  r1 = r1
  r2 = r2
  s1 = s1
  s2 = s2
  w1 = w1
  w2 = w2
  e1 = e1
  e2 = e2
  Runs = {r1}
  Steps = {s1}
  RunOf <- OneStep
  Index <- First
  Mutating = {}
  Owners = {w1, w2}
  ProvModulus = 1
  Execs = {e1, e2}
  OwnerOf <- TwoWorkers
  Sweepers = {w2}
  Repeat = 1
  Concurrency = 1
  RetrySafe = {}
  Denied = {}
  FaultBearing = {}
  NoEffect4xx = TRUE
  Cancellable = {}
  MayCrash = {w1}
  TimelyHeartbeat = FALSE
  Together <- All
  MaxFaults <- CrashFaults
PROPERTIES
  RunSettles
