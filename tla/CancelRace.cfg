SPECIFICATION Spec
CONSTANTS
  r1 = r1
  r2 = r2
  s1 = s1
  s2 = s2
  w1 = w1
  w2 = w2
  e1 = e1
  e2 = e2
  Runs = {r1}
  Steps = {s1}
  RunOf <- OneStep
  Index <- First
  Mutating = {s1}
  Owners = {w1}
  ProvModulus = 1
  Execs = {e1}
  OwnerOf <- Single
  Sweepers = {w1}
  Repeat = 1
  Concurrency = 1
  RetrySafe = {}
  Denied = {}
  FaultBearing = {}
  NoEffect4xx = TRUE
  Cancellable = {r1}
  MayCrash = {}
  TimelyHeartbeat = FALSE
  Together <- All
  MaxFaults <- NoFaults
INVARIANTS
  CancelTruthful
