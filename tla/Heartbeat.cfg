SPECIFICATION Spec
CONSTANTS
  r1 = r1
  r2 = r2
  s1 = s1
  s2 = s2
  w1 = w1
  w2 = w2
  e1 = e1
  e2 = e2
  Runs = {r1, r2}
  Steps = {s1, s2}
  RunOf <- TwoRuns
  Index <- AllFirst
  Mutating = {s1, s2}
  Owners = {w1}
  ProvModulus = 1
  Execs = {e1, e2}
  OwnerOf <- OneWorker
  Sweepers = {w1}
  Repeat = 1
  Concurrency = 1
  RetrySafe = {}
  Denied = {}
  FaultBearing = {}
  NoEffect4xx = TRUE
  Cancellable = {}
  MayCrash = {}
  TimelyHeartbeat = TRUE
  Together <- All
  MaxFaults <- ExpiryFaults
INVARIANTS
  LeaseKeptWhileExecuting
