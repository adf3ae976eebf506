SPECIFICATION Spec
CONSTANTS
  r1 = r1
  r2 = r2
  s1 = s1
  s2 = s2
  w1 = w1
  w2 = w2
  e1 = e1
  e2 = e2
  Runs = {r1}
  Steps = {s1, s2}
  RunOf <- OneRun
  Index <- InOrder
  Mutating = {s1, s2}
  Owners = {w1}
  ProvModulus = 1
  Execs = {e1, e2}
  OwnerOf <- OneWorker
  Sweepers = {w1}
  Repeat = 3
  Concurrency = 2
  RetrySafe = {s1}
  Denied = {s2}
  FaultBearing = {s1}
  NoEffect4xx = TRUE
  Cancellable = {r1}
  MayCrash = {}
  TimelyHeartbeat = FALSE
  Together <- All
  MaxFaults <- TruthFaults
INVARIANTS
  SucceededOccurred
  KnownAbsentTruthful
  RetryNeverDuplicates
