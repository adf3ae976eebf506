SPECIFICATION MCSpec
CONSTANTS
  r1 = r1
  s1 = s1
  s2 = s2
  w1 = w1
  Runs = {r1}
  Steps = {s1, s2}
  RunOf <- OneRun
  Index <- InOrder
  Mutating = {s1}
  Owners = {w1}
  ProvModulus = 2
  MaxClaims = 2
  Observed = {"INDETERMINATE"}
  ExecutorRefs = {"key", "token", "spare"}
  FaultKinds = {"delay"}
  LegacyHeader = "x-legacy"
  LegacyHookPath = "legacy-hook"
  ReservedHeaders = {"authorization"}
  RedactedNames = {"password"}
  MaxSteps = 2
  MaxRepeat = 2
  MaxConcurrency = 2
  MaxStagger = 1
  MaxTriggers = 1
  MaxTimeout = 1
  MaxSubjects = 2
  Absent = Absent
  Unproven = Unproven
  Policies <- MCPolicies
  Inputs <- MCInputs
  Rank <- MCRank
  Published <- MCPublished
  MaxCommands = 3
  MaxRuns = 2
  MaxReconfigs = 1
  MaxCycles = 2
CHECK_DEADLOCK FALSE
INVARIANTS
  DbTypeOK
  OrderedExecution
  RunTerminalSound
  DiscoveryStaysTrue
  FrozenIsEvaluable
  RunsAuthorized
  ExitTruthful
PROPERTIES
  TerminalWriteOnce
  ImplementsLifecycle
  ProvenanceAdvances
