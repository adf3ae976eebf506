SPECIFICATION Spec
CONSTANTS
  cli = cli
  sweep = sweep
  Analysts = {cli, sweep}
  Reporters = {cli}
  Captured = 1
  MaxLateWrites = 1
  RUN_ANALYSIS_MAX_CYCLES = 3
  MaxFaults = 0
INVARIANTS
  PublishedVerdictAboutW0
CHECK_DEADLOCK FALSE
