SPECIFICATION MCSpec
CONSTANTS
  cli = cli
  sweep = sweep
  Analysts = {cli, sweep}
  Reporters = {cli}
  Captured = 1
  MaxLateWrites = 1
  RUN_ANALYSIS_MAX_CYCLES = 2
  MaxFaults = 1
INVARIANTS
  EvidenceTypeOK
  PublicationCurrent
  CertifiedComplete
  ReadyCovers
  OwnProofSuffices
PROPERTIES
  PublicationAdvances
  AttemptsFinal
CHECK_DEADLOCK FALSE
