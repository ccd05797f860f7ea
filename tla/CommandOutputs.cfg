SPECIFICATION Spec
CONSTANTS
  Processes = {p1, p2}
  Shares = 3
  Threshold = 2
  MaxCommands = 4
SYMMETRY Interchangeable
INVARIANTS TypeOK ReportedBuildOpens ReportedKeysPair SecretsNarrow TornOnlyByKill
PROPERTY SecretsKept
CHECK_DEADLOCK FALSE
