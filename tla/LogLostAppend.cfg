SPECIFICATION Spec
CONSTANTS
  Appenders = {a1, a2}
  Payloads = {d1, d2}
  Operator = Operator
  Stranger = Stranger
  MaxEntries = 2
  MaxCrashes = 0
  MaxVerifies = 0
  MaxEdits = 0
  MaxRollbacks = 0
INVARIANT ReportedRetained
CHECK_DEADLOCK FALSE
