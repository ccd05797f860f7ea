SPECIFICATION Spec
CONSTANTS
  Appenders = {a1}
  Payloads = {d1, d2}
  Operator = Operator
  Stranger = Stranger
  MaxEntries = 3
  MaxCrashes = 2
  MaxVerifies = 0
  MaxEdits = 0
  MaxRollbacks = 0
INVARIANTS TypeOK HeadDescribesPrefix ReportedRetained
PROPERTY ImplementsAppendOnlyLog
CHECK_DEADLOCK FALSE
