SPECIFICATION Spec
CONSTANTS
  Appenders = {a1}
  Payloads = {d1, d2}
  Operator = Operator
  Stranger = Stranger
  MaxEntries = 2
  MaxCrashes = 0
  MaxVerifies = 2
  MaxEdits = 1
  MaxRollbacks = 1
INVARIANTS AcceptedIsSigned AcceptedOnlyGrows
SYMMETRY LogSymmetry
CHECK_DEADLOCK FALSE
VIEW WithoutAppendHistory
