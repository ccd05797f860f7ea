SPECIFICATION Spec
CONSTANTS
  Chunks = 1
  Gates = 2
  MaxSignals = 2
  Bases = {uv, python}
INVARIANTS TypeOK PassedIsProven ReapedIsDown NeverLeftRunning ProvisionIsBound
PROPERTY EndsQuietly
CHECK_DEADLOCK FALSE
