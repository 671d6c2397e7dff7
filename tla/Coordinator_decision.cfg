\* One action, one run, two faults.
SPECIFICATION Spec
CONSTANTS
  a1 = a1
  a2 = a2
  Actions = {a1}
  Inputs = {1, 2}
  MaxRuns = 1
  MaxFaults = 2
INVARIANT DecisionIsDurable
CHECK_DEADLOCK FALSE
