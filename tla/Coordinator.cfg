\* Two actions, two inputs, two runs, one fault.
SPECIFICATION Spec
CONSTANTS
  a1 = a1
  a2 = a2
  Actions = {a1, a2}
  Inputs = {1, 2}
  MaxRuns = 2
  MaxFaults = 1
SYMMETRY Symmetry
INVARIANTS
  TypeOK
  ApprovedRunOnce
CHECK_DEADLOCK FALSE
