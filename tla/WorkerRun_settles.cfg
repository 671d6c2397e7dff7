\* One run, one edit, two failed writes or crashes, and the poll's fairness.
SPECIFICATION FairSpec
CONSTANTS
  MaxRuns = 1
  MaxEdits = 1
  MaxFaults = 2
PROPERTY Settles
