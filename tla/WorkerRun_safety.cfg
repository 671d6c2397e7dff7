\* One task, two runs, one edit of its checkout, two faults.
SPECIFICATION Spec
CONSTANTS
  MaxRuns = 2
  MaxEdits = 1
  MaxFaults = 2
INVARIANT TypeOK
INVARIANT OneProvider
INVARIANT LaunchIsDurable
INVARIANT NoSilentRerun
INVARIANT ConfirmedIsDurable
PROPERTY CommitEvidenceKept
