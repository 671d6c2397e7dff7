\* The task's own terminal may commit at any time.
SPECIFICATION DeliverySpec
CONSTANTS
  MaxCommits = 2
  MaxOutside = 1
  MaxPrs = 1
  MaxFaults = 1
  Operations = {"create", "restack"}
  Stacked = TRUE
  Undisturbed <- NoWindows
PROPERTY OwnCommitsStay
