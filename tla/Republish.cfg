\* A stacked branch whose parent lands, before or after it is published.
SPECIFICATION DeliverySpec
CONSTANTS
  MaxCommits = 2
  MaxOutside = 1
  MaxPrs = 1
  MaxFaults = 1
  Operations = {"create", "restack"}
  Stacked = TRUE
  Undisturbed <- RestackWindows
INVARIANTS
  RewriteIsDurable
  RewriteIsReversible
PROPERTIES
  ForeignWorkSurvives
  DeliveryMatchesApproval
