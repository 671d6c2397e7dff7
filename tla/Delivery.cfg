\* Opening and publishing, with one pull request, two foreign changes and one fault.
SPECIFICATION DeliverySpec
CONSTANTS
  MaxCommits = 2
  MaxOutside = 2
  MaxPrs = 1
  MaxFaults = 1
  Operations = {"create", "publish"}
  Stacked = FALSE
  Undisturbed <- RestackWindows
INVARIANTS
  TypeOK
  
  PublishedReached
  PublicationIsKnown
  RequestIsKept
  NoSecondRequest

  
