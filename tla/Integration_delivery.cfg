\* One task, one commit beyond the first, one fault.
SPECIFICATION Spec
CONSTANTS
  t1 = t1
  main = main
  Tasks = {t1}
  Checkouts = {main}
  MaxNames = 1
  MaxFaults = 1
  Delivered = {t1}
  Undisturbed <- CheckoutWindows
INVARIANT LocalOrPullRequest
