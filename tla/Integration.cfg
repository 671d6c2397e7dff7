\* One task, two commits beyond the first, one fault.
SPECIFICATION Spec
CONSTANTS
  t1 = t1
  main = main
  Tasks = {t1}
  Checkouts = {main}
  MaxNames = 2
  MaxFaults = 1
  Delivered = {t1}
  Undisturbed <- CheckoutWindows
INVARIANTS
  TypeOK
  RecordIsTrue
  
 
