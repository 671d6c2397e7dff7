\* Five flows and every limit up to four, starting from two.
SPECIFICATION FairSpec
CONSTANTS
  f1 = f1
  f2 = f2
  f3 = f3
  f4 = f4
  f5 = f5
  Flows = {f1, f2, f3, f4, f5}
  MaxLimit = 4
  InitLimit = 2
INVARIANTS
  TypeOK
  Conservation
  BoundedOverrun
PROPERTY Converges
