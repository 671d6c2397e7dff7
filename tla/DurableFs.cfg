\* Two threads, three directories, three publications, and AtomicFile's promise.
CONSTANTS
  w1 = w1
  w2 = w2
  Writers = {w1, w2}
  Depth = 3
  MaxWrites = 3
SPECIFICATION Spec
INVARIANTS
  TypeOK
  CommittedSurvives
  Owed
PROPERTY KeepsPromise
