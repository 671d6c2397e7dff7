\* One task, every kind of evidence, one observer, three faults.
CONSTANTS
  t1 = t1
  poll = poll
  Tasks = {t1}
  Observers = {poll}
  Evidence = {"republish", "recovery", "integration"}
  MaxFaults = 3
SPECIFICATION Spec
CONSTRAINT Counting
INVARIANTS
  TypeOK
  InterruptedIsFlagged
  AgentOutOfRemoval
  AnswersAreDurable
  EvidenceKeepsCheckout
  
  MemoryFollowsFile
PROPERTY
  NeverStranded
CHECK_DEADLOCK FALSE
