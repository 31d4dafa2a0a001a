SPECIFICATION FairSpec
CONSTANTS
  Processes = {"a", "b"}
  Tasks = {"m1", "m2"}
  QueueOf <- ByName
  Lookups = {TRUE, FALSE}
  MaxStarts = 3
  None = None
INVARIANTS
  TypeOK
  OnceInOrder
  QuietWhenClosing
PROPERTIES
  QueuesDrain
CHECK_DEADLOCK FALSE
