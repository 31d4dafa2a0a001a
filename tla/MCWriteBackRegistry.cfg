\* The engine registry as it is: it has neither get_user_profile_engine nor
\* get_chat_memory_engine.
SPECIFICATION FairSpec
CONSTANTS
  Processes = {"a"}
  Tasks = {"p1"}
  QueueOf <- ByName
  Lookups = {FALSE}
  MaxStarts = 1
  None = None
PROPERTIES
  ConsumedIsCalled
CHECK_DEADLOCK FALSE
