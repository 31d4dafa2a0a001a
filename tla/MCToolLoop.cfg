SPECIFICATION FairSpec
CONSTANTS
  MaxIterations = 2
  MaxCalls = 2
  MaxChunks = 2
INVARIANTS
  TypeOK
  ToolCallsAnswered
  InvokedIsTold
  StoredIsStreamed
  
PROPERTIES
  RequestEnds
CHECK_DEADLOCK FALSE
