SPECIFICATION FairSpec
CONSTANTS
  Chats = {c1, c2}
  Streams = {t1}
  Sessions = {"s1"}
  Nobody = Nobody
  Nowhere = Nowhere
  HistoryLimit = 2
INVARIANTS
  TypeOK
  ChatAllOrNothing
  CountNotAboveMessages
  MessagesHaveSession
  PromptShowsHistory
PROPERTIES
  DeletionLasts
  ImplementsTranscript
  RequestsEnd
CHECK_DEADLOCK FALSE
