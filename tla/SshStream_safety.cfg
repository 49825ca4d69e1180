SPECIFICATION FairSpec
CONSTANTS
  MaxLines = 3
  Window = 2
INVARIANTS
  AnswerComesAfterTheLog
PROPERTIES
  LogIsFrozen
  StreamComesBack
  ImplementsStreamCall
CHECK_DEADLOCK FALSE
