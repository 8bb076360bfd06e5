SPECIFICATION Spec
CONSTANTS
  Streams <- AllStreams
  MaxFieldSize = 5
  MaxLength = 9
INVARIANTS ParserTypeOK StaysWithinData InterruptedAnywhere MessagesInTurn
CHECK_DEADLOCK FALSE
