SPECIFICATION HttpSpec
CONSTANTS
  curl = curl
  Children <- OneCurl
  Names = {"date", "cookie"}
  Room = 2
  Plans <- Transfers
  Sends = 1
  Chunk = 1
INVARIANTS ClientTypeOK ResponseKnown FailureTold
PROPERTY ReadReturns
CHECK_DEADLOCK FALSE
