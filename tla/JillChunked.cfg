SPECIFICATION Spec
CONSTANTS
  c1 = c1
  Clients = {c1}
  NoClient = NoClient
  Requests <- OnlyChunked
  Results <- Anything
  Backlog = 1
  InitialSize = 4
  MaxFieldSize = 8
  MaxLength = 9
INVARIANT EntireBody
CHECK_DEADLOCK FALSE
