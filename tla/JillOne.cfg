SPECIFICATION Spec
CONSTANTS
  c1 = c1
  Clients = {c1}
  NoClient = NoClient
  Requests <- OneRequest
  Results <- Anything
  Backlog = 1
  InitialSize = 4
  MaxFieldSize = 8
  MaxLength = 9
INVARIANTS TypeOK RecvHasRoom TerminatorsSafe HeadAsSent EntireBody IInv RInv HeadInv
PROPERTY ImplementsJsgi
CHECK_DEADLOCK FALSE
