SPECIFICATION Spec
CONSTANTS
  c1 = c1
  Clients = {c1}
  NoClient = NoClient
  Requests <- OnlyEmptyValue
  Results <- Anything
  Backlog = 1
  InitialSize = 4
  MaxFieldSize = 8
  MaxLength = 9
INVARIANT HeadAsSent
CHECK_DEADLOCK FALSE
