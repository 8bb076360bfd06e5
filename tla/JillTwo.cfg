SPECIFICATION FairSpec
CONSTANTS
  c1 = c1
  c2 = c2
  Clients = {c1, c2}
  NoClient = NoClient
  Requests <- TwoClients
  Results <- Briefly
  Backlog = 1
  InitialSize = 3
  MaxFieldSize = 8
  MaxLength = 9
INVARIANT HeadAsSent
PROPERTIES ImplementsJsgi EveryClientServed
CHECK_DEADLOCK FALSE
