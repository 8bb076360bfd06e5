SPECIFICATION FairSpec
CONSTANTS
  c1 = c1
  c2 = c2
  Script = Script
  Children = {c1, c2}
  MaxFd = 11
  PipeSize = 1
  Pids = {1, 2}
  Closable <- JustIn
  MaxBytes <- Silent
  Wants = {1}
  Losable = {}
PROPERTIES InputsEnd OutputsEnd
CHECK_DEADLOCK FALSE
