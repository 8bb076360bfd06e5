SPECIFICATION Spec
CONSTANTS
  c1 = c1
  c2 = c2
  Script = Script
  Children = {c1, c2}
  MaxFd = 11
  PipeSize = 1
  Pids = {1, 2}
  Closable <- OnlyFirst
  MaxBytes <- Unlike
  Wants = {2}
  Losable = {}
INVARIANT TypeOK
PROPERTY ImplementsChannels
CHECK_DEADLOCK FALSE
