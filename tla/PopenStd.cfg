SPECIFICATION Spec
CONSTANTS
  c1 = c1
  c2 = c2
  Script = Script
  Children = {c1}
  MaxFd = 9
  PipeSize = 1
  Pids = {1, 2}
  Closable <- TwoOfItsOwn
  MaxBytes <- Silent
  Wants = {1}
  Losable = {}
INVARIANT ChildWired
CHECK_DEADLOCK FALSE
