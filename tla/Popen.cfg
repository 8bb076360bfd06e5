SPECIFICATION Spec
CONSTANTS
  c1 = c1
  c2 = c2
  Script = Script
  Children = {c1, c2}
  MaxFd = 10
  PipeSize = 1
  Pids = {1, 2}
  Closable <- InAndErr
  MaxBytes <- Silent
  Wants = {}
  Losable = {"popen", "err"}
INVARIANTS OneOwner ChildWired OwnStatus
CHECK_DEADLOCK FALSE
