SPECIFICATION FairSpec
CONSTANTS
  p1 = p1
  p2 = p2
  p3 = p3
  Procs = {p1, p2, p3}
  NoProc = NoProc
  Paths <- ThreePaths
  Calls <- ManyCalls
  Scripts <- AnyThree
  Texts = 2
  Nothing = Nothing
  Dir = Dir
INVARIANTS TypeOK SomeoneFinishes MadeIsThere AppendKept ReadPrefix
PROPERTY CallsEnd
CHECK_DEADLOCK FALSE
