SPECIFICATION DecodingSpec
CONSTANTS
  InSize = 4
  OutSize = 2
  Asks = {0, 2}
  Wants = {1, 2}
  MaxBytes = 12
  MaxSegments = 3
  MaxAround = 1
  TextsOf <- TextsByWriter
  Error = Error
  NotYet = NotYet
INVARIANTS DecodingTypeOK NothingLost EndMeansEnd LinesWhole RoundTrip
PROPERTIES ImplementsFifo CallsReturn
CHECK_DEADLOCK FALSE
