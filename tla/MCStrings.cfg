SPECIFICATION Spec
CONSTANTS
  CR = "r"
  LF = "n"
  MaxSrc = 4
  MaxWord = 3
  MaxCount = 2
  MaxText = 12
  Null = Null
INVARIANTS TypeOK ResultsAsTold StaysInText URIRoundTrip
PROPERTIES GoesForward
CHECK_DEADLOCK FALSE
