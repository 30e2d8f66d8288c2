SPECIFICATION Spec
CONSTANTS
  NL = "nl"
  PROTOCOL = "RDTCHALLENGE/5.0"
  NumAddresses = 2
  BUF_SIZE = 5
  MaxLines = 4
INVARIANTS
  LinesInOrder
  NothingLost
PROPERTIES
  AllHandled
  OddLineEnds
