CONSTANTS
  Readers = {"r1"}
  Period = 2
  CheckTime = 1
  MaxNow = 5
SPECIFICATION StatusSpec
INVARIANTS UnreachableIsBad
