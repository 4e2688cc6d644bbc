CONSTANTS
  a1 = a1 a2 = a2 A1 = A1 r1 = r1 r2 = r2 j1 = j1 w1 = w1 w2 = w2 c1 = c1 c2 = c2
  None = None
  Job = j1
  Lower <- LowerA1
  Names = {a1, A1}
  WebUsers = {w1, w2}
  Cookies = {c1, c2}
  Requests = {r1}
  MayRun <- RequestsAndJob
  Faults = {"rotate"}
SPECIFICATION LoneFairSpec
INVARIANTS LoneInv SessionsAreLowerCase RowsComeFromLogins
PROPERTIES DeadSessionsAreCleared LoneLoginReplacesWebUser LoneLoginUpdatesCookie
