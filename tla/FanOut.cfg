CONSTANTS
  f1 = f1 f2 = f2 i1 = i1 i2 = i2
  Nil = Nil
  Callers = {f1, f2}
  Items = {i1, i2}
  Lists <- TwoAndOne
  Limit = 1
  Faults = {"net", "cookie", "page"}
SPECIFICATION FairSpec
INVARIANTS FanOutInv ResultIsComplete LimiterBound
PROPERTIES FetchSpec Answered
CHECK_DEADLOCK FALSE
