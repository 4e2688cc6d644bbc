CONSTANTS
  p1 = p1 p2 = p2 x1 = x1
  Procs = {p1, p2}
  Songs = {x1}
  Charts = {x1}
  SongOf <- OneChart
  Rated = {x1}
  Window = 1
  MaxPlays = 3
  MayRun <- Updating
  Faults = {}
SPECIFICATION Spec
INVARIANTS UpdateAddsStatistics
