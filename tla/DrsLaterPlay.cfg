CONSTANTS
  Refreshes = {"r1"}
  Songs = {"s1"}
  Modes = {"m1"}
  Window = 1
  MaxPlays = 2
  DrsFaults = {}
SPECIFICATION DrsSpec
INVARIANTS RefreshStoresPlays
