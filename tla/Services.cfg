CONSTANTS
  a = a A = A b = b g1 = g1 g2 = g2 s1 = s1 s2 = s2 m1 = m1
  Nobody = Nobody
  Requests = {g1, g2}
  Readers = {g1, g2}
  Refreshes = {g1, g2}
  Users = {a, A, b}
  LowerSub <- LowerA
  ScopeNames = {"impersonate", "update:database"}
  MaxClock = 2
  MaxTokens = 2
  Period = 1
  CheckTime = 1
  MaxNow = 4
  Fields = {"nickname", "public"}
  Flags = {"public"}
  Values = {"zero", "one"}
  Zero = "zero"
  ProfileKinds = {"cache", "put", "force"}
  ProfileFaults = {"db"}
  Songs = {s1, s2}
  Modes = {m1}
  Window = 2
  MaxPlays = 2
  DrsFaults = {"site", "page", "db"}
SPECIFICATION MCSpec
SYMMETRY ServiceSymmetry
INVARIANTS TokenInv TokenIsFresh StatusInv StatusIsRecent ProfilesInv ActsAsEntitled LonePutIsExact DrsInv SnapshotNotOlder RefreshStoresCharts LoneRefreshStoresStats
PROPERTIES AnswersAreTrue CacheChangesNothing
