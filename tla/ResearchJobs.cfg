SPECIFICATION Spec
CONSTANTS
  Backtests = {r1, r2}
  BacktestFaults = {"lost", "duplicate", "killed", "late", "replay"}
  Discoveries = {d1, d2}
  Requests = {c1, c2}
  Workers = {w1, w2}
  MaxRetries = 1
  DiscoveryFaults = {"expires", "duplicate"}
  Searches = {s1}
  Limit = 1
  MaxCrashes = 1
  SearchFaults = {"network", "disconnect", "deadline", "refused"}
  Nobody = Nobody
INVARIANTS RetriedIsClean CreatedOnce
PROPERTIES EndedNeverStarts BacktestsEnd DiscoveryEnds ExaDecides
CHECK_DEADLOCK FALSE
