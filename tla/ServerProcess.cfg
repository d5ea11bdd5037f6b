SPECIFICATION SSpec
CONSTANTS
  Chunks = {c1, c2, c3, c4}
  Depth = 3
  MaxTop = 3
  RrfK = 60
  SettingsSpace <- MCSettingsSpace
  RouterGiven = {TRUE, FALSE}
  Threads = {t1, t2}
  Main = main
  Instances = 3
INVARIANTS LockHeldBySearcher SurvivesOneBranch OneLimiterPerThread
PROPERTIES RetrieveEnds ReadyTracksDatabase
