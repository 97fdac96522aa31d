CONSTANTS
  Main = Main
  Worker = Worker
  Inferrers = {i1}
  Scrapers = {s1}
  SleepEnabled = TRUE
  MaxYields = 1
SPECIFICATION FairSpec
PROPERTIES YieldReturns TerminateStops PostedIsOffered
