CONSTANTS
  Main = Main
  Worker = Worker
  Inferrers = {i1}
  Scrapers = {}
  SleepEnabled = TRUE
  MaxYields = 0
SPECIFICATION FairSpec
PROPERTIES PostedWakesUp
