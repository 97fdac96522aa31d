CONSTANTS
  Main = Main
  Worker = Worker
  Inferrers = {i1, i2}
  Scrapers = {s1}
  SleepEnabled = TRUE
  MaxYields = 1
SPECIFICATION Spec
SYMMETRY Symmetry
INVARIANTS TypeOK TaskConservation FifoOrder CallbackExclusion YieldLeavesNothing
