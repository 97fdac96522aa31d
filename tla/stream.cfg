CONSTANTS
  r1 = r1
  r2 = r2
  g1 = g1
  d1 = d1
  Requests = {r1, r2}
  Readers = {g1}
  Deleters = {d1}
  Main = Main
  Cap = 2
  ResultSize <- MCResultSize
  MaxPartials <- MCMaxPartials
  Offsets = {0, 1}
  Parties <- MCParties
SPECIFICATION FairSpec
CHECK_DEADLOCK FALSE
INVARIANTS TypeOK OneLiveSession ReplayFaithful BufferedFirst DisconnectLosesNothing NoStaleResults
PROPERTIES CancelUnwinds ReadersLeave
