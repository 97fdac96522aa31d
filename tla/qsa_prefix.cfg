CONSTANTS
  s1 = s1
  s2 = s2
  KvSize = 3
  Block = 1
  Seqs = {s1, s2}
  Tokens = {t1, t2}
  MaxPos <- Short
  Runs <- UpToTwo
  Gaps = {0, 1}
  Ranges <- TailsAndMiddle
  MaxFast = 2
  RecurrentState = TRUE
  ClearsAfterError = TRUE
SPECIFICATION Spec
SYMMETRY Symmetry
INVARIANTS TypeOK Mirror KeysFresh
PROPERTIES ReadsAsPlain
