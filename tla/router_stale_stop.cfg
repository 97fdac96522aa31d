CONSTANTS
  a = a
  b = b
  Models = {a, b}
  None = None
  r1 = r1
  r2 = r2
  r3 = r3
  s1 = s1
  s2 = s2
  stop = stop
  load = load
  unload = unload
  remove = remove
  reload = reload
  reload2 = reload2
  main = main
  conv = conv
  Calls = {r1, r2, r3, s1, s2, stop, load, unload, remove, reload, reload2, main}
  Parties <- MCParties
  Op <- MCOp
  Target <- MCTarget
  Conv <- MCConv
  ModelsMax = 1
  Sources <- MCSources
  MaxLines = 1
SPECIFICATION Spec
CHECK_DEADLOCK FALSE
INVARIANTS StoppingRuns
