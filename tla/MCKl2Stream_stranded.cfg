SPECIFICATION Spec
CONSTANTS
  a1 = a1
  a2 = a2
  b1 = b1
  P = P
  Q = Q
  e1 = e1
  e2 = e2
  Sessions = {a1, a2, b1}
  Uproc <- MCUproc
  NumQ = 2
  Depth = 2
  Events = {e1, e2}
  Plans <- Trouble
  Races = {"close", "late", "record", "signal", "split", "stuck"}
  Nothing = Nothing
INVARIANTS
  WaitsHaveRecords
