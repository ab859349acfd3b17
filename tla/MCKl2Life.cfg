SPECIFICATION FairSpec
CONSTANTS
  box = box
  Sess = {s1, s2}
  Procs = {p1, p2}
  Uprocs = {u1, u2}
  Events = {e1}
  Insts = {i1}
  GroupOf <- MCGroupOf
  Admins = {a1}
  Asks = {1}
  Limits = {1, 2}
  MaxPages = 1
  Total = 1
  Races = {}
  Mixes = {{"launch", "event"}, {"memory", "limit"}}
  Nothing = Nothing
INVARIANTS
  NobodyDangles
  RefsMatch
  
  LifeTypeOK
PROPERTIES
  ProcessForgotten
