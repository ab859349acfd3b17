\* Two sessions of one or two processes allocate, free and close.
SPECIFICATION Spec
CONSTANTS
  Sess = {s1, s2}
  Ctxs = {c1, c2}
  Procs = {p1, p2}
  PageCount <- MCPageCount
  PageSize <- MCPageSize
  U64 = 8
  Sizes = {1, 3}
  Nothing = Nothing
INVARIANTS
  MemTypeOK
  BitmapTiled
  PagesAccounted
  ContextOutlives
PROPERTIES
  Implements
  ScanAdvances
SYMMETRY Symmetry
