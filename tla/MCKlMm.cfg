\* Two sessions allocate within one memory and across several, free and leave.
SPECIFICATION Spec
CONSTANTS
  Sess = {s1, s2}
  Threads = {t1, t2}
  MemCount = 3
  KindOf <- MCKindOf
  PageCount <- MCPageCount
  PageSize <- MCPageSize
  Base <- MCBase
  U64 = 32
  Sizes = {1, 4, 6}
  Nothing = Nothing
INVARIANTS
  TablesAgree
  
PROPERTIES
  Implements
SYMMETRY Symmetry
