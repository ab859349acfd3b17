\* One copy after the other, on every path, with three channels.
SPECIFICATION Spec
CONSTANTS
  t1 = t1
  t2 = t2
  Threads = {t1}
  NumCh = 3
  NoKbuf <- OneRead
  Mixes <- OneCopy
  MaxChunks = 4
  Nothing = Nothing
PROPERTIES
  CopyReturns
