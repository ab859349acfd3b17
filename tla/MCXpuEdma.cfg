\* Two copies compete for the channels, a reset may strike.
SPECIFICATION Spec
CONSTANTS
  t1 = t1
  t2 = t2
  Threads = {t1, t2}
  NumCh = 2
  NoKbuf = {}
  Mixes <- TwoCopies
  MaxChunks = 3
  Nothing = Nothing
INVARIANTS
  EdmaTypeOK
  ChannelsExclusive
  CountsConserved
  CopyOkMeansCopied
  
