SPECIFICATION FairSpec
CONSTANTS
  WRITE_BUFFER_SIZE = 7
  MaxName = 2
  MaxFile = 2
  MaxMaps = 3
  HeaderSplits = 1
INVARIANT TypeOK
INVARIANT ReplyIntact
 
INVARIANT Released
PROPERTY WriteEnds
