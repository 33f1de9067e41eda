SPECIFICATION FairSpec
CONSTANTS
  Matches <- Ids
  PageSize = 2
  Enough = 2
  MaxKills = 2
INVARIANTS
  TypeOK
  NothingMissed
PROPERTIES
  WorkIsKept
  EveryMatchParsed
