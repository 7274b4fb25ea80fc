SPECIFICATION FairSpec
CONSTANTS
  Name = {0, 1}
  Limit = 2
  PageSize = 2
  MinRounds = 1
  MaxRounds = 2
  MinRanked = 3
  MaxRanked = 4
  MaxQueries = 2
CHECK_DEADLOCK FALSE
INVARIANTS
  TypeOK
  WaitsForAnswer
  DetailMatches
  PageInRanking
PROPERTIES
  SaveShown
  LoadingEnds
