SPECIFICATION Spec
CONSTANTS
  p1 = p1
  p2 = p2
  Player <- MCPlayers
  Amount = {10}
  Target = {118}
  CrashPoint = {100, 120}
  MaxTicks = 3
  Curve <- MCCurve
  Int32Limit = 119
  StartBalance = 20
  MaxRounds = 2
  MaxFaults = 1
  MaxCrashes = 1
SYMMETRY Symmetry
INVARIANTS
  TypeOK
  BooksMatchMemory
  OutcomeHidden
  ProvablyFair
PROPERTIES
  BooksMoveTogether
  HistoryAppendOnly
  LoopSpec
  LedgerSpec
