SPECIFICATION FairSpec
CONSTANTS
  p1 = p1
  p2 = p2
  Player <- MCPlayers
  Amount = {10}
  Target = {105, 118}
  CrashPoint = {100, 120}
  MaxTicks = 3
  Curve <- MCCurve
  Int32Limit = 1024
  StartBalance = 20
  MaxRounds = 2
  MaxFaults = 0
  MaxCrashes = 0
INVARIANTS
  PaidAsAgreed
  AutoCashoutHonoured
PROPERTIES
  StartedRoundSettles
  AutoCashoutPaid
  OpensForConnected
