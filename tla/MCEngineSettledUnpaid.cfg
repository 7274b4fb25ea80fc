SPECIFICATION Spec
CONSTANTS
  p1 = p1
  p2 = p2
  Player = {p1}
  Amount = {10}
  Target = {0}
  CrashPoint = {120}
  MaxTicks = 3
  Curve <- MCCurve
  Int32Limit = 1024
  StartBalance = 20
  MaxRounds = 1
  MaxFaults = 1
  MaxCrashes = 0
INVARIANTS
  SettledMeansPaid
