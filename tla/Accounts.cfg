SPECIFICATION Spec
CONSTANTS
  Key = {key}
  Process = {old, new}
  StartingBalance = 2
  DailyCreditGrant = 1
  Amount = {2, 3}
  Offset = 0
  MaxDays = 3
  MaxNet = 3
INVARIANTS
  TypeOK
  BalanceExplained
  WelcomedOnce
  CreditedSinceLogin
