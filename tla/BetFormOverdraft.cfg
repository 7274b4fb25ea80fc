SPECIFICATION Spec
CONSTANTS
  Value = {0, 1}
  Login = 1
  Cap = 1
  InboxCap = 2
  EngineFails = FALSE
  Prompt = TRUE
  MaxQueries = 2
  MaxRounds = 2
CHECK_DEADLOCK FALSE
PROPERTIES
  StakeCovered
