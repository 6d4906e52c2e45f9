SPECIFICATION Spec
CONSTANTS
  Intents = {1, 2}
  NoIntent = 0
  MaxRows = 3
  MaxFaults = 3
  MaxJudged = 2
INVARIANTS NoUnsafeResend
PROPERTIES RepairConverges
CHECK_DEADLOCK FALSE
