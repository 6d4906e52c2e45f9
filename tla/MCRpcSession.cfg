SPECIFICATION RpcSpec
CONSTANTS
  Intents = {i1, i2}
  NoIntent = NoIntent
  MaxEpoch = 5
  MaxGen = 2
  MaxBuffered = 1
  MaxEvents = 2
SYMMETRY SendSymmetry
INVARIANTS
  IdleIsClean
  OnePromptAtATime
  AttributionSound
  FirstByteJournalled
CHECK_DEADLOCK FALSE
