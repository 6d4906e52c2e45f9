SPECIFICATION PartsSpec
CONSTANTS
  Intents = {i1, i2}
  NoIntent = NoIntent
  MaxEpoch = 3
  MaxGen = 4
INVARIANTS
  GateTypeOK
  WaitsForOneCall
  UnsentVerdictSound
  NoOrphan
PROPERTIES
  ReleaseIsEarned
  TurnEnds
  LateHandoverHarmless
  HandoverEnds
  DeathNoticed
CHECK_DEADLOCK FALSE
