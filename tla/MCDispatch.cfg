SPECIFICATION CoSpec
CONSTANTS
  Intents = {i1, i2}
  NoIntent = NoIntent
  MaxEpoch = 2
  MaxGen = 1
  MaxBuffered = 2
  MaxEvents = 3
CONSTRAINT Budget
SYMMETRY IntentSymmetry
INVARIANTS
  SlotOwned
  SameTurn
  BufferDeliveredWhole
PROPERTIES
  DropIsJustified
CHECK_DEADLOCK FALSE
