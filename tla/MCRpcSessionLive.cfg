SPECIFICATION RpcLiveSpec
CONSTANTS
  Intents = {i1, i2}
  NoIntent = NoIntent
  MaxEpoch = 4
  MaxGen = 1
  MaxBuffered = 1
  MaxEvents = 3
PROPERTIES
  
  StopFrees
  CompletionReported
CHECK_DEADLOCK FALSE
