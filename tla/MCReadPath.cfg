SPECIFICATION Spec
CONSTANTS
  c1 = c1
  c2 = c2
  Conns <- MCConns
  Clients <- MCClients
  PageMax = 1
  BacklogMax = 1
  PerFrame = 1
  FrameMax = 2
  IndexMax = 3
  QueueMax = 2
  StrikeMax = 2
  UiMax = 1
  Bounds <- MCBounds
INVARIANTS ObservationSound DialogsAgree
PROPERTIES FollowsAStream RowsArrive
CHECK_DEADLOCK FALSE
