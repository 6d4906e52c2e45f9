SPECIFICATION GwSpec
CONSTANTS
  Boots = {b1, b2}
  NoBoot = NoBoot
  Disposers = {d1, d2}
  NoDispose = NoDispose
  MaxAsks = 1
  Careless = FALSE
SYMMETRY ServerSymmetry
INVARIANTS
  GwTypeOK
PROPERTIES
  RowsUnderOwnLock
  OnlyOwnLockRemoved
  OneWriterAtATime
  QuietAfterDispose
\* Every process may be shut or dead.
CHECK_DEADLOCK FALSE
