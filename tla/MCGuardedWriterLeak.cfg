SPECIFICATION GwSpec
CONSTANTS
  Boots = {b1, b2}
  NoBoot = NoBoot
  Disposers = {d1}
  NoDispose = NoDispose
  MaxAsks = 1
  Careless = FALSE
SYMMETRY ServerSymmetry
INVARIANTS
  DisposeLeavesNoLock
\* Every process may be shut or dead.
CHECK_DEADLOCK FALSE
