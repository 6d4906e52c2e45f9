SPECIFICATION GwSpec
CONSTANTS
  Boots = {b1, b2}
  NoBoot = NoBoot
  Disposers = {}
  NoDispose = NoDispose
  MaxAsks = 2
  Careless = TRUE
SYMMETRY ServerSymmetry
INVARIANTS
  GuardsLeaveOneWriter
\* Every process may be shut or dead.
CHECK_DEADLOCK FALSE
