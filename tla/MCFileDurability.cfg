SPECIFICATION FdFairSpec
CONSTANTS
  Lines = {l1, l2, l3}
  Size = 2
  MaxCloses = 2
INVARIANTS
  ConfirmedSurvives
  TornOnlyAtTheEnd
PROPERTIES
  ImplementsPort
  EveryCallIsAnswered
\* The instance may have answered everything, or the machine may be down.
CHECK_DEADLOCK FALSE
