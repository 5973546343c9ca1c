\* Every source of at most three characters, however it falls into reads; the
\* books of short ones are changed in every place.
SPECIFICATION Spec
CONSTANTS
  Capacity = 3
  Sources <- MCSources
  MaxTampered = 6
  MaxUnits = 3
CHECK_DEADLOCK FALSE
INVARIANTS PassedMeansPreserved OrdinarySourcePasses
