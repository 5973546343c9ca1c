\* What is read from the book is what the source says, refuted by a reference to
\* a carriage return.
SPECIFICATION Spec
CONSTANTS
  Capacity = 3
  Sources <- MCSources
  MaxTampered = 0
  MaxUnits = 1
CHECK_DEADLOCK FALSE
INVARIANT ValuesPreserved
