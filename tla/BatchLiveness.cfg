\* Liveness needs the plain state graph: no symmetry, one execution.
CONSTANTS
  N = 2
  Workers = {w1, w2}
  MaxRuns = 1
SPECIFICATION FairSpec
CHECK_DEADLOCK FALSE
PROPERTY BatchEnds
