\* Two processes with one id, the first with two threads: the second process
\* builds the same book, and meets the stages of the first, live or left behind.
SPECIFICATION Spec
CONSTANTS
  p1 = p1
  p2 = p2
  q1 = q1
  P = P
  Q = Q
  X = X
  Y = Y
  pid = pid
  Builders = {p1, p2, q1}
  Processes = {P, Q}
  Pids = {pid}
  Outputs = {X, Y}
  ProcessOf <- MCProcessOf
  PidOf <- MCPidOf
  OutputOf <- MCOutputOf
  StageTries = 2
  MaxSequence = 3
  MaxStray = 1
INVARIANTS TypeOK BooksUnmixed StagesStay NothingLeft
PROPERTIES ReplacesOnlyInRace
CHECK_DEADLOCK FALSE
