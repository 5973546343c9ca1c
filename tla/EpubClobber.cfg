\* The same builders, against the rule of docs/REQUIREMENTS.md.
SPECIFICATION Spec
CONSTANTS
  p1 = p1
  p2 = p2
  q1 = q1
  P = P
  Q = Q
  X = X
  Y = Y
  pid = pid
  Builders = {p1, p2, q1}
  Processes = {P, Q}
  Pids = {pid}
  Outputs = {X, Y}
  ProcessOf <- MCProcessOf
  PidOf <- MCPidOf
  OutputOf <- MCOutputOf
  StageTries = 2
  MaxSequence = 3
  MaxStray = 1
PROPERTIES ReplacesOnlyOnRequest
CHECK_DEADLOCK FALSE
