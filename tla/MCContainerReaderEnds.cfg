SPECIFICATION Spec
CONSTANTS
  c1 = c1
  Callers = {c1}
  MaxStarts = 1
  MaxLines = 1
  MaxStreams = 1
  TailLines = 1
  Cap = 1
INVARIANT EndsOnlyWithPod
CHECK_DEADLOCK FALSE
