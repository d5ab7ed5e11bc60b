SPECIFICATION Spec
CONSTANTS
  l1 = l1
  l2 = l2
  s1 = s1
  s2 = s2
  Lines = {l1, l2}
  Stoppers = {s1}
  Sizes = {2}
INVARIANT StopFinishesRequests
CHECK_DEADLOCK FALSE
