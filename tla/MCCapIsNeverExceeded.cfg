SPECIFICATION Spec
CONSTANTS
  q1 = q1
  q2 = q2
  q3 = q3
  l1 = l1
  x1 = x1
  Requests = {q1, q2}
  Locates = {}
  Repairs = {}
  Priced <- Known
  CostOf <- Costs
  Cap = 3
  Empty = Empty
  Garbled = Garbled
  None = None
  MaxCrashes = 0
INVARIANTS
  CapIsNeverExceeded
CHECK_DEADLOCK FALSE
