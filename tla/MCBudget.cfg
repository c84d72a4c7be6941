SPECIFICATION Spec
CONSTANTS
  q1 = q1
  q2 = q2
  q3 = q3
  l1 = l1
  x1 = x1
  Requests = {q1, q2, q3}
  Locates = {l1}
  Repairs = {x1}
  Priced <- Known
  CostOf <- Costs
  Cap = 4
  Empty = Empty
  Garbled = Garbled
  None = None
  MaxCrashes = 1
SYMMETRY Symmetry
INVARIANTS
  TypeOK
  CapHolds
  BooksMatch
  ChargesAreReal
CHECK_DEADLOCK FALSE
