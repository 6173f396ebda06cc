CONSTANTS
  Capacity = 3
  Key = {0, 1}
SPECIFICATION Spec
INVARIANT EraseReturns
