\* Four nodes: enough for an erased or inserted node to have neighbours on both
\* sides; three keys, so equal and unequal ones meet.
CONSTANTS
  Capacity = 4
  Key = {0, 1, 2}
SPECIFICATION Spec
INVARIANTS
  TypeOK
  NodesAccounted
PROPERTY ImplementsSortedList
