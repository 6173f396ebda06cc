\* Up to five objects, and a count of a list that is back at 0 after the third.
CONSTANTS
  u = u
  s0 = s0
  s1 = s1
  o1 = o1
  o2 = o2
  o3 = o3
  o4 = o4
  o5 = o5
  UUID <- Uuids
  Setting <- Settings
  DefaultSetting = s0
  Length <- Lengths
  Object <- Objects
  NULL = null
  CountValues = 3
  MaxServices = 2
SYMMETRY ObjectSymmetry
SPECIFICATION Spec
INVARIANTS
  TypeOK
  OwnedOnce
  NothingLeaks
  StackRefersToServices
PROPERTIES
  ShutdownCleansUp
  ImplementsServiceDeclaration
