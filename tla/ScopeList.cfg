SPECIFICATION Spec
CONSTANTS
  i1 = i1  i2 = i2  i3 = i3  i4 = i4  i5 = i5
  Ids <- FiveIds
  World = World
  MaxScopes = 5
  Nil = Nil
SYMMETRY AnyOrder
INVARIANTS
  SuperFirst
PROPERTIES
  ImplementsScopeSet
  WalkProgress
