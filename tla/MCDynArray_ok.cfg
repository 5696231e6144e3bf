SPECIFICATION Spec
CONSTANTS
  o1 = o1
  o2 = o2
  o3 = o3
  o4 = o4
  Objects <- MCObjects
  Key <- MCKey
  Indexes = {0, 1, 2, 4}
  Imports <- MCImports
  Requests = {0, 3, 5}
  TypeSizes = {1, 3, 5}
  MinCapacity = 2
  MaxCapacity = 4
  Word = 12
  Garbage = Garbage
INVARIANTS
  TypeOK
  InBounds
  Ownership
PROPERTIES
  ImplementsButExtract
