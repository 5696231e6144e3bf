SPECIFICATION FairSpec
CONSTANTS
  ta = ta
  tb = tb
  tc = tc
  td = td
  Main = Main
  Null = Null
  MaxStates = 12
  Threads <- MCThreads
  Programs <- MCPrograms
INVARIANTS
  TypeOK
  NoDangling
  OnlyKeepsAreKilled
  TreeShape
  NoOrphan
  NothingCarriedOver
PROPERTIES
  WaitsForChildren
  Terminates
  LateOnlyForCause
  QWithEachP
