SPECIFICATION Spec
CONSTANTS
  ta = ta
  tb = tb
  tc = tc
  td = td
  Main = Main
  Null = Null
  MaxStates = 12
  Threads <- MCThreads
  Programs <- LatePrograms
PROPERTIES
  OnTime
