SPECIFICATION FairSpec
CONSTANTS
  Main = Main
  Manager = Manager
  NoTurn = NoTurn
  Nobody = Nobody
  KillReportsExit = TRUE
  Workers = {w1, w2, w3}
INVARIANTS
  TypeOK
  MutualExclusion
  NoLostWakeup
  OnlyMainJoins
PROPERTIES
  HandoffCompletes
  ImplementsBaton
