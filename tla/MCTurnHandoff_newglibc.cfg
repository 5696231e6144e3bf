SPECIFICATION FairSpec
CONSTANTS
  Main = Main
  Manager = Manager
  NoTurn = NoTurn
  Nobody = Nobody
  KillReportsExit = FALSE
  Workers = {w1, w2}
PROPERTIES
  HandoffCompletes
