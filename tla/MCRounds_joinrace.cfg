SPECIFICATION Spec
CONSTANTS
  Ids = {m1, m2, m3}
  Zero = Zero
  MaxRounds = 3
  JoinReportsDeadlock = TRUE
INVARIANTS
  ManagerHasEnded
