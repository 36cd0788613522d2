CONSTANTS
  n1 = n1
  n2 = n2
  Conns <- MCConns
  FlagSets <- MCFlagSets
  Times <- MCTimes
  Now <- MCNow
  Horizon <- MCHorizon

SPECIFICATION Spec
CHECK_DEADLOCK FALSE
INVARIANT NeverInPast
