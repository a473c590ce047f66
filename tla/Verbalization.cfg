SPECIFICATION Spec
CONSTANTS
  w1 = w1
  w2 = w2
  Workers = {w1, w2}
  Settings <- MCSettings
CHECK_DEADLOCK FALSE
INVARIANT ReplyOfItsTurn
PROPERTY EveryTurnAnswered
