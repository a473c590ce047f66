SPECIFICATION MCSemanticSpec
CONSTANTS
  h1 = h1
  h2 = h2
  Handlers = {h1}
  MaxTurns = 5
  Messages <- AllMessages
  Texts <- Everything
  Enabled = {TRUE, FALSE}
INVARIANT PilotIsLocal
PROPERTY RevisionIsContradiction
CHECK_DEADLOCK FALSE
