SPECIFICATION MCSpec
CONSTANTS
  h1 = h1
  h2 = h2
  Handlers = {h1, h2}
  MaxTurns = 6
  Messages <- AllMessages
INVARIANTS TypeOK OneOpenTopic EvidenceBacked SuspensionHonoured ReturnResumes
PROPERTIES OnlyFreshEvidence 
CHECK_DEADLOCK FALSE
