SPECIFICATION Spec
CONSTANTS
  Components = {"conversation_state", "semantic_authority"}
  MaxTurns = 3
  MaxProposals = 2
INVARIANT OrderDoesNotMatter
CHECK_DEADLOCK FALSE
