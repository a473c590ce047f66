SPECIFICATION MCPlanSpec
CONSTANTS
  h1 = h1
  h2 = h2
  Handlers = {h1}
  MaxTurns = 5
  Messages <- PlanMessages
  Sayings <- Everything
INVARIANTS SlotsAgree NeverAsksTheKnown
PROPERTIES LifecycleRespected FailedMeansAskedInVain GuessNothing
CHECK_DEADLOCK FALSE
