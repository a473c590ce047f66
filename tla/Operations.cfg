SPECIFICATION GateSpec
CONSTANTS
  Tools = {t1}
  NoAdapter = NoAdapter
  NoKey = NoKey
  Adapters <- MCAdapters
  Operations <- MCOperations
  Situations <- MCSituations
INVARIANTS MoreIsNeverLess RetriesRecognised PreparedOnly PutOffStaysBehind LimitsStayVisible
PROPERTY EffectsOnlyOfficial
CHECK_DEADLOCK FALSE
