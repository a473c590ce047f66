SPECIFICATION Spec
CONSTANTS
  c1 = c1 c2 = c2 t1 = t1 t2 = t2
  Threads = {t1, t2}
  Conversations = {c1, c2}
  MaxTurns = 3
  Settings <- MCSettings
  MinConfidence = 6
  Concepts <- DomainConcepts
  Known = {"cleas", "denuncia_administrativa"}
  Registered = TRUE
CHECK_DEADLOCK FALSE
INVARIANTS EnginesAgree EffectsOnce SessionIsOfficial OutputIsOwn
