CONSTANTS
    w1 = w1
    w2 = w2
    c1 = c1
    c2 = c2
    Workers = {w1, w2}
    Conversations = {c1, c2}
    Settings <- TheSettings
    Manifests <- TheManifests
    NameRank <- TheRanks
SPECIFICATION ServerSpec
INVARIANTS SessionsApart ResetForgets PairWasSaid TurnsCounted HandoffTellsAll
PROPERTY RejectionHeard
