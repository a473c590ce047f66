CONSTANTS
    w1 = w1
    w2 = w2
    c1 = c1
    c2 = c2
    Workers = {w1, w2}
    Conversations = {c1, c2}
    Settings <- RepeatSettings
    Manifests <- TheManifests
    NameRank <- TheRanks
SPECIFICATION ServerSpec
INVARIANT FallbackNotRepeated
