SPECIFICATION Spec
CONSTANTS
  w1 = w1 w2 = w2 k1 = k1 k2 = k2 k3 = k3 k4 = k4 crash = crash glass = glass
  NoKey = NoKey NoPackage = NoPackage
  Keys = {k1, k2, k3, k4}
  Works = {crash, glass}
  Workers = {w1, w2}
  Requests <- AllRequests
  Settings <- MCSettings
CHECK_DEADLOCK FALSE
INVARIANT OnePackagePerKey
