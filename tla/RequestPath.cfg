SPECIFICATION PathSpec
CONSTANTS
  A = A  B = B  Master = Master  KeyA = KeyA  Stolen = Stolen  Junk = Junk
  Home = Home  Proxy = Proxy  Far = Far
  DefaultTenant = B
  Absent = Absent
  Settings <- MCSettings
  Arrivals <- MCArrivals
  Keys <- MCKeys
  Faults <- MCFaults
  NoRequest = NoRequest
  Calls = {c1, c2, c3}
  Limit = 1
  Window = 2
  MaxKeys = 2
  Second = 1
  Horizon = 2
  NoKey = nokey
SYMMETRY Symmetry
CHECK_DEADLOCK FALSE
INVARIANTS KeysBounded GuessingBounded OwnTrafficOnly BoundKeysStayHome MetersAgree
PROPERTY WindowKept
