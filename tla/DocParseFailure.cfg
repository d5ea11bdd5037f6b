SPECIFICATION Spec
CONSTANTS
  Requests = {r1, r2}
  Tenants = {t1}
  Hashes = {h1}
  Admin = admin
  Nil = nil
  InMemory = FALSE
SYMMETRY Symmetry
CHECK_DEADLOCK FALSE
INVARIANT FailureOnRecord
