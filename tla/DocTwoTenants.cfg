SPECIFICATION OrderedSpec
CONSTANTS
  Requests = {1, 2, 3}
  Tenants = {t1, t2}
  Hashes = {h1}
  Admin = admin
  Nil = nil
  InMemory = TRUE
CHECK_DEADLOCK FALSE
INVARIANTS TenantIsolation FileKept
PROPERTIES RequestsTerminate
