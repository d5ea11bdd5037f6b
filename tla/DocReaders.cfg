SPECIFICATION RSpec
CONSTANTS
  Requests = {r1, r2, r3}
  Tenants = {t1, t2}
  Hashes = {h1}
  Admin = admin
  Nil = nil
  InMemory = FALSE
  PageSize = 1
SYMMETRY Symmetry
CHECK_DEADLOCK FALSE
INVARIANTS PagesMissOnlyShifted EmbeddedReadable
