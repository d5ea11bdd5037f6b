SPECIFICATION Spec
CONSTANTS
  Requests = {r1, r2, r3, r4}
  Tenants = {t1}
  Hashes = {h1}
  Admin = admin
  Nil = nil
  InMemory = FALSE
SYMMETRY Symmetry
CHECK_DEADLOCK FALSE
INVARIANTS
  OneRunPerVersion NoOrphanRows EmbeddedMeansSearchable OnlySettledVisible
  DeletedStaysDeleted
PROPERTIES EmbeddedNeverRegresses CatalogueSpec
