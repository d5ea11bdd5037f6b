SPECIFICATION Spec
CONSTANTS
  Chunks = {c1, c2}
  Depth = 1
  MaxTop = 1
  RrfK = 60
INVARIANT FallsBack
