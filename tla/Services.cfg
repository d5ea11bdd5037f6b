SPECIFICATION CSpec
CONSTANTS
  Keys = {k1}
  Calls = {c1, c2, c3, c4}
  Limit = 2
  Window = 5
  Margin = 1
  MaxDelay = 1
  Skew = 1
  FailClosed = TRUE
  Horizon = 7
  NoKey = nokey
  MaxRetries = 2
  BackoffFactor = 2
  MaxBackoff = 5
  EmbedJitter = 2
  OtherJitter = 1
  RetryAfters = {0, 3, 40}
  BatchSize = 2
  TopK = 2
  MaxItems = 3
  MaxResults = 3
  Scores = {0, 1}
  ChunkSize = 5
  Overlap = 2
  MinLength = 3
  MaxLength = 7
  TextLimit = 15
  MuteSets = {{}, {7, 8, 13, 14, 15}}
SYMMETRY Symmetry
INVARIANTS Ceiling AllTriesUsed PatienceKept OwnVectors TextKept
