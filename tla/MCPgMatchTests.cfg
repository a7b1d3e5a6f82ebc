CONSTANTS
  Streams <- MCTestStreams
SPECIFICATION MatchSpec
INVARIANTS StrictPassesTests
