CONSTANTS
  NoBuf = NoBuf
  Conns = {c1, c2}
  Buffers = {b1, b2}
  Streams <- MCPoolStreams
SPECIFICATION LegacySpec
INVARIANTS HeaderFromOwnRead
