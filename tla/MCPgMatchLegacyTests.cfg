CONSTANTS
  NoBuf = NoBuf
  Conns = {c1}
  Buffers = {b1}
  Streams <- MCLegacyTestStreams
SPECIFICATION LegacySpec
INVARIANTS LegacyPassesTests
