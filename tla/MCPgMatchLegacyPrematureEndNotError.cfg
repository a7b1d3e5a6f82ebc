CONSTANTS
  NoBuf = NoBuf
  Conns = {c1}
  Buffers = {b1}
  Streams <- MCLegacyStreams
SPECIFICATION LegacySpec
INVARIANTS PrematureEndNotError
