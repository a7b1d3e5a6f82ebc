CONSTANTS
  NoBuf = NoBuf
  Conns = {c1, c2, c3}
  Buffers = {b1, b2, b3}
  Streams <- MCPoolStreams
SPECIFICATION LegacySpec
SYMMETRY MCSymmetry
INVARIANTS LegacyTypeOK BufferExclusive LIInv
PROPERTIES ImplementsHeaderLease
