CONSTANTS
  Streams <- MCStreams
SPECIFICATION MatchSpec
INVARIANTS SSLCodeOnlyAsProbe
