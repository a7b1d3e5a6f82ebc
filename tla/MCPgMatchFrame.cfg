CONSTANTS
  Streams <- MCStreams
SPECIFICATION MatchSpec
INVARIANTS ReadsWithinFrame
