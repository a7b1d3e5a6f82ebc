CONSTANTS
  Streams <- MCStreams
SPECIFICATION MatchSpec
PROPERTIES ImplementsContract
