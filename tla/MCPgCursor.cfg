CONSTANTS
  Streams <- MCStreams
  Payloads <- MCPayloads
SPECIFICATION Spec
INVARIANTS TypeOK
PROPERTIES TerminatorDetection
