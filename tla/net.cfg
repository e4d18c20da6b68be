\* Buffer of two units, lengths below four: "long" exceeds the buffer, "huge" both.
CONSTANTS
  Message = {"short", "full", "long", "huge", "last"}
  Size <- MCSize
  LastMessage = {"last"}
  Sender = {"network", "miner"}
  LengthRange = 4
  BufferSize = 2
SPECIFICATION FairSpec
INVARIANTS TypeOK OneWriter HeardInOrder InStep
PROPERTY QueuedIsHeard
CHECK_DEADLOCK FALSE
