CONSTANTS
  Streams <- SomeStreams
  Modes = {"select", "grouped", "scalar"}
  Limits = {1, 3, 9, 10, 11}
  Base = 5
  Maxima <- AllMaxima
SPECIFICATION Spec
INVARIANTS BytesAreExact TruncationIsTrue PrefixIsLargest
CHECK_DEADLOCK FALSE
