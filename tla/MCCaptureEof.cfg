SPECIFICATION Spec
CONSTANTS
  Streams = {stdout, stderr}
  Captures = {1, 2}
  Sinks = {1}
  Buffered = {stdout}
  Nuls = {2}
  Capacities = {1}
  PipeSize = 3
  ReadSize = 2
  Failing = {"make", "end"}
  Closed = Closed
  None = None
  MaxBytes = 4
INVARIANT PipeHitsEOF
CHECK_DEADLOCK FALSE
