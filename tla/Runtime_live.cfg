\* One CPU's hooks, the loop, both ways to end it and a clock set back once:
\* what must happen.
SPECIFICATION Spec
CONSTANTS
  NCpus = 1
  Packets = 2
  RingSize = 1
  PrintEvents = TRUE
  Ends = {"signal", "duration"}
  MaxJumps = 1
  Seen = {"ok", "failedFramed"}
  MayFail = FALSE
PROPERTIES
  CatchesUp
  EventsDrain
  LoopEnds
CHECK_DEADLOCK FALSE
