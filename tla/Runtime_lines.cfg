\* Every interleaving of two CPUs' hooks with the printing of lines and events.
SPECIFICATION Spec
CONSTANTS
  NCpus = 2
  Packets = 2
  RingSize = 1
  PrintEvents = TRUE
  Ends = {}
  MaxJumps = 0
  Seen = {"passed", "refused", "failed", "badPad", "notShortened"}
  MayFail = TRUE
INVARIANTS
  TypeOK
  LinesGrow
  OutcomesSeen
  EventsComplete
PROPERTY
  LineCountsEvents
CHECK_DEADLOCK FALSE
