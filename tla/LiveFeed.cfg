\* Two readers and the sender, in every interleaving of their locked sections.
SPECIFICATION Spec
CONSTANTS
  Readers = {"encrypt", "decrypt"}
  Messages = 4
  Batch = 2
  Keep = 2
  Drop = 1
INVARIANTS
  TypeOK
  CountExact
  ReaderNumbersGrow
  NotesKept
CHECK_DEADLOCK FALSE
