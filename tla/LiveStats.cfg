\* Two processes of at most two packets under a clock that may jump.
SPECIFICATION Spec
CONSTANTS
  Readers = {"encrypt", "decrypt"}
  MaxCounted = 2
  Times = {0, 2}
INVARIANT RatesOfLines
CHECK_DEADLOCK FALSE
