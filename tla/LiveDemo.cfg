\* Both kinds of traffic; two children do not react to SIGTERM.
SPECIFICATION Spec
CONSTANTS
  Traffic = {"synthetic", "ffmpeg"}
  Stubborn = {"receiver", "decrypt_app"}
INVARIANTS
  TypeOK
  Cleaned
PROPERTY
  EndsAlone
CHECK_DEADLOCK FALSE
