\* Three bits of pattern in buffers of up to four quads, all formats.
SPECIFICATION Spec
CONSTANTS
  PAT_LEN = 3
  Granted <- MCGranted
INVARIANTS
  TypeOK
  InBounds
  PatternSent
CHECK_DEADLOCK FALSE
