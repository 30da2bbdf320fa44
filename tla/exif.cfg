\* Files of a few lengths whose fields take small values and one too large.
SPECIFICATION FairSpec
CONSTANTS
  Lengths = {0, 3, 13, 32, 46, 52}
  U16 = {0, 1, 2, 3, 5, 18, 42, 1000}
  U32 = {0, 1, 3, 8, 1000}
INVARIANTS TypeOK InBounds
PROPERTIES ParseTerminates WorkIsLinear
CHECK_DEADLOCK FALSE
