SPECIFICATION Spec
CONSTANTS
  Players = {p1, p2}
  Versions = {v1, v2}
  MaxEdits = 1
  None = None
SYMMETRY Symmetry
INVARIANT EditsSpareAcceptedVersions
CHECK_DEADLOCK FALSE
