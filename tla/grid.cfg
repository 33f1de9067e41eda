SPECIFICATION Spec
CONSTANTS
  XMin <- West
  XMax <- East
  YMin <- South
  YMax <- North
  Cells = 32
  Xs <- NearX
  Ys <- NearY
  Intervals = {1, 3, 5}
INVARIANTS
  CentreIsInSquare
  CandidatesAreNear
  DrawnWhereItStands
