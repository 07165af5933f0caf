\* Every read of the controller may fail.
CONSTANTS
  Points <- MCPoints
  Calibration <- MCCal
  FilterLength = 2
  BusErrors = TRUE
SPECIFICATION FairSpec
INVARIANTS StrokesIndependent PointFollows
PROPERTY ReleaseReported
