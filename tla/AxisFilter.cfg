CONSTANTS
  MedianLength = 5
  MeanLength = 5
  Samples = {0, 1, 3}
SPECIFICATION AxisSpec
INVARIANTS MedianIsMiddle MeanIsAverage
