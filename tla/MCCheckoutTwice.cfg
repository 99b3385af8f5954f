CONSTANTS
  Orders = {o1, o2}
  chart = chart
  reading <- SameChart
  Hooks = {h1}
  NoReading = NoReading
  NoEvent = NoEvent
SPECIFICATION Spec
INVARIANT ChartBoughtOnce
CHECK_DEADLOCK FALSE
SYMMETRY Symmetry
