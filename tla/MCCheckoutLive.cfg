CONSTANTS
  Orders = {o1}
  chart = chart
  reading <- NoChart
  Hooks = {h1, h2}
  NoReading = NoReading
  NoEvent = NoEvent
SPECIFICATION FairSpec
PROPERTY ChargedIsGranted
CHECK_DEADLOCK FALSE
