CONSTANTS
  Orders = {o1, o2}
  chart = chart
  reading <- SameChart
  Hooks = {h1, h2}
  NoReading = NoReading
  NoEvent = NoEvent
SPECIFICATION Spec
INVARIANTS
  TypeOK
  PaidMeansCharged
  FailedNeverCharged
  OneConfirmation
  AckedIsSettled
PROPERTIES
  SettledForGood
  KeepsPromise
CHECK_DEADLOCK FALSE
SYMMETRY Symmetry
