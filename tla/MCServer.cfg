\* Two connections; a device that sends at any time, overflows, and leaves
\* bytes behind; close and the close of the destructor.
SPECIFICATION Spec
CONSTANTS
  Conns = {c1, c2}
  NoOne = NoOne
  Size = 2
  MaxBytes = 3
  MaxShutdowns = 2
SYMMETRY Symmetry
INVARIANTS StoppedMeansDelivered InOrder
INVARIANTS ClosedMeansGone BroadcastMeetsClients ClosedAfterStart ConditionsAreTrue
PROPERTIES PumpWorks
CHECK_DEADLOCK FALSE
