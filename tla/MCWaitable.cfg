\* Two waiters, three values: a counter passes the awaited value in both
\* directions and wraps.
SPECIFICATION FairSpec
CONSTANTS
  Waiters = {w1, w2}
  Wrap = 3
  NoOne = NoOne
INVARIANTS NoStrandedWaiter OkMeansReached
PROPERTIES PollingEnds
CHECK_DEADLOCK FALSE
