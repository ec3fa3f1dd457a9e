\* One producer and two consumers; the indices wrap.
SPECIFICATION FairSpec
CONSTANTS
  Producers = {p1}
  Consumers = {c1, c2}
  Values = {v1, v2}
  Size = 2
  Wrap = 4
  Nothing = Nothing
INVARIANTS NoStrandedConsumer
PROPERTIES IsFifo AbortReleases
CHECK_DEADLOCK FALSE
