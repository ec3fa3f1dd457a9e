\* One connection that is closed at once by its client.
SPECIFICATION Spec
CONSTANTS
  Conns = {c1}
  NoOne = NoOne
  Size = 1
  MaxBytes = 0
  MaxShutdowns = 0
PROPERTIES StartOutlived
CHECK_DEADLOCK FALSE
