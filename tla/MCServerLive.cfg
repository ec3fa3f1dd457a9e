\* One connection whose thread, the pump, the cleanup thread and close all want
\* the mutex; close and the close of the destructor.
SPECIFICATION FairSpec
CONSTANTS
  Conns = {c1}
  NoOne = NoOne
  Size = 2
  MaxBytes = 2
  MaxShutdowns = 2
PROPERTIES CloseReturns DisconnectedIsDeleted
CHECK_DEADLOCK FALSE
