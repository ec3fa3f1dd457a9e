SPECIFICATION Spec
CONSTANTS
  ExternalInterrupts = {16}
  Tasks = {t1}
  FirstTask = t1
  LastAddress = 1
  VectorTable <- MCVectorTable
  EvenVectors = {16}
  Raisable = {2, 3, 16}
  FaultIn = {0, 3, 16}
  Priorities = {0}
  NoFrame = NoFrame
CONSTRAINT FewFrames
PROPERTIES InterruptReturnAddress
