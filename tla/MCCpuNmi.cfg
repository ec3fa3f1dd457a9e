SPECIFICATION Spec
CONSTANTS
  ExternalInterrupts = {16}
  Tasks = {t1}
  FirstTask = t1
  LastAddress = 2
  VectorTable <- MCVectorTable
  EvenVectors = {}
  Raisable = {2, 16}
  FaultIn = {}
  Priorities = {0, 1}
  NoFrame = NoFrame
PROPERTIES StrictPreemption
