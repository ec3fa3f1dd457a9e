SPECIFICATION Spec
CONSTANTS
  ExternalInterrupts = {16}
  Tasks = {t1, t2}
  FirstTask = t1
  LastAddress = 1
  VectorTable <- MCVectorTable
  EvenVectors = {}
  Raisable = {3, 11, 16}
  FaultIn = {0, 16}
  Priorities = {0, 1}
  NoFrame = NoFrame
INVARIANTS IInv ActiveMatchesFrames HandlerCanReturn
PROPERTIES StrictPreemption NothingLeftWaiting ReturnAddressExact ThreadResumes
