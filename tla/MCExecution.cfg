CONSTANTS
  ByteBits <- MCByteBits
  Images <- MCImages
  MappedRegisters <- MCMappedRegisters
  ExternalInterrupts <- MCExternalInterrupts
  Priorities <- MCPriorities
  Handlers <- MCHandlers
  CodeStart <- MCCodeStart
  Setups <- MCSetups
  Instructions <- MCInstructions
  Programs <- MCPrograms
  MaxSteps <- MCMaxSteps

SPECIFICATION Spec

CHECK_DEADLOCK FALSE

INVARIANTS
  EveryEncodingIsOneInstruction
  BranchesReachTheirTarget
  
  BlocksAreCopied
  CallsReturn
  FaultLeavesOperands
  ImageIsInPlace

PROPERTIES
  HandlerIsTransparent
