-------------------------------- MODULE MCCpu --------------------------------
(* Small instances of Cpu for TLC. *)
EXTENDS CpuInvariant

\* Every handler starts at the last address.
MCVectorTable == [e \in Exceptions |-> LastAddress]

\* A program whose HardFault handler faults, or whose NMI handler is entered
\* again, stacks frames without end; these runs stop at MaxFrames of them.
MaxFrames == 3
FewFrames == Len(main) <= MaxFrames
=============================================================================
