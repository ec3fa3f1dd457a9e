----------------------------- MODULE CpuInvariant -----------------------------
(***************************************************************************)
(* The inductive invariant behind the safety theorems of Cpu.  It holds    *)
(* under WellBehaved: NMI is never raised, and the HardFault handler is    *)
(* sound (it does not fault and its vector is odd).  Without the first the *)
(* run cpu_nmi_priority shows what goes wrong; without the second a fault   *)
(* under PRIMASK enters the HardFault handler again.                        *)
(***************************************************************************)
EXTENDS Cpu

WellBehaved ==
  /\ NMI \notin Raisable
  /\ HARDFAULT \notin FaultIn \cup EvenVectors

Depth == Len(main)

\* The EXC_RETURN of the handler that runs on top of frame k of the main stack.
LrAbove(k) == IF k = Depth THEN lr ELSE main[k + 1].lr

\* In thread mode no frame of the running task is left on either stack.
ThreadShape ==
  mode = "thread" =>
    /\ ipsr = 0 /\ lr = NotExcReturn
    /\ main = <<>> /\ process[task] = NoFrame

\* Only the oldest frame of the main stack can be a thread's.
FramesNest ==
  /\ \A k \in DOMAIN main : k # 1 => main[k].ipsr # 0
  /\ \A k \in DOMAIN main :
        LrAbove(k) = IF main[k].ipsr = 0 THEN ToThreadMain ELSE ToHandler

\* The interrupted thread is at the bottom of the main stack or on its own.
ThreadFrame ==
  mode = "handler" =>
    /\ ipsr # 0 /\ ~spsel
    /\ IF main # <<>> /\ main[1].ipsr = 0
       THEN main[1].lr = NotExcReturn /\ process[task] = NoFrame
       ELSE /\ process[task] # NoFrame
            /\ (IF main = <<>> THEN lr ELSE main[1].lr) = ToThreadProcess

ProcessFrames ==
  \A t \in Tasks : process[t] # NoFrame =>
    process[t].ipsr = 0 /\ process[t].lr = NotExcReturn

\* Nothing interrupts the HardFault handler, and it never pends its own fault.
HardFaultAlone ==
  /\ HARDFAULT \in active => ipsr = HARDFAULT /\ thumb /\ HARDFAULT \notin pending
  /\ NMI \notin active \cup pending

IInv ==
  /\ TypeOK
  /\ stage # "lost"
  /\ ThreadShape /\ FramesNest /\ ThreadFrame /\ ProcessFrames
  /\ HardFaultAlone
  /\ ActiveMatchesFrames
=============================================================================
