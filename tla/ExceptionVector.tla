--------------------------- MODULE ExceptionVector ---------------------------
(***************************************************************************)
(* The exception state of the emulated core: exception_vector and the      *)
(* registers it keeps its flags in (the NVIC words, ICSR, SHPR2, SHPR3).   *)
(* An exception is its architectural number.  Each one has an active, a    *)
(* pending and an enable flag and a priority; the sets below hold the      *)
(* numbers whose flag is set, wherever the code stores the bit.            *)
(*                                                                         *)
(* RESET (number 1) is left out: nothing in the emulator makes it pending  *)
(* or active.  Reserved numbers are never pending either.                  *)
(***************************************************************************)
EXTENDS Integers

CONSTANT ExternalInterrupts   \* the EXTI numbers of this instance

ASSUME ExternalAssumption == ExternalInterrupts \subseteq 16..31

NoException == 0              \* exception::INVALID, and a null top_pending()
NMI         == 2
HARDFAULT   == 3
SVCALL      == 11
PENDSV      == 14
SYSTICK     == 15

InternalExceptions == {NMI, HARDFAULT, SVCALL, PENDSV, SYSTICK}
Exceptions         == InternalExceptions \cup ExternalInterrupts
Configurable       == Exceptions \ {NMI, HARDFAULT}

NMI_PRIORITY         == -2
HARDFAULT_PRIORITY   == -1
THREAD_MODE_PRIORITY == 4
PriorityLevels       == 0..3  \* two priority bits per configurable exception

VARIABLES
  active,     \* exceptions whose handler has been entered and not left
  pending,    \* exceptions waiting to be taken
  enabled,    \* external interrupts enabled in the NVIC
  prio        \* priority of each configurable exception

vectorVars == <<active, pending, enabled, prio>>

VectorTypeOK ==
  /\ active  \subseteq Exceptions
  /\ pending \subseteq Exceptions
  /\ enabled \subseteq ExternalInterrupts
  /\ prio \in [Configurable -> PriorityLevels]

NoPriority == [e \in Configurable |-> 0]

VectorInit == active = {} /\ pending = {} /\ enabled = {} /\ prio = NoPriority

\* mcu::reset: SHPR2, SHPR3 and the NVIC are zeroed, then every flag is cleared.
VectorReset == active' = {} /\ pending' = {} /\ enabled' = {} /\ prio' = NoPriority

-----------------------------------------------------------------------------
(* What the engine computes from the flags *)

Priority(e) ==
  CASE e = NMI       -> NMI_PRIORITY
    [] e = HARDFAULT -> HARDFAULT_PRIORITY
    [] OTHER         -> prio[e]

IsEnabled(e) == e \in InternalExceptions \cup enabled

Candidates == {e \in pending : IsEnabled(e)}

\* Mutant: the largest priority value wins.
PrecedesReversed(e, f) ==
  \/ Priority(e) > Priority(f)
  \/ Priority(e) = Priority(f) /\ e < f

\* e comes before f: a lower priority value, the lower number on a tie.
Precedes(e, f) ==
  \/ Priority(e) < Priority(f)
  \/ Priority(e) = Priority(f) /\ e < f

TopPending ==
  IF Candidates = {}
  THEN NoException
  ELSE CHOOSE e \in Candidates : \A f \in Candidates \ {e} : Precedes(e, f)

\* Mutant: the scan stops before the external interrupts.
ScannedInternal == active \cap (InternalExceptions \ {NMI})

\* The exceptions whose active flag the unrolled scan looks at.
ScannedActive == active \ {NMI}

CurrentExecutionPriority(pm) ==
  IF pm
  THEN 0
  ELSE LET levels == {THREAD_MODE_PRIORITY} \cup {Priority(e) : e \in ScannedActive}
       IN  CHOOSE p \in levels : \A q \in levels : p <= q

=============================================================================
