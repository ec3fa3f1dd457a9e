---------------------------------- MODULE Mcu ----------------------------------
(***************************************************************************)
(* mcu::step: the timer, the USART and the cpu take their steps one after   *)
(* the other, then the signals are looked at.  Another thread of the host   *)
(* sends bytes at any time.                                                *)
(*                                                                         *)
(* Of the cpu, which module Cpu has, a step is here one access of the       *)
(* program to a register of a peripheral, an exception that is taken, or    *)
(* something that concerns neither.                                        *)
(***************************************************************************)
EXTENDS SysTick, Usart

VARIABLES
  pending,      \* the exceptions of the two peripherals that are pending
  signals,      \* control signals that are set
  stage,        \* where step is
  seen          \* history: causes that were due when the USART's interrupt was last taken

vars == <<sysTickVars, usartVars, pending, signals, stage, seen>>

SYSTICK == "SYSTICK"
EXTI_00 == "EXTI_00"
Exceptions == {SYSTICK, EXTI_00}

TypeOK ==
  /\ SysTickTypeOK /\ UsartTypeOK
  /\ pending \subseteq Exceptions
  /\ signals \subseteq {"halt", "reset"}
  /\ stage \in {"devices", "cpu", "signals"}
  /\ seen \subseteq {"rx", "tx"}

Init ==
  /\ SysTickInit /\ UsartInit
  /\ pending = {} /\ signals = {} /\ stage = "devices" /\ seen = {}

\* The interrupt leaves the pending ones when it is taken, cleared or reset.
Pends(set) ==
  /\ pending' = set
  /\ seen' = IF EXTI_00 \in pending \ set THEN Due' ELSE seen \cap Due'

-----------------------------------------------------------------------------

\* Mutant: the timer is forgotten while the USART raises its interrupt.
DevicesRaisingOne ==
  /\ stage = "devices" /\ stage' = "cpu"
  /\ SysTickStep /\ UsartStep
  /\ Pends(pending \cup IF Raises THEN {EXTI_00} ELSE IF Ticks THEN {SYSTICK} ELSE {})
  /\ UNCHANGED signals

\* _systick.step and _usart_controller.step.
Devices ==
  /\ stage = "devices" /\ stage' = "cpu"
  /\ SysTickStep /\ UsartStep
  /\ Pends(pending \cup (IF Ticks THEN {SYSTICK} ELSE {})
                   \cup (IF Raises THEN {EXTI_00} ELSE {}))
  /\ UNCHANGED signals

CpuStep == stage = "cpu" /\ stage' = "signals"

AccessUsart ==
  /\ CpuStep /\ ProgramAccess
  /\ UNCHANGED <<sysTickVars, signals>> /\ Pends(pending)

AccessSysTick ==
  /\ CpuStep
  /\ \/ \E enable \in BOOLEAN : WriteSysTickControl(enable)
     \/ \E value \in 0..MaxReload : WriteReload(value)
     \/ WriteCurrent
  /\ UNCHANGED <<usartVars, signals>> /\ Pends(pending)

\* ISPR, ICPR and ICSR set and clear pending exceptions, AIRCR clears all; taking
\* one clears it.
AccessPending ==
  /\ CpuStep
  /\ UNCHANGED <<sysTickVars, usartVars, signals>>
  /\ \E set \in SUBSET Exceptions : Pends(set)

\* BKPT halts, and AIRCR requests a reset.
Signal ==
  /\ CpuStep
  /\ \E s \in {"halt", "reset"} : signals' = signals \cup {s}
  /\ UNCHANGED <<sysTickVars, usartVars>> /\ Pends(pending)

ComputeOnly ==
  /\ CpuStep
  /\ UNCHANGED <<sysTickVars, usartVars, signals>> /\ Pends(pending)

\* The reset signal stays set, so a reset follows every step from then on.
Reset ==
  /\ SysTickReset /\ UsartReset /\ Pends({})
  /\ signals' = signals \ {"halt"}

\* The host may call step again after a halt.
LookAtSignals ==
  /\ stage = "signals" /\ stage' = "devices"
  /\ IF "reset" \in signals /\ "halt" \notin signals
     THEN Reset
     ELSE UNCHANGED <<sysTickVars, usartVars, pending, signals, seen>>

HostReset == stage = "devices" /\ Reset /\ UNCHANGED stage

Host ==
  /\ HostSend \/ HostShutdown
  /\ UNCHANGED <<sysTickVars, signals, stage>> /\ Pends(pending)

Next ==
  \/ Devices
  \/ AccessUsart \/ AccessSysTick \/ AccessPending \/ Signal \/ ComputeOnly
  \/ LookAtSignals
  \/ Host \/ HostReset

Spec == Init /\ [][Next]_vars

-----------------------------------------------------------------------------
(* Properties *)

(***************************************************************************)
(* No interrupt of the USART is lost, although both directions share one    *)
(* event flag: when an instruction runs, every cause that is due has its    *)
(* interrupt pending, or was due already when that was last taken.          *)
(***************************************************************************)
NoInterruptIsLost == stage = "cpu" => EXTI_00 \in pending \/ Due \subseteq seen

\* The inductive form: a disabled USART keeps its event for when it is enabled.
EventInv ==
  /\ enabled \in BOOLEAN /\ event \in BOOLEAN
  /\ ~enabled => event
  /\ event \/ EXTI_00 \in pending \/ Due \subseteq seen
  /\ NoInterruptIsLost

(***************************************************************************)
(* The program reads the bytes of the host in order and each once, and no   *)
(* unread byte disappears: it is in the channel or the RX register, unless  *)
(* a full channel, ICR or a reset gave it up.                               *)
(***************************************************************************)
ReceptionIsOrderly ==
  /\ \A i, j \in 1..Len(taken) : i < j => taken[i] < taken[j]
  /\ \A n \in 1..received :
       n \in givenUp \cup Unread \/ Contains(taken, n) \/ Contains(rxBuffer, n)

(***************************************************************************)
(* A program need not wait for TXE: what it writes to the enabled USART is  *)
(* transmitted by the time the next instruction runs, unless that disabled  *)
(* or reset it.  Nothing is transmitted twice or out of order, unless ICR   *)
(* asks for it.                                                            *)
(***************************************************************************)
TransmissionIsExact ==
  /\ stage = "cpu" /\ ~closed => \A n \in owed : Contains(transmitted, n)
  /\ \A i, j \in 1..Len(transmitted) :
       i < j => transmitted[i] < transmitted[j] \/ transmitted[j] \in repeated

\* The inductive form of the next property.
TickInv ==
  /\ current \in Nat /\ reload \in Nat /\ latched \in Nat /\ since \in Nat
  /\ IF current = 0 THEN since = 0 ELSE since + current = latched + 1

(***************************************************************************)
(* The timer is regular: a tick makes SysTick pending, and comes one step   *)
(* more than the reload value after the one before, or after SYST_CVR was   *)
(* written, steps in which the timer is disabled not counted.               *)
(***************************************************************************)
TicksAreRegular ==
  [][stage = "devices" /\ stage' = "cpu" /\ current > 0 /\ current' = 0
       => since = latched /\ SYSTICK \in pending']_vars
=============================================================================
