-------------------------------- MODULE SysTick --------------------------------
(***************************************************************************)
(* systick: a counter that a step of the machine decrements, and that is    *)
(* loaded again from the reload register one step after it reaches zero.    *)
(*                                                                         *)
(* What software only reads back is left out: COUNTFLAG, SYST_CALIB, and    *)
(* the TICKINT and CLKSOURCE bits, which step never looks at.               *)
(***************************************************************************)
EXTENDS Naturals

CONSTANT MaxReload     \* largest value of SYST_RVR; 2^24 - 1 in the code

ASSUME SysTickAssumption == MaxReload \in Nat

VARIABLES
  ticking,      \* the enable bit of SYST_CSR
  current,      \* SYST_CVR
  reload,       \* SYST_RVR
  latched,      \* history: the reload value that is counted down
  since         \* history: steps counted since the last tick or write of SYST_CVR

sysTickVars == <<ticking, current, reload, latched, since>>

SysTickTypeOK ==
  /\ ticking \in BOOLEAN
  /\ current \in 0..MaxReload /\ reload \in 0..MaxReload /\ latched \in 0..MaxReload
  /\ since \in 0..MaxReload

SysTickInit ==
  /\ ticking = FALSE /\ current = 0 /\ reload = 0
  /\ latched = 0 /\ since = 0

SysTickReset ==
  /\ ticking' = FALSE /\ current' = 0 /\ reload' = 0
  /\ latched' = 0 /\ since' = 0

\* This step takes the counter from one to zero.
Ticks == ticking /\ current = 1

SysTickStep ==
  \/ ~ticking /\ UNCHANGED sysTickVars
  \/ /\ ticking /\ current = 0
     /\ current' = reload /\ latched' = reload
     /\ ticking' = (reload # 0)
     /\ since' = IF reload = 0 THEN 0 ELSE since + 1
     /\ UNCHANGED reload
  \/ /\ ticking /\ current # 0
     /\ current' = current - 1
     /\ since' = IF Ticks THEN 0 ELSE since + 1
     /\ UNCHANGED <<ticking, reload, latched>>

WriteSysTickControl(enable) ==
  /\ ticking' = enable
  /\ UNCHANGED <<current, reload, latched, since>>

WriteReload(value) == reload' = value /\ UNCHANGED <<ticking, current, latched, since>>

\* Any value written clears the counter.
WriteCurrent == current' = 0 /\ since' = 0 /\ UNCHANGED <<ticking, reload, latched>>
=============================================================================
