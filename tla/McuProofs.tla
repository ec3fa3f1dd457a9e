------------------------------- MODULE McuProofs -------------------------------
(***************************************************************************)
(* What holds of the peripherals for every channel, reload value and        *)
(* number of bytes.                                                        *)
(***************************************************************************)
EXTENDS Mcu, SequenceTheorems, TLAPS

-----------------------------------------------------------------------------
(* The timer *)

LEMMA TickInit == Init => TickInv
BY DEF Init, SysTickInit, TickInv

LEMMA TickStep == TickInv /\ [Next]_vars => TickInv'
<1> SUFFICES ASSUME TickInv, [Next]_vars PROVE TickInv'
  OBVIOUS
<1> USE DEF TickInv
<1>1. CASE UNCHANGED sysTickVars
  BY <1>1 DEF sysTickVars
<1>2. CASE SysTickStep
  BY <1>2 DEF SysTickStep, Ticks, sysTickVars
<1>3. CASE SysTickReset
  BY <1>3 DEF SysTickReset
<1>4. CASE AccessSysTick
  BY <1>4, SysTickAssumption DEF AccessSysTick, WriteSysTickControl, WriteReload, WriteCurrent
<1>5. QED
  BY <1>1, <1>2, <1>3, <1>4
  DEF Next, vars, Devices, AccessUsart, AccessPending, Signal, ComputeOnly,
      LookAtSignals, Reset, Host, HostReset

\* The timer ticks one step more than the reload value after it ticked or was
\* cleared before, and its exception is pending then (systick::step).
THEOREM TimerIsRegular == Spec => TicksAreRegular
<1>1. TickInv /\ [Next]_vars =>
        [stage = "devices" /\ stage' = "cpu" /\ current > 0 /\ current' = 0
           => since = latched /\ SYSTICK \in pending']_vars
  <2> SUFFICES ASSUME TickInv, Next,
                      stage = "devices", stage' = "cpu", current > 0, current' = 0
               PROVE  since = latched /\ SYSTICK \in pending'
    OBVIOUS
  <2>1. Devices
    BY DEF Next, AccessUsart, AccessSysTick, AccessPending, Signal, ComputeOnly, CpuStep,
           LookAtSignals, Host, HostReset
  <2>2. current = 1 /\ ticking
    BY <2>1 DEF Devices, SysTickStep, sysTickVars, TickInv
  <2>3. since = latched
    BY <2>2 DEF TickInv
  <2>4. SYSTICK \in pending'
    BY <2>1, <2>2 DEF Devices, Pends, Ticks
  <2> QED
    BY <2>3, <2>4
<1> QED
  BY <1>1, TickInit, TickStep, PTL DEF Spec, TicksAreRegular

-----------------------------------------------------------------------------
(* The interrupt of the USART *)

LEMMA EventInit == Init => EventInv
BY DEF Init, UsartInit, EventInv, NoInterruptIsLost, Due

\* What is due shrinks or an event is noted, and what pends stays: enough for
\* every step of the program and the host that is not a disabling.
LEMMA QuietStep ==
  ASSUME EventInv, Pends(pending), enabled' \in BOOLEAN, event' \in BOOLEAN,
         ~enabled' => event', event => event',
         event' \/ Due' \subseteq Due,
         stage' = "cpu" => Due' \subseteq Due /\ stage = "cpu"
  PROVE  EventInv'
<1>1. seen' = seen \cap Due' /\ pending' = pending
  BY DEF Pends
<1>2. NoInterruptIsLost'
  BY <1>1 DEF EventInv, NoInterruptIsLost
<1>3. event' \/ EXTI_00 \in pending' \/ Due' \subseteq seen'
  BY <1>1 DEF EventInv
<1> QED
  BY <1>2, <1>3 DEF EventInv

LEMMA DevicesKeepEvent == EventInv /\ Devices => EventInv'
<1> SUFFICES ASSUME EventInv, Devices PROVE EventInv'
  OBVIOUS
<1>1. EXTI_00 \in pending => EXTI_00 \in pending'
  BY DEF Devices, Pends
<1>2. seen' = seen \cap Due'
  BY DEF Devices, Pends, EXTI_00, SYSTICK
<1>3. CASE ~enabled
  <2>1. enabled' = enabled /\ event' = event /\ Due' = {}
    BY <1>3 DEF Devices, UsartStep, usartVars, registers, Due
  <2> QED
    BY <1>3, <2>1 DEF EventInv, NoInterruptIsLost
<1>4. CASE enabled /\ Raises
  <2>1. EXTI_00 \in pending'
    BY <1>4 DEF Devices, Pends
  <2>2. enabled' = TRUE /\ event' = FALSE
    BY <1>4 DEF Devices, UsartStep, EventInv
  <2> QED
    BY <2>1, <2>2 DEF EventInv, NoInterruptIsLost
<1>5. CASE enabled /\ ~Raises
  <2>1. /\ enabled' = enabled /\ rxIe' = rxIe /\ txIe' = txIe
        /\ event' = EventThen
        /\ rxNotEmpty' = RxNotEmptyThen /\ txEmpty' = TxEmptyThen
    BY <1>5 DEF Devices, UsartStep, EventThen, EventInv
  <2>2. CASE EventThen
    <3>1. Due' = {}
      BY <1>5, <2>1, <2>2 DEF Due, Raises
    <3> QED
      BY <1>5, <2>1, <2>2, <3>1 DEF EventInv, NoInterruptIsLost
  <2>3. CASE ~EventThen
    <3>1. Due' = Due
      BY <2>1, <2>3 DEF Due, EventThen, RxNotEmptyThen, TxEmptyThen
    <3>2. EXTI_00 \in pending \/ Due \subseteq seen
      BY <2>3 DEF EventInv, EventThen
    <3>3. EXTI_00 \in pending' \/ Due' \subseteq seen'
      BY <1>1, <1>2, <3>1, <3>2
    <3>4. enabled' = TRUE /\ event' = FALSE
      BY <1>5, <2>1, <2>3 DEF EventInv, EventThen
    <3> QED
      BY <3>3, <3>4 DEF EventInv, NoInterruptIsLost
  <2> QED
    BY <2>2, <2>3
<1> QED
  BY <1>3, <1>4, <1>5

LEMMA ResetKeepsEvent == Reset /\ stage' = "devices" => EventInv'
BY DEF Reset, UsartReset, Resets, EventInv, NoInterruptIsLost

LEMMA EventStep == EventInv /\ [Next]_vars => EventInv'
<1> SUFFICES ASSUME EventInv, [Next]_vars PROVE EventInv'
  OBVIOUS
<1>1. CASE Devices
  BY <1>1, DevicesKeepEvent
<1>2. CASE AccessUsart
  <2> USE <1>2 DEF AccessUsart, CpuStep
  <2>1. CASE \E e, r, t \in BOOLEAN : WriteCr1(e, r, t)
    <3>1. PICK e, r, t \in BOOLEAN : WriteCr1(e, r, t)
      BY <2>1
    <3>2. CASE enabled /\ ~e
      BY <3>1, <3>2, QuietStep DEF WriteCr1, Resets, EventInv
    <3>3. CASE ~(enabled /\ ~e)
      <4>1. /\ enabled' = e /\ rxIe' = r /\ txIe' = t
            /\ rxNotEmpty' = rxNotEmpty /\ txEmpty' = txEmpty
            /\ event' = (event \/ (t /\ ~txIe) \/ (r /\ ~rxIe))
        BY <3>1, <3>3 DEF WriteCr1
      <4>2. event' \in BOOLEAN /\ (event => event') /\ (~enabled' => event')
        BY <4>1, <3>3 DEF EventInv
      <4>3. event' \/ Due' \subseteq Due
        BY <4>1, <3>3 DEF Due, EventInv
      <4> QED
        BY <4>1, <4>2, <4>3, QuietStep
    <3> QED
      BY <3>2, <3>3
  <2>2. CASE \E r, t \in BOOLEAN : WriteIcr(r, t)
    <3>0. PICK r, t \in BOOLEAN : WriteIcr(r, t)
      BY <2>2
    <3>1. /\ enabled' = enabled /\ event' = event /\ rxIe' = rxIe /\ txIe' = txIe
          /\ (rxNotEmpty' => rxNotEmpty) /\ (txEmpty' => txEmpty)
      BY <3>0 DEF WriteIcr
    <3>2. Due' \subseteq Due
      BY <3>1 DEF Due
    <3> QED
      BY <3>1, <3>2, QuietStep DEF EventInv
  <2>3. CASE ReadRx
    <3>1. enabled' = enabled /\ event' = event /\ Due' \subseteq Due
      BY <2>3 DEF ReadRx, Due
    <3> QED
      BY <3>1, QuietStep DEF EventInv
  <2>4. CASE WriteTx
    <3>1. enabled' = enabled /\ event' = event /\ Due' \subseteq Due
      BY <2>4 DEF WriteTx, Due
    <3> QED
      BY <3>1, QuietStep DEF EventInv
  <2> QED
    BY <2>1, <2>2, <2>3, <2>4 DEF ProgramAccess
<1>3. CASE AccessSysTick \/ Signal \/ ComputeOnly \/ Host
  <2>1. /\ enabled' = enabled /\ event' = event /\ Due' = Due
        /\ stage' = "cpu" => stage = "cpu"
        /\ Pends(pending)
    BY <1>3 DEF AccessSysTick, Signal, ComputeOnly, Host, HostSend, HostShutdown, CpuStep,
                usartVars, registers, Due
  <2> QED
    BY <2>1, QuietStep DEF EventInv
<1>4. CASE AccessPending
  <2>1. PICK set \in SUBSET Exceptions : Pends(set)
    BY <1>4 DEF AccessPending
  <2>2. enabled' = enabled /\ event' = event /\ Due' = Due /\ stage' = "signals"
    BY <1>4 DEF AccessPending, CpuStep, usartVars, registers, Due
  <2>3. EXTI_00 \in pending' \/ Due' \subseteq seen' \/ event'
    BY <2>1, <2>2 DEF Pends, EventInv
  <2> QED
    BY <2>2, <2>3 DEF EventInv, NoInterruptIsLost
<1>5. CASE LookAtSignals
  <2>1. CASE Reset
    BY <1>5, <2>1, ResetKeepsEvent DEF LookAtSignals
  <2>2. CASE UNCHANGED <<sysTickVars, usartVars, pending, signals, seen>>
    BY <1>5, <2>2 DEF LookAtSignals, EventInv, NoInterruptIsLost, usartVars, registers, Due
  <2> QED
    BY <1>5, <2>1, <2>2 DEF LookAtSignals
<1>6. CASE HostReset
  BY <1>6, ResetKeepsEvent DEF HostReset
<1>7. CASE UNCHANGED vars
  BY <1>7 DEF vars, EventInv, NoInterruptIsLost, usartVars, registers, Due
<1> QED
  BY <1>1, <1>2, <1>3, <1>4, <1>5, <1>6, <1>7 DEF Next

\* Every cause of an interrupt that is due when an instruction runs has its
\* interrupt pending, or was there when it was last taken (usart_controller::step
\* and the registers that set the event flag).
THEOREM InterruptsAreRaised == Spec => []NoInterruptIsLost
<1>1. EventInv => NoInterruptIsLost
  BY DEF EventInv
<1> QED
  BY <1>1, EventInit, EventStep, PTL DEF Spec

-----------------------------------------------------------------------------
(* What the program receives *)

Increasing(s) == \A i, j \in 1..Len(s) : i < j => s[i] < s[j]

\* What is in a sequence before its last element was added, or its first
\* removed, is still there.
LEMMA ContainsAppend ==
  ASSUME NEW s \in Seq(Nat), NEW e \in Nat, NEW x
  PROVE  Contains(Append(s, e), x) <=> Contains(s, x) \/ x = e
BY DEF Contains

LEMMA ContainsTail ==
  ASSUME NEW s \in Seq(Nat), s # <<>>, NEW x
  PROVE  Contains(s, x) <=> x = Head(s) \/ Contains(Tail(s), x)
<1>1. ASSUME Contains(s, x), x # Head(s) PROVE Contains(Tail(s), x)
  <2>1. PICK i \in 1..Len(s) : s[i] = x BY <1>1 DEF Contains
  <2>2. i - 1 \in 1..Len(Tail(s)) /\ Tail(s)[i - 1] = x BY <1>1, <2>1
  <2> QED BY <2>2 DEF Contains
<1>2. ASSUME Contains(Tail(s), x) PROVE Contains(s, x)
  <2>1. PICK i \in 1..Len(Tail(s)) : Tail(s)[i] = x BY <1>2 DEF Contains
  <2>2. i + 1 \in 1..Len(s) /\ s[i + 1] = x BY <2>1
  <2> QED BY <2>2 DEF Contains
<1>3. Contains(s, Head(s)) BY DEF Contains
<1> QED BY <1>1, <1>2, <1>3

\* The numbers of the received bytes, wherever they are.
RxNumbers ==
  /\ received \in 0..MaxReceived /\ rx \in 0..received /\ rxNotEmpty \in BOOLEAN
  /\ rxBuffer \in Seq(Nat) /\ taken \in Seq(Nat) /\ Len(rxBuffer) <= RxSize
  /\ \A i \in 1..Len(rxBuffer) : rxBuffer[i] \in 1..received
  /\ \A i \in 1..Len(taken) : taken[i] \in 1..received
  /\ givenUp \subseteq 1..received

\* What was taken comes before the unread byte, and that before the channel.
RxOrder ==
  /\ Increasing(taken) /\ Increasing(rxBuffer)
  /\ \A i \in 1..Len(taken), j \in 1..Len(rxBuffer) : taken[i] < rxBuffer[j]
  /\ rxNotEmpty =>
       /\ rx >= 1
       /\ \A i \in 1..Len(taken) : taken[i] < rx
       /\ \A j \in 1..Len(rxBuffer) : rx < rxBuffer[j]

NoneDisappears ==
  \A n \in 1..received :
     n \in givenUp \cup Unread \/ Contains(taken, n) \/ Contains(rxBuffer, n)

RxInv == RxNumbers /\ RxOrder /\ NoneDisappears

LEMMA RxInit == Init => RxInv
<1> SUFFICES ASSUME Init PROVE RxInv
  OBVIOUS
<1>1. /\ received = 0 /\ rx = 0 /\ rxNotEmpty = FALSE /\ givenUp = {}
      /\ rxBuffer = <<>> /\ taken = <<>>
  BY DEF Init, UsartInit
<1>2. rxBuffer \in Seq(Nat) /\ taken \in Seq(Nat) /\ Len(rxBuffer) = 0 /\ Len(taken) = 0
  BY <1>1
<1>3. RxNumbers
  <2>1. received \in 0..MaxReceived /\ rx \in 0..received /\ Len(rxBuffer) <= RxSize
    BY <1>1, <1>2, UsartAssumption
  <2>2. /\ \A i \in 1..Len(rxBuffer) : rxBuffer[i] \in 1..received
        /\ \A i \in 1..Len(taken) : taken[i] \in 1..received
    BY <1>2
  <2>3. rxNotEmpty \in BOOLEAN /\ givenUp \subseteq 1..received
    BY <1>1
  <2> QED BY <1>2, <2>1, <2>2, <2>3 DEF RxNumbers
<1>4. RxOrder
  BY <1>1, <1>2 DEF RxOrder, Increasing
<1>5. NoneDisappears
  BY <1>1 DEF NoneDisappears
<1> QED
  BY <1>3, <1>4, <1>5 DEF RxInv

\* Neither the channel nor what was taken changes: the RX register keeps its
\* byte, or that is given up.
LEMMA DiscardKeepsRx ==
  ASSUME RxInv, UNCHANGED <<rx, rxBuffer, received, taken>>, rxNotEmpty' \in BOOLEAN,
         rxNotEmpty' => rxNotEmpty,
         givenUp' = givenUp \/ givenUp' = givenUp \cup Unread,
         rxNotEmpty /\ ~rxNotEmpty' => givenUp' = givenUp \cup Unread
  PROVE  RxInv'
<1>1. Unread \subseteq 1..received
  BY DEF RxInv, RxNumbers, RxOrder, Unread
<1>2. RxNumbers'
  BY <1>1 DEF RxInv, RxNumbers
<1>3. RxOrder'
  BY DEF RxInv, RxOrder, Increasing
<1>4. givenUp \cup Unread \subseteq givenUp' \cup Unread'
  BY DEF Unread, RxInv, RxNumbers
<1>5. NoneDisappears'
  BY <1>4 DEF RxInv, NoneDisappears
<1> QED BY <1>2, <1>3, <1>5 DEF RxInv

LEMMA HostSendKeepsRx == RxInv /\ HostSend => RxInv'
<1> SUFFICES ASSUME RxInv, HostSend PROVE RxInv'
  OBVIOUS
<1>0. UNCHANGED <<rx, rxNotEmpty, taken>>
  BY DEF HostSend, registers
<1>1. received' = received + 1 /\ received \in 0..MaxReceived /\ received + 1 \in 1..MaxReceived
      /\ UNCHANGED <<rx, rxNotEmpty, taken>> /\ Unread' = Unread
  BY <1>0, UsartAssumption DEF HostSend, RxInv, RxNumbers, Unread
<1> DEFINE kept == IF Len(rxBuffer) = RxSize THEN Tail(rxBuffer) ELSE rxBuffer
<1>2. rxBuffer' = Append(kept, received + 1) /\ received + 1 \in Nat
  BY <1>1 DEF HostSend
<1>3. /\ kept \in Seq(Nat) /\ Len(kept) < RxSize
      /\ \A j \in 1..Len(kept) : \E i \in 1..Len(rxBuffer) : kept[j] = rxBuffer[i]
      /\ \A i, j \in 1..Len(kept) : i < j => kept[i] < kept[j]
      /\ givenUp \subseteq givenUp' /\ givenUp' \subseteq 1..received
      /\ \A n : Contains(rxBuffer, n) => Contains(kept, n) \/ n \in givenUp'
  <2>1. CASE Len(rxBuffer) = RxSize
    <3>1. rxBuffer # <<>> /\ rxBuffer \in Seq(Nat) /\ kept = Tail(rxBuffer)
      BY <2>1, UsartAssumption DEF RxInv, RxNumbers
    <3>2. kept \in Seq(Nat) /\ Len(kept) = Len(rxBuffer) - 1 /\ Len(rxBuffer) \in Nat
          /\ \A j \in 1..Len(kept) : kept[j] = rxBuffer[j + 1] /\ j + 1 \in 1..Len(rxBuffer)
      BY <3>1
    <3>3. givenUp' = givenUp \cup {Head(rxBuffer)} /\ Head(rxBuffer) = rxBuffer[1] /\ 1 \in 1..Len(rxBuffer)
      BY <2>1, <3>1 DEF HostSend
    <3>4. \A i, j \in 1..Len(kept) : i < j => kept[i] < kept[j]
      BY <3>2 DEF RxInv, RxOrder, Increasing
    <3>5. \A n : Contains(rxBuffer, n) => Contains(kept, n) \/ n \in givenUp'
      BY <3>1, <3>3, ContainsTail
    <3>6. givenUp \subseteq givenUp' /\ givenUp' \subseteq 1..received
      BY <3>1, <3>3 DEF RxInv, RxNumbers
    <3>7. Len(kept) < RxSize
      BY <2>1, <3>2, UsartAssumption
    <3> HIDE DEF kept
    <3> QED
      BY <3>2, <3>4, <3>5, <3>6, <3>7
  <2>2. CASE Len(rxBuffer) # RxSize
    <3>1. kept = rxBuffer /\ givenUp' = givenUp /\ rxBuffer \in Seq(Nat) /\ Len(rxBuffer) \in Nat
      BY <2>2 DEF HostSend, RxInv, RxNumbers
    <3> HIDE DEF kept
    <3>2. Len(kept) < RxSize
      BY <2>2, <3>1, UsartAssumption DEF RxInv, RxNumbers
    <3> QED
      BY <3>1, <3>2 DEF RxInv, RxNumbers, RxOrder, Increasing
  <2> QED BY <2>1, <2>2
<1> HIDE DEF kept
<1>4. /\ rxBuffer' \in Seq(Nat) /\ Len(rxBuffer') = Len(kept) + 1
      /\ rxBuffer'[Len(kept) + 1] = received + 1
      /\ \A j \in 1..Len(kept) : rxBuffer'[j] = kept[j]
  BY <1>2, <1>3
<1>4a. \A j \in 1..Len(rxBuffer') :
         \/ j = Len(kept) + 1 /\ rxBuffer'[j] = received + 1
         \/ j \in 1..Len(kept) /\ rxBuffer'[j] = kept[j]
  BY <1>3, <1>4
<1>4b. \A j \in 1..Len(kept) : kept[j] \in 1..received
  BY <1>3 DEF RxInv, RxNumbers
<1>4c. Len(kept) \in Nat
  BY <1>3
<1>5. RxNumbers'
  <2>1. \A i \in 1..Len(rxBuffer') : rxBuffer'[i] \in 1..received'
    BY <1>1, <1>4a, <1>4b
  <2>2. \A i \in 1..Len(taken) : taken[i] \in 1..received'
    BY <1>1 DEF RxInv, RxNumbers
  <2>3. Len(rxBuffer') <= RxSize
    BY <1>3, <1>4, <1>4c, UsartAssumption
  <2> QED
    BY <1>1, <1>3, <1>4, <2>1, <2>2, <2>3 DEF RxInv, RxNumbers
<1>6. RxOrder'
  <2>2. Increasing(rxBuffer)'
    <3> SUFFICES ASSUME NEW i \in 1..Len(rxBuffer'), NEW j \in 1..Len(rxBuffer'), i < j
                 PROVE  rxBuffer'[i] < rxBuffer'[j]
      BY DEF Increasing
    <3>1. i \in 1..Len(kept) /\ rxBuffer'[i] = kept[i]
      BY <1>4, <1>4a, <1>4c
    <3>2. CASE j \in 1..Len(kept)
      BY <1>3, <1>4, <3>1, <3>2
    <3>3. CASE j = Len(kept) + 1 /\ rxBuffer'[j] = received + 1
      BY <1>1, <1>4b, <3>1, <3>3
    <3> QED BY <1>4a, <3>2, <3>3
  <2>3. \A i \in 1..Len(taken), j \in 1..Len(rxBuffer') : taken[i] < rxBuffer'[j]
    <3> SUFFICES ASSUME NEW i \in 1..Len(taken), NEW j \in 1..Len(rxBuffer')
                 PROVE  taken[i] < rxBuffer'[j]
      OBVIOUS
    <3>1. CASE j \in 1..Len(kept) /\ rxBuffer'[j] = kept[j]
      BY <1>3, <3>1 DEF RxInv, RxOrder
    <3>2. CASE rxBuffer'[j] = received + 1
      BY <1>1, <3>2 DEF RxInv, RxNumbers
    <3> QED BY <1>4a, <3>1, <3>2
  <2>4. rxNotEmpty => \A j \in 1..Len(rxBuffer') : rx < rxBuffer'[j]
    <3> SUFFICES ASSUME rxNotEmpty, NEW j \in 1..Len(rxBuffer')
                 PROVE  rx < rxBuffer'[j]
      OBVIOUS
    <3>1. CASE j \in 1..Len(kept) /\ rxBuffer'[j] = kept[j]
      BY <1>3, <3>1 DEF RxInv, RxOrder
    <3>2. CASE rxBuffer'[j] = received + 1
      BY <1>1, <3>2 DEF RxInv, RxNumbers
    <3> QED BY <1>4a, <3>1, <3>2
  <2> QED
    BY <1>1, <2>2, <2>3, <2>4 DEF RxInv, RxOrder, Increasing
<1>7. NoneDisappears'
  <2>1. \A n : Contains(kept, n) \/ n = received + 1 <=> Contains(rxBuffer', n)
    BY <1>1, <1>2, <1>3, ContainsAppend
  <2> QED
    BY <1>1, <1>3, <2>1 DEF RxInv, RxNumbers, NoneDisappears
<1> QED BY <1>5, <1>6, <1>7 DEF RxInv

\* The next byte of the channel moves to the empty RX register.
LEMMA MoveInKeepsRx ==
  ASSUME RxInv, MovesIn, UNCHANGED <<received, taken, givenUp>>,
         rx' = Head(rxBuffer), rxBuffer' = Tail(rxBuffer), rxNotEmpty' = TRUE
  PROVE  RxInv'
<1>1. rxBuffer # <<>> /\ rxBuffer \in Seq(Nat) /\ ~rxNotEmpty
  BY DEF MovesIn, RxInv, RxNumbers
<1>2. /\ rxBuffer' \in Seq(Nat) /\ Len(rxBuffer') = Len(rxBuffer) - 1 /\ Len(rxBuffer) \in Nat
      /\ rx' = rxBuffer[1] /\ 1 \in 1..Len(rxBuffer)
      /\ \A j \in 1..Len(rxBuffer') : rxBuffer'[j] = rxBuffer[j + 1] /\ j + 1 \in 1..Len(rxBuffer)
  BY <1>1
<1>3. RxNumbers'
  BY <1>2, UsartAssumption DEF RxInv, RxNumbers
<1>4. RxOrder'
  <2>1. Increasing(rxBuffer)'
    BY <1>2 DEF RxInv, RxOrder, Increasing
  <2>2. \A j \in 1..Len(rxBuffer') : rx' < rxBuffer'[j]
    BY <1>2 DEF RxInv, RxOrder, Increasing
  <2>3. /\ \A i \in 1..Len(taken), j \in 1..Len(rxBuffer') : taken[i] < rxBuffer'[j]
        /\ \A i \in 1..Len(taken) : taken[i] < rx'
        /\ rx' >= 1
    BY <1>2 DEF RxInv, RxOrder, RxNumbers
  <2> QED
    BY <2>1, <2>2, <2>3 DEF RxInv, RxOrder, Increasing
<1>5. NoneDisappears'
  <2>1. \A n : Contains(rxBuffer, n) <=> n = rx' \/ Contains(rxBuffer', n)
    BY <1>1, ContainsTail
  <2> QED
    BY <1>1, <2>1 DEF RxInv, NoneDisappears, Unread
<1> QED BY <1>3, <1>4, <1>5 DEF RxInv

LEMMA ReadKeepsRx == RxInv /\ ReadRx => RxInv'
<1> SUFFICES ASSUME RxInv, ReadRx PROVE RxInv'
  OBVIOUS
<1>1. UNCHANGED <<rx, rxBuffer, received, givenUp>> /\ rxNotEmpty' = FALSE
  BY DEF ReadRx
<1>2. CASE rxNotEmpty
  <2>1. taken' = Append(taken, rx) /\ taken \in Seq(Nat) /\ rx \in Nat
    BY <1>2 DEF ReadRx, RxInv, RxNumbers
  <2>2. /\ taken' \in Seq(Nat) /\ Len(taken') = Len(taken) + 1 /\ taken'[Len(taken) + 1] = rx
        /\ \A i \in 1..Len(taken) : taken'[i] = taken[i]
    BY <2>1
  <2>2b. rx \in 1..received
    BY <1>2, UsartAssumption DEF RxInv, RxNumbers, RxOrder
  <2>2c. Len(taken) \in Nat
    BY <2>1
  <2>2a. ASSUME NEW i \in 1..Len(taken')
         PROVE  \/ i = Len(taken) + 1 /\ taken'[i] = rx
                \/ i \in 1..Len(taken) /\ taken'[i] = taken[i]
    <3>1. i = Len(taken) + 1 \/ i \in 1..Len(taken)
      BY <2>2, <2>2c
    <3> QED BY <2>2, <3>1
  <2>3. RxNumbers'
    <3>1. \A i \in 1..Len(taken') : taken'[i] \in 1..received'
      BY <1>1, <2>2a, <2>2b DEF RxInv, RxNumbers
    <3> QED
      BY <1>1, <2>2, <3>1 DEF RxInv, RxNumbers
  <2>4. RxOrder'
    <3>1. Increasing(taken)'
      <4> SUFFICES ASSUME NEW i \in 1..Len(taken'), NEW j \in 1..Len(taken'), i < j
                   PROVE  taken'[i] < taken'[j]
        BY DEF Increasing
      <4>1. i \in 1..Len(taken) /\ taken'[i] = taken[i]
        BY <2>2, <2>2a, <2>2c
      <4>2. CASE j \in 1..Len(taken)
        BY <2>2, <4>1, <4>2 DEF RxInv, RxOrder, Increasing
      <4>3. CASE taken'[j] = rx
        BY <1>2, <4>1, <4>3 DEF RxInv, RxOrder
      <4> QED BY <2>2a, <4>2, <4>3
    <3>2. \A i \in 1..Len(taken'), j \in 1..Len(rxBuffer) : taken'[i] < rxBuffer[j]
      BY <1>2, <2>2a DEF RxInv, RxOrder
    <3> QED
      BY <1>1, <3>1, <3>2 DEF RxInv, RxOrder, Increasing
  <2>5. \A n : Contains(taken', n) <=> Contains(taken, n) \/ n = rx
    BY <2>1, ContainsAppend
  <2>6. NoneDisappears'
    BY <1>1, <1>2, <2>5 DEF RxInv, NoneDisappears, Unread
  <2> QED BY <2>3, <2>4, <2>6 DEF RxInv
<1>3. CASE ~rxNotEmpty
  <2>1. UNCHANGED <<taken, rxNotEmpty>>
    BY <1>1, <1>3 DEF ReadRx, RxInv, RxNumbers
  <2> QED
    BY <1>1, <1>3, <2>1, DiscardKeepsRx
<1> QED BY <1>2, <1>3

LEMMA RxStep == RxInv /\ [Next]_vars => RxInv'
<1> SUFFICES ASSUME RxInv, [Next]_vars PROVE RxInv'
  OBVIOUS
<1>0. rxNotEmpty \in BOOLEAN
  BY DEF RxInv, RxNumbers
<1>1. CASE UNCHANGED usartVars
  BY <1>0, <1>1, DiscardKeepsRx DEF usartVars, registers, rxVars
<1>2. CASE UsartStep
  <2>1. CASE enabled /\ MovesIn
    <3>1. /\ rx' = Head(rxBuffer) /\ rxBuffer' = Tail(rxBuffer) /\ rxNotEmpty' = RxNotEmptyThen
          /\ UNCHANGED <<received, taken, givenUp>>
      BY <1>2, <2>1 DEF UsartStep
    <3>2. rxNotEmpty' = TRUE
      BY <2>1, <3>1 DEF RxNotEmptyThen
    <3> QED
      BY <2>1, <3>1, <3>2, MoveInKeepsRx
  <2>2. CASE ~(enabled /\ MovesIn)
    <3>1. rxNotEmpty' = rxNotEmpty /\ UNCHANGED <<rx, rxBuffer, received, taken, givenUp>>
      BY <1>0, <1>2, <2>2 DEF UsartStep, usartVars, registers, rxVars, RxNotEmptyThen
    <3> QED
      BY <1>0, <3>1, DiscardKeepsRx
  <2> QED BY <2>1, <2>2
<1>3. CASE UsartReset
  BY <1>3, DiscardKeepsRx DEF UsartReset, Resets
<1>4. CASE HostSend
  BY <1>4, HostSendKeepsRx
<1>5. CASE HostShutdown
  BY <1>0, <1>5, DiscardKeepsRx DEF HostShutdown, registers, rxVars
<1>6. CASE ProgramAccess
  <2>1. CASE \E e, r, t \in BOOLEAN : WriteCr1(e, r, t)
    BY <1>0, <2>1, DiscardKeepsRx DEF WriteCr1, Resets
  <2>2. CASE \E r, t \in BOOLEAN : WriteIcr(r, t)
    BY <1>0, <2>2, DiscardKeepsRx DEF WriteIcr
  <2>3. CASE WriteTx
    BY <1>0, <2>3, DiscardKeepsRx DEF WriteTx, rxVars
  <2> QED
    BY <1>6, <2>1, <2>2, <2>3, ReadKeepsRx DEF ProgramAccess
<1> QED
  BY <1>1, <1>2, <1>3, <1>4, <1>5, <1>6
  DEF Next, vars, Devices, AccessUsart, AccessSysTick, AccessPending, Signal, ComputeOnly,
      LookAtSignals, Reset, Host, HostReset

\* The program reads the bytes of the host in order and each once, and none
\* disappears without being given up.
THEOREM ReceptionCorrect == Spec => []ReceptionIsOrderly
<1>1. RxInv => ReceptionIsOrderly
  BY DEF RxInv, RxOrder, Increasing, NoneDisappears, ReceptionIsOrderly
<1> QED
  BY <1>1, RxInit, RxStep, PTL DEF Spec

-----------------------------------------------------------------------------
(* What the program transmits *)

\* The numbers of the written bytes, wherever they are; 0 is the reset value.
TxNumbers ==
  /\ written \in 0..MaxWritten /\ tx \in 0..written
  /\ txEmpty \in BOOLEAN /\ enabled \in BOOLEAN /\ closed \in BOOLEAN
  /\ transmitted \in Seq(Nat)
  /\ \A i \in 1..Len(transmitted) : transmitted[i] \in 0..written
  /\ owed \subseteq 1..written /\ repeated \subseteq 0..written

\* What waits in the TX register comes behind all that was transmitted.
TxOrder ==
  /\ \A i, j \in 1..Len(transmitted) :
       i < j => transmitted[i] < transmitted[j] \/ transmitted[j] \in repeated
  /\ ~txEmpty => \/ tx \in repeated
                 \/ \A i \in 1..Len(transmitted) : transmitted[i] < tx

\* A byte that is owed and was not transmitted waits in the TX register, but not
\* while an instruction runs: it cannot be overwritten.
NoneIsOwed ==
  /\ ~enabled => owed = {}
  /\ ~closed => \A n \in owed :
       Contains(transmitted, n) \/ (stage # "cpu" /\ ~txEmpty /\ tx = n)

TxInv == TxNumbers /\ TxOrder /\ NoneIsOwed

LEMMA TxInit == Init => TxInv
<1> SUFFICES ASSUME Init PROVE TxInv
  OBVIOUS
<1>1. /\ written = 0 /\ tx = 0 /\ txEmpty = TRUE /\ enabled = FALSE /\ closed = FALSE
      /\ transmitted = <<>> /\ owed = {} /\ repeated = {}
  BY DEF Init, UsartInit
<1>2. transmitted \in Seq(Nat) /\ Len(transmitted) = 0
  BY <1>1
<1>3. written \in 0..MaxWritten /\ tx \in 0..written
  BY <1>1, UsartAssumption
<1>3a. \A i \in 1..Len(transmitted) : transmitted[i] \in 0..written
  BY <1>2
<1>3b. txEmpty \in BOOLEAN /\ enabled \in BOOLEAN /\ closed \in BOOLEAN
  BY <1>1
<1>3c. owed \subseteq 1..written /\ repeated \subseteq 0..written
  BY <1>1
<1>4. TxNumbers
  BY <1>2, <1>3, <1>3a, <1>3b, <1>3c DEF TxNumbers
<1> QED
  BY <1>1, <1>2, <1>4 DEF TxInv, TxOrder, NoneIsOwed

\* Nothing is written or transmitted, and TX keeps its byte or is reset; the flag
\* of TX is cleared only for a byte that counts as repeated from then on.
LEMMA KeepsTx ==
  ASSUME TxInv, UNCHANGED <<written, transmitted>>,
         txEmpty' \in BOOLEAN, enabled' \in BOOLEAN, closed' \in BOOLEAN, closed => closed',
         repeated' = repeated \/ repeated' = repeated \cup {tx},
         tx' = tx \/ tx' = 0,
         owed' = {} \/ (owed' = owed /\ enabled' /\ stage = "cpu"),
         txEmpty' \/ tx' = tx, ~txEmpty' /\ txEmpty => tx \in repeated'
  PROVE  TxInv'
<1>1. TxNumbers'
  <2>1. tx \in 0..written /\ 0 \in 0..written
    BY UsartAssumption DEF TxInv, TxNumbers
  <2>2. tx' \in 0..written' /\ repeated' \subseteq 0..written' /\ owed' \subseteq 1..written'
    BY <2>1 DEF TxInv, TxNumbers
  <2> QED BY <2>2 DEF TxInv, TxNumbers
<1>2. TxOrder'
  BY DEF TxInv, TxNumbers, TxOrder
<1>3. NoneIsOwed'
  BY DEF TxInv, NoneIsOwed
<1> QED BY <1>1, <1>2, <1>3 DEF TxInv

\* A byte that waits is transmitted by a step of the enabled controller.
LEMMA DevicesKeepTx == TxInv /\ Devices => TxInv'
<1> SUFFICES ASSUME TxInv, Devices PROVE TxInv'
  OBVIOUS
<1>0. stage # "cpu"
  BY DEF Devices
<1>1. CASE ~enabled
  <2>1. UNCHANGED <<written, transmitted, txEmpty, enabled, closed, repeated, tx, owed>>
    BY <1>1 DEF Devices, UsartStep, usartVars, registers, txVars
  <2>2. owed = {}
    BY <1>1 DEF TxInv, NoneIsOwed
  <2> QED
    BY <2>1, <2>2 DEF TxInv, TxNumbers, TxOrder, NoneIsOwed
<1>2. CASE enabled
  <2>1. UNCHANGED <<written, enabled, closed, repeated, tx, owed>> /\ txEmpty' = TRUE
        /\ transmitted' = IF MovesOut /\ ~closed THEN Append(transmitted, tx) ELSE transmitted
    BY <1>2 DEF Devices, UsartStep, TxEmptyThen, MovesOut, TxInv, TxNumbers
  <2>2. CASE MovesOut /\ ~closed
    <3>1. transmitted \in Seq(Nat) /\ tx \in Nat /\ tx \in 0..written /\ ~txEmpty
      BY <2>2, UsartAssumption DEF TxInv, TxNumbers, MovesOut
    <3>2. /\ transmitted' \in Seq(Nat) /\ Len(transmitted') = Len(transmitted) + 1
          /\ transmitted'[Len(transmitted) + 1] = tx
          /\ \A i \in 1..Len(transmitted) : transmitted'[i] = transmitted[i]
      BY <2>1, <2>2, <3>1
    <3>3. Len(transmitted) \in Nat
      BY <3>1
    <3>4. ASSUME NEW i \in 1..Len(transmitted')
          PROVE  \/ i = Len(transmitted) + 1 /\ transmitted'[i] = tx
                 \/ i \in 1..Len(transmitted) /\ transmitted'[i] = transmitted[i]
      <4>1. i = Len(transmitted) + 1 \/ i \in 1..Len(transmitted)
        BY <3>2, <3>3
      <4> QED BY <3>2, <4>1
    <3>5. TxNumbers'
      <4>1. \A i \in 1..Len(transmitted') : transmitted'[i] \in 0..written'
        BY <2>1, <3>1, <3>4 DEF TxInv, TxNumbers
      <4> QED
        BY <2>1, <3>2, <4>1 DEF TxInv, TxNumbers
    <3>6. TxOrder'
      <4> SUFFICES ASSUME NEW i \in 1..Len(transmitted'), NEW j \in 1..Len(transmitted'), i < j
                   PROVE  transmitted'[i] < transmitted'[j] \/ transmitted'[j] \in repeated'
        BY <2>1 DEF TxOrder
      <4>1. i \in 1..Len(transmitted) /\ transmitted'[i] = transmitted[i]
        BY <3>2, <3>3, <3>4
      <4>2. CASE j \in 1..Len(transmitted)
        BY <2>1, <3>2, <4>1, <4>2 DEF TxInv, TxOrder
      <4>3. CASE transmitted'[j] = tx
        BY <2>1, <3>1, <4>1, <4>3 DEF TxInv, TxOrder
      <4> QED BY <3>4, <4>2, <4>3
    <3>7. NoneIsOwed'
      <4>1. \A n : Contains(transmitted', n) <=> Contains(transmitted, n) \/ n = tx
        BY <2>1, <2>2, <3>1, ContainsAppend
      <4> QED
        BY <1>2, <2>1, <2>2, <4>1 DEF TxInv, NoneIsOwed
    <3> QED BY <3>5, <3>6, <3>7 DEF TxInv
  <2>3. CASE ~(MovesOut /\ ~closed)
    <3>1. transmitted' = transmitted /\ (closed \/ txEmpty)
      BY <2>1, <2>3 DEF MovesOut
    <3> QED
      BY <1>2, <2>1, <3>1 DEF TxInv, TxNumbers, TxOrder, NoneIsOwed
  <2> QED BY <2>2, <2>3
<1> QED BY <1>1, <1>2 DEF TxInv, TxNumbers

LEMMA WriteKeepsTx ==
  ASSUME TxInv, stage = "cpu", stage' # "cpu", WriteTx
  PROVE  TxInv'
<1>1. /\ written' = written + 1 /\ tx' = written + 1 /\ txEmpty' = FALSE
      /\ UNCHANGED <<enabled, closed, transmitted, repeated>>
      /\ owed' = IF enabled THEN owed \cup {written + 1} ELSE owed
  BY DEF WriteTx
<1>2. written \in 0..MaxWritten /\ written' \in 0..MaxWritten /\ written' \in 1..written' /\ written' > written
      /\ 1..written \subseteq 1..written' /\ 0..written \subseteq 0..written'
  BY <1>1, UsartAssumption DEF WriteTx, TxInv, TxNumbers
<1>3. TxNumbers'
  <2>1. \A i \in 1..Len(transmitted') : transmitted'[i] \in 0..written'
    BY <1>1, <1>2 DEF TxInv, TxNumbers
  <2>2. owed' \subseteq 1..written' /\ repeated' \subseteq 0..written' /\ tx' \in 0..written'
    BY <1>1, <1>2 DEF TxInv, TxNumbers
  <2> QED BY <1>1, <1>2, <2>1, <2>2 DEF TxInv, TxNumbers
<1>4. TxOrder'
  <2>1. \A i \in 1..Len(transmitted) : transmitted[i] < tx'
    BY <1>1, <1>2 DEF TxInv, TxNumbers
  <2> QED BY <1>1, <2>1 DEF TxInv, TxOrder
<1>5. NoneIsOwed'
  BY <1>1 DEF TxInv, NoneIsOwed
<1> QED BY <1>3, <1>4, <1>5 DEF TxInv

LEMMA TxStep == TxInv /\ [Next]_vars => TxInv'
<1> SUFFICES ASSUME TxInv, [Next]_vars PROVE TxInv'
  OBVIOUS
<1>0. txEmpty \in BOOLEAN /\ enabled \in BOOLEAN /\ closed \in BOOLEAN /\ (~enabled => owed = {})
  BY DEF TxInv, TxNumbers, NoneIsOwed
<1>1. CASE Devices
  BY <1>1, DevicesKeepTx
<1>5. ASSUME UNCHANGED <<written, transmitted, txEmpty, enabled, repeated, tx, owed>>,
             closed' \in BOOLEAN, closed => closed', stage' = stage \/ stage' # "cpu"
      PROVE  TxInv'
  <2>1. TxNumbers' /\ TxOrder'
    BY <1>5 DEF TxInv, TxNumbers, TxOrder
  <2>2. NoneIsOwed'
    BY <1>5 DEF TxInv, NoneIsOwed
  <2> QED BY <2>1, <2>2 DEF TxInv
<1>2. CASE AccessUsart
  <2>0. stage = "cpu" /\ stage' # "cpu"
    BY <1>2 DEF AccessUsart, CpuStep
  <2>1. CASE \E e, r, t \in BOOLEAN : WriteCr1(e, r, t)
    <3>1. PICK e, r, t \in BOOLEAN : WriteCr1(e, r, t)
      BY <2>1
    <3>2. /\ UNCHANGED <<written, transmitted, closed, repeated>> /\ enabled' = e
      BY <3>1 DEF WriteCr1
    <3>3. CASE enabled /\ ~e
      <4>1. txEmpty' = TRUE /\ tx' = 0 /\ owed' = {}
        BY <3>1, <3>3 DEF WriteCr1, Resets
      <4> QED BY <1>0, <2>0, <3>2, <4>1, KeepsTx
    <3>4. CASE ~(enabled /\ ~e)
      <4>1. UNCHANGED <<txEmpty, tx, owed>> /\ (owed' = {} \/ enabled')
        BY <1>0, <3>1, <3>2, <3>4 DEF WriteCr1
      <4> QED BY <1>0, <2>0, <3>2, <4>1, KeepsTx
    <3> QED BY <3>3, <3>4
  <2>2. CASE \E r, t \in BOOLEAN : WriteIcr(r, t)
    <3>1. PICK r, t \in BOOLEAN : WriteIcr(r, t)
      BY <2>2
    <3>2. /\ UNCHANGED <<written, transmitted, closed, tx, owed, enabled>>
          /\ repeated' = repeated \/ repeated' = repeated \cup {tx}
          /\ txEmpty' \in BOOLEAN /\ (~txEmpty' /\ txEmpty => tx \in repeated')
      BY <1>0, <3>1 DEF WriteIcr
    <3> QED
      BY <1>0, <2>0, <3>2, KeepsTx
  <2>3. CASE ReadRx
    <3>1. UNCHANGED <<written, transmitted, txEmpty, enabled, closed, repeated, tx, owed>>
      BY <2>3 DEF ReadRx, txVars
    <3> QED
      BY <1>0, <1>5, <2>0, <3>1
  <2>4. CASE WriteTx
    BY <2>0, <2>4, WriteKeepsTx
  <2> QED
    BY <1>2, <2>1, <2>2, <2>3, <2>4 DEF AccessUsart, ProgramAccess
<1>3. CASE UsartReset
  <2>1. /\ UNCHANGED <<written, transmitted, closed, repeated>> /\ enabled' = FALSE
        /\ txEmpty' = TRUE /\ tx' = 0 /\ owed' = {}
    BY <1>3 DEF UsartReset, Resets
  <2> QED
    BY <1>0, <2>1, KeepsTx
<1>4. CASE CpuStep /\ UNCHANGED usartVars
  <2>1. UNCHANGED <<written, transmitted, txEmpty, enabled, closed, repeated, tx, owed>>
    BY <1>4 DEF usartVars, registers, txVars
  <2> QED
    BY <1>0, <1>4, <1>5, <2>1 DEF CpuStep
<1>6. CASE Host
  BY <1>0, <1>5, <1>6 DEF Host, HostSend, HostShutdown, registers, txVars
<1>7. CASE LookAtSignals
  BY <1>0, <1>3, <1>5, <1>7 DEF LookAtSignals, Reset, usartVars, registers, txVars
<1>8. CASE UNCHANGED vars
  BY <1>0, <1>5, <1>8 DEF vars, usartVars, registers, txVars
<1> QED
  BY <1>1, <1>2, <1>3, <1>4, <1>6, <1>7, <1>8
  DEF Next, AccessSysTick, AccessPending, Signal, ComputeOnly, CpuStep, Reset, HostReset

\* What is written to the enabled USART is transmitted by the time the next
\* instruction runs, once and in order.
THEOREM TransmissionCorrect == Spec => []TransmissionIsExact
<1>1. TxInv => TransmissionIsExact
  BY DEF TxInv, TxOrder, NoneIsOwed, TransmissionIsExact
<1> QED
  BY <1>1, TxInit, TxStep, PTL DEF Spec

-----------------------------------------------------------------------------
(* The types *)

\* A sequence of numbers up to n.
LEMMA SequenceOver ==
  ASSUME NEW S, NEW s \in Seq(Nat), \A i \in 1..Len(s) : s[i] \in S
  PROVE  s \in Seq(S)
BY ElementOfSeq, SeqDef

TickTypes ==
  /\ current \in 0..MaxReload /\ reload \in 0..MaxReload /\ latched \in 0..MaxReload

OtherTypes ==
  /\ ticking \in BOOLEAN
  /\ rxIe \in BOOLEAN /\ txIe \in BOOLEAN /\ event \in BOOLEAN
  /\ pending \subseteq Exceptions
  /\ signals \subseteq {"halt", "reset"}
  /\ stage \in {"devices", "cpu", "signals"}
  /\ seen \subseteq {"rx", "tx"}

LEMMA TickTypesInvariant ==
  /\ Init => TickTypes
  /\ TickTypes /\ [Next]_vars => TickTypes'
<1>1. Init => TickTypes
  BY SysTickAssumption DEF Init, SysTickInit, TickTypes
<1> SUFFICES ASSUME TickTypes, [Next]_vars PROVE TickTypes'
  BY <1>1
<1> USE SysTickAssumption DEF TickTypes
<1>2. CASE UNCHANGED sysTickVars
  BY <1>2 DEF sysTickVars
<1>3. CASE SysTickStep
  BY <1>3 DEF SysTickStep, sysTickVars
<1>4. CASE SysTickReset
  BY <1>4 DEF SysTickReset
<1>5. CASE AccessSysTick
  BY <1>5 DEF AccessSysTick, WriteSysTickControl, WriteReload, WriteCurrent
<1> QED
  BY <1>2, <1>3, <1>4, <1>5
  DEF Next, vars, Devices, AccessUsart, AccessPending, Signal, ComputeOnly,
      LookAtSignals, Reset, Host, HostReset

LEMMA OtherTypesInvariant ==
  /\ Init => OtherTypes
  /\ OtherTypes /\ [Next]_vars => OtherTypes'
<1>1. Init => OtherTypes
  BY DEF Init, SysTickInit, UsartInit, OtherTypes
<1> SUFFICES ASSUME OtherTypes, [Next]_vars PROVE OtherTypes'
  BY <1>1
<1>2. Due' \subseteq {"rx", "tx"}
  BY DEF Due
<1>3. CASE Devices
  <2>0. ticking' \in BOOLEAN
    BY <1>3 DEF Devices, SysTickStep, sysTickVars, OtherTypes
  <2>1. rxIe' = rxIe /\ txIe' = txIe /\ event' \in BOOLEAN
    BY <1>3 DEF Devices, UsartStep, usartVars, registers, OtherTypes
  <2>2. pending' \subseteq Exceptions /\ seen' \subseteq {"rx", "tx"}
    BY <1>2, <1>3 DEF Devices, Pends, Exceptions, OtherTypes
  <2> QED BY <1>3, <2>0, <2>1, <2>2 DEF Devices, OtherTypes
<1>4. CASE AccessUsart
  <2>1. rxIe' \in BOOLEAN /\ txIe' \in BOOLEAN /\ event' \in BOOLEAN
    BY <1>4 DEF AccessUsart, ProgramAccess, WriteCr1, WriteIcr, ReadRx, WriteTx, Resets, OtherTypes
  <2> QED BY <1>2, <1>4, <2>1 DEF AccessUsart, CpuStep, Pends, sysTickVars, OtherTypes
<1>5. CASE AccessSysTick \/ Signal \/ ComputeOnly \/ AccessPending
  BY <1>2, <1>5 DEF AccessSysTick, Signal, ComputeOnly, AccessPending, CpuStep, Pends,
                    WriteSysTickControl, WriteReload, WriteCurrent,
                    sysTickVars, usartVars, registers, OtherTypes
<1>6. CASE Reset /\ stage' \in {stage, "devices"}
  BY <1>2, <1>6 DEF Reset, SysTickReset, UsartReset, Resets, Pends, OtherTypes
<1>7. CASE Host
  BY <1>2, <1>7 DEF Host, HostSend, HostShutdown, Pends, sysTickVars, registers, OtherTypes
<1>8. CASE UNCHANGED vars
  BY <1>8 DEF vars, sysTickVars, usartVars, registers, OtherTypes
<1>9. CASE LookAtSignals
  BY <1>6, <1>9 DEF LookAtSignals, sysTickVars, usartVars, registers, OtherTypes
<1> QED
  BY <1>3, <1>4, <1>5, <1>6, <1>7, <1>8, <1>9 DEF Next, HostReset

\* Every register, flag, number and history of the two peripherals keeps its type.
THEOREM McuTypeCorrect == Spec => []TypeOK
<1>1. RxInv /\ TxInv /\ TickInv /\ TickTypes /\ OtherTypes => TypeOK
  <2> SUFFICES ASSUME RxInv, TxInv, TickInv, TickTypes, OtherTypes PROVE TypeOK
    OBVIOUS
  <2>1. rxBuffer \in Seq(1..received) /\ taken \in Seq(1..received) /\ transmitted \in Seq(0..written)
    BY SequenceOver DEF RxInv, RxNumbers, TxInv, TxNumbers
  <2>2. UsartTypeOK
    BY <2>1 DEF UsartTypeOK, RxInv, RxNumbers, TxInv, TxNumbers, OtherTypes
  <2>3. SysTickTypeOK
    <3>1. since \in 0..MaxReload
      BY SysTickAssumption DEF TickInv, TickTypes
    <3> QED BY <3>1 DEF SysTickTypeOK, TickTypes, OtherTypes
  <2> QED
    BY <2>2, <2>3 DEF TypeOK, OtherTypes
<1> QED
  BY <1>1, RxInit, RxStep, TxInit, TxStep, TickInit, TickStep, TickTypesInvariant, OtherTypesInvariant, PTL DEF Spec
=============================================================================
