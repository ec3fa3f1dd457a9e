------------------------------ MODULE CpuProofs ------------------------------
(***************************************************************************)
(* Safety of Cpu for every set of interrupts, tasks and addresses.  First  *)
(* what top_pending and current_execution_priority compute, for every set  *)
(* of external interrupts and every value of the flags.                    *)
(***************************************************************************)
EXTENDS CpuInvariant, WellFoundedInduction, FiniteSetTheorems, SequenceTheorems, TLAPS

-----------------------------------------------------------------------------
(* The exception vector *)

LEMMA ExceptionsBounded == Exceptions \subseteq 2..31
BY ExternalAssumption
   DEF Exceptions, InternalExceptions, NMI, HARDFAULT, SVCALL, PENDSV, SYSTICK

\* Every priority is one of six levels above the reset exception's.
LEMMA PriorityBounded ==
  ASSUME VectorTypeOK, NEW e \in Exceptions
  PROVE  Priority(e) \in -2..3
<1>1. CASE e \in Configurable
  BY <1>1 DEF VectorTypeOK, Priority, PriorityLevels, Configurable
<1>2. CASE e \in {NMI, HARDFAULT}
  BY <1>2 DEF Priority, NMI_PRIORITY, HARDFAULT_PRIORITY, NMI, HARDFAULT
<1>3. QED BY <1>1, <1>2 DEF Configurable

\* Priority and number together order the exceptions as one number does.
Key(e) == 32 * (Priority(e) + 2) + e

LEMMA KeyOrders ==
  ASSUME VectorTypeOK, NEW e \in Exceptions, NEW f \in Exceptions
  PROVE  /\ Key(e) \in Nat
         /\ ~ (Key(f) < Key(e)) /\ e # f => Precedes(e, f)
<1>1. e \in 2..31 /\ f \in 2..31
  BY ExceptionsBounded
<1>2. Priority(e) \in -2..3 /\ Priority(f) \in -2..3
  BY PriorityBounded
<1>3. QED BY <1>1, <1>2 DEF Key, Precedes

\* A nonempty set of natural numbers has a least element.
LEMMA LeastNatural ==
  ASSUME NEW S \in SUBSET Nat, S # {}
  PROVE  \E n \in S : \A m \in S : ~ (m < n)
<1>1. PICK n \in S : \A m \in S : ~ (<<m, n>> \in OpToRel(<, Nat))
  BY NatLessThanWellFounded, WFMin
<1>2. \A m \in S : <<m, n>> \in OpToRel(<, Nat) <=> m < n
  BY DEF OpToRel
<1>3. QED BY <1>1, <1>2

(***************************************************************************)
(* The exception that top_pending selects is pending and enabled, and no   *)
(* other candidate has a lower priority value; it selects none only when   *)
(* there is no candidate.                                                  *)
(***************************************************************************)
THEOREM TopPendingCorrect ==
  ASSUME VectorTypeOK
  PROVE  /\ TopPending = NoException <=> Candidates = {}
         /\ TopPending # NoException =>
              /\ TopPending \in Candidates
              /\ \A f \in Candidates \ {TopPending} : Precedes(TopPending, f)
<1>0. Candidates \subseteq Exceptions
  BY DEF Candidates, VectorTypeOK
<1>1. CASE Candidates = {}
  BY <1>1 DEF TopPending
<1>2. CASE Candidates # {}
  <2>1. PICK k \in {Key(e) : e \in Candidates} :
          \A m \in {Key(e) : e \in Candidates} : ~ (m < k)
    <3>1. {Key(e) : e \in Candidates} \in SUBSET Nat
      BY <1>0, KeyOrders
    <3>2. {Key(e) : e \in Candidates} # {}
      BY <1>2
    <3>3. QED BY <3>1, <3>2, LeastNatural
  <2>2. PICK e \in Candidates : k = Key(e)
    BY <2>1
  <2>3. \A f \in Candidates \ {e} : Precedes(e, f)
    BY <1>0, <2>1, <2>2, KeyOrders
  <2>4. /\ TopPending \in Candidates
        /\ \A f \in Candidates \ {TopPending} : Precedes(TopPending, f)
    BY <1>2, <2>3 DEF TopPending
  <2>5. NoException \notin Candidates
    BY <1>0, ExceptionsBounded DEF NoException
  <2>6. QED BY <1>2, <2>4, <2>5
<1>3. QED BY <1>1, <1>2

(***************************************************************************)
(* Without PRIMASK, the execution priority is at most the thread priority  *)
(* and that of every active exception the scan looks at; with PRIMASK it   *)
(* is 0 whatever is active.                                                *)
(***************************************************************************)
THEOREM ExecutionPriorityCorrect ==
  ASSUME VectorTypeOK, NEW pm \in BOOLEAN
  PROVE  /\ CurrentExecutionPriority(pm) \in -2..4
         /\ pm => CurrentExecutionPriority(pm) = 0
         /\ ~pm => /\ CurrentExecutionPriority(pm) <= THREAD_MODE_PRIORITY
                   /\ \A a \in ScannedActive : CurrentExecutionPriority(pm) <= Priority(a)
                   /\ \/ CurrentExecutionPriority(pm) = THREAD_MODE_PRIORITY
                      \/ \E a \in ScannedActive : CurrentExecutionPriority(pm) = Priority(a)
<1>1. CASE pm
  BY <1>1 DEF CurrentExecutionPriority
<1>2. CASE ~pm
  <2> DEFINE levels == {THREAD_MODE_PRIORITY} \cup {Priority(e) : e \in ScannedActive}
  <2>1. levels \subseteq -2..4
    BY PriorityBounded DEF ScannedActive, VectorTypeOK, THREAD_MODE_PRIORITY
  <2>2. 4 \in levels
    BY DEF THREAD_MODE_PRIORITY
  <2>3. \E p \in levels : \A q \in levels : p <= q
    <3>1. PICK n \in {q + 2 : q \in levels} : \A m \in {q + 2 : q \in levels} : ~ (m < n)
      <4>1. {q + 2 : q \in levels} \in SUBSET Nat
        BY <2>1
      <4>2. {q + 2 : q \in levels} # {}
        BY <2>2
      <4>3. QED BY <4>1, <4>2, LeastNatural
    <3>2. PICK p \in levels : n = p + 2
      BY <3>1
    <3>3. ASSUME NEW q \in levels PROVE p <= q
      <4>1. q + 2 \in {r + 2 : r \in levels}
        OBVIOUS
      <4>2. ~ (q + 2 < n)
        BY <3>1, <4>1
      <4>3. q \in Int /\ p \in Int
        BY <2>1
      <4>4. QED BY <3>2, <4>2, <4>3
    <3>4. QED BY <3>3
  <2>4. CurrentExecutionPriority(pm) = CHOOSE p \in levels : \A q \in levels : p <= q
    BY <1>2 DEF CurrentExecutionPriority
  <2> HIDE DEF levels
  <2>5. /\ CurrentExecutionPriority(pm) \in levels
        /\ \A q \in levels : CurrentExecutionPriority(pm) <= q
    BY <2>3, <2>4
  <2>6. QED BY <1>2, <2>1, <2>5 DEF levels
<1>3. QED BY <1>1, <1>2

-----------------------------------------------------------------------------
(* The invariant *)

LEMMA InitIInv == Init => IInv
<1> SUFFICES ASSUME Init PROVE IInv
  OBVIOUS
<1> USE CpuAssumption
<1>1. TypeOK
  <2>1. VectorTypeOK
    BY DEF Init, VectorInit, VectorTypeOK, NoPriority, PriorityLevels
  <2>2. 0 \in Address
    BY DEF Address
  <2>3. PreparedFrame \in Frame
    BY <2>2 DEF PreparedFrame, Frame, Contexts, LrValues, NotExcReturn
  <2>4. process \in [Tasks -> Frame \cup {NoFrame}]
    BY <2>3 DEF Init, PreparedTasks
  <2>5. main \in Seq(Frame)
    BY DEF Init
  <2>6. QED
    BY <2>1, <2>2, <2>4, <2>5 DEF Init, TypeOK, Contexts, LrValues
<1>2. ThreadShape /\ FramesNest /\ ThreadFrame /\ HardFaultAlone
  BY DEF Init, VectorInit, ThreadShape, FramesNest, ThreadFrame, HardFaultAlone, PreparedTasks
<1>3. ProcessFrames
  BY DEF Init, ProcessFrames, PreparedTasks, PreparedFrame
<1>4. ActiveMatchesFrames
  BY DEF Init, VectorInit, ActiveMatchesFrames
<1>5. QED BY <1>1, <1>2, <1>3, <1>4 DEF IInv, Init

(***************************************************************************)
(* The exception a step takes is pending, is not active already, and beats *)
(* every active one; with PRIMASK set it is the HardFault.                 *)
(***************************************************************************)
LEMMA TakenExceptionBeatsActive ==
  ASSUME WellBehaved, IInv, NextExceptionToTake # NoException
  PROVE  /\ NextExceptionToTake \in pending \ active
         /\ NextExceptionToTake \in Exceptions \ {NMI}
         /\ \A a \in active : Priority(NextExceptionToTake) < Priority(a)
         /\ primask => NextExceptionToTake = HARDFAULT
         /\ HARDFAULT \notin active
<1> DEFINE N == NextExceptionToTake
<1>1. VectorTypeOK /\ primask \in BOOLEAN
  BY DEF IInv, TypeOK
<1>2. NMI \notin active /\ NMI \notin pending
  BY DEF IInv, HardFaultAlone
<1>3. N = TopPending /\ Priority(N) < CurrentExecutionPriority(primask)
  BY DEF NextExceptionToTake
<1>4. N \in pending /\ N \in Exceptions /\ N # NMI
  BY <1>1, <1>2, <1>3, TopPendingCorrect DEF Candidates, VectorTypeOK
<1>5. \A e \in Exceptions : Priority(e) \in -2..3
  BY <1>1, PriorityBounded
<1>6. \A e \in Exceptions \ {NMI} :
        IF e = HARDFAULT THEN Priority(e) = -1 ELSE Priority(e) \in 0..3
  BY <1>1 DEF Priority, VectorTypeOK, Configurable, PriorityLevels, HARDFAULT_PRIORITY,
              NMI, HARDFAULT
<1>7. active \subseteq Exceptions \ {NMI}
  BY <1>1, <1>2 DEF VectorTypeOK
<1>8. \A a \in active : Priority(N) < Priority(a)
  <2>1. CASE primask
    <3>1. Priority(N) < 0
      BY <1>1, <1>3, <2>1, ExecutionPriorityCorrect
    <3>2. N = HARDFAULT
      BY <1>4, <1>6, <3>1
    <3>3. HARDFAULT \notin active
      BY <1>4, <3>2 DEF IInv, HardFaultAlone
    <3>4. QED BY <1>4, <1>6, <1>7, <3>2, <3>3
  <2>2. CASE ~primask
    <3>1. ScannedActive = active
      BY <1>2 DEF ScannedActive
    <3>2. \A a \in active : CurrentExecutionPriority(primask) <= Priority(a)
      BY <1>1, <2>2, <3>1, ExecutionPriorityCorrect
    <3>3. CurrentExecutionPriority(primask) \in -2..4
      BY <1>1, ExecutionPriorityCorrect
    <3>4. QED BY <1>3, <1>4, <1>5, <1>7, <3>2, <3>3
  <2>3. QED BY <2>1, <2>2
<1>9. primask => N = HARDFAULT
  <2>1. primask => Priority(N) < 0
    BY <1>1, <1>3, ExecutionPriorityCorrect
  <2>2. QED BY <1>4, <1>6, <2>1
<1>10. N \notin active
  BY <1>4, <1>5, <1>8
<1>11. HARDFAULT \notin active
  BY <1>4, <1>6, <1>7, <1>8
<1>12. QED BY <1>4, <1>8, <1>9, <1>10, <1>11

-----------------------------------------------------------------------------
(* One lemma per kind of step *)

\* What an exception entry does to the frames: it adds one, for the context left.
LEMMA EntryIInv ==
  ASSUME WellBehaved, IInv, stage \in {"decide", "retire"},
         NextExceptionToTake # NoException,
         ExceptionEntry(NextExceptionToTake)
  PROVE  IInv'
<1> DEFINE ex == NextExceptionToTake
           frame == [pc |-> ReturnAddress(ex), ipsr |-> ipsr, thumb |-> thumb, lr |-> lr]
<1> USE CpuAssumption
<1>1. /\ ex \in pending \ active /\ ex \in Exceptions \ {NMI}
      /\ HARDFAULT \notin active
  BY TakenExceptionBeatsActive
<1>2. ex # 0
  BY <1>1, ExceptionsBounded
<1>3. TypeOK /\ VectorTypeOK
  BY DEF IInv, TypeOK
<1>4. frame \in Frame
  <2>1. \A a \in Address : Following(a) \in Address
    BY DEF Following, Address
  <2>2. ReturnAddress(ex) \in Address
    BY <1>3, <2>1 DEF ReturnAddress, NextInstructionAddress, TypeOK
  <2>3. QED BY <1>3, <2>2 DEF Frame, TypeOK
<1>5. TypeOK'
  <2>1. VectorTypeOK'
    BY <1>1, <1>3 DEF ExceptionEntry, VectorTypeOK
  <2>2. main' \in Seq(Frame) /\ process' \in [Tasks -> Frame \cup {NoFrame}]
    <3>1. PushStack(frame)
      BY DEF ExceptionEntry
    <3>2. main' = main \/ main' = Append(main, frame)
      BY <3>1 DEF PushStack
    <3>3. main' \in Seq(Frame)
      BY <1>3, <1>4, <3>2 DEF TypeOK
    <3>4. process' = process \/ \E t \in Tasks : process' = [process EXCEPT ![t] = frame]
      BY <1>3, <3>1 DEF PushStack, TypeOK
    <3>5. process' \in [Tasks -> Frame \cup {NoFrame}]
      BY <1>3, <1>4, <3>4 DEF TypeOK
    <3> QED BY <3>3, <3>5
  <2>3. resume' \in [Tasks -> Address]
    <3>1. FirstUncompleted \in Address
      BY <1>3 DEF FirstUncompleted, NextInstructionAddress, Following, Address, TypeOK
    <3>2. QED BY <1>3, <3>1 DEF ExceptionEntry, TypeOK
  <2>4. ipsr' \in Contexts /\ pc' \in Address /\ lr' \in LrValues /\ cur' \in Address
    BY <1>1, <1>3 DEF ExceptionEntry, EndStep, ExcReturn, LrValues, Contexts, Address
  <2>5. QED BY <1>3, <2>1, <2>2, <2>3, <2>4 DEF ExceptionEntry, EndStep, TypeOK
<1>8. HardFaultAlone' /\ stage' # "lost"
  BY <1>1 DEF IInv, ExceptionEntry, EndStep, HardFaultAlone, WellBehaved
<1>6. CASE OnProcessStack
  <2>1. /\ mode = "thread" /\ main = <<>> /\ main' = <<>> /\ ipsr = 0
        /\ process' = [process EXCEPT ![task] = frame]
        /\ lr' = ToThreadProcess /\ lr = NotExcReturn /\ active = {}
    BY <1>6 DEF OnProcessStack, ExceptionEntry, PushStack, ExcReturn, IInv, ThreadShape,
                ActiveMatchesFrames
  <2>2. process'[task'] # NoFrame /\ process'[task'].ipsr = 0
    BY <1>3, <1>4, <2>1, NoFrameAssumption DEF ExceptionEntry, TypeOK
  <2>3. ProcessFrames'
    BY <1>3, <2>1 DEF ProcessFrames, IInv, TypeOK
  <2>4. ActiveMatchesFrames'
    BY <2>1, <1>2 DEF ActiveMatchesFrames, ExceptionEntry
  <2>5. ThreadShape' /\ FramesNest' /\ ThreadFrame'
    BY <1>2, <2>1, <2>2 DEF ExceptionEntry, ThreadShape, FramesNest, ThreadFrame
  <2>6. QED BY <1>5, <1>8, <2>3, <2>4, <2>5 DEF IInv
<1>7. CASE ~OnProcessStack
  <2>1. main' = Append(main, frame) /\ UNCHANGED process /\ UNCHANGED task
    BY <1>7 DEF ExceptionEntry, PushStack
  <2>2. /\ Len(main) \in Nat /\ DOMAIN main = 1..Len(main)
        /\ DOMAIN main' = 1..(Len(main) + 1) /\ Len(main') = Len(main) + 1
        /\ main'[Len(main) + 1] = frame
        /\ \A k \in 1..Len(main) : main'[k] = main[k]
    BY <1>3, <1>4, <2>1 DEF TypeOK
  <2>3. ProcessFrames'
    BY <2>1 DEF ProcessFrames, IInv
  <2>4. /\ ipsr = 0 <=> mode = "thread"
        /\ mode = "thread" => main = <<>> /\ lr = NotExcReturn /\ process[task] = NoFrame /\ ~spsel
    BY <1>3, <1>7 DEF IInv, ThreadShape, ThreadFrame, OnProcessStack, TypeOK
  <2>5. lr' = IF ipsr = 0 THEN ToThreadMain ELSE ToHandler
    BY <1>3, <2>4 DEF ExceptionEntry, ExcReturn, TypeOK
  <2>6. ThreadShape'
    BY DEF ExceptionEntry, ThreadShape
  <2>7. FramesNest'
    <3>1. ASSUME NEW k \in DOMAIN main', k # 1 PROVE main'[k].ipsr # 0
      BY <2>2, <2>4, <3>1 DEF IInv, FramesNest
    <3>2. ASSUME NEW k \in DOMAIN main'
          PROVE  LrAbove(k)' = IF main'[k].ipsr = 0 THEN ToThreadMain ELSE ToHandler
      <4>1. CASE k = Len(main) + 1
        BY <2>2, <2>5, <4>1 DEF LrAbove, Depth
      <4>2. CASE k = Len(main)
        <5>0. k \in 1..Len(main) /\ k # Len(main') /\ k + 1 = Len(main) + 1
          <6>1. k \in 1..(Len(main) + 1)
            BY <2>2, <3>2
          <6>2. k \in Nat /\ k >= 1
            BY <2>2, <6>1
          <6>3. k \in 1..Len(main)
            BY <4>2, <6>2
          <6>4. Len(main') = k + 1 /\ k + 1 = Len(main) + 1
            BY <2>2, <4>2, <6>2
          <6>5. k # Len(main')
            BY <6>2, <6>4
          <6>6. QED BY <6>3, <6>4, <6>5
        <5>1. LrAbove(k)' = lr /\ LrAbove(k) = lr /\ k \in DOMAIN main
          <6>1. LrAbove(k) = lr
            BY <4>2 DEF LrAbove, Depth
          <6>2. LrAbove(k)' = main'[k + 1].lr
            BY <5>0 DEF LrAbove, Depth
          <6>3. main'[k + 1].lr = lr
            BY <2>2, <5>0
          <6>4. QED BY <2>2, <5>0, <6>1, <6>2, <6>3
        <5>2. LrAbove(k) = IF main[k].ipsr = 0 THEN ToThreadMain ELSE ToHandler
          BY <5>1 DEF IInv, FramesNest
        <5>3. QED BY <2>2, <5>1, <5>2
      <4>3. CASE k < Len(main)
        <5>1. k \in 1..Len(main) /\ k + 1 \in 1..Len(main) /\ k # Len(main)
          BY <2>2, <3>2, <4>3
        <5>2. LrAbove(k)' = main'[k + 1].lr /\ LrAbove(k) = main[k + 1].lr
          BY <2>2, <5>1 DEF LrAbove, Depth
        <5>3. LrAbove(k) = IF main[k].ipsr = 0 THEN ToThreadMain ELSE ToHandler
          BY <2>2, <5>1 DEF IInv, FramesNest
        <5>4. QED BY <2>2, <5>1, <5>2, <5>3
      <4>4. QED BY <2>2, <3>2, <4>1, <4>2, <4>3
    <3>3. QED BY <3>1, <3>2 DEF FramesNest
  <2>8. ThreadFrame'
    <3>1. main' # <<>> /\ process'[task'] = process[task] /\ ipsr' # 0 /\ ~spsel'
      BY <1>2, <2>1, <2>2 DEF ExceptionEntry
    <3>2. CASE main = <<>>
      <4>1. main'[1].ipsr = ipsr /\ main'[1].lr = lr
        BY <2>2, <3>2
      <4>2. mode = "handler" => process[task] # NoFrame /\ lr = ToThreadProcess
        BY <3>2 DEF IInv, ThreadFrame
      <4>3. mode \in {"thread", "handler"}
        BY <1>3 DEF TypeOK
      <4>4. QED BY <2>4, <3>1, <4>1, <4>2, <4>3 DEF ThreadFrame
    <3>3. CASE main # <<>>
      <4>1. main'[1] = main[1] /\ mode = "handler"
        BY <1>3, <2>2, <2>4, <3>3 DEF TypeOK
      <4>2. QED BY <3>1, <3>3, <4>1 DEF IInv, ThreadFrame
    <3>4. QED BY <3>2, <3>3
  <2>9. ActiveMatchesFrames'
    <3>1. active' = ({ipsr'} \cup {main'[k].ipsr : k \in DOMAIN main'}) \ {0}
      <4>1. {main'[k].ipsr : k \in DOMAIN main'} = {main[k].ipsr : k \in DOMAIN main} \cup {ipsr}
        BY <2>2
      <4>2. active = ({ipsr} \cup {main[k].ipsr : k \in DOMAIN main}) \ {0}
        BY DEF IInv, ActiveMatchesFrames
      <4>3. QED BY <1>2, <4>1, <4>2 DEF ExceptionEntry
    <3>2. \A k \in DOMAIN main' : main'[k].ipsr # ipsr'
      BY <1>1, <1>2, <2>2 DEF IInv, ActiveMatchesFrames, ExceptionEntry
    <3>3. \A j, k \in DOMAIN main' : main'[j].ipsr = main'[k].ipsr => j = k
      BY <2>2 DEF IInv, ActiveMatchesFrames
    <3>4. QED BY <3>1, <3>2, <3>3 DEF ActiveMatchesFrames
  <2>10. QED BY <1>5, <1>8, <2>3, <2>6, <2>7, <2>8, <2>9 DEF IInv
<1>9. QED BY <1>6, <1>7

\* A step that leaves the frames and the nesting of handlers alone.
LEMMA QuietIInv ==
  ASSUME IInv, TypeOK', HardFaultAlone', stage' # "lost",
         UNCHANGED <<active, mode, ipsr, lr, main, task, process>>,
         mode = "handler" => spsel' = spsel
  PROVE  IInv'
<1>1. ThreadShape' /\ ProcessFrames' /\ ActiveMatchesFrames'
  BY DEF IInv, ThreadShape, ProcessFrames, ActiveMatchesFrames
<1>2. ThreadFrame'
  BY DEF IInv, ThreadFrame
<1>3. FramesNest'
  BY DEF IInv, FramesNest, LrAbove, Depth
<1>4. QED BY <1>1, <1>2, <1>3 DEF IInv

LEMMA FetchIInv ==
  ASSUME WellBehaved, IInv, Fetch
  PROVE  IInv'
<1>1. TypeOK'
  <2>1. HARDFAULT \in Exceptions
    BY DEF Exceptions, InternalExceptions
  <2>2. QED BY <2>1 DEF Fetch, IInv, TypeOK, VectorTypeOK, coreVars
<1>2. HardFaultAlone'
  BY DEF Fetch, IInv, HardFaultAlone, coreVars, NMI, HARDFAULT
<1>3. QED BY <1>1, <1>2, QuietIInv DEF Fetch, coreVars

LEMMA PeripheralIInv ==
  ASSUME WellBehaved, IInv, NEW e \in Exceptions, PeripheralRaise(e)
  PROVE  IInv'
<1>1. TypeOK'
  BY DEF PeripheralRaise, IInv, TypeOK, VectorTypeOK, coreVars
<1>2. e # NMI /\ e # HARDFAULT
  BY ExternalAssumption DEF PeripheralRaise, NMI, HARDFAULT, SYSTICK
<1>3. HardFaultAlone'
  BY <1>2 DEF PeripheralRaise, IInv, HardFaultAlone, coreVars
<1>4. stage' # "lost"
  BY DEF PeripheralRaise
<1>5. QED BY <1>1, <1>3, <1>4, QuietIInv DEF PeripheralRaise, coreVars

LEMMA AdvanceIInv ==
  ASSUME WellBehaved, IInv, Advance
  PROVE  IInv'
<1>1. TypeOK'
  BY CpuAssumption
     DEF Advance, EndStep, IInv, TypeOK, VectorTypeOK, vectorVars, coreVars, Address,
         NextInstructionAddress, Following
<1>2. HardFaultAlone'
  BY DEF Advance, IInv, HardFaultAlone, vectorVars, coreVars
<1>3. QED BY <1>1, <1>2, QuietIInv DEF Advance, EndStep, vectorVars, coreVars

LEMMA ResetIInv ==
  ASSUME WellBehaved, IInv, Reset
  PROVE  IInv'
<1>1. main' = <<>>
  BY DEF Reset, IInv, ThreadShape, ThreadFrame, TypeOK
<1>2. TypeOK'
  <2>1. VectorTypeOK'
    BY DEF Reset, VectorReset, VectorTypeOK, NoPriority, PriorityLevels
  <2>2. 0 \in Address
    BY CpuAssumption DEF Address
  <2>3. process' \in [Tasks -> Frame \cup {NoFrame}]
    BY <2>2 DEF Reset, PreparedTasks, PreparedFrame, Frame, Contexts, LrValues, NotExcReturn
  <2>4. main' \in Seq(Frame)
    BY <1>1
  <2>5. QED BY <2>1, <2>2, <2>3, <2>4, CpuAssumption
               DEF Reset, EndStep, TypeOK, Contexts, LrValues
<1>3. ThreadShape' /\ FramesNest' /\ ThreadFrame' /\ HardFaultAlone'
  BY <1>1, CpuAssumption
     DEF Reset, VectorReset, ThreadShape, FramesNest, ThreadFrame, HardFaultAlone, PreparedTasks
<1>4. ProcessFrames'
  BY DEF Reset, ProcessFrames, PreparedTasks, PreparedFrame
<1>5. ActiveMatchesFrames'
  BY <1>1 DEF Reset, VectorReset, ActiveMatchesFrames
<1>6. QED BY <1>2, <1>3, <1>4, <1>5 DEF IInv, Reset, EndStep

-----------------------------------------------------------------------------
(* One lemma per instruction *)

\* An instruction that touches neither the frames nor the handlers in progress.
LEMMA QuietInstructionIInv ==
  ASSUME IInv, NEW result \in {"done", "fault"}, Execute(result),
         VectorTypeOK', pc' \in Address, branched' \in BOOLEAN,
         primask' \in BOOLEAN, spsel' \in BOOLEAN, thumb' \in BOOLEAN,
         HardFaultAlone', mode = "handler" => spsel' = spsel,
         UNCHANGED <<active, mode, ipsr, lr, main, task, process, resume>>
  PROVE  IInv'
<1>1. TypeOK'
  BY DEF Execute, IInv, TypeOK
<1>2. stage' # "lost"
  BY DEF Execute
<1>3. QED BY <1>1, <1>2, QuietIInv

\* The program counter of an instruction that does not branch.
LEMMA NoBranchType ==
  ASSUME IInv, NoBranch
  PROVE  pc' \in Address /\ branched' \in BOOLEAN
<1>1. cur \in 0..LastAddress /\ LastAddress \in Nat
  BY CpuAssumption DEF IInv, TypeOK, Address
<1>2. (cur + 2) % (LastAddress + 1) \in 0..LastAddress
  BY <1>1
<1>3. QED BY <1>2 DEF NoBranch, Prefetch, Address

LEMMA PlainIInv ==
  ASSUME IInv, Plain \/ \E a \in Address : Branch(a)
  PROVE  IInv'
<1>1. pc' \in Address /\ branched' \in BOOLEAN
  BY NoBranchType DEF Plain, Branch, BranchTo
<1>2. VectorTypeOK' /\ HardFaultAlone'
  BY DEF Plain, Branch, IInv, TypeOK, VectorTypeOK, vectorVars, coreVars, HardFaultAlone
<1>3. QED
  BY <1>1, <1>2, QuietInstructionIInv
     DEF Plain, Branch, IInv, TypeOK, vectorVars, coreVars

\* Code that branches to an even address is not the HardFault handler.
LEMMA BranchToEvenIInv ==
  ASSUME WellBehaved, IInv, NEW a \in Address, BranchToEven(a)
  PROVE  IInv'
<1>1. VectorTypeOK' /\ HardFaultAlone'
  BY DEF BranchToEven, WellBehaved, IInv, TypeOK, VectorTypeOK, vectorVars, HardFaultAlone
<1>2. QED
  BY <1>1, QuietInstructionIInv DEF BranchToEven, BranchTo, IInv, TypeOK, vectorVars

\* Nor is code that faults, so the fault is raised with HardFault inactive.
LEMMA FaultIInv ==
  ASSUME WellBehaved, IInv, Fault
  PROVE  IInv'
<1>1. VectorTypeOK'
  BY DEF Fault, IInv, TypeOK, VectorTypeOK, Exceptions, InternalExceptions
<1>2. HardFaultAlone'
  BY DEF Fault, WellBehaved, IInv, coreVars, HardFaultAlone, NMI, HARDFAULT
<1>3. QED
  BY <1>1, <1>2, NoBranchType, QuietInstructionIInv DEF Fault, IInv, TypeOK, coreVars

LEMMA PendingIInv ==
  ASSUME IInv,
         \/ Svc
         \/ \E set \in SUBSET (Exceptions \ {NMI, HARDFAULT}), clear \in SUBSET Exceptions :
              WritePending(set, clear)
  PROVE  IInv'
<1>1. VectorTypeOK'
  BY DEF Svc, WritePending, IInv, TypeOK, VectorTypeOK, Exceptions, InternalExceptions
<1>2. HardFaultAlone'
  BY DEF Svc, WritePending, IInv, coreVars, HardFaultAlone, NMI, HARDFAULT, SVCALL
<1>3. QED
  BY <1>1, <1>2, NoBranchType, QuietInstructionIInv
     DEF Svc, WritePending, IInv, TypeOK, coreVars

LEMMA WriteEnableIInv ==
  ASSUME IInv, NEW set \in SUBSET ExternalInterrupts, NEW clear \in SUBSET ExternalInterrupts,
         WriteEnable(set, clear)
  PROVE  IInv'
<1>1. VectorTypeOK' /\ HardFaultAlone'
  BY DEF WriteEnable, IInv, TypeOK, VectorTypeOK, coreVars, HardFaultAlone
<1>2. QED
  BY <1>1, NoBranchType, QuietInstructionIInv DEF WriteEnable, IInv, TypeOK, coreVars

LEMMA WritePriorityIInv ==
  ASSUME IInv, NEW e \in Configurable, NEW p \in PriorityLevels, WritePriority(e, p)
  PROVE  IInv'
<1>1. VectorTypeOK' /\ HardFaultAlone'
  BY DEF WritePriority, IInv, TypeOK, VectorTypeOK, coreVars, HardFaultAlone
<1>2. QED
  BY <1>1, NoBranchType, QuietInstructionIInv DEF WritePriority, IInv, TypeOK, coreVars

LEMMA WriteSpecialIInv ==
  ASSUME IInv,
         \/ \E pm \in BOOLEAN : WritePrimask(pm)
         \/ \E sel \in BOOLEAN : WriteControl(sel)
  PROVE  IInv'
<1>1. VectorTypeOK' /\ HardFaultAlone'
  BY DEF WritePrimask, WriteControl, IInv, TypeOK, VectorTypeOK, vectorVars, HardFaultAlone
<1>2. QED
  BY <1>1, NoBranchType, QuietInstructionIInv
     DEF WritePrimask, WriteControl, IInv, TypeOK, vectorVars

\* A handler that switches tasks runs directly on top of thread mode.
LEMMA WritePspIInv ==
  ASSUME IInv, NEW t \in Tasks, WritePsp(t)
  PROVE  IInv'
<1>1. mode = "handler"
  BY DEF WritePsp, IInv, TypeOK, ThreadShape, ToThreadProcess, NotExcReturn
<1>2. main = <<>>
  <2>1. SUFFICES ASSUME main # <<>> PROVE FALSE
    OBVIOUS
  <2>2. Len(main) \in DOMAIN main /\ LrAbove(Len(main)) = lr
    BY <2>1 DEF LrAbove, Depth, IInv, TypeOK
  <2>3. QED
    BY <2>2 DEF IInv, FramesNest, WritePsp, ToThreadProcess, ToThreadMain, ToHandler
<1>3. TypeOK' /\ stage' # "lost"
  BY NoBranchType DEF WritePsp, Execute, IInv, TypeOK, VectorTypeOK, vectorVars
<1>4. ThreadShape' /\ ThreadFrame'
  BY <1>1, <1>2 DEF WritePsp, IInv, ThreadShape, ThreadFrame
<1>5. FramesNest'
  BY <1>2 DEF WritePsp, FramesNest
<1>6. ProcessFrames' /\ ActiveMatchesFrames' /\ HardFaultAlone'
  BY DEF WritePsp, IInv, ProcessFrames, ActiveMatchesFrames, HardFaultAlone, vectorVars
<1>7. QED BY <1>3, <1>4, <1>5, <1>6 DEF IInv

-----------------------------------------------------------------------------
(* Exception return *)

LEMMA ActiveFinite ==
  ASSUME IInv
  PROVE  IsFiniteSet(active)
<1>1. IsFiniteSet(0..31)
  <2>1. 0 \in Int /\ 31 \in Int
    OBVIOUS
  <2>2. QED BY <2>1, FS_Interval, Zenon
<1>2. active \subseteq 0..31
  BY ExceptionsBounded DEF IInv, TypeOK, VectorTypeOK
<1>3. QED BY <1>1, <1>2, FS_Subset

\* The frame a handler returns through, by where its stack is.
LEMMA HandlerFrame ==
  ASSUME IInv, mode = "handler"
  PROVE  \/ /\ main = <<>> /\ lr = ToThreadProcess
            /\ process[task] \in Frame /\ process[task].ipsr = 0
            /\ process[task].lr = NotExcReturn
            /\ active = {ipsr}
         \/ /\ Len(main) = 1 /\ lr = ToThreadMain
            /\ main[1].ipsr = 0 /\ main[1].lr = NotExcReturn
            /\ process[task] = NoFrame
            /\ active = {ipsr}
         \/ /\ Len(main) \in DOMAIN main /\ lr = ToHandler
            /\ main[Len(main)].ipsr \in active \ {ipsr}
<1>1. TypeOK /\ ipsr # 0
  BY DEF IInv, ThreadFrame
<1>2. active = ({ipsr} \cup {main[k].ipsr : k \in DOMAIN main}) \ {0}
  BY DEF IInv, ActiveMatchesFrames
<1>3. CASE main = <<>>
  <2>1. process[task] # NoFrame /\ lr = ToThreadProcess
    BY <1>3 DEF IInv, ThreadFrame
  <2>2. process[task] \in Frame /\ process[task].ipsr = 0 /\ process[task].lr = NotExcReturn
    BY <1>1, <2>1 DEF IInv, ProcessFrames, TypeOK
  <2>3. active = {ipsr}
    BY <1>1, <1>2, <1>3
  <2>4. QED BY <1>3, <2>1, <2>2, <2>3
<1>4. CASE main # <<>>
  <2>1. Len(main) \in Nat \ {0} /\ DOMAIN main = 1..Len(main)
    BY <1>1, <1>4 DEF TypeOK
  <2>2. lr = IF main[Len(main)].ipsr = 0 THEN ToThreadMain ELSE ToHandler
    BY <2>1 DEF IInv, FramesNest, LrAbove, Depth
  <2>3. CASE main[Len(main)].ipsr = 0
    <3>1. Len(main) = 1
      BY <2>1, <2>3 DEF IInv, FramesNest
    <3>2. main[1].lr = NotExcReturn /\ process[task] = NoFrame
      BY <1>4, <2>3, <3>1 DEF IInv, ThreadFrame
    <3>3. {main[k].ipsr : k \in DOMAIN main} = {0}
      BY <2>1, <2>3, <3>1
    <3>4. QED BY <1>1, <1>2, <2>2, <2>3, <3>1, <3>2, <3>3
  <2>4. CASE main[Len(main)].ipsr # 0
    <3>1. main[Len(main)].ipsr \in active \ {ipsr}
      BY <1>2, <2>1, <2>4 DEF IInv, ActiveMatchesFrames
    <3>2. QED BY <2>1, <2>2, <2>4, <3>1
  <2>5. QED BY <2>3, <2>4
<1>5. QED BY <1>3, <1>4

\* EXC_RETURN agrees with the active exceptions, and its stack has the frame.
LEMMA IInvHandlerCanReturn ==
  ASSUME IInv
  PROVE  HandlerCanReturn
<1>1. SUFFICES ASSUME mode = "handler" PROVE HandlerCanReturn
  BY DEF HandlerCanReturn
<1>2. IsFiniteSet(active)
  BY ActiveFinite
<1>3. Cardinality(active) = 1 <=> \E e : active = {e}
  BY <1>2, FS_Singleton
<1>4. ipsr \in active
  BY <1>1 DEF IInv, ThreadFrame, ActiveMatchesFrames
<1>5. lr = ToHandler <=> Cardinality(active) # 1
  BY <1>1, <1>3, <1>4, HandlerFrame DEF ToHandler, ToThreadMain, ToThreadProcess
<1>6. ~Mismatch
  BY <1>5 DEF Mismatch
<1>7. \/ lr = ToHandler /\ main # <<>> /\ main[Len(main)].ipsr # 0
      \/ lr = ToThreadMain /\ main # <<>> /\ main[Len(main)].ipsr = 0
      \/ lr = ToThreadProcess /\ process[task] # NoFrame /\ process[task].ipsr = 0
  BY <1>1, <1>4, HandlerFrame, NoFrameAssumption, ExceptionsBounded
     DEF IInv, TypeOK, VectorTypeOK
<1>8. QED
  BY <1>4, <1>6, <1>7 DEF HandlerCanReturn, ToHandler, ToThreadMain, ToThreadProcess

LEMMA ExceptionReturnIInv ==
  ASSUME IInv, ExceptionReturn
  PROVE  IInv'
<1>1. /\ TypeOK /\ mode = "handler" /\ ipsr # 0 /\ ~spsel
      /\ HARDFAULT \notin active'
      /\ NMI \notin active' \cup pending'
  BY DEF ExceptionReturn, IInv, HardFaultAlone, ThreadFrame
<1>2. HardFaultAlone' /\ stage' # "lost"
  BY <1>1 DEF ExceptionReturn, Execute, HardFaultAlone
<1>3. resume' \in [Tasks -> Address]
  <2>1. 0 \in Address
    BY CpuAssumption DEF Address
  <2>2. QED BY <1>1, <2>1 DEF ExceptionReturn, TypeOK
<1>4. ASSUME NEW frame \in Frame, Unstack(frame),
             main' \in Seq(Frame), process' \in [Tasks -> Frame \cup {NoFrame}]
      PROVE  TypeOK'
  <2>1. VectorTypeOK' /\ mode' \in {"thread", "handler"} /\ spsel' \in BOOLEAN
    BY <1>1 DEF ExceptionReturn, TypeOK, VectorTypeOK
  <2>2. pc' \in Address /\ branched' /\ ipsr' \in Contexts /\ thumb' \in BOOLEAN /\ lr' \in LrValues
    BY <1>4 DEF Unstack, BranchTo, Frame
  <2>3. QED BY <1>1, <1>3, <1>4, <2>1, <2>2 DEF ExceptionReturn, Execute, TypeOK
<1>5. CASE lr = ToThreadProcess
  <2>1. /\ main = <<>> /\ process[task] \in Frame /\ process[task].ipsr = 0
        /\ process[task].lr = NotExcReturn /\ active = {ipsr}
    BY <1>1, <1>5, HandlerFrame DEF ToHandler, ToThreadMain, ToThreadProcess
  <2>2. /\ Unstack(process[task]) /\ main' = <<>> /\ active' = {}
        /\ process' = [process EXCEPT ![task] = NoFrame] /\ UNCHANGED task
        /\ mode' = "thread" /\ ipsr' = 0 /\ lr' = NotExcReturn
    BY <1>5, <2>1 DEF ExceptionReturn, Unstack, ToHandler, ToThreadProcess
  <2>3. TypeOK'
    BY <1>1, <1>4, <2>1, <2>2 DEF TypeOK
  <2>4. ThreadShape' /\ FramesNest' /\ ThreadFrame' /\ ActiveMatchesFrames'
    BY <1>1, <2>2 DEF TypeOK, ThreadShape, FramesNest, ThreadFrame, ActiveMatchesFrames
  <2>5. ProcessFrames'
    BY <1>1, <2>2 DEF IInv, ProcessFrames, TypeOK
  <2>6. QED BY <1>2, <2>3, <2>4, <2>5 DEF IInv
<1>6. CASE lr = ToThreadMain
  <2>1. /\ Len(main) = 1 /\ main[1].ipsr = 0 /\ main[1].lr = NotExcReturn
        /\ process[task] = NoFrame /\ active = {ipsr}
    BY <1>1, <1>6, HandlerFrame DEF ToHandler, ToThreadMain, ToThreadProcess
  <2>2. main' = <<>>
    <3>1. main' = SubSeq(main, 1, Len(main) - 1)
      BY <1>6 DEF ExceptionReturn, ToThreadMain, ToThreadProcess
    <3>2. QED BY <1>1, <2>1, <3>1 DEF TypeOK
  <2>3. /\ Unstack(main[1]) /\ main[1] \in Frame /\ active' = {}
        /\ UNCHANGED <<task, process>>
        /\ mode' = "thread" /\ ipsr' = 0 /\ lr' = NotExcReturn
    <3>1. main[1] \in Frame
      <4>1. main \in Seq(Frame) /\ DOMAIN main = 1..Len(main)
        BY <1>1 DEF TypeOK
      <4>2. 1 \in DOMAIN main
        BY <2>1, <4>1
      <4>3. QED BY <4>1, <4>2
    <3>2. Unstack(main[1])
      BY <1>6, <2>1 DEF ExceptionReturn, ToThreadMain, ToThreadProcess
    <3>3. mode' = "thread" /\ active' = {} /\ UNCHANGED <<task, process>>
      BY <1>6, <2>1 DEF ExceptionReturn, ToHandler, ToThreadMain, ToThreadProcess
    <3>4. QED BY <2>1, <3>1, <3>2, <3>3 DEF Unstack
  <2>4. TypeOK'
    BY <1>1, <1>4, <2>2, <2>3 DEF TypeOK
  <2>5. ThreadShape' /\ FramesNest' /\ ThreadFrame' /\ ActiveMatchesFrames' /\ ProcessFrames'
    BY <2>1, <2>2, <2>3
       DEF IInv, ThreadShape, FramesNest, ThreadFrame, ActiveMatchesFrames, ProcessFrames
  <2>6. QED BY <1>2, <2>4, <2>5 DEF IInv
<1>7. CASE lr = ToHandler
  <2>1. Len(main) \in DOMAIN main /\ main[Len(main)].ipsr \in active \ {ipsr}
    BY <1>1, <1>7, HandlerFrame DEF ToHandler, ToThreadMain, ToThreadProcess
  <2>2. /\ Len(main) \in Nat \ {0} /\ DOMAIN main = 1..Len(main)
        /\ main[Len(main)] \in Frame /\ main[Len(main)].ipsr # 0
    BY <1>1, <2>1 DEF TypeOK, IInv, ActiveMatchesFrames
  <2>3. /\ Unstack(main[Len(main)]) /\ main' = SubSeq(main, 1, Len(main) - 1)
        /\ UNCHANGED <<task, process>> /\ mode' = "handler" /\ spsel' = FALSE
        /\ ipsr' = main[Len(main)].ipsr /\ lr' = main[Len(main)].lr
        /\ active' = active \ {ipsr}
    BY <1>7 DEF ExceptionReturn, Unstack, ToHandler, ToThreadProcess
  <2>4. /\ main' \in Seq(Frame) /\ Len(main') = Len(main) - 1
        /\ DOMAIN main' = 1..(Len(main) - 1)
        /\ \A k \in 1..(Len(main) - 1) : main'[k] = main[k]
    BY <1>1, <2>2, <2>3 DEF TypeOK
  <2>5. TypeOK'
    BY <1>1, <1>4, <2>2, <2>3, <2>4 DEF TypeOK
  <2>6. ThreadShape' /\ ProcessFrames'
    BY <2>3 DEF IInv, ThreadShape, ProcessFrames
  <2>7. FramesNest'
    <3>1. \A k \in DOMAIN main' : k # 1 => main'[k].ipsr # 0
      BY <2>2, <2>4 DEF IInv, FramesNest
    <3>2. ASSUME NEW k \in DOMAIN main' PROVE LrAbove(k)' = LrAbove(k)
      <4>1. k \in 1..(Len(main) - 1) /\ k # Len(main)
        BY <2>2, <2>4, <3>2
      <4>2. LrAbove(k) = main[k + 1].lr
        BY <4>1 DEF LrAbove, Depth
      <4>3. CASE k = Len(main')
        <5>1. k + 1 = Len(main)
          BY <2>2, <2>4, <4>3
        <5>2. QED BY <2>3, <4>2, <4>3, <5>1 DEF LrAbove, Depth
      <4>4. CASE k # Len(main')
        <5>1. k + 1 \in 1..(Len(main) - 1)
          BY <2>2, <2>4, <4>1, <4>4
        <5>2. QED BY <2>4, <4>2, <4>4, <5>1 DEF LrAbove, Depth
      <4>5. QED BY <4>3, <4>4
    <3>3. QED BY <2>2, <2>4, <3>1, <3>2 DEF IInv, FramesNest
  <2>8. ThreadFrame'
    <3>1. CASE Len(main) = 1
      <4>1. main' = <<>>
        BY <2>4, <3>1
      <4>2. process[task] # NoFrame /\ main[1].lr = ToThreadProcess
        BY <1>1, <2>2, <3>1 DEF IInv, ThreadFrame
      <4>3. QED BY <2>2, <2>3, <3>1, <4>1, <4>2 DEF ThreadFrame
    <3>2. CASE Len(main) # 1
      <4>1. main # <<>> /\ main' # <<>> /\ main'[1] = main[1]
        BY <2>2, <2>4, <3>2
      <4>2. QED BY <1>1, <2>2, <2>3, <4>1 DEF IInv, ThreadFrame
    <3>3. QED BY <3>1, <3>2
  <2>9. ActiveMatchesFrames'
    <3>1. /\ active = ({ipsr} \cup {main[k].ipsr : k \in DOMAIN main}) \ {0}
          /\ \A k \in DOMAIN main : main[k].ipsr # ipsr
          /\ \A j, k \in DOMAIN main : main[j].ipsr = main[k].ipsr => j = k
      BY DEF IInv, ActiveMatchesFrames
    <3>2. {main[k].ipsr : k \in DOMAIN main} = {ipsr'} \cup {main'[k].ipsr : k \in DOMAIN main'}
      <4>1. \A k \in DOMAIN main : k = Len(main) \/ k \in DOMAIN main'
        BY <2>2, <2>4
      <4>2. \A k \in DOMAIN main' : k \in DOMAIN main /\ main'[k] = main[k]
        BY <2>2, <2>4
      <4>3. Len(main) \in DOMAIN main /\ ipsr' = main[Len(main)].ipsr
        BY <2>1, <2>3
      <4>4. QED BY <4>1, <4>2, <4>3
    <3>3. active' = ({ipsr'} \cup {main'[k].ipsr : k \in DOMAIN main'}) \ {0}
      <4>1. ipsr \notin {main[k].ipsr : k \in DOMAIN main}
        BY <3>1
      <4>2. QED BY <2>3, <3>1, <3>2, <4>1
    <3>4. \A k \in DOMAIN main' : main'[k].ipsr # ipsr'
      BY <2>2, <2>3, <2>4, <3>1
    <3>5. \A j, k \in DOMAIN main' : main'[j].ipsr = main'[k].ipsr => j = k
      BY <2>2, <2>4, <3>1
    <3>6. QED BY <3>3, <3>4, <3>5 DEF ActiveMatchesFrames
  <2>10. QED BY <1>2, <2>5, <2>6, <2>7, <2>8, <2>9 DEF IInv
<1>8. QED
  BY <1>1, <1>5, <1>6, <1>7, HandlerFrame

-----------------------------------------------------------------------------
(* The theorems *)

LEMMA InstructionIInv ==
  ASSUME WellBehaved, IInv, Instruction
  PROVE  IInv'
<1>1. CASE Plain \/ Fault \/ Svc
  BY <1>1, PlainIInv, FaultIInv, PendingIInv
<1>2. CASE \E a \in Address : Branch(a) \/ BranchToEven(a)
  BY <1>2, PlainIInv, BranchToEvenIInv
<1>3. ASSUME NEW set \in SUBSET (Raisable \cap {NMI, PENDSV, SYSTICK}),
             NEW clear \in SUBSET (Raisable \cap {PENDSV, SYSTICK}),
             WritePending(set, clear)
      PROVE  IInv'
  <2>1. set \in SUBSET (Exceptions \ {NMI, HARDFAULT}) /\ clear \in SUBSET Exceptions
    BY CpuAssumption DEF WellBehaved, NMI, HARDFAULT, PENDSV, SYSTICK
  <2>2. QED BY <1>3, <2>1, PendingIInv
<1>4. ASSUME NEW lines \in SUBSET (Raisable \cap ExternalInterrupts),
             \/ WritePending(lines, {}) \/ WritePending({}, lines)
             \/ WriteEnable(lines, {})  \/ WriteEnable({}, lines)
      PROVE  IInv'
  <2>1. /\ lines \in SUBSET ExternalInterrupts /\ {} \in SUBSET ExternalInterrupts
        /\ lines \in SUBSET (Exceptions \ {NMI, HARDFAULT}) /\ lines \in SUBSET Exceptions
        /\ {} \in SUBSET (Exceptions \ {NMI, HARDFAULT}) /\ {} \in SUBSET Exceptions
    BY ExternalAssumption DEF Exceptions, NMI, HARDFAULT
  <2>2. CASE WriteEnable(lines, {}) \/ WriteEnable({}, lines)
    BY <2>1, <2>2, WriteEnableIInv
  <2>3. CASE WritePending(lines, {}) \/ WritePending({}, lines)
    BY <2>1, <2>3, PendingIInv
  <2>4. QED BY <1>4, <2>2, <2>3
<1>5. ASSUME NEW e \in Configurable \cap Raisable, NEW p \in Priorities, WritePriority(e, p)
      PROVE  IInv'
  BY <1>5, CpuAssumption, WritePriorityIInv
<1>6. CASE \/ \E pm \in BOOLEAN : WritePrimask(pm)
           \/ \E sel \in BOOLEAN : WriteControl(sel)
  BY <1>6, WriteSpecialIInv
<1>7. CASE \E t \in Tasks : WritePsp(t)
  BY <1>7, WritePspIInv
<1>8. CASE ExceptionReturn
  BY <1>8, ExceptionReturnIInv
<1>9. ~MismatchedReturn
  BY IInvHandlerCanReturn DEF MismatchedReturn, HandlerCanReturn
<1>10. QED BY <1>1, <1>2, <1>3, <1>4, <1>5, <1>6, <1>7, <1>8, <1>9 DEF Instruction

LEMMA StepIInv ==
  ASSUME WellBehaved, IInv, [Next]_vars
  PROVE  IInv'
<1>1. CASE UNCHANGED vars
  <2>1. TypeOK' /\ HardFaultAlone' /\ stage' # "lost"
    BY <1>1 DEF vars, vectorVars, coreVars, IInv, TypeOK, VectorTypeOK, HardFaultAlone
  <2>2. QED BY <1>1, <2>1, QuietIInv DEF vars, vectorVars, coreVars
<1>2. CASE \E e \in Exceptions : PeripheralRaise(e)
  BY <1>2, PeripheralIInv
<1>3. CASE Fetch
  BY <1>3, FetchIInv
<1>4. CASE TakeAsynchronous \/ TakeSynchronous
  BY <1>4, EntryIInv DEF TakeAsynchronous, TakeSynchronous
<1>5. CASE Instruction
  BY <1>5, InstructionIInv
<1>6. CASE Advance
  BY <1>6, AdvanceIInv
<1>7. CASE Reset
  BY <1>7, ResetIInv
<1>8. QED BY <1>1, <1>2, <1>3, <1>4, <1>5, <1>6, <1>7 DEF Next

\* The inductive invariant holds in every behaviour of a well-behaved program.
THEOREM InductiveInvariant == WellBehaved /\ Spec => []IInv
<1>1. Init => IInv
  BY InitIInv
<1>2. WellBehaved /\ IInv /\ [Next]_vars => IInv'
  BY StepIInv
<1>3. CASE WellBehaved
  <2>1. IInv /\ [Next]_vars => IInv'
    BY <1>2, <1>3
  <2>2. QED BY <1>1, <2>1, PTL DEF Spec
<1>4. QED BY <1>3

\* The flags, registers, frames and locals of step keep their types.
THEOREM TypeCorrect == WellBehaved /\ Spec => []TypeOK
<1>1. IInv => TypeOK
  BY DEF IInv
<1>2. QED BY <1>1, InductiveInvariant, PTL

\* The active flags are exactly the handlers with a context, each of them once.
THEOREM ActiveFlagsCorrect == WellBehaved /\ Spec => []ActiveMatchesFrames
<1>1. IInv => ActiveMatchesFrames
  BY DEF IInv
<1>2. QED BY <1>1, InductiveInvariant, PTL

\* No handler ever returns with an EXC_RETURN that the code reports as a mismatch.
THEOREM HandlersCanReturn == WellBehaved /\ Spec => []HandlerCanReturn
<1>1. IInv => HandlerCanReturn
  BY IInvHandlerCanReturn
<1>2. QED BY <1>1, InductiveInvariant, PTL

\* An exception is taken only when it beats every active one and PRIMASK allows it.
THEOREM PreemptionIsStrict == WellBehaved /\ Spec => StrictPreemption
<1> DEFINE Beats(e) == /\ \A a \in active : Priority(e) < Priority(a)
                       /\ primask => Priority(e) < 0
           A == \A e \in Exceptions : Taken(e) => Beats(e)
<1>1. ASSUME WellBehaved, IInv, [Next]_vars PROVE A \/ UNCHANGED vars
  <2>1. CASE TakeAsynchronous \/ TakeSynchronous
    <3>1. NextExceptionToTake # NoException /\ pending' = pending \ {NextExceptionToTake}
      BY <2>1 DEF TakeAsynchronous, TakeSynchronous, ExceptionEntry
    <3>2. \A e \in Exceptions : Taken(e) => e = NextExceptionToTake
      BY <3>1 DEF Taken
    <3>3. Beats(NextExceptionToTake)
      BY <1>1, <3>1, TakenExceptionBeatsActive DEF Priority, NMI, HARDFAULT, HARDFAULT_PRIORITY
    <3>4. QED BY <3>2, <3>3
  <2>2. CASE ~(TakeAsynchronous \/ TakeSynchronous)
    <3>1. CASE UNCHANGED vars
      BY <3>1
    <3>2. CASE (\E e \in Exceptions : PeripheralRaise(e)) \/ Fetch \/ Reset
      BY <1>1, <3>2 DEF PeripheralRaise, Fetch, Reset, Taken, IInv
    <3>3. CASE Instruction
      <4>1. stage' # "fetch"
        BY <3>3 DEF Instruction, Plain, Branch, BranchToEven, Fault, Svc, WritePending,
             WriteEnable, WritePriority, WritePrimask, WriteControl, WritePsp,
             ExceptionReturn, MismatchedReturn, Execute
      <4>2. QED BY <4>1 DEF Taken
    <3>4. CASE Advance
      BY <3>4 DEF Advance, Taken, vectorVars
    <3>5. QED BY <1>1, <2>2, <3>1, <3>2, <3>3, <3>4 DEF Next
  <2>3. QED BY <2>1, <2>2
<1>2. CASE WellBehaved
  <2>1. IInv /\ [Next]_vars => [A]_vars
    BY <1>1, <1>2
  <2>2. Spec => [][A]_vars
    BY <1>2, <2>1, InductiveInvariant, PTL DEF Spec
  <2>3. QED BY <2>2 DEF StrictPreemption
<1>3. QED BY <1>2

-----------------------------------------------------------------------------
(* Which exception is taken, and when *)

\* HardFault is taken as soon as it is pending.
LEMMA HardFaultIsTaken ==
  ASSUME WellBehaved, IInv, HARDFAULT \in pending
  PROVE  NextExceptionToTake = HARDFAULT
<1>1. VectorTypeOK /\ primask \in BOOLEAN
  BY DEF IInv, TypeOK
<1>2. HARDFAULT \notin active /\ NMI \notin active \cup pending
  BY DEF IInv, HardFaultAlone
<1>3. HARDFAULT \in Candidates /\ HARDFAULT \in Exceptions /\ HARDFAULT # NoException
  BY DEF Candidates, IsEnabled, InternalExceptions, Exceptions, HARDFAULT, NoException
<1>4. \A e \in Exceptions \ {NMI} :
        IF e = HARDFAULT THEN Priority(e) = -1 ELSE Priority(e) \in 0..3
  BY <1>1 DEF Priority, VectorTypeOK, Configurable, PriorityLevels, HARDFAULT_PRIORITY,
              NMI, HARDFAULT
<1>5. Candidates \subseteq Exceptions \ {NMI}
  BY <1>1, <1>2 DEF Candidates, VectorTypeOK
<1>6. TopPending \in Candidates /\ \A f \in Candidates \ {TopPending} : Precedes(TopPending, f)
  BY <1>1, <1>3, TopPendingCorrect
<1>7. TopPending = HARDFAULT
  <2>1. SUFFICES ASSUME TopPending # HARDFAULT PROVE FALSE
    OBVIOUS
  <2>2. Precedes(TopPending, HARDFAULT)
    BY <1>3, <1>6, <2>1
  <2>3. Priority(TopPending) \in 0..3 /\ Priority(HARDFAULT) = -1
    BY <1>3, <1>4, <1>5, <1>6, <2>1 DEF NMI, HARDFAULT
  <2> QED BY <2>2, <2>3 DEF Precedes
<1>8. Priority(HARDFAULT) < CurrentExecutionPriority(primask)
  <2>1. Priority(HARDFAULT) = -1
    BY <1>3, <1>4 DEF NMI, HARDFAULT
  <2>2. CASE primask
    <3>1. CurrentExecutionPriority(primask) = 0
      BY <1>1, <2>2, ExecutionPriorityCorrect
    <3> QED BY <2>1, <3>1
  <2>3. CASE ~primask
    <3>1. \/ CurrentExecutionPriority(primask) = THREAD_MODE_PRIORITY
          \/ \E a \in ScannedActive : CurrentExecutionPriority(primask) = Priority(a)
      BY <1>1, <2>3, ExecutionPriorityCorrect
    <3>2. \A a \in ScannedActive : Priority(a) \in 0..3
      BY <1>1, <1>2, <1>4 DEF ScannedActive, VectorTypeOK
    <3> QED BY <2>1, <3>1, <3>2 DEF THREAD_MODE_PRIORITY
  <2> QED BY <2>2, <2>3
<1> QED
  BY <1>3, <1>7, <1>8 DEF NextExceptionToTake

\* When step takes nothing, nothing deserves to interrupt what runs.
LEMMA NothingTakenNothingPreempts ==
  ASSUME VectorTypeOK, primask \in BOOLEAN, NextExceptionToTake = NoException
  PROVE  Preempting = {}
<1>1. SUFFICES ASSUME NEW e \in Preempting PROVE FALSE
  OBVIOUS
<1>2. /\ e \in Candidates /\ e \in Exceptions
      /\ \A a \in active : Priority(e) < Priority(a)
      /\ primask => Priority(e) < 0
  BY DEF Preempting, Candidates, VectorTypeOK
<1>3. /\ TopPending # NoException /\ TopPending \in Candidates
      /\ \A f \in Candidates \ {TopPending} : Precedes(TopPending, f)
  BY <1>2, TopPendingCorrect
<1>4. ~(Priority(TopPending) < CurrentExecutionPriority(primask))
  BY <1>3 DEF NextExceptionToTake
<1>5. /\ TopPending \in Exceptions /\ Priority(TopPending) \in -2..3 /\ Priority(e) \in -2..3
      /\ CurrentExecutionPriority(primask) \in -2..4
  BY <1>2, <1>3, PriorityBounded, ExecutionPriorityCorrect DEF Candidates, VectorTypeOK
<1>6. Priority(TopPending) <= Priority(e)
  <2>1. CASE e = TopPending
    BY <1>5, <2>1
  <2>2. CASE e # TopPending
    <3>1. Precedes(TopPending, e)
      BY <1>2, <1>3, <2>2
    <3> QED BY <1>5, <3>1 DEF Precedes
  <2> QED BY <2>1, <2>2
<1>7. CASE primask
  <2>1. CurrentExecutionPriority(primask) = 0
    BY <1>7, ExecutionPriorityCorrect
  <2>2. Priority(e) < 0
    BY <1>2, <1>7
  <2> QED BY <1>4, <1>5, <1>6, <2>1, <2>2
<1>8. CASE ~primask
  <2>1. \/ CurrentExecutionPriority(primask) = THREAD_MODE_PRIORITY
        \/ \E a \in ScannedActive : CurrentExecutionPriority(primask) = Priority(a)
    BY <1>8, ExecutionPriorityCorrect
  <2>2. CASE CurrentExecutionPriority(primask) = THREAD_MODE_PRIORITY
    BY <1>4, <1>5, <1>6, <2>2 DEF THREAD_MODE_PRIORITY
  <2>3. ASSUME NEW a \in ScannedActive, CurrentExecutionPriority(primask) = Priority(a) PROVE FALSE
    <3>1. Priority(e) < Priority(a)
      BY <1>2 DEF ScannedActive
    <3> QED BY <1>4, <1>5, <1>6, <2>3, <3>1
  <2> QED BY <2>1, <2>2, <2>3
<1> QED BY <1>7, <1>8

\* The exception that is taken comes before all others, so none of them may
\* interrupt it at once.
LEMMA EntryLeavesNothing ==
  ASSUME WellBehaved, IInv, NextExceptionToTake # NoException, ExceptionEntry(NextExceptionToTake)
  PROVE  Preempting' = {}
<1> DEFINE ex == NextExceptionToTake
<1>1. SUFFICES ASSUME NEW e \in Preempting' PROVE FALSE
  OBVIOUS
<1>2. /\ active' = active \cup {ex} /\ pending' = pending \ {ex}
      /\ enabled' = enabled /\ prio' = prio
  BY DEF ExceptionEntry
<1>3. \A f : Priority(f)' = Priority(f)
  BY <1>2 DEF Priority
<1>4. e \in Candidates \ {ex}
  BY <1>2 DEF Preempting, Candidates, IsEnabled
<1>5. Priority(e) < Priority(ex)
  <2>1. ex \in active'
    BY <1>2
  <2>2. \A a \in active' : Priority(e)' < Priority(a)'
    BY DEF Preempting
  <2> QED BY <1>3, <2>1, <2>2
<1>6. VectorTypeOK /\ ex = TopPending
  BY DEF NextExceptionToTake, IInv, TypeOK
<1>7. Precedes(ex, e) /\ ex \in Candidates
  BY <1>4, <1>6, TopPendingCorrect
<1>8. Priority(e) \in Int /\ Priority(ex) \in Int
  <2>1. e \in Exceptions /\ ex \in Exceptions
    BY <1>4, <1>6, <1>7 DEF Candidates, VectorTypeOK
  <2> QED BY <1>6, <2>1, PriorityBounded
<1> QED
  BY <1>5, <1>7, <1>8 DEF Precedes

\* The steps that end a call of cpu::step, and what the others leave alone.
LEMMA OnlyThreeEndStep ==
  ASSUME IInv, Next, stage # "fetch", stage' = "fetch"
  PROVE  TakeAsynchronous \/ TakeSynchronous \/ Advance
<1>1. ~Instruction
  BY DEF Instruction, Plain, Branch, BranchToEven, Fault, Svc, WritePending, WriteEnable,
         WritePriority, WritePrimask, WriteControl, WritePsp, ExceptionReturn, MismatchedReturn,
         Execute
<1> QED
  BY <1>1 DEF Next, PeripheralRaise, Fetch, Reset, IInv

\* A step never ends with an exception left waiting that should interrupt.
THEOREM NothingIsLeftWaiting == WellBehaved /\ Spec => NothingLeftWaiting
<1> DEFINE A == stage # "fetch" /\ stage' = "fetch" => Preempting' = {}
<1>1. ASSUME WellBehaved, IInv, Next, stage # "fetch", stage' = "fetch" PROVE Preempting' = {}
  <2>1. CASE TakeAsynchronous \/ TakeSynchronous
    BY <1>1, <2>1, EntryLeavesNothing DEF TakeAsynchronous, TakeSynchronous
  <2>2. CASE Advance
    <3>1. Preempting = {}
      BY <1>1, <2>2, NothingTakenNothingPreempts DEF Advance, IInv, TypeOK
    <3>2. UNCHANGED <<active, pending, enabled, prio, primask>>
      BY <2>2 DEF Advance, vectorVars, coreVars
    <3>3. Preempting' = Preempting
      BY <3>2 DEF Preempting, Candidates, IsEnabled, Priority
    <3> QED BY <3>1, <3>3
  <2> QED BY <1>1, <2>1, <2>2, OnlyThreeEndStep
<1>2. CASE WellBehaved
  <2>1. IInv /\ [Next]_vars => [A]_vars
    BY <1>1, <1>2
  <2>2. Spec => [][A]_vars
    BY <1>2, <2>1, InductiveInvariant, PTL DEF Spec
  <2> QED BY <2>2 DEF NothingLeftWaiting
<1> QED BY <1>2

-----------------------------------------------------------------------------
(* Where the interrupted code goes on *)

\* The locals of step agree with what has become of the instruction: before it
\* PC names it, and after it HardFault is pending exactly when it faulted.
LocalsInv ==
  /\ stage \in {"fetch", "decide"} => branched
  /\ stage = "decide" => cur = pc /\ outcome = "none"
  /\ stage = "retire" =>
       /\ outcome \in {"done", "fault"}
       /\ outcome = "fault" <=> HARDFAULT \in pending

LEMMA LocalsInit == Init => LocalsInv
BY DEF Init, LocalsInv

LEMMA LocalsStep == ASSUME WellBehaved, IInv, LocalsInv, [Next]_vars PROVE LocalsInv'
<1>1. CASE UNCHANGED vars
  BY <1>1 DEF vars, vectorVars, LocalsInv
<1>2. CASE (\E e \in Exceptions : PeripheralRaise(e)) \/ Fetch
  BY <1>2 DEF PeripheralRaise, Fetch, LocalsInv
<1>3. CASE TakeAsynchronous \/ TakeSynchronous \/ Advance \/ Reset
  BY <1>3 DEF TakeAsynchronous, TakeSynchronous, ExceptionEntry, Advance, Reset, EndStep, LocalsInv
<1>4. CASE Instruction
  <2>1. ~MismatchedReturn
    BY IInvHandlerCanReturn DEF MismatchedReturn, HandlerCanReturn
  <2>2. NextExceptionToTake = NoException /\ stage' = "retire" /\ outcome' = IF Fault THEN "fault" ELSE "done"
    BY <1>4, <2>1 DEF Instruction, Plain, Branch, BranchToEven, Fault, Svc, WritePending, WriteEnable,
         WritePriority, WritePrimask, WriteControl, WritePsp, ExceptionReturn, Execute
  <2>3. HARDFAULT \notin pending
    BY <2>2, HardFaultIsTaken DEF HARDFAULT, NoException
  <2>4. CASE Fault
    BY <2>2, <2>4 DEF Fault, LocalsInv
  <2>5. CASE ~Fault
    <3>1. HARDFAULT \notin pending'
      <4>1. CASE \E set \in SUBSET (Raisable \cap {NMI, PENDSV, SYSTICK}),
                    clear \in SUBSET (Raisable \cap {PENDSV, SYSTICK}) : WritePending(set, clear)
        BY <2>3, <4>1 DEF WritePending, HARDFAULT, NMI, PENDSV, SYSTICK
      <4>2. CASE \E lines \in SUBSET (Raisable \cap ExternalInterrupts) :
                   WritePending(lines, {}) \/ WritePending({}, lines)
        <5>1. HARDFAULT \notin ExternalInterrupts
          BY ExternalAssumption DEF HARDFAULT
        <5> QED BY <2>3, <4>2, <5>1 DEF WritePending
      <4>3. CASE Svc
        BY <2>3, <4>3 DEF Svc, HARDFAULT, SVCALL
      <4>4. CASE UNCHANGED pending
        BY <2>3, <4>4
      <4> QED
        BY <1>4, <2>1, <2>5, <4>1, <4>2, <4>3, <4>4
        DEF Instruction, Plain, Branch, BranchToEven, WriteEnable,
            WritePriority, WritePrimask, WriteControl, WritePsp, ExceptionReturn, vectorVars
    <3> QED BY <2>2, <2>5, <3>1 DEF LocalsInv
  <2> QED BY <2>4, <2>5
<1> QED BY <1>1, <1>2, <1>3, <1>4 DEF Next

\* The return address is that of the first instruction that has not completed.
LEMMA ReturnAddressIs ==
  ASSUME WellBehaved, IInv, LocalsInv, stage \in {"decide", "retire"},
         NextExceptionToTake # NoException
  PROVE  ReturnAddress(NextExceptionToTake) = FirstUncompleted
<1>1. CASE stage = "decide"
  BY <1>1 DEF LocalsInv, ReturnAddress, FirstUncompleted, NextInstructionAddress
<1>2. CASE stage = "retire"
  <2>1. NextExceptionToTake = HARDFAULT <=> HARDFAULT \in pending
    BY HardFaultIsTaken, TakenExceptionBeatsActive
  <2> QED
    BY <1>2, <2>1 DEF LocalsInv, ReturnAddress, FirstUncompleted
<1> QED BY <1>1, <1>2

\* The stacked return address names the first instruction of the interrupted code
\* that has not completed.
THEOREM ReturnAddressesAreExact == WellBehaved /\ Spec => ReturnAddressExact
<1> DEFINE Stacked == IF OnProcessStack THEN process'[task].pc ELSE main'[Len(main')].pc
           A == \A e \in Exceptions : Taken(e) => FirstUncompleted = Stacked
<1>1. ASSUME WellBehaved, IInv, LocalsInv, Next, NEW e \in Exceptions, Taken(e)
      PROVE  FirstUncompleted = Stacked
  <2>1. TakeAsynchronous \/ TakeSynchronous
    BY <1>1, OnlyThreeEndStep DEF Taken, Advance, vectorVars
  <2>2. NextExceptionToTake # NoException /\ ExceptionEntry(NextExceptionToTake)
        /\ stage \in {"decide", "retire"}
    BY <2>1 DEF TakeAsynchronous, TakeSynchronous
  <2>3. ReturnAddress(NextExceptionToTake) = FirstUncompleted
    BY <1>1, <2>2, ReturnAddressIs
  <2> DEFINE frame == [pc |-> ReturnAddress(NextExceptionToTake), ipsr |-> ipsr, thumb |-> thumb, lr |-> lr]
  <2>4. PushStack(frame)
    BY <2>2 DEF ExceptionEntry
  <2>5. frame.pc = FirstUncompleted
    BY <2>3
  <2> HIDE DEF frame
  <2>6. task \in Tasks /\ process \in [Tasks -> Frame \cup {NoFrame}] /\ main \in Seq(Frame)
    BY <1>1 DEF IInv, TypeOK
  <2>7. CASE OnProcessStack
    BY <2>4, <2>5, <2>6, <2>7 DEF PushStack
  <2>8. CASE ~OnProcessStack
    <3>1. main' = Append(main, frame)
      BY <2>4, <2>8 DEF PushStack
    <3>2. main'[Len(main')] = frame
      BY <2>6, <3>1
    <3> QED BY <2>5, <2>8, <3>2
  <2> QED BY <2>7, <2>8
<1>2. CASE WellBehaved
  <2>1. IInv /\ LocalsInv /\ [Next]_vars => [A]_vars
    BY <1>1, <1>2
  <2>2. IInv /\ LocalsInv /\ [Next]_vars => LocalsInv'
    BY <1>2, LocalsStep
  <2>3. Spec => [][A]_vars
    BY <1>2, <2>1, <2>2, LocalsInit, InductiveInvariant, PTL DEF Spec
  <2> QED BY <2>3 DEF ReturnAddressExact
<1> QED BY <1>2

-----------------------------------------------------------------------------
(* Where a task goes on *)

\* The frame an interrupted task left holds the address where it must go on.
ResumeInv ==
  /\ \A t \in Tasks : process[t] # NoFrame => process[t].pc = resume[t]
  /\ mode = "handler" /\ main # <<>> /\ main[1].ipsr = 0 => main[1].pc = resume[task]

LEMMA ResumeInit == Init => ResumeInv
BY DEF Init, PreparedTasks, PreparedFrame, ResumeInv

LEMMA EntryResumes ==
  ASSUME WellBehaved, IInv, LocalsInv, ResumeInv, stage \in {"decide", "retire"},
         NextExceptionToTake # NoException, ExceptionEntry(NextExceptionToTake)
  PROVE  ResumeInv'
<1> DEFINE frame == [pc |-> ReturnAddress(NextExceptionToTake), ipsr |-> ipsr, thumb |-> thumb, lr |-> lr]
<1>1. /\ TypeOK /\ mode' = "handler" /\ UNCHANGED task /\ PushStack(frame)
      /\ resume' = IF mode = "thread" THEN [resume EXCEPT ![task] = FirstUncompleted] ELSE resume
  BY DEF ExceptionEntry, IInv
<1>2. frame.pc = FirstUncompleted /\ frame.ipsr = ipsr
  BY ReturnAddressIs
<1>3. /\ task \in Tasks /\ process \in [Tasks -> Frame \cup {NoFrame}] /\ main \in Seq(Frame)
      /\ resume \in [Tasks -> Address] /\ mode \in {"thread", "handler"}
  BY <1>1 DEF TypeOK
<1> HIDE DEF frame
<1>4. CASE OnProcessStack
  <2>1. /\ process' = [process EXCEPT ![task] = frame] /\ main' = <<>>
        /\ resume' = [resume EXCEPT ![task] = FirstUncompleted]
    BY <1>1, <1>4 DEF PushStack, OnProcessStack, IInv, ThreadShape
  <2> QED BY <1>2, <1>3, <2>1 DEF ResumeInv
<1>5. CASE mode = "thread" /\ ~OnProcessStack
  <2>1. /\ main = <<>> /\ main' = Append(main, frame) /\ process[task] = NoFrame
        /\ process' = process /\ resume' = [resume EXCEPT ![task] = FirstUncompleted]
    BY <1>1, <1>5 DEF PushStack, IInv, ThreadShape
  <2>2. main'[1] = frame
    BY <2>1
  <2> QED BY <1>1, <1>2, <1>3, <2>1, <2>2 DEF ResumeInv
<1>6. CASE mode = "handler"
  <2>1. main' = Append(main, frame) /\ process' = process /\ resume' = resume /\ ipsr # 0
    BY <1>1, <1>6 DEF PushStack, OnProcessStack, IInv, ThreadFrame
  <2>2. CASE main = <<>>
    <3>1. main'[1] = frame
      BY <2>1, <2>2
    <3> QED BY <1>2, <2>1, <3>1 DEF ResumeInv
  <2>3. CASE main # <<>>
    <3>1. main'[1] = main[1]
      BY <1>3, <2>1, <2>3
    <3> QED BY <1>1, <1>6, <2>1, <2>3, <3>1 DEF ResumeInv
  <2> QED BY <2>2, <2>3
<1> QED BY <1>3, <1>4, <1>5, <1>6

\* A handler returns to a thread with the frame of that thread.
LEMMA ReturnResumes ==
  ASSUME WellBehaved, IInv, ResumeInv, ExceptionReturn
  PROVE  ResumeInv' /\ (mode' = "thread" => pc' = resume[task])
<1>1. /\ TypeOK /\ mode = "handler" /\ UNCHANGED task
      /\ resume' = IF lr = ToHandler THEN resume ELSE [resume EXCEPT ![task] = 0]
      /\ mode' = IF lr = ToHandler THEN "handler" ELSE "thread"
  BY DEF ExceptionReturn, IInv
<1>2. /\ task \in Tasks /\ process \in [Tasks -> Frame \cup {NoFrame}] /\ main \in Seq(Frame)
      /\ resume \in [Tasks -> Address]
  BY <1>1 DEF TypeOK
<1>3. CASE lr = ToThreadProcess
  <2>1. process[task] # NoFrame
    BY <1>1, <1>3, HandlerFrame, NoFrameAssumption DEF ToHandler, ToThreadMain, ToThreadProcess
  <2>2. Unstack(process[task]) /\ process' = [process EXCEPT ![task] = NoFrame]
    BY <1>3 DEF ExceptionReturn
  <2>3. pc' = resume[task]
    BY <1>2, <2>1, <2>2 DEF ResumeInv, Unstack, BranchTo
  <2>4. resume' = [resume EXCEPT ![task] = 0] /\ mode' = "thread"
    BY <1>1, <1>3 DEF ToHandler, ToThreadProcess
  <2> QED BY <1>2, <2>2, <2>3, <2>4 DEF ResumeInv
<1>4. CASE lr = ToThreadMain
  <2>1. Len(main) = 1 /\ main[1].ipsr = 0 /\ process[task] = NoFrame
    BY <1>1, <1>4, HandlerFrame DEF ToHandler, ToThreadMain, ToThreadProcess
  <2>2. Unstack(main[1]) /\ process' = process
    BY <1>4, <2>1 DEF ExceptionReturn, ToThreadMain, ToThreadProcess
  <2>3. main # <<>>
    BY <2>1
  <2>4. pc' = resume[task]
    BY <1>1, <2>1, <2>2, <2>3 DEF ResumeInv, Unstack, BranchTo
  <2>5. resume' = [resume EXCEPT ![task] = 0] /\ mode' = "thread"
    BY <1>1, <1>4 DEF ToHandler, ToThreadMain
  <2> QED BY <1>2, <2>1, <2>2, <2>4, <2>5 DEF ResumeInv
<1>5. CASE lr = ToHandler
  <2>1. /\ main' = SubSeq(main, 1, Len(main) - 1) /\ process' = process
        /\ resume' = resume /\ mode' = "handler"
    BY <1>1, <1>5 DEF ExceptionReturn, ToHandler, ToThreadProcess
  <2>2. Len(main) \in DOMAIN main
    BY <1>1, <1>5, HandlerFrame DEF ToHandler, ToThreadMain, ToThreadProcess
  <2>3. Len(main) \in Nat \ {0}
    BY <1>2, <2>2
  <2>4. main' = <<>> \/ (main # <<>> /\ main'[1] = main[1])
    <3>1. CASE Len(main) = 1
      BY <1>2, <2>1, <3>1
    <3>2. CASE Len(main) # 1
      BY <1>2, <2>1, <2>3, <3>2
    <3> QED BY <3>1, <3>2
  <2> QED BY <1>1, <2>1, <2>4 DEF ResumeInv
<1> QED BY <1>1, <1>3, <1>4, <1>5, HandlerFrame

LEMMA ResumeStep ==
  ASSUME WellBehaved, IInv, LocalsInv, ResumeInv, [Next]_vars
  PROVE  ResumeInv'
<1>1. CASE UNCHANGED <<process, resume, mode, main, task>>
  BY <1>1 DEF ResumeInv
<1>2. CASE TakeAsynchronous \/ TakeSynchronous
  BY <1>2, EntryResumes DEF TakeAsynchronous, TakeSynchronous
<1>3. CASE ExceptionReturn
  BY <1>3, ReturnResumes
<1>4. CASE \E t \in Tasks : WritePsp(t)
  <2>1. UNCHANGED <<process, resume, mode, main>> /\ lr = ToThreadProcess
    BY <1>4 DEF WritePsp
  <2>2. mode = "handler" => main = <<>>
    BY <2>1, HandlerFrame DEF ToHandler, ToThreadMain, ToThreadProcess
  <2> QED BY <2>1, <2>2 DEF ResumeInv
<1>5. CASE Reset
  <2>1. main' = <<>>
    BY <1>5 DEF Reset, IInv, ThreadShape, ThreadFrame, TypeOK
  <2> QED BY <1>5, <2>1 DEF Reset, ResumeInv, PreparedTasks, PreparedFrame
<1>6. ~MismatchedReturn
  BY IInvHandlerCanReturn DEF MismatchedReturn, HandlerCanReturn
<1>7. CASE (\E e \in Exceptions : PeripheralRaise(e)) \/ Fetch \/ Advance \/ UNCHANGED vars
  BY <1>1, <1>7 DEF PeripheralRaise, Fetch, Advance, coreVars, vars
<1>8. CASE Instruction /\ ~ExceptionReturn /\ ~(\E t \in Tasks : WritePsp(t))
  BY <1>1, <1>6, <1>8 DEF Instruction, Plain, Branch, BranchToEven, Fault, Svc, WritePending,
     WriteEnable, WritePriority, WritePrimask, WriteControl, coreVars
<1> QED BY <1>2, <1>3, <1>4, <1>5, <1>7, <1>8 DEF Next

\* When the last handler returns, the task that runs then goes on where it stopped.
THEOREM ThreadsResume == WellBehaved /\ Spec => ThreadResumes
<1> DEFINE A == mode = "handler" /\ mode' = "thread" /\ stage = "decide" => pc' = resume[task]
<1>1. ASSUME WellBehaved, IInv, ResumeInv, Next,
             mode = "handler", mode' = "thread", stage = "decide"
      PROVE  pc' = resume[task]
  <2>1. ExceptionReturn
    BY <1>1 DEF Next, PeripheralRaise, Fetch, TakeAsynchronous, TakeSynchronous, ExceptionEntry,
       Advance, Reset, Instruction, Plain, Branch, BranchToEven, Fault, Svc, WritePending,
       WriteEnable, WritePriority, WritePrimask, WriteControl, WritePsp, MismatchedReturn, coreVars
  <2> QED BY <1>1, <2>1, ReturnResumes
<1>2. CASE WellBehaved
  <2>1. IInv /\ ResumeInv /\ [Next]_vars => [A]_vars
    BY <1>1, <1>2
  <2>2. IInv /\ LocalsInv /\ [Next]_vars => LocalsInv'
    BY <1>2, LocalsStep
  <2>3. IInv /\ LocalsInv /\ ResumeInv /\ [Next]_vars => ResumeInv'
    BY <1>2, ResumeStep
  <2>4. Spec => [][A]_vars
    BY <1>2, <2>1, <2>2, <2>3, LocalsInit, ResumeInit, InductiveInvariant, PTL DEF Spec
  <2> QED BY <2>4 DEF ThreadResumes
<1> QED BY <1>2

-----------------------------------------------------------------------------
(* The return address in every program, also one that re-enters its handlers *)

\* What is left of the types when a return may mismatch.
StacksInv ==
  /\ VectorTypeOK /\ primask \in BOOLEAN
  /\ task \in Tasks /\ process = [t \in Tasks |-> process[t]]
  /\ \E S : main \in Seq(S)

\* After a fault nothing but HardFault can be taken.
OnlyFaultInv ==
  /\ stage \in {"fetch", "decide"} => branched
  /\ stage = "decide" => cur = pc
  /\ stage = "retire" => outcome \in {"done", "fault"}
  /\ stage = "retire" /\ outcome = "fault" =>
       \A f \in Candidates \ {HARDFAULT} : ~(Priority(f) < CurrentExecutionPriority(primask))

LEMMA StacksInit == Init => StacksInv /\ OnlyFaultInv
<1> SUFFICES ASSUME Init PROVE StacksInv /\ OnlyFaultInv
  OBVIOUS
<1>1. VectorTypeOK
  BY DEF Init, VectorInit, VectorTypeOK, NoPriority, PriorityLevels
<1>2. main \in Seq({})
  BY DEF Init
<1>3. process = [t \in Tasks |-> process[t]] /\ task \in Tasks
  BY CpuAssumption DEF Init, PreparedTasks
<1>4. OnlyFaultInv
  BY DEF Init, OnlyFaultInv
<1> QED BY <1>1, <1>2, <1>3, <1>4 DEF Init, StacksInv

\* The context that is left goes on top of the main stack.
LEMMA AppendStack ==
  ASSUME NEW S, NEW s \in Seq(S), NEW e
  PROVE  /\ Append(s, e) \in Seq(S \cup {e})
         /\ Append(s, e)[Len(Append(s, e))] = e
<1>1. s \in Seq(S \cup {e})
  OBVIOUS
<1> QED BY <1>1, AppendProperties

LEMMA FrontStack ==
  ASSUME NEW S, NEW s \in Seq(S)
  PROVE  SubSeq(s, 1, Len(s) - 1) \in Seq(S)
OBVIOUS

LEMMA StacksStep == StacksInv /\ [Next]_vars => StacksInv'
<1> SUFFICES ASSUME StacksInv, [Next]_vars PROVE StacksInv'
  OBVIOUS
<1> USE CpuAssumption
<1>1. VectorTypeOK /\ primask \in BOOLEAN
  BY DEF StacksInv
<1>2. HARDFAULT \in Exceptions /\ SVCALL \in Exceptions
  BY DEF Exceptions, InternalExceptions, HARDFAULT, SVCALL
<1>3. CASE UNCHANGED <<active, pending, enabled, prio, primask, task, process, main>>
  BY <1>3 DEF StacksInv, VectorTypeOK
<1>4. CASE (\E e \in Exceptions : PeripheralRaise(e)) \/ Fetch \/ Fault \/ Svc
  <2>1. UNCHANGED <<active, enabled, prio, primask, task, process, main>>
    BY <1>4 DEF PeripheralRaise, Fetch, Fault, Svc, coreVars
  <2>2. pending' \subseteq Exceptions
    BY <1>1, <1>2, <1>4 DEF PeripheralRaise, Fetch, Fault, Svc, VectorTypeOK
  <2> QED BY <2>1, <2>2 DEF StacksInv, VectorTypeOK
<1>5. ASSUME NEW ex, ex = NextExceptionToTake, ex # NoException, ExceptionEntry(ex) PROVE StacksInv'
  <2>1. ex \in Exceptions
    BY <1>1, <1>5, TopPendingCorrect DEF NextExceptionToTake, Candidates, VectorTypeOK
  <2>2. VectorTypeOK' /\ UNCHANGED <<primask, task>>
    BY <1>1, <1>5, <2>1 DEF ExceptionEntry, VectorTypeOK
  <2>3. PICK frame : PushStack(frame)
    BY <1>5 DEF ExceptionEntry
  <2>4. process' = [t \in Tasks |-> process'[t]]
    BY <2>3 DEF PushStack, StacksInv
  <2>5. \E S : main' \in Seq(S)
    <3>1. PICK S : main \in Seq(S)
      BY DEF StacksInv
    <3>2. main' = main \/ main' = Append(main, frame)
      BY <2>3 DEF PushStack
    <3>3. Append(main, frame) \in Seq(S \cup {frame})
      BY <3>1, AppendStack
    <3> QED BY <3>1, <3>2, <3>3
  <2> QED BY <2>2, <2>4, <2>5 DEF StacksInv
<1>6. CASE ExceptionReturn
  <2>1. VectorTypeOK' /\ UNCHANGED <<primask, task>>
    BY <1>1, <1>6 DEF ExceptionReturn, VectorTypeOK
  <2>2. process' = [t \in Tasks |-> process'[t]]
    BY <1>6 DEF ExceptionReturn, StacksInv
  <2>3. \E S : main' \in Seq(S)
    <3>1. PICK S : main \in Seq(S)
      BY DEF StacksInv
    <3>2. main' = main \/ main' = SubSeq(main, 1, Len(main) - 1)
      BY <1>6 DEF ExceptionReturn
    <3> QED BY <3>1, <3>2, FrontStack
  <2> QED BY <2>1, <2>2, <2>3 DEF StacksInv
<1>7. CASE MismatchedReturn
  BY <1>7 DEF MismatchedReturn, StacksInv, VectorTypeOK, coreVars
<1>8. CASE Reset
  <2>1. VectorTypeOK'
    BY <1>8 DEF Reset, VectorReset, VectorTypeOK, NoPriority, PriorityLevels
  <2>2. primask' \in BOOLEAN /\ task' \in Tasks
    BY <1>8 DEF Reset
  <2>3. process' = [t \in Tasks |-> process'[t]]
    BY <1>8 DEF Reset, PreparedTasks
  <2>4. \E S : main' \in Seq(S)
    <3>1. PICK S : main \in Seq(S)
      BY DEF StacksInv
    <3>2. main' = main \/ main' = <<>>
      BY <1>8 DEF Reset
    <3>3. <<>> \in Seq(S)
      OBVIOUS
    <3> QED BY <3>1, <3>2, <3>3
  <2> QED BY <2>1, <2>2, <2>3, <2>4 DEF StacksInv
<1>9. ASSUME NEW set \in SUBSET Raisable, NEW clear \in SUBSET Raisable, WritePending(set, clear)
      PROVE  StacksInv'
  BY <1>1, <1>9 DEF WritePending, StacksInv, VectorTypeOK, coreVars
<1>10. ASSUME NEW set \in SUBSET ExternalInterrupts, NEW clear \in SUBSET ExternalInterrupts,
              WriteEnable(set, clear)
       PROVE  StacksInv'
  BY <1>1, <1>10 DEF WriteEnable, StacksInv, VectorTypeOK, coreVars
<1>11. CASE \E e \in Configurable \cap Raisable, p \in Priorities : WritePriority(e, p)
  BY <1>1, <1>11 DEF WritePriority, StacksInv, VectorTypeOK, coreVars
<1>12. CASE \/ \E pm \in BOOLEAN : WritePrimask(pm)
            \/ \E sel \in BOOLEAN : WriteControl(sel)
            \/ \E t \in Tasks : WritePsp(t)
  BY <1>1, <1>12 DEF WritePrimask, WriteControl, WritePsp, StacksInv, VectorTypeOK, vectorVars
<1>13. CASE Plain \/ Advance \/ (\E a \in Address : Branch(a) \/ BranchToEven(a)) \/ UNCHANGED vars
  BY <1>3, <1>13 DEF Plain, Advance, Branch, BranchToEven, vars, vectorVars, coreVars
<1>14. CASE Instruction
  <2>1. ASSUME NEW set \in SUBSET (Raisable \cap {NMI, PENDSV, SYSTICK}),
               NEW clear \in SUBSET (Raisable \cap {PENDSV, SYSTICK}), WritePending(set, clear)
        PROVE  StacksInv'
    BY <1>9, <2>1
  <2>2. ASSUME NEW lines \in SUBSET (Raisable \cap ExternalInterrupts),
               \/ WritePending(lines, {}) \/ WritePending({}, lines)
               \/ WriteEnable(lines, {})  \/ WriteEnable({}, lines)
        PROVE  StacksInv'
    BY <1>9, <1>10, <2>2
  <2> QED
    BY <1>4, <1>6, <1>7, <1>11, <1>12, <1>13, <1>14, <2>1, <2>2 DEF Instruction
<1> QED
  BY <1>4, <1>5, <1>8, <1>13, <1>14 DEF Next, TakeAsynchronous, TakeSynchronous

\* If nothing is taken, no candidate passes the execution priority.
LEMMA NothingTakenNothingPasses ==
  ASSUME VectorTypeOK, primask \in BOOLEAN, NextExceptionToTake = NoException, NEW f \in Candidates
  PROVE  ~(Priority(f) < CurrentExecutionPriority(primask))
<1>1. /\ TopPending # NoException /\ TopPending \in Candidates
      /\ f # TopPending => Precedes(TopPending, f)
  BY TopPendingCorrect
<1>2. ~(Priority(TopPending) < CurrentExecutionPriority(primask))
  BY <1>1 DEF NextExceptionToTake
<1>3. /\ Priority(TopPending) \in Int /\ Priority(f) \in Int
      /\ CurrentExecutionPriority(primask) \in Int
  <2>1. TopPending \in Exceptions /\ f \in Exceptions
    BY <1>1 DEF Candidates, VectorTypeOK
  <2> QED BY <2>1, PriorityBounded, ExecutionPriorityCorrect
<1>4. CASE f = TopPending
  BY <1>2, <1>4
<1>5. CASE f # TopPending
  BY <1>1, <1>2, <1>3, <1>5 DEF Precedes
<1> QED BY <1>4, <1>5

LEMMA OnlyFaultStep == StacksInv /\ OnlyFaultInv /\ [Next]_vars => OnlyFaultInv'
<1> SUFFICES ASSUME StacksInv, OnlyFaultInv, [Next]_vars PROVE OnlyFaultInv'
  OBVIOUS
<1>1. CASE UNCHANGED vars
  BY <1>1 DEF vars, vectorVars, coreVars, OnlyFaultInv, Candidates, IsEnabled, Priority,
              CurrentExecutionPriority, ScannedActive
<1>2. CASE (\E e \in Exceptions : PeripheralRaise(e)) \/ Fetch
  BY <1>2 DEF PeripheralRaise, Fetch, OnlyFaultInv
<1>3. CASE TakeAsynchronous \/ TakeSynchronous \/ Advance \/ Reset
  BY <1>3 DEF TakeAsynchronous, TakeSynchronous, ExceptionEntry, Advance, Reset, EndStep, OnlyFaultInv
<1>4. CASE MismatchedReturn
  BY <1>4 DEF MismatchedReturn, OnlyFaultInv
<1>5. CASE Fault
  <2>1. /\ NextExceptionToTake = NoException /\ stage' = "retire" /\ outcome' = "fault"
        /\ pending' = pending \cup {HARDFAULT} /\ UNCHANGED <<active, enabled, prio, primask>>
    BY <1>5 DEF Fault, Execute, coreVars
  <2>2. /\ \A f : Priority(f)' = Priority(f)
        /\ CurrentExecutionPriority(primask)' = CurrentExecutionPriority(primask)
    BY <2>1 DEF Priority, CurrentExecutionPriority, ScannedActive
  <2>3. Candidates' \ {HARDFAULT} \subseteq Candidates
    BY <2>1 DEF Candidates, IsEnabled
  <2>4. \A f \in Candidates : ~(Priority(f) < CurrentExecutionPriority(primask))
    BY <2>1, NothingTakenNothingPasses DEF StacksInv
  <2> QED BY <2>1, <2>2, <2>3, <2>4 DEF OnlyFaultInv
<1>6. CASE Instruction /\ ~Fault /\ ~MismatchedReturn
  <2>1. stage' = "retire" /\ outcome' = "done"
    BY <1>6 DEF Instruction, Plain, Branch, BranchToEven, Svc, WritePending, WriteEnable,
         WritePriority, WritePrimask, WriteControl, WritePsp, ExceptionReturn, Execute
  <2> QED BY <2>1 DEF OnlyFaultInv
<1> QED BY <1>1, <1>2, <1>3, <1>4, <1>5, <1>6 DEF Next

\* Whatever the program does, the address that an entry stacks is that of the first
\* instruction that has not completed, unless the exception is HardFault.
THEOREM InterruptReturnAddressesAreExact == Spec => InterruptReturnAddress
<1> DEFINE Stacked == IF OnProcessStack THEN process'[task].pc ELSE main'[Len(main')].pc
           A == \A e \in Exceptions \ {HARDFAULT} : Taken(e) => FirstUncompleted = Stacked
<1>1. ASSUME StacksInv, OnlyFaultInv, Next, NEW e \in Exceptions \ {HARDFAULT}, Taken(e)
      PROVE  FirstUncompleted = Stacked
  <2>1. TakeAsynchronous \/ TakeSynchronous
    <3>1. ~Instruction
      BY <1>1 DEF Taken, Instruction, Plain, Branch, BranchToEven, Fault, Svc, WritePending,
           WriteEnable, WritePriority, WritePrimask, WriteControl, WritePsp, ExceptionReturn,
           MismatchedReturn, Execute
    <3> QED
      BY <1>1, <3>1 DEF Next, Taken, PeripheralRaise, Fetch, Reset, Advance, vectorVars
  <2>2. /\ NextExceptionToTake # NoException /\ ExceptionEntry(NextExceptionToTake)
        /\ stage \in {"decide", "retire"}
    BY <2>1 DEF TakeAsynchronous, TakeSynchronous
  <2>3. NextExceptionToTake = e
    BY <1>1, <2>2 DEF Taken, ExceptionEntry
  <2>4. e \in Candidates /\ Priority(e) < CurrentExecutionPriority(primask)
    BY <1>1, <2>2, <2>3, TopPendingCorrect DEF NextExceptionToTake, StacksInv
  <2>5. ReturnAddress(e) = FirstUncompleted
    <3>1. CASE stage = "decide"
      BY <1>1, <3>1 DEF OnlyFaultInv, ReturnAddress, FirstUncompleted, NextInstructionAddress
    <3>2. CASE stage = "retire"
      <4>1. outcome = "done"
        BY <1>1, <2>4, <3>2 DEF OnlyFaultInv
      <4> QED BY <1>1, <4>1 DEF ReturnAddress, FirstUncompleted
    <3> QED BY <2>2, <3>1, <3>2
  <2>6. PICK frame : PushStack(frame) /\ frame.pc = FirstUncompleted
    BY <2>2, <2>3, <2>5 DEF ExceptionEntry
  <2>7. CASE OnProcessStack
    BY <1>1, <2>6, <2>7 DEF PushStack, StacksInv
  <2>8. CASE ~OnProcessStack
    <3>1. PICK S : main \in Seq(S)
      BY <1>1 DEF StacksInv
    <3>2. main'[Len(main')] = frame
      BY <2>6, <2>8, <3>1, AppendStack DEF PushStack
    <3> QED BY <2>6, <2>8, <3>2
  <2> QED BY <2>7, <2>8
<1>2. StacksInv /\ OnlyFaultInv /\ [Next]_vars => [A]_vars
  BY <1>1
<1>3. Spec => [][A]_vars
  BY <1>2, StacksInit, StacksStep, OnlyFaultStep, PTL DEF Spec
<1> QED BY <1>3 DEF InterruptReturnAddress
=============================================================================
