--------------------------------- MODULE Cpu ---------------------------------
(***************************************************************************)
(* cpu::step with the context switcher and the interworking brancher: how  *)
(* exceptions are taken before or after an instruction, what is stacked,   *)
(* and what an exception return restores.                                  *)
(*                                                                         *)
(* One call of step runs through three program points, named by stage:     *)
(*   "fetch"  -> between two calls; peripherals may raise interrupts here  *)
(*   "decide" -> the instruction is fetched; take an exception or execute  *)
(*   "retire" -> it was executed; take an exception or go on               *)
(* "lost" stands for what follows a return whose EXC_RETURN disagrees with *)
(* the active exceptions: the code then loads the context from address 0.  *)
(*                                                                         *)
(* The program is arbitrary, one instruction of any kind at every address, *)
(* but its handlers keep the stack balanced and return with the EXC_RETURN *)
(* they were given; lr stands for that value, wherever the handler saved   *)
(* it, so an address counts instructions, a stack holds exception frames,  *)
(* and general registers and flags are left out.  A task is a thread with  *)
(* a process stack of its own, as an RTOS switches between them.           *)
(***************************************************************************)
EXTENDS ExceptionVector, Sequences, FiniteSets

CONSTANTS
  Tasks, FirstTask,   \* threads, and the one that runs after reset
  LastAddress,        \* instruction addresses are 0..LastAddress
  VectorTable,        \* handler address of each exception
  EvenVectors,        \* exceptions whose vector has bit 0 clear
  Raisable,           \* exceptions that the program or a peripheral raises
  FaultIn,            \* contexts (IPSR values) whose code may fault
  Priorities,         \* priority levels the program assigns
  NoFrame             \* a task that has no frame on its process stack

Address  == 0..LastAddress
Contexts == Exceptions \cup {0}      \* IPSR values; 0 in thread mode

ASSUME CpuAssumption ==
  /\ FirstTask \in Tasks
  /\ LastAddress \in Nat
  /\ VectorTable \in [Exceptions -> Address]
  /\ EvenVectors \subseteq Exceptions
  /\ Raisable \subseteq Exceptions
  /\ FaultIn \subseteq Contexts
  /\ Priorities \subseteq PriorityLevels

\* The three EXC_RETURN values; any other content of LR is ordinary.
ToHandler        == "F1"
ToThreadMain     == "F9"
ToThreadProcess  == "FD"
NotExcReturn     == "code"
LrValues         == {ToHandler, ToThreadMain, ToThreadProcess, NotExcReturn}

\* What push_stack stores: the return address, the IPSR and T bits of XPSR, LR.
Frame == [pc : Address, ipsr : Contexts, thumb : BOOLEAN, lr : LrValues]

ASSUME NoFrameAssumption == NoFrame \notin Frame

VARIABLES
  primask,    \* PRIMASK.PM
  mode,       \* "thread" or "handler"
  ipsr,       \* exception number in IPSR
  spsel,      \* CONTROL.SPSEL: thread mode uses the process stack
  thumb,      \* EPSR.T
  pc,
  branched,   \* pc_reg::_dirty_status
  lr,
  main,       \* exception frames on the main stack, most recent last
  task,       \* the task PSP points into
  process,    \* the frame on top of each task's process stack
  stage,
  cur,        \* cur_instruction_address of this step
  outcome,    \* history: "none", "done" or "fault", of the current instruction
  resume      \* history: where each task must go on once it runs again

coreVars == <<primask, mode, ipsr, spsel, thumb, lr, main, task, process>>
vars     == <<vectorVars, coreVars, pc, branched, stage, cur, outcome, resume>>

PreparedFrame == [pc |-> 0, ipsr |-> 0, thumb |-> TRUE, lr |-> NotExcReturn]

\* Only the first task runs; the others wait with a frame made by the software.
PreparedTasks == [t \in Tasks |-> IF t = FirstTask THEN NoFrame ELSE PreparedFrame]

TypeOK ==
  /\ VectorTypeOK
  /\ primask \in BOOLEAN /\ spsel \in BOOLEAN /\ thumb \in BOOLEAN
  /\ mode \in {"thread", "handler"}
  /\ ipsr \in Contexts
  /\ pc \in Address /\ cur \in Address
  /\ branched \in BOOLEAN
  /\ lr \in LrValues
  /\ main \in Seq(Frame)
  /\ task \in Tasks
  /\ process \in [Tasks -> Frame \cup {NoFrame}]
  /\ stage \in {"fetch", "decide", "retire", "lost"}
  /\ outcome \in {"none", "done", "fault"}
  /\ resume \in [Tasks -> Address]

Init ==
  /\ VectorInit
  /\ primask = FALSE /\ mode = "thread" /\ ipsr = 0 /\ spsel = FALSE
  /\ thumb = TRUE /\ pc = 0 /\ branched = TRUE /\ lr = NotExcReturn
  /\ main = <<>> /\ task = FirstTask /\ process = PreparedTasks
  /\ stage = "fetch" /\ cur = 0 /\ outcome = "none"
  /\ resume = [t \in Tasks |-> 0]

-----------------------------------------------------------------------------
(* Helpers of step *)

\* A 16-bit instruction is one address; PC reads two ahead while it executes.
Following(a) == (a + 1) % (LastAddress + 1)
Prefetch(a)  == (a + 2) % (LastAddress + 1)

NextInstructionAddress == IF branched THEN pc ELSE Following(cur)

\* Mutant: an exception of the running priority preempts.
NextExceptionOfSamePriority ==
  IF TopPending # NoException /\ Priority(TopPending) <= CurrentExecutionPriority(primask)
  THEN TopPending
  ELSE NoException

NextExceptionToTake ==
  IF TopPending # NoException /\ Priority(TopPending) < CurrentExecutionPriority(primask)
  THEN TopPending
  ELSE NoException

\* Mutants: no case for the fault; no other case.
ReturnAddressAlwaysNext(ex) == NextInstructionAddress
ReturnAddressAlwaysCurrent(ex) == cur

\* "address of the instruction causing fault" for a hard fault
ReturnAddress(ex) == IF ex = HARDFAULT THEN cur ELSE NextInstructionAddress

OnProcessStack == mode = "thread" /\ spsel

\* Mutants: the handler case, the process stack case forgotten.
ExcReturnForThread == IF spsel THEN ToThreadProcess ELSE ToThreadMain
ExcReturnMainOnly  == IF mode = "handler" THEN ToHandler ELSE ToThreadMain

ExcReturn ==
  IF mode = "handler" THEN ToHandler
  ELSE IF spsel THEN ToThreadProcess ELSE ToThreadMain

PushStack(frame) ==
  IF OnProcessStack
  THEN process' = [process EXCEPT ![task] = frame] /\ UNCHANGED main
  ELSE main' = Append(main, frame) /\ UNCHANGED process

\* The first instruction of the interrupted code that has not completed.
FirstUncompleted == IF outcome = "done" THEN NextInstructionAddress ELSE cur

\* The locals of step are dead between two calls.
EndStep == stage' = "fetch" /\ cur' = 0 /\ outcome' = "none"

\* context_switcher::exception_entry
ExceptionEntry(ex) ==
  /\ PushStack([pc |-> ReturnAddress(ex), ipsr |-> ipsr, thumb |-> thumb, lr |-> lr])
  /\ lr' = ExcReturn
  /\ mode' = "handler" /\ ipsr' = ex /\ spsel' = FALSE
  /\ active' = active \cup {ex}
  /\ pending' = pending \ {ex}
  /\ pc' = VectorTable[ex] /\ branched' = TRUE
  /\ thumb' = (ex \notin EvenVectors)
  /\ resume' = IF mode = "thread"
               THEN [resume EXCEPT ![task] = FirstUncompleted]
               ELSE resume
  /\ EndStep
  /\ UNCHANGED <<enabled, prio, primask, task>>

-----------------------------------------------------------------------------
(* step: fetch, decide *)

\* A peripheral raises an interrupt before cpu::step.
PeripheralRaise(e) ==
  /\ stage = "fetch"
  /\ e \in Raisable \cap ({SYSTICK} \cup ExternalInterrupts)
  /\ pending' = pending \cup {e}
  /\ UNCHANGED <<active, enabled, prio, coreVars, pc, branched, stage, cur, outcome, resume>>

\* Executing with the T bit clear is a fault, raised before anything is taken.
Fetch ==
  /\ stage = "fetch"
  /\ cur' = pc
  /\ pending' = IF thumb THEN pending ELSE pending \cup {HARDFAULT}
  /\ outcome' = "none"
  /\ stage' = "decide"
  /\ UNCHANGED <<active, enabled, prio, coreVars, pc, branched, resume>>

TakeAsynchronous ==
  /\ stage = "decide"
  /\ NextExceptionToTake # NoException
  /\ ExceptionEntry(NextExceptionToTake)

-----------------------------------------------------------------------------
(* step: the instruction at cur *)

Execute(result) ==
  /\ stage = "decide"
  /\ NextExceptionToTake = NoException
  /\ outcome' = result
  /\ stage' = "retire"
  /\ UNCHANGED cur

NoBranch == pc' = Prefetch(cur) /\ branched' = FALSE

BranchTo(a) == pc' = a /\ branched' = TRUE

Plain == Execute("done") /\ NoBranch /\ UNCHANGED <<vectorVars, coreVars, resume>>

\* b, bl, bx and pop {pc} to code: bx and pop copy bit 0 of the target to T.
Branch(a) == Execute("done") /\ BranchTo(a) /\ UNCHANGED <<vectorVars, coreVars, resume>>

BranchToEven(a) ==
  /\ ipsr \in FaultIn
  /\ Execute("done") /\ BranchTo(a)
  /\ thumb' = FALSE
  /\ UNCHANGED <<vectorVars, primask, mode, ipsr, spsel, lr, main, task, process, resume>>

\* An undefined instruction or a bad memory access.
Fault ==
  /\ ipsr \in FaultIn
  /\ Execute("fault") /\ NoBranch
  /\ pending' = pending \cup {HARDFAULT}
  /\ UNCHANGED <<active, enabled, prio, coreVars, resume>>

Svc ==
  /\ SVCALL \in Raisable
  /\ Execute("done") /\ NoBranch
  /\ pending' = pending \cup {SVCALL}
  /\ UNCHANGED <<active, enabled, prio, coreVars, resume>>

\* Stores to ICSR (the set bits are OR'ed in, then the clear bits act), ISPR, ICPR.
WritePending(set, clear) ==
  /\ Execute("done") /\ NoBranch
  /\ pending' = (pending \cup set) \ clear
  /\ UNCHANGED <<active, enabled, prio, coreVars, resume>>

\* Stores to ISER and ICER.
WriteEnable(set, clear) ==
  /\ Execute("done") /\ NoBranch
  /\ enabled' = (enabled \cup set) \ clear
  /\ UNCHANGED <<active, pending, prio, coreVars, resume>>

\* A store to an IPR or SHPR field.
WritePriority(e, p) ==
  /\ Execute("done") /\ NoBranch
  /\ prio' = [prio EXCEPT ![e] = p]
  /\ UNCHANGED <<active, pending, enabled, coreVars, resume>>

\* cps, msr primask
WritePrimask(pm) ==
  /\ Execute("done") /\ NoBranch
  /\ primask' = pm
  /\ UNCHANGED <<vectorVars, mode, ipsr, spsel, thumb, lr, main, task, process, resume>>

\* msr control: ignored in handler mode
WriteControl(sel) ==
  /\ Execute("done") /\ NoBranch
  /\ spsel' = IF mode = "thread" THEN sel ELSE spsel
  /\ UNCHANGED <<vectorVars, primask, mode, ipsr, thumb, lr, main, task, process, resume>>

\* msr psp: a handler that returns to the process stack switches tasks.
WritePsp(t) ==
  /\ lr = ToThreadProcess /\ process[t] # NoFrame
  /\ Execute("done") /\ NoBranch
  /\ task' = t
  /\ UNCHANGED <<vectorVars, primask, mode, ipsr, spsel, thumb, lr, main, process, resume>>

-----------------------------------------------------------------------------
(* Exception return: bx or pop {pc} with the handler's EXC_RETURN *)

\* "exception mismatch": EXC_RETURN against active_count
Mismatch == IF lr = ToHandler THEN Cardinality(active) = 1 ELSE Cardinality(active) # 1

Unstack(frame) ==
  /\ BranchTo(frame.pc)
  /\ ipsr' = frame.ipsr /\ thumb' = frame.thumb /\ lr' = frame.lr

ExceptionReturn ==
  /\ mode = "handler" /\ ~Mismatch
  /\ Execute("done")
  /\ active' = active \ {ipsr}
  /\ mode' = IF lr = ToHandler THEN "handler" ELSE "thread"
  /\ spsel' = (lr = ToThreadProcess)
  /\ IF lr = ToThreadProcess
     THEN /\ Unstack(process[task])
          /\ process' = [process EXCEPT ![task] = NoFrame]
          /\ UNCHANGED main
     ELSE /\ Unstack(main[Len(main)])
          /\ main' = SubSeq(main, 1, Len(main) - 1)
          /\ UNCHANGED process
  /\ resume' = IF lr = ToHandler THEN resume ELSE [resume EXCEPT ![task] = 0]
  /\ UNCHANGED <<pending, enabled, prio, primask, task>>

\* The code prints a message and unstacks from address 0.
MismatchedReturn ==
  /\ stage = "decide" /\ NextExceptionToTake = NoException
  /\ mode = "handler" /\ Mismatch
  /\ active' = active \ {ipsr}
  /\ stage' = "lost"
  /\ UNCHANGED <<pending, enabled, prio, coreVars, pc, branched, cur, outcome, resume>>

-----------------------------------------------------------------------------
(* step: after the instruction *)

TakeSynchronous ==
  /\ stage = "retire"
  /\ NextExceptionToTake # NoException
  /\ ExceptionEntry(NextExceptionToTake)

Advance ==
  /\ stage = "retire"
  /\ NextExceptionToTake = NoException
  /\ pc' = NextInstructionAddress /\ branched' = TRUE
  /\ EndStep
  /\ UNCHANGED <<vectorVars, coreVars, resume>>

(***************************************************************************)
(* mcu::reset between two steps.  cpu::reset writes the initial stack      *)
(* pointer to the bank CONTROL selects and clears CONTROL afterwards, so   *)
(* the frames on the main stack survive when thread mode used the process  *)
(* stack.  The software sets its tasks up again.                           *)
(***************************************************************************)
Reset ==
  /\ stage \in {"fetch", "lost"}
  /\ VectorReset
  /\ mode' = "thread" /\ ipsr' = 0 /\ primask' = FALSE /\ spsel' = FALSE
  /\ thumb' = TRUE /\ pc' = 0 /\ branched' = TRUE /\ lr' = NotExcReturn
  /\ main' = IF spsel THEN main ELSE <<>>
  /\ task' = FirstTask /\ process' = PreparedTasks
  /\ resume' = [t \in Tasks |-> 0]
  /\ EndStep

Instruction ==
  \/ Plain \/ Fault \/ Svc
  \/ \E a \in Address : Branch(a) \/ BranchToEven(a)
  \/ \E set \in SUBSET (Raisable \cap {NMI, PENDSV, SYSTICK}),
        clear \in SUBSET (Raisable \cap {PENDSV, SYSTICK}) : WritePending(set, clear)
  \/ \E lines \in SUBSET (Raisable \cap ExternalInterrupts) :
        \/ WritePending(lines, {}) \/ WritePending({}, lines)
        \/ WriteEnable(lines, {})  \/ WriteEnable({}, lines)
  \/ \E e \in Configurable \cap Raisable, p \in Priorities : WritePriority(e, p)
  \/ \E pm \in BOOLEAN : WritePrimask(pm)
  \/ \E sel \in BOOLEAN : WriteControl(sel)
  \/ \E t \in Tasks : WritePsp(t)
  \/ ExceptionReturn \/ MismatchedReturn

Next ==
  \/ \E e \in Exceptions : PeripheralRaise(e)
  \/ Fetch \/ TakeAsynchronous
  \/ Instruction
  \/ TakeSynchronous \/ Advance
  \/ Reset

Spec == Init /\ [][Next]_vars

-----------------------------------------------------------------------------
(* Properties *)

(***************************************************************************)
(* The active flags are exactly the handlers that have a context: the one  *)
(* IPSR names and those in the XPSR of a stacked frame, each of them once. *)
(***************************************************************************)
ActiveMatchesFrames ==
  stage # "lost" =>
    /\ active = ({ipsr} \cup {main[k].ipsr : k \in DOMAIN main}) \ {0}
    /\ \A k \in DOMAIN main : main[k].ipsr # ipsr
    /\ \A j, k \in DOMAIN main : main[j].ipsr = main[k].ipsr => j = k

(***************************************************************************)
(* A handler can always return: its EXC_RETURN agrees with the number of   *)
(* active exceptions, so none of the "exception mismatch" messages of      *)
(* exception_return is reached, and the stack it names holds a frame of    *)
(* the mode it returns to.                                                 *)
(***************************************************************************)
HandlerCanReturn ==
  mode = "handler" /\ stage # "lost" =>
    /\ ~Mismatch
    /\ ipsr \in active
    /\ CASE lr = ToHandler       -> main # <<>> /\ main[Len(main)].ipsr # 0
         [] lr = ToThreadMain    -> main # <<>> /\ main[Len(main)].ipsr = 0
         [] lr = ToThreadProcess -> process[task] # NoFrame /\ process[task].ipsr = 0
         [] OTHER                -> FALSE

\* This step takes exception e.
Taken(e) ==
  /\ stage \in {"decide", "retire"} /\ stage' = "fetch"
  /\ e \in pending /\ e \notin pending'

(***************************************************************************)
(* An exception is taken only when it beats every active one, and PRIMASK  *)
(* lets nothing but NMI and HardFault through: "instruction flow must be   *)
(* interrupted by this higher priority exception".                         *)
(***************************************************************************)
StrictPreemption ==
  [][\A e \in Exceptions : Taken(e) =>
        /\ \A a \in active : Priority(e) < Priority(a)
        /\ primask => Priority(e) < 0]_vars

\* Pending exceptions that deserve to interrupt what runs now.
Preempting ==
  {e \in Candidates : /\ \A a \in active : Priority(e) < Priority(a)
                      /\ primask => Priority(e) < 0}

(***************************************************************************)
(* A step never ends with such an exception left waiting, whether it was   *)
(* raised before the instruction, by it, or unmasked by it.                *)
(***************************************************************************)
NothingLeftWaiting ==
  [][stage # "fetch" /\ stage' = "fetch" => Preempting' = {}]_vars

(***************************************************************************)
(* The stacked return address is that of the first instruction of the      *)
(* interrupted code that has not completed: none is skipped or repeated,   *)
(* and a faulting one is retried.                                          *)
(***************************************************************************)
ReturnAddressExact ==
  [][\A e \in Exceptions : Taken(e) =>
        FirstUncompleted = IF OnProcessStack THEN process'[task].pc
                           ELSE main'[Len(main')].pc]_vars

\* The same for every exception but HardFault, whatever the program does.
InterruptReturnAddress ==
  [][\A e \in Exceptions \ {HARDFAULT} : Taken(e) =>
        FirstUncompleted = IF OnProcessStack THEN process'[task].pc
                           ELSE main'[Len(main')].pc]_vars

(***************************************************************************)
(* When the last handler returns to thread mode, the task that runs then   *)
(* goes on where it was interrupted, through any nesting, tail-chaining    *)
(* and task switch in between.                                             *)
(***************************************************************************)
ThreadResumes ==
  [][mode = "handler" /\ mode' = "thread" /\ stage = "decide"
       => pc' = resume[task]]_vars
=============================================================================
