------------------------------- MODULE Waitable -------------------------------
(***************************************************************************)
(* waitable_value, and the flag, condition and counter built on it: threads *)
(* wait for a value, other threads set it, and any thread may interrupt all *)
(* waits for good.                                                         *)
(*                                                                         *)
(* set, increment and decrement change the value and notify under the       *)
(* mutex: one step.  interrupt writes its flag and notifies without it: two *)
(* steps.  A wait evaluates its predicate under the mutex, and gives the    *)
(* mutex up when it goes to sleep, in two steps: interrupt can come between.*)
(***************************************************************************)
EXTENDS Integers

CONSTANTS
  Waiters,      \* threads that wait
  Wrap,         \* the values are 0..Wrap-1; size_t has 2^64, bool has 2
  NoOne         \* holder of a free mutex

ASSUME WaitableAssumption == Wrap \in Nat /\ Wrap > 1 /\ NoOne \notin Waiters

Values == 0..(Wrap - 1)
Kinds == {"wait", "wait_for", "polling_wait"}

VARIABLES
  value, interrupted,
  mutex,          \* the waiter that holds _mutex between two of its steps
  interrupting,   \* interrupt has set _interrupted and not yet notified
  pc, kind, target, result,
  reached         \* history: the value was target at some time in the call

vars == <<value, interrupted, mutex, interrupting, pc, kind, target, result, reached>>

Places == {"idle", "compare", "lock", "armed", "sleep", "woken", "expired", "leave"}

TypeOK ==
  /\ value \in Values /\ interrupted \in BOOLEAN /\ interrupting \in BOOLEAN
  /\ mutex \in Waiters \cup {NoOne}
  /\ pc \in [Waiters -> Places] /\ kind \in [Waiters -> Kinds]
  /\ target \in [Waiters -> Values] /\ reached \in [Waiters -> BOOLEAN]
  /\ result \in [Waiters -> {"none", "ok", "interrupted", "timeout"}]
  /\ \A w \in Waiters : mutex = w <=> pc[w] = "armed"

Init ==
  /\ value \in {0, 1} /\ interrupted = FALSE /\ interrupting = FALSE /\ mutex = NoOne
  /\ pc = [w \in Waiters |-> "idle"] /\ kind = [w \in Waiters |-> "wait"]
  /\ target = [w \in Waiters |-> 0] /\ reached = [w \in Waiters |-> FALSE]
  /\ result = [w \in Waiters |-> "none"]

-----------------------------------------------------------------------------
(* The threads that set *)

NotifyAll == [w \in Waiters |-> IF pc[w] = "sleep" THEN "woken" ELSE pc[w]]

\* Mutant: a waiter that sleeps is told only of a value that is not zero.
UpdateNotifyingNonZero(v) ==
  /\ mutex = NoOne
  /\ value' = v
  /\ reached' = [w \in Waiters |-> reached[w] \/ target[w] = v]
  /\ pc' = IF v = 0 THEN pc ELSE NotifyAll
  /\ UNCHANGED <<interrupted, mutex, interrupting, kind, target, result>>

Update(v) ==
  /\ mutex = NoOne
  /\ value' = v
  /\ reached' = [w \in Waiters |-> reached[w] \/ target[w] = v]
  /\ pc' = NotifyAll
  /\ UNCHANGED <<interrupted, mutex, interrupting, kind, target, result>>

Set       == \E v \in Values : Update(v)
Increment == Update((value + 1) % Wrap)
Decrement == Update((value - 1) % Wrap)

Interrupt ==
  /\ ~interrupting
  /\ interrupted' = TRUE /\ interrupting' = TRUE
  /\ UNCHANGED <<value, mutex, pc, kind, target, result, reached>>

InterruptNotify ==
  /\ interrupting
  /\ interrupting' = FALSE
  /\ pc' = NotifyAll
  /\ UNCHANGED <<value, interrupted, mutex, kind, target, result, reached>>

-----------------------------------------------------------------------------
(* The threads that wait *)

Goto(w, place) == pc' = [pc EXCEPT ![w] = place]

Call(w) ==
  /\ pc[w] = "idle"
  /\ \E k \in Kinds : kind' = [kind EXCEPT ![w] = k]
  /\ \E v \in Values :
       /\ target' = [target EXCEPT ![w] = v]
       /\ reached' = [reached EXCEPT ![w] = value = v]
  /\ result' = [result EXCEPT ![w] = "none"]
  /\ Goto(w, "compare")
  /\ UNCHANGED <<value, interrupted, mutex, interrupting>>

\* The first comparison is made without the mutex.
Compare(w) ==
  /\ pc[w] = "compare"
  /\ Goto(w, IF value = target[w] THEN "leave" ELSE "lock")
  /\ UNCHANGED <<value, interrupted, mutex, interrupting, kind, target, result, reached>>

\* Mutant: a wait that was notified does not look at the value again.
SatisfiedOrWoken(w) == interrupted \/ value = target[w] \/ pc[w] = "woken"

\* Mutant: the predicate forgets the interruption.
SatisfiedByValue(w) == value = target[w]

Satisfied(w) == interrupted \/ value = target[w]

\* The mutex is taken, and the predicate of the wait evaluated.
Evaluate(w) ==
  /\ pc[w] \in {"lock", "woken", "expired"} /\ mutex = NoOne
  /\ \/ Satisfied(w) /\ Goto(w, "leave") /\ UNCHANGED <<mutex, result>>
     \/ /\ ~Satisfied(w) /\ pc[w] # "expired"
        /\ Goto(w, "armed") /\ mutex' = w /\ UNCHANGED result
     \/ /\ ~Satisfied(w) /\ pc[w] = "expired"
        /\ IF kind[w] = "polling_wait"
           THEN Goto(w, "compare") /\ UNCHANGED result
           ELSE Goto(w, "idle") /\ result' = [result EXCEPT ![w] = "timeout"]
        /\ UNCHANGED mutex
  /\ UNCHANGED <<value, interrupted, interrupting, kind, target, reached>>

\* The wait enters the queue of the condition and gives the mutex up.
Sleep(w) ==
  /\ pc[w] = "armed"
  /\ Goto(w, "sleep") /\ mutex' = NoOne
  /\ UNCHANGED <<value, interrupted, interrupting, kind, target, result, reached>>

WakeSpuriously(w) ==
  /\ pc[w] = "sleep"
  /\ Goto(w, "woken")
  /\ UNCHANGED <<value, interrupted, mutex, interrupting, kind, target, result, reached>>

Expire(w) ==
  /\ pc[w] = "sleep" /\ kind[w] # "wait"
  /\ Goto(w, "expired")
  /\ UNCHANGED <<value, interrupted, mutex, interrupting, kind, target, result, reached>>

\* _interrupted is read once more, without the mutex.
Return(w) ==
  /\ pc[w] = "leave"
  /\ result' = [result EXCEPT ![w] = IF interrupted THEN "interrupted" ELSE "ok"]
  /\ Goto(w, "idle")
  /\ UNCHANGED <<value, interrupted, mutex, interrupting, kind, target, reached>>

Step(w) == Compare(w) \/ Evaluate(w) \/ Sleep(w) \/ Return(w)

Next ==
  \/ Set \/ Increment \/ Decrement
  \/ Interrupt \/ InterruptNotify
  \/ \E w \in Waiters : Call(w) \/ Step(w) \/ Expire(w) \/ WakeSpuriously(w)

Spec == Init /\ [][Next]_vars

\* Threads that can run do run, and time passes; no one owes a set, an
\* interruption, a call or a spurious wake-up.
Fairness ==
  /\ WF_vars(InterruptNotify)
  /\ \A w \in Waiters : WF_vars(Step(w)) /\ WF_vars(Expire(w))

FairSpec == Spec /\ Fairness

-----------------------------------------------------------------------------
(* Properties *)

(***************************************************************************)
(* No wake-up by a set is lost: a thread never sleeps on the value it      *)
(* waits for, however the set and the wait interleave.                     *)
(***************************************************************************)
NoStrandedWaiter == \A w \in Waiters : pc[w] = "sleep" => value # target[w]

\* The inductive form: the value cannot change before the waiter is asleep.
WaitersInv ==
  /\ TypeOK
  /\ \A w \in Waiters : pc[w] \in {"armed", "sleep"} => value # target[w]

(***************************************************************************)
(* A wait returns ok only if the value was the awaited one at some time in *)
(* the call, although it compares without the mutex, may be woken for      *)
(* another value and reads the interruption again at the end.              *)
(***************************************************************************)
OkMeansReached == \A w \in Waiters : result[w] = "ok" => reached[w]

\* A polling wait ends after an interruption, also one whose notification
\* it did not get.
PollingEnds ==
  \A w \in Waiters : []<>(interrupted /\ kind[w] = "polling_wait" => pc[w] = "idle")
=============================================================================
