---------------------------- MODULE WaitableProofs ----------------------------
(* No set is missed by a sleeping waiter, for any number of threads and values. *)
EXTENDS Waitable, TLAPS

\* Every step of the specification keeps the inductive form.
LEMMA WaitersInvStep == WaitersInv /\ [Next]_vars => WaitersInv'
<1> SUFFICES ASSUME WaitersInv, [Next]_vars PROVE WaitersInv'
  OBVIOUS
<1> USE WaitableAssumption DEF WaitersInv, TypeOK, Values, Kinds, Places
<1>1. ASSUME NEW v \in Values, Update(v) PROVE WaitersInv'
  <2>1. pc' = [w \in Waiters |-> IF pc[w] = "sleep" THEN "woken" ELSE pc[w]]
    BY <1>1 DEF Update, NotifyAll
  <2>2. mutex = NoOne /\ mutex' = mutex /\ value' = v
    BY <1>1 DEF Update
  <2>3. \A w \in Waiters : pc[w] # "armed" /\ pc'[w] \notin {"armed", "sleep"}
    BY <2>1, <2>2
  <2>4. pc' \in [Waiters -> Places] /\ \A w \in Waiters : mutex' = w <=> pc'[w] = "armed"
    BY <2>1, <2>2, <2>3
  <2> QED BY <1>1, <2>2, <2>3, <2>4 DEF Update
<1>2. CASE Set
  BY <1>1, <1>2 DEF Set
<1>3. CASE Increment
  <2>1. (value + 1) % Wrap \in Values OBVIOUS
  <2> QED BY <1>1, <1>3, <2>1 DEF Increment
<1>4. CASE Decrement
  <2>1. (value - 1) % Wrap \in Values OBVIOUS
  <2> QED BY <1>1, <1>4, <2>1 DEF Decrement
<1>5. CASE Interrupt
  BY <1>5 DEF Interrupt
<1>6. CASE InterruptNotify
  BY <1>6 DEF InterruptNotify, NotifyAll
<1>7. ASSUME NEW w \in Waiters, Call(w) PROVE WaitersInv'
  BY <1>7 DEF Call, Goto
<1>8. ASSUME NEW w \in Waiters, Compare(w) PROVE WaitersInv'
  BY <1>8 DEF Compare, Goto
<1>9. ASSUME NEW w \in Waiters, Evaluate(w) PROVE WaitersInv'
  <2>1. CASE pc' = [pc EXCEPT ![w] = "leave"] /\ UNCHANGED <<mutex, result>>
    BY <1>9, <2>1 DEF Evaluate
  <2>2. CASE ~Satisfied(w) /\ pc' = [pc EXCEPT ![w] = "armed"] /\ mutex' = w /\ UNCHANGED result
    <3>1. value # target[w] /\ mutex = NoOne BY <1>9, <2>2 DEF Evaluate, Satisfied
    <3>2. \A u \in Waiters : pc[u] # "armed" BY <3>1
    <3> QED BY <1>9, <2>2, <3>1, <3>2 DEF Evaluate
  <2>3. CASE pc' = [pc EXCEPT ![w] = "compare"] /\ UNCHANGED <<mutex, result>>
    BY <1>9, <2>3 DEF Evaluate
  <2>4. CASE pc' = [pc EXCEPT ![w] = "idle"] /\ result' = [result EXCEPT ![w] = "timeout"]
             /\ UNCHANGED mutex
    BY <1>9, <2>4 DEF Evaluate
  <2> QED BY <1>9, <2>1, <2>2, <2>3, <2>4 DEF Evaluate, Goto
<1>10. ASSUME NEW w \in Waiters, Sleep(w) PROVE WaitersInv'
  <2>1. mutex = w /\ \A u \in Waiters : pc[u] = "armed" => u = w BY <1>10 DEF Sleep
  <2> QED BY <1>10, <2>1 DEF Sleep, Goto
<1>11. ASSUME NEW w \in Waiters, Expire(w) PROVE WaitersInv'
  BY <1>11 DEF Expire, Goto
<1>12. ASSUME NEW w \in Waiters, WakeSpuriously(w) PROVE WaitersInv'
  BY <1>12 DEF WakeSpuriously, Goto
<1>13. ASSUME NEW w \in Waiters, Return(w) PROVE WaitersInv'
  BY <1>13 DEF Return, Goto
<1>14. CASE UNCHANGED vars
  BY <1>14 DEF vars
<1> QED
  BY <1>2, <1>3, <1>4, <1>5, <1>6, <1>7, <1>8, <1>9, <1>10, <1>11, <1>12, <1>13, <1>14
  DEF Next, Step

LEMMA WaitersInvInit == Init => WaitersInv
<1> SUFFICES ASSUME Init PROVE WaitersInv
  OBVIOUS
<1>1. value \in Values /\ \A w \in Waiters : target[w] \in Values
  BY WaitableAssumption DEF Init, Values
<1>2. \A w \in Waiters : pc[w] = "idle" /\ mutex # w
  BY WaitableAssumption DEF Init
<1> QED
  BY <1>1, <1>2 DEF Init, WaitersInv, TypeOK, Kinds, Places

\* A thread never sleeps on the value it waits for: no set is missed, although
\* the first comparison and the notification of interrupt are made without the
\* mutex (waitable_value::set and wait).
THEOREM SetsAreSeen == Spec => []NoStrandedWaiter
<1>1. WaitersInv => NoStrandedWaiter
  BY DEF WaitersInv, NoStrandedWaiter
<1> QED BY <1>1, WaitersInvInit, WaitersInvStep, PTL DEF Spec

-----------------------------------------------------------------------------
(* What ok means *)

\* Inside a call the history is kept, and who leaves it was interrupted or has
\* seen its value.
ReachedInv ==
  /\ OkMeansReached
  /\ \A w \in Waiters : pc[w] # "idle" /\ value = target[w] => reached[w]
  /\ \A w \in Waiters : pc[w] = "leave" => interrupted \/ reached[w]

LEMMA ReachedInit == Init => ReachedInv
BY DEF Init, ReachedInv, OkMeansReached

LEMMA ReachedStep == WaitersInv /\ ReachedInv /\ [Next]_vars => ReachedInv'
<1> SUFFICES ASSUME WaitersInv, ReachedInv, [Next]_vars PROVE ReachedInv'
  OBVIOUS
<1> USE DEF WaitersInv, TypeOK, ReachedInv, OkMeansReached
<1>1. ASSUME NEW v \in Values, Update(v) PROVE ReachedInv'
  <2>1. \A w \in Waiters : pc'[w] = pc[w] \/ (pc[w] = "sleep" /\ pc'[w] = "woken")
    BY <1>1 DEF Update, NotifyAll
  <2>2. \A w \in Waiters : reached'[w] = (reached[w] \/ target[w] = v)
    BY <1>1 DEF Update
  <2>3. UNCHANGED <<target, result, interrupted>> /\ value' = v
    BY <1>1 DEF Update
  <2> QED
    BY <2>1, <2>2, <2>3
<1>2. CASE Set \/ Increment \/ Decrement
  <2>1. (value + 1) % Wrap \in Values /\ (value - 1) % Wrap \in Values
    BY WaitableAssumption DEF Values
  <2> QED
    BY <1>1, <1>2, <2>1 DEF Set, Increment, Decrement
<1>3. CASE Interrupt
  BY <1>3 DEF Interrupt
<1>4. CASE InterruptNotify
  <2>1. \A w \in Waiters : pc'[w] = pc[w] \/ (pc[w] = "sleep" /\ pc'[w] = "woken")
    BY <1>4 DEF InterruptNotify, NotifyAll
  <2> QED
    BY <1>4, <2>1 DEF InterruptNotify
<1>5. ASSUME NEW w \in Waiters, Call(w) PROVE ReachedInv'
  <2>1. PICK v \in Values : /\ target' = [target EXCEPT ![w] = v]
                            /\ reached' = [reached EXCEPT ![w] = value = v]
    BY <1>5 DEF Call
  <2>2. /\ pc' = [pc EXCEPT ![w] = "compare"] /\ result' = [result EXCEPT ![w] = "none"]
        /\ UNCHANGED <<value, interrupted>>
    BY <1>5 DEF Call, Goto
  <2>3. (value = v => reached'[w]) /\ pc'[w] = "compare" /\ result'[w] = "none" /\ target'[w] = v
    BY <2>1, <2>2
  <2>4. \A u \in Waiters \ {w} : /\ reached'[u] = reached[u] /\ target'[u] = target[u]
                                /\ pc'[u] = pc[u] /\ result'[u] = result[u]
    BY <2>1, <2>2
  <2> QED
    BY <2>2, <2>3, <2>4
<1>6. ASSUME NEW w \in Waiters, Compare(w) \/ Evaluate(w) \/ Sleep(w) \/ Expire(w) \/ WakeSpuriously(w)
      PROVE  ReachedInv'
  <2>1. pc[w] # "idle" /\ UNCHANGED <<value, interrupted, target, reached>>
    BY <1>6 DEF Compare, Evaluate, Sleep, Expire, WakeSpuriously
  <2>2. PICK place \in Places : pc' = [pc EXCEPT ![w] = place]
    BY <1>6 DEF Compare, Evaluate, Sleep, Expire, WakeSpuriously, Goto, Places
  <2>3. \A u \in Waiters : result'[u] = result[u] \/ result'[u] = "timeout"
    BY <1>6 DEF Compare, Evaluate, Sleep, Expire, WakeSpuriously
  <2>4. pc'[w] = "leave" => Satisfied(w)
    BY <1>6 DEF Compare, Evaluate, Sleep, Expire, WakeSpuriously, Goto, Satisfied
  <2>5. pc'[w] = "leave" => interrupted \/ reached[w]
    BY <2>1, <2>4 DEF Satisfied
  <2> QED
    BY <2>1, <2>2, <2>3, <2>5
<1>7. ASSUME NEW w \in Waiters, Return(w) PROVE ReachedInv'
  <2>1. /\ pc[w] = "leave" /\ pc' = [pc EXCEPT ![w] = "idle"]
        /\ UNCHANGED <<value, interrupted, target, reached>>
    BY <1>7 DEF Return, Goto
  <2>2. result'[w] = "ok" => ~interrupted
    BY <1>7 DEF Return
  <2>3. \A u \in Waiters \ {w} : result'[u] = result[u]
    BY <1>7 DEF Return
  <2> QED
    BY <2>1, <2>2, <2>3
<1>8. CASE UNCHANGED vars
  BY <1>8 DEF vars
<1> QED
  BY <1>2, <1>3, <1>4, <1>5, <1>6, <1>7, <1>8 DEF Next, Step

\* A wait that returns ok had its value reached at some time in the call,
\* although it compares without the mutex and reads the interruption twice.
THEOREM OkIsTrue == Spec => []OkMeansReached
<1>1. ReachedInv => OkMeansReached
  BY DEF ReachedInv
<1> QED
  BY <1>1, WaitersInvInit, WaitersInvStep, ReachedInit, ReachedStep, PTL DEF Spec
=============================================================================
