---------------------------- MODULE BoundedChannel ----------------------------
(***************************************************************************)
(* blocking_bounded_channel: the ring buffer with a mutex and two          *)
(* condition variables between the emulated USART and the threads outside. *)
(*                                                                         *)
(* A call first reads _aborted without the lock, then runs one critical    *)
(* section, or several when it waits in between.  A critical section is    *)
(* one step here: what it changes is read under the lock only, _aborted    *)
(* apart, and it writes that one at most once.  The notification of        *)
(* force_push and pop comes after the lock is released: a step of its own. *)
(*                                                                         *)
(* The indices count modulo Wrap as size_t counts modulo 2^64.             *)
(***************************************************************************)
EXTENDS Integers, Sequences, FiniteSets

CONSTANTS
  Producers, Consumers,   \* threads that put and threads that take
  Values,                 \* what is transmitted
  Size,                   \* capacity of the channel
  Wrap,                   \* number of values of size_t
  Nothing                 \* content of a slot or result never written

ASSUME ChannelAssumption ==
  /\ Producers \cap Consumers = {}
  /\ Size \in Nat \ {0} /\ Wrap \in Nat
  /\ Wrap > Size /\ Wrap % Size = 0
  /\ Nothing \notin Values

Threads == Producers \cup Consumers

\* push and pop take a timeout or wait without one.
PushKinds == {"push", "push_for"}
PopKinds  == {"pop", "pop_for"}
Timed     == {"push_for", "pop_for"}

VARIABLES
  array, head, tail, aborted,
  pc,         \* where each thread is in its call
  call,       \* the call each thread makes, or made last
  value,      \* the argument of each producer's call
  out         \* the value each consumer's last successful pop returned

vars == <<array, head, tail, aborted, pc, call, value, out>>

\* std::condition_variable: a thread in "wait" is in the queue of the
\* condition; in "woken" it was notified or woke up spuriously, and in "expired"
\* its time ran out: both have left that queue and want the lock back.
Places == {"idle", "enter", "wait", "woken", "expired", "notify"}

Count == (head - tail) % Wrap
Full  == Count = Size
Empty == head = tail
Slot(index) == index % Size
Following(index) == (index + 1) % Wrap

TypeOK ==
  /\ array \in [0..(Size - 1) -> Values \cup {Nothing}]
  /\ head \in 0..(Wrap - 1) /\ tail \in 0..(Wrap - 1)
  /\ Count <= Size
  /\ aborted \in BOOLEAN
  /\ pc \in [Threads -> Places]
  /\ call \in [Threads -> {"force_push"} \cup PushKinds \cup PopKinds]
  /\ value \in [Producers -> Values \cup {Nothing}]
  /\ out \in [Consumers -> Values \cup {Nothing}]

Init ==
  /\ array = [i \in 0..(Size - 1) |-> Nothing]
  /\ head = 0 /\ tail = 0 /\ aborted = FALSE
  /\ pc = [t \in Threads |-> "idle"]
  /\ call = [t \in Threads |-> IF t \in Producers THEN "force_push" ELSE "pop"]
  /\ value = [p \in Producers |-> Nothing]
  /\ out = [c \in Consumers |-> Nothing]

-----------------------------------------------------------------------------
(* The ring buffer *)

Write(v) ==
  /\ array' = [array EXCEPT ![Slot(head)] = v]
  /\ head' = Following(head)
  /\ UNCHANGED tail

\* Mutant: the oldest value is not given up.
OverwriteKeepingTail(v) ==
  /\ array' = [array EXCEPT ![Slot(head)] = v]
  /\ head' = Following(head)
  /\ UNCHANGED tail

Overwrite(v) ==
  /\ tail' = Following(tail)
  /\ array' = [array EXCEPT ![Slot(head)] = v]
  /\ head' = Following(head)

Read(c) ==
  /\ out' = [out EXCEPT ![c] = array[Slot(tail)]]
  /\ tail' = Following(tail)
  /\ UNCHANGED <<array, head>>

buffer == <<array, head, tail>>

-----------------------------------------------------------------------------
(* The conditions *)

WaitingNotEmpty == {c \in Consumers : pc[c] = "wait"}
WaitingNotFull  == {p \in Producers : pc[p] = "wait"}

\* notify_one by thread t, which is at place next afterwards.
NotifyOne(waiting, t, next) ==
  IF waiting = {}
  THEN pc' = [pc EXCEPT ![t] = next]
  ELSE \E w \in waiting : pc' = [pc EXCEPT ![t] = next, ![w] = "woken"]

Goto(t, place) == pc' = [pc EXCEPT ![t] = place]

-----------------------------------------------------------------------------
(* The calls *)

\* Every call returns "interrupted" at once when it finds the channel aborted.
Start(t, kind) ==
  /\ pc[t] = "idle" /\ ~aborted
  /\ call' = [call EXCEPT ![t] = kind]
  /\ Goto(t, "enter")
  /\ UNCHANGED <<buffer, aborted, out>>

StartForcePush(p, v) == Start(p, "force_push") /\ value' = [value EXCEPT ![p] = v]

StartPush(p, v) == \E k \in PushKinds : Start(p, k) /\ value' = [value EXCEPT ![p] = v]

StartPop(c) == \E k \in PopKinds : Start(c, k) /\ UNCHANGED value

ForcePush(p) ==
  /\ pc[p] = "enter" /\ call[p] = "force_push"
  /\ IF Full THEN Overwrite(value[p]) ELSE Write(value[p])
  /\ Goto(p, "notify")
  /\ UNCHANGED <<aborted, call, value, out>>

HasLock(t) == pc[t] \in {"enter", "woken", "expired"}

\* A wait without success: the wait goes on, or the call returns "timeout".
StillWaiting(t) ==
  /\ Goto(t, IF pc[t] = "expired" THEN "idle" ELSE "wait")
  /\ UNCHANGED <<buffer, aborted, call, value, out>>

Interrupted(t) == Goto(t, "idle") /\ UNCHANGED <<buffer, aborted, call, value, out>>

Push(p) ==
  /\ HasLock(p) /\ call[p] \in PushKinds
  /\ \/ Full /\ ~aborted /\ StillWaiting(p)
     \/ aborted /\ Interrupted(p)
     \/ /\ ~Full /\ ~aborted
        /\ Write(value[p])
        /\ NotifyOne(WaitingNotEmpty, p, "idle")
        /\ UNCHANGED <<aborted, call, value, out>>

Pop(c) ==
  /\ HasLock(c) /\ call[c] \in PopKinds
  /\ \/ Empty /\ ~aborted /\ StillWaiting(c)
     \/ aborted /\ Interrupted(c)
     \/ /\ ~Empty /\ ~aborted
        /\ Read(c)
        /\ Goto(c, "notify")
        /\ UNCHANGED <<aborted, call, value>>

\* Mutant: the call returns without notifying.
NotifyNoOne(t) ==
  /\ pc[t] = "notify"
  /\ Goto(t, "idle")
  /\ UNCHANGED <<buffer, aborted, call, value, out>>

\* After the lock is released.  Both calls notify _not_empty_condition.
Notify(t) ==
  /\ pc[t] = "notify"
  /\ NotifyOne(WaitingNotEmpty, t, "idle")
  /\ UNCHANGED <<buffer, aborted, call, value, out>>

Expire(t) ==
  /\ pc[t] = "wait" /\ call[t] \in Timed
  /\ Goto(t, "expired")
  /\ UNCHANGED <<buffer, aborted, call, value, out>>

WakeSpuriously(t) ==
  /\ pc[t] = "wait"
  /\ Goto(t, "woken")
  /\ UNCHANGED <<buffer, aborted, call, value, out>>

\* Mutant: only one of the two conditions is notified.
WakeConsumers ==
  [t \in Threads |-> IF t \in Consumers /\ pc[t] = "wait" THEN "woken" ELSE pc[t]]

WakeAll == [t \in Threads |-> IF pc[t] = "wait" THEN "woken" ELSE pc[t]]

Abort ==
  /\ ~aborted
  /\ aborted' = TRUE
  /\ pc' = WakeAll
  /\ UNCHANGED <<buffer, call, value, out>>

Step(t) ==
  \/ t \in Producers /\ (ForcePush(t) \/ Push(t))
  \/ t \in Consumers /\ Pop(t)
  \/ Notify(t)

Next ==
  \/ \E p \in Producers, v \in Values : StartForcePush(p, v) \/ StartPush(p, v)
  \/ \E c \in Consumers : StartPop(c)
  \/ \E t \in Threads : Step(t) \/ Expire(t) \/ WakeSpuriously(t)
  \/ Abort

Spec == Init /\ [][Next]_vars

\* The host runs every thread that can run, and time passes; it owes no one a
\* call, an abort or a spurious wake-up.
Fairness == \A t \in Threads : WF_vars(Step(t)) /\ WF_vars(Expire(t))

FairSpec == Spec /\ Fairness

-----------------------------------------------------------------------------
(* Properties *)

\* The values between the indices, oldest first.
Queue == [i \in 1..Count |-> array[Slot(tail + i - 1)]]

Fifo == INSTANCE BoundedFifo WITH queue <- Queue, closed <- aborted

(***************************************************************************)
(* The channel is a bounded queue: no value is lost but the oldest of a    *)
(* full one, none is delivered twice, out of order or after abort.         *)
(***************************************************************************)
IsFifo == Fifo!Spec

(***************************************************************************)
(* No wake-up of a consumer is lost: while one waits and there is a value, *)
(* some thread is about to notify, or another consumer is on its way.      *)
(***************************************************************************)
NoStrandedConsumer ==
  WaitingNotEmpty # {} /\ ~Empty =>
    \/ \E t \in Threads : pc[t] = "notify"
    \/ \E c \in Consumers : pc[c] \in {"woken", "expired"}

\* The inductive form: besides, abort leaves no thread in a condition's queue.
WakeUpInv ==
  /\ aborted \in BOOLEAN /\ pc \in [Threads -> Places]
  /\ aborted => \A t \in Threads : pc[t] # "wait"
  /\ NoStrandedConsumer

\* abort ends every call, also one that read _aborted just before.
AbortReleases == \A t \in Threads : []<>(aborted => pc[t] = "idle")
=============================================================================
