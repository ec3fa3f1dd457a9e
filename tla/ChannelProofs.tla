----------------------------- MODULE ChannelProofs -----------------------------
(***************************************************************************)
(* For every number of threads, capacity and width of the indices: no lost *)
(* wake-up of a consumer, and the ring buffer implements a bounded queue.  *)
(***************************************************************************)
EXTENDS BoundedChannel, SequenceTheorems, TLAPS

LEMMA InitWakeUp == Init => WakeUpInv
BY ChannelAssumption DEF Init, WakeUpInv, Places, NoStrandedConsumer, WaitingNotEmpty, Threads, Empty

\* What a notification on _not_empty_condition does to the threads.
LEMMA NotifyOneEffect ==
  ASSUME WakeUpInv, NEW t \in Threads, NEW next \in {"idle"},
         pc[t] # "wait", NotifyOne(WaitingNotEmpty, t, next)
  PROVE  /\ pc' \in [Threads -> Places]
         /\ \A s \in Threads : pc'[s] = "wait" => pc[s] = "wait"
         /\ \/ WaitingNotEmpty' = {}
            \/ \E c \in Consumers : pc'[c] = "woken"
<1>1. pc \in [Threads -> Places] /\ Consumers \subseteq Threads /\ "woken" \in Places /\ "idle" \in Places
  BY DEF WakeUpInv, Threads, Places
<1>2. CASE WaitingNotEmpty = {}
  <2>1. pc' = [pc EXCEPT ![t] = "idle"]
    BY <1>2 DEF NotifyOne
  <2>2. \A s \in Threads : pc'[s] = "wait" => pc[s] = "wait"
    BY <1>1, <2>1
  <2>3. WaitingNotEmpty' = {}
    BY <1>1, <1>2, <2>2 DEF WaitingNotEmpty
  <2>4. QED BY <1>1, <2>1, <2>2, <2>3
<1>3. CASE WaitingNotEmpty # {}
  <2>1. PICK w \in WaitingNotEmpty : pc' = [pc EXCEPT ![t] = "idle", ![w] = "woken"]
    BY <1>3 DEF NotifyOne
  <2>2. w \in Consumers /\ pc'[w] = "woken"
    BY <1>1, <2>1 DEF WaitingNotEmpty
  <2>3. QED BY <1>1, <2>1, <2>2
<1>4. QED BY <1>2, <1>3

LEMMA StepWakeUp == WakeUpInv /\ [Next]_vars => WakeUpInv'
<1> SUFFICES ASSUME WakeUpInv, [Next]_vars PROVE WakeUpInv'
  OBVIOUS
<1> USE DEF WakeUpInv, NoStrandedConsumer, WaitingNotEmpty, Empty, Threads, Places
<1>1. ASSUME NEW t \in Threads, NEW kind, Start(t, kind) PROVE WakeUpInv'
  BY <1>1 DEF Start, Goto, buffer
<1>2. ASSUME NEW p \in Producers, ForcePush(p) PROVE WakeUpInv'
  BY <1>2 DEF ForcePush, Goto
<1>3. ASSUME NEW p \in Producers, Push(p) PROVE WakeUpInv'
  <2>1. CASE Full /\ ~aborted /\ StillWaiting(p)
    BY <1>3, <2>1, ChannelAssumption DEF StillWaiting, Goto, HasLock, Push, buffer
  <2>2. CASE aborted /\ Interrupted(p)
    BY <2>2 DEF Interrupted, Goto, buffer
  <2>3. CASE NotifyOne(WaitingNotEmpty, p, "idle") /\ UNCHANGED aborted
    <3>1. pc[p] # "wait"
      BY <1>3 DEF Push, HasLock
    <3>2. QED BY <2>3, <3>1, NotifyOneEffect
  <2>4. QED BY <1>3, <2>1, <2>2, <2>3 DEF Push
<1>4. ASSUME NEW c \in Consumers, Pop(c) PROVE WakeUpInv'
  <2>1. CASE Empty /\ ~aborted /\ StillWaiting(c)
    BY <2>1 DEF StillWaiting, Goto, buffer
  <2>2. CASE aborted /\ Interrupted(c)
    BY <2>2 DEF Interrupted, Goto, buffer
  <2>3. CASE Goto(c, "notify") /\ UNCHANGED aborted
    BY <2>3 DEF Goto
  <2>4. QED BY <1>4, <2>1, <2>2, <2>3 DEF Pop
<1>5. ASSUME NEW t \in Threads, Notify(t) PROVE WakeUpInv'
  <2>1. pc[t] # "wait"
    BY <1>5 DEF Notify
  <2>2. QED BY <1>5, <2>1, NotifyOneEffect DEF Notify
<1>6. ASSUME NEW t \in Threads, Expire(t) \/ WakeSpuriously(t) PROVE WakeUpInv'
  BY <1>6 DEF Expire, WakeSpuriously, Goto, buffer
<1>7. ASSUME Abort PROVE WakeUpInv'
  BY <1>7 DEF Abort, WakeAll, buffer
<1>8. CASE UNCHANGED vars
  BY <1>8 DEF vars
<1>9. QED
  BY <1>1, <1>2, <1>3, <1>4, <1>5, <1>6, <1>7, <1>8
     DEF Next, Step, StartForcePush, StartPush, StartPop

\* While a consumer waits and there is a value, a wake-up is on its way.
THEOREM ConsumersAreWoken == Spec => []NoStrandedConsumer
<1>1. WakeUpInv => NoStrandedConsumer
  BY DEF WakeUpInv
<1>2. QED BY <1>1, InitWakeUp, StepWakeUp, PTL DEF Spec

-----------------------------------------------------------------------------
(* Indices modulo the range and slots modulo the capacity *)

\* No multiple of d but 0 lies between -d and d.
LEMMA Multiple ==
  ASSUME NEW d \in Nat \ {0}, NEW k \in Int
  PROVE  (k >= 1 => k * d >= d) /\ (k <= -1 => k * d <= -d)
OBVIOUS

\* The remainder is the one r in 0..d-1 that differs from n by a multiple of d.
LEMMA Remainder ==
  ASSUME NEW d \in Nat \ {0}, NEW q \in Int, NEW r \in 0..(d - 1)
  PROVE  (q * d + r) % d = r
<1> DEFINE n == q * d + r
<1>1. n \in Int OBVIOUS
<1>2. n = (d * (n \div d)) + (n % d) /\ n % d \in 0..(d - 1) /\ n \div d \in Int
  BY <1>1
<1> DEFINE p == n \div d
           s == n % d
<1>3. n = q * d + r /\ n = d * p + s /\ s \in 0..(d - 1) /\ p \in Int
  BY <1>2
<1> HIDE DEF n, p, s
<1>4. (q - p) * d = s - r
  BY <1>3
<1>5. q - p = 0
  <2>1. CASE q - p >= 1
    BY <1>3, <1>4, <2>1, Multiple
  <2>2. CASE q - p <= -1
    BY <1>3, <1>4, <2>2, Multiple
  <2> QED BY <1>3, <2>1, <2>2
<1>6. s = r
  BY <1>3, <1>4, <1>5
<1> QED BY <1>6 DEF n, s

\* Incrementing an index wraps at the end of its range.
LEMMA FollowingIs ==
  ASSUME NEW x \in 0..(Wrap - 1)
  PROVE  Following(x) = IF x + 1 = Wrap THEN 0 ELSE x + 1
<1>1. CASE x + 1 = Wrap
  <2>1. (1 * Wrap + 0) % Wrap = 0
    BY ChannelAssumption, Remainder
  <2> QED BY <1>1, <2>1 DEF Following
<1>2. CASE x + 1 # Wrap
  <2>1. (0 * Wrap + (x + 1)) % Wrap = x + 1
    <3>1. x + 1 \in 0..(Wrap - 1) BY <1>2, ChannelAssumption
    <3> QED BY <3>1, ChannelAssumption, Remainder
  <2>2. 0 * Wrap + (x + 1) = x + 1
    BY ChannelAssumption
  <2> QED BY <1>2, <2>1, <2>2 DEF Following
<1> QED BY <1>1, <1>2

\* How far index h is ahead of index t.
Distance(h, t) == (h - t) % Wrap

\* The unsigned difference of two indices, without the remainder.
LEMMA DistanceIs ==
  ASSUME NEW h \in 0..(Wrap - 1), NEW t \in 0..(Wrap - 1)
  PROVE  Distance(h, t) = IF h >= t THEN h - t ELSE h - t + Wrap
<1>1. CASE h >= t
  <2>1. h - t \in 0..(Wrap - 1) BY <1>1, ChannelAssumption
  <2>2. (0 * Wrap + (h - t)) % Wrap = h - t
    BY <2>1, ChannelAssumption, Remainder
  <2>3. 0 * Wrap + (h - t) = h - t BY <2>1, ChannelAssumption
  <2> QED BY <1>1, <2>2, <2>3 DEF Distance
<1>2. CASE ~(h >= t)
  <2>1. h - t + Wrap \in 0..(Wrap - 1) BY <1>2, ChannelAssumption
  <2>2. ((-1) * Wrap + (h - t + Wrap)) % Wrap = h - t + Wrap
    BY <2>1, ChannelAssumption, Remainder
  <2>3. (-1) * Wrap + (h - t + Wrap) = h - t BY <2>1, ChannelAssumption
  <2> QED BY <1>2, <2>2, <2>3 DEF Distance
<1> QED BY <1>1, <1>2

LEMMA SlotRange == ASSUME NEW n \in Nat PROVE Slot(n) \in 0..(Size - 1)
BY ChannelAssumption DEF Slot

\* A number is a multiple of the capacity plus its slot.
LEMMA SlotDiv ==
  ASSUME NEW n \in Nat PROVE \E q \in Int : n = q * Size + Slot(n)
<1>1. n = Size * (n \div Size) + (n % Size) /\ n \div Size \in Int
  BY ChannelAssumption
<1>2. n = (n \div Size) * Size + Slot(n)
  BY <1>1, ChannelAssumption DEF Slot
<1> QED BY <1>1, <1>2

\* An index that wraps keeps its slot: the capacity divides the range.
LEMMA SlotWraps == ASSUME NEW n \in Nat PROVE Slot(n + Wrap) = Slot(n)
<1>1. PICK q \in Int : n = q * Size + Slot(n) BY SlotDiv
<1>2. Slot(Wrap) = 0 /\ Wrap \in Nat BY ChannelAssumption DEF Slot
<1>3. PICK k \in Int : Wrap = k * Size + 0 BY <1>2, SlotDiv
<1> DEFINE s == Slot(n)
<1>4. s \in 0..(Size - 1) BY SlotRange
<1> HIDE DEF s
<1>5. n + Wrap = (q + k) * Size + s BY <1>1, <1>3, <1>4, ChannelAssumption DEF s
<1>6. ((q + k) * Size + s) % Size = s BY <1>4, ChannelAssumption, Remainder
<1> QED BY <1>5, <1>6 DEF s, Slot

\* Fewer than Size indices in a row have different slots.
LEMMA SlotsDiffer ==
  ASSUME NEW n \in Nat, NEW j \in 1..(Size - 1) PROVE Slot(n + j) # Slot(n)
<1>1. PICK q \in Int : n = q * Size + Slot(n) BY SlotDiv
<1>2. PICK k \in Int : n + j = k * Size + Slot(n + j) BY SlotDiv
<1> DEFINE s == Slot(n)
           t == Slot(n + j)
<1>3. s \in 0..(Size - 1) /\ t \in 0..(Size - 1) BY SlotRange
<1>3a. n = q * Size + s /\ n + j = k * Size + t BY <1>1, <1>2
<1> HIDE DEF s, t
<1>4. ASSUME s = t PROVE FALSE
  <2>1. (k - q) * Size = j BY <1>3, <1>3a, <1>4, ChannelAssumption
  <2>2. CASE k - q >= 1 BY <2>1, <2>2, Multiple, ChannelAssumption
  <2>3. CASE k - q <= -1 BY <2>1, <2>3, Multiple, ChannelAssumption
  <2>4. CASE k - q = 0 BY <2>1, <2>4, ChannelAssumption
  <2> QED BY <2>2, <2>3, <2>4
<1> QED BY <1>4 DEF s, t

\* Incrementing an index moves its slots by one, across the wrap too.
LEMMA SlotOfFollowing ==
  ASSUME NEW x \in 0..(Wrap - 1), NEW j \in Nat
  PROVE  Slot(Following(x) + j) = Slot(x + 1 + j)
<1>1. CASE x + 1 = Wrap
  <2>1. Following(x) + j = j /\ x + 1 + j = j + Wrap
    BY <1>1, FollowingIs, ChannelAssumption
  <2> QED BY <2>1, SlotWraps
<1>2. CASE x + 1 # Wrap
  BY <1>2, FollowingIs
<1> QED BY <1>1, <1>2

\* The slot behind the last value is the one the head points to.
LEMMA SlotOfHead ==
  ASSUME NEW h \in 0..(Wrap - 1), NEW t \in 0..(Wrap - 1)
  PROVE  Distance(h, t) \in 0..(Wrap - 1) /\ Slot(t + Distance(h, t)) = Slot(h)
<1>1. Distance(h, t) = IF h >= t THEN h - t ELSE h - t + Wrap
  BY DistanceIs
<1>2. t + Distance(h, t) = h \/ t + Distance(h, t) = h + Wrap
  BY <1>1, ChannelAssumption
<1>3. Slot(h + Wrap) = Slot(h)
  BY SlotWraps, ChannelAssumption
<1> QED
  BY <1>1, <1>2, <1>3, ChannelAssumption

\* A write moves the head one further from the tail.
LEMMA DistanceGrows ==
  ASSUME NEW h \in 0..(Wrap - 1), NEW t \in 0..(Wrap - 1), Distance(h, t) < Wrap - 1
  PROVE  Following(h) \in 0..(Wrap - 1) /\ Distance(Following(h), t) = Distance(h, t) + 1
<1>1. Following(h) = IF h + 1 = Wrap THEN 0 ELSE h + 1
  BY FollowingIs
<1>2. Following(h) \in 0..(Wrap - 1)
  BY <1>1, ChannelAssumption
<1> QED BY <1>1, <1>2, DistanceIs, ChannelAssumption

\* A read moves the tail one closer to the head.
LEMMA DistanceShrinks ==
  ASSUME NEW h \in 0..(Wrap - 1), NEW t \in 0..(Wrap - 1), Distance(h, t) > 0
  PROVE  Following(t) \in 0..(Wrap - 1) /\ Distance(h, Following(t)) = Distance(h, t) - 1
<1>1. Following(t) = IF t + 1 = Wrap THEN 0 ELSE t + 1
  BY FollowingIs
<1>2. Following(t) \in 0..(Wrap - 1)
  BY <1>1, ChannelAssumption
<1> QED BY <1>1, <1>2, DistanceIs, ChannelAssumption

-----------------------------------------------------------------------------
(* The values between the indices *)

Content == Values \cup {Nothing}
Arrays  == [0..(Size - 1) -> Content]

\* The n values from index t on.
Window(a, t, n) == [i \in 1..n |-> a[Slot(t + i - 1)]]

\* A window is a sequence of values.
LEMMA WindowIs ==
  ASSUME NEW a \in Arrays, NEW t \in 0..(Wrap - 1), NEW n \in Nat
  PROVE  /\ Window(a, t, n) \in Seq(Content) /\ Len(Window(a, t, n)) = n
         /\ \A i \in 1..n : Window(a, t, n)[i] = a[Slot(t + i - 1)]
<1>1. ASSUME NEW i \in 1..n PROVE a[Slot(t + i - 1)] \in Content
  <2>1. t + i - 1 \in Nat
    BY ChannelAssumption
  <2>2. Slot(t + i - 1) \in 0..(Size - 1)
    BY <2>1, SlotRange
  <2> QED BY <2>2 DEF Arrays
<1> QED
  BY <1>1 DEF Window

\* Writing at the head appends to the window.
LEMMA WriteAppends ==
  ASSUME NEW a \in Arrays, NEW h \in 0..(Wrap - 1), NEW t \in 0..(Wrap - 1), NEW v \in Content,
         NEW n \in 0..(Size - 1), Slot(t + n) = Slot(h)
  PROVE  /\ [a EXCEPT ![Slot(h)] = v] \in Arrays
         /\ Window([a EXCEPT ![Slot(h)] = v], t, n + 1) = Append(Window(a, t, n), v)
<1> DEFINE b == [a EXCEPT ![Slot(h)] = v]
<1>1. Slot(h) \in 0..(Size - 1) /\ t \in Nat /\ n \in Nat /\ h \in Nat
  BY SlotRange, ChannelAssumption
<1>2. b \in Arrays
  BY <1>1 DEF Arrays
<1>3. ASSUME NEW i \in 1..n PROVE b[Slot(t + i - 1)] = a[Slot(t + i - 1)]
  <2>1. t + i - 1 \in Nat /\ n - i + 1 \in 1..(Size - 1) /\ (t + i - 1) + (n - i + 1) = t + n
    BY <1>1, ChannelAssumption
  <2>2. Slot(t + i - 1) # Slot(h) /\ Slot(t + i - 1) \in 0..(Size - 1)
    BY <2>1, SlotsDiffer, SlotRange
  <2> QED BY <2>2 DEF Arrays
<1>4. b[Slot(t + (n + 1) - 1)] = v
  BY <1>1 DEF Arrays
<1> HIDE DEF b
<1>5. /\ Window(b, t, n + 1) \in Seq(Content) /\ Len(Window(b, t, n + 1)) = n + 1
      /\ \A i \in 1..(n + 1) : Window(b, t, n + 1)[i] = b[Slot(t + i - 1)]
  <2>1. n + 1 \in 0..Size
    BY ChannelAssumption
  <2> QED BY <1>2, <2>1, WindowIs
<1>6. /\ Window(a, t, n) \in Seq(Content) /\ Len(Window(a, t, n)) = n
      /\ \A i \in 1..n : Window(a, t, n)[i] = a[Slot(t + i - 1)]
  BY <1>1, WindowIs
<1>7. Append(Window(a, t, n), v) \in Seq(Content) /\ Len(Append(Window(a, t, n), v)) = n + 1
  BY <1>6
<1>8. \A i \in 1..(n + 1) : Window(b, t, n + 1)[i] = Append(Window(a, t, n), v)[i]
  BY <1>3, <1>4, <1>5, <1>6
<1>9. Window(b, t, n + 1) = Append(Window(a, t, n), v)
  BY <1>5, <1>7, <1>8, SeqEqual
<1> QED
  BY <1>2, <1>9 DEF b

\* Moving the tail drops the first value of the window.
LEMMA DropIsTail ==
  ASSUME NEW a \in Arrays, NEW t \in 0..(Wrap - 1), NEW n \in Nat, n > 0
  PROVE  /\ Window(a, t, n) # <<>> /\ Head(Window(a, t, n)) = a[Slot(t)]
         /\ Window(a, Following(t), n - 1) = Tail(Window(a, t, n))
<1>1. Following(t) \in 0..(Wrap - 1) /\ t \in Nat /\ n - 1 \in Nat
  BY FollowingIs, ChannelAssumption
<1>2. /\ Window(a, t, n) \in Seq(Content) /\ Len(Window(a, t, n)) = n
      /\ \A i \in 1..n : Window(a, t, n)[i] = a[Slot(t + i - 1)]
  BY WindowIs
<1>3. /\ Window(a, Following(t), n - 1) \in Seq(Content)
      /\ Len(Window(a, Following(t), n - 1)) = n - 1
      /\ \A i \in 1..(n - 1) : Window(a, Following(t), n - 1)[i] = a[Slot(Following(t) + i - 1)]
  BY <1>1, WindowIs
<1>4. ASSUME NEW i \in 1..(n - 1)
      PROVE  Window(a, Following(t), n - 1)[i] = Tail(Window(a, t, n))[i]
  <2>1. Slot(Following(t) + (i - 1)) = Slot(t + 1 + (i - 1)) /\ i - 1 \in Nat
    BY SlotOfFollowing
  <2>2. Following(t) + (i - 1) = Following(t) + i - 1 /\ t + 1 + (i - 1) = t + (i + 1) - 1
    BY <1>1
  <2>3. Tail(Window(a, t, n))[i] = Window(a, t, n)[i + 1] /\ i + 1 \in 1..n
    BY <1>2
  <2> QED BY <1>2, <1>3, <2>1, <2>2, <2>3
<1>5. Tail(Window(a, t, n)) \in Seq(Content) /\ Len(Tail(Window(a, t, n))) = n - 1
  BY <1>2
<1>6. t + 1 - 1 = t /\ 1 \in 1..n
  BY <1>1
<1>7. Window(a, Following(t), n - 1) = Tail(Window(a, t, n))
  BY <1>3, <1>4, <1>5, SeqEqual
<1> QED BY <1>2, <1>6, <1>7
-----------------------------------------------------------------------------
(* The type invariant *)

\* Besides the types: a producer inside a call has a value to put.
ChannelInv ==
  /\ TypeOK
  /\ \A p \in Producers : pc[p] # "idle" => value[p] \in Values

\* The queue of the refinement is the window between the indices.
LEMMA QueueIsWindow ==
  /\ Queue = Window(array, tail, Distance(head, tail)) /\ Count = Distance(head, tail)
  /\ Queue' = Window(array', tail', Distance(head', tail')) /\ Count' = Distance(head', tail')
BY DEF Queue, Window, Count, Distance

LEMMA ChannelInit == Init => ChannelInv /\ Fifo!Init
<1> SUFFICES ASSUME Init PROVE ChannelInv /\ Fifo!Init
  OBVIOUS
<1>1. head \in 0..(Wrap - 1) /\ tail \in 0..(Wrap - 1) /\ Distance(head, tail) = 0
  BY DistanceIs, ChannelAssumption DEF Init
<1>2. Count = 0
  BY <1>1, QueueIsWindow
<1>3. TypeOK
  <2>1. Count <= Size
    BY <1>2, ChannelAssumption
  <2>2. /\ array \in [0..(Size - 1) -> Values \cup {Nothing}] /\ aborted \in BOOLEAN
        /\ value \in [Producers -> Values \cup {Nothing}]
        /\ out \in [Consumers -> Values \cup {Nothing}]
    BY DEF Init
  <2>3. pc \in [Threads -> Places] /\ call \in [Threads -> {"force_push"} \cup PushKinds \cup PopKinds]
    BY DEF Init, Places, PopKinds
  <2> QED BY <1>1, <2>1, <2>2, <2>3 DEF TypeOK
<1>4. Queue = <<>>
  BY <1>2 DEF Queue
<1> QED
  BY <1>3, <1>4 DEF Init, ChannelInv, Fifo!Init, Threads

\* What the three operations on the buffer do to the types and to the queue.
LEMMA WriteIsPut ==
  ASSUME TypeOK, ~Full, NEW v \in Values, Write(v)
  PROVE  /\ array' \in Arrays /\ head' \in 0..(Wrap - 1) /\ tail' \in 0..(Wrap - 1) /\ Count' <= Size
         /\ Len(Queue) < Size /\ Queue' = Append(Queue, v)
<1> DEFINE n == Distance(head, tail)
<1>1. /\ array \in Arrays /\ head \in 0..(Wrap - 1) /\ tail \in 0..(Wrap - 1)
      /\ n <= Size /\ n # Size
  BY QueueIsWindow DEF TypeOK, Arrays, Content, Full
<1>2. n \in 0..(Wrap - 1) /\ Slot(tail + n) = Slot(head)
  BY <1>1, SlotOfHead
<1> HIDE DEF n
<1>3. n \in 0..(Size - 1) /\ n < Wrap - 1
  BY <1>1, <1>2, ChannelAssumption
<1>4. head' = Following(head) /\ tail' = tail /\ array' = [array EXCEPT ![Slot(head)] = v]
  BY DEF Write
<1>5. head' \in 0..(Wrap - 1) /\ Distance(head', tail') = n + 1
  BY <1>1, <1>3, <1>4, DistanceGrows DEF n
<1>6. array' \in Arrays /\ Window(array', tail', n + 1) = Append(Window(array, tail, n), v)
  <2>1. v \in Content
    BY DEF Content
  <2> QED BY <1>1, <1>2, <1>3, <1>4, <2>1, WriteAppends
<1>7. Queue = Window(array, tail, n) /\ Queue' = Window(array', tail', n + 1) /\ Count' = n + 1
  BY <1>5, QueueIsWindow DEF n
<1>8. Len(Queue) = n
  BY <1>1, <1>3, <1>7, WindowIs
<1>9. Count' <= Size /\ Len(Queue) < Size
  BY <1>3, <1>7, <1>8, ChannelAssumption
<1>10. Queue' = Append(Queue, v)
  BY <1>6, <1>7
<1> QED
  BY <1>1, <1>4, <1>5, <1>6, <1>9, <1>10

LEMMA ReadIsTake ==
  ASSUME TypeOK, ~Empty, NEW c \in Consumers, Read(c)
  PROVE  /\ tail' \in 0..(Wrap - 1) /\ Count' <= Size
         /\ array[Slot(tail)] \in Content
         /\ Queue # <<>> /\ Queue' = Tail(Queue) /\ out' = [out EXCEPT ![c] = Head(Queue)]
<1> DEFINE n == Distance(head, tail)
<1>1. array \in Arrays /\ head \in 0..(Wrap - 1) /\ tail \in 0..(Wrap - 1) /\ n <= Size
  BY QueueIsWindow DEF TypeOK, Arrays, Content
<1>2. n \in 0..(Wrap - 1) /\ n > 0
  <2>1. n = IF head >= tail THEN head - tail ELSE head - tail + Wrap
    BY <1>1, DistanceIs
  <2> HIDE DEF n
  <2> QED BY <1>1, <2>1, ChannelAssumption DEF Empty
<1>3. head' = head /\ tail' = Following(tail) /\ array' = array
  BY DEF Read
<1>4. tail' \in 0..(Wrap - 1) /\ Distance(head', tail') = n - 1
  BY <1>1, <1>2, <1>3, DistanceShrinks
<1> HIDE DEF n
<1>5. /\ Window(array, tail, n) # <<>> /\ Head(Window(array, tail, n)) = array[Slot(tail)]
      /\ Window(array, Following(tail), n - 1) = Tail(Window(array, tail, n))
  BY <1>1, <1>2, DropIsTail
<1>6. Queue = Window(array, tail, n) /\ Queue' = Window(array', tail', n - 1) /\ Count' = n - 1
  BY <1>4, QueueIsWindow DEF n
<1>7. Slot(tail) \in 0..(Size - 1)
  BY <1>1, SlotRange, ChannelAssumption
<1>8. array[Slot(tail)] \in Content
  BY <1>1, <1>7 DEF Arrays
<1>9. Count' <= Size
  BY <1>1, <1>2, <1>6, ChannelAssumption
<1>10. Queue # <<>> /\ Head(Queue) = array[Slot(tail)] /\ Queue' = Tail(Queue)
  BY <1>3, <1>5, <1>6
<1> QED
  BY <1>4, <1>8, <1>9, <1>10 DEF Read

LEMMA OverwriteIsDisplace ==
  ASSUME TypeOK, Full, NEW v \in Values, Overwrite(v)
  PROVE  /\ array' \in Arrays /\ head' \in 0..(Wrap - 1) /\ tail' \in 0..(Wrap - 1) /\ Count' <= Size
         /\ Len(Queue) = Size /\ Queue' = Append(Tail(Queue), v)
<1>1. /\ array \in Arrays /\ head \in 0..(Wrap - 1) /\ tail \in 0..(Wrap - 1)
      /\ Distance(head, tail) = Size
  BY QueueIsWindow DEF TypeOK, Arrays, Content, Full
<1>2. /\ head' = Following(head) /\ tail' = Following(tail)
      /\ array' = [array EXCEPT ![Slot(head)] = v]
  BY DEF Overwrite
<1>3. tail' \in 0..(Wrap - 1) /\ Distance(head, tail') = Size - 1
  BY <1>1, <1>2, DistanceShrinks, ChannelAssumption
<1>4. Slot(tail' + (Size - 1)) = Slot(head)
  BY <1>1, <1>3, SlotOfHead
<1>5. head' \in 0..(Wrap - 1) /\ Distance(head', tail') = Size
  BY <1>1, <1>2, <1>3, DistanceGrows, ChannelAssumption
<1>6. /\ array' \in Arrays
      /\ Window(array', tail', (Size - 1) + 1) = Append(Window(array, tail', Size - 1), v)
  <2>1. Size - 1 \in 0..(Size - 1) /\ v \in Content
    BY ChannelAssumption DEF Content
  <2> DEFINE b == [array EXCEPT ![Slot(head)] = v]
  <2>2. b \in Arrays /\ Window(b, tail', (Size - 1) + 1) = Append(Window(array, tail', Size - 1), v)
    BY <1>1, <1>3, <1>4, <2>1, WriteAppends
  <2> QED BY <1>2, <2>2
<1>7. Window(array, tail', Size - 1) = Tail(Window(array, tail, Size)) /\ Len(Window(array, tail, Size)) = Size
  <2>1. Size \in Nat /\ Size > 0
    BY ChannelAssumption
  <2>2. Window(array, Following(tail), Size - 1) = Tail(Window(array, tail, Size))
    BY <1>1, <2>1, DropIsTail
  <2>3. Len(Window(array, tail, Size)) = Size
    BY <1>1, <2>1, WindowIs
  <2> QED BY <1>2, <2>2, <2>3
<1>8. Queue = Window(array, tail, Size) /\ Queue' = Window(array', tail', Size) /\ Count' = Size
  BY <1>1, <1>5, QueueIsWindow
<1>9. (Size - 1) + 1 = Size
  BY ChannelAssumption
<1> QED
  BY <1>3, <1>5, <1>6, <1>7, <1>8, <1>9, ChannelAssumption
-----------------------------------------------------------------------------
(* The channel is a bounded queue *)

\* A notification only moves threads.
LEMMA NotifyOneTyped ==
  ASSUME TypeOK, NEW t \in Threads, NotifyOne(WaitingNotEmpty, t, "idle")
  PROVE  /\ pc' \in [Threads -> Places]
         /\ \A s \in Threads : pc'[s] # "idle" => pc[s] # "idle"
<1>1. pc \in [Threads -> Places] /\ "woken" \in Places /\ "idle" \in Places
  BY DEF TypeOK, Places
<1>2. CASE pc' = [pc EXCEPT ![t] = "idle"]
  BY <1>1, <1>2
<1>3. ASSUME NEW w \in WaitingNotEmpty, pc' = [pc EXCEPT ![t] = "idle", ![w] = "woken"]
      PROVE  /\ pc' \in [Threads -> Places]
             /\ \A s \in Threads : pc'[s] # "idle" => pc[s] # "idle"
  BY <1>1, <1>3 DEF WaitingNotEmpty, Threads
<1> QED BY <1>2, <1>3 DEF NotifyOne

\* A step that leaves the buffer and the results alone.
Still == UNCHANGED <<buffer, aborted, out>>

LEMMA StillIsFifo ==
  ASSUME TypeOK, Still, pc' \in [Threads -> Places],
         call' \in [Threads -> {"force_push"} \cup PushKinds \cup PopKinds],
         value' \in [Producers -> Content]
  PROVE  TypeOK' /\ UNCHANGED <<Queue, aborted, out>>
<1>1. Count' = Count /\ Queue' = Queue
  BY QueueIsWindow DEF Still, buffer
<1> QED
  BY <1>1 DEF TypeOK, Still, buffer, Content

LEMMA ChannelStep ==
  ChannelInv /\ [Next]_vars => ChannelInv' /\ [Fifo!Next]_<<Queue, aborted, out>>
<1> SUFFICES ASSUME ChannelInv, [Next]_vars
             PROVE  ChannelInv' /\ [Fifo!Next]_<<Queue, aborted, out>>
  OBVIOUS
<1> DEFINE Goal == ChannelInv' /\ [Fifo!Next]_<<Queue, aborted, out>>
<1>0. /\ TypeOK /\ pc \in [Threads -> Places]
      /\ call \in [Threads -> {"force_push"} \cup PushKinds \cup PopKinds]
      /\ value \in [Producers -> Content] /\ out \in [Consumers -> Content]
      /\ Producers \subseteq Threads /\ Consumers \subseteq Threads
      /\ \A p \in Producers : pc[p] # "idle" => value[p] \in Values
  BY DEF ChannelInv, TypeOK, Content, Threads
<1>1. ASSUME Still, pc' \in [Threads -> Places],
             call' \in [Threads -> {"force_push"} \cup PushKinds \cup PopKinds],
             value' \in [Producers -> Content],
             \A p \in Producers : pc'[p] # "idle" => value'[p] \in Values
      PROVE  Goal
  BY <1>0, <1>1, StillIsFifo DEF ChannelInv
<1>2. ASSUME NEW p \in Producers, NEW v \in Values, StartForcePush(p, v) \/ StartPush(p, v) PROVE Goal
  <2>1. PICK kind \in {"force_push"} \cup PushKinds : call' = [call EXCEPT ![p] = kind]
    BY <1>2 DEF StartForcePush, StartPush, Start
  <2>2. Still /\ pc' = [pc EXCEPT ![p] = "enter"] /\ value' = [value EXCEPT ![p] = v]
    BY <1>2 DEF StartForcePush, StartPush, Start, Goto, Still
  <2>3. "enter" \in Places /\ v \in Content
    BY DEF Places, Content
  <2>4. /\ pc' \in [Threads -> Places] /\ value' \in [Producers -> Content]
        /\ \A q \in Producers : pc'[q] # "idle" => value'[q] \in Values
    BY <1>0, <2>2, <2>3
  <2>5. call' \in [Threads -> {"force_push"} \cup PushKinds \cup PopKinds]
    BY <1>0, <2>1
  <2> QED BY <1>1, <2>2, <2>4, <2>5
<1>3. ASSUME NEW c \in Consumers, StartPop(c) PROVE Goal
  <2>1. PICK kind \in PopKinds : call' = [call EXCEPT ![c] = kind]
    BY <1>3 DEF StartPop, Start
  <2>2. Still /\ pc' = [pc EXCEPT ![c] = "enter"] /\ value' = value
    BY <1>3 DEF StartPop, Start, Goto, Still
  <2>3. c \notin Producers /\ "enter" \in Places
    BY ChannelAssumption DEF Places
  <2>4. /\ pc' \in [Threads -> Places]
        /\ \A q \in Producers : pc'[q] # "idle" => value'[q] \in Values
    BY <1>0, <2>2, <2>3
  <2>5. call' \in [Threads -> {"force_push"} \cup PushKinds \cup PopKinds]
    BY <1>0, <2>1
  <2> QED BY <1>0, <1>1, <2>2, <2>4, <2>5
<1>4. ASSUME NEW t \in Threads, NEW place \in Places, pc[t] # "idle",
             pc' = [pc EXCEPT ![t] = place], Still, UNCHANGED <<call, value>>
      PROVE  Goal
  BY <1>0, <1>1, <1>4
<1>5. ASSUME NEW t \in Threads, StillWaiting(t) \/ Interrupted(t), pc[t] # "idle" PROVE Goal
  <2>1. PICK place \in Places : pc' = [pc EXCEPT ![t] = place]
    BY <1>5 DEF StillWaiting, Interrupted, Goto, Places
  <2> QED
    BY <1>4, <1>5, <2>1 DEF StillWaiting, Interrupted, Still
<1>6. ASSUME NEW p \in Producers, NEW v \in Values, (Full /\ Overwrite(v)) \/ (~Full /\ Write(v)),
             UNCHANGED <<aborted, call, value, out>>, pc' \in [Threads -> Places],
             \A q \in Producers : pc'[q] # "idle" => pc[q] # "idle"
      PROVE  Goal
  <2>1. TypeOK'
    BY <1>0, <1>6, WriteIsPut, OverwriteIsDisplace DEF TypeOK, Arrays, Content
  <2>2. Fifo!Put(v) \/ Fifo!Displace(v)
    BY <1>0, <1>6, WriteIsPut, OverwriteIsDisplace DEF Fifo!Put, Fifo!Displace
  <2> QED
    BY <1>0, <1>6, <2>1, <2>2 DEF ChannelInv, Fifo!Next
<1>7. ASSUME NEW p \in Producers, ForcePush(p) PROVE Goal
  <2>1. value[p] \in Values /\ pc[p] = "enter" /\ pc' = [pc EXCEPT ![p] = "notify"]
    BY <1>0, <1>7 DEF ForcePush, Goto
  <2>2. pc' \in [Threads -> Places] /\ \A q \in Producers : pc'[q] # "idle" => pc[q] # "idle"
    BY <1>0, <2>1 DEF Places
  <2>3. (Full /\ Overwrite(value[p])) \/ (~Full /\ Write(value[p]))
    BY <1>7 DEF ForcePush
  <2>4. UNCHANGED <<aborted, call, value, out>>
    BY <1>7 DEF ForcePush
  <2> QED
    BY <1>6, <2>1, <2>2, <2>3, <2>4
<1>8. ASSUME NEW p \in Producers, Push(p) PROVE Goal
  <2>1. pc[p] # "idle" /\ value[p] \in Values
    BY <1>0, <1>8 DEF Push, HasLock
  <2>2. CASE StillWaiting(p) \/ Interrupted(p)
    BY <1>0, <1>5, <2>1, <2>2
  <2>3. CASE /\ ~Full /\ Write(value[p]) /\ NotifyOne(WaitingNotEmpty, p, "idle")
             /\ UNCHANGED <<aborted, call, value, out>>
    BY <1>0, <1>6, <2>1, <2>3, NotifyOneTyped
  <2> QED
    BY <1>8, <2>2, <2>3 DEF Push
<1>9. ASSUME NEW c \in Consumers, Pop(c) PROVE Goal
  <2>1. pc[c] # "idle" /\ c \in Threads /\ c \notin Producers
    BY <1>0, <1>9, ChannelAssumption DEF Pop, HasLock
  <2>2. CASE StillWaiting(c) \/ Interrupted(c)
    BY <1>5, <2>1, <2>2
  <2>3. CASE ~Empty /\ ~aborted /\ Read(c) /\ Goto(c, "notify") /\ UNCHANGED <<aborted, call, value>>
    <3>1. pc' \in [Threads -> Places] /\ \A q \in Producers : pc'[q] = pc[q]
      BY <1>0, <2>1, <2>3 DEF Goto, Places
    <3>2. /\ tail' \in 0..(Wrap - 1) /\ Count' <= Size /\ array[Slot(tail)] \in Content
          /\ Queue # <<>> /\ Queue' = Tail(Queue) /\ out' = [out EXCEPT ![c] = Head(Queue)]
      BY <1>0, <2>3, ReadIsTake
    <3>3. out' = [out EXCEPT ![c] = array[Slot(tail)]] /\ array' = array /\ head' = head
      BY <2>3 DEF Read
    <3>4. out' \in [Consumers -> Values \cup {Nothing}]
      BY <1>0, <3>2, <3>3 DEF Content
    <3>5. TypeOK'
      BY <1>0, <2>3, <3>1, <3>2, <3>3, <3>4 DEF TypeOK
    <3>6. Fifo!Take(c)
      BY <2>3, <3>2 DEF Fifo!Take
    <3> QED
      BY <1>0, <2>3, <3>1, <3>5, <3>6 DEF ChannelInv, Fifo!Next
  <2> QED
    BY <1>9, <2>2, <2>3 DEF Pop
<1>10. ASSUME NEW t \in Threads, Notify(t) PROVE Goal
  <2>1. NotifyOne(WaitingNotEmpty, t, "idle") /\ Still /\ UNCHANGED <<call, value>>
    BY <1>10 DEF Notify, Still
  <2>2. /\ pc' \in [Threads -> Places] /\ \A s \in Threads : pc'[s] # "idle" => pc[s] # "idle"
    BY <1>0, <2>1, NotifyOneTyped
  <2> QED
    BY <1>0, <1>1, <2>1, <2>2
<1>11. ASSUME NEW t \in Threads, Expire(t) \/ WakeSpuriously(t) PROVE Goal
  <2>1. PICK place \in Places : pc' = [pc EXCEPT ![t] = place]
    BY <1>11 DEF Expire, WakeSpuriously, Goto, Places
  <2> QED
    BY <1>4, <1>11, <2>1 DEF Expire, WakeSpuriously, Still
<1>12. CASE Abort
  <2>1. /\ pc' \in [Threads -> Places] /\ \A s \in Threads : pc'[s] # "idle" => pc[s] # "idle"
    BY <1>0, <1>12 DEF Abort, WakeAll, Places
  <2>2. Count' = Count /\ Queue' = Queue /\ aborted' = TRUE /\ UNCHANGED <<buffer, call, value, out>>
    BY <1>12, QueueIsWindow DEF Abort, buffer
  <2>3. TypeOK' /\ Fifo!Close
    BY <1>0, <2>1, <2>2 DEF TypeOK, buffer, Fifo!Close
  <2> QED
    BY <1>0, <2>1, <2>2, <2>3 DEF ChannelInv, Fifo!Next
<1>13. CASE UNCHANGED vars
  <2>1. Still /\ UNCHANGED <<pc, call, value>>
    BY <1>13 DEF vars, Still, buffer
  <2> QED
    BY <1>0, <1>1, <2>1
<1> QED
  BY <1>2, <1>3, <1>7, <1>8, <1>9, <1>10, <1>11, <1>12, <1>13 DEF Next, Step

\* Every variable of the channel keeps its type: the indices stay in range and
\* never more than Size apart, and a value is written only by a call that has one.
THEOREM ChannelTypeCorrect == Spec => []TypeOK
<1>1. ChannelInv => TypeOK
  BY DEF ChannelInv
<1> QED
  BY <1>1, ChannelInit, ChannelStep, PTL DEF Spec

\* The ring buffer with its wrapping indices, its conditions and its calls in
\* steps implements a bounded queue, for every capacity that divides the range of
\* the indices, every number of threads and every set of values.
THEOREM ChannelIsFifo == Spec => IsFifo
BY ChannelInit, ChannelStep, PTL DEF Spec, IsFifo, Fifo!Spec
=============================================================================
