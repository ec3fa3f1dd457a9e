------------------------------ MODULE BoundedFifo ------------------------------
(***************************************************************************)
(* What blocking_bounded_channel promises: a queue of at most Size values. *)
(* A full queue may give up its oldest value for a new one (force_push);   *)
(* otherwise values leave from the front, once each, and none is delivered *)
(* after the channel has been aborted.                                     *)
(***************************************************************************)
EXTENDS Naturals, Sequences

CONSTANTS Consumers, Values, Size, Nothing

VARIABLES
  queue,      \* values put in and not yet taken or displaced
  closed,     \* abort has been called
  out         \* the value each consumer took last

Init == queue = <<>> /\ closed = FALSE /\ out = [c \in Consumers |-> Nothing]

Put(v) ==
  /\ Len(queue) < Size
  /\ queue' = Append(queue, v)
  /\ UNCHANGED <<closed, out>>

Displace(v) ==
  /\ Len(queue) = Size
  /\ queue' = Append(Tail(queue), v)
  /\ UNCHANGED <<closed, out>>

Take(c) ==
  /\ ~closed /\ queue # <<>>
  /\ out' = [out EXCEPT ![c] = Head(queue)]
  /\ queue' = Tail(queue)
  /\ UNCHANGED closed

Close == closed' = TRUE /\ UNCHANGED <<queue, out>>

Next ==
  \/ \E v \in Values : Put(v) \/ Displace(v)
  \/ \E c \in Consumers : Take(c)
  \/ Close

Spec == Init /\ [][Next]_<<queue, closed, out>>
=============================================================================
