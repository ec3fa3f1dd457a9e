-------------------------------- MODULE IoPump --------------------------------
(***************************************************************************)
(* iopump: the thread that takes the bytes an emulated device sends and     *)
(* passes them to a callback, and the owner that flushes and stops it.      *)
(*                                                                         *)
(* The device's channel is the queue that BoundedChannel implements:        *)
(* force_push, pop, size and abort are one step each.  The n-th byte the    *)
(* device sends is the number n, so that bytes can be told apart.           *)
(***************************************************************************)
EXTENDS Integers, Sequences, SequencesExt

CONSTANTS
  Size,           \* capacity of the device's channel
  MaxBytes,       \* bound: bytes the device sends
  MaxShutdowns    \* bound: times the owner stops the pump

ASSUME PumpAssumption == Size \in Nat \ {0} /\ MaxBytes \in Nat /\ MaxShutdowns \in Nat

VARIABLES
  channel, closed,    \* content of the device's channel; it was aborted
  sent,               \* bytes the device has sent
  aborted,            \* iopump::_aborted
  pump, byte,         \* where the pump's thread is, and the byte it holds
  owner, shutdowns,   \* where the owner is, and how often it began to stop
  delivered,          \* history: what was passed to the callback
  displaced,          \* history: bytes that a full channel gave up
  promised            \* history: sent when wait_until_flushed last returned true

deviceVars  == <<channel, closed, sent, displaced>>
pumpVars    == <<aborted, pump, byte, delivered>>
ownerVars   == <<owner, shutdowns, promised>>
ioVars == <<deviceVars, pumpVars, ownerVars>>

PumpPlaces  == {"loop", "receive", "callback", "done"}
OwnerPlaces == {"idle", "flush", "flushed", "stop", "join", "stopped"}

Bytes == 1..MaxBytes

PumpTypeOK ==
  /\ channel \in Seq(Bytes) /\ Len(channel) <= Size
  /\ sent \in 0..MaxBytes /\ promised \in 0..sent
  /\ closed \in BOOLEAN /\ aborted \in BOOLEAN
  /\ pump \in PumpPlaces /\ byte \in 0..MaxBytes
  /\ owner \in OwnerPlaces /\ shutdowns \in 0..MaxShutdowns
  /\ delivered \in Seq(Bytes) /\ displaced \subseteq Bytes

PumpInit ==
  /\ channel = <<>> /\ closed = FALSE /\ sent = 0 /\ displaced = {}
  /\ aborted = FALSE /\ pump = "loop" /\ byte = 0 /\ delivered = <<>>
  /\ owner = "idle" /\ shutdowns = 0 /\ promised = 0

-----------------------------------------------------------------------------
(* The device *)

\* A byte is forced into the channel; an aborted channel refuses it.
Send ==
  /\ sent < MaxBytes /\ ~closed
  /\ sent' = sent + 1
  /\ IF Len(channel) = Size
     THEN channel' = Append(Tail(channel), sent + 1) /\ displaced' = displaced \cup {Head(channel)}
     ELSE channel' = Append(channel, sent + 1) /\ UNCHANGED displaced
  /\ UNCHANGED <<closed, pumpVars, ownerVars>>

-----------------------------------------------------------------------------
(* The thread of the pump *)

Loop ==
  /\ pump = "loop"
  /\ pump' = IF aborted THEN "done" ELSE "receive"
  /\ UNCHANGED <<deviceVars, aborted, byte, delivered, ownerVars>>

\* Mutant: the byte stays in the channel while the callback runs.
ReceiveKeepingByte ==
  /\ pump = "receive"
  /\ \/ closed /\ pump' = "loop" /\ UNCHANGED <<channel, byte>>
     \/ /\ ~closed /\ channel # <<>>
        /\ byte' = Head(channel) /\ UNCHANGED channel
        /\ pump' = "callback"
  /\ UNCHANGED <<closed, sent, displaced, aborted, delivered, ownerVars>>

\* receive blocks until there is a byte, and fails once the channel is aborted.
Receive ==
  /\ pump = "receive"
  /\ \/ closed /\ pump' = "loop" /\ UNCHANGED <<channel, byte>>
     \/ /\ ~closed /\ channel # <<>>
        /\ byte' = Head(channel) /\ channel' = Tail(channel)
        /\ pump' = "callback"
  /\ UNCHANGED <<closed, sent, displaced, aborted, delivered, ownerVars>>

\* Mutant: no byte is passed on once the pump is to stop.
CallbackUnlessAborted ==
  /\ pump = "callback"
  /\ delivered' = IF aborted THEN delivered ELSE Append(delivered, byte)
  /\ pump' = "loop"
  /\ UNCHANGED <<deviceVars, aborted, byte, ownerVars>>

Callback ==
  /\ pump = "callback"
  /\ delivered' = Append(delivered, byte)
  /\ pump' = "loop"
  /\ UNCHANGED <<deviceVars, aborted, byte, ownerVars>>

-----------------------------------------------------------------------------
(* The owner *)

BytesAvailable == Len(channel)

BeginShutdown ==
  /\ owner \in {"idle", "stopped"} /\ shutdowns < MaxShutdowns
  /\ owner' = "flush" /\ shutdowns' = shutdowns + 1
  /\ UNCHANGED <<deviceVars, pumpVars, promised>>

\* wait_until_flushed without a timeout polls until the device has no byte.
WaitUntilFlushed ==
  /\ owner = "flush" /\ BytesAvailable = 0
  /\ owner' = "flushed" /\ promised' = sent
  /\ UNCHANGED <<deviceVars, pumpVars, shutdowns>>

Abort ==
  /\ owner = "flushed"
  /\ aborted' = TRUE /\ owner' = "stop"
  /\ UNCHANGED <<deviceVars, pump, byte, delivered, shutdowns, promised>>

ShutdownDevice ==
  /\ owner = "stop"
  /\ closed' = TRUE /\ owner' = "join"
  /\ UNCHANGED <<channel, sent, displaced, pumpVars, shutdowns, promised>>

\* A thread that was joined before is not joined again.
Join ==
  /\ owner = "join" /\ pump = "done"
  /\ owner' = "stopped"
  /\ UNCHANGED <<deviceVars, pumpVars, shutdowns, promised>>

PumpThread == Loop \/ Receive \/ Callback
OwnerThread == WaitUntilFlushed \/ Abort \/ ShutdownDevice \/ Join

PumpNext == Send \/ PumpThread \/ BeginShutdown \/ OwnerThread

PumpSpec == PumpInit /\ [][PumpNext]_ioVars

-----------------------------------------------------------------------------
(* Properties *)

\* What the owner may rely on after wait_until_flushed.
Passed(n) == n \in displaced \/ Contains(delivered, n)

(***************************************************************************)
(* Stopping the pump loses no byte that was sent before the flush: once    *)
(* shutdown returns, each was passed to the callback, unless a full         *)
(* channel had given it up.                                                *)
(***************************************************************************)
StoppedMeansDelivered ==
  owner = "stopped" => pump = "done" /\ \A n \in 1..promised : Passed(n)

(***************************************************************************)
(* The callback gets the bytes in the order the device sent them, each at  *)
(* most once, whatever is displaced or left behind.                        *)
(***************************************************************************)
InOrder ==
  \A i, j \in 1..Len(delivered) : i < j => delivered[i] < delivered[j]

(***************************************************************************)
(* The inductive form.  Every byte sent is in one of four places, the bytes *)
(* that were delivered, that the pump holds and that are in the channel     *)
(* follow each other, and those in the channel came after the last flush.   *)
(***************************************************************************)
Holds(n) == pump = "callback" /\ byte = n

NothingLost == \A n \in 1..sent : Passed(n) \/ Holds(n) \/ Contains(channel, n)

ChannelInOrder ==
  /\ \A i \in 1..Len(channel) : channel[i] > promised /\ channel[i] <= sent
  /\ \A i, j \in 1..Len(channel) : i < j => channel[i] < channel[j]

HeldInOrder ==
  pump = "callback" =>
    /\ byte \in 1..sent
    /\ \A i \in 1..Len(channel) : byte < channel[i]
    /\ \A i \in 1..Len(delivered) : delivered[i] < byte

DeliveredInOrder ==
  /\ InOrder
  /\ \A i \in 1..Len(delivered) :
       delivered[i] <= sent /\ \A j \in 1..Len(channel) : delivered[i] < channel[j]

PumpInv ==
  /\ PumpTypeOK
  /\ NothingLost
  /\ ChannelInOrder /\ HeldInOrder /\ DeliveredInOrder
  /\ owner = "stopped" => pump = "done"
=============================================================================
