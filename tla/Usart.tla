--------------------------------- MODULE Usart ---------------------------------
(***************************************************************************)
(* usart_controller and its registers: bytes from the host reach the        *)
(* program through a channel and the RX register, bytes of the program go   *)
(* out through the TX register, and one event flag for both directions      *)
(* decides when the interrupt is raised.                                   *)
(*                                                                         *)
(* The n-th byte the host sends and the n-th byte the program writes are    *)
(* the number n; 0 is what a reset leaves in a register.  The channels are   *)
(* the queues that BoundedChannel implements; what becomes of a byte after  *)
(* it was put into the outgoing one is told by IoPump.                      *)
(***************************************************************************)
EXTENDS Integers, Sequences, SequencesExt

CONSTANTS
  RxSize,          \* capacity of the channel of received bytes
  MaxReceived,     \* bound: bytes the host sends
  MaxWritten,      \* bound: bytes the program writes
  MaxTransmitted   \* bound: transmissions, beyond which no flag of TX is cleared

ASSUME UsartAssumption ==
  /\ RxSize \in Nat \ {0} /\ MaxReceived \in Nat
  /\ MaxWritten \in Nat /\ MaxTransmitted \in Nat

VARIABLES
  enabled, rxIe, txIe,   \* CR1
  rxNotEmpty, txEmpty,   \* ISR
  event,                 \* _interrupt_event
  rx, tx,                \* the data registers
  rxBuffer,              \* content of _rx_buffer
  closed,                \* the channels were aborted
  received,              \* bytes the host has sent
  taken,                 \* history: bytes the program has read
  givenUp,               \* history: bytes a full channel, ICR or a reset discarded
  written,               \* bytes the program has written
  transmitted,           \* history: bytes put into _tx_buffer
  owed,                  \* history: bytes written to the enabled USART, not discarded
  repeated               \* history: bytes the program marked as not transmitted by ICR

registers == <<enabled, rxIe, txIe, rxNotEmpty, txEmpty, event, rx, tx>>
rxVars    == <<rxBuffer, received, taken, givenUp>>
txVars    == <<written, transmitted, owed, repeated>>
usartVars == <<registers, closed, rxVars, txVars>>

UsartTypeOK ==
  /\ enabled \in BOOLEAN /\ rxIe \in BOOLEAN /\ txIe \in BOOLEAN
  /\ rxNotEmpty \in BOOLEAN /\ txEmpty \in BOOLEAN /\ event \in BOOLEAN
  /\ closed \in BOOLEAN
  /\ received \in 0..MaxReceived /\ rx \in 0..received
  /\ rxBuffer \in Seq(1..received) /\ Len(rxBuffer) <= RxSize
  /\ taken \in Seq(1..received) /\ givenUp \subseteq 1..received
  /\ written \in 0..MaxWritten /\ tx \in 0..written
  /\ transmitted \in Seq(0..written)
  /\ owed \subseteq 1..written /\ repeated \subseteq 0..written

\* The machine is reset before it runs.
UsartInit ==
  /\ enabled = FALSE /\ rxIe = FALSE /\ txIe = FALSE
  /\ rxNotEmpty = FALSE /\ txEmpty = TRUE /\ event = TRUE /\ rx = 0 /\ tx = 0
  /\ rxBuffer = <<>> /\ closed = FALSE
  /\ received = 0 /\ taken = <<>> /\ givenUp = {}
  /\ written = 0 /\ transmitted = <<>> /\ owed = {} /\ repeated = {}

-----------------------------------------------------------------------------
(* The host *)

HostSend ==
  /\ received < MaxReceived /\ ~closed
  /\ received' = received + 1
  /\ IF Len(rxBuffer) = RxSize
     THEN /\ rxBuffer' = Append(Tail(rxBuffer), received + 1)
          /\ givenUp' = givenUp \cup {Head(rxBuffer)}
     ELSE rxBuffer' = Append(rxBuffer, received + 1) /\ UNCHANGED givenUp
  /\ UNCHANGED <<registers, closed, taken, txVars>>

HostShutdown ==
  /\ ~closed /\ closed' = TRUE
  /\ UNCHANGED <<registers, rxVars, txVars>>

-----------------------------------------------------------------------------
(* A step of the controller *)

\* Mutant: the program need not have read the byte before.
MovesInOverUnread == rxBuffer # <<>> /\ ~closed

\* A byte moves from the channel to the RX register.
MovesIn == rxBuffer # <<>> /\ ~rxNotEmpty /\ ~closed

\* Mutant: a transmission waits until its interrupt is enabled.
MovesOutForInterrupt == ~txEmpty /\ txIe

\* A byte moves from the TX register to the channel, which takes it unless aborted.
MovesOut == ~txEmpty

\* The flags once both have moved; either move is an event.
RxNotEmptyThen == rxNotEmpty \/ MovesIn
TxEmptyThen    == txEmpty \/ MovesOut
EventThen      == event \/ MovesIn \/ MovesOut

\* Mutant: the two directions exclude each other.
RaisesForOne ==
  enabled /\ EventThen /\ IF TxEmptyThen THEN txIe ELSE (RxNotEmptyThen /\ rxIe)

\* The interrupt is raised in this step.
Raises ==
  enabled /\ EventThen /\ ((TxEmptyThen /\ txIe) \/ (RxNotEmptyThen /\ rxIe))

UsartStep ==
  \/ ~enabled /\ UNCHANGED usartVars
  \/ /\ enabled
     /\ IF MovesIn THEN rx' = Head(rxBuffer) /\ rxBuffer' = Tail(rxBuffer)
                   ELSE UNCHANGED <<rx, rxBuffer>>
     /\ transmitted' = IF MovesOut /\ ~closed THEN Append(transmitted, tx) ELSE transmitted
     /\ rxNotEmpty' = RxNotEmptyThen /\ txEmpty' = TxEmptyThen
     /\ event' = (EventThen /\ ~Raises)
     /\ UNCHANGED <<enabled, rxIe, txIe, tx, closed, received, taken, givenUp,
                    written, owed, repeated>>

-----------------------------------------------------------------------------
(* The registers, as the program sees them *)

Unread == IF rxNotEmpty THEN {rx} ELSE {}

\* reset: the RX register keeps its byte, and the reset of the TX register
\* sets the event flag that was cleared first.
Resets ==
  /\ rxNotEmpty' = FALSE /\ txEmpty' = TRUE /\ event' = TRUE /\ tx' = 0
  /\ givenUp' = givenUp \cup Unread /\ owed' = {}

UsartReset ==
  /\ Resets
  /\ enabled' = FALSE /\ rxIe' = FALSE /\ txIe' = FALSE
  /\ UNCHANGED <<rx, closed, rxBuffer, received, taken, written, transmitted, repeated>>

\* Enabling an interrupt is an event; disabling the USART resets it first.
WriteCr1(enable, rie, tie) ==
  /\ enabled' = enable /\ rxIe' = rie /\ txIe' = tie
  /\ IF enabled /\ ~enable
     THEN Resets
     ELSE /\ event' = (event \/ (tie /\ ~txIe) \/ (rie /\ ~rxIe))
          /\ UNCHANGED <<rxNotEmpty, txEmpty, tx, givenUp, owed>>
  /\ UNCHANGED <<rx, closed, rxBuffer, received, taken, written, transmitted, repeated>>

ReadRx ==
  /\ taken' = IF rxNotEmpty THEN Append(taken, rx) ELSE taken
  /\ rxNotEmpty' = FALSE
  /\ UNCHANGED <<enabled, rxIe, txIe, txEmpty, event, rx, tx, closed,
                 rxBuffer, received, givenUp, txVars>>

WriteTx ==
  /\ written < MaxWritten
  /\ written' = written + 1 /\ tx' = written + 1 /\ txEmpty' = FALSE
  /\ owed' = IF enabled THEN owed \cup {written + 1} ELSE owed
  /\ UNCHANGED <<enabled, rxIe, txIe, rxNotEmpty, event, rx, closed, rxVars,
                 transmitted, repeated>>

\* ICR clears flags and nothing else: a byte that was transmitted is due again.
WriteIcr(clearRx, clearTx) ==
  /\ clearTx => Len(transmitted) < MaxTransmitted
  /\ rxNotEmpty' = (rxNotEmpty /\ ~clearRx) /\ txEmpty' = (txEmpty /\ ~clearTx)
  /\ givenUp' = IF clearRx THEN givenUp \cup Unread ELSE givenUp
  /\ repeated' = IF clearTx /\ txEmpty THEN repeated \cup {tx} ELSE repeated
  /\ UNCHANGED <<enabled, rxIe, txIe, event, rx, tx, closed, rxBuffer, received, taken,
                 written, transmitted, owed>>

ProgramAccess ==
  \/ \E e, r, t \in BOOLEAN : WriteCr1(e, r, t)
  \/ \E r, t \in BOOLEAN : WriteIcr(r, t)
  \/ ReadRx \/ WriteTx

\* The causes for which the program wants an interrupt now.
Due ==
  {cause \in {"rx", "tx"} :
     enabled /\ IF cause = "rx" THEN rxIe /\ rxNotEmpty ELSE txIe /\ txEmpty}
=============================================================================
