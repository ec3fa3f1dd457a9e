----------------------------- MODULE StreamServer -----------------------------
(***************************************************************************)
(* stream_server: the threads that accept connections, broadcast what the   *)
(* device sends, read from the connections and delete them, and the owner   *)
(* that closes the server, twice when close is called before the destructor.*)
(*                                                                         *)
(* Module IoPump has the device, the pump and the way the owner stops it.   *)
(* The callback of the pump is broadcast here.  A wait for a condition is a *)
(* step that waits until it holds (see Waitable), but start, which sets one *)
(* while the other threads already see it, has two.                         *)
(***************************************************************************)
EXTENDS IoPump

CONSTANTS
  Conns,            \* connections clients may make
  NoOne             \* no connection, no holder of a mutex

ASSUME ServerAssumption == NoOne \notin Conns \cup {"pump", "cleanup"}

VARIABLES
  closing,          \* where the owner is in close
  accepting,        \* _accept_connections
  listening,        \* _socket is open
  acceptor, handed, \* the acceptor's thread, and the connection it handles
  cleaning,         \* _cleanup_connections
  cleanup,          \* the cleanup thread
  mutex,            \* holder of _clients_mutex between two of its steps
  unsent,           \* connections the broadcast under way has still to reach
  noClients, noClientsToDelete,           \* the two conditions
  place,            \* who owns each connection
  gone,             \* its client has closed it
  open,             \* its socket is open on this side
  stop,             \* _shutdown_requested
  started,          \* the value of _start_reading
  listener          \* the thread of each connection

acceptorVars == <<accepting, listening, acceptor, handed>>
managerVars  == <<mutex, unsent, noClients, noClientsToDelete, place>>
cleanupVars  == <<cleaning, cleanup>>
connVars     == <<gone, open, stop, started, listener>>
vars == <<ioVars, closing, acceptorVars, managerVars, cleanupVars, connVars>>

Closings == {"no", "pump", "socket", "acceptor", "clients", "noclients",
             "todelete", "stopcleanup", "cleanup", "closed"}
AcceptorPlaces == {"loop", "accept", "add", "start", "notify", "done"}
ListenerPlaces == {"none", "created", "sleep", "reading", "callback", "ending", "done"}
Owners == {"none", "acceptor", "clients", "removed", "deleted"}

TypeOK ==
  /\ PumpTypeOK
  /\ closing \in Closings
  /\ accepting \in BOOLEAN /\ listening \in BOOLEAN /\ acceptor \in AcceptorPlaces
  /\ handed \in Conns \cup {NoOne}
  /\ handed = NoOne <=> acceptor \in {"loop", "accept", "done"}
  /\ cleaning \in BOOLEAN /\ cleanup \in {"loop", "delete", "done"}
  /\ mutex \in {NoOne, "pump", "cleanup"}
  /\ mutex = "cleanup" <=> cleanup = "delete"
  /\ unsent \subseteq Conns /\ (unsent # {} => mutex = "pump")
  /\ noClients \in BOOLEAN /\ noClientsToDelete \in BOOLEAN
  /\ place \in [Conns -> Owners]
  /\ gone \in [Conns -> BOOLEAN] /\ open \in [Conns -> BOOLEAN] /\ stop \in [Conns -> BOOLEAN]
  /\ started \in [Conns -> BOOLEAN] /\ listener \in [Conns -> ListenerPlaces]

Clients == {c \in Conns : place[c] = "clients"}

Init ==
  /\ PumpInit
  /\ closing = "no"
  /\ accepting = TRUE /\ listening = TRUE /\ acceptor = "loop" /\ handed = NoOne
  /\ cleaning = TRUE /\ cleanup = "loop"
  /\ mutex = NoOne /\ unsent = {} /\ noClients = TRUE /\ noClientsToDelete = FALSE
  /\ place = [c \in Conns |-> "none"] /\ gone = [c \in Conns |-> FALSE]
  /\ open = [c \in Conns |-> FALSE] /\ stop = [c \in Conns |-> FALSE]
  /\ started = [c \in Conns |-> FALSE] /\ listener = [c \in Conns |-> "none"]

-----------------------------------------------------------------------------
(* The clients outside *)

Disconnect(c) ==
  /\ place[c] # "none" /\ ~gone[c]
  /\ gone' = [gone EXCEPT ![c] = TRUE]
  /\ UNCHANGED <<ioVars, closing, acceptorVars, managerVars, cleanupVars, open, stop, started, listener>>

-----------------------------------------------------------------------------
(* The device and its pump *)

rest == <<closing, acceptorVars, managerVars, cleanupVars, connVars>>

DeviceSends == Send /\ UNCHANGED rest

PumpTakes == (Loop \/ Receive) /\ UNCHANGED rest

Broadcast ==
  /\ pump = "callback" /\ mutex = NoOne
  /\ mutex' = "pump" /\ unsent' = Clients
  /\ UNCHANGED <<ioVars, closing, acceptorVars, cleanupVars, connVars,
                 noClients, noClientsToDelete, place>>

\* send blocks until the client reads; that a socket is closed only makes it fail.
SendTo(c) ==
  /\ c \in unsent
  /\ unsent' = unsent \ {c}
  /\ UNCHANGED <<ioVars, closing, acceptorVars, cleanupVars, connVars,
                 mutex, noClients, noClientsToDelete, place>>

\* Mutant: a byte is dropped when the pump is to stop.
BroadcastEndsUnlessAborted ==
  /\ mutex = "pump" /\ unsent = {}
  /\ IF aborted THEN pump' = "loop" /\ UNCHANGED delivered ELSE Callback
  /\ mutex' = NoOne
  /\ UNCHANGED <<deviceVars, aborted, byte, ownerVars, closing, acceptorVars, cleanupVars, connVars,
                 unsent, noClients, noClientsToDelete, place>>

BroadcastEnds ==
  /\ mutex = "pump" /\ unsent = {}
  /\ Callback
  /\ mutex' = NoOne
  /\ UNCHANGED <<closing, acceptorVars, cleanupVars, connVars,
                 unsent, noClients, noClientsToDelete, place>>

-----------------------------------------------------------------------------
(* The acceptor *)

AcceptLoop ==
  /\ acceptor = "loop"
  /\ acceptor' = IF accepting THEN "accept" ELSE "done"
  /\ UNCHANGED <<ioVars, closing, accepting, listening, handed, managerVars, cleanupVars, connVars>>

\* A client has connected.  The new connection starts its thread, and waits until it runs.
Accept(c) ==
  /\ acceptor = "accept" /\ listening
  /\ place[c] = "none"
  /\ open' = [open EXCEPT ![c] = TRUE]
  /\ listener' = [listener EXCEPT ![c] = "created"]
  /\ place' = [place EXCEPT ![c] = "acceptor"]
  /\ acceptor' = "add" /\ handed' = c
  /\ UNCHANGED <<ioVars, closing, accepting, listening, mutex, unsent,
                 noClients, noClientsToDelete, cleanupVars, gone, stop, started>>

AcceptFails ==
  /\ acceptor = "accept" /\ ~listening
  /\ acceptor' = "loop"
  /\ UNCHANGED <<ioVars, closing, accepting, listening, handed, managerVars, cleanupVars, connVars>>

AddClient ==
  /\ acceptor = "add" /\ mutex = NoOne
  /\ place' = [place EXCEPT ![handed] = "clients"]
  /\ noClients' = FALSE
  /\ acceptor' = "start"
  /\ UNCHANGED <<ioVars, closing, accepting, listening, handed, mutex, unsent,
                 noClientsToDelete, cleanupVars, connVars>>

\* _start_reading is set: first its value, seen at once, then the notification.
Start ==
  /\ acceptor = "start"
  /\ started' = [started EXCEPT ![handed] = TRUE]
  /\ acceptor' = "notify"
  /\ UNCHANGED <<ioVars, closing, accepting, listening, handed, managerVars, cleanupVars,
                 gone, open, stop, listener>>

StartNotifies ==
  /\ acceptor = "notify"
  /\ acceptor' = "loop" /\ handed' = NoOne
  /\ UNCHANGED <<ioVars, closing, accepting, listening, managerVars, cleanupVars, connVars>>

-----------------------------------------------------------------------------
(* The thread of a connection *)

ListenerGoes(c, next) ==
  /\ listener' = [listener EXCEPT ![c] = next]
  /\ UNCHANGED <<ioVars, closing, acceptorVars, cleanupVars, gone, open, stop, started>>

\* The first look at _start_reading needs no mutex.
AwaitStart(c) ==
  /\ listener[c] = "created"
  /\ ListenerGoes(c, IF started[c] THEN "reading" ELSE "sleep")
  /\ UNCHANGED managerVars

\* set holds the mutex of the condition until it has notified.
Wake(c) ==
  /\ listener[c] = "sleep" /\ started[c]
  /\ ~(acceptor = "notify" /\ handed = c)
  /\ ListenerGoes(c, "reading")
  /\ UNCHANGED managerVars

\* Mutant: only close ends the reading.
StopReadingWhenAsked(c) ==
  /\ listener[c] = "reading" /\ stop[c]
  /\ ListenerGoes(c, "callback")
  /\ UNCHANGED managerVars

\* What the client sends goes to the device, and is left out here.
StopReading(c) ==
  /\ listener[c] = "reading"
  /\ stop[c] \/ ~open[c] \/ gone[c]
  /\ ListenerGoes(c, "callback")
  /\ UNCHANGED managerVars

\* Mutant: the condition of close is not reset.
RemoveClientWithoutReset(c) ==
  /\ listener[c] = "callback" /\ mutex = NoOne
  /\ place' = [place EXCEPT ![c] = "removed"]
  /\ noClients' = (Clients = {c} \/ noClients)
  /\ ListenerGoes(c, "ending")
  /\ UNCHANGED <<mutex, unsent, noClientsToDelete>>

\* Mutant: a client is removed in the middle of a broadcast.
RemoveClientUnlocked(c) ==
  /\ listener[c] = "callback"
  /\ place' = [place EXCEPT ![c] = "removed"]
  /\ noClientsToDelete' = FALSE
  /\ noClients' = (Clients = {c} \/ noClients)
  /\ ListenerGoes(c, "ending")
  /\ UNCHANGED <<mutex, unsent>>

RemoveClient(c) ==
  /\ listener[c] = "callback" /\ mutex = NoOne
  /\ IF c \in Clients
     THEN place' = [place EXCEPT ![c] = "removed"] /\ noClientsToDelete' = FALSE
     ELSE UNCHANGED <<place, noClientsToDelete>>
  /\ noClients' = (noClients \/ Clients \subseteq {c})
  /\ ListenerGoes(c, "ending")
  /\ UNCHANGED <<mutex, unsent>>

ListenerEnds(c) ==
  /\ listener[c] = "ending"
  /\ ListenerGoes(c, "done")
  /\ UNCHANGED managerVars

-----------------------------------------------------------------------------
(* The cleanup thread *)

CleanupLoop ==
  /\ cleanup = "loop"
  /\ \/ ~cleaning /\ cleanup' = "done" /\ UNCHANGED mutex
     \/ cleaning /\ mutex = NoOne /\ cleanup' = "delete" /\ mutex' = "cleanup"
  /\ UNCHANGED <<ioVars, closing, acceptorVars, cleaning, connVars,
                 unsent, noClients, noClientsToDelete, place>>

\* The destructor closes the connection and joins its thread.
Delete(c) ==
  /\ cleanup = "delete" /\ place[c] = "removed" /\ listener[c] = "done"
  /\ place' = [place EXCEPT ![c] = "deleted"]
  /\ open' = [open EXCEPT ![c] = FALSE] /\ stop' = [stop EXCEPT ![c] = TRUE]
  /\ UNCHANGED <<ioVars, closing, acceptorVars, cleanupVars, gone, started, listener,
                 mutex, unsent, noClients, noClientsToDelete>>

CleanupEnds ==
  /\ cleanup = "delete" /\ \A c \in Conns : place[c] # "removed"
  /\ noClientsToDelete' = TRUE
  /\ mutex' = NoOne /\ cleanup' = "loop"
  /\ UNCHANGED <<ioVars, closing, acceptorVars, cleaning, connVars, unsent, noClients, place>>

-----------------------------------------------------------------------------
(* The owner: close *)

BeginClose ==
  /\ closing \in {"no", "closed"}
  /\ BeginShutdown
  /\ closing' = "pump"
  /\ UNCHANGED <<acceptorVars, managerVars, cleanupVars, connVars>>

StopPump == closing = "pump" /\ OwnerThread /\ UNCHANGED rest

StopAccepting ==
  /\ closing = "pump" /\ owner = "stopped"
  /\ accepting' = FALSE /\ closing' = "socket"
  /\ UNCHANGED <<ioVars, listening, acceptor, handed, managerVars, cleanupVars, connVars>>

\* Mutant: the socket is not shut down, so a blocked accept goes on.
CloseSocketWithoutShutdown ==
  /\ closing = "socket"
  /\ closing' = "acceptor"
  /\ UNCHANGED <<ioVars, acceptorVars, managerVars, cleanupVars, connVars>>

\* A blocked accept fails.
CloseSocket ==
  /\ closing = "socket"
  /\ listening' = FALSE /\ closing' = "acceptor"
  /\ UNCHANGED <<ioVars, accepting, acceptor, handed, managerVars, cleanupVars, connVars>>

\* Mutant: close does not wait for the acceptor.
LeaveAcceptor ==
  /\ closing = "acceptor"
  /\ closing' = "clients"
  /\ UNCHANGED <<ioVars, acceptorVars, managerVars, cleanupVars, connVars>>

JoinAcceptor ==
  /\ closing = "acceptor" /\ acceptor = "done"
  /\ closing' = "clients"
  /\ UNCHANGED <<ioVars, acceptorVars, managerVars, cleanupVars, connVars>>

CloseAllClients ==
  /\ closing = "clients" /\ mutex = NoOne
  /\ open' = [c \in Conns |-> open[c] /\ c \notin Clients]
  /\ stop' = [c \in Conns |-> stop[c] \/ c \in Clients]
  /\ closing' = "noclients"
  /\ UNCHANGED <<ioVars, acceptorVars, managerVars, cleanupVars, gone, started, listener>>

WaitNoMoreClients ==
  /\ closing = "noclients" /\ noClients
  /\ closing' = "todelete"
  /\ UNCHANGED <<ioVars, acceptorVars, managerVars, cleanupVars, connVars>>

WaitNoMoreClientsToDelete ==
  /\ closing = "todelete" /\ noClientsToDelete
  /\ closing' = "stopcleanup"
  /\ UNCHANGED <<ioVars, acceptorVars, managerVars, cleanupVars, connVars>>

StopCleanup ==
  /\ closing = "stopcleanup"
  /\ cleaning' = FALSE /\ closing' = "cleanup"
  /\ UNCHANGED <<ioVars, acceptorVars, managerVars, cleanup, connVars>>

JoinCleanup ==
  /\ closing = "cleanup" /\ cleanup = "done"
  /\ closing' = "closed"
  /\ UNCHANGED <<ioVars, acceptorVars, managerVars, cleanupVars, connVars>>

-----------------------------------------------------------------------------

PumpStep == PumpTakes \/ Broadcast \/ (\E c \in Conns : SendTo(c)) \/ BroadcastEnds
AcceptorStep ==
  AcceptLoop \/ (\E c \in Conns : Accept(c)) \/ AcceptFails \/ AddClient \/ Start \/ StartNotifies
ListenerStep(c) == AwaitStart(c) \/ Wake(c) \/ StopReading(c) \/ RemoveClient(c) \/ ListenerEnds(c)
CleanupStep == CleanupLoop \/ (\E c \in Conns : Delete(c)) \/ CleanupEnds
CloseStep ==
  \/ StopPump \/ StopAccepting \/ CloseSocket \/ JoinAcceptor \/ CloseAllClients
  \/ WaitNoMoreClients \/ WaitNoMoreClientsToDelete \/ StopCleanup \/ JoinCleanup

Next ==
  \/ \E c \in Conns : Disconnect(c) \/ ListenerStep(c)
  \/ DeviceSends \/ PumpStep \/ AcceptorStep \/ CleanupStep
  \/ BeginClose \/ CloseStep

Spec == Init /\ [][Next]_vars

(***************************************************************************)
(* Every thread that can run again and again does run: the mutex of the     *)
(* clients is given to everyone who wants it, because the cleanup thread,   *)
(* the only one that takes it over and over, sleeps in between.  The        *)
(* clients read what they are sent (SendTo).  No one owes a connection, a   *)
(* byte or a call of close.                                                *)
(***************************************************************************)
Fairness ==
  /\ SF_vars(PumpStep) /\ SF_vars(AcceptorStep) /\ SF_vars(CleanupStep) /\ SF_vars(CloseStep)
  /\ \A c \in Conns : SF_vars(ListenerStep(c))

FairSpec == Spec /\ Fairness

-----------------------------------------------------------------------------
(* Properties *)

\* Whatever the broadcast does, the pump is the one of module IoPump.
PumpWorks == PumpSpec

(***************************************************************************)
(* When close returns nothing of the server is left: the threads have      *)
(* ended, and every connection was taken from the list and deleted.         *)
(***************************************************************************)
ClosedMeansGone ==
  closing = "closed" =>
    /\ pump = "done" /\ acceptor = "done" /\ cleanup = "done"
    /\ \A c \in Conns : place[c] \in {"none", "deleted"} /\ listener[c] \in {"none", "done"}

(***************************************************************************)
(* The loop of a broadcast only meets connections that are still in the     *)
(* list: none is removed while it runs.                                    *)
(***************************************************************************)
BroadcastMeetsClients == unsent \subseteq Clients

(***************************************************************************)
(* A connection is closed only after it was started, so close never has to *)
(* interrupt a thread that waits to be started (and cannot lose that       *)
(* interruption, which comes without the mutex of the wait).               *)
(***************************************************************************)
ClosedAfterStart == \A c \in Conns : stop[c] => started[c]

\* The conditions close waits for mean what they say whenever it can see them.
ConditionsAreTrue ==
  mutex = NoOne =>
    /\ noClients => Clients = {}
    /\ noClientsToDelete => \A c \in Conns : place[c] # "removed"

(***************************************************************************)
(* close returns, unless the device sent something between the flush and   *)
(* the abort of an earlier close: no one takes those bytes, and the flush  *)
(* of this one waits for them.                                             *)
(***************************************************************************)
CloseReturns == []<>(closing \in {"no", "closed"} \/ (closed /\ BytesAvailable > 0))

\* A connection whose client has gone does not stay, while the server runs on.
DisconnectedIsDeleted == \A c \in Conns : []<>(gone[c] => place[c] \in {"acceptor", "deleted"})

\* A connection lives until start has returned.
StartOutlived ==
  [][\A c \in Conns : place'[c] = "deleted" /\ place[c] # "deleted" => handed # c]_vars
=============================================================================
