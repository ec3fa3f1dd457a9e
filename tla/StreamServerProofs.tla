--------------------------- MODULE StreamServerProofs ---------------------------
(***************************************************************************)
(* What reaches the callback of the pump, for every capacity of the        *)
(* channel and every number of bytes; and what holds of the server for     *)
(* every number of connections, bytes and calls of close: it contains that *)
(* pump, a broadcast never meets a removed connection, close stops what    *)
(* was started, the conditions it waits for are true, and it leaves        *)
(* nothing.                                                                *)
(***************************************************************************)
EXTENDS StreamServer, TLAPS

-----------------------------------------------------------------------------
(* The pump by itself *)

\* What is in a sequence before its last element was added, or its first
\* removed, is still there.
LEMMA ContainsAppend ==
  ASSUME NEW s \in Seq(Bytes), NEW e \in Bytes, NEW x
  PROVE  Contains(Append(s, e), x) <=> Contains(s, x) \/ x = e
  BY DEF Contains

LEMMA ContainsTail ==
  ASSUME NEW s \in Seq(Bytes), s # <<>>, NEW x
  PROVE  Contains(s, x) <=> x = Head(s) \/ Contains(Tail(s), x)
<1>1. ASSUME Contains(s, x), x # Head(s) PROVE Contains(Tail(s), x)
  <2>1. PICK i \in 1..Len(s) : s[i] = x BY <1>1 DEF Contains
  <2>2. i - 1 \in 1..Len(Tail(s)) /\ Tail(s)[i - 1] = x BY <1>1, <2>1
  <2> QED BY <2>2 DEF Contains
<1>2. ASSUME Contains(Tail(s), x) PROVE Contains(s, x)
  <2>1. PICK i \in 1..Len(Tail(s)) : Tail(s)[i] = x BY <1>2 DEF Contains
  <2>2. i + 1 \in 1..Len(s) /\ s[i + 1] = x BY <2>1
  <2> QED BY <2>2 DEF Contains
<1>3. Contains(s, Head(s)) BY DEF Contains
<1> QED BY <1>1, <1>2, <1>3

LEMMA InitPumpInv == PumpInit => PumpInv
<1> SUFFICES ASSUME PumpInit PROVE PumpInv
  OBVIOUS
<1>1. channel \in Seq(Bytes) /\ delivered \in Seq(Bytes) /\ Len(channel) <= Size
  BY PumpAssumption DEF PumpInit
<1>2. sent \in 0..MaxBytes /\ promised \in 0..sent /\ byte \in 0..MaxBytes /\ shutdowns \in 0..MaxShutdowns
  BY PumpAssumption DEF PumpInit
<1>3. closed \in BOOLEAN /\ aborted \in BOOLEAN /\ pump \in PumpPlaces /\ owner \in OwnerPlaces
      /\ displaced \subseteq Bytes
  BY DEF PumpInit, PumpPlaces, OwnerPlaces
<1>4. PumpTypeOK
  BY <1>1, <1>2, <1>3 DEF PumpTypeOK
<1> QED
  BY <1>4 DEF PumpInit, PumpInv, NothingLost, ChannelInOrder, HeldInOrder, DeliveredInOrder, InOrder

\* The channel of the device takes the byte behind those it holds.
LEMMA SendKeepsInv == PumpInv /\ Send => PumpInv'
<1> SUFFICES ASSUME PumpInv, Send PROVE PumpInv'
  OBVIOUS
<1> USE PumpAssumption DEF PumpInv, PumpTypeOK
<1>1. sent' = sent + 1 /\ sent + 1 \in Bytes /\ UNCHANGED <<pump, byte, owner, promised, delivered>>
  BY DEF Send, pumpVars, ownerVars, Bytes
<1>2. CASE Len(channel) = Size
  <2>1. channel # <<>> /\ channel' = Append(Tail(channel), sent + 1)
        /\ displaced' = displaced \cup {Head(channel)}
    BY <1>2 DEF Send
  <2>2. Tail(channel) \in Seq(Bytes) /\ Len(Tail(channel)) = Len(channel) - 1 /\ Head(channel) \in Bytes
    BY <2>1
  <2>3. \A i \in 1..(Len(channel) - 1) : Tail(channel)[i] = channel[i + 1]
    BY <2>1
  <2>4. Len(channel') = Len(channel) /\ channel' \in Seq(Bytes)
        /\ channel'[Len(channel)] = sent + 1
        /\ \A i \in 1..(Len(channel) - 1) : channel'[i] = channel[i + 1]
    BY <2>1, <2>2, <2>3, <1>1
  <2>5. NothingLost'
    <3>1. \A n : Contains(channel, n) => n \in displaced' \/ Contains(channel', n)
      BY <2>1, <2>2, <1>1, ContainsTail, ContainsAppend
    <3>2. Contains(channel', sent + 1)
      BY <2>1, <2>2, <1>1, ContainsAppend
    <3> QED BY <1>1, <2>1, <3>1, <3>2 DEF NothingLost, Passed, Holds
  <2>6. PumpTypeOK'
    <3>1. sent' \in 0..MaxBytes /\ promised' \in 0..sent'
      BY <1>1 DEF Bytes
    <3>2. displaced' \subseteq Bytes
      BY <2>1, <2>2
    <3> QED BY <1>1, <1>2, <2>4, <3>1, <3>2 DEF Send, pumpVars, ownerVars
  <2> DEFINE n == Len(channel)
  <2>10. /\ sent \in Nat /\ promised \in Nat /\ promised <= sent /\ n \in Nat
         /\ \A i \in 1..n : channel[i] \in Nat
    BY DEF Bytes
  <2>11. ASSUME NEW i \in 1..n
         PROVE  \/ i = n /\ channel'[i] = sent + 1
                \/ i \in 1..(n - 1) /\ i + 1 \in 1..n /\ channel'[i] = channel[i + 1]
    BY <2>4, <2>10
  <2>7. ChannelInOrder'
    <3>1. ChannelInOrder
      OBVIOUS
    <3> HIDE DEF PumpInv, PumpTypeOK
    <3>2. ASSUME NEW i \in 1..n
          PROVE  channel'[i] > promised /\ channel'[i] <= sent + 1
      BY <2>10, <2>11, <3>1 DEF ChannelInOrder
    <3>3. ASSUME NEW i \in 1..n, NEW j \in 1..n, i < j
          PROVE  channel'[i] < channel'[j]
      <4>1. i \in 1..(n - 1) /\ i + 1 \in 1..n /\ channel'[i] = channel[i + 1]
        BY <2>10, <2>11, <3>3
      <4>2. CASE j = n /\ channel'[j] = sent + 1
        BY <2>10, <3>1, <4>1, <4>2 DEF ChannelInOrder
      <4>3. CASE j + 1 \in 1..n /\ channel'[j] = channel[j + 1]
        BY <2>10, <3>1, <3>3, <4>1, <4>3 DEF ChannelInOrder
      <4> QED BY <2>11, <4>2, <4>3
    <3> QED BY <1>1, <2>4, <3>2, <3>3 DEF ChannelInOrder
  <2>8. HeldInOrder'
    <3>1. SUFFICES ASSUME pump = "callback" PROVE HeldInOrder'
      BY <1>1 DEF HeldInOrder
    <3>2. byte \in 1..sent /\ \A i \in 1..n : byte < channel[i]
      BY <3>1 DEF HeldInOrder
    <3>3. \A i \in 1..Len(delivered) : delivered[i] < byte
      BY <3>1 DEF HeldInOrder
    <3> HIDE DEF PumpInv, PumpTypeOK
    <3>4. ASSUME NEW i \in 1..n PROVE byte < channel'[i]
      BY <2>10, <2>11, <3>2
    <3>5. byte \in 1..(sent + 1)
      BY <2>10, <3>2
    <3> QED BY <1>1, <2>4, <3>3, <3>4, <3>5 DEF HeldInOrder
  <2>9. DeliveredInOrder'
    BY <1>1, <1>2, <2>1, <2>2, <2>4 DEF ChannelInOrder, HeldInOrder, DeliveredInOrder, InOrder, Bytes
  <2> QED
    BY <1>1, <2>5, <2>6, <2>7, <2>8, <2>9
<1>3. CASE Len(channel) # Size
  <2>1. channel' = Append(channel, sent + 1) /\ UNCHANGED displaced
    BY <1>3 DEF Send
  <2>2. NothingLost'
    BY <1>1, <2>1, ContainsAppend DEF NothingLost, Passed, Holds
  <2>6. PumpTypeOK'
    BY <1>1, <1>3, <2>1 DEF Send, pumpVars, ownerVars, Bytes
  <2>7. ChannelInOrder'
    BY <1>1, <1>3, <2>1 DEF ChannelInOrder, Bytes
  <2>8. HeldInOrder'
    BY <1>1, <1>3, <2>1 DEF ChannelInOrder, HeldInOrder, DeliveredInOrder, Bytes
  <2>9. DeliveredInOrder'
    BY <1>1, <1>3, <2>1 DEF ChannelInOrder, HeldInOrder, DeliveredInOrder, InOrder, Bytes
  <2> QED
    BY <1>1, <2>2, <2>6, <2>7, <2>8, <2>9
<1> QED BY <1>2, <1>3

LEMMA ReceiveKeepsInv == PumpInv /\ Receive => PumpInv'
<1> SUFFICES ASSUME PumpInv, Receive PROVE PumpInv'
  OBVIOUS
<1> USE DEF PumpInv, PumpTypeOK, PumpPlaces, OwnerPlaces
<1>1. UNCHANGED <<closed, sent, displaced, aborted, delivered, owner, shutdowns, promised>>
  BY DEF Receive, ownerVars
<1>2. CASE closed /\ pump' = "loop" /\ UNCHANGED <<channel, byte>>
  BY <1>1, <1>2 DEF Receive, NothingLost, Passed, Holds, ChannelInOrder, HeldInOrder, DeliveredInOrder, InOrder
<1>3. CASE channel # <<>> /\ byte' = Head(channel) /\ channel' = Tail(channel) /\ pump' = "callback"
  <2>1. channel' \in Seq(Bytes) /\ Len(channel') = Len(channel) - 1 /\ Head(channel) \in Bytes
        /\ Head(channel) = channel[1]
        /\ \A i \in 1..Len(channel') : channel'[i] = channel[i + 1] /\ i + 1 \in 1..Len(channel)
    BY <1>3
  <2>2. NothingLost'
    BY <1>1, <1>3, ContainsTail DEF NothingLost, Passed, Holds, Receive
  <2>6. PumpTypeOK'
    <3>1. byte' \in 0..MaxBytes /\ Len(channel') <= Size
      BY <1>3, <2>1, PumpAssumption DEF Bytes
    <3> QED BY <1>1, <1>3, <2>1, <3>1
  <2>7. ChannelInOrder'
    BY <1>1, <1>3, <2>1 DEF ChannelInOrder, Bytes
  <2>8. HeldInOrder'
    BY <1>1, <1>3, <2>1 DEF ChannelInOrder, HeldInOrder, DeliveredInOrder, Bytes
  <2>9. DeliveredInOrder'
    BY <1>1, <1>3, <2>1 DEF ChannelInOrder, HeldInOrder, DeliveredInOrder, InOrder, Bytes
  <2> QED
    BY <1>1, <1>3, <2>2, <2>6, <2>7, <2>8, <2>9 DEF Receive
<1> QED BY <1>2, <1>3 DEF Receive

LEMMA CallbackKeepsInv == PumpInv /\ Callback => PumpInv'
<1> SUFFICES ASSUME PumpInv, Callback PROVE PumpInv'
  OBVIOUS
<1> USE DEF PumpInv, PumpTypeOK, PumpPlaces, OwnerPlaces
<1>1. UNCHANGED <<channel, closed, sent, displaced, aborted, byte, owner, shutdowns, promised>>
  BY DEF Callback, deviceVars, ownerVars
<1>2. delivered' = Append(delivered, byte) /\ byte \in Bytes
  BY DEF Callback, HeldInOrder, Bytes
<1>3. NothingLost'
  BY <1>1, <1>2, ContainsAppend DEF NothingLost, Passed, Holds, Callback
<1> QED
  BY <1>1, <1>2, <1>3 DEF Callback, ChannelInOrder, HeldInOrder, DeliveredInOrder, InOrder

\* Every step keeps the inductive form.
LEMMA PumpInvStep == PumpInv /\ [PumpNext]_ioVars => PumpInv'
<1> SUFFICES ASSUME PumpInv, [PumpNext]_ioVars PROVE PumpInv'
  OBVIOUS
<1> USE DEF PumpInv, PumpTypeOK, Bytes, PumpPlaces, OwnerPlaces,
        NothingLost, Passed, Holds, ChannelInOrder, HeldInOrder, DeliveredInOrder, InOrder,
        deviceVars, pumpVars, ownerVars
<1>1. CASE Loop
  BY <1>1 DEF Loop
<1>2. CASE BeginShutdown
  BY <1>2, PumpAssumption DEF BeginShutdown
<1>3. CASE WaitUntilFlushed
  <2>1. Len(channel) = 0 BY <1>3 DEF WaitUntilFlushed, BytesAvailable
  <2> QED BY <1>3, <2>1 DEF WaitUntilFlushed
<1>4. CASE Abort
  BY <1>4 DEF Abort
<1>5. CASE ShutdownDevice
  BY <1>5 DEF ShutdownDevice
<1>6. CASE Join
  BY <1>6 DEF Join
<1>7. CASE UNCHANGED ioVars
  BY <1>7 DEF ioVars
<1> QED
  BY <1>1, <1>2, <1>3, <1>4, <1>5, <1>6, <1>7, SendKeepsInv, ReceiveKeepsInv, CallbackKeepsInv
  DEF PumpNext, PumpThread, OwnerThread

\* Every byte that was sent before wait_until_flushed returned has been passed
\* to the callback when iopump::shutdown returns, unless the full channel of the
\* device gave it up.
THEOREM FlushedBytesAreDelivered == PumpSpec => []StoppedMeansDelivered
<1>1. PumpInv => StoppedMeansDelivered
  <2> SUFFICES ASSUME PumpInv, owner = "stopped", NEW n \in 1..promised PROVE Passed(n)
    BY DEF PumpInv, StoppedMeansDelivered
  <2>1. n \in 1..sent /\ ~Holds(n)
    BY DEF PumpInv, PumpTypeOK, Holds
  <2>2. ~Contains(channel, n)
    BY DEF PumpInv, PumpTypeOK, ChannelInOrder, Contains
  <2> QED BY <2>1, <2>2 DEF PumpInv, NothingLost
<1> QED BY <1>1, InitPumpInv, PumpInvStep, PTL DEF PumpSpec

\* The callback gets the bytes in the order they were sent, each at most once.
THEOREM CallbackInOrder == PumpSpec => []InOrder
<1>1. PumpInv => InOrder
  BY DEF PumpInv, DeliveredInOrder
<1> QED BY <1>1, InitPumpInv, PumpInvStep, PTL DEF PumpSpec

-----------------------------------------------------------------------------
(* The pump in the server *)

\* Every step of the server is one of the pump or leaves it alone.
LEMMA StepOfPump == [Next]_vars => [PumpNext]_ioVars
<1> SUFFICES ASSUME [Next]_vars PROVE [PumpNext]_ioVars
  OBVIOUS
<1>1. CASE DeviceSends
  BY <1>1 DEF DeviceSends, PumpNext
<1>2. CASE PumpStep
  BY <1>2 DEF PumpStep, PumpTakes, Broadcast, SendTo, BroadcastEnds, PumpNext, PumpThread
<1>3. CASE BeginClose
  BY <1>3 DEF BeginClose, PumpNext
<1>4. CASE CloseStep
  BY <1>4 DEF CloseStep, StopPump, StopAccepting, CloseSocket, JoinAcceptor, CloseAllClients,
              WaitNoMoreClients, WaitNoMoreClientsToDelete, StopCleanup, JoinCleanup, PumpNext
<1>5. CASE AcceptorStep
  BY <1>5 DEF AcceptorStep, AcceptLoop, Accept, AcceptFails, AddClient, Start, StartNotifies
<1>6. CASE CleanupStep
  BY <1>6 DEF CleanupStep, CleanupLoop, Delete, CleanupEnds
<1>7. ASSUME NEW c \in Conns, Disconnect(c) \/ ListenerStep(c) PROVE UNCHANGED ioVars
  BY <1>7 DEF Disconnect, ListenerStep, AwaitStart, Wake, StopReading, RemoveClient, ListenerEnds,
              ListenerGoes
<1>8. CASE UNCHANGED vars
  BY <1>8 DEF vars
<1> QED
  BY <1>1, <1>2, <1>3, <1>4, <1>5, <1>6, <1>7, <1>8 DEF Next

\* Whatever the broadcast does with the clients, the pump of the server is the
\* pump of IoPump.
THEOREM PumpIsRefined == Spec => PumpWorks
<1>1. Init => PumpInit
  BY DEF Init
<1> QED
  BY <1>1, StepOfPump, PTL DEF Spec, PumpWorks, PumpSpec

-----------------------------------------------------------------------------
(* The types *)

LEMMA ServerTypesInit == Init => PumpInv /\ TypeOK
<1> SUFFICES ASSUME Init PROVE PumpInv /\ TypeOK
  OBVIOUS
<1>1. PumpInv
  BY InitPumpInv DEF Init
<1>2. /\ place \in [Conns -> Owners] /\ listener \in [Conns -> ListenerPlaces]
      /\ gone \in [Conns -> BOOLEAN] /\ open \in [Conns -> BOOLEAN] /\ stop \in [Conns -> BOOLEAN]
      /\ started \in [Conns -> BOOLEAN]
  BY DEF Init, Owners, ListenerPlaces
<1>3. PumpTypeOK
  BY <1>1 DEF PumpInv
<1> QED
  BY <1>1, <1>2, <1>3, ServerAssumption DEF Init, TypeOK, Closings, AcceptorPlaces

LEMMA ServerTypesStep == PumpInv /\ TypeOK /\ [Next]_vars => PumpInv' /\ TypeOK'
<1> SUFFICES ASSUME PumpInv, TypeOK, [Next]_vars PROVE PumpInv' /\ TypeOK'
  OBVIOUS
<1>0. PumpInv' /\ PumpTypeOK'
  BY StepOfPump, PumpInvStep DEF PumpInv
<1> USE <1>0 DEF TypeOK
<1>1. CASE UNCHANGED rest
  BY <1>1 DEF rest, acceptorVars, managerVars, cleanupVars, connVars
<1>2. CASE DeviceSends \/ PumpTakes \/ StopPump \/ UNCHANGED vars
  BY <1>1, <1>2 DEF DeviceSends, PumpTakes, StopPump, vars, rest
<1>3. CASE Broadcast \/ (\E c \in Conns : SendTo(c)) \/ BroadcastEnds
  <2>1. UNCHANGED <<closing, acceptorVars, cleanupVars, connVars, noClients, noClientsToDelete, place>>
    BY <1>3 DEF Broadcast, SendTo, BroadcastEnds
  <2>2. mutex' \in {NoOne, "pump"} /\ cleanup # "delete" /\ unsent' \subseteq Conns
        /\ (unsent' # {} => mutex' = "pump")
    BY <1>3, ServerAssumption DEF Broadcast, SendTo, BroadcastEnds, Clients
  <2>3. mutex' # "cleanup"
    BY <1>3, ServerAssumption DEF Broadcast, SendTo, BroadcastEnds
  <2> QED
    BY <2>1, <2>2, <2>3 DEF acceptorVars, cleanupVars, connVars
<1>4. CASE AcceptLoop \/ AcceptFails \/ StartNotifies
  BY <1>4 DEF AcceptLoop, AcceptFails, StartNotifies, AcceptorPlaces, managerVars, cleanupVars, connVars
<1>5. ASSUME NEW c \in Conns, Accept(c) PROVE TypeOK'
  BY <1>5, ServerAssumption DEF Accept, AcceptorPlaces, ListenerPlaces, Owners, cleanupVars
<1>6. CASE AddClient
  BY <1>6 DEF AddClient, AcceptorPlaces, Owners, cleanupVars, connVars
<1>7. CASE Start
  BY <1>7 DEF Start, AcceptorPlaces, managerVars, cleanupVars
<1>8. ASSUME NEW c \in Conns, Disconnect(c) PROVE TypeOK'
  BY <1>8 DEF Disconnect, acceptorVars, managerVars, cleanupVars
<1>9. ASSUME NEW c \in Conns, NEW next \in ListenerPlaces, ListenerGoes(c, next), UNCHANGED managerVars
      PROVE  TypeOK'
  BY <1>9 DEF ListenerGoes, managerVars, acceptorVars, cleanupVars
<1>10. ASSUME NEW c \in Conns, RemoveClient(c) PROVE TypeOK'
  BY <1>10 DEF RemoveClient, ListenerGoes, ListenerPlaces, Owners, Clients, acceptorVars, cleanupVars
<1>11. CASE CleanupLoop \/ CleanupEnds
  <2>1. UNCHANGED <<closing, acceptorVars, cleaning, connVars, unsent, noClients, place>>
    BY <1>11 DEF CleanupLoop, CleanupEnds
  <2>2. noClientsToDelete' \in BOOLEAN /\ cleanup' \in {"loop", "delete", "done"}
    BY <1>11 DEF CleanupLoop, CleanupEnds
  <2>3. mutex' \in {NoOne, "pump", "cleanup"}
    BY <1>11 DEF CleanupLoop, CleanupEnds
  <2>4. mutex' = "cleanup" <=> cleanup' = "delete"
    BY <1>11, ServerAssumption DEF CleanupLoop, CleanupEnds
  <2>5. unsent = {} \/ mutex' = mutex
    BY <1>11, ServerAssumption DEF CleanupLoop, CleanupEnds
  <2> QED
    BY <2>1, <2>2, <2>3, <2>4, <2>5 DEF acceptorVars, connVars
<1>12. ASSUME NEW c \in Conns, Delete(c) PROVE TypeOK'
  BY <1>12 DEF Delete, Owners, acceptorVars, cleanupVars
<1>13. CASE BeginClose \/ StopAccepting \/ CloseSocket \/ JoinAcceptor
  <2>1. UNCHANGED <<acceptor, handed, managerVars, cleanupVars, connVars>>
    BY <1>13 DEF BeginClose, StopAccepting, CloseSocket, JoinAcceptor, acceptorVars
  <2>2. closing' \in Closings
    BY <1>13 DEF BeginClose, StopAccepting, CloseSocket, JoinAcceptor, Closings
  <2>3. accepting' \in BOOLEAN /\ listening' \in BOOLEAN
    BY <1>13 DEF BeginClose, StopAccepting, CloseSocket, JoinAcceptor, acceptorVars
  <2> QED
    BY <2>1, <2>2, <2>3 DEF managerVars, cleanupVars, connVars
<1>14. CASE WaitNoMoreClients \/ WaitNoMoreClientsToDelete \/ StopCleanup \/ JoinCleanup
  <2>1. UNCHANGED <<acceptorVars, managerVars, cleanup, connVars>>
    BY <1>14 DEF WaitNoMoreClients, WaitNoMoreClientsToDelete, StopCleanup, JoinCleanup, cleanupVars
  <2>2. closing' \in Closings
    BY <1>14 DEF WaitNoMoreClients, WaitNoMoreClientsToDelete, StopCleanup, JoinCleanup, Closings
  <2>3. cleaning' \in BOOLEAN
    BY <1>14 DEF WaitNoMoreClients, WaitNoMoreClientsToDelete, StopCleanup, JoinCleanup, cleanupVars
  <2> QED
    BY <2>1, <2>2, <2>3 DEF acceptorVars, managerVars, connVars
<1>15. CASE CloseAllClients
  BY <1>15 DEF CloseAllClients, Closings, acceptorVars, managerVars, cleanupVars
<1>16. ASSUME NEW c \in Conns, ListenerStep(c) PROVE TypeOK'
  BY <1>9, <1>10, <1>16 DEF ListenerStep, AwaitStart, Wake, StopReading, ListenerEnds, ListenerPlaces
<1> QED
  BY <1>2, <1>3, <1>4, <1>5, <1>6, <1>7, <1>8, <1>11, <1>12, <1>13, <1>14, <1>15, <1>16
  DEF Next, PumpStep, AcceptorStep, CleanupStep, CloseStep

\* Every variable of the server keeps its type, and a mutex that is held is held
\* by the thread that is at that place.
THEOREM ServerTypeCorrect == Spec => []TypeOK
BY ServerTypesInit, ServerTypesStep, PTL DEF Spec

-----------------------------------------------------------------------------
(* The connections *)

\* The connection the acceptor handles.
HandedInv ==
  /\ acceptor = "add" => place[handed] = "acceptor"
  /\ acceptor \in {"start", "notify"} => place[handed] \in {"clients", "removed", "deleted"}
  /\ \A c \in Conns : place[c] = "acceptor" => acceptor = "add" /\ handed = c

\* Who owns a connection tells where its thread is and whether it was started.
Matches(c) ==
  /\ place[c] = "none" => listener[c] = "none" /\ ~started[c] /\ ~stop[c]
  /\ place[c] = "acceptor" => listener[c] \in {"created", "sleep"} /\ ~started[c] /\ ~stop[c]
  /\ place[c] = "clients" =>
       /\ listener[c] \in {"created", "sleep", "reading", "callback"}
       /\ started[c] \/ (acceptor = "start" /\ handed = c)
  /\ place[c] = "removed" => listener[c] \in {"ending", "done"}
  /\ place[c] = "deleted" => listener[c] = "done"
  /\ listener[c] \in {"reading", "callback", "ending", "done"} => started[c]
  /\ stop[c] => started[c]

ConnInv == HandedInv /\ \A c \in Conns : Matches(c)

\* Once close has joined the acceptor, no connection is handed over any more.
JoinedInv ==
  closing \in {"clients", "noclients", "todelete", "stopcleanup", "cleanup", "closed"} => acceptor = "done"

LEMMA ConnInit == Init => ConnInv /\ JoinedInv
<1> SUFFICES ASSUME Init PROVE ConnInv /\ JoinedInv
  OBVIOUS
<1>1. HandedInv /\ JoinedInv
  BY DEF Init, HandedInv, JoinedInv
<1>2. ASSUME NEW c \in Conns PROVE Matches(c)
  BY DEF Init, Matches
<1> QED BY <1>1, <1>2 DEF ConnInv

LEMMA ConnStep == TypeOK /\ ConnInv /\ JoinedInv /\ [Next]_vars => ConnInv' /\ JoinedInv'
<1> SUFFICES ASSUME TypeOK, ConnInv, JoinedInv, [Next]_vars PROVE ConnInv' /\ JoinedInv'
  OBVIOUS
<1> DEFINE Goal == ConnInv' /\ JoinedInv'
<1>0. /\ place \in [Conns -> Owners] /\ listener \in [Conns -> ListenerPlaces]
      /\ started \in [Conns -> BOOLEAN] /\ stop \in [Conns -> BOOLEAN]
      /\ (handed \in Conns \/ acceptor \in {"loop", "accept", "done"})
      /\ (handed = NoOne <=> acceptor \in {"loop", "accept", "done"})
      /\ NoOne \notin Conns /\ acceptor \in AcceptorPlaces
  BY ServerAssumption DEF TypeOK
<1>1. ASSUME UNCHANGED <<acceptor, handed, place, listener, started, stop>>,
             closing' # closing => closing' \in {"pump", "socket", "acceptor"} \/ acceptor = "done"
      PROVE  Goal
  BY <1>1 DEF ConnInv, HandedInv, Matches, JoinedInv, TypeOK, Closings
<1>2. CASE DeviceSends \/ PumpStep \/ CleanupLoop \/ CleanupEnds \/ UNCHANGED vars
  BY <1>1, <1>2 DEF DeviceSends, PumpStep, PumpTakes, Broadcast, SendTo, BroadcastEnds, rest,
                    CleanupLoop, CleanupEnds, vars, acceptorVars, managerVars, connVars
<1>3. CASE BeginClose \/ StopPump \/ StopAccepting \/ CloseSocket \/ JoinAcceptor
  BY <1>1, <1>3 DEF BeginClose, StopPump, StopAccepting, CloseSocket, JoinAcceptor, rest,
                    acceptorVars, managerVars, connVars
<1>4. CASE WaitNoMoreClients \/ WaitNoMoreClientsToDelete \/ StopCleanup \/ JoinCleanup
  BY <1>1, <1>4 DEF WaitNoMoreClients, WaitNoMoreClientsToDelete, StopCleanup, JoinCleanup,
                    acceptorVars, managerVars, connVars, JoinedInv
<1>5. CASE AcceptLoop \/ AcceptFails
  <2>1. /\ UNCHANGED <<handed, place, listener, started, stop, closing>>
        /\ acceptor \in {"loop", "accept"} /\ acceptor' \in {"loop", "accept", "done"}
    BY <1>5 DEF AcceptLoop, AcceptFails, managerVars, connVars
  <2> QED
    BY <2>1 DEF ConnInv, HandedInv, Matches, JoinedInv
<1>6. ASSUME NEW c \in Conns, Accept(c) PROVE Goal
  <2>1. /\ place[c] = "none" /\ acceptor = "accept"
        /\ listener' = [listener EXCEPT ![c] = "created"] /\ place' = [place EXCEPT ![c] = "acceptor"]
        /\ acceptor' = "add" /\ handed' = c /\ UNCHANGED <<started, stop, closing>>
    BY <1>6 DEF Accept
  <2>2. HandedInv' /\ JoinedInv'
    BY <1>0, <2>1 DEF ConnInv, HandedInv, JoinedInv
  <2>3. ASSUME NEW d \in Conns PROVE Matches(d)'
    BY <1>0, <2>1 DEF ConnInv, Matches
  <2> QED BY <2>2, <2>3 DEF ConnInv
<1>7. CASE AddClient
  <2>1. /\ acceptor = "add" /\ acceptor' = "start" /\ handed \in Conns
        /\ place' = [place EXCEPT ![handed] = "clients"]
        /\ UNCHANGED <<handed, listener, started, stop, closing>>
    BY <1>0, <1>7 DEF AddClient, connVars
  <2>2. HandedInv' /\ JoinedInv'
    BY <1>0, <2>1 DEF ConnInv, HandedInv, JoinedInv
  <2>3. ASSUME NEW d \in Conns PROVE Matches(d)'
    BY <1>0, <2>1 DEF ConnInv, Matches, HandedInv
  <2> QED BY <2>2, <2>3 DEF ConnInv
<1>8. CASE Start
  <2>1. /\ acceptor = "start" /\ acceptor' = "notify" /\ handed \in Conns
        /\ started' = [started EXCEPT ![handed] = TRUE]
        /\ UNCHANGED <<handed, place, listener, stop, closing>>
    BY <1>0, <1>8 DEF Start, managerVars
  <2>2. HandedInv' /\ JoinedInv'
    BY <1>0, <2>1 DEF ConnInv, HandedInv, JoinedInv
  <2>3. ASSUME NEW d \in Conns PROVE Matches(d)'
    BY <1>0, <2>1 DEF ConnInv, Matches, HandedInv
  <2> QED BY <2>2, <2>3 DEF ConnInv
<1>9. CASE StartNotifies
  <2>1. /\ acceptor = "notify" /\ acceptor' = "loop" /\ handed' = NoOne
        /\ UNCHANGED <<place, listener, started, stop, closing>>
    BY <1>9 DEF StartNotifies, managerVars, connVars
  <2>2. HandedInv' /\ JoinedInv'
    BY <1>0, <2>1 DEF ConnInv, HandedInv, JoinedInv
  <2>3. ASSUME NEW d \in Conns PROVE Matches(d)'
    BY <1>0, <2>1 DEF ConnInv, Matches
  <2> QED BY <2>2, <2>3 DEF ConnInv
<1>10. ASSUME NEW c \in Conns, NEW next, listener' = [listener EXCEPT ![c] = next],
              UNCHANGED <<acceptor, handed, place, started, stop, closing>>,
              \/ listener[c] = "created" /\ next = "sleep"
              \/ listener[c] \in {"created", "sleep"} /\ started[c] /\ next = "reading"
              \/ listener[c] = "reading" /\ next = "callback"
              \/ listener[c] = "ending" /\ next = "done"
       PROVE  Goal
  <2>1. HandedInv' /\ JoinedInv'
    BY <1>10 DEF ConnInv, HandedInv, JoinedInv
  <2>2. ASSUME NEW d \in Conns PROVE Matches(d)'
    BY <1>0, <1>10 DEF ConnInv, Matches, Owners
  <2> QED BY <2>1, <2>2 DEF ConnInv
<1>11. ASSUME NEW c \in Conns, AwaitStart(c) \/ Wake(c) \/ StopReading(c) \/ ListenerEnds(c) PROVE Goal
  BY <1>10, <1>11 DEF AwaitStart, Wake, StopReading, ListenerEnds, ListenerGoes, acceptorVars, managerVars
<1>12. ASSUME NEW c \in Conns, RemoveClient(c) PROVE Goal
  <2>1. /\ listener[c] = "callback" /\ listener' = [listener EXCEPT ![c] = "ending"]
        /\ UNCHANGED <<acceptor, handed, started, stop, closing>>
    BY <1>12 DEF RemoveClient, ListenerGoes, acceptorVars
  <2>2. place[c] = "clients"
    BY <1>0, <2>1 DEF ConnInv, Matches, Owners
  <2>3. place' = [place EXCEPT ![c] = "removed"]
    BY <1>12, <2>2 DEF RemoveClient, Clients
  <2>4. HandedInv' /\ JoinedInv'
    BY <1>0, <2>1, <2>2, <2>3 DEF ConnInv, HandedInv, JoinedInv
  <2>5. ASSUME NEW d \in Conns PROVE Matches(d)'
    BY <1>0, <2>1, <2>2, <2>3 DEF ConnInv, Matches
  <2> QED BY <2>4, <2>5 DEF ConnInv
<1>13. ASSUME NEW c \in Conns, Delete(c) PROVE Goal
  <2>1. /\ place[c] = "removed" /\ listener[c] = "done"
        /\ place' = [place EXCEPT ![c] = "deleted"] /\ stop' = [stop EXCEPT ![c] = TRUE]
        /\ UNCHANGED <<acceptor, handed, started, listener, closing>>
    BY <1>13 DEF Delete, acceptorVars
  <2>2. HandedInv' /\ JoinedInv'
    BY <1>0, <2>1 DEF ConnInv, HandedInv, JoinedInv
  <2>3. ASSUME NEW d \in Conns PROVE Matches(d)'
    BY <1>0, <2>1 DEF ConnInv, Matches
  <2> QED BY <2>2, <2>3 DEF ConnInv
<1>14. CASE CloseAllClients
  <2>1. /\ closing = "clients" /\ closing' = "noclients"
        /\ stop' = [c \in Conns |-> stop[c] \/ c \in Clients]
        /\ UNCHANGED <<acceptor, handed, place, started, listener>>
    BY <1>14 DEF CloseAllClients, acceptorVars, managerVars
  <2>2. HandedInv' /\ JoinedInv' /\ acceptor = "done"
    BY <2>1 DEF ConnInv, HandedInv, JoinedInv
  <2>3. ASSUME NEW d \in Conns PROVE Matches(d)'
    <3>1. stop'[d] <=> stop[d] \/ place[d] = "clients"
      BY <1>0, <2>1 DEF Clients
    <3> QED
      BY <1>0, <2>1, <2>2, <3>1 DEF ConnInv, Matches
  <2> QED BY <2>2, <2>3 DEF ConnInv
<1>15. ASSUME NEW c \in Conns, Disconnect(c) PROVE Goal
  BY <1>1, <1>15 DEF Disconnect, acceptorVars, managerVars
<1> QED
  BY <1>2, <1>3, <1>4, <1>5, <1>6, <1>7, <1>8, <1>9, <1>11, <1>12, <1>13, <1>14, <1>15
  DEF Next, AcceptorStep, CleanupStep, CloseStep, ListenerStep

\* close never interrupts a thread that still waits to be started: whatever is
\* asked to stop was started before (client_manager::close_all_clients, after the
\* acceptor was joined).
THEOREM ClosesWhatWasStarted == Spec => []ClosedAfterStart
<1>1. ConnInv => ClosedAfterStart
  BY DEF ConnInv, Matches, ClosedAfterStart
<1> QED
  BY <1>1, ServerTypesInit, ServerTypesStep, ConnInit, ConnStep, PTL DEF Spec

-----------------------------------------------------------------------------
(* The list of the clients and what close waits for *)

\* The conditions mean what they say even while the mutex is held.
ListInv ==
  /\ unsent \subseteq Clients
  /\ noClients => Clients = {}
  /\ noClientsToDelete => \A c \in Conns : place[c] # "removed"

\* What close has reached stays so while it goes on.
ClosingInv ==
  /\ closing \in {"socket", "acceptor", "clients", "noclients", "todelete", "stopcleanup", "cleanup", "closed"}
       => owner = "stopped"
  /\ closing \in {"todelete", "stopcleanup", "cleanup", "closed"} => Clients = {}
  /\ closing \in {"stopcleanup", "cleanup", "closed"} => \A c \in Conns : place[c] # "removed"
  /\ closing = "closed" => cleanup = "done"

LEMMA ListInit == Init => ListInv /\ ClosingInv
<1> SUFFICES ASSUME Init PROVE ListInv /\ ClosingInv
  OBVIOUS
<1>1. Clients = {}
  BY DEF Init, Clients
<1> QED BY <1>1 DEF Init, ListInv, ClosingInv

LEMMA ListStep ==
  TypeOK /\ ConnInv /\ JoinedInv /\ ListInv /\ ClosingInv /\ [Next]_vars => ListInv' /\ ClosingInv'
<1> SUFFICES ASSUME TypeOK, ConnInv, JoinedInv, ListInv, ClosingInv, [Next]_vars
             PROVE  ListInv' /\ ClosingInv'
  OBVIOUS
<1> DEFINE Goal == ListInv' /\ ClosingInv'
<1>0. /\ place \in [Conns -> Owners] /\ (handed = NoOne <=> acceptor \in {"loop", "accept", "done"})
      /\ handed \in Conns \cup {NoOne} /\ NoOne \notin Conns /\ mutex \in {NoOne, "pump", "cleanup"}
      /\ (mutex # "pump" => unsent = {}) /\ "pump" # NoOne
      /\ (mutex = "cleanup" <=> cleanup = "delete")
      /\ noClients \in BOOLEAN /\ noClientsToDelete \in BOOLEAN
  BY ServerAssumption DEF TypeOK
\* Nothing is handed over or removed.
<1>1. ASSUME UNCHANGED <<noClients, noClientsToDelete, place, owner, closing>>,
             unsent' \subseteq Clients, cleanup' = cleanup \/ closing # "closed"
      PROVE  Goal
  BY <1>1 DEF ListInv, ClosingInv, Clients
<1>2. CASE DeviceSends \/ PumpTakes \/ BroadcastEnds \/ UNCHANGED vars
  BY <1>1, <1>2 DEF DeviceSends, PumpTakes, Loop, Receive, Send, BroadcastEnds, Callback, rest, vars,
                    ioVars, ownerVars, managerVars, cleanupVars, ListInv
<1>3. CASE Broadcast \/ \E c \in Conns : SendTo(c)
  BY <1>1, <1>3 DEF Broadcast, SendTo, ioVars, ownerVars, cleanupVars, ListInv
<1>4. CASE AcceptLoop \/ AcceptFails \/ Start \/ StartNotifies
  BY <1>1, <1>4 DEF AcceptLoop, AcceptFails, Start, StartNotifies, ioVars, ownerVars, managerVars,
                    cleanupVars, ListInv
<1>5. ASSUME NEW c \in Conns, Accept(c) PROVE Goal
  <2>1. /\ place[c] = "none" /\ place' = [place EXCEPT ![c] = "acceptor"]
        /\ UNCHANGED <<unsent, noClients, noClientsToDelete, owner, closing, cleanup>>
    BY <1>5 DEF Accept, ioVars, ownerVars, cleanupVars
  <2>2. Clients' = Clients
    BY <1>0, <2>1 DEF Clients
  <2> QED
    BY <1>0, <2>1, <2>2 DEF ListInv, ClosingInv
<1>6. CASE AddClient
  <2>1. /\ acceptor = "add" /\ mutex = NoOne /\ handed \in Conns
        /\ place' = [place EXCEPT ![handed] = "clients"] /\ noClients' = FALSE
        /\ UNCHANGED <<unsent, noClientsToDelete, owner, closing, cleanup>>
    BY <1>0, <1>6 DEF AddClient, ioVars, ownerVars, cleanupVars
  <2>2. unsent = {} /\ closing \notin {"todelete", "stopcleanup", "cleanup", "closed"}
    BY <1>0, <2>1 DEF JoinedInv
  <2>3. ListInv'
    BY <1>0, <2>1, <2>2 DEF ListInv
  <2>4. ClosingInv'
    BY <2>1, <2>2 DEF ClosingInv
  <2> QED BY <2>3, <2>4
<1>7. ASSUME NEW c \in Conns, Disconnect(c) PROVE Goal
  BY <1>1, <1>7 DEF Disconnect, ioVars, ownerVars, managerVars, cleanupVars, ListInv
<1>8. ASSUME NEW c \in Conns, AwaitStart(c) \/ Wake(c) \/ StopReading(c) \/ ListenerEnds(c) PROVE Goal
  BY <1>1, <1>8 DEF AwaitStart, Wake, StopReading, ListenerEnds, ListenerGoes,
                    ioVars, ownerVars, managerVars, cleanupVars, ListInv
<1>9. ASSUME NEW c \in Conns, RemoveClient(c) PROVE Goal
  <2>1. /\ listener[c] = "callback" /\ mutex = NoOne /\ UNCHANGED <<unsent, owner, closing, cleanup>>
        /\ noClients' = (noClients \/ Clients \subseteq {c})
    BY <1>9 DEF RemoveClient, ListenerGoes, ioVars, ownerVars, cleanupVars
  <2>2. place[c] = "clients"
    BY <1>0, <2>1 DEF ConnInv, Matches, Owners
  <2>3. place' = [place EXCEPT ![c] = "removed"] /\ noClientsToDelete' = FALSE
    BY <1>9, <2>2 DEF RemoveClient, Clients
  <2>4. Clients' = Clients \ {c}
    BY <1>0, <2>3 DEF Clients
  <2>5. unsent = {} /\ closing \notin {"todelete", "stopcleanup", "cleanup", "closed"}
    BY <1>0, <2>1, <2>2 DEF ClosingInv, Clients
  <2>6. ListInv'
    BY <2>1, <2>3, <2>4, <2>5 DEF ListInv
  <2>7. ClosingInv'
    BY <2>1, <2>5 DEF ClosingInv
  <2> QED BY <2>6, <2>7
<1>10. CASE CleanupLoop
  BY <1>1, <1>10 DEF CleanupLoop, ioVars, ownerVars, ListInv, ClosingInv
<1>11. ASSUME NEW c \in Conns, Delete(c) PROVE Goal
  <2>1. /\ place[c] = "removed" /\ place' = [place EXCEPT ![c] = "deleted"]
        /\ UNCHANGED <<unsent, noClients, noClientsToDelete, owner, closing, cleanup>>
    BY <1>11 DEF Delete, ioVars, ownerVars, cleanupVars
  <2>2. Clients' = Clients
    BY <1>0, <2>1 DEF Clients
  <2> QED
    BY <1>0, <2>1, <2>2 DEF ListInv, ClosingInv
<1>12. CASE CleanupEnds
  <2>1. /\ \A c \in Conns : place[c] # "removed"
        /\ cleanup = "delete" /\ UNCHANGED <<unsent, noClients, place, owner, closing>>
    BY <1>12 DEF CleanupEnds, ioVars, ownerVars
  <2>2. Clients' = Clients
    BY <2>1 DEF Clients
  <2> QED
    BY <2>1, <2>2 DEF ListInv, ClosingInv
\* close goes on.
<1>13. ASSUME UNCHANGED <<noClients, noClientsToDelete, place, unsent, cleanup>>, ClosingInv' PROVE Goal
  BY <1>13 DEF ListInv, Clients
<1>14. CASE BeginClose \/ StopPump
  <2>1. closing' = "pump" /\ UNCHANGED <<noClients, noClientsToDelete, place, unsent, cleanup>>
    BY <1>14 DEF BeginClose, StopPump, rest, managerVars, cleanupVars
  <2> QED BY <1>13, <2>1 DEF ClosingInv
<1>15. CASE StopAccepting \/ CloseSocket \/ JoinAcceptor \/ CloseAllClients
  <2>1. /\ UNCHANGED <<noClients, noClientsToDelete, place, unsent, cleanup, owner>> /\ owner = "stopped"
        /\ closing' \in {"socket", "acceptor", "clients", "noclients"}
    BY <1>15 DEF StopAccepting, CloseSocket, JoinAcceptor, CloseAllClients, ClosingInv,
                 ioVars, ownerVars, managerVars, cleanupVars
  <2> QED BY <1>13, <2>1 DEF ClosingInv
<1>16. CASE WaitNoMoreClients \/ WaitNoMoreClientsToDelete \/ StopCleanup \/ JoinCleanup
  <2>1. /\ UNCHANGED <<noClients, noClientsToDelete, place, unsent, cleanup, owner>>
        /\ closing \in {"noclients", "todelete", "stopcleanup", "cleanup"} /\ Clients' = Clients
        /\ closing' \in {"todelete", "stopcleanup", "cleanup", "closed"}
    BY <1>16 DEF WaitNoMoreClients, WaitNoMoreClientsToDelete, StopCleanup, JoinCleanup, Clients,
                 ioVars, ownerVars, managerVars, cleanupVars
  <2>2. Clients = {}
    BY <1>16, <2>1 DEF WaitNoMoreClients, WaitNoMoreClientsToDelete, StopCleanup, JoinCleanup,
                       ClosingInv, ListInv
  <2>3. closing' # "todelete" => \A c \in Conns : place[c] # "removed"
    BY <1>16 DEF WaitNoMoreClients, WaitNoMoreClientsToDelete, StopCleanup, JoinCleanup,
                 ClosingInv, ListInv
  <2>4. closing' = "closed" => cleanup = "done"
    BY <1>16 DEF WaitNoMoreClients, WaitNoMoreClientsToDelete, StopCleanup, JoinCleanup
  <2>5. ClosingInv'
    BY <2>1, <2>2, <2>3, <2>4 DEF ClosingInv
  <2> QED BY <1>13, <2>1, <2>5
<1> QED
  BY <1>2, <1>3, <1>4, <1>5, <1>6, <1>7, <1>8, <1>9, <1>10, <1>11, <1>12, <1>14, <1>15, <1>16
  DEF Next, PumpStep, AcceptorStep, CleanupStep, CloseStep, ListenerStep

\* The inductive invariant of the server.
ServerInv == PumpInv /\ TypeOK /\ ConnInv /\ JoinedInv /\ ListInv /\ ClosingInv

LEMMA ServerInvHolds == Spec => []ServerInv
<1>1. Init => ServerInv
  BY ServerTypesInit, ConnInit, ListInit DEF ServerInv
<1>2. ServerInv /\ [Next]_vars => ServerInv'
  BY ServerTypesStep, ConnStep, ListStep DEF ServerInv
<1> QED
  BY <1>1, <1>2, PTL DEF Spec

\* No connection leaves the list while a broadcast runs over it.
THEOREM BroadcastIsSafe == Spec => []BroadcastMeetsClients
<1>1. ServerInv => BroadcastMeetsClients
  BY DEF ServerInv, ListInv, BroadcastMeetsClients
<1> QED
  BY <1>1, ServerInvHolds, PTL

\* The two conditions that close waits for mean what they say.
THEOREM ConditionsCorrect == Spec => []ConditionsAreTrue
<1>1. ServerInv => ConditionsAreTrue
  BY DEF ServerInv, ListInv, ConditionsAreTrue
<1> QED
  BY <1>1, ServerInvHolds, PTL

\* When close returns, every thread has ended and every connection was deleted.
THEOREM CloseLeavesNothing == Spec => []ClosedMeansGone
<1>1. ServerInv => ClosedMeansGone
  <2> SUFFICES ASSUME ServerInv, closing = "closed"
               PROVE  /\ pump = "done" /\ acceptor = "done" /\ cleanup = "done"
                      /\ \A c \in Conns : place[c] \in {"none", "deleted"} /\ listener[c] \in {"none", "done"}
    BY DEF ClosedMeansGone
  <2>1. pump = "done" /\ acceptor = "done" /\ cleanup = "done"
    BY DEF ServerInv, ClosingInv, JoinedInv, PumpInv
  <2>2. ASSUME NEW c \in Conns
        PROVE  place[c] \in {"none", "deleted"} /\ listener[c] \in {"none", "done"}
    <3>1. place[c] \in Owners
      BY DEF ServerInv, TypeOK
    <3>2. place[c] # "clients" /\ place[c] # "removed"
      BY DEF ServerInv, ClosingInv, Clients
    <3>3. place[c] # "acceptor"
      BY <2>1 DEF ServerInv, ConnInv, HandedInv
    <3>4. place[c] \in {"none", "deleted"}
      BY <3>1, <3>2, <3>3 DEF Owners
    <3> QED
      BY <3>4 DEF ServerInv, ConnInv, Matches
  <2> QED BY <2>1, <2>2
<1> QED
  BY <1>1, ServerInvHolds, PTL
=============================================================================
