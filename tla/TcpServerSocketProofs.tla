------------------------ MODULE TcpServerSocketProofs ------------------------
(***************************************************************************)
(* Proofs about module TcpServerSocket, for any size of the backlog and    *)
(* any number of events of other sources, and about the addresses that     *)
(* bind and connect are given, module Address, for every machine.          *)
(***************************************************************************)
EXTENDS TcpServerSocket, Address, EventQueueProofs

\* An announced client is there to be accepted, and so is one that epoll_wait
\* has reported and the callback has not yet announced.
ClientIsThere ==
    /\ clients \in Nat
    /\ client_available \in BOOLEAN
    /\ task = "running"
    /\ Open /\ client_available => clients > 0
    /\ Open /\ loop = "callback" /\ "EPOLLERR" \notin report => clients > 0

\* accept never puts the event loop to sleep.
THEOREM AcceptReturns ==
    Spec => []AcceptNeverBlocks
  <1>1. Init => ClientIsThere
    <2>. SUFFICES ASSUME Init PROVE ClientIsThere
      OBVIOUS
    <2>1. client_available \in BOOLEAN /\ ~client_available
      BY Zenon DEF Init
    <2>2. loop = "user" /\ clients \in Nat /\ task = "running"
      BY TcpServerSocketAssumption DEF Init, EventQueueInit
    <2>. QED
      BY <2>1, <2>2 DEF ClientIsThere
  <1>2. ClientIsThere /\ [Next]_vars => ClientIsThere'
    <2>. SUFFICES ASSUME ClientIsThere, [Next]_vars
                  PROVE  ClientIsThere'
      OBVIOUS
    <2>. USE DEF ClientIsThere, Open
    <2>1. ASSUME ClientConnects \/ SocketBreaks
          PROVE  ClientIsThere'
      BY <2>1 DEF ClientConnects, SocketBreaks, eqvars
    <2>2. ASSUME AcceptRefused \/ UNCHANGED vars
          PROVE  ClientIsThere'
      BY <2>2 DEF AcceptRefused, vars, eqvars
    <2>3. ASSUME Accept
          PROVE  ClientIsThere'
      <3>1. /\ loop' = "user" /\ task' = "running"
            /\ client_available' = FALSE
            /\ clients' = clients - 1 /\ clients > 0
        BY <2>3 DEF Accept, AvailableAfterAccept, InUserCode, eqvars
      <3>2. client_available' \in BOOLEAN /\ ~client_available'
        BY <3>1, Zenon
      <3>. QED
        BY <3>1, <3>2
    <2>4. ASSUME AcceptFails \/ Close \/ Drop
          PROVE  ClientIsThere'
      BY <2>4 DEF AcceptFails, Close, Drop, CloseSocket
    <2>5. ASSUME NextEvent
          PROVE  ClientIsThere'
      BY <2>5 DEF NextEvent, NextEventReady, NextEventPoll, ours
    <2>6. ASSUME NEW count \in 1 .. MaxOther, OtherSource(count)
          PROVE  ClientIsThere'
      BY <2>6 DEF OtherSource, FinishPoll, ours
    <2>7. ASSUME EpollWait
          PROVE  ClientIsThere'
      BY <2>7 DEF EpollWait, Reported, ours
    <2>8. ASSUME ProcessEpollEvents
          PROVE  ClientIsThere'
      BY <2>8 DEF ProcessEpollEvents, CloseSocket, FinishPoll
    <2>. QED
      BY <2>1, <2>2, <2>3, <2>4, <2>5, <2>6, <2>7, <2>8 DEF Next
  <1>3. ClientIsThere => AcceptNeverBlocks
    BY DEF ClientIsThere, AcceptNeverBlocks
  <1>. QED
    BY <1>1, <1>2, <1>3, PTL DEF Spec

-----------------------------------------------------------------------------
(* Types                                                                    *)

\* The listening socket and its event queue keep their types; in particular
\* accept takes no connection that is not there.
THEOREM TypeCorrect == Spec => []TypeOK
  <1>. USE TcpServerSocketAssumption DEF TypeOK
  <1>0. \A kind \in EventKind : ServerEvent(kind) \in EventsOf(Sources)
    BY DEF ServerEvent, NewEvent, EventsOf
  <1>1. Init => TypeOK
    <2>. SUFFICES ASSUME Init
                  PROVE  TypeOK
      OBVIOUS
    <2>1. EventQueueTypeOK
      BY DEF Init, EventQueueInit, EventQueueTypeOK
    <2>2. clients \in 0 .. Backlog
      BY DEF Init
    <2>. QED
      BY <2>1, <2>2, Zenon DEF Init
  <1>2. TypeOK /\ [Next]_vars => TypeOK'
    <2>. SUFFICES ASSUME TypeOK, [Next]_vars
                  PROVE  TypeOK'
      OBVIOUS
    <2>0. ASSUME UNCHANGED eqvars
          PROVE  EventQueueTypeOK'
      BY <2>0 DEF eqvars, EventQueueTypeOK
    <2>s. ASSUME RemovePendingEvents(ServerInfo), UNCHANGED <<loop, returned>>
          PROVE  EventQueueTypeOK'
      BY <2>s, RemovePendingIsSequence
         DEF RemovePendingEvents, EventQueueTypeOK
    <2>1. ASSUME ClientConnects \/ SocketBreaks
          PROVE  TypeOK'
      <3>1. EventQueueTypeOK' /\ clients' \in 0 .. Backlog
        BY <2>0, <2>1 DEF ClientConnects, SocketBreaks
      <3>. QED
        BY <2>1, <3>1, Zenon DEF ClientConnects, SocketBreaks
    <2>2. ASSUME AcceptRefused \/ UNCHANGED vars
          PROVE  TypeOK'
      BY <2>0, <2>2 DEF AcceptRefused, vars
    <2>3. ASSUME Accept
          PROVE  TypeOK'
      <3>0. EventQueueTypeOK'
        BY <2>0, <2>3 DEF Accept
      <3>1. clients' \in 0 .. Backlog
        <4>1. (clients' = clients - 1 /\ clients > 0) \/ clients' = clients
          BY <2>3, Zenon DEF Accept
        <4>. QED
          BY <4>1
      <3>2. client_available' \in BOOLEAN /\ task' \in {"running", "blocked"}
        BY <2>3, Zenon DEF Accept, AvailableAfterAccept
      <3>. QED
        BY <2>3, <3>0, <3>1, <3>2, Zenon DEF Accept
    <2>4. ASSUME AcceptFails \/ Close \/ Drop
          PROVE  TypeOK'
      <3>1. EventQueueTypeOK'
        BY <2>s, <2>4 DEF AcceptFails, Close, Drop
      <3>. QED
        BY <2>4, <3>1, Zenon DEF AcceptFails, Close, Drop, CloseSocket
    <2>5. ASSUME NextEvent
          PROVE  TypeOK'
      BY <2>5, NextEventType DEF NextEvent, ours
    <2>6. ASSUME NEW count \in 1 .. MaxOther, OtherSource(count)
          PROVE  TypeOK'
      <3>1. NewEvent("DataAvailable", Other) \in EventsOf(Sources)
        BY DEF NewEvent, EventsOf, EventKind
      <3>2. EventQueueTypeOK'
        BY <2>6, <3>1, RepeatIsSequence, FinishPollType DEF OtherSource
      <3>. QED
        BY <2>6, <3>2 DEF OtherSource, ours
    <2>7. ASSUME EpollWait
          PROVE  TypeOK'
      <3>1. EventQueueTypeOK'
        BY <2>7 DEF EpollWait, EventQueueTypeOK
      <3>2. report' \in SUBSET {"EPOLLIN", "EPOLLERR"}
        BY <2>7 DEF EpollWait, Reported
      <3>. QED
        BY <2>7, <3>1, <3>2 DEF EpollWait, ours
    <2>8. ASSUME ProcessEpollEvents
          PROVE  TypeOK'
      <3>1. /\ <<ServerEvent("IoError")>> \in Seq(EventsOf(Sources))
            /\ <<ServerEvent("ClientConnected")>> \in Seq(EventsOf(Sources))
        BY <1>0 DEF EventKind
      <3>2. EventQueueTypeOK'
        BY <2>8, <3>1, FinishPollType DEF ProcessEpollEvents
      <3>3. report' \in SUBSET {"EPOLLIN", "EPOLLERR"}
        BY <2>8 DEF ProcessEpollEvents
      <3>. QED
        BY <2>8, <3>2, <3>3, Zenon DEF ProcessEpollEvents, CloseSocket
    <2>. QED
      BY <2>1, <2>2, <2>3, <2>4, <2>5, <2>6, <2>7, <2>8 DEF Next
  <1>. QED
    BY <1>1, <1>2, PTL DEF Spec

-----------------------------------------------------------------------------
(* Nothing is pending in a callback; silence after close                    *)

\* One step keeps the list empty while the owner polls.
LEMMA NothingPendingStep ==
    ASSUME NothingPendingInCallback, [Next]_vars
    PROVE  NothingPendingInCallback'
  <1>1. ASSUME ProcessEpollEvents
        PROVE  NothingPendingInCallback'
    <2>1. ready_events = <<>>
      BY <1>1 DEF ProcessEpollEvents, NothingPendingInCallback
    <2>2. /\ ServerEvent("IoError").is_valid
          /\ ServerEvent("ClientConnected").is_valid
      BY DEF ServerEvent, NewEvent
    <2>. QED
      BY <1>1, <2>1, <2>2, PushAtMostOne
         DEF ProcessEpollEvents, NothingPendingInCallback
  <1>2. ASSUME NEW count \in 1 .. MaxOther, OtherSource(count)
        PROVE  NothingPendingInCallback'
    <2>1. ready_events = <<>> /\ count \in Nat
      BY <1>2, TcpServerSocketAssumption
         DEF OtherSource, NothingPendingInCallback
    <2>2. NewEvent("DataAvailable", Other).is_valid
      BY DEF NewEvent
    <2>. QED
      BY <1>2, <2>1, <2>2, FinishPollLeavesNothing DEF OtherSource
  <1>3. ASSUME NextEvent \/ EpollWait
        PROVE  NothingPendingInCallback'
    BY <1>3 DEF NextEvent, NextEventReady, NextEventPoll, EpollWait,
       NothingPendingInCallback
  <1>4. ASSUME AcceptFails \/ Close \/ Drop
        PROVE  NothingPendingInCallback'
    BY <1>4 DEF AcceptFails, Close, Drop, InUserCode, NothingPendingInCallback
  <1>5. ASSUME UNCHANGED eqvars
        PROVE  NothingPendingInCallback'
    BY <1>5 DEF eqvars, NothingPendingInCallback
  <1>. QED
    BY <1>1, <1>2, <1>3, <1>4, <1>5
       DEF Next, ClientConnects, SocketBreaks, AcceptRefused, Accept, vars

\* The listening socket's callback runs with an empty list, which is why it
\* need not silence the events of a socket it closes (tcp.rs:716-718).
THEOREM CallbacksFindNothing == Spec => []NothingPendingInCallback
  <1>1. Init => NothingPendingInCallback
    BY DEF Init, EventQueueInit, NothingPendingInCallback
  <1>2. NothingPendingInCallback /\ [Next]_vars => NothingPendingInCallback'
    BY NothingPendingStep
  <1>. QED
    BY <1>1, <1>2, PTL DEF Spec

\* The inductive invariant: a closed socket has left epoll, is not being
\* called back, and has no valid event in the list.
ClosedForGood ==
    connection_state = "Closed" => /\ ~registered
                                   /\ loop # "callback"
                                   /\ Silent(ready_events, ServerInfo)

\* Once the socket is closed no valid event of it is handed out, whoever
\* closed it.
THEOREM ClosedIsSilent == Spec => SilentAfterClose
  <1>1. Init => ClosedForGood
    BY DEF Init, EventQueueInit, ClosedForGood, Silent
  <1>0. ASSUME TypeOK, NothingPendingInCallback,
               NEW count \in 1 .. MaxOther, OtherSource(count)
        PROVE  /\ ready_events = <<>> /\ count \in Nat
               /\ NewEvent("DataAvailable", Other) \in EventsOf(Sources)
               /\ ~OriginatesFrom(NewEvent("DataAvailable", Other), ServerInfo)
    BY <1>0, TcpServerSocketAssumption
       DEF OtherSource, NothingPendingInCallback, NewEvent, EventsOf,
           EventKind, OriginatesFrom
  <1>2. TypeOK /\ NothingPendingInCallback /\ ClosedForGood /\ [Next]_vars
            => ClosedForGood'
    <2>. SUFFICES ASSUME TypeOK, NothingPendingInCallback, ClosedForGood,
                         [Next]_vars
                  PROVE  ClosedForGood'
      OBVIOUS
    <2>0. ready_events \in Seq(EventsOf(Sources))
      BY DEF TypeOK, EventQueueTypeOK
    <2>. USE DEF ClosedForGood
    <2>1. ASSUME AcceptFails \/ Close \/ Drop
          PROVE  ClosedForGood'
      <3>1. Silent(ready_events, ServerInfo)'
        BY <2>0, <2>1, RemovePendingSilences
           DEF AcceptFails, Close, Drop, RemovePendingEvents
      <3>. QED
        BY <2>1, <3>1 DEF AcceptFails, Close, Drop, CloseSocket, InUserCode
    <2>2. ASSUME NextEvent
          PROVE  ClosedForGood'
      <3>1. CASE NextEventReady
        BY <2>0, <2>2, <3>1, TailStaysSilent DEF NextEvent, NextEventReady, ours
      <3>2. CASE NextEventPoll
        BY <2>2, <3>2 DEF NextEvent, NextEventPoll, ours
      <3>. QED
        BY <2>2, <3>1, <3>2 DEF NextEvent
    <2>3. ASSUME NEW count \in 1 .. MaxOther, OtherSource(count)
          PROVE  ClosedForGood'
      <3>1. Silent(ready_events', ServerInfo)
        BY <1>0, <2>3, FinishPollStaysSilent DEF OtherSource
      <3>. QED
        BY <2>3, <3>1 DEF OtherSource, FinishPoll, ours
    <2>4. ASSUME EpollWait
          PROVE  ClosedForGood'
      BY <2>4 DEF EpollWait, Reported, ours
    <2>5. ASSUME ProcessEpollEvents
          PROVE  ClosedForGood'
      <3>1. ready_events = <<>>
        BY <2>5 DEF ProcessEpollEvents, NothingPendingInCallback
      <3>2. ready_events' = <<>> /\ loop' # "callback"
        BY <2>5, <3>1 DEF ProcessEpollEvents, FinishPoll
      <3>3. Silent(ready_events, ServerInfo)'
        BY <3>2 DEF Silent
      <3>. QED
        BY <2>5, <3>2, <3>3 DEF ProcessEpollEvents, CloseSocket
    <2>6. ASSUME UNCHANGED <<connection_state, registered, eqvars>>
          PROVE  ClosedForGood'
      BY <2>6 DEF eqvars
    <2>. QED
      BY <2>1, <2>2, <2>3, <2>4, <2>5, <2>6
         DEF Next, ClientConnects, SocketBreaks, AcceptRefused, Accept, vars
  <1>3. TypeOK /\ NothingPendingInCallback /\ ClosedForGood /\ [Next]_vars =>
            [(connection_state = "Closed" /\ HandsOut) =>
                 ~(OriginatesFrom(returned', ServerInfo)
                       /\ returned'.is_valid)]_vars
    <2>. SUFFICES ASSUME TypeOK, NothingPendingInCallback, ClosedForGood,
                         Next, connection_state = "Closed", HandsOut
                  PROVE  ~(OriginatesFrom(returned', ServerInfo)
                               /\ returned'.is_valid)
      OBVIOUS
    <2>0. ready_events \in Seq(EventsOf(Sources))
      BY DEF TypeOK, EventQueueTypeOK
    <2>1. CASE NextEvent
      <3>1. CASE NextEventReady
        <4>1. returned' = ready_events[1] /\ 1 \in 1 .. Len(ready_events)
          BY <2>0, <3>1 DEF NextEventReady
        <4>. QED
          BY <4>1 DEF ClosedForGood, Silent
      <3>2. CASE NextEventPoll
        BY <3>2 DEF NextEventPoll, HandsOut
      <3>. QED
        BY <2>1, <3>1, <3>2 DEF NextEvent
    <2>2. ASSUME NEW count \in 1 .. MaxOther, OtherSource(count)
          PROVE  ~OriginatesFrom(returned', ServerInfo)
      <3>. DEFINE event == NewEvent("DataAvailable", Other)
                  pushed == Repeat(event, count)
      <3>1. ready_events = <<>> /\ count \in Nat
            /\ event \in EventsOf(Sources)
            /\ ~OriginatesFrom(event, ServerInfo)
        BY <1>0, <2>2
      <3>2. pushed \in Seq(EventsOf(Sources)) /\ Len(pushed) = count
        BY <3>1, RepeatIsSequence
      <3>3. pushed # <<>> /\ Head(pushed) = event
        BY <2>2, <3>2 DEF Repeat
      <3>4. <<>> \o pushed = pushed
        BY <3>2
      <3>5. FinishPoll(pushed) /\ loop = "polling"
        BY <2>2 DEF OtherSource
      <3>. HIDE DEF pushed, event
      <3>6. returned' = event
        BY <3>1, <3>3, <3>4, <3>5 DEF FinishPoll, HandsOut
      <3>. QED
        BY <3>1, <3>6
    <2>3. CASE EpollWait \/ ProcessEpollEvents
      BY <2>3 DEF EpollWait, ProcessEpollEvents, ClosedForGood, HandsOut
    <2>4. CASE AcceptFails \/ Close \/ Drop
      <3>1. Len(ready_events') = Len(ready_events) /\ loop' = loop
            /\ loop = "user"
        BY <2>0, <2>4, RemovePendingIsSequence
           DEF AcceptFails, Close, Drop, RemovePendingEvents, InUserCode
      <3>. QED
        BY <2>0, <3>1 DEF HandsOut
    <2>5. CASE UNCHANGED eqvars
      BY <2>0, <2>5 DEF eqvars, HandsOut
    <2>6. NextEvent \/ (\E count \in 1 .. MaxOther : OtherSource(count))
              \/ EpollWait \/ ProcessEpollEvents
              \/ AcceptFails \/ Close \/ Drop \/ UNCHANGED eqvars
      BY DEF Next, ClientConnects, SocketBreaks, AcceptRefused, Accept, vars
    <2>. QED
      BY <2>1, <2>2, <2>3, <2>4, <2>5, <2>6
  <1>. QED
    BY <1>1, <1>2, <1>3, TypeCorrect, CallbacksFindNothing, PTL
       DEF Spec, SilentAfterClose

-----------------------------------------------------------------------------
(* Waiting clients are reported                                             *)

\* As long as the listening socket is open it is on epoll, and a client that
\* waits or an error is reported, however often accept has been called.
THEOREM ClientsReachEpoll == Spec => []ClientsAreReported
  <1>. DEFINE Inv == Open => registered
  <1>1. Init => Inv
    BY DEF Init, Open
  <1>2. Inv /\ [Next]_vars => Inv'
    BY DEF Open, Next, ClientConnects, SocketBreaks, AcceptRefused, Accept,
       AcceptFails, Close, Drop, NextEvent, OtherSource, EpollWait,
       ProcessEpollEvents, CloseSocket, ours, vars
  <1>3. Inv => ClientsAreReported
    BY DEF ClientsAreReported, Reported
  <1>. QED
    BY <1>1, <1>2, <1>3, PTL DEF Spec

-----------------------------------------------------------------------------
\* The address of bind and connect.

\* The bytes of a word of two or of four, written out.
LEMMA Reversed ==
    /\ \A a, b : Reverse(<<a, b>>) = <<b, a>>
    /\ \A a, b, c, d : Reverse(<<a, b, c, d>>) = <<d, c, b, a>>
BY DEF Reverse

\* A port, or a group of an IPv6 address, is in network order in memory.
LEMMA WordInNetworkOrder ==
    ASSUME NEW u \in U16
    PROVE  InMemory(Htons(u)) = u
<1>1. PICK a \in Byte, b \in Byte : u = <<a, b>>
  BY DEF U16
<1>2. CASE LittleEndian
  <2>1. Htons(u) = <<b, a>>
    BY <1>1, <1>2, Reversed DEF Htons
  <2>2. QED
    BY <1>1, <1>2, <2>1, Reversed DEF InMemory
<1>3. CASE ~LittleEndian
  BY <1>3 DEF Htons, InMemory
<1>4. QED
  BY <1>2, <1>3

\* On a little-endian machine so is an IPv4 address.
LEMMA Ipv4InNetworkOrder ==
    ASSUME NEW ip \in Byte \X Byte \X Byte \X Byte, LittleEndian
    PROVE  InMemory(SAddr(ip)) = ip
<1>1. PICK a \in Byte, b \in Byte, c \in Byte, d \in Byte :
          ip = <<a, b, c, d>>
  OBVIOUS
<1>2. SAddr(ip) = <<d, c, b, a>>
  BY <1>1 DEF SAddr
<1>3. QED
  BY <1>1, <1>2, Reversed DEF InMemory

LEMMA Ipv6InNetworkOrder ==
    ASSUME NEW ip \in [1 .. 8 -> U16]
    PROVE  [i \in 1 .. 8 |-> InMemory(S6Addr(ip)[i])] = ip
<1>1. \A i \in 1 .. 8 : InMemory(S6Addr(ip)[i]) = ip[i]
  BY WordInNetworkOrder DEF S6Addr
<1>2. QED
  BY <1>1

\* For any set of bytes and on either kind of machine: the sockaddr is of the
\* family create_socket has asked for, and the kernel reads from it the
\* address and the port the caller asked for, an IPv4 address on a big-endian
\* machine excepted.
THEOREM AddressesArrive ==
    ASSUME NEW a \in Ipv4 \cup Ipv6
    PROVE  PeerIsAsAsked(a)
<1> SUFFICES ASSUME LittleEndian \/ a.version = "Ipv6Addr"
             PROVE  /\ Accepts(CreateSocket(a), AddrToSockaddr(a))
                    /\ Reads(AddrToSockaddr(a)) = a
  BY DEF PeerIsAsAsked
<1>1. CASE a \in Ipv4
  <2>1. /\ a.version = "Ipv4Addr"
        /\ a.ip \in Byte \X Byte \X Byte \X Byte
        /\ a.port \in U16
        /\ a = [version |-> a.version, ip |-> a.ip, port |-> a.port]
    BY <1>1 DEF Ipv4
  <2>2. InMemory(Htons(a.port)) = a.port /\ InMemory(SAddr(a.ip)) = a.ip
    BY <2>1, WordInNetworkOrder, Ipv4InNetworkOrder
  <2>3. QED
    BY <2>1, <2>2 DEF Accepts, CreateSocket, AddrToSockaddr, Reads
<1>2. CASE a \in Ipv6
  <2>1. /\ a.version = "Ipv6Addr"
        /\ a.ip \in [1 .. 8 -> U16]
        /\ a.port \in U16
        /\ a = [version |-> a.version, ip |-> a.ip, port |-> a.port]
    BY <1>2 DEF Ipv6
  <2>2. /\ InMemory(Htons(a.port)) = a.port
        /\ [i \in 1 .. 8 |-> InMemory(S6Addr(a.ip)[i])] = a.ip
    BY <2>1, WordInNetworkOrder, Ipv6InNetworkOrder
  <2>3. QED
    BY <2>1, <2>2 DEF Accepts, CreateSocket, AddrToSockaddr, Reads
<1>3. QED
  BY <1>1, <1>2
=============================================================================
