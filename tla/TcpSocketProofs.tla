--------------------------- MODULE TcpSocketProofs ---------------------------
(***************************************************************************)
(* Proofs about module TcpSocket, for any size of the receive buffer and   *)
(* of the type uint, and any number of events of other sources.            *)
(***************************************************************************)
EXTENDS TcpSocketProperties, EventQueueProofs

\* The inductive invariant: until a recv returns more than was announced, what
\* the socket has announced and not yet read is in the kernel's buffer.  A
\* socket that is connecting has announced nothing, and a task that sleeps in
\* recv does so on behalf of a connected socket.
AnnouncedIsBacked ==
    /\ rcvbuf \in 0 .. MaxBytes
    /\ available_bytes \in Nat
    /\ overread \in BOOLEAN
    /\ task = "blocked" =>
           overread /\ loop = "user" /\ connection_state = "Connected"
    /\ connection_state = "Connecting" => available_bytes = 0
    /\ connection_state = "Connected" /\ ~overread =>
           available_bytes <= rcvbuf

\* A recv for announced data lowers counter and buffer by the same number of
\* bytes, or is known to have returned more (TcpSocket::read,
\* RawTcpSocket::read).
LEMMA RecvStep ==
    ASSUME AnnouncedIsBacked, connection_state = "Connected", loop = "user",
           NEW len \in BufferSizes, Recv(len)
    PROVE  AnnouncedIsBacked'
  <1>. USE TcpSocketAssumption
  <1>1. CASE rcvbuf > 0
    <2>. DEFINE bytes == IF len < rcvbuf THEN len ELSE rcvbuf
    <2>1. bytes \in Nat /\ bytes <= rcvbuf
      BY <1>1 DEF BufferSizes, AnnouncedIsBacked
    <2>2. /\ rcvbuf' = rcvbuf - bytes
          /\ available_bytes' = AvailableAfterRead(bytes)
          /\ task' = "running" /\ UNCHANGED connection_state
      BY <1>1 DEF Recv
    <2>3. overread' \in BOOLEAN /\ (overread' <=> overread \/ bytes > available_bytes)
      BY <1>1, Zenon DEF Recv
    <2>. HIDE DEF bytes
    <2>4. rcvbuf' \in 0 .. MaxBytes
      BY <2>1, <2>2 DEF AnnouncedIsBacked
    <2>5. CASE bytes <= available_bytes
      <3>1. available_bytes' = available_bytes - bytes
        BY <2>2, <2>5 DEF AvailableAfterRead
      <3>. QED
        BY <2>1, <2>2, <2>3, <2>4, <2>5, <3>1 DEF AnnouncedIsBacked
    <2>6. CASE bytes > available_bytes
      <3>1. ~(bytes <= available_bytes)
        BY <2>1, <2>6 DEF AnnouncedIsBacked
      <3>2. available_bytes' = available_bytes + UintSize - bytes
        BY <2>2, <3>1 DEF AvailableAfterRead
      <3>3. bytes < UintSize
        BY <2>1 DEF AnnouncedIsBacked
      <3>4. available_bytes' \in Nat
        BY <2>1, <3>2, <3>3 DEF AnnouncedIsBacked
      <3>5. overread'
        BY <2>3, <2>6
      <3>. QED
        BY <1>1, <2>2, <2>3, <2>4, <3>4, <3>5 DEF AnnouncedIsBacked
    <2>. QED
      BY <2>1, <2>5, <2>6 DEF AnnouncedIsBacked
  <1>2. CASE ~(rcvbuf > 0)
    BY <1>2 DEF Recv, CloseSocket, AnnouncedIsBacked
  <1>. QED
    BY <1>1, <1>2

\* As long as no recv has returned more than was announced, read never puts
\* the event loop to sleep, however the connection behaves between the
\* callback and the call; and the counter stays covered by the buffer.
THEOREM ReadsReturn == Spec => [](ExactReadsReturn /\ AnnouncedBytesAreThere)
  <1>. USE TcpSocketAssumption
  <1>1. Init => AnnouncedIsBacked
    <2>. SUFFICES ASSUME Init PROVE AnnouncedIsBacked
      OBVIOUS
    <2>1. overread \in BOOLEAN
      BY Zenon DEF Init
    <2>2. rcvbuf = 0 /\ available_bytes = 0 /\ task = "running"
      BY DEF Init
    <2>. QED
      BY <2>1, <2>2 DEF AnnouncedIsBacked
  <1>2. AnnouncedIsBacked /\ [Next]_vars => AnnouncedIsBacked'
    <2>. SUFFICES ASSUME AnnouncedIsBacked, [Next]_vars
                  PROVE  AnnouncedIsBacked'
      OBVIOUS
    <2>1. ASSUME ConnectSucceeds \/ ConnectionBreaks \/ PeerCloses
          PROVE  AnnouncedIsBacked'
      BY <2>1 DEF AnnouncedIsBacked, ConnectSucceeds, ConnectionBreaks,
         PeerCloses, ours, history, eqvars
    <2>2. ASSUME NEW bytes \in 1 .. MaxBytes, DataArrives(bytes)
          PROVE  AnnouncedIsBacked'
      BY <2>2 DEF AnnouncedIsBacked, DataArrives, ours, history, eqvars
    <2>3. ASSUME NEW len \in BufferSizes, Read(len)
          PROVE  AnnouncedIsBacked'
      BY <2>3, RecvStep DEF Read, InUserCode
    <2>4. ASSUME NEW len \in BufferSizes, ReadResumes(len)
          PROVE  AnnouncedIsBacked'
      BY <2>4, RecvStep DEF AnnouncedIsBacked, ReadResumes
    <2>5. ASSUME ReadBlocks
          PROVE  AnnouncedIsBacked'
      <3>1. overread
        BY <2>5 DEF AnnouncedIsBacked, ReadBlocks, Readable
      <3>. QED
        BY <2>5, <3>1 DEF AnnouncedIsBacked, ReadBlocks, InUserCode, kernel,
           history, eqvars
    <2>6. ASSUME ReadAnswered \/ Write \/ UNCHANGED vars
          PROVE  AnnouncedIsBacked'
      BY <2>6 DEF AnnouncedIsBacked, ReadAnswered, Write, vars, kernel,
         history, eqvars
    <2>7. ASSUME WriteFails \/ Close \/ Drop
          PROVE  AnnouncedIsBacked'
      BY <2>7 DEF AnnouncedIsBacked, WriteFails, Close, Drop, CloseSocket,
         InUserCode, kernel, history
    <2>8. ASSUME NextEvent \/ EpollWait
                 \/ \E count \in 1 .. MaxOther : OtherSource(count)
          PROVE  AnnouncedIsBacked'
      BY <2>8 DEF AnnouncedIsBacked, NextEvent, EpollWait, OtherSource,
         kernel, history
    <2>9. ASSUME ProcessEpollEvents
          PROVE  AnnouncedIsBacked'
      <3>. USE DEF AnnouncedIsBacked
      <3>0. task # "blocked" /\ UNCHANGED <<task, rcvbuf>>
        BY <2>9 DEF ProcessEpollEvents
      <3>1. CASE ProcessError
        BY <3>0, <3>1 DEF ProcessError, CloseSocket
      <3>2. CASE ProcessInput
        <4>1. BytesAnnounced \in Nat /\ BytesAnnounced <= rcvbuf
          BY DEF BytesAnnounced, ReadAvailableBytes
        <4>. QED
          BY <3>0, <3>2, <4>1 DEF ProcessInput, CloseSocket
      <3>3. CASE ProcessConnect
        BY <3>0, <3>3 DEF ProcessConnect, CloseSocket
      <3>. QED
        BY <2>9, <3>1, <3>2, <3>3 DEF ProcessEpollEvents
    <2>. QED
      BY <2>1, <2>2, <2>3, <2>4, <2>5, <2>6, <2>7, <2>8, <2>9
         DEF Next, Network, User, EventLoop
  <1>3. AnnouncedIsBacked => ExactReadsReturn /\ AnnouncedBytesAreThere
    BY DEF AnnouncedIsBacked, ExactReadsReturn, AnnouncedBytesAreThere
  <1>. QED
    BY <1>1, <1>2, <1>3, PTL DEF Spec

-----------------------------------------------------------------------------
(* Types                                                                    *)

\* Pushing an event of the socket keeps the types of the queue.
LEMMA AnnounceType ==
    ASSUME TcpSocketAssumption, EventQueueTypeOK, announced \in Seq(EventKind)
    PROVE  /\ \A kind \in EventKind :
                  Announce(kind) => EventQueueTypeOK'
                                        /\ announced' \in Seq(EventKind)
           /\ AnnounceNothing => EventQueueTypeOK'
                                     /\ announced' \in Seq(EventKind)
  <1>1. ASSUME NEW kind \in EventKind, Announce(kind)
        PROVE  EventQueueTypeOK' /\ announced' \in Seq(EventKind)
    <2>1. SocketEvent(kind) \in EventsOf(Sources)
      BY TcpSocketAssumption DEF SocketEvent, NewEvent, EventsOf
    <2>2. <<SocketEvent(kind)>> \in Seq(EventsOf(Sources))
      BY <2>1
    <2>3. announced' \in Seq(EventKind)
      BY <1>1 DEF Announce
    <2>. QED
      BY <1>1, <2>2, <2>3, FinishPollType DEF Announce
  <1>2. ASSUME AnnounceNothing
        PROVE  EventQueueTypeOK' /\ announced' \in Seq(EventKind)
    <2>1. <<>> \in Seq(EventsOf(Sources))
      OBVIOUS
    <2>. QED
      BY <1>2, <2>1, FinishPollType DEF AnnounceNothing
  <1>. QED
    BY <1>1, <1>2

\* A recv keeps counter and buffer within their types, whatever the length of
\* the client's buffer: the counter wraps.
LEMMA RecvType ==
    ASSUME TypeOK, NEW len \in BufferSizes, Recv(len)
    PROVE  TypeOK'
  <1>. USE TcpSocketAssumption DEF TypeOK
  <1>1. CASE rcvbuf > 0
    <2>. DEFINE bytes == IF len < rcvbuf THEN len ELSE rcvbuf
    <2>1. bytes \in Nat /\ bytes <= rcvbuf /\ bytes < UintSize
      BY <1>1 DEF BufferSizes
    <2>2. /\ rcvbuf' = rcvbuf - bytes
          /\ available_bytes' = AvailableAfterRead(bytes)
      BY <1>1 DEF Recv
    <2>3. overread' \in BOOLEAN
      BY <1>1, Zenon DEF Recv
    <2>. HIDE DEF bytes
    <2>4. /\ rcvbuf' \in 0 .. MaxBytes
          /\ available_bytes' \in 0 .. UintSize - 1
      BY <2>1, <2>2 DEF AvailableAfterRead
    <2>5. EventQueueTypeOK'
      BY <1>1 DEF Recv, EventQueueTypeOK
    <2>. QED
      BY <1>1, <2>3, <2>4, <2>5, Zenon DEF Recv
  <1>2. CASE ~(rcvbuf > 0)
    <2>1. EventQueueTypeOK'
      BY <1>2, RemovePendingIsSequence
         DEF Recv, Silence, RemovePendingEvents, EventQueueTypeOK
    <2>. QED
      BY <1>2, <2>1, Zenon DEF Recv, CloseSocket
  <1>. QED
    BY <1>1, <1>2

\* The socket, its counter, the kernel's end and the event queue keep their
\* types.
THEOREM TypeCorrect == Spec => []TypeOK
  <1>. USE TcpSocketAssumption DEF TypeOK, kernel, history
  <1>1. Init => TypeOK
    <2>. SUFFICES ASSUME Init
                  PROVE  TypeOK
      OBVIOUS
    <2>0. <<>> \in Seq(EventsOf(Sources)) /\ <<>> \in Seq(EventKind)
      OBVIOUS
    <2>1. /\ connection_state \in {"Connecting", "Connected", "Closed"}
          /\ interest \in {"none", "EPOLLIN", "EPOLLOUT"}
          /\ link \in {"handshake", "up", "fin", "reset"}
      BY DEF Init, InitConnecting, InitConnectedAtOnce, InitAccepted, InitDead
    <2>2. /\ announced \in Seq(EventKind)
          /\ ready_events \in Seq(EventsOf(Sources))
      <3>1. CASE InitConnectedAtOnce
        <4>1. /\ NewEvent("DataAvailable", Other) \in EventsOf(Sources)
              /\ SocketEvent("Connected") \in EventsOf(Sources)
          BY DEF SocketEvent, NewEvent, EventsOf, EventKind
        <4>2. PICK waiting \in 0 .. MaxOther :
                  ready_events = Repeat(NewEvent("DataAvailable", Other), waiting)
                                     \o <<SocketEvent("Connected")>>
          BY <3>1 DEF InitConnectedAtOnce
        <4>3. Repeat(NewEvent("DataAvailable", Other), waiting)
                  \in Seq(EventsOf(Sources))
          BY <4>1, RepeatIsSequence
        <4>4. ready_events \in Seq(EventsOf(Sources))
          BY <4>1, <4>2, <4>3
        <4>5. announced = <<"Connected">> /\ "Connected" \in EventKind
          BY <3>1 DEF InitConnectedAtOnce, EventKind
        <4>. QED
          BY <4>4, <4>5
      <3>2. CASE announced = <<>> /\ ready_events = <<>>
        BY <2>0, <3>2
      <3>. QED
        BY <3>1, <3>2 DEF Init, InitConnecting, InitAccepted, InitDead
    <2>3. EventQueueTypeOK
      BY <2>2 DEF Init, EventQueueTypeOK
    <2>4. available_bytes = 0 /\ rcvbuf = 0 /\ report = {}
      BY DEF Init
    <2>5. exists \in BOOLEAN /\ so_error \in BOOLEAN /\ overread \in BOOLEAN
          /\ task \in {"running", "blocked"}
      BY Zenon DEF Init
    <2>. QED
      BY <2>1, <2>2, <2>3, <2>4, <2>5
  <1>2. TypeOK /\ [Next]_vars => TypeOK'
    <2>. SUFFICES ASSUME TypeOK, [Next]_vars
                  PROVE  TypeOK'
      OBVIOUS
    <2>0. ASSUME UNCHANGED eqvars
          PROVE  EventQueueTypeOK'
      BY <2>0 DEF eqvars, EventQueueTypeOK
    <2>s. ASSUME Silence(SockInfo), UNCHANGED <<loop, returned>>
          PROVE  EventQueueTypeOK'
      BY <2>s, RemovePendingIsSequence
         DEF Silence, RemovePendingEvents, EventQueueTypeOK
    <2>1. ASSUME ConnectSucceeds \/ ConnectionBreaks \/ PeerCloses
          PROVE  TypeOK'
      <3>1. EventQueueTypeOK'
        BY <2>0, <2>1 DEF ConnectSucceeds, ConnectionBreaks, PeerCloses, ours
      <3>. QED
        BY <2>1, <3>1, Zenon
           DEF ConnectSucceeds, ConnectionBreaks, PeerCloses, ours
    <2>2. ASSUME NEW bytes \in 1 .. MaxBytes, DataArrives(bytes)
          PROVE  TypeOK'
      <3>1. EventQueueTypeOK' /\ rcvbuf' \in 0 .. MaxBytes
        BY <2>0, <2>2 DEF DataArrives, ours
      <3>. QED
        BY <2>2, <3>1, Zenon DEF DataArrives, ours
    <2>3. ASSUME NEW len \in BufferSizes, Read(len) \/ ReadResumes(len)
          PROVE  TypeOK'
      BY <2>3, RecvType DEF Read, ReadResumes
    <2>4. ASSUME ReadBlocks
          PROVE  TypeOK'
      BY <2>0, <2>4 DEF ReadBlocks
    <2>5. ASSUME ReadAnswered \/ Write \/ UNCHANGED vars
          PROVE  TypeOK'
      BY <2>0, <2>5 DEF ReadAnswered, Write, vars
    <2>6. ASSUME WriteFails \/ Close \/ Drop
          PROVE  TypeOK'
      <3>1. EventQueueTypeOK'
        BY <2>s, <2>6 DEF WriteFails, Close, Drop
      <3>. QED
        BY <2>6, <3>1, Zenon DEF WriteFails, Close, Drop, CloseSocket
    <2>7. ASSUME NextEvent
          PROVE  TypeOK'
      BY <2>7, NextEventType DEF NextEvent
    <2>8. ASSUME NEW count \in 1 .. MaxOther, OtherSource(count)
          PROVE  TypeOK'
      <3>1. NewEvent("DataAvailable", Other) \in EventsOf(Sources)
        BY DEF NewEvent, EventsOf, EventKind
      <3>2. EventQueueTypeOK'
        BY <2>8, <3>1, RepeatIsSequence, FinishPollType DEF OtherSource
      <3>. QED
        BY <2>8, <3>2 DEF OtherSource
    <2>9. ASSUME EpollWait
          PROVE  TypeOK'
      <3>1. EventQueueTypeOK'
        BY <2>9 DEF EpollWait, EventQueueTypeOK
      <3>2. report' \in SUBSET Conditions
        BY <2>9 DEF EpollWait, Reported, Raised
      <3>. QED
        BY <2>9, <3>1, <3>2 DEF EpollWait
    <2>10. ASSUME ProcessEpollEvents
           PROVE  TypeOK'
      <3>0. /\ "IoError" \in EventKind /\ "DataAvailable" \in EventKind
            /\ "StreamClosed" \in EventKind /\ "Connected" \in EventKind
        BY DEF EventKind
      <3>1. EventQueueTypeOK' /\ announced' \in Seq(EventKind)
        BY <2>10, <3>0, AnnounceType, Zenon
           DEF ProcessEpollEvents, ProcessError, ProcessInput, ProcessConnect
      <3>2. available_bytes' \in 0 .. UintSize - 1
        <4>1. BytesAnnounced \in 0 .. UintSize - 1
          BY DEF BytesAnnounced, ReadAvailableBytes
        <4>. QED
          BY <2>10, <4>1
             DEF ProcessEpollEvents, ProcessError, ProcessInput, ProcessConnect
      <3>3. /\ connection_state' \in {"Connecting", "Connected", "Closed"}
            /\ interest' \in {"none", "EPOLLIN", "EPOLLOUT"}
        BY <2>10 DEF ProcessEpollEvents, ProcessError, ProcessInput,
           ProcessConnect, CloseSocket, InterestOfConnected
      <3>4. so_error' \in BOOLEAN /\ overread' \in BOOLEAN
        BY <2>10, Zenon DEF ProcessEpollEvents, ProcessError, ProcessInput,
           ProcessConnect
      <3>5. report' = {} /\ UNCHANGED <<exists, task, link, rcvbuf>>
        BY <2>10 DEF ProcessEpollEvents
      <3>. QED
        BY <3>1, <3>2, <3>3, <3>4, <3>5
    <2>. QED
      BY <2>1, <2>2, <2>3, <2>4, <2>5, <2>6, <2>7, <2>8, <2>9, <2>10
         DEF Next, Network, User, EventLoop
  <1>. QED
    BY <1>1, <1>2, PTL DEF Spec

-----------------------------------------------------------------------------
(* Nothing is pending in a callback                                         *)

\* The socket's callback runs with an empty list, and leaves it empty: an event
\* it pushes is handed out at once (tcp.rs:421-423).
THEOREM CallbacksFindNothing == Spec => []NothingPendingInCallback
  <1>1. Init => NothingPendingInCallback
    BY DEF Init, NothingPendingInCallback
  <1>2. NothingPendingInCallback /\ [Next]_vars => NothingPendingInCallback'
    <2>. SUFFICES ASSUME NothingPendingInCallback, [Next]_vars
                  PROVE  NothingPendingInCallback'
      OBVIOUS
    <2>1. ASSUME ProcessEpollEvents
          PROVE  NothingPendingInCallback'
      <3>1. ready_events = <<>>
        BY <2>1 DEF ProcessEpollEvents, NothingPendingInCallback
      <3>2. \A kind : SocketEvent(kind).is_valid
        BY DEF SocketEvent, NewEvent
      <3>3. ready_events' = <<>>
        BY <2>1, <3>1, <3>2, PushAtMostOne
           DEF ProcessEpollEvents, ProcessError, ProcessInput, ProcessConnect,
               Announce, AnnounceNothing
      <3>. QED
        BY <3>3 DEF NothingPendingInCallback
    <2>2. ASSUME NEW count \in 1 .. MaxOther, OtherSource(count)
          PROVE  NothingPendingInCallback'
      <3>1. ready_events = <<>> /\ count \in Nat
        BY <2>2, TcpSocketAssumption DEF OtherSource, NothingPendingInCallback
      <3>2. NewEvent("DataAvailable", Other).is_valid
        BY DEF NewEvent
      <3>. QED
        BY <2>2, <3>1, <3>2, FinishPollLeavesNothing DEF OtherSource
    <2>3. ASSUME NextEvent \/ EpollWait
          PROVE  NothingPendingInCallback'
      BY <2>3 DEF NextEvent, NextEventReady, NextEventPoll, EpollWait,
         NothingPendingInCallback
    <2>4. ASSUME WriteFails \/ Close \/ Drop
          PROVE  NothingPendingInCallback'
      BY <2>4 DEF WriteFails, Close, Drop, InUserCode, NothingPendingInCallback
    <2>5. ASSUME NEW len \in BufferSizes, Read(len) \/ ReadResumes(len)
          PROVE  NothingPendingInCallback'
      BY <2>5 DEF Read, ReadResumes, Recv, Silence, RemovePendingEvents,
         RemovePending, NothingPendingInCallback
    <2>6. ASSUME UNCHANGED eqvars
          PROVE  NothingPendingInCallback'
      BY <2>6 DEF eqvars, NothingPendingInCallback
    <2>7. UNCHANGED eqvars
              \/ ProcessEpollEvents \/ NextEvent \/ EpollWait
              \/ WriteFails \/ Close \/ Drop
              \/ (\E count \in 1 .. MaxOther : OtherSource(count))
              \/ (\E len \in BufferSizes : Read(len) \/ ReadResumes(len))
      BY DEF Next, Network, User, EventLoop, ConnectSucceeds,
         ConnectionBreaks, DataArrives, PeerCloses, ReadBlocks, ReadAnswered,
         Write, ours, vars
    <2>. QED
      BY <2>1, <2>2, <2>3, <2>4, <2>5, <2>6, <2>7
  <1>. QED
    BY <1>1, <1>2, PTL DEF Spec

-----------------------------------------------------------------------------
(* The order of a socket's events, and its end                              *)

\* The inductive invariant.  A closed socket is off epoll, is not being called
\* back and is silent; an open one has announced no end.  A broken connection
\* keeps its error until the socket is closed, so a hang-up is never reported
\* without it and cannot pass for the end of the stream; and epoll calls a
\* connecting socket only with the outcome of the connect.
EndIsFinal ==
    /\ connection_state = "Closed" => /\ interest = "none"
                                      /\ loop # "callback"
                                      /\ Silent(ready_events, SockInfo)
    /\ connection_state = "Connecting" => /\ interest = "EPOLLOUT"
                                          /\ announced = <<>>
    /\ task = "blocked" => connection_state = "Connected" /\ loop = "user"
    /\ Open /\ link = "reset" => so_error
    /\ loop = "callback" /\ "EPOLLERR" \notin report =>
           /\ "EPOLLHUP" \notin report
           /\ connection_state = "Connecting" => "EPOLLOUT" \in report
    /\ EventsInOrder
    /\ StreamClosedMeansDrained

\* An open socket that announces one more event keeps the order.
LEMMA AnnounceOrder ==
    ASSUME announced \in Seq(EventKind), EventsInOrder, Open,
           NEW kind \in EventKind, kind = "Connected" => announced = <<>>,
           Announce(kind)
    PROVE  /\ \A i \in 1 .. Len(announced') :
                  /\ announced'[i] = "Connected" => i = 1
                  /\ announced'[i] \in Terminal => i = Len(announced')
           /\ announced' # <<>> /\ announced'[Len(announced')] = kind
  <1>1. \A i \in 1 .. Len(announced) :
            /\ announced[i] = "Connected" => i = 1
            /\ announced[i] \notin Terminal
    BY DEF EventsInOrder, Open
  <1>2. CASE announced' = announced
    <2>1. announced # <<>> /\ announced[Len(announced)] = kind
      <3>1. announced # Append(announced, kind)
        <4>1. Len(Append(announced, kind)) # Len(announced)
          OBVIOUS
        <4>. QED
          BY <4>1
      <3>. QED
        BY <1>2, <3>1 DEF Announce
    <2>. QED
      BY <1>1, <1>2, <2>1
  <1>3. CASE announced' = Append(announced, kind)
    <2>1. /\ Len(announced') = Len(announced) + 1
          /\ announced'[Len(announced')] = kind
          /\ \A i \in 1 .. Len(announced) : announced'[i] = announced[i]
      BY <1>3
    <2>2. kind = "Connected" => Len(announced') = 1
      BY <2>1
    <2>. QED
      BY <1>1, <1>3, <2>1, <2>2
  <1>. QED
    BY <1>2, <1>3 DEF Announce

\* A recv closes the socket with its events invalid, or leaves it as it is.
LEMMA RecvEnd ==
    ASSUME TypeOK, EndIsFinal, connection_state = "Connected", loop = "user",
           NEW len \in BufferSizes, Recv(len)
    PROVE  EndIsFinal'
  <1>1. announced' = announced /\ task' = "running" /\ loop' = "user"
        /\ UNCHANGED link
    BY DEF Recv
  <1>2. EventsInOrder' /\ StreamClosedMeansDrained'
    <2>1. announced = <<>> \/ announced[Len(announced)] \notin Terminal
      BY DEF EndIsFinal, EventsInOrder
    <2>. QED
      BY <1>1, <2>1 DEF EndIsFinal, EventsInOrder, StreamClosedMeansDrained,
         Terminal
  <1>3. CASE rcvbuf > 0
    <2>1. UNCHANGED <<connection_state, so_error>>
      BY <1>3 DEF Recv
    <2>. QED
      BY <1>1, <1>2, <2>1 DEF EndIsFinal, Open
  <1>4. CASE ~(rcvbuf > 0)
    <2>1. connection_state' = "Closed" /\ interest' = "none"
          /\ RemovePendingEvents(SockInfo)
      BY <1>4 DEF Recv, CloseSocket, Silence
    <2>2. Silent(ready_events, SockInfo)'
      BY <2>1, RemovePendingSilences
         DEF TypeOK, EventQueueTypeOK, RemovePendingEvents
    <2>. QED
      BY <1>1, <1>2, <2>1, <2>2 DEF EndIsFinal, Open
  <1>. QED
    BY <1>3, <1>4

\* The callback announces at most one event, the end of the stream only when
\* nothing is left to read, and closes the socket with every end it announces.
LEMMA CallbackEnd ==
    ASSUME TypeOK, NothingPendingInCallback, EndIsFinal, ProcessEpollEvents
    PROVE  EndIsFinal'
  <1>1. /\ ready_events = <<>> /\ Open /\ task # "blocked"
        /\ UNCHANGED <<task, link, rcvbuf>>
        /\ announced \in Seq(EventKind)
        /\ loop = "callback"
        /\ EventsInOrder
    BY DEF ProcessEpollEvents, NothingPendingInCallback, EndIsFinal, Open,
       TypeOK
  <1>2. ready_events' = <<>> /\ loop' # "callback"
    <2>1. \A kind : SocketEvent(kind).is_valid
      BY DEF SocketEvent, NewEvent
    <2>. QED
      BY <1>1, <2>1, PushAtMostOne
         DEF ProcessEpollEvents, ProcessError, ProcessInput, ProcessConnect,
             Announce, AnnounceNothing
  <1>3. Silent(ready_events, SockInfo)'
    BY <1>2 DEF Silent
  <1>4. ASSUME NEW kind \in {"IoError", "StreamClosed"}, Announce(kind),
               CloseSocket, kind = "StreamClosed" => rcvbuf = 0
        PROVE  EndIsFinal'
    <2>1. kind \in EventKind /\ kind # "Connected"
      BY DEF EventKind
    <2>2. /\ \A i \in 1 .. Len(announced') :
                 /\ announced'[i] = "Connected" => i = 1
                 /\ announced'[i] \in Terminal => i = Len(announced')
          /\ announced' # <<>> /\ announced'[Len(announced')] = kind
      BY <1>1, <1>4, <2>1, AnnounceOrder
    <2>3. connection_state' = "Closed" /\ interest' = "none"
      BY <1>4 DEF CloseSocket
    <2>4. EventsInOrder' /\ StreamClosedMeansDrained'
      BY <1>1, <1>4, <2>2, <2>3 DEF EventsInOrder, StreamClosedMeansDrained
    <2>. QED
      BY <1>1, <1>2, <1>3, <2>3, <2>4 DEF EndIsFinal, Open
  <1>5. ASSUME NEW kind \in {"Connected", "DataAvailable"}, Announce(kind),
               kind = "Connected" => announced = <<>>,
               connection_state' = "Connected",
               link = "reset" => so_error'
        PROVE  EndIsFinal'
    <2>1. kind \in EventKind /\ kind \notin Terminal
      BY DEF EventKind, Terminal
    <2>2. /\ \A i \in 1 .. Len(announced') :
                 /\ announced'[i] = "Connected" => i = 1
                 /\ announced'[i] \in Terminal => i = Len(announced')
          /\ announced' # <<>> /\ announced'[Len(announced')] = kind
      BY <1>1, <1>5, <2>1, AnnounceOrder
    <2>3. EventsInOrder' /\ StreamClosedMeansDrained'
      BY <1>5, <2>1, <2>2 DEF EventsInOrder, StreamClosedMeansDrained, Terminal
    <2>. QED
      BY <1>1, <1>2, <1>5, <2>3 DEF EndIsFinal, Open
  <1>6. CASE ProcessError
    BY <1>4, <1>6 DEF ProcessError
  <1>7. CASE ProcessInput
    <2>. USE <1>7 DEF ProcessInput
    <2>0. "EPOLLHUP" \notin report /\ UNCHANGED so_error
          /\ (link = "reset" => so_error)
      BY <1>1 DEF EndIsFinal
    <2>1. CASE "EPOLLIN" \in report /\ BytesAnnounced > 0
      BY <1>5, <2>0, <2>1
    <2>2. CASE "EPOLLIN" \in report /\ ~(BytesAnnounced > 0)
      <3>1. rcvbuf = 0
        BY <2>0, <2>2, TcpSocketAssumption
           DEF BytesAnnounced, ReadAvailableBytes, TypeOK
      <3>. QED
        BY <1>4, <2>2, <3>1
    <2>3. CASE "EPOLLIN" \notin report
      <3>1. UNCHANGED <<connection_state, interest, announced, rcvbuf>>
        BY <1>1, <2>3 DEF AnnounceNothing
      <3>2. EventsInOrder' /\ StreamClosedMeansDrained'
        BY <3>1 DEF EndIsFinal, EventsInOrder, StreamClosedMeansDrained
      <3>. QED
        BY <1>1, <1>2, <2>0, <3>1, <3>2 DEF EndIsFinal, Open
    <2>. QED
      BY <2>1, <2>2, <2>3
  <1>8. CASE ProcessConnect
    <2>. USE <1>8 DEF ProcessConnect
    <2>0. "EPOLLOUT" \in report /\ announced = <<>>
          /\ (link = "reset" => so_error)
      BY <1>1 DEF EndIsFinal
    <2>1. CASE so_error
      BY <1>4, <2>0, <2>1
    <2>2. CASE ~so_error
      BY <1>5, <2>0, <2>2
    <2>. QED
      BY <2>1, <2>2
  <1>. QED
    BY <1>6, <1>7, <1>8 DEF ProcessEpollEvents

\* The invariant holds whatever the network does and whatever the client calls.
LEMMA EndIsFinalInvariant == Spec => []EndIsFinal
  <1>1. Init => EndIsFinal
    <2>. SUFFICES ASSUME Init
                  PROVE  EndIsFinal
      OBVIOUS
    <2>1. /\ task = "running" /\ loop = "user" /\ link # "reset"
          /\ announced = <<>> \/ announced = <<"Connected">>
          /\ connection_state = "Connecting" =>
                 interest = "EPOLLOUT" /\ announced = <<>>
          /\ connection_state = "Closed" =>
                 interest = "none" /\ ready_events = <<>>
      BY DEF Init, InitConnecting, InitConnectedAtOnce, InitAccepted, InitDead
    <2>2. EventsInOrder /\ StreamClosedMeansDrained
      BY <2>1 DEF EventsInOrder, StreamClosedMeansDrained, Terminal
    <2>. QED
      BY <2>1, <2>2 DEF EndIsFinal, Silent
  <1>2. TypeOK /\ NothingPendingInCallback /\ EndIsFinal /\ [Next]_vars
            => EndIsFinal'
    <2>. SUFFICES ASSUME TypeOK, NothingPendingInCallback, EndIsFinal,
                         [Next]_vars
                  PROVE  EndIsFinal'
      OBVIOUS
    <2>0. ready_events \in Seq(EventsOf(Sources))
      BY DEF TypeOK, EventQueueTypeOK
    <2>e. ASSUME UNCHANGED announced, Open \/ ~Open', Open \/ rcvbuf' = rcvbuf
          PROVE  EventsInOrder' /\ StreamClosedMeansDrained'
      BY <2>e DEF EndIsFinal, EventsInOrder, StreamClosedMeansDrained, Open,
         Terminal
    <2>1. ASSUME Network
          PROVE  EndIsFinal'
      <3>1. UNCHANGED ours /\ Open
        BY <2>1 DEF Network, ConnectSucceeds, ConnectionBreaks, DataArrives,
           PeerCloses
      <3>2. UNCHANGED <<connection_state, interest, task, report, announced,
                        loop, ready_events>>
        BY <3>1 DEF ours, history, eqvars
      <3>3. link' = "reset" => so_error'
        BY <2>1, <3>1 DEF Network, ConnectSucceeds, ConnectionBreaks,
           DataArrives, PeerCloses, EndIsFinal
      <3>4. EventsInOrder' /\ StreamClosedMeansDrained'
        BY <2>e, <3>1, <3>2
      <3>. QED
        BY <3>1, <3>2, <3>3, <3>4 DEF EndIsFinal, Open
    <2>2. ASSUME NEW len \in BufferSizes, Read(len) \/ ReadResumes(len)
          PROVE  EndIsFinal'
      BY <2>2, RecvEnd DEF Read, ReadResumes, InUserCode, EndIsFinal
    <2>3. ASSUME WriteFails \/ Close \/ Drop
          PROVE  EndIsFinal'
      <3>1. /\ connection_state' = "Closed" /\ interest' = "none"
            /\ task' # "blocked" /\ loop' = "user"
            /\ UNCHANGED <<announced, rcvbuf>>
            /\ RemovePendingEvents(SockInfo)
        BY <2>3 DEF WriteFails, Close, Drop, CloseSocket, Silence, InUserCode,
           kernel, history
      <3>2. Silent(ready_events, SockInfo)'
        BY <2>0, <3>1, RemovePendingSilences DEF RemovePendingEvents
      <3>3. EventsInOrder' /\ StreamClosedMeansDrained'
        BY <2>e, <3>1 DEF Open
      <3>. QED
        BY <3>1, <3>2, <3>3 DEF EndIsFinal, Open
    <2>4. ASSUME NextEvent
          PROVE  EndIsFinal'
      <3>1. UNCHANGED <<connection_state, interest, task, link, so_error,
                        rcvbuf, report, announced>>
        BY <2>4 DEF NextEvent, kernel, history
      <3>2. loop' # "callback" /\ task # "blocked"
        BY <2>4 DEF NextEvent, NextEventReady, NextEventPoll
      <3>3. Silent(ready_events, SockInfo) => Silent(ready_events, SockInfo)'
        <4>1. CASE NextEventReady
          BY <2>0, <4>1, TailStaysSilent DEF NextEventReady
        <4>2. CASE NextEventPoll
          BY <4>2 DEF NextEventPoll
        <4>. QED
          BY <2>4, <4>1, <4>2 DEF NextEvent
      <3>4. EventsInOrder' /\ StreamClosedMeansDrained'
        BY <2>e, <3>1 DEF Open
      <3>. QED
        BY <3>1, <3>2, <3>3, <3>4 DEF EndIsFinal, Open
    <2>5. ASSUME NEW count \in 1 .. MaxOther, OtherSource(count)
          PROVE  EndIsFinal'
      <3>1. UNCHANGED <<connection_state, interest, task, link, so_error,
                        rcvbuf, report, announced>>
        BY <2>5 DEF OtherSource, kernel, history
      <3>2. loop' # "callback" /\ loop = "polling"
        BY <2>5 DEF OtherSource, FinishPoll
      <3>3. /\ ready_events = <<>> /\ count \in Nat
            /\ NewEvent("DataAvailable", Other) \in EventsOf(Sources)
            /\ ~OriginatesFrom(NewEvent("DataAvailable", Other), SockInfo)
        BY <2>5, TcpSocketAssumption
           DEF OtherSource, NothingPendingInCallback, NewEvent, EventsOf,
               EventKind, OriginatesFrom
      <3>4. Silent(ready_events', SockInfo)
        BY <2>5, <3>3, FinishPollStaysSilent DEF OtherSource
      <3>5. EventsInOrder' /\ StreamClosedMeansDrained'
        BY <2>e, <3>1 DEF Open
      <3>. QED
        BY <3>1, <3>2, <3>4, <3>5 DEF EndIsFinal, Open
    <2>6. ASSUME EpollWait
          PROVE  EndIsFinal'
      <3>1. /\ UNCHANGED <<connection_state, interest, task, link, so_error,
                           rcvbuf, announced, ready_events>>
            /\ interest # "none" /\ Open /\ loop = "polling"
            /\ report' = Reported /\ report' # {}
        BY <2>6 DEF EpollWait, kernel, history, Reported, EndIsFinal, Open
      <3>2. ("EPOLLHUP" \in report' => "EPOLLERR" \in report')
        BY <3>1 DEF Reported, Raised, Conditions, EndIsFinal
      <3>3. connection_state = "Connecting" =>
                "EPOLLOUT" \in report' \/ "EPOLLERR" \in report'
        <4>1. connection_state = "Connecting" =>
                  report' \subseteq {"EPOLLOUT", "EPOLLERR", "EPOLLHUP"}
          BY <3>1 DEF Reported, EndIsFinal
        <4>. QED
          BY <3>1, <3>2, <4>1
      <3>4. EventsInOrder' /\ StreamClosedMeansDrained'
        BY <2>e, <3>1
      <3>. QED
        BY <3>1, <3>2, <3>3, <3>4 DEF EndIsFinal, Open
    <2>7. ASSUME ProcessEpollEvents
          PROVE  EndIsFinal'
      BY <2>7, CallbackEnd
    <2>8. ASSUME ReadBlocks
          PROVE  EndIsFinal'
      <3>1. /\ connection_state = "Connected" /\ loop = "user"
            /\ UNCHANGED <<connection_state, interest, link, so_error,
                           rcvbuf, report, announced, loop, ready_events>>
        BY <2>8 DEF ReadBlocks, InUserCode, kernel, history, eqvars
      <3>2. EventsInOrder' /\ StreamClosedMeansDrained'
        BY <2>e, <3>1 DEF Open
      <3>. QED
        BY <3>1, <3>2 DEF EndIsFinal, Open
    <2>9. ASSUME UNCHANGED vars
          PROVE  EndIsFinal'
      <3>1. UNCHANGED <<connection_state, interest, task, link, so_error,
                        rcvbuf, report, announced, loop, ready_events>>
        BY <2>9 DEF vars, kernel, history, eqvars
      <3>2. EventsInOrder' /\ StreamClosedMeansDrained'
        BY <2>e, <3>1 DEF Open
      <3>. QED
        BY <3>1, <3>2 DEF EndIsFinal, Open
    <2>. QED
      BY <2>1, <2>2, <2>3, <2>4, <2>5, <2>6, <2>7, <2>8, <2>9
         DEF Next, User, EventLoop, ReadAnswered, Write
  <1>. QED
    BY <1>1, <1>2, TypeCorrect, CallbacksFindNothing, PTL DEF Spec

\* A socket announces Connected first and at most once, and nothing after the
\* end of the stream or an error.
THEOREM EventsComeInOrder == Spec => []EventsInOrder
  <1>1. EndIsFinal => EventsInOrder
    BY DEF EndIsFinal
  <1>. QED
    BY <1>1, EndIsFinalInvariant, PTL

\* The end of the stream is announced only when all data has been read; no
\* hang-up passes for it (tcp.rs:433).
THEOREM StreamEndsDrained == Spec => []StreamClosedMeansDrained
  <1>1. EndIsFinal => StreamClosedMeansDrained
    BY DEF EndIsFinal
  <1>. QED
    BY <1>1, EndIsFinalInvariant, PTL

\* A closed socket has no valid event in the list, whoever closed it.
THEOREM ClosedIsSilent == Spec => []ClosedSocketIsSilent
  <1>1. EndIsFinal => ClosedSocketIsSilent
    BY DEF EndIsFinal, ClosedSocketIsSilent, Silent
  <1>. QED
    BY <1>1, EndIsFinalInvariant, PTL

-----------------------------------------------------------------------------
(* Conditions are reported, and callbacks announce them                     *)

\* What epoll_wait has reported about a connected socket is input or an error:
\* the entry asks for input, and a hang-up comes with an error.
InputIsAskedFor ==
    connection_state = "Connected" =>
        /\ interest = "EPOLLIN"
        /\ loop = "callback" => "EPOLLIN" \in report \/ "EPOLLERR" \in report

LEMMA InputIsAskedForStep ==
    ASSUME EndIsFinal, InputIsAskedFor, [Next]_vars
    PROVE  InputIsAskedFor'
  <1>. USE DEF InputIsAskedFor
  <1>1. ASSUME Network
        PROVE  InputIsAskedFor'
    <2>1. UNCHANGED ours
      BY <1>1 DEF Network, ConnectSucceeds, ConnectionBreaks, DataArrives,
         PeerCloses
    <2>. QED
      BY <2>1 DEF ours, eqvars
  <1>2. ASSUME NEW len \in BufferSizes, Read(len) \/ ReadResumes(len)
        PROVE  InputIsAskedFor'
    <2>1. /\ UNCHANGED <<report, loop>>
          /\ \/ UNCHANGED <<connection_state, interest>>
             \/ connection_state' = "Closed"
      BY <1>2 DEF Read, ReadResumes, Recv, CloseSocket
    <2>. QED
      BY <2>1
  <1>3. ASSUME WriteFails \/ Close \/ Drop
        PROVE  InputIsAskedFor'
    BY <1>3 DEF WriteFails, Close, Drop, CloseSocket
  <1>4. ASSUME NextEvent \/ \E count \in 1 .. MaxOther : OtherSource(count)
        PROVE  InputIsAskedFor'
    BY <1>4 DEF NextEvent, NextEventReady, NextEventPoll, OtherSource,
       FinishPoll
  <1>5. ASSUME EpollWait
        PROVE  InputIsAskedFor'
    <2>1. /\ UNCHANGED <<connection_state, interest>>
          /\ report' = Reported /\ report' # {}
      BY <1>5 DEF EpollWait
    <2>2. ASSUME connection_state = "Connected"
          PROVE  "EPOLLIN" \in report' \/ "EPOLLERR" \in report'
      <3>1. interest = "EPOLLIN"
        BY <2>2
      <3>2. report' \subseteq {"EPOLLIN", "EPOLLERR", "EPOLLHUP"}
        BY <2>1, <3>1 DEF Reported
      <3>3. "EPOLLHUP" \in report' => "EPOLLERR" \in report'
        BY <2>1, <2>2, <3>1 DEF Reported, Raised, Conditions, EndIsFinal, Open
      <3>. QED
        BY <2>1, <3>2, <3>3
    <2>. QED
      BY <2>1, <2>2
  <1>6. ASSUME ProcessEpollEvents
        PROVE  InputIsAskedFor'
    <2>1. loop' # "callback"
      BY <1>6 DEF ProcessEpollEvents, ProcessError, ProcessInput,
         ProcessConnect, Announce, AnnounceNothing, FinishPoll
    <2>2. connection_state' = "Connected" => interest' = "EPOLLIN"
      BY <1>6 DEF ProcessEpollEvents, ProcessError, ProcessInput,
         ProcessConnect, CloseSocket, InterestOfConnected
    <2>. QED
      BY <2>1, <2>2
  <1>7. ASSUME ReadBlocks \/ ReadAnswered \/ Write \/ UNCHANGED vars
        PROVE  InputIsAskedFor'
    BY <1>7 DEF ReadBlocks, ReadAnswered, Write, vars, eqvars
  <1>. QED
    BY <1>1, <1>2, <1>3, <1>4, <1>5, <1>6, <1>7 DEF Next, User, EventLoop

LEMMA InputIsAskedForInvariant == Spec => []InputIsAskedFor
  <1>1. Init => InputIsAskedFor
    BY DEF Init, InitConnecting, InitConnectedAtOnce, InitAccepted, InitDead,
       InputIsAskedFor
  <1>2. EndIsFinal /\ InputIsAskedFor /\ [Next]_vars => InputIsAskedFor'
    BY InputIsAskedForStep
  <1>. QED
    BY <1>1, <1>2, EndIsFinalInvariant, PTL DEF Spec

\* The outcome of a connect, received data, the end of the connection and its
\* errors are reported by epoll in every state of the socket.
THEOREM ConditionsReachEpoll == Spec => []ConditionsAreReported
  <1>1. EndIsFinal /\ InputIsAskedFor => ConditionsAreReported
    <2>. SUFFICES ASSUME EndIsFinal, InputIsAskedFor,
                  \/ connection_state = "Connecting" /\ link # "handshake"
                  \/ connection_state = "Connected"
                         /\ (rcvbuf > 0 \/ so_error
                                 \/ link \in {"fin", "reset"})
                  PROVE  Reported # {}
      BY DEF ConditionsAreReported
    <2>1. CASE connection_state = "Connecting"
      <3>1. "EPOLLOUT" \in Reported
        BY <2>1 DEF EndIsFinal, Reported, Raised, Conditions
      <3>. QED
        BY <3>1
    <2>2. CASE connection_state = "Connected"
      <3>1. "EPOLLIN" \in Reported \/ "EPOLLERR" \in Reported
        BY <2>2 DEF InputIsAskedFor, Reported, Raised, Conditions
      <3>. QED
        BY <3>1
    <2>. QED
      BY <2>1, <2>2
  <1>. QED
    BY <1>1, EndIsFinalInvariant, InputIsAskedForInvariant, PTL

\* What an announcement makes of the poll loop.
LEMMA AnnouncementReturns ==
    ASSUME ready_events = <<>>, NEW kind, Announce(kind)
    PROVE  loop' = "user" /\ OriginatesFrom(returned', SockInfo)
  <1>. DEFINE event == SocketEvent(kind)
  <1>1. event.is_valid /\ OriginatesFrom(event, SockInfo)
    BY DEF SocketEvent, NewEvent, OriginatesFrom
  <1>2. FinishPoll(<<event>>)
    BY DEF Announce
  <1>. HIDE DEF event
  <1>3. <<>> \o <<event>> = <<event>> /\ Head(<<event>>) = event
    OBVIOUS
  <1>4. loop' = "user" /\ returned' = event
    BY <1>1, <1>2, <1>3 DEF FinishPoll
  <1>. QED
    BY <1>1, <1>4

\* Each call of the callback makes next_event return an event of this socket:
\* no reported condition is passed over.
THEOREM EveryCallbackAnnounces == Spec => CallbacksAnnounce
  <1>1. EndIsFinal /\ InputIsAskedFor /\ NothingPendingInCallback /\ TypeOK
            => [ProcessEpollEvents =>
                    loop' = "user"
                        /\ OriginatesFrom(returned', SockInfo)]_vars
    <2>. SUFFICES ASSUME EndIsFinal, InputIsAskedFor,
                         NothingPendingInCallback, TypeOK, ProcessEpollEvents
                  PROVE  loop' = "user" /\ OriginatesFrom(returned', SockInfo)
      OBVIOUS
    <2>1. loop = "callback" /\ ready_events = <<>>
      BY DEF ProcessEpollEvents, NothingPendingInCallback
    <2>2. \E kind : Announce(kind)
      <3>1. CASE ProcessError
        BY <3>1 DEF ProcessError
      <3>2. CASE ProcessInput
        BY <2>1, <3>2 DEF ProcessInput, InputIsAskedFor
      <3>3. CASE ProcessConnect
        BY <2>1, <3>3 DEF ProcessConnect, EndIsFinal
      <3>. QED
        BY <3>1, <3>2, <3>3 DEF ProcessEpollEvents
    <2>. QED
      BY <2>1, <2>2, AnnouncementReturns
  <1>. QED
    BY <1>1, EndIsFinalInvariant, InputIsAskedForInvariant,
       CallbacksFindNothing, TypeCorrect, PTL DEF CallbacksAnnounce
=============================================================================
