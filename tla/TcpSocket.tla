------------------------------ MODULE TcpSocket ------------------------------
(***************************************************************************)
(* src/linux/tcp.rs, TcpSocket and the RawTcpSocket inside it: one socket, *)
(* the kernel's end of its connection, its entry at epoll and the event    *)
(* queue it shares with other sources.                                     *)
(*                                                                         *)
(* The socket belongs to one task.  The peer and the network act at any    *)
(* time, in particular between the return of epoll_wait, which fixes the   *)
(* reported conditions, and the system calls of the callback.  Bytes are   *)
(* counted, their values are not modelled.                                 *)
(***************************************************************************)
EXTENDS EventQueue, Integers

CONSTANTS
    SockInfo, Other,    \* EventSourceInfo of the socket and of another source
    MaxBytes,           \* bound: bytes in the kernel's receive buffer
    UintSize,           \* number of values of the type uint
    MaxOther            \* bound: events one callback of the other source pushes

ASSUME TcpSocketAssumption ==
    /\ SockInfo \in Sources /\ Other \in Sources /\ SockInfo # Other
    /\ MaxBytes \in Nat /\ MaxOther \in Nat
    /\ UintSize \in Nat /\ UintSize > MaxBytes

VARIABLES
    connection_state, available_bytes,  \* struct RawTcpSocket, TcpSocket
    exists,         \* the TcpSocket has not been dropped
    task,           \* "running", or "blocked" in recv
    interest,       \* kernel: epoll entry, "none", "EPOLLIN" or "EPOLLOUT"
    link,           \* kernel: "handshake", "up", "fin" received, "reset"
    so_error,       \* kernel: an error waits to be read
    rcvbuf,         \* kernel: bytes received and not read
    report,         \* conditions epoll_wait has reported to the callback
    announced,      \* history: kinds of the socket's events, repeated
                    \* DataAvailable counted once
    overread        \* history: recv has returned more than was announced,
                    \* and the callback has not counted since

kernel == <<link, so_error, rcvbuf>>
history == <<announced, overread>>
vars == <<connection_state, available_bytes, exists, task, interest, kernel,
          report, history, eqvars>>

Conditions == {"EPOLLIN", "EPOLLOUT", "EPOLLERR", "EPOLLHUP"}

TypeOK ==
    /\ connection_state \in {"Connecting", "Connected", "Closed"}
    /\ available_bytes \in 0 .. UintSize - 1
    /\ exists \in BOOLEAN
    /\ task \in {"running", "blocked"}
    /\ interest \in {"none", "EPOLLIN", "EPOLLOUT"}
    /\ link \in {"handshake", "up", "fin", "reset"}
    /\ so_error \in BOOLEAN
    /\ rcvbuf \in 0 .. MaxBytes
    /\ report \in SUBSET Conditions
    /\ announced \in Seq(EventKind)
    /\ overread \in BOOLEAN
    /\ EventQueueTypeOK

SocketEvent(kind) == NewEvent(kind, SockInfo)

(***************************************************************************)
(* How a socket comes to its event queue                                   *)
(***************************************************************************)

\* Fault: a socket that is connecting asks for input.
InitConnectingForInput ==
    /\ connection_state = "Connecting"
    /\ interest = "EPOLLIN"
    /\ link = "handshake"
    /\ announced = <<>>
    /\ ready_events = <<>>

\* TcpSocket::connect, EINPROGRESS; register_fd asks for EPOLLOUT.
InitConnecting ==
    /\ connection_state = "Connecting"
    /\ interest = "EPOLLOUT"
    /\ link = "handshake"
    /\ announced = <<>>
    /\ ready_events = <<>>

\* TcpSocket::connect, connected at once: the event is queued behind those
\* of other sources.
InitConnectedAtOnce ==
    /\ connection_state = "Connected"
    /\ interest = "EPOLLIN"
    /\ link = "up"
    /\ announced = <<"Connected">>
    /\ \E waiting \in 0 .. MaxOther :
           ready_events = Repeat(NewEvent("DataAvailable", Other), waiting)
                              \o <<SocketEvent("Connected")>>

\* TcpSocket::from_raw_tcp_socket, for a connection that was accepted
InitAccepted ==
    /\ connection_state = "Connected"
    /\ interest = "EPOLLIN"
    /\ link \in {"up", "fin"}
    /\ announced = <<>>
    /\ ready_events = <<>>

\* TcpSocket::from_raw_tcp_socket, for a raw socket that was closed before:
\* register_fd is skipped.
InitDead ==
    /\ connection_state = "Closed"
    /\ interest = "none"
    /\ link = "fin"
    /\ announced = <<>>
    /\ ready_events = <<>>

Init ==
    /\ \/ InitConnecting
       \/ InitConnectedAtOnce
       \/ InitAccepted
       \/ InitDead
    /\ available_bytes = 0
    /\ overread = FALSE
    /\ exists = TRUE
    /\ task = "running"
    /\ so_error = FALSE
    /\ rcvbuf = 0
    /\ report = {}
    /\ loop = "user"
    /\ returned = NoEvent

(***************************************************************************)
(* The peer and the network                                                *)
(***************************************************************************)

ours == <<connection_state, available_bytes, exists, task, interest, report,
          history, eqvars>>

Open == connection_state # "Closed"

ConnectSucceeds ==
    /\ Open /\ link = "handshake"
    /\ link' = "up"
    /\ UNCHANGED <<so_error, rcvbuf, ours>>

\* A refused connect and a reset both leave an error and a dead connection;
\* what has been received before stays readable.
ConnectionBreaks ==
    /\ Open /\ link # "reset"
    /\ link' = "reset"
    /\ so_error' = TRUE
    /\ UNCHANGED <<rcvbuf, ours>>

DataArrives(bytes) ==
    /\ Open /\ link = "up"
    /\ rcvbuf + bytes <= MaxBytes
    /\ rcvbuf' = rcvbuf + bytes
    /\ UNCHANGED <<link, so_error, ours>>

PeerCloses ==
    /\ Open /\ link = "up"
    /\ link' = "fin"
    /\ UNCHANGED <<so_error, rcvbuf, ours>>

(***************************************************************************)
(* RawTcpSocket                                                            *)
(***************************************************************************)

InUserCode == loop = "user" /\ exists /\ task = "running"

\* Fault: the descriptor is not closed.
CloseKeepsDescriptor ==
    /\ connection_state' = "Closed"
    /\ UNCHANGED interest

\* RawTcpSocket::close_socket; closing the descriptor ends its epoll entry.
CloseSocket ==
    /\ connection_state' = "Closed"
    /\ interest' = "none"

\* Fault: the events that are queued stay valid.
KeepPendingEvents(source) == UNCHANGED ready_events

\* TcpSocket::remove_pending_events
Silence(source) == RemovePendingEvents(source)

\* Fault: the counter is left alone.
AllStillAvailable(bytes) == available_bytes

\* available_bytes after a read of "bytes": unsigned subtraction, which wraps
AvailableAfterRead(bytes) ==
    IF bytes <= available_bytes THEN available_bytes - bytes
    ELSE available_bytes + UintSize - bytes

\* recv finds something to return: data, the end of the stream, an error.
Readable == rcvbuf > 0 \/ so_error \/ link \in {"fin", "reset"}

\* recv on the blocking socket, and what TcpSocket::read does with the result
Recv(len) ==
    /\ Readable
    /\ task' = "running"
    /\ IF rcvbuf > 0
       THEN LET bytes == IF len < rcvbuf THEN len ELSE rcvbuf
            IN  /\ rcvbuf' = rcvbuf - bytes
                /\ available_bytes' = AvailableAfterRead(bytes)
                /\ overread' = (overread \/ bytes > available_bytes)
                /\ UNCHANGED <<connection_state, interest, so_error,
                               ready_events>>
       ELSE /\ CloseSocket
            /\ so_error' = FALSE
            /\ Silence(SockInfo)
            /\ UNCHANGED <<rcvbuf, available_bytes, overread>>
    /\ UNCHANGED <<exists, link, report, announced, loop, returned>>

(***************************************************************************)
(* TcpSocket                                                               *)
(***************************************************************************)

\* lengths of the client's buffers
BufferSizes == 1 .. MaxBytes

\* TcpSocket::read of a connected socket with announced data
Read(len) ==
    /\ InUserCode
    /\ connection_state = "Connected" /\ available_bytes > 0
    /\ Recv(len)

\* The same, with nothing to return: the blocking recv puts the task to sleep.
ReadBlocks ==
    /\ InUserCode
    /\ connection_state = "Connected" /\ available_bytes > 0
    /\ ~Readable
    /\ task' = "blocked"
    /\ UNCHANGED <<connection_state, available_bytes, exists, interest, kernel,
                   report, history, eqvars>>

ReadResumes(len) == task = "blocked" /\ Recv(len)

\* TcpSocket::read with nothing announced, or of a socket that is not
\* connected: answered without a system call.
ReadAnswered ==
    /\ InUserCode
    /\ connection_state # "Connected" \/ available_bytes = 0
    /\ UNCHANGED vars

\* TcpSocket::write that succeeds, or that a socket which is not connected
\* refuses
Write ==
    /\ InUserCode
    /\ connection_state = "Connected" => ~so_error /\ link # "reset"
    /\ UNCHANGED vars

\* TcpSocket::write into a broken connection
WriteFails ==
    /\ InUserCode
    /\ connection_state = "Connected"
    /\ so_error \/ link = "reset"
    /\ so_error' = FALSE
    /\ CloseSocket
    /\ Silence(SockInfo)
    /\ UNCHANGED <<available_bytes, exists, task, link, rcvbuf, report,
                   history, loop, returned>>

\* TcpSocket::close
Close ==
    /\ InUserCode
    /\ Silence(SockInfo)
    /\ CloseSocket
    /\ UNCHANGED <<available_bytes, exists, task, kernel, report, history,
                   loop, returned>>

\* TcpSocket::drop, then RawTcpSocket::drop
Drop ==
    /\ InUserCode
    /\ exists' = FALSE
    /\ Silence(SockInfo)
    /\ CloseSocket
    /\ UNCHANGED <<available_bytes, task, kernel, report, history, loop,
                   returned>>

(***************************************************************************)
(* The event loop                                                          *)
(***************************************************************************)

NextEvent ==
    /\ task = "running"
    /\ NextEventReady \/ NextEventPoll
    /\ UNCHANGED <<connection_state, available_bytes, exists, task, interest,
                   kernel, report, history>>

\* The callback of another source pushes events.
OtherSource(count) ==
    /\ loop = "polling"
    /\ FinishPoll(Repeat(NewEvent("DataAvailable", Other), count))
    /\ UNCHANGED <<connection_state, available_bytes, exists, task, interest,
                   kernel, report, history>>

\* what the kernel has to say about the descriptor
Raised ==
    {c \in Conditions :
        \/ c = "EPOLLIN" /\ (rcvbuf > 0 \/ link \in {"fin", "reset"})
        \/ c = "EPOLLOUT" /\ link # "handshake"
        \/ c = "EPOLLERR" /\ so_error
        \/ c = "EPOLLHUP" /\ link = "reset"}

\* Errors and hang-ups are reported whether asked for or not.
Reported ==
    IF interest = "none" THEN {}
    ELSE Raised \cap {interest, "EPOLLERR", "EPOLLHUP"}

EpollWait ==
    /\ loop = "polling"
    /\ Reported # {}
    /\ report' = Reported
    /\ loop' = "callback"
    /\ UNCHANGED <<connection_state, available_bytes, exists, task, interest,
                   kernel, history, ready_events, returned>>

\* The callback pushes one event and returns to the poll loop.
Announce(kind) ==
    /\ announced' = IF kind = "DataAvailable" /\ announced # <<>>
                          /\ announced[Len(announced)] = kind
                    THEN announced ELSE Append(announced, kind)
    /\ FinishPoll(<<SocketEvent(kind)>>)

AnnounceNothing == FinishPoll(<<>>) /\ UNCHANGED announced

\* Fault: the result of the ioctl is lost.
BytesForgotten == 0

\* read_available_bytes: FIONREAD, after whatever has arrived in the meantime
ReadAvailableBytes == rcvbuf

\* available_bytes as the callback sets it; a hang-up counts as no data
BytesAnnounced == IF "EPOLLHUP" \in report THEN 0 ELSE ReadAvailableBytes

\* process_epoll_events, "Read the error"
ProcessError ==
    /\ "EPOLLERR" \in report
    /\ so_error' = FALSE
    /\ CloseSocket
    /\ Announce("IoError")
    /\ UNCHANGED <<available_bytes, overread>>

\* process_epoll_events of a connected socket
ProcessInput ==
    /\ "EPOLLERR" \notin report /\ connection_state = "Connected"
    /\ IF "EPOLLIN" \in report
       THEN /\ available_bytes' = BytesAnnounced
            /\ overread' = FALSE
            /\ IF BytesAnnounced > 0
               THEN /\ Announce("DataAvailable")
                    /\ UNCHANGED <<connection_state, interest>>
               ELSE /\ CloseSocket
                    /\ Announce("StreamClosed")
       ELSE /\ AnnounceNothing
            /\ UNCHANGED <<connection_state, interest, available_bytes,
                           overread>>
    /\ UNCHANGED so_error

\* Fault: the epoll entry is left as it is.
InterestAsBefore == interest

\* what the socket asks epoll for once it is connected
InterestOfConnected == "EPOLLIN"

\* process_epoll_events, "Connecting": the result of the connect, which may
\* have turned bad since epoll_wait reported that there is one
ProcessConnect ==
    /\ "EPOLLERR" \notin report /\ connection_state = "Connecting"
    /\ IF "EPOLLOUT" \notin report
       THEN AnnounceNothing /\ UNCHANGED <<connection_state, interest>>
       ELSE IF so_error THEN CloseSocket /\ Announce("IoError")
       ELSE /\ connection_state' = "Connected"
            /\ interest' = InterestOfConnected
            /\ Announce("Connected")
    /\ so_error' = FALSE
    /\ UNCHANGED <<available_bytes, overread>>

ProcessEpollEvents ==
    /\ loop = "callback"
    /\ ProcessError \/ ProcessInput \/ ProcessConnect
    /\ report' = {}
    /\ UNCHANGED <<exists, task, link, rcvbuf>>

Network ==
    \/ ConnectSucceeds
    \/ ConnectionBreaks
    \/ \E bytes \in 1 .. MaxBytes : DataArrives(bytes)
    \/ PeerCloses

User ==
    \/ \E len \in BufferSizes : Read(len) \/ ReadResumes(len)
    \/ ReadBlocks
    \/ ReadAnswered
    \/ Write
    \/ WriteFails
    \/ Close
    \/ Drop

EventLoop ==
    \/ NextEvent
    \/ \E count \in 1 .. MaxOther : OtherSource(count)
    \/ EpollWait
    \/ ProcessEpollEvents

Next == Network \/ User \/ EventLoop

Spec == Init /\ [][Next]_vars
=============================================================================
