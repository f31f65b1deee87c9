--------------------------- MODULE TcpServerSocket ---------------------------
(***************************************************************************)
(* src/linux/tcp.rs, TcpServerSocket and the RawTcpServerSocket inside it: *)
(* a listening socket, the kernel's queue of established connections, and  *)
(* the event queue it shares with other sources.                           *)
(***************************************************************************)
EXTENDS EventQueue

CONSTANTS
    ServerInfo, Other,  \* EventSourceInfo of the socket and of another source
    Backlog,            \* connections the kernel keeps for accept
    MaxOther            \* bound: events one callback of the other source pushes

ASSUME TcpServerSocketAssumption ==
    /\ ServerInfo \in Sources /\ Other \in Sources /\ ServerInfo # Other
    /\ Backlog \in Nat /\ MaxOther \in Nat

VARIABLES
    connection_state,   \* struct RawTcpServerSocket
    client_available,   \* struct TcpServerSocket
    exists,             \* the TcpServerSocket has not been dropped
    task,               \* "running", or "blocked" in accept
    registered,         \* kernel: the descriptor is on epoll, for EPOLLIN
    clients,            \* kernel: established connections not yet accepted
    so_error,           \* kernel: an error waits to be read
    report              \* conditions epoll_wait has reported to the callback

vars == <<connection_state, client_available, exists, task, registered,
          clients, so_error, report, eqvars>>

TypeOK ==
    /\ connection_state \in {"Connected", "Closed"}
    /\ client_available \in BOOLEAN
    /\ exists \in BOOLEAN
    /\ task \in {"running", "blocked"}
    /\ registered \in BOOLEAN
    /\ clients \in 0 .. Backlog
    /\ so_error \in BOOLEAN
    /\ report \in SUBSET {"EPOLLIN", "EPOLLERR"}
    /\ EventQueueTypeOK

ServerEvent(kind) == NewEvent(kind, ServerInfo)

\* TcpServerSocket::bind, or from_raw_server_socket of a raw socket: an open
\* one, to which clients may have connected already, is registered, a closed
\* one is not.
Init ==
    /\ \/ /\ connection_state = "Connected"
          /\ registered = TRUE
          /\ clients \in 0 .. Backlog
       \/ /\ connection_state = "Closed"
          /\ registered = FALSE
          /\ clients = 0
    /\ client_available = FALSE
    /\ exists = TRUE
    /\ task = "running"
    /\ so_error = FALSE
    /\ report = {}
    /\ EventQueueInit

(***************************************************************************)
(* The network                                                             *)
(***************************************************************************)

Open == connection_state = "Connected"

ClientConnects ==
    /\ Open /\ clients < Backlog
    /\ clients' = clients + 1
    /\ UNCHANGED <<connection_state, client_available, exists, task,
                   registered, so_error, report, eqvars>>

SocketBreaks ==
    /\ Open /\ ~so_error
    /\ so_error' = TRUE
    /\ UNCHANGED <<connection_state, client_available, exists, task,
                   registered, clients, report, eqvars>>

(***************************************************************************)
(* The task                                                                *)
(***************************************************************************)

InUserCode == loop = "user" /\ exists /\ task = "running"

\* Faults: the descriptor stays open; the flag is not reset.
CloseKeepsDescriptor == connection_state' = "Closed" /\ UNCHANGED registered
AvailableAsBefore == client_available

\* RawTcpServerSocket::close_socket; closing takes the descriptor off epoll.
CloseSocket == connection_state' = "Closed" /\ registered' = FALSE

\* client_available once a connection has been accepted
AvailableAfterAccept == FALSE

\* accept without an announced client, or of a closed socket: refused without
\* a system call.
AcceptRefused ==
    /\ InUserCode
    /\ Open => ~client_available
    /\ UNCHANGED vars

\* TcpServerSocket::accept; the descriptor is blocking, so the task falls
\* asleep when there is no connection to return.
Accept ==
    /\ InUserCode /\ Open /\ client_available
    /\ IF clients > 0
       THEN /\ clients' = clients - 1
            /\ client_available' = AvailableAfterAccept
            /\ UNCHANGED task
       ELSE /\ task' = "blocked"
            /\ UNCHANGED <<clients, client_available>>
    /\ UNCHANGED <<connection_state, exists, registered, so_error, report,
                   eqvars>>

\* TcpServerSocket::accept that fails, with any error but EAGAIN, which a
\* blocking socket does not give: the listening socket is closed, be the
\* cause a broken socket or a lack of descriptors.
AcceptFails ==
    /\ InUserCode /\ Open /\ client_available
    /\ CloseSocket
    /\ RemovePendingEvents(ServerInfo)
    /\ UNCHANGED <<client_available, exists, task, clients, so_error, report,
                   loop, returned>>

\* TcpServerSocket::close
Close ==
    /\ InUserCode
    /\ CloseSocket
    /\ RemovePendingEvents(ServerInfo)
    /\ UNCHANGED <<client_available, exists, task, clients, so_error, report,
                   loop, returned>>

\* TcpServerSocket::drop, then RawTcpServerSocket::drop
Drop ==
    /\ InUserCode
    /\ exists' = FALSE
    /\ CloseSocket
    /\ RemovePendingEvents(ServerInfo)
    /\ UNCHANGED <<client_available, task, clients, so_error, report,
                   loop, returned>>

(***************************************************************************)
(* The event loop                                                          *)
(***************************************************************************)

ours == <<connection_state, client_available, exists, task, registered,
          clients, so_error>>

NextEvent ==
    /\ task = "running"
    /\ NextEventReady \/ NextEventPoll
    /\ UNCHANGED <<ours, report>>

\* The callback of another source pushes events.
OtherSource(count) ==
    /\ loop = "polling"
    /\ FinishPoll(Repeat(NewEvent("DataAvailable", Other), count))
    /\ UNCHANGED <<ours, report>>

\* Fault: the descriptor is registered without EPOLLIN.
ReportedErrorsOnly ==
    IF registered /\ so_error THEN {"EPOLLERR"} ELSE {}

\* what epoll_wait reports: register_fd asks for EPOLLIN
Reported ==
    IF ~registered THEN {}
    ELSE (IF clients > 0 THEN {"EPOLLIN"} ELSE {})
            \cup (IF so_error THEN {"EPOLLERR"} ELSE {})

EpollWait ==
    /\ loop = "polling"
    /\ Reported # {}
    /\ report' = Reported
    /\ loop' = "callback"
    /\ UNCHANGED <<ours, ready_events, returned>>

\* process_epoll_events: an error ends the socket, otherwise there is a
\* client.
ProcessEpollEvents ==
    /\ loop = "callback"
    /\ report' = {}
    /\ IF "EPOLLERR" \in report
       THEN /\ so_error' = FALSE
            /\ CloseSocket
            /\ FinishPoll(<<ServerEvent("IoError")>>)
            /\ UNCHANGED client_available
       ELSE /\ client_available' = TRUE
            /\ FinishPoll(<<ServerEvent("ClientConnected")>>)
            /\ UNCHANGED <<connection_state, registered, so_error>>
    /\ UNCHANGED <<exists, task, clients>>

Next ==
    \/ ClientConnects
    \/ SocketBreaks
    \/ AcceptRefused
    \/ Accept
    \/ AcceptFails
    \/ Close
    \/ Drop
    \/ NextEvent
    \/ \E count \in 1 .. MaxOther : OtherSource(count)
    \/ EpollWait
    \/ ProcessEpollEvents

Spec == Init /\ [][Next]_vars

-----------------------------------------------------------------------------
(* Safety                                                                   *)

\* accept never puts the event loop to sleep: the listening socket is
\* blocking, so an accept must be backed by a connection the kernel holds.
AcceptNeverBlocks == task # "blocked"

\* The safety side of ClientsAreAnnounced: a client that waits, or an error, is
\* reported by epoll as long as the socket is open.
ClientsAreReported == Open /\ (clients > 0 \/ so_error) => Reported # {}

\* Once the socket is closed, by its user, by a failed accept or by an error
\* event, next_event hands out no valid event of it.
SilentAfterClose ==
    [][(connection_state = "Closed" /\ HandsOut) =>
           ~(OriginatesFrom(returned', ServerInfo) /\ returned'.is_valid)]_vars

-----------------------------------------------------------------------------
(* Liveness                                                                 *)

\* The task keeps asking for events, and epoll_wait, asked for one event at a
\* time, goes through its ready descriptors in turn.
Fairness ==
    /\ WF_vars(NextEvent)
    /\ SF_vars(EpollWait)
    /\ WF_vars(ProcessEpollEvents)

FairSpec == Spec /\ Fairness

\* A connection that waits is announced, also when it arrived together with
\* others that one event stands for, unless the socket is closed.
ClientsAreAnnounced ==
    [](clients > 0 => <>(client_available \/ connection_state = "Closed"))
=============================================================================
