---------------------------- MODULE ServerExample ----------------------------
(***************************************************************************)
(* src/serverexample.rs: a client task that connects again and again to a  *)
(* server task, which accepts Clients connections, starts a task for each  *)
(* and closes the listening socket, whoever else is connecting then.       *)
(*                                                                         *)
(* The client has one connection at a time.  Sockets and queues do what    *)
(* modules TcpSocket, TcpServerSocket and EventLoop describe: a callback   *)
(* pushes one event, which next_event returns.                             *)
(***************************************************************************)
EXTENDS Naturals

CONSTANT Clients    \* initial client_count of servertask, at least one

VARIABLES
    main, event, received_data,     \* task main; the event it has got
    connection_state,               \* main's TcpSocket
    server, client_count, start,    \* servertask; the channel start_tx, rx
    clienttask,                     \* task of the connection accepted last
    listener, queued,               \* kernel: listening socket, connection
                                    \* of main in its accept queue
    link, response,                 \* kernel: that connection, bytes unread
    served                          \* history: responses main has read

client == <<main, event, received_data, connection_state, served>>
servertask == <<server, client_count, listener>>
vars == <<client, servertask, start, clienttask, queued, link, response>>

TypeOK ==
    /\ main \in {"starting", "polling", "handling", "ended", "failed"}
    /\ event \in {"none", "Connected", "IoError", "StreamClosed",
                  "DataAvailable"}
    /\ received_data \in BOOLEAN
    /\ connection_state \in {"Connecting", "Connected", "Closed"}
    /\ server \in {"binding", "bound", "polling", "accepting", "accepted",
                   "ended", "gave_up", "failed"}
    /\ client_count \in 0 .. Clients
    /\ start \in {"empty", "sent", "closed"}
    /\ clienttask \in {"none", "writing", "written"}
    /\ listener \in {"none", "open", "closed", "error"}
    /\ queued \in BOOLEAN /\ response \in BOOLEAN
    /\ link \in {"none", "handshake", "up", "fin", "reset"}
    /\ served \in Nat

Init ==
    /\ main = "starting" /\ event = "none" /\ received_data = FALSE
    /\ connection_state = "Closed"
    /\ server = "binding" /\ client_count = Clients /\ start = "empty"
    /\ clienttask = "none"
    /\ listener = "none" /\ queued = FALSE
    /\ link = "none" /\ response = FALSE
    /\ served = 0

(***************************************************************************)
(* servertask and clienttask                                               *)
(***************************************************************************)

\* TcpServerSocket::bind; if that fails, so does the task, whose transmitter
\* dies with it.
Bind ==
    /\ server = "binding"
    /\ \/ server' = "bound" /\ listener' = "open" /\ UNCHANGED start
       \/ server' = "failed" /\ start' = "closed" /\ UNCHANGED listener
    /\ UNCHANGED <<client, client_count, clienttask, queued, link, response>>

SendStart ==
    /\ server = "bound"
    /\ start' = "sent"
    /\ server' = "polling"
    /\ UNCHANGED <<client, client_count, clienttask, listener, queued, link,
                   response>>

\* next_event returns ClientConnectedEvent.
ClientConnected ==
    /\ server = "polling" /\ listener = "open" /\ queued
    /\ server' = "accepting"
    /\ UNCHANGED <<client, client_count, start, clienttask, listener, queued,
                   link, response>>

\* The kernel resets a connection nobody has accepted.
CloseListener ==
    /\ listener' = "closed"
    /\ link' = IF queued THEN "reset" ELSE link
    /\ queued' = FALSE

\* accept and spawn; an accept without a connection would wait.
Accept ==
    /\ server = "accepting" /\ queued
    /\ queued' = FALSE
    /\ clienttask' = "writing"
    /\ server' = "accepted"
    /\ UNCHANGED <<client, client_count, start, listener, link, response>>

\* There is no descriptor for the connection; unwrap fails the task.
AcceptFails ==
    /\ server = "accepting"
    /\ server' = "failed"
    /\ CloseListener
    /\ UNCHANGED <<client, client_count, start, clienttask, response>>

LastClient == client_count - 1 = 0

\* client_count -= 1 and what follows
CountClient ==
    /\ server = "accepted"
    /\ client_count' = client_count - 1
    /\ IF LastClient THEN server' = "ended" /\ CloseListener
       ELSE server' = "polling" /\ UNCHANGED <<listener, link, queued>>
    /\ UNCHANGED <<client, start, clienttask, response>>

ListenerBreaks ==
    /\ listener = "open"
    /\ listener' = "error"
    /\ UNCHANGED <<client, server, client_count, start, clienttask, queued,
                   link, response>>

\* IoErrorEvent; the callback has closed the listening socket.
ServerGivesUp ==
    /\ server = "polling" /\ listener = "error"
    /\ server' = "gave_up"
    /\ CloseListener
    /\ UNCHANGED <<client, client_count, start, clienttask, response>>

\* clienttask writes, whatever becomes of it, and drops the socket.
ClientTask ==
    /\ \/ /\ clienttask = "writing" /\ clienttask' = "written"
          /\ response' = TRUE /\ UNCHANGED link
       \/ /\ clienttask = "written" /\ clienttask' = "none"
          /\ link' = "fin" /\ UNCHANGED response
    /\ UNCHANGED <<client, servertask, start, queued>>

(***************************************************************************)
(* main                                                                    *)
(***************************************************************************)

\* TcpSocket::connect to the loopback interface, EINPROGRESS; unwrap fails
\* the task when there is no descriptor for a socket.
Connect ==
    \/ /\ main' = "polling" /\ connection_state' = "Connecting"
       /\ link' = "handshake" /\ response' = FALSE
    \/ /\ main' = "failed"
       /\ UNCHANGED <<connection_state, link, response>>

\* Fault: main does not wait for the server.
StartsAtOnce == TRUE

\* rx.recv() returns or fails.
Started == start # "empty"

Start ==
    /\ main = "starting" /\ Started
    /\ IF start = "closed"
       THEN /\ main' = "failed"
            /\ UNCHANGED <<connection_state, link, response>>
       ELSE Connect
    /\ UNCHANGED <<event, received_data, served, servertask, start,
                   clienttask, queued>>

\* The kernel completes the handshake or refuses the connection.
Handshake ==
    /\ link = "handshake"
    /\ IF listener \in {"open", "error"} THEN link' = "up" /\ queued' = TRUE
       ELSE link' = "reset" /\ UNCHANGED queued
    /\ UNCHANGED <<client, servertask, start, clienttask, response>>

\* what the callback of the socket finds
Condition ==
    CASE link = "reset" -> "IoError"
      [] connection_state = "Connecting" /\ link \in {"up", "fin"}
             -> "Connected"
      [] connection_state = "Connected" /\ response -> "DataAvailable"
      [] connection_state = "Connected" /\ ~response /\ link = "fin"
             -> "StreamClosed"
      [] OTHER -> "none"

NextEvent ==
    /\ main = "polling" /\ Condition # "none"
    /\ event' = Condition
    /\ connection_state' =
           IF event' \in {"IoError", "StreamClosed"} THEN "Closed"
           ELSE "Connected"
    /\ main' = "handling"
    /\ UNCHANGED <<received_data, served, servertask, start, clienttask,
                   queued, link, response>>

\* Fault: the flag is not reset for the new connection.
ReceivedAsBefore == received_data

ReceivedOnReconnect == FALSE

\* ConnectedEvent, DataAvailableEvent and read
Proceed ==
    /\ main = "handling" /\ event \in {"Connected", "DataAvailable"}
    /\ main' = "polling"
    /\ IF event = "DataAvailable"
       THEN /\ response' = FALSE
            /\ received_data' = TRUE
            /\ served' = served + 1
       ELSE UNCHANGED <<response, received_data, served>>
    /\ UNCHANGED <<event, connection_state, servertask, start, clienttask,
                   queued, link>>

Reconnects == received_data

\* IoErrorEvent, StreamClosedEvent: reconnect after data, stop otherwise
ReconnectOrStop ==
    /\ main = "handling" /\ event \in {"IoError", "StreamClosed"}
    /\ IF Reconnects
       THEN Connect /\ received_data' = ReceivedOnReconnect
       ELSE /\ main' = "ended"
            /\ UNCHANGED <<connection_state, link, response, received_data>>
    /\ UNCHANGED <<event, served, servertask, start, clienttask, queued>>

ServerStep ==
    \/ Bind
    \/ SendStart
    \/ ClientConnected
    \/ Accept
    \/ AcceptFails
    \/ CountClient
    \/ ServerGivesUp
MainStep == Start \/ NextEvent \/ Proceed \/ ReconnectOrStop

Next == ServerStep \/ ClientTask \/ MainStep \/ Handshake \/ ListenerBreaks

Spec == Init /\ [][Next]_vars

\* Every task goes on, and the kernel answers.
FairSpec ==
    /\ Spec
    /\ WF_vars(ServerStep)
    /\ WF_vars(ClientTask)
    /\ WF_vars(MainStep)
    /\ WF_vars(Handshake)

-----------------------------------------------------------------------------
(* Properties                                                               *)

\* main stops only when all clients have got their response, although its
\* last connect meets a server that is about to close, has a connection in
\* its queue, or is closed; unless the listening socket broke or a system
\* call failed the server.
EveryClientIsServed ==
    main = "ended" =>
        \/ served = Clients
        \/ listener = "error" \/ server \in {"gave_up", "failed"}

\* main does not reconnect for ever, whenever the server goes away.
MainEnds == <>(main \in {"ended", "failed"})

\* The server comes to its end, unless the client fails half-way.
ServerEnds ==
    [](main # "failed") => <>(server \in {"ended", "gave_up", "failed"})
=============================================================================
