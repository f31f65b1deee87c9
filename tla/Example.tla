------------------------------- MODULE Example -------------------------------
(***************************************************************************)
(* The task subtask of src/example.rs: an HTTP client that makes a few     *)
(* connections, one after the other, and a timer whose ticks decide        *)
(* whether to connect again or to stop.  Socket, timer and queue do what   *)
(* modules TcpSocket, Timer and EventLoop describe.                        *)
(***************************************************************************)
EXTENDS Integers

CONSTANT Iterations    \* initial value of iterations, at least one

VARIABLES
    subtask,                    \* "polling", "handling", "ended", "failed"
    event,                      \* the event it handles
    iterations, stream_alive,   \* local variables
    connection_state,           \* of socket
    link, data,                 \* kernel: connection, input not read
    unnoticed                   \* history: a write has closed the socket

locals == <<iterations, stream_alive>>
kernel == <<link, data>>
vars == <<subtask, event, locals, connection_state, kernel, unnoticed>>

Ending == {"IoError", "StreamClosed"}

TypeOK ==
    /\ subtask \in {"polling", "handling", "ended", "failed"}
    /\ event \in {"Timer", "Connected", "DataAvailable"} \cup Ending
    /\ iterations \in -1 .. Iterations
    /\ stream_alive \in BOOLEAN
    /\ connection_state \in {"Connecting", "Connected", "Closed"}
    /\ link \in {"handshake", "up", "fin", "reset"}
    /\ data \in BOOLEAN
    /\ unnoticed \in BOOLEAN

\* create, connect and start before the loop
Init ==
    /\ subtask = "polling" /\ event = "Timer"
    /\ iterations = Iterations /\ stream_alive = TRUE
    /\ connection_state = "Connecting"
    /\ link = "handshake" /\ data = FALSE
    /\ unnoticed = FALSE

(***************************************************************************)
(* The server and the network                                              *)
(***************************************************************************)

Answers ==
    /\ link = "handshake" /\ link' \in {"up", "reset"}
    /\ UNCHANGED <<subtask, event, locals, connection_state, data, unnoticed>>

Sends ==
    /\ link = "up" /\ connection_state # "Closed" /\ data' = TRUE
    /\ UNCHANGED <<subtask, event, locals, connection_state, link, unnoticed>>

Closes ==
    /\ link = "up" /\ link' = "fin"
    /\ UNCHANGED <<subtask, event, locals, connection_state, data, unnoticed>>

Breaks ==
    /\ link \in {"up", "fin"}
    /\ link' = "reset"
    /\ UNCHANGED <<subtask, event, locals, connection_state, data, unnoticed>>

(***************************************************************************)
(* subtask                                                                 *)
(***************************************************************************)

\* next_event returns a tick of sub_timer.
Tick ==
    /\ subtask = "polling"
    /\ subtask' = "handling" /\ event' = "Timer"
    /\ UNCHANGED <<locals, connection_state, kernel, unnoticed>>

\* next_event returns what the callback of the socket has pushed.
SocketEvent ==
    /\ subtask = "polling" /\ connection_state # "Closed"
    /\ \/ link = "reset" /\ event' = "IoError"
       \/ /\ connection_state = "Connecting" /\ link \in {"up", "fin"}
          /\ event' = "Connected"
       \/ /\ connection_state = "Connected" /\ link # "reset" /\ data
          /\ event' = "DataAvailable"
       \/ /\ connection_state = "Connected" /\ link = "fin" /\ ~data
          /\ event' = "StreamClosed"
    /\ subtask' = "handling"
    /\ connection_state' = IF event' \in Ending THEN "Closed" ELSE "Connected"
    /\ UNCHANGED <<locals, kernel, unnoticed>>

IterationsLeft == iterations > 0

\* A tick for a stream that is dead: connect again or stop.
OnTick ==
    /\ subtask = "handling" /\ event = "Timer"
    /\ \/ stream_alive /\ subtask' = "polling"
              /\ UNCHANGED <<stream_alive, connection_state, kernel>>
       \/ /\ ~stream_alive /\ IterationsLeft
          /\ \/ /\ subtask' = "polling" /\ stream_alive' = TRUE
                /\ connection_state' = "Connecting"
                /\ link' = "handshake" /\ data' = FALSE
             \/ /\ subtask' = "failed"
                /\ UNCHANGED <<stream_alive, connection_state, kernel>>
       \/ /\ ~stream_alive /\ ~IterationsLeft
          /\ subtask' = "ended" /\ connection_state' = "Closed"
          /\ UNCHANGED <<stream_alive, kernel>>
    /\ UNCHANGED <<event, iterations, unnoticed>>

\* ConnectedEvent: TcpSocket::write closes a socket whose connection is
\* broken; its result is ignored.
OnConnected ==
    /\ subtask = "handling" /\ event = "Connected"
    /\ stream_alive' = TRUE
    /\ iterations' = iterations - 1
    /\ connection_state' = IF link = "reset" THEN "Closed" ELSE "Connected"
    /\ unnoticed' = (unnoticed \/ link = "reset")
    /\ subtask' = "polling"
    /\ UNCHANGED <<event, kernel>>

\* DataAvailableEvent: read with a buffer for what was announced
OnData ==
    /\ subtask = "handling" /\ event = "DataAvailable"
    /\ data' = FALSE
    /\ subtask' = "polling"
    /\ UNCHANGED <<event, locals, connection_state, link, unnoticed>>

\* Fault: only the end of the stream counts as the end.
AliveAfterError == event = "IoError"

AliveAfterEnd == FALSE

\* IoErrorEvent, StreamClosedEvent
OnEnd ==
    /\ subtask = "handling" /\ event \in Ending
    /\ stream_alive' = AliveAfterEnd
    /\ iterations' = iterations - 1
    /\ subtask' = "polling"
    /\ UNCHANGED <<event, connection_state, kernel, unnoticed>>

OnEvent == OnTick \/ OnConnected \/ OnData \/ OnEnd

Next ==
    \/ Answers \/ Sends \/ Closes \/ Breaks
    \/ Tick \/ SocketEvent
    \/ OnEvent

Spec == Init /\ [][Next]_vars

\* The task goes on, its timer ticks, no source of its queue is starved
\* (EverySourceIsServed of module EventLoop), connects are answered, and the
\* server ends its connections and does not send for ever.
FairSpec ==
    /\ Spec
    /\ WF_vars(Answers) /\ WF_vars(Closes)
    /\ WF_vars(Tick) /\ SF_vars(SocketEvent)
    /\ WF_vars(OnEvent)

-----------------------------------------------------------------------------
(* Properties                                                               *)

\* What the client believes of its stream is true while it polls: it waits
\* for events only of a socket that will send some, and connects again only
\* in place of a socket that is closed.  The exception is a write into a
\* connection that broke after its ConnectedEvent: tcp.rs:328 closes the
\* socket without an event, and the client does not look at the result.
StreamAliveIsTrue ==
    subtask = "polling" =>
        (stream_alive <=> (connection_state # "Closed" \/ unnoticed))

\* README.md:7, "revbio is based on Events that signal the new status of
\* these objects": told of every end of a stream, the client comes to the end
\* of its iterations, with the same exception.
SubtaskEnds == <>(subtask \in {"ended", "failed"} \/ unnoticed)
=============================================================================
