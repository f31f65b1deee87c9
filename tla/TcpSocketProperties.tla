------------------------- MODULE TcpSocketProperties -------------------------
(* What must be true of TcpSocket in src/linux/tcp.rs.                      *)
EXTENDS TcpSocket

Terminal == {"StreamClosed", "IoError"}

\* README.md:6, "in a single task parallel": a connected socket is blocking
\* (set_blocking(true) once connect is done), and yet read never puts the task
\* and its event loop to sleep.
ReadNeverBlocks == task # "blocked"

\* It does not as long as no recv has returned more than was announced, as
\* when the client's buffers are no larger than that, whatever the connection
\* does between the callback and the call; and the next callback sets right
\* what such a read has upset.
ExactReadsReturn == task = "blocked" => overread

\* The counter that read trusts is covered by the kernel's buffer, on the same
\* condition.
AnnouncedBytesAreThere ==
    (connection_state = "Connected" /\ ~overread) =>
        available_bytes <= rcvbuf

\* Events of one socket come in the order a client expects: at most one
\* Connected and before any data, and nothing after the end of the stream or
\* an error.
EventsInOrder ==
    /\ \A i \in 1 .. Len(announced) :
           /\ announced[i] = "Connected" => i = 1
           /\ announced[i] \in Terminal => i = Len(announced)
    /\ announced # <<>> /\ announced[Len(announced)] \in Terminal
           => connection_state = "Closed"

\* A client is told that the stream is closed only when it has read all data.
StreamClosedMeansDrained ==
    announced # <<>> /\ announced[Len(announced)] = "StreamClosed"
        => rcvbuf = 0

\* Whatever closes the socket - close, drop, a failed write, a failed read -
\* leaves none of its events valid in the list; an event that reports the end
\* never gets to wait there (tcp.rs:421-423, "There is no need to remove
\* pending events").
ClosedSocketIsSilent ==
    connection_state = "Closed" =>
        \A i \in 1 .. Len(ready_events) :
            OriginatesFrom(ready_events[i], SockInfo)
                => ~ready_events[i].is_valid

\* The safety side of ConnectIsAnswered and InputIsNoticed: what the client is
\* to be told next is a condition that epoll reports, because the entry asks
\* for what the state of the socket waits for (tcp.rs:498 modifies it).
ConditionsAreReported ==
    \/ connection_state = "Connecting" /\ link # "handshake"
    \/ connection_state = "Connected"
           /\ (rcvbuf > 0 \/ so_error \/ link \in {"fin", "reset"})
    => Reported # {}

\* And the callback turns it into an event, whatever happens on the network in
\* between: a level-triggered condition that it ignored would be reported again
\* at once, and keep the task busy for ever.
CallbacksAnnounce ==
    [][ProcessEpollEvents =>
           loop' = "user" /\ OriginatesFrom(returned', SockInfo)]_vars

-----------------------------------------------------------------------------
(* Liveness                                                                 *)

\* The client reads what it is told of, as the programs of the repository do.
ReadAnnounced == available_bytes > 0 /\ Read(available_bytes)

\* The task keeps asking for events and reading data, and epoll_wait, asked
\* for one event at a time, goes through its ready descriptors in turn (a
\* level-triggered entry is put back at the end of the list); a recv that
\* sleeps returns when there is something.  Nothing is assumed of the peer and
\* the network.
Fairness ==
    /\ WF_vars(NextEvent)
    /\ SF_vars(EpollWait)
    /\ WF_vars(ProcessEpollEvents)
    /\ SF_vars(ReadAnnounced)
    /\ WF_vars(\E len \in BufferSizes : ReadResumes(len))

FairSpec == Spec /\ Fairness

\* A connect that has an outcome is answered with an event, or given up.
ConnectIsAnswered ==
    (connection_state = "Connecting" /\ link # "handshake")
        ~> (announced # <<>> \/ connection_state = "Closed")

\* Received data is announced as long as the connection stands, and the end
\* of the connection is noticed.
InputIsNoticed ==
    /\ (connection_state = "Connected" /\ rcvbuf > available_bytes)
           ~> (rcvbuf <= available_bytes \/ connection_state = "Closed")
    /\ (connection_state = "Connected" /\ link \in {"fin", "reset"})
           ~> (connection_state = "Closed")
=============================================================================
