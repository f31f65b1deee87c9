------------------------------- MODULE TcpPair -------------------------------
(***************************************************************************)
(* Two TcpSockets of src/linux/tcp.rs at the ends of one connection, each  *)
(* in a task with an event loop of its own.  A connected socket is         *)
(* blocking, so write keeps its task until the kernels have taken the last *)
(* byte, and they hold only so many that the peer has not read.            *)
(*                                                                         *)
(* The single socket is the subject of module TcpSocket; here epoll_wait   *)
(* and the callback are one step, and the event a callback pushes is       *)
(* handed out in that step, since the list is empty while the task polls.  *)
(***************************************************************************)
EXTENDS Naturals

CONSTANTS
    Capacity,     \* bytes both kernels hold for one direction, at least one
    MaxWrite      \* bound: length of one write

VARIABLES
    connection_state, available_bytes,   \* per end
    task,       \* per end: "user" code, "polling", or "writing" in send
    unsent,     \* per end: bytes of the write the kernel has not taken
    partial,    \* per end: the kernel has taken some of them
    towards,    \* per end: bytes on the way to it, not read
    ended,      \* per end: the peer's FIN follows these bytes
    broken      \* per end: the peer's kernel has answered with a reset

vars == <<connection_state, available_bytes, task, unsent, partial, towards,
          ended, broken>>

Ends == {0, 1}
Peer(e) == 1 - e

TypeOK ==
    /\ connection_state \in [Ends -> {"Connected", "Closed"}]
    /\ available_bytes \in [Ends -> 0 .. Capacity]
    /\ task \in [Ends -> {"user", "polling", "writing"}]
    /\ unsent \in [Ends -> 0 .. MaxWrite]
    /\ partial \in [Ends -> BOOLEAN]
    /\ towards \in [Ends -> 0 .. Capacity]
    /\ ended \in [Ends -> BOOLEAN] /\ broken \in [Ends -> BOOLEAN]

\* One end has connected, the other was accepted; both block.
Init ==
    /\ connection_state = [e \in Ends |-> "Connected"]
    /\ available_bytes = [e \in Ends |-> 0]
    /\ task = [e \in Ends |-> "user"]
    /\ unsent = [e \in Ends |-> 0]
    /\ partial = [e \in Ends |-> FALSE]
    /\ towards = [e \in Ends |-> 0]
    /\ ended = [e \in Ends |-> FALSE]
    /\ broken = [e \in Ends |-> FALSE]

Connected(e) == connection_state[e] = "Connected"

Goes(e, place) == task' = [task EXCEPT ![e] = place]

\* close_socket.  The kernel sends a reset when received bytes are thrown
\* away with the descriptor, otherwise a FIN behind what has been written.
CloseSocket(e) ==
    /\ connection_state' = [connection_state EXCEPT ![e] = "Closed"]
    /\ IF towards[e] > 0
       THEN broken' = [broken EXCEPT ![Peer(e)] = TRUE] /\ UNCHANGED ended
       ELSE ended' = [ended EXCEPT ![Peer(e)] = TRUE] /\ UNCHANGED broken

StaysOpen == UNCHANGED <<connection_state, ended, broken>>

\* The network gives the connection up.
ConnectionBreaks ==
    /\ broken' = [e \in Ends |-> TRUE]
    /\ UNCHANGED <<connection_state, available_bytes, task, unsent, partial,
                   towards, ended>>

Close(e) ==
    /\ task[e] = "user" /\ Connected(e)
    /\ CloseSocket(e)
    /\ UNCHANGED <<available_bytes, task, unsent, partial, towards>>

(***************************************************************************)
(* The event loop                                                          *)
(***************************************************************************)

\* A client reads what it is told of before it asks for the next event, as
\* all programs of the repository do.
NextEvent(e) ==
    /\ task[e] = "user" /\ (Connected(e) => available_bytes[e] = 0)
    /\ Goes(e, "polling")
    /\ UNCHANGED <<connection_state, available_bytes, unsent, partial,
                   towards, ended, broken>>

\* Another source of the task has an event.
OtherSource(e) ==
    /\ task[e] = "polling"
    /\ Goes(e, "user")
    /\ UNCHANGED <<connection_state, available_bytes, unsent, partial,
                   towards, ended, broken>>

\* process_epoll_events: error, input, or the end of the stream
ProcessEpollEvents(e) ==
    /\ task[e] = "polling" /\ Connected(e)
    /\ broken[e] \/ towards[e] > 0 \/ ended[e]
    /\ IF broken[e] \/ towards[e] = 0
       THEN CloseSocket(e) /\ UNCHANGED available_bytes
       ELSE /\ available_bytes' = [available_bytes EXCEPT ![e] = towards[e]]
            /\ StaysOpen
    /\ Goes(e, "user")
    /\ UNCHANGED <<unsent, partial, towards>>

\* Fault: the client reads into a buffer of fixed size.
FixedBuffer(e) == 1 .. Capacity + 1

\* The client makes its buffer for the number of bytes announced.
BufferSizes(e) == 1 .. available_bytes[e]

\* TcpSocket::read
Read(e, len) ==
    /\ task[e] = "user" /\ Connected(e) /\ available_bytes[e] > 0
    /\ len \in BufferSizes(e)
    /\ LET bytes == IF len < towards[e] THEN len ELSE towards[e]
       IN  /\ towards' = [towards EXCEPT ![e] = @ - bytes]
           /\ available_bytes' = [available_bytes EXCEPT ![e] = @ - bytes]
    /\ StaysOpen
    /\ UNCHANGED <<task, unsent, partial>>

(***************************************************************************)
(* RawTcpSocket::write, called through TcpSocket::write                    *)
(***************************************************************************)

Write(e, len) ==
    /\ task[e] = "user" /\ Connected(e)
    /\ Goes(e, "writing")
    /\ unsent' = [unsent EXCEPT ![e] = len]
    /\ partial' = [partial EXCEPT ![e] = FALSE]
    /\ StaysOpen
    /\ UNCHANGED <<available_bytes, towards>>

\* The kernel takes bytes as long as it has room for them; a peer that is
\* gone answers them with a reset.
KernelTakes(e, bytes) ==
    /\ task[e] = "writing" /\ ~broken[e]
    /\ bytes \in 1 .. unsent[e]
    /\ unsent' = [unsent EXCEPT ![e] = @ - bytes]
    /\ partial' = [partial EXCEPT ![e] = TRUE]
    /\ IF Connected(Peer(e))
       THEN /\ towards[Peer(e)] + bytes <= Capacity
            /\ towards' = [towards EXCEPT ![Peer(e)] = @ + bytes]
            /\ UNCHANGED broken
       ELSE broken' = [broken EXCEPT ![e] = TRUE] /\ UNCHANGED towards
    /\ UNCHANGED <<connection_state, available_bytes, task, ended>>

\* Fault: send is called again, also for a connection that has failed.
ReturnsWhenComplete(e) == unsent[e] = 0

\* send returns when all is taken, or with what has been taken when the
\* connection breaks.
SendReturns(e) == unsent[e] = 0 \/ broken[e]

\* The write is over; a send that could not take a byte closes the socket.
WriteReturns(e) ==
    /\ task[e] = "writing" /\ SendReturns(e)
    /\ IF unsent[e] > 0 /\ ~partial[e] THEN CloseSocket(e) ELSE StaysOpen
    /\ Goes(e, "user")
    /\ unsent' = [unsent EXCEPT ![e] = 0]
    /\ UNCHANGED <<available_bytes, partial, towards>>

\* A signal makes send return with what has been taken; helpers::retry calls
\* it again when that is nothing.
Interrupted(e) ==
    /\ task[e] = "writing" /\ partial[e]
    /\ Goes(e, "user")
    /\ unsent' = [unsent EXCEPT ![e] = 0]
    /\ StaysOpen
    /\ UNCHANGED <<available_bytes, partial, towards>>

Next ==
    \/ ConnectionBreaks
    \/ \E e \in Ends :
        \/ Close(e)
        \/ NextEvent(e)
        \/ OtherSource(e)
        \/ ProcessEpollEvents(e)
        \/ \E len \in 1 .. Capacity + 1 : Read(e, len)
        \/ \E len \in 1 .. MaxWrite : Write(e, len) \/ KernelTakes(e, len)
        \/ WriteReturns(e)
        \/ Interrupted(e)

Spec == Init /\ [][Next]_vars

-----------------------------------------------------------------------------
(* Liveness                                                                 *)

\* Both tasks keep asking for events and read what they are told of; the
\* kernels take what there is room for.  The callback is reached although
\* other sources are busy: EverySourceIsServed of module EventLoop.
Fairness ==
    \A e \in Ends :
        /\ WF_vars(NextEvent(e))
        /\ SF_vars(ProcessEpollEvents(e))
        /\ WF_vars(Read(e, available_bytes[e]))
        /\ WF_vars(KernelTakes(e, 1))
        /\ WF_vars(WriteReturns(e))

FairSpec == Spec /\ Fairness

\* Each end waits in a write for room that only the other can make.
CrossedWrites ==
    \A e \in Ends : task[e] = "writing" /\ towards[e] = Capacity

\* README.md:6, "in a single task parallel": a task that writes gets back to
\* its other sources, also when the peer is slow, gives the connection up, or
\* the connection breaks while the write waits for room.  Only two ends that
\* write to each other more than the kernels hold wait for ever.
WritesReturn ==
    \A e \in Ends : []<>(task[e] # "writing") \/ <>[]CrossedWrites
=============================================================================
