-------------------------- MODULE SyncChannelBench --------------------------
(***************************************************************************)
(* src/syncchannelbench.rs: two tasks play ping-pong over two channels,    *)
(* once with the blocking recv on both sides (lines 59-74) and once with   *)
(* an event queue on both sides (lines 81-114).                            *)
(*                                                                         *)
(* The module extends Channel for the channel of the replies (tx, rx), of  *)
(* which main is the receiver, and has a second instance for the channel   *)
(* of the requests (rtx, rrx), whose variables have the prefix r_ and      *)
(* whose receiver is the worker.  Main registers rx before it starts the   *)
(* worker; the worker registers rrx when it is scheduled, which may be     *)
(* after the first request.                                                *)
(***************************************************************************)
EXTENDS Channel

CONSTANT ITERATIONS

ASSUME BenchAssumption ==
    /\ ITERATIONS \in Nat \ {0}
    /\ MaxSent > ITERATIONS
    /\ ~PromptClient    \* main and worker decide when they call recv

VARIABLES
    r_queue, r_port_alive, r_nr_senders, r_receiver_notified, r_epoll_fd,
    r_eventfd, r_transmitters, r_rx, r_rx_thread, r_recv_call, r_fd_read,
    r_available_messages, r_sent, r_received, r_stream, r_taken, r_outcome,
    r_ready_events, r_loop, r_returned,
    with_events,     \* which of the two parts of the benchmark runs
    main,            \* "creating", "sending", "waiting", "handling", "leaving"
    worker,          \* "starting", "waiting", "taking", "replying", "leaving"
    nr_received,     \* requests main has sent and got an answer to
    nr_served        \* iterations of the worker

Requests == INSTANCE Channel WITH
    queue <- r_queue, port_alive <- r_port_alive,
    nr_senders <- r_nr_senders, receiver_notified <- r_receiver_notified,
    epoll_fd <- r_epoll_fd, eventfd <- r_eventfd,
    transmitters <- r_transmitters, rx <- r_rx, rx_thread <- r_rx_thread,
    recv_call <- r_recv_call, fd_read <- r_fd_read,
    available_messages <- r_available_messages, sent <- r_sent,
    received <- r_received, stream <- r_stream, taken <- r_taken,
    outcome <- r_outcome, ready_events <- r_ready_events, loop <- r_loop,
    returned <- r_returned

rvars == <<r_queue, r_port_alive, r_nr_senders, r_receiver_notified,
           r_epoll_fd, r_eventfd, r_transmitters, r_rx, r_rx_thread,
           r_recv_call, r_fd_read, r_available_messages, r_sent, r_received,
           r_stream, r_taken, r_outcome, r_ready_events, r_loop, r_returned>>
tasks == <<with_events, main, worker, nr_received, nr_served>>
allvars == <<vars, rvars, tasks>>

BenchInit ==
    /\ Init
    /\ Requests!Init
    /\ with_events \in BOOLEAN
    /\ main = IF with_events THEN "creating" ELSE "sending"
    /\ worker = IF with_events THEN "starting" ELSE "waiting"
    /\ nr_received = 0
    /\ nr_served = 0

-----------------------------------------------------------------------------
(* The main task                                                            *)

\* Channel::create(&ev_queue); then the worker is spawned.
CreateReceiver ==
    /\ main = "creating"
    /\ RegisterReceiver
    /\ main' = "sending"
    /\ UNCHANGED <<rvars, with_events, worker, nr_received, nr_served>>

\* rtx.send(0)
SendRequest ==
    /\ main = "sending"
    /\ \E h \in r_transmitters : Requests!TrySend(h)
    /\ main' = "waiting"
    /\ UNCHANGED <<vars, with_events, worker, nr_received, nr_served>>

AfterReply(count) ==
    /\ nr_received' = count
    /\ main' = IF count = ITERATIONS THEN "leaving" ELSE "sending"

\* rx.recv() of the blocking part
ReceiveReply ==
    /\ main = "waiting" /\ ~with_events
    /\ BlockingRecv \/ ResumeReceive
    /\ IF received' # received THEN AfterReply(nr_received + 1)
       ELSE UNCHANGED <<main, nr_received>>
    /\ UNCHANGED <<rvars, with_events, worker, nr_served>>

\* ev_queue.next_event() up to its return
WaitForReply ==
    /\ main = "waiting" /\ with_events
    /\ NextEvent \/ ReadEventfd \/ ProcessEpollEvents
    /\ main' = IF HandsOut THEN "handling" ELSE "waiting"
    /\ UNCHANGED <<rvars, with_events, worker, nr_received, nr_served>>

\* The match; after an event of another kind the loop would begin again, with
\* another request.
HandleEvent ==
    /\ main = "handling"
    /\ IF OriginatesFrom(returned, RxInfo)
          /\ returned.event_type = "ChannelMessage"
       THEN EventedRecv /\ AfterReply(nr_received + 1)
       ELSE main' = "sending" /\ UNCHANGED <<vars, nr_received>>
    /\ UNCHANGED <<rvars, with_events, worker, nr_served>>

\* rx and rtx go out of scope.
MainEnds ==
    /\ main = "leaving"
    /\ \/ (DropReceiver \/ DropBlockingReceiver) /\ UNCHANGED rvars
       \/ /\ \E h \in r_transmitters : Requests!DropTransmitter(h)
          /\ UNCHANGED vars
    /\ UNCHANGED tasks

-----------------------------------------------------------------------------
(* The worker                                                               *)

\* Receiver::from_blocking_receiver(rrx, &rev)
RegisterRequests ==
    /\ main # "creating" /\ worker = "starting"
    /\ Requests!RegisterReceiver
    /\ worker' = "waiting"
    /\ UNCHANGED <<vars, with_events, main, nr_received, nr_served>>

\* rrx.recv() of the blocking part
ReceiveRequest ==
    /\ worker = "waiting" /\ ~with_events
    /\ Requests!BlockingRecv \/ Requests!ResumeReceive
    /\ worker' = IF r_received' # r_received THEN "replying" ELSE "waiting"
    /\ UNCHANGED <<vars, with_events, main, nr_received, nr_served>>

\* rev.next_event() up to its return, whatever the event is
WaitForRequest ==
    /\ worker = "waiting" /\ with_events
    /\ Requests!NextEvent \/ Requests!ReadEventfd
         \/ Requests!ProcessEpollEvents
    /\ worker' = IF Requests!HandsOut THEN "taking" ELSE "waiting"
    /\ UNCHANGED <<vars, with_events, main, nr_received, nr_served>>

\* rselport.recv(), whose result nobody looks at
TakeRequest ==
    /\ worker = "taking"
    /\ Requests!EventedRecv
    /\ worker' = "replying"
    /\ UNCHANGED <<vars, with_events, main, nr_received, nr_served>>

\* tx.send(0); main is still there, for it waits for this reply.
SendReply ==
    /\ worker = "replying"
    /\ \E h \in transmitters : TrySend(h)
    /\ nr_served' = nr_served + 1
    /\ worker' = IF nr_served' = ITERATIONS THEN "leaving" ELSE "waiting"
    /\ UNCHANGED <<rvars, with_events, main, nr_received>>

\* rselport or rrx, and tx go out of scope.
WorkerEnds ==
    /\ worker = "leaving"
    /\ \/ /\ Requests!DropReceiver \/ Requests!DropBlockingReceiver
          /\ UNCHANGED vars
       \/ (\E h \in transmitters : DropTransmitter(h)) /\ UNCHANGED rvars
    /\ UNCHANGED tasks

-----------------------------------------------------------------------------

Main ==
    \/ CreateReceiver
    \/ SendRequest
    \/ ReceiveReply
    \/ WaitForReply
    \/ HandleEvent
    \/ MainEnds

Worker ==
    \/ RegisterRequests
    \/ ReceiveRequest
    \/ WaitForRequest
    \/ TakeRequest
    \/ SendReply
    \/ WorkerEnds

Wakeups ==
    /\ \/ SpuriousWakeup /\ UNCHANGED rvars
       \/ Requests!SpuriousWakeup /\ UNCHANGED vars
    /\ UNCHANGED tasks

BenchNext == Main \/ Worker \/ Wakeups

\* Both tasks are scheduled.
BenchSpec ==
    /\ BenchInit /\ [][BenchNext]_allvars
    /\ WF_allvars(Main)
    /\ WF_allvars(Worker)

-----------------------------------------------------------------------------

\* No request is taken twice and none is skipped, whoever is slower: at most
\* one message is on its way, in one of the two channels, and each side's
\* count of iterations is the other side's count of messages.
InLockstep ==
    /\ Len(r_queue) + Len(queue) <= 1
    /\ Len(received) = nr_received
    /\ Len(r_received) = nr_served + (IF worker = "replying" THEN 1 ELSE 0)
    /\ Len(r_sent) - nr_received \in {0, 1}

\* Both tasks come to their end; neither waits for a message that was sent
\* without waking it, the request that was queued before the worker
\* registered its receiver included.
BothTasksEnd ==
    <>(/\ rx = "dropped" /\ r_rx = "dropped"
       /\ nr_received = ITERATIONS /\ nr_served = ITERATIONS)
=============================================================================
