---------------------------- MODULE ChannelBench ----------------------------
(***************************************************************************)
(* src/channelbench.rs: a worker task sends ITERATIONS messages without    *)
(* waiting and drops its transmitter; the main task takes them, once with  *)
(* the blocking recv (lines 55-66) and once with one recv for each message *)
(* event (lines 72-98).  The channel is the one of module Channel; its     *)
(* operations run when the program counters of the two tasks say so.       *)
(***************************************************************************)
EXTENDS ChannelProperties

CONSTANT ITERATIONS    \* at least 1, at most MaxSent

VARIABLES
    with_events,    \* which of the two parts of the benchmark runs
    main,           \* "creating", "receiving", "handling" an event, "leaving"
    to_send,        \* iterations the worker's loop has left
    nr_received     \* the counter of main

bench == <<with_events, main, to_send, nr_received>>

\* Channel::create_blocking; the worker is spawned with the transmitter, in
\* the part with events after the receiver has been registered.
BenchInit ==
    /\ Init
    /\ with_events \in BOOLEAN
    /\ main = IF with_events THEN "creating" ELSE "receiving"
    /\ to_send = ITERATIONS
    /\ nr_received = 0

\* Channel::create
CreateReceiver ==
    /\ main = "creating"
    /\ RegisterReceiver
    /\ main' = "receiving"
    /\ UNCHANGED <<with_events, to_send, nr_received>>

WorkerSends ==
    /\ main # "creating" /\ to_send > 0
    /\ \E h \in transmitters : TrySend(h)
    /\ to_send' = to_send - 1
    /\ UNCHANGED <<with_events, main, nr_received>>

\* The worker's closure ends and drops tx.
WorkerEnds ==
    /\ to_send = 0
    /\ \E h \in transmitters : DropTransmitter(h)
    /\ UNCHANGED bench

\* for _ in range(0, ITERATIONS) { rx.recv(); }
MainReceives ==
    /\ ~with_events /\ main = "receiving"
    /\ BlockingRecv \/ ResumeReceive
    /\ nr_received' = nr_received + (Len(received') - Len(received))
    /\ main' = IF nr_received' = ITERATIONS THEN "leaving" ELSE "receiving"
    /\ UNCHANGED <<with_events, to_send>>

\* next_event() up to its return, with the callback of the receiver
MainWaits ==
    /\ with_events /\ main = "receiving"
    /\ NextEvent \/ ReadEventfd \/ ProcessEpollEvents
    /\ main' = IF HandsOut THEN "handling" ELSE "receiving"
    /\ UNCHANGED <<with_events, to_send, nr_received>>

\* The match: a message event is answered with a recv, whose result nobody
\* looks at, and counted; any other event is ignored.
MainHandles ==
    /\ main = "handling"
    /\ IF OriginatesFrom(returned, RxInfo)
          /\ returned.event_type = "ChannelMessage"
       THEN EventedRecv /\ nr_received' = nr_received + 1
       ELSE UNCHANGED <<vars, nr_received>>
    /\ main' = IF nr_received' = ITERATIONS THEN "leaving" ELSE "receiving"
    /\ UNCHANGED <<with_events, to_send>>

\* rx goes out of scope.
MainEnds ==
    /\ main = "leaving"
    /\ DropReceiver \/ DropBlockingReceiver
    /\ UNCHANGED bench

Main ==
    \/ CreateReceiver
    \/ MainReceives
    \/ MainWaits
    \/ MainHandles
    \/ MainEnds

Worker == WorkerSends \/ WorkerEnds

BenchNext == Main \/ Worker \/ (SpuriousWakeup /\ UNCHANGED bench)

\* Both tasks are scheduled.
BenchSpec ==
    /\ BenchInit /\ [][BenchNext]_<<vars, bench>>
    /\ WF_<<vars, bench>>(Main)
    /\ WF_<<vars, bench>>(Worker)

-----------------------------------------------------------------------------

\* The benchmark counts events, and each of them had a message: the recv
\* after an event never comes back empty-handed and never takes two.
EveryEventHadAMessage == nr_received = Len(received)

\* The benchmark ends: the messages for which no notification was sent,
\* because the queue was not empty, are announced at the latest when the
\* worker drops its transmitter, and the blocking part misses no wake-up.
BenchEnds == <>(rx = "dropped" /\ nr_received = ITERATIONS)
=============================================================================
