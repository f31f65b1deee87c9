-------------------------- MODULE ChannelProperties --------------------------
(* What must be true of src/linux/channel.rs, stated over module Channel.   *)
EXTENDS Channel

\* Notifications on their way to the event receiver: writes the eventfd still
\* counts, plus a value the callback has read and not yet acted upon.
Pending == eventfd + fd_read

MessageEventsPushed == Cardinality(PositionsOf("ChannelMessage", stream))

ClosedAnnounced == PositionsOf("ChannelClosed", stream) # {}

-----------------------------------------------------------------------------
(* Safety                                                                   *)

\* A task asleep in mutex.wait() (BlockingReceiver::recv, recv_opt) has
\* nothing to wake up for: no message is queued and a transmitter that can
\* still signal it exists.  One flag, receiver_notified, decides in two
\* operations whether the signal is sent, and five others reset it.
NoLostWakeup ==
    rx_thread = "asleep" => queue = <<>> /\ nr_senders # 0

\* The tasks' event loop never sleeps on the channel's condition variable:
\* senders would write the eventfd and never signal it.
RecvDoesNotBlockTheLoop ==
    rx = "evented" => rx_thread \notin {"asleep", "woken"}

\* process_epoll_events throws away a notification whose value is not 1
\* (channel.rs:239), so two writes must never meet in the eventfd.
OneNotificationAtATime == Pending <= 1

\* The unsigned subtraction queue.len() - available_messages does not wrap
\* when the callback performs it.
NoUnderflow ==
    loop = "callback" => available_messages <= Len(queue)

\* Book-keeping of Receiver: the counter recv tests is the number of messages
\* announced and not yet taken, and that many messages are queued.  A client
\* that lets events pile up can falsify it, but only after the last
\* transmitter has gone.
AnnouncementsExact ==
    (rx = "evented" /\ (PromptClient \/ nr_senders # 0)) =>
        /\ available_messages = MessageEventsPushed - taken
        /\ available_messages <= Len(queue)

\* ChannelClosedEvent is pushed once, and no event follows it; a receiver that
\* was registered while a transmitter lived says "closed" only after it has
\* announced every message.
ClosedComesLast ==
    /\ \A i \in PositionsOf("ChannelClosed", stream) : i = Len(stream)
    /\ epoll_fd /\ ClosedAnnounced => Len(queue) <= available_messages

\* The safety side of DisconnectionAnnounced: when the last transmitter has
\* gone, the end has been announced or exactly one notification is under way
\* that will announce it, although DropTransmitter does not write when the flag
\* is up (channel.rs:340).
EndIsOnItsWay ==
    rx = "evented" /\ nr_senders = 0 /\ (epoll_fd \/ rx_thread = "running") =>
        ClosedAnnounced \/ Pending = 1

-----------------------------------------------------------------------------
(* The inductive invariant behind the safety properties: how the flag       *)
(* receiver_notified, the eventfd, the counter of the receiver and the queue *)
(* depend on one another.                                                   *)

\* The transmitters are counted.
SendersCounted == nr_senders = Cardinality(transmitters)

\* What the states of the receiving end and of its task allow each other.
ReceivingEnd ==
    /\ port_alive <=> rx # "dropped"
    /\ rx = "blocking" => available_messages = 0
    /\ rx_thread \in {"asleep", "woken"} =>
           rx = "blocking" /\ recv_call # "none"
    /\ loop # "user" => rx = "evented" /\ rx_thread = "running"

\* The descriptor exists only while the receiver is registered, and the
\* kernel's counter and the value read from it only while the descriptor does.
Descriptor ==
    /\ epoll_fd => rx = "evented"
    /\ ~epoll_fd => Pending = 0
    /\ loop = "callback" => epoll_fd /\ fd_read = 1
    /\ loop # "callback" => fd_read = 0

\* While a transmitter lives, a raised flag means that there is something for
\* the receiver to find.
FlagMeansQueued ==
    (port_alive /\ nr_senders # 0 /\ receiver_notified) => queue # <<>>

\* While a transmitter lives, the flag is raised exactly while a notification
\* is on its way, and then no announced message is left to take, so that
\* nothing but the callback can lower it.
FlagMeansPending ==
    (epoll_fd /\ nr_senders # 0) =>
        /\ Pending = IF receiver_notified THEN 1 ELSE 0
        /\ receiver_notified => available_messages = 0

\* What has been announced is there, as long as a notification may come.
AnnouncedIsQueued ==
    (rx = "evented" /\ (nr_senders # 0 \/ Pending # 0)) =>
        available_messages <= Len(queue)

Coordination ==
    /\ ReceivingEnd
    /\ Descriptor
    /\ FlagMeansQueued
    /\ FlagMeansPending
    /\ AnnouncedIsQueued
    /\ NoLostWakeup
    /\ OneNotificationAtATime

\* The inductive invariant as a whole.
NotificationProtocol == TypeOK /\ SendersCounted /\ Coordination

-----------------------------------------------------------------------------
(* Refinement                                                               *)

\* The channel is a FIFO channel.
Fifo == INSTANCE FifoChannel WITH
            Message <- Handles, buffer <- queue, senders <- nr_senders,
            alive <- port_alive

FifoSpec == Fifo!Spec

-----------------------------------------------------------------------------
(* Liveness                                                                 *)

\* A destructor that has begun runs to its end, and a failed task unwinds.
FinishDrop ==
    /\ rx = "closing" \/ rx_thread = "failed"
    /\ DropReceiver \/ DropBlockingReceiver

\* The receiving task is scheduled, gets the mutex when it is free, and keeps
\* serving its event loop.  Nothing is assumed of the transmitters: they may
\* stay silent for ever, or never be dropped.
ReceiverFairness ==
    /\ WF_vars(ResumeReceive)
    /\ WF_vars(FinishDrop)
    /\ WF_vars(ReadEventfd)
    /\ WF_vars(ProcessEpollEvents)
    /\ WF_vars(NextEvent)
    /\ WF_vars(EventedRecv)

FairSpec == Spec /\ ReceiverFairness

\* A task inside recv or recv_opt gets out once there is a message for it or
\* no transmitter is left.
BlockedRecvReturns ==
    (recv_call # "none" /\ (queue # <<>> \/ nr_senders = 0))
        ~> (recv_call = "none")

\* When the last transmitter of a registered receiver is dropped, the task
\* gets to know it, unless it gives up the receiver first.
DisconnectionAnnounced ==
    (epoll_fd /\ nr_senders = 0) ~> (ClosedAnnounced \/ ~epoll_fd)

\* A message queued behind a registered receiver is announced, unless the
\* task gives up the receiver first: README.md:7, "`revbio` is based on
\* `Events` that signal the new status of these objects."
EveryMessageAnnounced ==
    (epoll_fd /\ Len(queue) > available_messages)
        ~> (Len(queue) <= available_messages \/ ~epoll_fd)

\* channel.rs:171, "Don't need to do anything when there are 0 senders": a
\* receiver made from a channel whose transmitters are gone has nothing left
\* to announce but the end.
NothingLeftWithoutSenders ==
    (rx = "evented" /\ ClosedAnnounced) => Len(queue) <= available_messages
=============================================================================
