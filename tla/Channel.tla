------------------------------- MODULE Channel -------------------------------
(***************************************************************************)
(* src/linux/channel.rs: one channel, its transmitters, which live in any  *)
(* number of tasks, and its receiving end, which lives in one task and is  *)
(* first a BlockingReceiver and may be turned into a Receiver that         *)
(* announces messages through an event queue.                              *)
(*                                                                         *)
(* All fields of SharedChannelData are read and written between            *)
(* mutex.lock() and mutex.unlock(), so a locked section is one action.     *)
(* What happens outside a locked section is a step of its own: the sleep   *)
(* inside mutex.wait(), epoll_wait, the read of the eventfd that precedes  *)
(* the lock in process_epoll_events, and the gap between the two locked    *)
(* sections that dropping a Receiver runs through.                         *)
(*                                                                         *)
(* A message is identified by the transmitter handle that sent it.         *)
(***************************************************************************)
EXTENDS EventQueue, Integers, FiniteSets

CONSTANTS
    Handles,        \* Transmitter values that may exist, one after another
    RxInfo,         \* event_source_info of the Receiver
    MaxSent,        \* bound: messages accepted in one behaviour
    PromptClient    \* TRUE: the task calls recv once for each message event
                    \* before it asks for the next event, as all programs of
                    \* the repository do; FALSE: it calls in any order

ASSUME ChannelAssumption ==
    /\ IsFiniteSet(Handles)
    /\ RxInfo \in Sources
    /\ MaxSent \in Nat
    /\ PromptClient \in BOOLEAN

VARIABLES
    \* struct SharedChannelData; epoll_fd is TRUE when it holds a descriptor
    queue, port_alive, nr_senders, receiver_notified, epoll_fd,
    eventfd,             \* kernel: counter of that eventfd
    transmitters,        \* the Transmitter values that have not been dropped
    \* the receiving end and its task
    rx,                  \* "blocking", "evented", "closing", "dropped"
    rx_thread,           \* "running", "asleep", "woken", "failed"
    recv_call,           \* the call it sleeps in: "none", "recv", "recv_opt"
    fd_read,             \* value read from the eventfd by the callback
    available_messages,  \* field of struct Receiver
    \* history
    sent, received,      \* accepted messages, messages handed to the user
    stream,              \* events the receiver has pushed
    taken,               \* messages taken through Receiver::recv
    outcome              \* what the last receive call told its caller

shared == <<queue, port_alive, nr_senders, receiver_notified, epoll_fd>>
history == <<sent, received, stream, taken, outcome>>
vars == <<shared, eventfd, transmitters, rx, rx_thread, recv_call, fd_read,
          available_messages, history, eqvars>>

TypeOK ==
    /\ queue \in Seq(Handles)
    /\ port_alive \in BOOLEAN
    /\ nr_senders \in Nat
    /\ receiver_notified \in BOOLEAN
    /\ epoll_fd \in BOOLEAN
    /\ eventfd \in Nat
    /\ transmitters \in SUBSET Handles
    /\ rx \in {"blocking", "evented", "closing", "dropped"}
    /\ rx_thread \in {"running", "asleep", "woken", "failed"}
    /\ recv_call \in {"none", "recv", "recv_opt"}
    /\ fd_read \in Nat
    /\ available_messages \in Nat
    /\ sent \in Seq(Handles)
    /\ received \in Seq(Handles)
    /\ stream \in Seq(EventsOf({RxInfo}))
    /\ taken \in Nat
    /\ outcome \in {"none", "data", "empty", "disconnected"}
    /\ EventQueueTypeOK

\* Channel::create_blocking
Init ==
    /\ queue = <<>>
    /\ port_alive = TRUE
    /\ nr_senders = 1
    /\ receiver_notified = FALSE
    /\ epoll_fd = FALSE
    /\ eventfd = 0
    /\ \E h \in Handles : transmitters = {h}
    /\ rx = "blocking"
    /\ rx_thread = "running"
    /\ recv_call = "none"
    /\ fd_read = 0
    /\ available_messages = 0
    /\ sent = <<>>
    /\ received = <<>>
    /\ stream = <<>>
    /\ taken = 0
    /\ outcome = "none"
    /\ EventQueueInit

(***************************************************************************)
(* Transmitters                                                            *)
(***************************************************************************)

\* mutex.signal(): wakes a thread that is inside mutex.wait(), is lost
\* otherwise.
Signal == rx_thread' = IF rx_thread = "asleep" THEN "woken" ELSE rx_thread

\* The receiver is told through the eventfd when there is one, through the
\* condition variable otherwise.
NotifyReceiver ==
    /\ receiver_notified' = TRUE
    /\ \/ /\ epoll_fd
          /\ eventfd' = eventfd + 1
          /\ UNCHANGED rx_thread
       \/ /\ ~epoll_fd
          /\ Signal
          /\ UNCHANGED eventfd

LeaveReceiverAlone == UNCHANGED <<receiver_notified, eventfd, rx_thread>>

\* Fault: notify whenever no notification is under way.
SendNotifiesUnlessNotified(len) == ~receiver_notified

\* when a send that made the queue "len" long must notify the receiver
SendNotifies(len) == len = 1 /\ ~receiver_notified

\* Faults: the comparison turned round; forget the flag; think of the queued
\* messages only.
DropNotifiesForOthers(senders) == senders # 0 /\ ~receiver_notified
DropNotifiesAlways(senders) == senders = 0
DropNotifiesIfQueued(senders) ==
    senders = 0 /\ ~receiver_notified /\ queue # <<>>

\* when a drop that left "senders" transmitters must notify the receiver
DropNotifies(senders) == senders = 0 /\ ~receiver_notified

\* Transmitter::try_send, port alive; send is try_send without the answer
TrySend(h) ==
    /\ h \in transmitters
    /\ port_alive
    /\ Len(sent) < MaxSent
    /\ queue' = Append(queue, h)
    /\ sent' = Append(sent, h)
    /\ IF SendNotifies(Len(queue) + 1) THEN NotifyReceiver
       ELSE LeaveReceiverAlone
    /\ UNCHANGED <<port_alive, nr_senders, epoll_fd, transmitters, rx,
                   recv_call, fd_read, available_messages, received, stream,
                   taken, outcome, eqvars>>

\* Transmitter::try_send, port dead: answers false and changes nothing
TrySendRefused(h) ==
    /\ h \in transmitters
    /\ ~port_alive
    /\ UNCHANGED vars

\* Fault: the new handle is not counted.
CloneUncounted(h, new) ==
    /\ h \in transmitters
    /\ new \in Handles \ transmitters
    /\ transmitters' = transmitters \cup {new}
    /\ UNCHANGED <<shared, eventfd, rx, rx_thread, recv_call, fd_read,
                   available_messages, history, eqvars>>

\* Transmitter::clone, through a handle h that exists
CloneTransmitter(h, new) ==
    /\ h \in transmitters
    /\ new \in Handles \ transmitters
    /\ transmitters' = transmitters \cup {new}
    /\ nr_senders' = nr_senders + 1
    /\ UNCHANGED <<queue, port_alive, receiver_notified, epoll_fd, eventfd,
                   rx, rx_thread, recv_call, fd_read, available_messages,
                   history, eqvars>>

\* Transmitter::drop
DropTransmitter(h) ==
    /\ h \in transmitters
    /\ transmitters' = transmitters \ {h}
    /\ nr_senders' = nr_senders - 1
    /\ IF DropNotifies(nr_senders - 1) THEN NotifyReceiver
       ELSE LeaveReceiverAlone
    /\ UNCHANGED <<queue, port_alive, epoll_fd, rx, recv_call, fd_read,
                   available_messages, history, eqvars>>

(***************************************************************************)
(* BlockingReceiver                                                        *)
(***************************************************************************)

\* The task runs its own code and may call into the library.
InUserCode == loop = "user" /\ rx_thread = "running"

\* Fault: the flag is not reset.
NotifiedAsBefore == receiver_notified

\* value of receiver_notified once a message has been popped
NotifiedAfterPop == FALSE

\* One passage of recv or recv_opt through its locked section, entered
\* afresh or by returning from mutex.wait().
SleepInWait(call) ==
    /\ queue = <<>> /\ nr_senders # 0
    /\ rx_thread' = "asleep"
    /\ recv_call' = call
    /\ UNCHANGED <<queue, receiver_notified, received, available_messages,
                   taken, outcome>>

\* Receiver::recv counts a message down after BlockingReceiver::recv returns.
PopMessage ==
    /\ queue # <<>>
    /\ received' = Append(received, Head(queue))
    /\ queue' = Tail(queue)
    /\ receiver_notified' = NotifiedAfterPop
    /\ IF rx = "evented"
       THEN /\ available_messages' = available_messages - 1
            /\ taken' = taken + 1
       ELSE UNCHANGED <<available_messages, taken>>
    /\ outcome' = "data"

\* recv fails the task, recv_opt answers None.
AllSendersDead(call) ==
    /\ queue = <<>> /\ nr_senders = 0
    /\ rx_thread' = IF call = "recv" THEN "failed" ELSE "running"
    /\ receiver_notified' = IF call = "recv" THEN receiver_notified ELSE FALSE
    /\ outcome' = "disconnected"
    /\ UNCHANGED <<queue, received, available_messages, taken>>

ReceiveSection(call) ==
    /\ \/ SleepInWait(call)
       \/ PopMessage /\ rx_thread' = "running" /\ recv_call' = "none"
       \/ AllSendersDead(call) /\ recv_call' = "none"
    /\ UNCHANGED <<port_alive, nr_senders, epoll_fd, eventfd, transmitters,
                   rx, fd_read, sent, stream, eqvars>>

BlockingRecv ==
    InUserCode /\ rx = "blocking" /\ ReceiveSection("recv")

BlockingRecvOpt ==
    InUserCode /\ rx = "blocking" /\ ReceiveSection("recv_opt")

\* mutex.wait() returns with the mutex held again; the while loop tests its
\* condition once more.
ResumeReceive ==
    rx_thread = "woken" /\ ReceiveSection(recv_call)

\* A condition variable may return from a wait that nobody signalled.
SpuriousWakeup ==
    /\ rx_thread = "asleep"
    /\ rx_thread' = "woken"
    /\ UNCHANGED <<shared, eventfd, transmitters, rx, recv_call, fd_read,
                   available_messages, history, eqvars>>

\* Fault: the senders are looked at before the queue.
TryRecvSendersFirst ==
    /\ InUserCode /\ rx = "blocking"
    /\ \/ nr_senders # 0 /\ PopMessage
       \/ /\ queue = <<>> \/ nr_senders = 0
          /\ receiver_notified' = FALSE
          /\ outcome' = IF nr_senders = 0 THEN "disconnected" ELSE "empty"
          /\ UNCHANGED <<queue, received, available_messages, taken>>
    /\ UNCHANGED <<port_alive, nr_senders, epoll_fd, eventfd, transmitters,
                   rx, rx_thread, recv_call, fd_read, sent, stream, eqvars>>

\* BlockingReceiver::try_recv
TryRecv ==
    /\ InUserCode /\ rx = "blocking"
    /\ \/ PopMessage
       \/ /\ queue = <<>>
          /\ receiver_notified' = FALSE
          /\ outcome' = IF nr_senders = 0 THEN "disconnected" ELSE "empty"
          /\ UNCHANGED <<queue, received, available_messages, taken>>
    /\ UNCHANGED <<port_alive, nr_senders, epoll_fd, eventfd, transmitters,
                   rx, rx_thread, recv_call, fd_read, sent, stream, eqvars>>

(***************************************************************************)
(* Receiver                                                                *)
(***************************************************************************)

MessageEvent == NewEvent("ChannelMessage", RxInfo)
ClosedEvent == NewEvent("ChannelClosed", RxInfo)

\* Fault: the queue is not looked at.
RegisterReceiverUnnotified ==
    /\ InUserCode /\ rx = "blocking" /\ nr_senders # 0
    /\ rx' = "evented"
    /\ epoll_fd' = TRUE
    /\ eventfd' = 0
    /\ UNCHANGED <<queue, port_alive, nr_senders, receiver_notified,
                   transmitters, rx_thread, recv_call, fd_read,
                   available_messages, history, eqvars>>

\* Fault: what is queued is announced at once, and by the notification.
RegisterReceiverAnnouncing ==
    /\ InUserCode /\ rx = "blocking" /\ nr_senders # 0
    /\ rx' = "evented"
    /\ epoll_fd' = TRUE
    /\ IF queue # <<>>
       THEN eventfd' = 1 /\ receiver_notified' = TRUE /\ PushBack(MessageEvent)
       ELSE eventfd' = 0 /\ UNCHANGED <<receiver_notified, ready_events>>
    /\ UNCHANGED <<queue, port_alive, nr_senders, transmitters, rx_thread,
                   recv_call, fd_read, available_messages, history, loop,
                   returned>>

\* Receiver::from_blocking_receiver, the transmitters still alive: creates
\* the eventfd, registers it, and notifies itself of messages that are
\* already queued.  A new eventfd counts 0.
RegisterReceiver ==
    /\ InUserCode /\ rx = "blocking" /\ nr_senders # 0
    /\ rx' = "evented"
    /\ epoll_fd' = TRUE
    /\ IF queue # <<>> THEN eventfd' = 1 /\ receiver_notified' = TRUE
       ELSE eventfd' = 0 /\ UNCHANGED receiver_notified
    /\ UNCHANGED <<queue, port_alive, nr_senders, transmitters, rx_thread,
                   recv_call, fd_read, available_messages, history, eqvars>>

\* Receiver::from_blocking_receiver, no eventfd to be had: the task fails.
RegisterReceiverFails ==
    /\ InUserCode /\ rx = "blocking" /\ nr_senders # 0
    /\ rx' = "evented"
    /\ rx_thread' = "failed"
    /\ UNCHANGED <<shared, eventfd, transmitters, recv_call, fd_read,
                   available_messages, history, eqvars>>

\* Receiver::from_blocking_receiver, all transmitters dead
RegisterDeadReceiver ==
    /\ InUserCode /\ rx = "blocking" /\ nr_senders = 0
    /\ rx' = "evented"
    /\ PushBack(ClosedEvent)
    /\ stream' = Append(stream, ClosedEvent)
    /\ UNCHANGED <<shared, eventfd, transmitters, rx_thread, recv_call,
                   fd_read, available_messages, sent, received, taken,
                   outcome, loop, returned>>

\* message events the user has got and not yet answered with a recv
Unclaimed ==
    Cardinality(PositionsOf("ChannelMessage", stream))
        - Cardinality(PositionsOf("ChannelMessage", ready_events)) - taken

\* Receiver::recv: through BlockingReceiver::recv when a message is counted,
\* None otherwise
EventedRecv ==
    /\ InUserCode /\ rx = "evented"
    /\ PromptClient => Unclaimed > 0
    /\ \/ available_messages > 0 /\ ReceiveSection("recv")
       \/ /\ available_messages = 0
          /\ outcome' = "none"
          /\ UNCHANGED <<shared, eventfd, transmitters, rx, rx_thread,
                         recv_call, fd_read, available_messages, sent,
                         received, stream, taken, eqvars>>

\* EventQueue::next_event, up to its return or to epoll_wait.  The receiver
\* is the only source of this queue, so the task stops asking once it is gone
\* and the list is empty.
NextEvent ==
    /\ InUserCode
    /\ rx \in {"evented", "dropped"}
    /\ PromptClient /\ rx = "evented" => Unclaimed <= 0
    /\ \/ NextEventReady
       \/ rx = "evented" /\ NextEventPoll
    /\ UNCHANGED <<shared, eventfd, transmitters, rx, rx_thread, recv_call,
                   fd_read, available_messages, history>>

\* epoll_wait reports EPOLLIN on the eventfd and the callback reads it.  The
\* mutex is not held yet.
ReadEventfd ==
    /\ loop = "polling"
    /\ epoll_fd /\ eventfd > 0
    /\ fd_read' = eventfd
    /\ eventfd' = 0
    /\ loop' = "callback"
    /\ UNCHANGED <<shared, transmitters, rx, rx_thread, recv_call,
                   available_messages, history, ready_events, returned>>

\* messages process_epoll_events takes for new (uint arithmetic: the model is
\* faithful while this is not negative, which NoUnderflow states)
NewMessages == Len(queue) - available_messages

\* Fault: one message is counted for one notification.
CountOneMessage == available_messages + 1

\* process_epoll_events adds the whole queue to its counter.
CountMessages == available_messages + Len(queue)

\* Fault: the end is announced first.
ClosedFirst ==
    (IF nr_senders = 0 THEN <<ClosedEvent>> ELSE <<>>)
        \o Repeat(MessageEvent, NewMessages)

\* the events one notification is turned into
Announcements ==
    Repeat(MessageEvent, NewMessages)
        \o (IF nr_senders = 0 THEN <<ClosedEvent>> ELSE <<>>)

\* process_epoll_events, the locked section, and the return to next_event
ProcessEpollEvents ==
    /\ loop = "callback"
    /\ fd_read' = 0
    /\ IF fd_read = 1
       THEN /\ available_messages' = CountMessages
            /\ stream' = stream \o Announcements
            /\ receiver_notified' = FALSE
            /\ FinishPoll(Announcements)
       ELSE /\ FinishPoll(<<>>)
            /\ UNCHANGED <<available_messages, stream, receiver_notified>>
    /\ UNCHANGED <<queue, port_alive, nr_senders, epoll_fd, eventfd,
                   transmitters, rx, rx_thread, recv_call, sent, received,
                   taken, outcome>>

(***************************************************************************)
(* End of the receiving end, by going out of scope or by the unwinding of  *)
(* a failed task                                                           *)
(***************************************************************************)

\* Receiver::drop: closes the eventfd (which also takes it off epoll) and
\* invalidates its events.  The field "receiver" is dropped after it.
DropReceiver ==
    /\ loop = "user" /\ rx_thread \in {"running", "failed"}
    /\ rx = "evented"
    /\ rx' = "closing"
    /\ epoll_fd' = FALSE
    /\ eventfd' = 0
    /\ RemovePendingEvents(RxInfo)
    /\ UNCHANGED <<queue, port_alive, nr_senders, receiver_notified,
                   transmitters, rx_thread, recv_call, fd_read,
                   available_messages, history, loop, returned>>

\* BlockingReceiver::drop
DropBlockingReceiver ==
    /\ loop = "user" /\ rx_thread \in {"running", "failed"}
    /\ rx \in {"blocking", "closing"}
    /\ rx' = "dropped"
    /\ port_alive' = FALSE
    /\ queue' = <<>>
    /\ UNCHANGED <<nr_senders, receiver_notified, epoll_fd, eventfd,
                   transmitters, rx_thread, recv_call, fd_read,
                   available_messages, history, eqvars>>

Transmitters ==
    \E h \in Handles :
        \/ TrySend(h)
        \/ TrySendRefused(h)
        \/ \E new \in Handles : CloneTransmitter(h, new)
        \/ DropTransmitter(h)

Receiving ==
    \/ BlockingRecv
    \/ BlockingRecvOpt
    \/ ResumeReceive
    \/ SpuriousWakeup
    \/ TryRecv
    \/ RegisterReceiver
    \/ RegisterReceiverFails
    \/ RegisterDeadReceiver
    \/ EventedRecv
    \/ NextEvent
    \/ ReadEventfd
    \/ ProcessEpollEvents
    \/ DropReceiver
    \/ DropBlockingReceiver

Next == Transmitters \/ Receiving

Spec == Init /\ [][Next]_vars
=============================================================================
