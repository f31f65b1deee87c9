---------------------------- MODULE ChannelLock ----------------------------
(***************************************************************************)
(* src/linux/channel.rs at the level of the mutex: a task asks for it, is  *)
(* inside a locked section, and leaves it in one of several ways, among    *)
(* them failing.  A task that fails unwinds, and the destructors that run  *)
(* then ask for the same mutex.  Module Channel takes a locked section for *)
(* one step that succeeds; here system calls are refused inside it.        *)
(*                                                                         *)
(* The receiver's task owns the receiving end, every other task owns one   *)
(* transmitter.  Messages are counted, events are left out.                *)
(***************************************************************************)
EXTENDS Integers, FiniteSets

CONSTANTS
    Senders,     \* tasks with a transmitter
    Rx,          \* the task with the receiving end
    Nobody,      \* holder of a free mutex
    MaxSends,    \* bound: calls of try_send in one task
    Refusals     \* the calls the kernel may refuse

ASSUME ChannelLockAssumption ==
    /\ IsFiniteSet(Senders) /\ Senders # {}
    /\ Rx \notin Senders /\ Nobody \notin Senders \cup {Rx}
    /\ MaxSends \in Nat
    /\ Refusals \subseteq {"eventfd", "epoll_ctl", "write"}

VARIABLES
    holder,      \* the task that holds the mutex
    inside,      \* per task: its call has returned from lock()
    doing,       \* per task: the call it is in
    failure,     \* per task: why it fails, "none" while it does not
    queue, port_alive, nr_senders, receiver_notified,
    epoll_fd,    \* "none" (-1), or the state of the file it denotes
    eventfd,     \* kernel: counter of the eventfd
    evented,     \* the receiving end is a Receiver
    available_messages,
    sends        \* per sender: calls of try_send so far

lockvars == <<holder, inside>>
vars == <<lockvars, doing, failure, queue, port_alive, nr_senders,
          receiver_notified, epoll_fd, eventfd, evented, available_messages,
          sends>>

Tasks == Senders \cup {Rx}

LockingCalls == {"try_send", "drop_transmitter", "recv", "register",
                 "callback", "drop_receiver", "drop_blocking_receiver"}

TypeOK ==
    /\ holder \in Tasks \cup {Nobody}
    /\ inside \in [Tasks -> BOOLEAN]
    /\ doing \in [Tasks -> LockingCalls \cup {"user_code", "asleep", "gone"}]
    /\ failure \in [Tasks -> {"none", "disconnected", "bad_descriptor",
                              "refused", "not_registered"}]
    /\ queue \in Nat /\ eventfd \in Nat /\ available_messages \in Nat
    /\ port_alive \in BOOLEAN /\ receiver_notified \in BOOLEAN
    /\ evented \in BOOLEAN
    /\ nr_senders \in 0 .. Cardinality(Senders)
    /\ epoll_fd \in {"none", "open", "closed"}
    /\ sends \in [Senders -> 0 .. MaxSends]

\* create_blocking, and the transmitter cloned for each task
Init ==
    /\ holder = Nobody
    /\ inside = [t \in Tasks |-> FALSE]
    /\ doing = [t \in Tasks |-> "user_code"]
    /\ failure = [t \in Tasks |-> "none"]
    /\ queue = 0
    /\ port_alive = TRUE
    /\ nr_senders = Cardinality(Senders)
    /\ receiver_notified = FALSE
    /\ epoll_fd = "none"
    /\ eventfd = 0
    /\ evented = FALSE
    /\ available_messages = 0
    /\ sends = [s \in Senders |-> 0]

(***************************************************************************)
(* Up to the lock                                                          *)
(***************************************************************************)

\* A task calls an operation that begins with mutex.lock().
Enters(t, call) ==
    /\ doing[t] = "user_code"
    /\ doing' = [doing EXCEPT ![t] = call]
    /\ UNCHANGED <<lockvars, failure, queue, port_alive, nr_senders,
                   receiver_notified, epoll_fd, available_messages>>

CallTrySend(s) ==
    /\ sends[s] < MaxSends
    /\ sends' = [sends EXCEPT ![s] = @ + 1]
    /\ Enters(s, "try_send") /\ UNCHANGED <<eventfd, evented>>

CallDropTransmitter(s) ==
    Enters(s, "drop_transmitter") /\ UNCHANGED <<eventfd, evented, sends>>

\* Receiver::recv answers None at once when nothing is announced.
CallRecv ==
    /\ evented => available_messages > 0
    /\ Enters(Rx, "recv") /\ UNCHANGED <<eventfd, evented, sends>>

\* from_blocking_receiver: the Receiver exists before the mutex is locked.
CallRegister ==
    /\ ~evented
    /\ evented' = TRUE
    /\ Enters(Rx, "register") /\ UNCHANGED <<eventfd, sends>>

\* process_epoll_events reads the eventfd before it locks, and goes on with
\* the value 1 only.
CallCallback ==
    /\ epoll_fd = "open" /\ eventfd > 0
    /\ eventfd' = 0
    /\ Enters(Rx, IF eventfd = 1 THEN "callback" ELSE "user_code")
    /\ UNCHANGED <<evented, sends>>

CallDropReceiver ==
    /\ Enters(Rx, IF evented THEN "drop_receiver"
                  ELSE "drop_blocking_receiver")
    /\ UNCHANGED <<eventfd, evented, sends>>

\* mutex.lock() returns.  The mutex is not recursive.
Lock(t) ==
    /\ doing[t] \in LockingCalls /\ ~inside[t]
    /\ holder = Nobody
    /\ holder' = t
    /\ inside' = [inside EXCEPT ![t] = TRUE]
    /\ UNCHANGED <<doing, failure, queue, port_alive, nr_senders,
                   receiver_notified, epoll_fd, eventfd, evented,
                   available_messages, sends>>

(***************************************************************************)
(* Out of the locked section                                               *)
(***************************************************************************)

\* The task unlocks and goes on with "call".
Unlock(t, call) ==
    /\ holder' = Nobody
    /\ inside' = [inside EXCEPT ![t] = FALSE]
    /\ doing' = [doing EXCEPT ![t] = call]

\* the destructors of the receiving end, in the order they run
DropOfReceivingEnd ==
    IF evented THEN "drop_receiver" ELSE "drop_blocking_receiver"

\* fail! outside the mutex, with "call" the first destructor
UnlockAndFail(t, why, call) ==
    /\ Unlock(t, call)
    /\ failure' = [failure EXCEPT ![t] = why]

\* fail! inside it: the section is left, the mutex is not.
FailLocked(t, why, call) ==
    /\ inside' = [inside EXCEPT ![t] = FALSE]
    /\ doing' = [doing EXCEPT ![t] = call]
    /\ failure' = [failure EXCEPT ![t] = why]
    /\ UNCHANGED holder

\* Fault: the destructor runs once more on unwinding.
FailInDestructorAgain(t, why) ==
    /\ holder' = Nobody
    /\ inside' = [inside EXCEPT ![t] = FALSE]
    /\ failure' = [failure EXCEPT ![t] = why]
    /\ doing' = IF failure[t] = "none"
                THEN [doing EXCEPT ![t] = "drop_transmitter"]
                ELSE [u \in Tasks |-> "gone"]

\* A second failure while the first unwinds ends the process.
FailInDestructor(t, why) ==
    /\ holder' = Nobody
    /\ inside' = [inside EXCEPT ![t] = FALSE]
    /\ failure' = [failure EXCEPT ![t] = why]
    /\ doing' = IF failure[t] = "none" THEN [doing EXCEPT ![t] = "gone"]
                ELSE [u \in Tasks |-> "gone"]

(***************************************************************************)
(* Transmitters                                                            *)
(***************************************************************************)

NeedsWrite == epoll_fd # "none"

\* write(epoll_fd) answers -1.
WriteRefused == epoll_fd = "closed" \/ "write" \in Refusals
WhyRefused == IF epoll_fd = "closed" THEN "bad_descriptor" ELSE "refused"

\* The receiver is told, and the task t goes on with "call".
NotifyReceiver(t, call) ==
    /\ receiver_notified' = TRUE
    /\ UNCHANGED failure
    /\ \/ /\ NeedsWrite /\ epoll_fd = "open"
          /\ eventfd' = eventfd + 1
          /\ Unlock(t, call)
       \/ /\ ~NeedsWrite
          /\ holder' = Nobody
          /\ inside' = [inside EXCEPT ![t] = FALSE]
          /\ doing' = [doing EXCEPT
                         ![t] = call,
                         ![Rx] = IF @ = "asleep" THEN "recv" ELSE @]
          /\ UNCHANGED eventfd

LeaveReceiverAlone(t, call) ==
    Unlock(t, call) /\ UNCHANGED <<receiver_notified, eventfd, failure>>

\* Fault: the port is found dead, the mutex is kept.
RefusedKeepingLock(s) ==
    /\ ~port_alive
    /\ inside' = [inside EXCEPT ![s] = FALSE]
    /\ doing' = [doing EXCEPT ![s] = "user_code"]
    /\ UNCHANGED <<holder, queue, receiver_notified, eventfd, failure>>

PortDead(s) ==
    /\ ~port_alive
    /\ LeaveReceiverAlone(s, "user_code") /\ UNCHANGED queue

\* Transmitter::try_send.  The message stays queued when the write fails.
TrySend(s) ==
    /\ inside[s] /\ doing[s] = "try_send"
    /\ \/ PortDead(s)
       \/ /\ port_alive
          /\ queue' = queue + 1
          /\ IF queue = 0 /\ ~receiver_notified
             THEN \/ NotifyReceiver(s, "user_code")
                  \/ /\ NeedsWrite /\ WriteRefused
                     /\ UnlockAndFail(s, WhyRefused, "drop_transmitter")
                     /\ UNCHANGED <<receiver_notified, eventfd>>
             ELSE LeaveReceiverAlone(s, "user_code")
    /\ UNCHANGED <<port_alive, nr_senders, epoll_fd, evented,
                   available_messages, sends>>

\* Transmitter::drop
DropTransmitter(s) ==
    /\ inside[s] /\ doing[s] = "drop_transmitter"
    /\ nr_senders' = nr_senders - 1
    /\ IF nr_senders = 1 /\ ~receiver_notified
       THEN \/ NotifyReceiver(s, "gone")
            \/ /\ NeedsWrite /\ WriteRefused
               /\ FailInDestructor(s, WhyRefused)
               /\ UNCHANGED <<receiver_notified, eventfd>>
       ELSE LeaveReceiverAlone(s, "gone")
    /\ UNCHANGED <<queue, port_alive, epoll_fd, evented, available_messages,
                   sends>>

(***************************************************************************)
(* The receiving end                                                       *)
(***************************************************************************)

\* BlockingReceiver::recv, also on behalf of Receiver::recv.  mutex.wait()
\* lets the mutex go and asks for it again when it has been signalled.
Recv ==
    /\ inside[Rx] /\ doing[Rx] = "recv"
    /\ \/ /\ queue = 0 /\ nr_senders # 0
          /\ Unlock(Rx, "asleep")
          /\ UNCHANGED <<queue, receiver_notified, available_messages,
                         failure>>
       \/ /\ queue > 0
          /\ queue' = queue - 1
          /\ receiver_notified' = FALSE
          /\ available_messages' = available_messages - IF evented THEN 1
                                                        ELSE 0
          /\ Unlock(Rx, "user_code") /\ UNCHANGED failure
       \/ /\ queue = 0 /\ nr_senders = 0
          /\ UnlockAndFail(Rx, "disconnected", DropOfReceivingEnd)
          /\ UNCHANGED <<queue, receiver_notified, available_messages>>
    /\ UNCHANGED <<port_alive, nr_senders, epoll_fd, eventfd, evented, sends>>

\* Fault: the mutex is kept, as register_fd keeps it.
NoEventfdLocked ==
    /\ "eventfd" \in Refusals
    /\ FailLocked(Rx, "refused", "drop_receiver")
    /\ UNCHANGED <<epoll_fd, eventfd, receiver_notified>>

\* No eventfd to be had.
NoEventfd ==
    /\ "eventfd" \in Refusals
    /\ UnlockAndFail(Rx, "refused", "drop_receiver")
    /\ UNCHANGED <<epoll_fd, eventfd, receiver_notified>>

\* EventQueueImpl::register_fd fails the task that holds the mutex.
RegisterFdFails ==
    /\ "epoll_ctl" \in Refusals
    /\ epoll_fd' = "open"
    /\ FailLocked(Rx, "not_registered", "drop_receiver")
    /\ UNCHANGED <<eventfd, receiver_notified>>

\* The write for messages that are queued already is refused.
OwnWriteFails ==
    /\ "write" \in Refusals /\ queue > 0
    /\ epoll_fd' = "open"
    /\ UnlockAndFail(Rx, "refused", "drop_receiver")
    /\ UNCHANGED <<eventfd, receiver_notified>>

Registered ==
    /\ epoll_fd' = "open"
    /\ IF queue > 0 THEN eventfd' = 1 /\ receiver_notified' = TRUE
       ELSE UNCHANGED <<eventfd, receiver_notified>>
    /\ Unlock(Rx, "user_code") /\ UNCHANGED failure

\* Receiver::from_blocking_receiver
Register ==
    /\ inside[Rx] /\ doing[Rx] = "register"
    /\ \/ nr_senders # 0 /\ NoEventfd
       \/ nr_senders # 0 /\ RegisterFdFails
       \/ nr_senders # 0 /\ OwnWriteFails
       \/ nr_senders # 0 /\ Registered
       \/ /\ nr_senders = 0
          /\ LeaveReceiverAlone(Rx, "user_code") /\ UNCHANGED epoll_fd
    /\ UNCHANGED <<queue, port_alive, nr_senders, evented,
                   available_messages, sends>>

\* Receiver::process_epoll_events after the eventfd has been read
Callback ==
    /\ inside[Rx] /\ doing[Rx] = "callback"
    /\ available_messages' = available_messages + queue
    /\ receiver_notified' = FALSE
    /\ Unlock(Rx, "user_code")
    /\ UNCHANGED <<failure, queue, port_alive, nr_senders, epoll_fd, eventfd,
                   evented, sends>>

\* Fault: the closed descriptor stays in the shared data.
DropReceiverStale ==
    /\ inside[Rx] /\ doing[Rx] = "drop_receiver"
    /\ epoll_fd' = IF epoll_fd = "open" THEN "closed" ELSE epoll_fd
    /\ eventfd' = 0
    /\ Unlock(Rx, "drop_blocking_receiver")
    /\ UNCHANGED <<failure, queue, port_alive, nr_senders, receiver_notified,
                   evented, available_messages, sends>>

\* Receiver::drop, followed by the drop of its field
DropReceiver ==
    /\ inside[Rx] /\ doing[Rx] = "drop_receiver"
    /\ epoll_fd' = "none"
    /\ eventfd' = 0
    /\ Unlock(Rx, "drop_blocking_receiver")
    /\ UNCHANGED <<failure, queue, port_alive, nr_senders, receiver_notified,
                   evented, available_messages, sends>>

\* BlockingReceiver::drop
DropBlockingReceiver ==
    /\ inside[Rx] /\ doing[Rx] = "drop_blocking_receiver"
    /\ port_alive' = FALSE
    /\ queue' = 0
    /\ Unlock(Rx, "gone")
    /\ UNCHANGED <<failure, nr_senders, receiver_notified, epoll_fd, eventfd,
                   evented, available_messages, sends>>

(***************************************************************************)
(* Specification                                                           *)
(***************************************************************************)

ReceiverSection ==
    Recv \/ Register \/ Callback \/ DropReceiver \/ DropBlockingReceiver

SenderSection(s) == TrySend(s) \/ DropTransmitter(s)

Next ==
    \/ \E s \in Senders : \/ CallTrySend(s)
                          \/ CallDropTransmitter(s)
                          \/ SenderSection(s)
    \/ CallRecv \/ CallRegister \/ CallCallback \/ CallDropReceiver
    \/ ReceiverSection
    \/ \E t \in Tasks : Lock(t)

\* A free mutex is given to a task that asks for it, and a section ends.
FairSpec ==
    /\ Init /\ [][Next]_vars
    /\ \A t \in Tasks : WF_vars(Lock(t))
    /\ \A s \in Senders : WF_vars(SenderSection(s))
    /\ WF_vars(ReceiverSection)

(***************************************************************************)
(* Properties                                                              *)
(***************************************************************************)

\* A transmitter never notifies through the number of an eventfd that has
\* been closed, although the receiver closes it in one locked section and
\* declares the port dead in a later one ("Disable further events from
\* clients", channel.rs:282).
NoWriteAfterClose == \A t \in Tasks : failure[t] # "bad_descriptor"

\* register_fd has been refused, inside the locked section it is called from
\* (channel.rs:181): this failure leaves the mutex locked for ever, and the
\* destructor of the half made Receiver is the first to wait for it.
MutexLost == failure[Rx] = "not_registered"

\* The task that is inside a locked section holds the mutex, so no two are,
\* and a section is not left without releasing it, except by the failure that
\* loses it; after that nobody gets in.
MutualExclusion ==
    /\ \A t \in Tasks : inside[t] => holder = t /\ doing[t] \in LockingCalls
    /\ holder # Nobody => inside[holder] \/ MutexLost
    /\ MutexLost => holder = Rx /\ ~inside[Rx]

\* The receiver's task sleeps in recv only while nothing is queued and a
\* transmitter lives, whatever the kernel refuses, and never once it serves
\* an event queue.
NoLostWakeup ==
    doing[Rx] = "asleep" =>
        queue = 0 /\ nr_senders # 0 /\ port_alive /\ ~evented

\* Who does what: a task that fails runs destructors only, and the port is
\* dead when they have all run.
Roles ==
    /\ \A s \in Senders :
           doing[s] \in {"user_code", "try_send", "drop_transmitter", "gone"}
    /\ doing[Rx] \notin {"try_send", "drop_transmitter"}
    /\ failure[Rx] # "none" =>
           doing[Rx] \in {"drop_receiver", "drop_blocking_receiver", "gone"}
    /\ ~port_alive => doing[Rx] = "gone"

\* Every transmitter that has not been dropped is counted, those of failing
\* tasks included, until a failure inside a destructor ends the process.
Alive == {s \in Senders : doing[s] # "gone"}

TransmittersCounted ==
    nr_senders = Cardinality(Alive) \/ \A t \in Tasks : doing[t] = "gone"

\* The descriptor is there only for a Receiver and is never that of a file
\* already closed; recv is entered with a message announced.
Descriptor ==
    /\ epoll_fd # "closed"
    /\ epoll_fd = "open" => evented
    /\ epoll_fd = "none" => eventfd = 0 /\ doing[Rx] # "callback"
    /\ ~evented =>
           /\ available_messages = 0
           /\ doing[Rx] \notin {"register", "drop_receiver"}
    /\ doing[Rx] = "register" => epoll_fd = "none" /\ available_messages = 0
    /\ evented /\ doing[Rx] = "recv" => available_messages > 0

\* Notifications on their way to the event receiver, and what the flag says
\* about them.  A refused write leaves the two in step: the flag is raised
\* after the write.  Only a receiver whose own write was refused may have a
\* raised flag and no notification; it is being dropped.
Pending == eventfd + IF doing[Rx] = "callback" THEN 1 ELSE 0

Notification ==
    /\ port_alive /\ nr_senders # 0 /\ receiver_notified => queue > 0
    /\ epoll_fd = "open" /\ nr_senders # 0 =>
           Pending <= IF receiver_notified THEN 1 ELSE 0
    /\ epoll_fd = "open" /\ nr_senders # 0 /\ failure[Rx] = "none" =>
           (receiver_notified => Pending = 1 /\ available_messages = 0)
    /\ evented /\ port_alive /\ nr_senders # 0 => available_messages <= queue

\* The inductive invariant of the channel at this level.
LockProtocol ==
    /\ TypeOK
    /\ MutualExclusion
    /\ NoLostWakeup
    /\ Roles
    /\ TransmittersCounted
    /\ Descriptor
    /\ Notification

\* A task that has failed comes to its end, its destructors get the mutex:
\* after any failure but the one that loses it.
FailedTasksEnd ==
    \A t \in Tasks :
        failure[t] # "none" ~> (doing[t] = "gone" \/ MutexLost)

\* No transmitter is kept in try_send, whatever the receiving end does or
\* fails to do meanwhile, with the same exception.
SendsReturn ==
    \A s \in Senders :
        doing[s] = "try_send" ~> (doing[s] # "try_send" \/ MutexLost)
=============================================================================
