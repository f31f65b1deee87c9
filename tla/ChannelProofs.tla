---------------------------- MODULE ChannelProofs ----------------------------
(***************************************************************************)
(* Proofs about module Channel, for any set of transmitter handles, any    *)
(* bound on the accepted messages and both kinds of clients.               *)
(***************************************************************************)
EXTENDS ChannelProperties, EventQueueProofs, FiniteSetTheorems, TLAPS

-----------------------------------------------------------------------------
(* The events of the receiver                                               *)

\* The events of the receiver are events of its queue.
LEMMA ReceiverEvents ==
    /\ MessageEvent \in EventsOf({RxInfo})
    /\ ClosedEvent \in EventsOf({RxInfo})
    /\ EventsOf({RxInfo}) \subseteq EventsOf(Sources)
  BY ChannelAssumption DEF MessageEvent, ClosedEvent, NewEvent, EventsOf,
     EventKind

\* What one notification is turned into is a sequence of receiver's events.
LEMMA AnnouncementsAreEvents ==
    ASSUME NewMessages \in Nat
    PROVE  Announcements \in Seq(EventsOf({RxInfo}))
  <1>1. Repeat(MessageEvent, NewMessages) \in Seq(EventsOf({RxInfo}))
    BY RepeatIsSequence, ReceiverEvents
  <1>2. <<ClosedEvent>> \in Seq(EventsOf({RxInfo}))
    BY ReceiverEvents
  <1>3. <<>> \in Seq(EventsOf({RxInfo}))
    OBVIOUS
  <1>. DEFINE end == IF nr_senders = 0 THEN <<ClosedEvent>> ELSE <<>>
  <1>4. end \in Seq(EventsOf({RxInfo}))
    BY <1>2, <1>3
  <1>. HIDE DEF end
  <1>5. Repeat(MessageEvent, NewMessages) \o end \in Seq(EventsOf({RxInfo}))
    BY <1>1, <1>4
  <1>. QED
    BY <1>5 DEF Announcements, end

\* A list of the receiver's events is a list of events of the queue.
LEMMA ReceiverSequences ==
    ASSUME NEW events \in Seq(EventsOf({RxInfo}))
    PROVE  events \in Seq(EventsOf(Sources))
  <1>1. events \in [1 .. Len(events) -> EventsOf({RxInfo})] /\ Len(events) \in Nat
    OBVIOUS
  <1>2. events \in [1 .. Len(events) -> EventsOf(Sources)]
    BY <1>1, ReceiverEvents
  <1>. QED
    BY <1>1, <1>2

-----------------------------------------------------------------------------
(* Transmitters                                                             *)

\* The set of living transmitters is finite, and somebody who sends is
\* counted.
LEMMA SenderIsCounted ==
    ASSUME TypeOK, SendersCounted
    PROVE  /\ IsFiniteSet(transmitters)
           /\ \A h \in transmitters : nr_senders > 0
  <1>1. IsFiniteSet(transmitters)
    BY ChannelAssumption, FS_Subset DEF TypeOK
  <1>2. ASSUME NEW h \in transmitters
        PROVE  nr_senders > 0
    <2>1. Cardinality(transmitters) # 0
      BY <1>1, FS_EmptySet
    <2>. QED
      BY <2>1 DEF TypeOK, SendersCounted
  <1>. QED
    BY <1>1, <1>2

-----------------------------------------------------------------------------
(* Type correctness                                                         *)

\* What a transmitter writes when it notifies the receiver, or does not.
LEMMA NotificationType ==
    ASSUME TypeOK, NotifyReceiver \/ LeaveReceiverAlone
    PROVE  /\ eventfd' \in Nat
           /\ receiver_notified' \in BOOLEAN
           /\ rx_thread' \in {"running", "asleep", "woken", "failed"}
  <1>1. eventfd \in Nat /\ receiver_notified \in BOOLEAN
        /\ rx_thread \in {"running", "asleep", "woken", "failed"}
    BY DEF TypeOK
  <1>2. CASE NotifyReceiver
    <2>1. receiver_notified' \in BOOLEAN
      BY <1>2 DEF NotifyReceiver
    <2>2. CASE epoll_fd /\ eventfd' = eventfd + 1 /\ UNCHANGED rx_thread
      BY <1>1, <2>1, <2>2
    <2>3. CASE ~epoll_fd /\ Signal /\ UNCHANGED eventfd
      BY <1>1, <2>1, <2>3 DEF Signal
    <2>. QED
      BY <1>2, <2>2, <2>3 DEF NotifyReceiver
  <1>3. CASE LeaveReceiverAlone
    BY <1>1, <1>3 DEF LeaveReceiverAlone
  <1>. QED
    BY <1>2, <1>3

\* Every step keeps the types, given the protocol: the counters are natural
\* numbers because a sender that is dropped was counted, a message that is
\* taken was announced, and what has been announced is queued.
LEMMA TypeStep ==
    ASSUME NotificationProtocol, [Next]_vars
    PROVE  TypeOK'
  <1>0. TypeOK /\ SendersCounted /\ ReceivingEnd
    BY DEF NotificationProtocol, Coordination
  <1>1. ASSUME NEW h \in Handles, TrySend(h)
        PROVE  TypeOK'
    <2>1. queue' \in Seq(Handles) /\ sent' \in Seq(Handles)
      BY <1>0, <1>1 DEF TrySend, TypeOK
    <2>2. /\ eventfd' \in Nat
          /\ receiver_notified' \in BOOLEAN
          /\ rx_thread' \in {"running", "asleep", "woken", "failed"}
      <3>1. NotifyReceiver \/ LeaveReceiverAlone
        BY <1>1 DEF TrySend
      <3>. QED
        BY <1>0, <3>1, NotificationType
    <2>. QED
      BY <1>0, <1>1, <2>1, <2>2 DEF TrySend, TypeOK, EventQueueTypeOK, eqvars
  <1>2. ASSUME NEW h \in Handles, TrySendRefused(h)
        PROVE  TypeOK'
    BY <1>0, <1>2 DEF TypeOK, TrySendRefused, EventQueueTypeOK, eqvars, vars,
       shared, history
  <1>3. ASSUME NEW h \in Handles, NEW new \in Handles, CloneTransmitter(h, new)
        PROVE  TypeOK'
    BY <1>0, <1>3 DEF TypeOK, CloneTransmitter, EventQueueTypeOK, eqvars, history
  <1>4. ASSUME NEW h \in Handles, DropTransmitter(h)
        PROVE  TypeOK'
    <2>1. nr_senders - 1 \in Nat
      BY <1>0, <1>4, SenderIsCounted DEF DropTransmitter, TypeOK
    <2>2. /\ eventfd' \in Nat
          /\ receiver_notified' \in BOOLEAN
          /\ rx_thread' \in {"running", "asleep", "woken", "failed"}
      <3>1. NotifyReceiver \/ LeaveReceiverAlone
        BY <1>4 DEF DropTransmitter
      <3>. QED
        BY <1>0, <3>1, NotificationType
    <2>. QED
      BY <1>0, <1>4, <2>1, <2>2 DEF DropTransmitter, TypeOK, EventQueueTypeOK,
         eqvars, history
  <1>5. ASSUME NEW call \in {"recv", "recv_opt"}, ReceiveSection(call),
               rx = "evented" => available_messages > 0
        PROVE  TypeOK'
    <2>. USE DEF ReceiveSection, EventQueueTypeOK, eqvars, TypeOK
    <2>1. CASE SleepInWait(call)
      BY <1>0, <1>5, <2>1 DEF SleepInWait
    <2>2. CASE PopMessage /\ rx_thread' = "running" /\ recv_call' = "none"
      <3>1. queue' \in Seq(Handles) /\ received' \in Seq(Handles)
        BY <1>0, <2>2 DEF PopMessage
      <3>2. available_messages' \in Nat /\ taken' \in Nat
        BY <1>0, <1>5, <2>2 DEF PopMessage
      <3>. QED
        BY <1>0, <1>5, <2>2, <3>1, <3>2 DEF PopMessage, NotifiedAfterPop
    <2>3. CASE AllSendersDead(call) /\ recv_call' = "none"
      BY <1>0, <1>5, <2>3 DEF AllSendersDead
    <2>. QED
      BY <1>0, <1>5, <2>1, <2>2, <2>3
  <1>6. ASSUME BlockingRecv \/ BlockingRecvOpt
        PROVE  TypeOK'
    BY <1>0, <1>5, <1>6 DEF BlockingRecv, BlockingRecvOpt
  <1>7. ASSUME ResumeReceive
        PROVE  TypeOK'
    BY <1>0, <1>5, <1>7 DEF ResumeReceive, ReceivingEnd, TypeOK
  <1>8. ASSUME SpuriousWakeup
        PROVE  TypeOK'
    BY <1>0, <1>8 DEF SpuriousWakeup, TypeOK, shared, history, eqvars,
       EventQueueTypeOK
  <1>9. ASSUME TryRecv
        PROVE  TypeOK'
    <2>. USE DEF TryRecv, TypeOK, eqvars, EventQueueTypeOK
    <2>1. CASE PopMessage
      <3>1. queue' \in Seq(Handles) /\ received' \in Seq(Handles)
        BY <1>0, <2>1 DEF PopMessage
      <3>. QED
        BY <1>0, <1>9, <2>1, <3>1 DEF PopMessage, NotifiedAfterPop
    <2>2. CASE ~PopMessage
      <3>1. outcome' \in {"none", "data", "empty", "disconnected"}
        BY <1>9, <2>2
      <3>. QED
        BY <1>0, <1>9, <2>2, <3>1
    <2>. QED
      BY <2>1, <2>2
  <1>10. ASSUME RegisterReceiver
         PROVE  TypeOK'
    <2>1. eventfd' \in Nat
      BY <1>10 DEF RegisterReceiver
    <2>2. receiver_notified' \in BOOLEAN
      BY <1>0, <1>10, Zenon DEF RegisterReceiver, TypeOK
    <2>. QED
      BY <1>0, <1>10, <2>1, <2>2 DEF RegisterReceiver, TypeOK, history, eqvars,
         EventQueueTypeOK
  <1>11. ASSUME RegisterReceiverFails
         PROVE  TypeOK'
    BY <1>0, <1>11 DEF RegisterReceiverFails, TypeOK, shared, history, eqvars,
       EventQueueTypeOK
  <1>12. ASSUME RegisterDeadReceiver
         PROVE  TypeOK'
    <2>1. ready_events' \in Seq(EventsOf(Sources))
      <3>1. ready_events \in Seq(EventsOf(Sources))
        BY <1>0 DEF TypeOK, EventQueueTypeOK
      <3>2. ClosedEvent \in EventsOf(Sources)
        BY ReceiverEvents
      <3>. QED
        BY <1>12, <3>1, <3>2 DEF RegisterDeadReceiver, PushBack
    <2>2. stream' \in Seq(EventsOf({RxInfo}))
      BY <1>0, <1>12, ReceiverEvents DEF RegisterDeadReceiver, TypeOK
    <2>. QED
      BY <1>0, <1>12, <2>1, <2>2 DEF RegisterDeadReceiver, TypeOK, shared,
         EventQueueTypeOK
  <1>13. ASSUME EventedRecv
         PROVE  TypeOK'
    <2>1. CASE available_messages > 0 /\ ReceiveSection("recv")
      BY <1>0, <1>5, <2>1
    <2>2. CASE ~(available_messages > 0 /\ ReceiveSection("recv"))
      BY <1>0, <1>13, <2>2 DEF EventedRecv, TypeOK, shared, eqvars, EventQueueTypeOK
    <2>. QED
      BY <2>1, <2>2
  <1>14. ASSUME NextEvent
         PROVE  TypeOK'
    <2>1. EventQueueTypeOK'
      <3>1. EventQueueTypeOK
        BY <1>0 DEF TypeOK
      <3>. QED
        BY <1>14, <3>1, NextEventType DEF NextEvent
    <2>. QED
      BY <1>0, <1>14, <2>1 DEF NextEvent, TypeOK, shared, history
  <1>15. ASSUME ReadEventfd
         PROVE  TypeOK'
    BY <1>0, <1>15 DEF ReadEventfd, TypeOK, shared, history, EventQueueTypeOK
  <1>16. ASSUME ProcessEpollEvents
         PROVE  TypeOK'
    <2>1. NewMessages \in Nat
      BY <1>0, <1>16 DEF ProcessEpollEvents, NewMessages, AnnouncedIsQueued,
         NotificationProtocol, Coordination,
         Descriptor, ReceivingEnd, Pending, TypeOK
    <2>2. Announcements \in Seq(EventsOf({RxInfo}))
      BY <2>1, AnnouncementsAreEvents
    <2>3. EventQueueTypeOK
      BY <1>0 DEF TypeOK
    <2>4. EventQueueTypeOK'
      <3>1. CASE fd_read = 1
        BY <1>0, <1>16, <2>2, <2>3, <3>1, FinishPollType, ReceiverSequences
           DEF ProcessEpollEvents
      <3>2. CASE fd_read # 1
        BY <1>0, <1>16, <2>3, <3>2, FinishPollType, <<>> \in Seq(EventsOf(Sources))
           DEF ProcessEpollEvents
      <3>. QED
        BY <3>1, <3>2
    <2>5. stream' \in Seq(EventsOf({RxInfo}))
      <3>1. stream \o Announcements \in Seq(EventsOf({RxInfo}))
        BY <1>0, <2>2 DEF TypeOK
      <3>. QED
        BY <1>0, <1>16, <3>1 DEF ProcessEpollEvents, TypeOK
    <2>6. available_messages' \in Nat /\ fd_read' \in Nat
      BY <1>0, <1>16 DEF ProcessEpollEvents, CountMessages, TypeOK
    <2>7. receiver_notified' \in BOOLEAN
      BY <1>0, <1>16, Zenon DEF ProcessEpollEvents, TypeOK
    <2>. QED
      BY <1>0, <1>16, <2>4, <2>5, <2>6, <2>7 DEF ProcessEpollEvents, TypeOK
  <1>17. ASSUME DropReceiver
         PROVE  TypeOK'
    <2>1. ready_events' \in Seq(EventsOf(Sources))
      BY <1>0, <1>17, RemovePendingIsSequence DEF DropReceiver, RemovePendingEvents,
         TypeOK, EventQueueTypeOK
    <2>. QED
      BY <1>0, <1>17, <2>1 DEF DropReceiver, TypeOK, history, EventQueueTypeOK
  <1>18. ASSUME DropBlockingReceiver
         PROVE  TypeOK'
    <2>1. queue' \in Seq(Handles)
      BY <1>18 DEF DropBlockingReceiver
    <2>. QED
      BY <1>0, <1>18, <2>1 DEF DropBlockingReceiver, TypeOK, history, eqvars,
         EventQueueTypeOK
  <1>19. ASSUME UNCHANGED vars
         PROVE  TypeOK'
    BY <1>0, <1>19 DEF TypeOK, vars, shared, history, eqvars, EventQueueTypeOK
  <1>. QED
    BY <1>1, <1>2, <1>3, <1>4, <1>6, <1>7, <1>8, <1>9, <1>10, <1>11, <1>12,
       <1>13, <1>14, <1>15, <1>16, <1>17, <1>18, <1>19
       DEF Next, Transmitters, Receiving

-----------------------------------------------------------------------------
(* The notification protocol                                                *)

\* nr_senders stays the number of living transmitters (Transmitter::clone
\* and the destructor of Transmitter).
LEMMA CountingStep ==
    ASSUME TypeOK, SendersCounted, [Next]_vars
    PROVE  SendersCounted'
  <1>1. ASSUME NEW h \in Handles, NEW new \in Handles, CloneTransmitter(h, new)
        PROVE  SendersCounted'
    BY <1>1, SenderIsCounted, FS_AddElement
       DEF CloneTransmitter, SendersCounted
  <1>2. ASSUME NEW h \in Handles, DropTransmitter(h)
        PROVE  SendersCounted'
    BY <1>2, SenderIsCounted, FS_RemoveElement
       DEF DropTransmitter, SendersCounted
  <1>3. ASSUME UNCHANGED <<nr_senders, transmitters>>
        PROVE  SendersCounted'
    BY <1>3 DEF SendersCounted
  <1>4. ASSUME NEW h \in Handles, TrySend(h) \/ TrySendRefused(h)
        PROVE  SendersCounted'
    BY <1>3, <1>4 DEF TrySend, TrySendRefused, vars, shared
  <1>5. ASSUME Receiving \/ UNCHANGED vars
        PROVE  SendersCounted'
    BY <1>3, <1>5 DEF Receiving, BlockingRecv, BlockingRecvOpt, ResumeReceive,
       ReceiveSection, SpuriousWakeup, TryRecv, RegisterReceiver,
       RegisterReceiverFails, RegisterDeadReceiver, EventedRecv, NextEvent,
       ReadEventfd, ProcessEpollEvents, DropReceiver, DropBlockingReceiver,
       vars, shared
  <1>. QED
    BY <1>1, <1>2, <1>4, <1>5 DEF Next, Transmitters

\* The scalar part of the types, which is what the protocol needs.
LEMMA Scalars ==
    ASSUME TypeOK
    PROVE  /\ queue \in Seq(Handles) /\ Len(queue) \in Nat
           /\ nr_senders \in Nat /\ eventfd \in Nat /\ fd_read \in Nat
           /\ available_messages \in Nat
           /\ rx \in {"blocking", "evented", "closing", "dropped"}
           /\ loop \in {"user", "polling", "callback"}
           /\ rx_thread \in {"running", "asleep", "woken", "failed"}
           /\ recv_call \in {"none", "recv", "recv_opt"}
           /\ port_alive \in BOOLEAN /\ receiver_notified \in BOOLEAN
           /\ epoll_fd \in BOOLEAN
  BY DEF TypeOK, EventQueueTypeOK

\* A message that is sent: the flag is lowered exactly when nobody is on the
\* way to the receiver, and the receiver sleeps only while nothing is queued.
LEMMA TrySendStep ==
    ASSUME TypeOK, SendersCounted, Coordination, NEW h \in Handles, TrySend(h)
    PROVE  Coordination'
  <1>0. nr_senders > 0 /\ queue' \in Seq(Handles) /\ Len(queue') = Len(queue) + 1
    BY SenderIsCounted, Scalars DEF TrySend
  <1>1. queue' # <<>>
    BY <1>0, Scalars
  <1>. USE <1>0, <1>1, Scalars DEF TrySend, Coordination, eqvars
  <1>2. CASE NotifyReceiver /\ Len(queue) = 0 /\ ~receiver_notified
    <2>. USE <1>2 DEF NotifyReceiver, Signal
    <2>1. ReceivingEnd'
      BY DEF ReceivingEnd, NoLostWakeup
    <2>2. Descriptor' /\ OneNotificationAtATime'
      BY DEF Descriptor, OneNotificationAtATime, FlagMeansPending, Pending
    <2>3. FlagMeansQueued' /\ NoLostWakeup'
      BY DEF FlagMeansQueued, NoLostWakeup, ReceivingEnd, Descriptor
    <2>4. FlagMeansPending' /\ AnnouncedIsQueued'
      BY DEF FlagMeansPending, AnnouncedIsQueued, Descriptor, Pending
    <2>. QED
      BY <2>1, <2>2, <2>3, <2>4
  <1>3. CASE LeaveReceiverAlone /\ (Len(queue) # 0 \/ receiver_notified)
    <2>. USE <1>3 DEF LeaveReceiverAlone
    <2>1. ReceivingEnd' /\ Descriptor' /\ OneNotificationAtATime'
      BY DEF ReceivingEnd, Descriptor, OneNotificationAtATime, Pending
    <2>2. FlagMeansQueued' /\ NoLostWakeup'
      BY DEF FlagMeansQueued, NoLostWakeup
    <2>3. FlagMeansPending' /\ AnnouncedIsQueued'
      BY DEF FlagMeansPending, AnnouncedIsQueued, Pending
    <2>. QED
      BY <2>1, <2>2, <2>3
  <1>. QED
    BY <1>2, <1>3 DEF SendNotifies

\* A transmitter that is dropped.
LEMMA DropTransmitterStep ==
    ASSUME TypeOK, SendersCounted, Coordination, NEW h \in Handles,
           DropTransmitter(h)
    PROVE  Coordination'
  <1>0. nr_senders > 0
    BY SenderIsCounted DEF DropTransmitter
  <1>. USE <1>0, Scalars DEF DropTransmitter, Coordination, eqvars
  <1>1. CASE NotifyReceiver /\ nr_senders = 1 /\ ~receiver_notified
    <2>. USE <1>1 DEF NotifyReceiver, Signal
    <2>1. ReceivingEnd'
      BY DEF ReceivingEnd, NoLostWakeup
    <2>2. Descriptor' /\ OneNotificationAtATime'
      BY DEF Descriptor, OneNotificationAtATime, FlagMeansPending, Pending
    <2>3. FlagMeansQueued' /\ NoLostWakeup'
      BY DEF FlagMeansQueued, NoLostWakeup, ReceivingEnd, Descriptor
    <2>4. FlagMeansPending' /\ AnnouncedIsQueued'
      BY DEF FlagMeansPending, AnnouncedIsQueued, Descriptor, Pending
    <2>. QED
      BY <2>1, <2>2, <2>3, <2>4
  <1>2. CASE LeaveReceiverAlone /\ (nr_senders # 1 \/ receiver_notified)
    <2>. USE <1>2 DEF LeaveReceiverAlone
    <2>1. ReceivingEnd' /\ Descriptor' /\ OneNotificationAtATime'
      BY DEF ReceivingEnd, Descriptor, OneNotificationAtATime, Pending
    <2>2. FlagMeansQueued' /\ NoLostWakeup'
      BY DEF FlagMeansQueued, NoLostWakeup, ReceivingEnd
    <2>3. FlagMeansPending' /\ AnnouncedIsQueued'
      BY DEF FlagMeansPending, AnnouncedIsQueued, Pending
    <2>. QED
      BY <2>1, <2>2, <2>3
  <1>. QED
    BY <1>1, <1>2 DEF DropNotifies

\* One passage of recv or recv_opt through its locked section.  A receiver
\* registered at an event queue never gets to sleep there, because it enters
\* only with an announced message.
LEMMA ReceiveSectionStep ==
    ASSUME TypeOK, Coordination, NEW call \in {"recv", "recv_opt"},
           ReceiveSection(call), loop = "user",
           rx \in {"blocking", "evented"},
           rx = "evented" => available_messages > 0
    PROVE  Coordination'
  <1>. USE Scalars DEF ReceiveSection, Coordination, eqvars
  <1>1. CASE SleepInWait(call)
    <2>1. rx = "blocking"
      BY <1>1 DEF SleepInWait, AnnouncedIsQueued
    <2>2. ReceivingEnd' /\ NoLostWakeup' /\ FlagMeansQueued'
      BY <1>1, <2>1 DEF SleepInWait, ReceivingEnd, NoLostWakeup,
         FlagMeansQueued
    <2>3. Descriptor' /\ FlagMeansPending' /\ AnnouncedIsQueued'
          /\ OneNotificationAtATime'
      BY <1>1, <2>1 DEF SleepInWait, Descriptor, FlagMeansPending,
         AnnouncedIsQueued, OneNotificationAtATime, Pending
    <2>. QED
      BY <2>2, <2>3
  <1>2. CASE PopMessage /\ rx_thread' = "running" /\ recv_call' = "none"
    <2>. USE <1>2 DEF PopMessage, NotifiedAfterPop
    <2>1. queue' \in Seq(Handles) /\ Len(queue') = Len(queue) - 1
      OBVIOUS
    <2>2. ReceivingEnd' /\ NoLostWakeup' /\ FlagMeansQueued'
      BY DEF ReceivingEnd, NoLostWakeup, FlagMeansQueued
    <2>3. Descriptor' /\ OneNotificationAtATime'
      BY DEF Descriptor, OneNotificationAtATime, Pending
    <2>4. FlagMeansPending'
      BY DEF FlagMeansPending, Descriptor, Pending
    <2>5. AnnouncedIsQueued'
      BY <2>1 DEF AnnouncedIsQueued, Pending
    <2>. QED
      BY <2>2, <2>3, <2>4, <2>5
  <1>3. CASE AllSendersDead(call) /\ recv_call' = "none"
    <2>. USE <1>3 DEF AllSendersDead
    <2>1. ReceivingEnd' /\ NoLostWakeup' /\ FlagMeansQueued'
      BY DEF ReceivingEnd, NoLostWakeup, FlagMeansQueued
    <2>2. Descriptor' /\ OneNotificationAtATime'
      BY DEF Descriptor, OneNotificationAtATime, Pending
    <2>3. FlagMeansPending' /\ AnnouncedIsQueued'
      BY DEF FlagMeansPending, AnnouncedIsQueued, Pending
    <2>. QED
      BY <2>1, <2>2, <2>3
  <1>. QED
    BY <1>1, <1>2, <1>3

\* process_epoll_events in its locked section.  While a transmitter lives,
\* nothing announced is left when the callback runs, so that adding the whole
\* queue to the counter is right.
LEMMA ProcessEpollEventsStep ==
    ASSUME TypeOK, Coordination, ProcessEpollEvents
    PROVE  Coordination'
  <1>. USE Scalars DEF Coordination
  <1>1. /\ rx = "evented" /\ epoll_fd /\ fd_read = 1
        /\ rx_thread = "running" /\ eventfd = 0
    BY DEF ProcessEpollEvents, ReceivingEnd, Descriptor,
       OneNotificationAtATime, Pending
  <1>2. /\ fd_read' = 0
        /\ ~receiver_notified'
        /\ available_messages' = available_messages + Len(queue)
        /\ loop' \in {"user", "polling"}
        /\ UNCHANGED <<queue, port_alive, nr_senders, epoll_fd, eventfd, rx,
                       rx_thread, recv_call>>
    BY <1>1 DEF ProcessEpollEvents, FinishPoll, CountMessages
  <1>3. nr_senders # 0 => available_messages = 0
    BY <1>1 DEF FlagMeansPending, Pending
  <1>4. ReceivingEnd' /\ NoLostWakeup' /\ FlagMeansQueued'
    BY <1>1, <1>2 DEF ReceivingEnd, NoLostWakeup, FlagMeansQueued
  <1>5. Descriptor' /\ OneNotificationAtATime' /\ FlagMeansPending'
    BY <1>1, <1>2 DEF Descriptor, OneNotificationAtATime, FlagMeansPending,
       Pending
  <1>6. AnnouncedIsQueued'
    BY <1>1, <1>2, <1>3 DEF AnnouncedIsQueued, Pending
  <1>. QED
    BY <1>4, <1>5, <1>6

\* Every step keeps flag, eventfd, counter and queue coordinated.
LEMMA CoordinationStep ==
    ASSUME TypeOK, SendersCounted, Coordination, [Next]_vars
    PROVE  Coordination'
  <1>. USE Scalars
  <1>1. ASSUME NEW h \in Handles, TrySend(h)
        PROVE  Coordination'
    BY <1>1, TrySendStep
  <1>2. ASSUME NEW h \in Handles, DropTransmitter(h)
        PROVE  Coordination'
    BY <1>2, DropTransmitterStep
  <1>3. ASSUME BlockingRecv \/ BlockingRecvOpt
        PROVE  Coordination'
    BY <1>3, ReceiveSectionStep
       DEF BlockingRecv, BlockingRecvOpt, InUserCode
  <1>4. ASSUME ResumeReceive
        PROVE  Coordination'
    BY <1>4, ReceiveSectionStep
       DEF ResumeReceive, Coordination, ReceivingEnd
  <1>5. ASSUME EventedRecv, available_messages > 0, ReceiveSection("recv")
        PROVE  Coordination'
    BY <1>5, ReceiveSectionStep DEF EventedRecv, InUserCode
  <1>6. ASSUME ProcessEpollEvents
        PROVE  Coordination'
    BY <1>6, ProcessEpollEventsStep
  <1>. USE DEF Coordination, ReceivingEnd, Descriptor, FlagMeansQueued,
               FlagMeansPending, AnnouncedIsQueued, NoLostWakeup,
               OneNotificationAtATime, Pending
  <1>7. ASSUME NEW h \in Handles, NEW new \in Handles, CloneTransmitter(h, new)
        PROVE  Coordination'
    BY <1>7, SenderIsCounted DEF CloneTransmitter, eqvars
  <1>8. ASSUME SpuriousWakeup
        PROVE  Coordination'
    BY <1>8 DEF SpuriousWakeup, shared, eqvars
  <1>9. ASSUME TryRecv
        PROVE  Coordination'
    <2>1. CASE PopMessage
      BY <1>9, <2>1 DEF TryRecv, PopMessage, NotifiedAfterPop, InUserCode,
         eqvars
    <2>2. CASE queue = <<>> /\ receiver_notified' = FALSE
               /\ UNCHANGED <<queue, available_messages>>
      BY <1>9, <2>2 DEF TryRecv, InUserCode, eqvars
    <2>. QED
      BY <1>9, <2>1, <2>2 DEF TryRecv
  <1>10. ASSUME RegisterReceiver
         PROVE  Coordination'
    BY <1>10 DEF RegisterReceiver, InUserCode, eqvars
  <1>11. ASSUME RegisterReceiverFails
         PROVE  Coordination'
    BY <1>11 DEF RegisterReceiverFails, InUserCode, shared, eqvars
  <1>12. ASSUME RegisterDeadReceiver
         PROVE  Coordination'
    BY <1>12 DEF RegisterDeadReceiver, InUserCode, shared
  <1>13. ASSUME NextEvent
         PROVE  Coordination'
    <2>1. CASE NextEventReady
      BY <1>13, <2>1 DEF NextEvent, NextEventReady, shared
    <2>2. CASE rx = "evented" /\ NextEventPoll
      BY <1>13, <2>2 DEF NextEvent, NextEventPoll, InUserCode, shared
    <2>. QED
      BY <1>13, <2>1, <2>2 DEF NextEvent
  <1>14. ASSUME ReadEventfd
         PROVE  Coordination'
    BY <1>14 DEF ReadEventfd, shared
  <1>15. ASSUME DropReceiver
         PROVE  Coordination'
    BY <1>15 DEF DropReceiver
  <1>16. ASSUME DropBlockingReceiver
         PROVE  Coordination'
    BY <1>16 DEF DropBlockingReceiver, eqvars
  <1>17. ASSUME UNCHANGED <<shared, eventfd, rx, rx_thread, recv_call, fd_read,
                            available_messages, eqvars>>
         PROVE  Coordination'
    BY <1>17 DEF shared, eqvars
  <1>18. ASSUME UNCHANGED vars \/ (\E h \in Handles : TrySendRefused(h))
                \/ (EventedRecv /\ available_messages = 0)
         PROVE  Coordination'
    BY <1>17, <1>18 DEF TrySendRefused, EventedRecv, vars
  <1>. QED
    BY <1>1, <1>2, <1>3, <1>4, <1>5, <1>6, <1>7, <1>8, <1>9, <1>10, <1>11,
       <1>12, <1>13, <1>14, <1>15, <1>16, <1>18
       DEF Next, Transmitters, Receiving, EventedRecv

-----------------------------------------------------------------------------
(* Safety of the channel                                                    *)

\* The protocol holds when the channel is created (Channel::create_blocking).
LEMMA ProtocolInit ==
    Init => NotificationProtocol
  <1>. SUFFICES ASSUME Init PROVE NotificationProtocol
    OBVIOUS
  <1>. USE DEF Init, EventQueueInit
  <1>1. TypeOK
    <2>1. EventQueueTypeOK
      BY DEF EventQueueTypeOK
    <2>2. transmitters \in SUBSET Handles
      OBVIOUS
    <2>3. /\ queue \in Seq(Handles) /\ sent \in Seq(Handles)
          /\ received \in Seq(Handles)
      OBVIOUS
    <2>4. stream \in Seq(EventsOf({RxInfo}))
      OBVIOUS
    <2>. QED
      BY <2>1, <2>2, <2>3, <2>4 DEF TypeOK
  <1>2. SendersCounted
    BY FS_Singleton DEF SendersCounted
  <1>3. Coordination
    BY DEF Coordination, ReceivingEnd, Descriptor, FlagMeansQueued,
       FlagMeansPending, AnnouncedIsQueued, NoLostWakeup,
       OneNotificationAtATime, Pending
  <1>. QED
    BY <1>1, <1>2, <1>3 DEF NotificationProtocol

\* No step breaks the protocol.
LEMMA ProtocolStep ==
    ASSUME NotificationProtocol, [Next]_vars
    PROVE  NotificationProtocol'
  BY TypeStep, CountingStep, CoordinationStep DEF NotificationProtocol

\* Flag, eventfd, counter of the receiver, queue and the states of the
\* receiving task stay coordinated, whatever the tasks do in whatever order:
\* the inductive invariant of the channel.
THEOREM ProtocolCorrect ==
    Spec => []NotificationProtocol
  BY ProtocolInit, ProtocolStep, PTL DEF Spec

\* All variables keep their types; in particular no counter of
\* src/linux/channel.rs is ever decremented at zero.
THEOREM TypeCorrect ==
    Spec => []TypeOK
  <1>1. NotificationProtocol => TypeOK
    BY DEF NotificationProtocol
  <1>. QED
    BY <1>1, ProtocolCorrect, PTL

\* No wakeup is lost: a task asleep in recv or recv_opt has nothing to
\* receive, and somebody is left who can wake it up.
THEOREM WakeupsArrive ==
    Spec => []NoLostWakeup
  <1>1. NotificationProtocol => NoLostWakeup
    BY DEF NotificationProtocol, Coordination
  <1>. QED
    BY <1>1, ProtocolCorrect, PTL

\* Two notifications never meet in the eventfd, so process_epoll_events
\* throws none away.
THEOREM NotificationsStaySingle ==
    Spec => []OneNotificationAtATime
  <1>1. NotificationProtocol => OneNotificationAtATime
    BY DEF NotificationProtocol, Coordination
  <1>. QED
    BY <1>1, ProtocolCorrect, PTL

\* Receiver::recv never puts the event loop to sleep.
THEOREM LoopStaysAwake ==
    Spec => []RecvDoesNotBlockTheLoop
  <1>1. NotificationProtocol => RecvDoesNotBlockTheLoop
    BY DEF NotificationProtocol, Coordination, ReceivingEnd,
       RecvDoesNotBlockTheLoop
  <1>. QED
    BY <1>1, ProtocolCorrect, PTL

\* The subtraction in process_epoll_events does not wrap.
THEOREM SubtractionIsSafe ==
    Spec => []NoUnderflow
  <1>1. NotificationProtocol => NoUnderflow
    BY Scalars DEF NotificationProtocol, Coordination, ReceivingEnd,
       Descriptor, AnnouncedIsQueued, Pending, NoUnderflow
  <1>. QED
    BY <1>1, ProtocolCorrect, PTL

-----------------------------------------------------------------------------
(* The end of the channel is announced last                                 *)

\* The inductive invariant: once the end has been announced nobody is left who
\* could notify the receiver again.
EndIsLast ==
    /\ rx = "blocking" => stream = <<>>
    /\ \A i \in PositionsOf("ChannelClosed", stream) : i = Len(stream)
    /\ ClosedAnnounced => nr_senders = 0 /\ Pending = 0 /\ rx # "blocking"
    /\ epoll_fd /\ ClosedAnnounced => Len(queue) <= available_messages

\* The announcement of the end is the last of what one notification is turned
\* into, and is made when no transmitter is left (process_epoll_events).
LEMMA AnnouncementsEnd ==
    ASSUME NewMessages \in Nat, stream \in Seq(EventsOf({RxInfo})),
           ~ClosedAnnounced, nr_senders \in Nat,
           stream' = stream \o Announcements
    PROVE  /\ \A i \in PositionsOf("ChannelClosed", stream') : i = Len(stream')
           /\ nr_senders # 0 => PositionsOf("ChannelClosed", stream') = {}
  <1>. DEFINE messages == Repeat(MessageEvent, NewMessages)
              end == IF nr_senders = 0 THEN <<ClosedEvent>> ELSE <<>>
  <1>1. /\ messages \in Seq(EventsOf({RxInfo})) /\ Len(messages) = NewMessages
        /\ \A i \in 1 .. NewMessages : messages[i].event_type = "ChannelMessage"
    <2>1. messages \in Seq(EventsOf({RxInfo})) /\ Len(messages) = NewMessages
      BY RepeatIsSequence, ReceiverEvents
    <2>2. \A i \in 1 .. NewMessages : messages[i] = MessageEvent
      BY DEF Repeat
    <2>3. MessageEvent.event_type = "ChannelMessage"
      BY DEF MessageEvent, NewEvent
    <2>. QED
      BY <2>1, <2>2, <2>3
  <1>2. /\ end \in Seq(EventsOf({RxInfo}))
        /\ Len(end) \in {0, 1} /\ (nr_senders # 0 => Len(end) = 0)
    <2>1. CASE nr_senders = 0
      <3>1. end = <<ClosedEvent>>
        BY <2>1
      <3>. HIDE DEF end
      <3>. QED
        BY <2>1, <3>1, ReceiverEvents
    <2>2. CASE nr_senders # 0
      <3>1. end = <<>>
        BY <2>2
      <3>. HIDE DEF end
      <3>. QED
        BY <3>1
    <2>. QED
      BY <2>1, <2>2
  <1>3. \A i \in 1 .. Len(stream) : stream[i].event_type # "ChannelClosed"
    BY DEF ClosedAnnounced, PositionsOf
  <1>. HIDE DEF messages, end
  <1>4. stream' = stream \o (messages \o end)
    BY DEF Announcements, messages, end
  <1>5. /\ messages \o end \in Seq(EventsOf({RxInfo}))
        /\ Len(messages \o end) = NewMessages + Len(end)
        /\ \A i \in 1 .. NewMessages : (messages \o end)[i] = messages[i]
    BY <1>1, <1>2, ConcatElements
  <1>6. /\ Len(stream') = Len(stream) + (NewMessages + Len(end))
        /\ \A i \in 1 .. Len(stream) : stream'[i] = stream[i]
        /\ \A i \in 1 .. NewMessages : stream'[Len(stream) + i] = messages[i]
    <2>. DEFINE more == messages \o end
    <2>1. more \in Seq(EventsOf({RxInfo}))
          /\ Len(more) = NewMessages + Len(end)
          /\ \A i \in 1 .. NewMessages : i \in 1 .. Len(more)
                                             /\ more[i] = messages[i]
      BY <1>2, <1>5
    <2>2. stream' = stream \o more
      BY <1>4
    <2>. HIDE DEF more
    <2>3. /\ Len(stream \o more) = Len(stream) + Len(more)
          /\ \A i \in 1 .. Len(stream) : (stream \o more)[i] = stream[i]
          /\ \A i \in 1 .. Len(more) :
                 (stream \o more)[Len(stream) + i] = more[i]
      <3>. DEFINE S == EventsOf({RxInfo})
      <3>1. stream \in Seq(S) /\ more \in Seq(S)
        BY <2>1
      <3>. HIDE DEF S
      <3>. QED
        BY <3>1, ConcatElements
    <2>. QED
      BY <2>1, <2>2, <2>3
  <1>7. ASSUME NEW i \in 1 .. Len(stream) + NewMessages
        PROVE  stream'[i].event_type # "ChannelClosed"
    <2>1. CASE i \in 1 .. Len(stream)
      BY <1>3, <1>6, <2>1
    <2>2. CASE i \notin 1 .. Len(stream)
      <3>1. i - Len(stream) \in 1 .. NewMessages
            /\ i = Len(stream) + (i - Len(stream))
        BY <2>2
      <3>2. stream'[i] = messages[i - Len(stream)]
        BY <1>6, <3>1
      <3>. QED
        BY <1>1, <3>1, <3>2
    <2>. QED
      BY <2>1, <2>2
  <1>8. ASSUME NEW i \in PositionsOf("ChannelClosed", stream')
        PROVE  i = Len(stream') /\ nr_senders = 0
    <2>1. i \in 1 .. Len(stream') /\ stream'[i].event_type = "ChannelClosed"
      BY DEF PositionsOf
    <2>2. i \notin 1 .. Len(stream) + NewMessages
      BY <1>7, <2>1
    <2>. DEFINE n == Len(stream) + NewMessages
                m == Len(end)
    <2>3. n \in Nat /\ m \in {0, 1} /\ Len(stream') = n + m
      BY <1>2, <1>6
    <2>. HIDE DEF n, m
    <2>4. i \notin 1 .. n
      BY <2>2 DEF n
    <2>5. i = n + 1 /\ m = 1
      BY <2>1, <2>3, <2>4
    <2>. QED
      BY <1>2, <2>3, <2>5 DEF m
  <1>. QED
    BY <1>8

\* The event ChannelClosed is pushed once and nothing follows it, and a
\* receiver that was registered while a transmitter lived has announced every
\* message before.
THEOREM EndComesLast == Spec => []ClosedComesLast
  <1>1. Init => EndIsLast
    BY DEF Init, EndIsLast, ClosedAnnounced, PositionsOf
  <1>2. NotificationProtocol /\ EndIsLast /\ [Next]_vars => EndIsLast'
    <2>. SUFFICES ASSUME NotificationProtocol, EndIsLast, [Next]_vars
                  PROVE  EndIsLast'
      OBVIOUS
    <2>0. TypeOK /\ SendersCounted /\ Coordination
      BY DEF NotificationProtocol
    <2>s. stream \in Seq(EventsOf({RxInfo}))
      BY <2>0 DEF TypeOK
    <2>. USE <2>0, Scalars
    <2>u. ASSUME UNCHANGED stream
          PROVE  UNCHANGED <<PositionsOf("ChannelClosed", stream),
                             ClosedAnnounced>>
      BY <2>u DEF ClosedAnnounced
    <2>1. ASSUME NEW h \in Handles,
                 \/ TrySend(h) \/ DropTransmitter(h)
                 \/ \E new \in Handles : CloneTransmitter(h, new)
          PROVE  EndIsLast'
      <3>1. ~ClosedAnnounced
        BY <2>1, SenderIsCounted
           DEF TrySend, DropTransmitter, CloneTransmitter, EndIsLast
      <3>2. UNCHANGED <<stream, rx, epoll_fd>>
        BY <2>1 DEF TrySend, DropTransmitter, CloneTransmitter, history
      <3>. QED
        BY <2>u, <3>1, <3>2 DEF EndIsLast
    <2>2. ASSUME NEW call \in {"recv", "recv_opt"}, ReceiveSection(call),
                 rx \in {"blocking", "evented"},
                 rx = "evented" => available_messages > 0
          PROVE  EndIsLast'
      <3>1. UNCHANGED <<stream, rx, epoll_fd, nr_senders, Pending>>
        BY <2>2 DEF ReceiveSection, Pending
      <3>2. epoll_fd => rx = "evented"
        BY DEF Coordination, Descriptor
      <3>3. epoll_fd /\ Len(queue) <= available_messages
                => Len(queue') <= available_messages'
        <4>1. CASE UNCHANGED <<queue, available_messages>>
          BY <4>1
        <4>2. CASE PopMessage
          <5>1. Len(queue') = Len(queue) - 1
            BY <4>2 DEF PopMessage
          <5>2. rx = "evented" =>
                    available_messages' = available_messages - 1
            BY <4>2 DEF PopMessage
          <5>. QED
            BY <3>2, <5>1, <5>2
        <4>. QED
          BY <2>2, <4>1, <4>2
             DEF ReceiveSection, SleepInWait, AllSendersDead
      <3>. QED
        BY <2>u, <3>1, <3>3 DEF EndIsLast
    <2>3. ASSUME TryRecv
          PROVE  EndIsLast'
      <3>1. UNCHANGED <<stream, rx, epoll_fd, nr_senders, Pending>>
            /\ rx = "blocking"
        BY <2>3 DEF TryRecv, Pending
      <3>. QED
        BY <2>u, <3>1 DEF EndIsLast, Coordination, Descriptor
    <2>4. ASSUME RegisterReceiver \/ RegisterReceiverFails
          PROVE  EndIsLast'
      <3>1. stream = <<>> /\ stream' = stream
        BY <2>4 DEF RegisterReceiver, RegisterReceiverFails, history, EndIsLast
      <3>2. PositionsOf("ChannelClosed", stream') = {}
        BY <3>1 DEF PositionsOf
      <3>. QED
        BY <3>1, <3>2 DEF EndIsLast, ClosedAnnounced
    <2>5. ASSUME RegisterDeadReceiver
          PROVE  EndIsLast'
      <3>1. /\ rx = "blocking" /\ rx' = "evented" /\ nr_senders = 0
            /\ UNCHANGED <<nr_senders, epoll_fd, Pending>>
            /\ stream' = Append(stream, ClosedEvent)
        BY <2>5 DEF RegisterDeadReceiver, shared, Pending
      <3>2. ~epoll_fd /\ Pending = 0 /\ stream = <<>>
        BY <3>1 DEF Coordination, Descriptor, EndIsLast
      <3>3. Len(stream') = 1
        BY <3>1, <3>2
      <3>. QED
        BY <3>1, <3>2, <3>3 DEF EndIsLast, PositionsOf
    <2>6. ASSUME ProcessEpollEvents
          PROVE  EndIsLast'
      <3>1. /\ rx = "evented" /\ epoll_fd /\ fd_read = 1 /\ eventfd = 0
            /\ available_messages <= Len(queue)
        BY <2>6 DEF ProcessEpollEvents, Coordination, ReceivingEnd, Descriptor,
           OneNotificationAtATime, AnnouncedIsQueued, Pending
      <3>2. /\ Pending' = 0 /\ stream' = stream \o Announcements
            /\ available_messages' = available_messages + Len(queue)
            /\ UNCHANGED <<queue, nr_senders, rx, epoll_fd>>
        BY <2>6, <3>1 DEF ProcessEpollEvents, CountMessages, Pending
      <3>3. ~ClosedAnnounced /\ NewMessages \in Nat
        BY <3>1 DEF EndIsLast, Pending, NewMessages
      <3>4. /\ \A i \in PositionsOf("ChannelClosed", stream') :
                   i = Len(stream')
            /\ nr_senders # 0 => PositionsOf("ChannelClosed", stream') = {}
        BY <2>s, <3>2, <3>3, AnnouncementsEnd
      <3>. QED
        BY <3>1, <3>2, <3>4 DEF EndIsLast, ClosedAnnounced
    <2>7. ASSUME DropReceiver \/ DropBlockingReceiver
          PROVE  EndIsLast'
      <3>1. /\ UNCHANGED <<stream, nr_senders>> /\ ~epoll_fd'
            /\ Pending' = 0
            /\ rx' # "blocking" /\ (rx = "blocking" => stream = <<>>)
        BY <2>7 DEF DropReceiver, DropBlockingReceiver, history, Pending,
           Coordination, Descriptor, EndIsLast
      <3>2. stream = <<>> => PositionsOf("ChannelClosed", stream) = {}
        BY DEF PositionsOf
      <3>. QED
        BY <2>u, <3>1, <3>2 DEF EndIsLast, ClosedAnnounced
    <2>8. ASSUME UNCHANGED <<stream, rx, epoll_fd, nr_senders, Pending, queue,
                             available_messages>>
          PROVE  EndIsLast'
      BY <2>u, <2>8 DEF EndIsLast
    <2>9. ASSUME \/ SpuriousWakeup \/ NextEvent \/ ReadEventfd
                 \/ UNCHANGED vars
                 \/ \E h \in Handles : TrySendRefused(h)
                 \/ EventedRecv /\ available_messages = 0
          PROVE  EndIsLast'
      <3>1. UNCHANGED <<stream, rx, epoll_fd, nr_senders, Pending, queue,
                        available_messages>>
        BY <2>9 DEF SpuriousWakeup, NextEvent, ReadEventfd, TrySendRefused,
           EventedRecv, vars, shared, history, Pending, Coordination,
           Descriptor
      <3>. QED
        BY <2>8, <3>1
    <2>10. ASSUME BlockingRecv \/ BlockingRecvOpt \/ ResumeReceive
                  \/ (EventedRecv /\ available_messages # 0)
           PROVE  EndIsLast'
      BY <2>2, <2>10 DEF BlockingRecv, BlockingRecvOpt, ResumeReceive,
         EventedRecv, Coordination, ReceivingEnd
    <2>. QED
      BY <2>1, <2>3, <2>4, <2>5, <2>6, <2>7, <2>9, <2>10
         DEF Next, Transmitters, Receiving
  <1>3. EndIsLast => ClosedComesLast
    BY DEF EndIsLast, ClosedComesLast
  <1>. QED
    BY <1>1, <1>2, <1>3, ProtocolCorrect, PTL DEF Spec

-----------------------------------------------------------------------------
(* The news that everybody is gone is not lost                              *)

\* The inductive invariant: a registered receiver that is not about to be
\* unwound can be reached by the last transmitter, and has been if that one is
\* gone.
EndCanArrive ==
    rx = "evented" /\ (epoll_fd \/ rx_thread = "running") =>
        \/ nr_senders # 0 /\ epoll_fd
        \/ nr_senders = 0 /\ (ClosedAnnounced \/ Pending = 1)

\* When no transmitter is left a notification announces the end
\* (process_epoll_events).
LEMMA AnnouncementsSayClosed ==
    ASSUME stream \in Seq(EventsOf({RxInfo})), NewMessages \in Nat,
           nr_senders = 0
    PROVE  PositionsOf("ChannelClosed", stream \o Announcements) # {}
  <1>. DEFINE S == EventsOf({RxInfo})
              messages == Repeat(MessageEvent, NewMessages)
              end == <<ClosedEvent>>
              count(list) == Cardinality(PositionsOf("ChannelClosed", list))
  <1>1. /\ MessageEvent \in S /\ ClosedEvent \in S
        /\ MessageEvent.event_type = "ChannelMessage"
        /\ ClosedEvent.event_type = "ChannelClosed"
    BY ReceiverEvents DEF MessageEvent, ClosedEvent, NewEvent
  <1>2. messages \in Seq(S)
    BY <1>1, RepeatIsSequence
  <1>3. end \in Seq(S) /\ count(end) = 1
    BY <1>1, CountOfOne
  <1>4. Announcements = messages \o end
    BY DEF Announcements
  <1>. HIDE DEF messages, end
  <1>5. /\ messages \o end \in Seq(S)
        /\ count(messages \o end) = count(messages) + count(end)
    BY <1>2, <1>3, ConcatElements, CountOfConcat
  <1>6. count(stream \o (messages \o end))
            = count(stream) + count(messages \o end)
    BY <1>5, CountOfConcat
  <1>7. count(stream) \in Nat /\ count(messages) \in Nat
    BY <1>2, PositionsAreCounted
  <1>8. count(stream \o Announcements) # 0
    BY <1>3, <1>4, <1>5, <1>6, <1>7
  <1>. QED
    BY <1>8, FS_EmptySet

\* No step loses the news: DropTransmitter raises the eventfd or finds a
\* notification under way, and the callback announces the end when it runs.
LEMMA EndCanArriveStep ==
    ASSUME NotificationProtocol, EndCanArrive, [Next]_vars
    PROVE  EndCanArrive'
  <1>0. TypeOK /\ SendersCounted /\ Coordination
    BY DEF NotificationProtocol
  <1>. USE <1>0, Scalars
  <1>u. ASSUME UNCHANGED stream
        PROVE  UNCHANGED ClosedAnnounced
    BY <1>u DEF ClosedAnnounced
  <1>1. ASSUME NEW h \in Handles, TrySend(h)
        PROVE  EndCanArrive'
    <2>1. nr_senders # 0
          /\ UNCHANGED <<nr_senders, rx, epoll_fd>>
      BY <1>1, SenderIsCounted DEF TrySend
    <2>2. rx = "evented" => UNCHANGED rx_thread
      BY <1>1 DEF TrySend, NotifyReceiver, LeaveReceiverAlone, Signal,
         Coordination, ReceivingEnd
    <2>. QED
      BY <2>1, <2>2 DEF EndCanArrive
  <1>2. ASSUME NEW h \in Handles, NEW new \in Handles,
               CloneTransmitter(h, new)
        PROVE  EndCanArrive'
    <2>1. nr_senders # 0 /\ nr_senders' = nr_senders + 1
          /\ UNCHANGED <<rx, epoll_fd, rx_thread>>
      BY <1>2, SenderIsCounted DEF CloneTransmitter
    <2>. QED
      BY <2>1 DEF EndCanArrive
  <1>3. ASSUME NEW h \in Handles, DropTransmitter(h)
        PROVE  EndCanArrive'
    <2>1. nr_senders # 0 /\ nr_senders' = nr_senders - 1
          /\ UNCHANGED <<rx, epoll_fd, fd_read>>
      BY <1>3, SenderIsCounted DEF DropTransmitter
    <2>2. rx_thread' = "running" => rx_thread = "running"
      BY <1>3 DEF DropTransmitter, NotifyReceiver, LeaveReceiverAlone, Signal
    <2>3. rx = "evented" /\ (epoll_fd \/ rx_thread' = "running") => epoll_fd
      BY <2>1, <2>2 DEF EndCanArrive
    <2>4. ASSUME epoll_fd, nr_senders' = 0
          PROVE  Pending' = 1
      <3>1. Pending = IF receiver_notified THEN 1 ELSE 0
        BY <2>1, <2>4 DEF Coordination, FlagMeansPending
      <3>2. eventfd' = IF receiver_notified THEN eventfd ELSE eventfd + 1
        BY <1>3, <2>1, <2>4 DEF DropTransmitter, DropNotifies, NotifyReceiver,
           LeaveReceiverAlone
      <3>. QED
        BY <2>1, <3>1, <3>2 DEF Pending
    <2>. QED
      BY <2>1, <2>3, <2>4 DEF EndCanArrive
  <1>4. ASSUME NEW call \in {"recv", "recv_opt"}, ReceiveSection(call),
               rx \in {"blocking", "evented"},
               rx = "evented" => rx_thread = "running"
        PROVE  EndCanArrive'
    <2>1. UNCHANGED <<stream, rx, epoll_fd, nr_senders, Pending>>
      BY <1>4 DEF ReceiveSection, Pending
    <2>. QED
      BY <1>u, <1>4, <2>1 DEF EndCanArrive
  <1>5. ASSUME RegisterReceiver \/ RegisterReceiverFails
        PROVE  EndCanArrive'
    <2>1. CASE RegisterReceiver
      BY <2>1 DEF RegisterReceiver, EndCanArrive
    <2>2. CASE RegisterReceiverFails
      BY <2>2 DEF RegisterReceiverFails, EndCanArrive, Coordination,
         Descriptor, shared
    <2>. QED
      BY <1>5, <2>1, <2>2
  <1>6. ASSUME RegisterDeadReceiver
        PROVE  EndCanArrive'
    <2>1. nr_senders' = 0
      BY <1>6 DEF RegisterDeadReceiver, shared
    <2>2. /\ stream \in Seq(EventsOf({RxInfo}))
          /\ ClosedEvent \in EventsOf({RxInfo})
          /\ ClosedEvent.event_type = "ChannelClosed"
          /\ stream' = Append(stream, ClosedEvent)
      BY <1>6, ReceiverEvents
         DEF RegisterDeadReceiver, TypeOK, ClosedEvent, NewEvent
    <2>3. Len(stream) + 1 \in PositionsOf("ChannelClosed", stream')
      BY <2>2 DEF PositionsOf
    <2>. QED
      BY <2>1, <2>3 DEF EndCanArrive, ClosedAnnounced
  <1>7. ASSUME ProcessEpollEvents
        PROVE  EndCanArrive'
    <2>1. /\ rx = "evented" /\ epoll_fd /\ fd_read = 1 /\ eventfd = 0
          /\ available_messages <= Len(queue)
      BY <1>7 DEF ProcessEpollEvents, Coordination, ReceivingEnd, Descriptor,
         OneNotificationAtATime, AnnouncedIsQueued, Pending
    <2>2. /\ stream' = stream \o Announcements
          /\ UNCHANGED <<nr_senders, rx, epoll_fd>>
      BY <1>7, <2>1 DEF ProcessEpollEvents
    <2>3. NewMessages \in Nat /\ stream \in Seq(EventsOf({RxInfo}))
      BY <2>1 DEF NewMessages, TypeOK
    <2>4. nr_senders = 0 => ClosedAnnounced'
      BY <2>2, <2>3, AnnouncementsSayClosed DEF ClosedAnnounced
    <2>. QED
      BY <2>1, <2>2, <2>4 DEF EndCanArrive
  <1>8. ASSUME DropReceiver \/ DropBlockingReceiver
        PROVE  EndCanArrive'
    <2>1. rx' \in {"closing", "dropped"}
      BY <1>8 DEF DropReceiver, DropBlockingReceiver
    <2>. QED
      BY <2>1 DEF EndCanArrive
  <1>9. ASSUME \/ NextEvent \/ ReadEventfd \/ TryRecv
               \/ UNCHANGED vars
               \/ \E h \in Handles : TrySendRefused(h)
               \/ EventedRecv /\ available_messages = 0
        PROVE  EndCanArrive'
    <2>1. UNCHANGED <<stream, rx, epoll_fd, nr_senders, Pending, rx_thread>>
      BY <1>9 DEF NextEvent, ReadEventfd, TrySendRefused, TryRecv,
         EventedRecv, vars, shared, history, Pending, Coordination, Descriptor
    <2>. QED
      BY <1>u, <2>1 DEF EndCanArrive
  <1>10. ASSUME SpuriousWakeup
         PROVE  EndCanArrive'
    <2>1. rx' = "blocking"
      BY <1>10 DEF SpuriousWakeup, Coordination, ReceivingEnd
    <2>. QED
      BY <2>1 DEF EndCanArrive
  <1>11. ASSUME BlockingRecv \/ BlockingRecvOpt \/ ResumeReceive
                \/ (EventedRecv /\ available_messages # 0)
         PROVE  EndCanArrive'
    BY <1>4, <1>11 DEF BlockingRecv, BlockingRecvOpt, ResumeReceive,
       EventedRecv, InUserCode, Coordination, ReceivingEnd
  <1>. QED
    BY <1>1, <1>2, <1>3, <1>5, <1>6, <1>7, <1>8, <1>9, <1>10, <1>11
       DEF Next, Transmitters, Receiving

\* When the last transmitter has gone, the end has been announced or exactly
\* one notification is under way that will announce it (Transmitter::drop and
\* its flag test at channel.rs:340, process_epoll_events).
THEOREM EndIsNeverLost == Spec => []EndIsOnItsWay
  <1>1. Init => EndCanArrive
    BY DEF Init, EndCanArrive
  <1>2. EndCanArrive => EndIsOnItsWay
    BY DEF EndCanArrive, EndIsOnItsWay
  <1>. QED
    BY <1>1, <1>2, EndCanArriveStep, ProtocolCorrect, PTL DEF Spec

-----------------------------------------------------------------------------
(* The counter of announced messages is exact                               *)

\* The inductive invariant beside the notification protocol: events pushed
\* and messages taken account for the counter.  When the transmitters have
\* gone the protocol says no more that nothing announced is left when the
\* callback runs; a client that answers each event with one recv makes it so.
AnnouncementsClaimed ==
    /\ rx = "blocking" => stream = <<>> /\ taken = 0
    /\ rx = "evented" /\ (PromptClient \/ nr_senders # 0) =>
           available_messages = MessageEventsPushed - taken
    /\ rx = "evented" /\ PromptClient =>
           /\ available_messages <= Len(queue)
           /\ loop # "user" => available_messages = 0
    /\ NothingPendingInCallback

\* The number of message events a notification is turned into.
LEMMA AnnouncedMessages ==
    ASSUME stream \in Seq(EventsOf({RxInfo})), NewMessages \in Nat
    PROVE  Cardinality(PositionsOf("ChannelMessage", stream \o Announcements))
               = MessageEventsPushed + NewMessages
  <1>. DEFINE S == EventsOf({RxInfo})
              messages == Repeat(MessageEvent, NewMessages)
              end == IF nr_senders = 0 THEN <<ClosedEvent>> ELSE <<>>
              count(list) == Cardinality(PositionsOf("ChannelMessage", list))
  <1>1. /\ MessageEvent \in S /\ ClosedEvent \in S
        /\ MessageEvent.event_type = "ChannelMessage"
        /\ ClosedEvent.event_type = "ChannelClosed"
    BY ReceiverEvents DEF MessageEvent, ClosedEvent, NewEvent
  <1>2. messages \in Seq(S) /\ count(messages) = NewMessages
    BY <1>1, RepeatIsSequence, CountOfRepeat
  <1>3. end \in Seq(S) /\ count(end) = 0
    <2>1. CASE nr_senders = 0
      <3>1. end = <<ClosedEvent>>
        BY <2>1
      <3>2. count(<<ClosedEvent>>) = 0 /\ <<ClosedEvent>> \in Seq(S)
        BY <1>1, CountOfOne
      <3>. QED
        BY <3>1, <3>2
    <2>2. CASE nr_senders # 0
      <3>1. end = <<>>
        BY <2>2
      <3>. QED
        BY <3>1, CountOfNothing
    <2>. QED
      BY <2>1, <2>2
  <1>4. Announcements = messages \o end
    BY DEF Announcements
  <1>. HIDE DEF messages, end
  <1>5. /\ messages \o end \in Seq(S)
        /\ count(messages \o end) = count(messages) + count(end)
    BY <1>2, <1>3, ConcatElements, CountOfConcat
  <1>6. count(stream \o (messages \o end))
            = count(stream) + count(messages \o end)
    BY <1>5, CountOfConcat
  <1>7. count(stream) \in Nat
    BY PositionsAreCounted
  <1>. QED
    BY <1>2, <1>3, <1>4, <1>5, <1>6, <1>7 DEF MessageEventsPushed

\* A notification makes next_event return, unless there is nothing new to
\* announce and the list stays empty: all announcements are valid events.
LEMMA AnnouncementsLeaveNothing ==
    ASSUME NothingPendingInCallback, loop = "callback", NewMessages \in Nat,
           FinishPoll(Announcements)
    PROVE  loop' = "user" \/ (NewMessages = 0 /\ ready_events' = <<>>)
  <1>1. ready_events = <<>>
    BY DEF NothingPendingInCallback
  <1>2. /\ Announcements \in Seq(EventsOf({RxInfo}))
        /\ <<>> \o Announcements = Announcements
    BY AnnouncementsAreEvents
  <1>3. CASE Announcements = <<>>
    <2>1. NewMessages = 0
      <3>. DEFINE messages == Repeat(MessageEvent, NewMessages)
                  end == IF nr_senders = 0 THEN <<ClosedEvent>> ELSE <<>>
      <3>1. /\ messages \in Seq(EventsOf({RxInfo}))
            /\ Len(messages) = NewMessages
        BY RepeatIsSequence, ReceiverEvents
      <3>2. end \in Seq(EventsOf({RxInfo}))
        <4>1. /\ <<ClosedEvent>> \in Seq(EventsOf({RxInfo}))
              /\ <<>> \in Seq(EventsOf({RxInfo}))
          BY ReceiverEvents
        <4>. QED
          BY <4>1
      <3>3. Announcements = messages \o end
        BY DEF Announcements
      <3>. HIDE DEF messages, end
      <3>4. Len(messages \o end) = Len(messages) + Len(end)
        BY <3>1, <3>2, ConcatElements
      <3>. QED
        BY <1>3, <3>1, <3>2, <3>3, <3>4
    <2>. QED
      BY <1>1, <1>3, <2>1 DEF FinishPoll
  <1>4. CASE Announcements # <<>>
    <2>1. Announcements[1].is_valid
      <3>. DEFINE messages == Repeat(MessageEvent, NewMessages)
                  end == IF nr_senders = 0 THEN <<ClosedEvent>> ELSE <<>>
      <3>1. MessageEvent.is_valid /\ ClosedEvent.is_valid
        BY DEF MessageEvent, ClosedEvent, NewEvent
      <3>2. CASE NewMessages > 0
        <4>1. messages[1] = MessageEvent
          BY <3>2 DEF Repeat
        <4>2. /\ messages \in Seq(EventsOf({RxInfo}))
              /\ Len(messages) = NewMessages
          BY RepeatIsSequence, ReceiverEvents
        <4>3. end \in Seq(EventsOf({RxInfo}))
          <5>1. /\ <<ClosedEvent>> \in Seq(EventsOf({RxInfo}))
                /\ <<>> \in Seq(EventsOf({RxInfo}))
            BY ReceiverEvents
          <5>. QED
            BY <5>1
        <4>. HIDE DEF messages, end
        <4>4. (messages \o end)[1] = messages[1]
          BY <3>2, <4>2, <4>3, ConcatElements
        <4>5. Announcements = messages \o end
          BY DEF Announcements, messages, end
        <4>. QED
          BY <3>1, <4>1, <4>4, <4>5
      <3>3. CASE NewMessages = 0
        <4>1. messages = <<>>
          BY <3>3 DEF Repeat
        <4>2. Announcements = end
          BY <4>1 DEF Announcements
        <4>. QED
          BY <1>4, <3>1, <4>2
      <3>. QED
        BY <3>2, <3>3
    <2>. QED
      BY <1>1, <1>2, <1>4, <2>1 DEF FinishPoll
  <1>. QED
    BY <1>3, <1>4

\* A passage of recv through its locked section takes at most one message
\* and counts it down.
LEMMA ReceiveSectionClaims ==
    ASSUME NotificationProtocol, AnnouncementsClaimed,
           NEW call \in {"recv", "recv_opt"}, ReceiveSection(call),
           rx \in {"blocking", "evented"}, loop = "user"
    PROVE  AnnouncementsClaimed'
  <1>. USE Scalars DEF NotificationProtocol
  <1>0. /\ UNCHANGED <<rx, nr_senders, stream, MessageEventsPushed, loop,
                       ready_events>>
        /\ taken \in Nat /\ MessageEventsPushed \in Nat
    BY PositionsAreCounted
       DEF ReceiveSection, eqvars, MessageEventsPushed, TypeOK
  <1>1. NothingPendingInCallback'
    BY <1>0 DEF NothingPendingInCallback
  <1>2. CASE UNCHANGED <<queue, available_messages, taken>>
    BY <1>0, <1>1, <1>2 DEF AnnouncementsClaimed
  <1>3. CASE PopMessage
    <2>1. Len(queue') = Len(queue) - 1
      BY <1>3 DEF PopMessage
    <2>2. CASE rx = "evented"
      <3>1. /\ available_messages' = available_messages - 1
            /\ taken' = taken + 1
        BY <1>3, <2>2 DEF PopMessage
      <3>. QED
        BY <1>0, <1>1, <2>1, <2>2, <3>1 DEF AnnouncementsClaimed
    <2>3. CASE rx = "blocking"
      BY <1>0, <1>1, <1>3, <2>3 DEF AnnouncementsClaimed, PopMessage
    <2>. QED
      BY <2>2, <2>3
  <1>. QED
    BY <1>2, <1>3 DEF ReceiveSection, SleepInWait, AllSendersDead

\* A prompt client asks for the next event when it has answered every
\* message event it got, so that next_event polls with nothing announced.
LEMMA NextEventClaims ==
    ASSUME NotificationProtocol, AnnouncementsClaimed, NextEvent
    PROVE  AnnouncementsClaimed'
  <1>. USE Scalars DEF NotificationProtocol
  <1>1. /\ UNCHANGED <<rx, nr_senders, stream, MessageEventsPushed, taken,
                       queue, available_messages>>
        /\ taken \in Nat /\ MessageEventsPushed \in Nat
    BY PositionsAreCounted
       DEF NextEvent, shared, history, MessageEventsPushed, TypeOK
  <1>2. CASE NextEventReady
    BY <1>1, <1>2
       DEF NextEventReady, AnnouncementsClaimed, NothingPendingInCallback
  <1>3. CASE rx = "evented" /\ NextEventPoll
    <2>1. ready_events = <<>> /\ UNCHANGED ready_events
      BY <1>3 DEF NextEventPoll
    <2>2. PromptClient => available_messages = 0
      <3>. SUFFICES ASSUME PromptClient PROVE available_messages = 0
        OBVIOUS
      <3>1. Unclaimed <= 0
        BY <1>3 DEF NextEvent
      <3>2. Unclaimed = MessageEventsPushed - 0 - taken
        BY <2>1, CountOfNothing DEF Unclaimed, MessageEventsPushed
      <3>3. available_messages = MessageEventsPushed - taken
        BY <1>3 DEF AnnouncementsClaimed
      <3>. QED
        BY <1>1, <3>1, <3>2, <3>3
    <2>. QED
      BY <1>1, <1>3, <2>1, <2>2
         DEF AnnouncementsClaimed, NothingPendingInCallback
  <1>. QED
    BY <1>2, <1>3 DEF NextEvent

\* The callback announces what is queued and not yet announced; nothing is
\* announced when it runs, so adding the whole queue to the counter is right.
LEMMA ProcessEpollEventsClaims ==
    ASSUME NotificationProtocol, AnnouncementsClaimed, ProcessEpollEvents
    PROVE  AnnouncementsClaimed'
  <1>. USE Scalars DEF NotificationProtocol
  <1>1. /\ loop = "callback" /\ rx = "evented" /\ epoll_fd /\ fd_read = 1
        /\ available_messages <= Len(queue)
    BY DEF ProcessEpollEvents, Coordination, ReceivingEnd, Descriptor,
       AnnouncedIsQueued, Pending
  <1>2. /\ available_messages' = available_messages + Len(queue)
        /\ stream' = stream \o Announcements
        /\ FinishPoll(Announcements)
        /\ UNCHANGED <<rx, nr_senders, queue, taken>>
    BY <1>1 DEF ProcessEpollEvents, CountMessages
  <1>3. NewMessages \in Nat /\ NewMessages = Len(queue) - available_messages
    BY <1>1 DEF NewMessages
  <1>4. MessageEventsPushed' = MessageEventsPushed + NewMessages
    BY <1>2, <1>3, AnnouncedMessages DEF MessageEventsPushed, TypeOK
  <1>5. PromptClient \/ nr_senders # 0 => available_messages = 0
    BY <1>1 DEF AnnouncementsClaimed, Coordination, FlagMeansPending,
       OneNotificationAtATime, Pending
  <1>6. loop' = "user" \/ (NewMessages = 0 /\ ready_events' = <<>>)
    BY <1>1, <1>2, <1>3, AnnouncementsLeaveNothing DEF AnnouncementsClaimed
  <1>7. MessageEventsPushed \in Nat /\ taken \in Nat
    BY PositionsAreCounted DEF MessageEventsPushed, TypeOK
  <1>8. rx' = "evented" /\ (PromptClient \/ nr_senders' # 0) =>
            available_messages' = MessageEventsPushed' - taken'
    <2>. SUFFICES ASSUME PromptClient \/ nr_senders # 0
                  PROVE  available_messages' = MessageEventsPushed' - taken'
      BY <1>2
    <2>1. MessageEventsPushed - taken = 0
      BY <1>1, <1>5 DEF AnnouncementsClaimed
    <2>2. MessageEventsPushed' = taken + Len(queue)
      BY <1>3, <1>4, <1>5, <1>7, <2>1
    <2>. HIDE DEF MessageEventsPushed
    <2>. QED
      BY <1>2, <1>5, <1>7, <2>2
  <1>9. rx' = "evented" /\ PromptClient =>
            /\ available_messages' <= Len(queue')
            /\ loop' # "user" => available_messages' = 0
    BY <1>2, <1>3, <1>5, <1>6
  <1>. QED
    BY <1>1, <1>2, <1>6, <1>8, <1>9
       DEF AnnouncementsClaimed, NothingPendingInCallback

\* Nothing is announced before the receiver is registered.
LEMMA AnnouncementsInit == Init => AnnouncementsClaimed
  BY DEF Init, EventQueueInit, AnnouncementsClaimed, NothingPendingInCallback

\* No step falsifies the book-keeping.
LEMMA AnnouncementsStep ==
    ASSUME NotificationProtocol, AnnouncementsClaimed, [Next]_vars
    PROVE  AnnouncementsClaimed'
  <1>0. TypeOK /\ SendersCounted /\ Coordination
    BY DEF NotificationProtocol
  <1>. USE <1>0, Scalars
  <1>n. ASSUME UNCHANGED <<loop, ready_events>>
        PROVE  NothingPendingInCallback'
    BY <1>n DEF AnnouncementsClaimed, NothingPendingInCallback
  <1>1. ASSUME NEW h \in Handles,
               \/ TrySend(h) \/ DropTransmitter(h)
               \/ \E new \in Handles : CloneTransmitter(h, new)
        PROVE  AnnouncementsClaimed'
    <2>1. /\ nr_senders # 0 /\ Len(queue') >= Len(queue)
          /\ UNCHANGED <<stream, MessageEventsPushed, taken, rx,
                         available_messages, loop, ready_events>>
      <3>1. nr_senders # 0
        BY <1>1, SenderIsCounted
           DEF TrySend, DropTransmitter, CloneTransmitter
      <3>2. Len(queue') >= Len(queue)
        BY <1>1 DEF TrySend, DropTransmitter, CloneTransmitter
      <3>. QED
        BY <1>1, <3>1, <3>2 DEF TrySend, DropTransmitter, CloneTransmitter,
           history, eqvars, MessageEventsPushed
    <2>2. Len(queue') \in Nat
      BY <1>1 DEF TrySend, DropTransmitter, CloneTransmitter
    <2>. QED
      BY <1>n, <2>1, <2>2 DEF AnnouncementsClaimed
  <1>2. ASSUME BlockingRecv \/ BlockingRecvOpt \/ ResumeReceive
               \/ (EventedRecv /\ available_messages # 0)
        PROVE  AnnouncementsClaimed'
    BY <1>2, ReceiveSectionClaims DEF BlockingRecv, BlockingRecvOpt,
       ResumeReceive, EventedRecv, InUserCode, Coordination, ReceivingEnd
  <1>3. ASSUME TryRecv
        PROVE  AnnouncementsClaimed'
    <2>1. /\ rx = "blocking"
          /\ UNCHANGED <<rx, stream, taken, loop, ready_events>>
      BY <1>3 DEF TryRecv, PopMessage, eqvars
    <2>. QED
      BY <1>n, <2>1 DEF AnnouncementsClaimed
  <1>4. ASSUME RegisterReceiver \/ RegisterReceiverFails
               \/ RegisterDeadReceiver
        PROVE  AnnouncementsClaimed'
    <2>1. /\ stream = <<>> /\ taken = 0 /\ available_messages = 0
          /\ UNCHANGED <<available_messages, taken, queue, loop>>
          /\ loop = "user" /\ rx' = "evented"
      BY <1>4 DEF RegisterReceiver, RegisterReceiverFails,
         RegisterDeadReceiver, AnnouncementsClaimed, Coordination,
         ReceivingEnd, InUserCode, shared, history, eqvars
    <2>2. stream' = <<>> \/ stream' = <<ClosedEvent>>
      BY <1>4, <2>1 DEF RegisterReceiver, RegisterReceiverFails,
         RegisterDeadReceiver, history
    <2>3. MessageEventsPushed' = 0
      BY <2>2, CountOfNothing, CountOfOne
         DEF MessageEventsPushed, ClosedEvent, NewEvent
    <2>. QED
      BY <2>1, <2>3 DEF AnnouncementsClaimed, NothingPendingInCallback
  <1>5. ASSUME NextEvent
        PROVE  AnnouncementsClaimed'
    BY <1>5, NextEventClaims
  <1>6. ASSUME ProcessEpollEvents
        PROVE  AnnouncementsClaimed'
    BY <1>6, ProcessEpollEventsClaims
  <1>7. ASSUME DropReceiver \/ DropBlockingReceiver
        PROVE  AnnouncementsClaimed'
    <2>1. loop' = "user" /\ rx' \in {"closing", "dropped"}
      BY <1>7 DEF DropReceiver, DropBlockingReceiver, eqvars
    <2>. QED
      BY <2>1 DEF AnnouncementsClaimed, NothingPendingInCallback
  <1>8. ASSUME ReadEventfd
        PROVE  AnnouncementsClaimed'
    BY <1>8 DEF ReadEventfd, shared, history, AnnouncementsClaimed,
       NothingPendingInCallback, MessageEventsPushed
  <1>9. ASSUME \/ SpuriousWakeup \/ UNCHANGED vars
               \/ \E h \in Handles : TrySendRefused(h)
               \/ EventedRecv /\ available_messages = 0
        PROVE  AnnouncementsClaimed'
    <2>1. UNCHANGED <<queue, nr_senders, stream, taken, rx,
                      available_messages, loop, ready_events>>
      BY <1>9 DEF SpuriousWakeup, TrySendRefused, EventedRecv, vars, shared,
         history, eqvars
    <2>. QED
      BY <1>n, <2>1 DEF AnnouncementsClaimed, MessageEventsPushed
  <1>. QED
    BY <1>1, <1>2, <1>3, <1>4, <1>5, <1>6, <1>7, <1>8, <1>9
       DEF Next, Transmitters, Receiving

\* What the book-keeping says of a registered receiver.
LEMMA ClaimedIsExact ==
    NotificationProtocol /\ AnnouncementsClaimed => AnnouncementsExact
  BY Scalars DEF NotificationProtocol, Coordination, AnnouncedIsQueued,
     AnnouncementsClaimed, AnnouncementsExact

\* The counter that recv tests is the number of messages announced and not
\* yet taken, and that many messages are queued: while a transmitter lives,
\* and for a prompt client also afterwards.
THEOREM AnnouncementsStayExact == Spec => []AnnouncementsExact
  BY AnnouncementsInit, AnnouncementsStep, ClaimedIsExact, ProtocolCorrect, PTL
     DEF Spec

-----------------------------------------------------------------------------
(* The channel implements a FIFO channel                                    *)

\* A passage through the locked section of recv or recv_opt delivers the
\* oldest message, answers that everybody is gone, or changes nothing that a
\* user of the channel can see.
LEMMA ReceiveSectionImplements ==
    ASSUME TypeOK, NEW call \in {"recv", "recv_opt"}, ReceiveSection(call),
           port_alive
    PROVE  [Fifo!Next]_Fifo!fifovars
  <1>. USE Scalars DEF ReceiveSection, Fifo!Next, Fifo!fifovars
  <1>1. CASE SleepInWait(call)
    BY <1>1 DEF SleepInWait
  <1>2. CASE PopMessage
    BY <1>2 DEF PopMessage, Fifo!Deliver
  <1>3. CASE AllSendersDead(call)
    BY <1>3 DEF AllSendersDead, Fifo!AnswerDisconnected
  <1>. QED
    BY <1>1, <1>2, <1>3

\* Every step of the channel is a step of the FIFO channel, or none.
LEMMA StepImplements ==
    ASSUME NotificationProtocol, [Next]_vars
    PROVE  [Fifo!Next]_Fifo!fifovars
  <1>0. TypeOK /\ SendersCounted /\ ReceivingEnd
    BY DEF NotificationProtocol, Coordination
  <1>. USE DEF Fifo!Next, Fifo!fifovars
  <1>1. ASSUME NEW h \in Handles, TrySend(h)
        PROVE  [Fifo!Next]_Fifo!fifovars
    <2>1. Fifo!Accept(h)
      BY <1>0, <1>1, SenderIsCounted DEF TrySend, Fifo!Accept
    <2>. QED
      BY <2>1
  <1>2. ASSUME NEW h \in Handles, NEW new \in Handles, CloneTransmitter(h, new)
        PROVE  [Fifo!Next]_Fifo!fifovars
    <2>1. Fifo!AddSender
      BY <1>0, <1>2, SenderIsCounted
         DEF CloneTransmitter, Fifo!AddSender, history
    <2>. QED
      BY <2>1
  <1>3. ASSUME NEW h \in Handles, DropTransmitter(h)
        PROVE  [Fifo!Next]_Fifo!fifovars
    <2>1. Fifo!LoseSender
      BY <1>0, <1>3, SenderIsCounted
         DEF DropTransmitter, Fifo!LoseSender, history
    <2>. QED
      BY <2>1
  <1>4. ASSUME BlockingRecv \/ BlockingRecvOpt \/ ResumeReceive
        PROVE  [Fifo!Next]_Fifo!fifovars
    <2>1. port_alive /\ recv_call \in {"recv", "recv_opt", "none"}
          /\ (ResumeReceive => recv_call # "none")
      BY <1>0, <1>4, Scalars DEF ReceivingEnd, BlockingRecv, BlockingRecvOpt,
         ResumeReceive
    <2>. QED
      BY <1>0, <1>4, <2>1, ReceiveSectionImplements
         DEF BlockingRecv, BlockingRecvOpt, ResumeReceive
  <1>5. ASSUME TryRecv
        PROVE  [Fifo!Next]_Fifo!fifovars
    <2>1. port_alive
      BY <1>0, <1>5 DEF ReceivingEnd, TryRecv
    <2>2. CASE PopMessage
      BY <1>5, <2>1, <2>2 DEF TryRecv, PopMessage, Fifo!Deliver
    <2>3. CASE ~PopMessage
      BY <1>0, <1>5, <2>1, <2>3, Scalars
         DEF TryRecv, Fifo!AnswerEmpty, Fifo!AnswerDisconnected
    <2>. QED
      BY <2>2, <2>3
  <1>6. ASSUME EventedRecv
        PROVE  [Fifo!Next]_Fifo!fifovars
    <2>1. port_alive
      BY <1>0, <1>6 DEF ReceivingEnd, EventedRecv
    <2>2. CASE ReceiveSection("recv")
      BY <1>0, <2>1, <2>2, ReceiveSectionImplements
    <2>3. CASE ~ReceiveSection("recv")
      BY <1>6, <2>1, <2>3 DEF EventedRecv, Fifo!AnswerNone, shared
    <2>. QED
      BY <2>2, <2>3
  <1>7. ASSUME DropBlockingReceiver
        PROVE  [Fifo!Next]_Fifo!fifovars
    <2>1. Fifo!Close
      BY <1>0, <1>7 DEF DropBlockingReceiver, Fifo!Close, ReceivingEnd, history
    <2>. QED
      BY <2>1
  <1>8. ASSUME \/ \E h \in Handles : TrySendRefused(h)
               \/ SpuriousWakeup \/ RegisterReceiver \/ RegisterReceiverFails
               \/ RegisterDeadReceiver \/ NextEvent \/ ReadEventfd
               \/ ProcessEpollEvents \/ DropReceiver \/ UNCHANGED vars
        PROVE  [Fifo!Next]_Fifo!fifovars
    BY <1>8 DEF TrySendRefused, SpuriousWakeup, RegisterReceiver,
       RegisterReceiverFails, RegisterDeadReceiver, NextEvent, ReadEventfd,
       ProcessEpollEvents, DropReceiver, vars, shared, history
  <1>. QED
    BY <1>1, <1>2, <1>3, <1>4, <1>5, <1>6, <1>7, <1>8
       DEF Next, Transmitters, Receiving

\* A channel, with its mutex, condition variable, eventfd and event queue, is
\* a FIFO channel for those who use it: accepted messages are handed out once
\* and in order, and "empty" and "disconnected" are answered truthfully.
THEOREM ChannelIsFifo ==
    Spec => FifoSpec
  <1>1. Init => Fifo!Init
    BY DEF Init, Fifo!Init
  <1>2. NotificationProtocol /\ [Next]_vars => [Fifo!Next]_Fifo!fifovars
    BY StepImplements
  <1>. QED
    BY <1>1, <1>2, ProtocolCorrect, PTL DEF Spec, FifoSpec, Fifo!Spec

-----------------------------------------------------------------------------
(* What a call does to the caller's view of the channel, for the programs    *)
(* that have at most one message in it                                      *)

\* A message that is sent is the last of the queue and of the history.
LEMMA SendAppends ==
    ASSUME TypeOK, NEW h, TrySend(h)
    PROVE  /\ Len(queue') = Len(queue) + 1 /\ Len(sent') = Len(sent) + 1
           /\ UNCHANGED <<received, nr_senders, available_messages,
                          ready_events, returned>>
  BY DEF TrySend, TypeOK, eqvars

\* A blocking recv takes the oldest message, or nothing.
LEMMA BlockingRecvTakes ==
    ASSUME TypeOK, ReceivingEnd, BlockingRecv \/ ResumeReceive
    PROVE  /\ UNCHANGED <<sent, nr_senders>>
           /\ \/ UNCHANGED <<queue, received>>
              \/ /\ Len(queue') = Len(queue) - 1
                 /\ Len(received') = Len(received) + 1
                 /\ Len(queue) > 0
  <1>1. PICK call : ReceiveSection(call)
    BY DEF BlockingRecv, ResumeReceive
  <1>2. CASE PopMessage
    BY <1>1, <1>2 DEF ReceiveSection, PopMessage, TypeOK
  <1>. QED
    BY <1>1, <1>2 DEF ReceiveSection, SleepInWait, AllSendersDead

\* The recv of a registered receiver takes the message that is announced.
LEMMA EventedRecvTakes ==
    ASSUME TypeOK, EventedRecv, available_messages = 1, Len(queue) = 1
    PROVE  /\ UNCHANGED <<sent, nr_senders, ready_events, returned>>
           /\ Len(queue') = 0 /\ Len(received') = Len(received) + 1
           /\ available_messages' = 0
  <1>1. queue # <<>> /\ rx = "evented" /\ ReceiveSection("recv")
    <2>1. available_messages # 0 /\ queue # <<>>
      <3>1. Len(<<>>) = 0 /\ 1 # 0
        OBVIOUS
      <3>. QED
        BY <3>1
    <2>. QED
      BY <2>1, Zenon DEF EventedRecv
  <1>2. PopMessage
    BY <1>1 DEF ReceiveSection, SleepInWait, AllSendersDead
  <1>. QED
    BY <1>1, <1>2 DEF ReceiveSection, PopMessage, TypeOK, eqvars

\* What a notification of one message, or of none, is turned into.
LEMMA AnnouncementOfOne ==
    ASSUME NewMessages \in {0, 1}, NewMessages = 1 \/ nr_senders # 0
    PROVE  /\ Announcements \in Seq(EventsOf({RxInfo}))
           /\ NewMessages = 0 => Announcements = <<>>
           /\ NewMessages = 1 =>
                  /\ Announcements # <<>>
                  /\ Head(Announcements) = MessageEvent
                  /\ nr_senders # 0 => Tail(Announcements) = <<>>
  <1>. DEFINE messages == Repeat(MessageEvent, NewMessages)
              end == IF nr_senders = 0 THEN <<ClosedEvent>> ELSE <<>>
  <1>1. /\ messages \in Seq(EventsOf({RxInfo})) /\ Len(messages) = NewMessages
        /\ NewMessages = 1 => messages[1] = MessageEvent
    BY RepeatIsSequence, ReceiverEvents DEF Repeat
  <1>2. /\ end \in Seq(EventsOf({RxInfo})) /\ Len(end) \in {0, 1}
        /\ nr_senders # 0 => Len(end) = 0
    <2>1. /\ <<ClosedEvent>> \in Seq(EventsOf({RxInfo}))
          /\ <<>> \in Seq(EventsOf({RxInfo}))
          /\ Len(<<ClosedEvent>>) = 1 /\ Len(<<>>) = 0
      BY ReceiverEvents
    <2>. QED
      BY <2>1
  <1>3. Announcements = messages \o end
    BY DEF Announcements
  <1>. HIDE DEF messages, end
  <1>4. /\ Announcements \in Seq(EventsOf({RxInfo}))
        /\ Len(Announcements) = NewMessages + Len(end)
        /\ NewMessages = 1 => Announcements[1] = MessageEvent
    BY <1>1, <1>2, <1>3, ConcatElements
  <1>. QED
    BY <1>2, <1>4

\* A turn of next_event begun with nothing announced and nothing pending:
\* it returns exactly when it has announced the one message that is queued.
LEMMA WaitingTurn ==
    ASSUME TypeOK, NextEvent \/ ReadEventfd \/ ProcessEpollEvents,
           ready_events = <<>>, available_messages = 0,
           Len(queue) \in {0, 1}, Len(queue) = 1 \/ nr_senders # 0
    PROVE  /\ UNCHANGED <<queue, sent, received, nr_senders>>
           /\ HandsOut =>
                  /\ Len(queue) = 1 /\ available_messages' = 1
                  /\ returned' = MessageEvent
                  /\ ready_events' = <<>> \/ nr_senders = 0
           /\ ~HandsOut => available_messages' = 0 /\ ready_events' = <<>>
  <1>1. CASE NextEvent
    <2>1. NextEventPoll
      BY <1>1 DEF NextEvent, NextEventReady
    <2>. QED
      BY <1>1, <2>1 DEF NextEvent, NextEventPoll, HandsOut, shared, history
  <1>2. CASE ReadEventfd
    BY <1>2 DEF ReadEventfd, HandsOut, shared, history
  <1>3. CASE ProcessEpollEvents
    <2>. USE <1>3
    <2>1. UNCHANGED <<queue, sent, received, nr_senders>>
          /\ loop = "callback"
      BY DEF ProcessEpollEvents
    <2>2. CASE fd_read = 1
      <3>1. /\ NewMessages = Len(queue)
            /\ available_messages' = Len(queue)
            /\ FinishPoll(Announcements)
        BY <2>2 DEF ProcessEpollEvents, NewMessages, CountMessages
      <3>2. <<>> \o Announcements = Announcements
        BY <3>1, AnnouncementOfOne
      <3>3. CASE Len(queue) = 0
        BY <2>1, <3>1, <3>2, <3>3, AnnouncementOfOne DEF FinishPoll, HandsOut
      <3>4. CASE Len(queue) = 1
        <4>1. MessageEvent.is_valid
          BY DEF MessageEvent, NewEvent
        <4>. HIDE DEF MessageEvent
        <4>. QED
          BY <2>1, <3>1, <3>2, <3>4, <4>1, AnnouncementOfOne
             DEF FinishPoll, HandsOut
      <3>. QED
        BY <3>3, <3>4
    <2>3. CASE fd_read # 1
      <3>1. FinishPoll(<<>>) /\ UNCHANGED available_messages
        BY <2>3 DEF ProcessEpollEvents
      <3>2. ready_events' = <<>> /\ loop' = "polling"
        BY <3>1, PushAtMostOne
      <3>. QED
        BY <2>1, <3>1, <3>2 DEF HandsOut
    <2>. QED
      BY <2>2, <2>3
  <1>. QED
    BY <1>1, <1>2, <1>3

\* Registering the receiver announces nothing yet; the last transmitter that
\* is dropped, and the receiving end, leave what is queued as it is or throw
\* it away.
LEMMA OthersKeepMessages ==
    ASSUME TypeOK
    PROVE  /\ RegisterReceiver =>
                  UNCHANGED <<queue, sent, received, nr_senders,
                              available_messages, ready_events, returned>>
           /\ \A h : DropTransmitter(h) =>
                  UNCHANGED <<queue, sent, received, available_messages,
                              ready_events, returned>>
           /\ DropReceiver \/ DropBlockingReceiver =>
                  /\ queue' = <<>> \/ UNCHANGED queue
                  /\ UNCHANGED <<sent, received, nr_senders,
                                 available_messages, returned>>
           /\ SpuriousWakeup =>
                  UNCHANGED <<queue, sent, received, nr_senders,
                              available_messages, ready_events, returned>>
  BY DEF RegisterReceiver, DropTransmitter, DropReceiver,
     DropBlockingReceiver, SpuriousWakeup, shared, history, eqvars

=============================================================================
