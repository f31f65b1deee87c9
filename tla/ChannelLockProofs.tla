-------------------------- MODULE ChannelLockProofs --------------------------
(***************************************************************************)
(* Proofs about module ChannelLock, for any number of senders, any bound   *)
(* on their sends and any set of calls the kernel refuses.                 *)
(***************************************************************************)
EXTENDS ChannelLock, FiniteSetTheorems, TLAPS

\* The protocol holds when the channel is created.
LEMMA LockInit == Init => LockProtocol
  <1>. SUFFICES ASSUME Init PROVE LockProtocol
    OBVIOUS
  <1>1. /\ Cardinality(Senders) \in 0 .. Cardinality(Senders)
        /\ 0 \in 0 .. MaxSends
        /\ Rx \in Tasks /\ Senders \subseteq Tasks /\ Nobody \notin Tasks
    <2>1. Cardinality(Senders) \in Nat /\ MaxSends \in Nat
      BY ChannelLockAssumption, FS_CardinalityType
    <2>2. Rx \in Tasks /\ Senders \subseteq Tasks /\ Nobody \notin Tasks
      BY ChannelLockAssumption DEF Tasks
    <2>. QED
      BY <2>1, <2>2
  <1>2. TypeOK
    BY <1>1, Zenon DEF Init, TypeOK
  <1>3. Alive = Senders
    BY <1>1 DEF Alive, Init
  <1>4. MutualExclusion /\ NoLostWakeup /\ Roles
    BY <1>1 DEF MutualExclusion, NoLostWakeup, Roles, MutexLost, Init
  <1>5. Descriptor /\ Notification
    BY <1>1 DEF Descriptor, Notification, Pending, Init
  <1>6. TransmittersCounted
    BY <1>3 DEF TransmittersCounted, Init
  <1>. QED
    BY <1>2, <1>4, <1>5, <1>6 DEF LockProtocol

\* What the call of an operation changes: the task that was in its own code
\* is in the call.
LEMMA EntersFacts ==
    ASSUME LockProtocol, NEW t \in Tasks,
           NEW call \in LockingCalls \cup {"user_code"}, Enters(t, call)
    PROVE  /\ doing[t] = "user_code" /\ doing'[t] = call
           /\ \A u \in Tasks : u # t => doing'[u] = doing[u]
           /\ doing' \in [Tasks -> LockingCalls \cup {"user_code", "asleep",
                                                     "gone"}]
           /\ MutualExclusion' /\ Alive' = Alive
  <1>. USE DEF LockProtocol, TypeOK, Enters, lockvars
  <1>1. /\ doing[t] = "user_code" /\ doing'[t] = call
        /\ \A u \in Tasks : u # t => doing'[u] = doing[u]
        /\ doing' \in [Tasks -> LockingCalls \cup {"user_code", "asleep",
                                                  "gone"}]
    OBVIOUS
  <1>2. MutualExclusion'
    BY <1>1 DEF MutualExclusion, MutexLost, LockingCalls
  <1>3. call # "gone"
    BY DEF LockingCalls
  <1>4. Alive' = Alive
    BY <1>1, <1>3 DEF Alive, Tasks
  <1>. QED
    BY <1>1, <1>2, <1>4

\* A sender that enters an operation.
LEMMA SenderCallStep ==
    ASSUME LockProtocol, NEW s \in Senders,
           CallTrySend(s) \/ CallDropTransmitter(s)
    PROVE  LockProtocol'
  <1>0. s \in Tasks /\ Rx \in Tasks /\ s # Rx /\ Senders \subseteq Tasks
    BY ChannelLockAssumption DEF Tasks
  <1>1. PICK call \in {"try_send", "drop_transmitter"} : Enters(s, call)
    BY DEF CallTrySend, CallDropTransmitter
  <1>2. /\ doing[s] = "user_code" /\ doing'[s] = call
        /\ \A u \in Tasks : u # s => doing'[u] = doing[u]
        /\ doing' \in [Tasks -> LockingCalls \cup {"user_code", "asleep",
                                                  "gone"}]
        /\ MutualExclusion' /\ Alive' = Alive
    BY <1>0, <1>1, EntersFacts DEF LockingCalls
  <1>3. /\ UNCHANGED <<lockvars, failure, queue, port_alive, nr_senders,
                       receiver_notified, epoll_fd, available_messages,
                       eventfd, evented>>
        /\ sends' \in [Senders -> 0 .. MaxSends]
    <2>1. CASE CallTrySend(s)
      <3>1. sends[s] \in 0 .. MaxSends /\ MaxSends \in Nat
        BY ChannelLockAssumption DEF TypeOK, LockProtocol
      <3>2. sends[s] + 1 \in 0 .. MaxSends
        <4>1. sends[s] < MaxSends
          BY <2>1 DEF CallTrySend
        <4>. QED
          BY <3>1, <4>1
      <3>. QED
        BY <2>1, <3>2 DEF CallTrySend, Enters, TypeOK, LockProtocol
    <2>2. CASE CallDropTransmitter(s)
      BY <2>2 DEF CallDropTransmitter, Enters, TypeOK,
         LockProtocol
    <2>. QED
      BY <2>1, <2>2
  <1>4. TypeOK'
    BY <1>2, <1>3 DEF TypeOK, LockProtocol, lockvars
  <1>5. NoLostWakeup' /\ Roles'
    BY <1>0, <1>2, <1>3 DEF LockProtocol, NoLostWakeup, Roles
  <1>6. TransmittersCounted'
    BY <1>0, <1>2, <1>3 DEF LockProtocol, TransmittersCounted
  <1>7. Descriptor' /\ Notification'
    BY <1>0, <1>2, <1>3 DEF LockProtocol, Descriptor, Notification, Pending
  <1>. QED
    BY <1>2, <1>4, <1>5, <1>6, <1>7 DEF LockProtocol

\* The receiver's task that enters an operation.
LEMMA ReceiverCallStep ==
    ASSUME LockProtocol,
           CallRecv \/ CallRegister \/ CallCallback \/ CallDropReceiver
    PROVE  LockProtocol'
  <1>0. Rx \in Tasks /\ Rx \notin Senders /\ Senders \subseteq Tasks
    BY ChannelLockAssumption DEF Tasks
  <1>1. PICK call \in {"recv", "register", "callback", "user_code",
                       "drop_receiver", "drop_blocking_receiver"} :
            Enters(Rx, call)
    BY DEF CallRecv, CallRegister, CallCallback, CallDropReceiver
  <1>2. /\ doing[Rx] = "user_code" /\ doing'[Rx] = call
        /\ \A u \in Tasks : u # Rx => doing'[u] = doing[u]
        /\ doing' \in [Tasks -> LockingCalls \cup {"user_code", "asleep",
                                                  "gone"}]
        /\ MutualExclusion' /\ Alive' = Alive
    BY <1>0, <1>1, EntersFacts DEF LockingCalls
  <1>3. /\ UNCHANGED <<lockvars, failure, queue, port_alive, nr_senders,
                       receiver_notified, epoll_fd, available_messages, sends>>
        /\ eventfd' \in Nat /\ evented' \in BOOLEAN
    <2>1. UNCHANGED <<lockvars, failure, queue, port_alive, nr_senders,
                      receiver_notified, epoll_fd, available_messages>>
      BY <1>1 DEF Enters
    <2>2. /\ UNCHANGED sends
          /\ eventfd' \in {eventfd, 0} /\ evented' \in {evented, TRUE}
      BY DEF CallRecv, CallRegister, CallCallback, CallDropReceiver
    <2>3. eventfd \in Nat /\ evented \in BOOLEAN
      BY DEF TypeOK, LockProtocol
    <2>4. eventfd' \in Nat
      BY <2>2, <2>3
    <2>5. evented' \in BOOLEAN
      BY <2>2, <2>3, Zenon
    <2>. QED
      BY <2>1, <2>2, <2>4, <2>5
  <1>4. TypeOK'
    BY <1>2, <1>3 DEF TypeOK, LockProtocol, lockvars
  <1>5. NoLostWakeup' /\ Roles'
    BY <1>0, <1>2, <1>3 DEF LockProtocol, NoLostWakeup, Roles
  <1>6. TransmittersCounted'
    BY <1>0, <1>2, <1>3 DEF LockProtocol, TransmittersCounted
  <1>7. /\ eventfd \in Nat /\ queue \in Nat /\ available_messages \in Nat
        /\ epoll_fd \in {"none", "open"}
    BY DEF TypeOK, LockProtocol, Descriptor
  <1>8. Descriptor' /\ Notification'
    <2>. USE <1>0, <1>2, <1>3, <1>7
    <2>1. CASE CallRecv
      <3>1. doing'[Rx] = "recv" /\ UNCHANGED <<eventfd, evented>>
            /\ (evented => available_messages > 0)
        BY <2>1 DEF CallRecv, Enters
      <3>. QED
        BY <3>1 DEF LockProtocol, Descriptor, Notification, Pending
    <2>2. CASE CallRegister
      <3>1. doing'[Rx] = "register" /\ ~evented /\ evented'
            /\ UNCHANGED eventfd
        BY <2>2, Zenon DEF CallRegister, Enters
      <3>2. epoll_fd = "none" /\ available_messages = 0 /\ eventfd = 0
        BY <3>1 DEF LockProtocol, Descriptor
      <3>3. Descriptor'
        BY <3>1, <3>2 DEF Descriptor
      <3>4. Notification'
        <4>1. Pending' = Pending
          BY <3>1 DEF Pending
        <4>. QED
          BY <3>1, <3>2, <4>1 DEF LockProtocol, Notification
      <3>. QED
        BY <3>3, <3>4
    <2>3. CASE CallCallback
      <3>1. /\ doing'[Rx] = IF eventfd = 1 THEN "callback" ELSE "user_code"
            /\ epoll_fd = "open" /\ eventfd > 0 /\ eventfd' = 0
            /\ UNCHANGED evented
        BY <2>3 DEF CallCallback, Enters
      <3>2. Descriptor'
        BY <3>1 DEF LockProtocol, Descriptor
      <3>3. Pending = eventfd
        BY DEF Pending
      <3>4. CASE eventfd = 1
        <4>1. Pending' = 1
          BY <3>1, <3>4 DEF Pending
        <4>. QED
          BY <3>1, <3>2, <3>3, <3>4, <4>1 DEF LockProtocol, Notification
      <3>5. CASE eventfd # 1
        <4>1. nr_senders = 0
          BY <3>1, <3>3, <3>5 DEF LockProtocol, Notification
        <4>. QED
          BY <3>2, <4>1 DEF Notification
      <3>. QED
        BY <3>4, <3>5
    <2>4. CASE CallDropReceiver
      <3>1. /\ doing'[Rx] = IF evented THEN "drop_receiver"
                            ELSE "drop_blocking_receiver"
            /\ UNCHANGED <<eventfd, evented>>
        BY <2>4 DEF CallDropReceiver, Enters
      <3>. QED
        BY <3>1 DEF LockProtocol, Descriptor, Notification, Pending
    <2>. QED
      BY <2>1, <2>2, <2>3, <2>4
  <1>. QED
    BY <1>2, <1>4, <1>5, <1>6, <1>8 DEF LockProtocol

\* A task that gets the mutex.
LEMMA LockStep ==
    ASSUME LockProtocol, NEW t \in Tasks, Lock(t)
    PROVE  LockProtocol'
  <1>. USE ChannelLockAssumption DEF Lock, LockProtocol
  <1>1. TypeOK'
    BY DEF TypeOK
  <1>2. MutualExclusion'
    BY DEF TypeOK, MutualExclusion, MutexLost, Tasks
  <1>3. NoLostWakeup' /\ Roles'
    BY DEF NoLostWakeup, Roles
  <1>4. TransmittersCounted' /\ Descriptor' /\ Notification'
    BY DEF TransmittersCounted, Alive, Descriptor, Notification, Pending
  <1>. QED
    BY <1>1, <1>2, <1>3, <1>4

-----------------------------------------------------------------------------
(* Locked sections                                                          *)

\* Inside a locked section: the task is alone there, and all transmitters are
\* counted.
LEMMA SectionFacts ==
    ASSUME LockProtocol, NEW t \in Tasks, inside[t]
    PROVE  /\ holder = t /\ \A u \in Tasks : u # t => ~inside[u]
           /\ ~MutexLost /\ doing[t] \in LockingCalls
           /\ nr_senders = Cardinality(Alive)
  <1>1. /\ holder = t /\ \A u \in Tasks : u # t => ~inside[u]
        /\ ~MutexLost /\ doing[t] \in LockingCalls
    BY DEF LockProtocol, MutualExclusion
  <1>2. doing[t] # "gone"
    BY <1>1 DEF LockingCalls
  <1>. QED
    BY <1>1, <1>2 DEF LockProtocol, TransmittersCounted

\* A section that is left by releasing the mutex.
LEMMA SectionIsLeft ==
    ASSUME LockProtocol, NEW t \in Tasks, inside[t],
           holder' = Nobody, inside' = [inside EXCEPT ![t] = FALSE], ~MutexLost'
    PROVE  /\ MutualExclusion'
           /\ holder' \in Tasks \cup {Nobody} /\ inside' \in [Tasks -> BOOLEAN]
  <1>1. inside \in [Tasks -> BOOLEAN] /\ \A u \in Tasks : u # t => ~inside[u]
    BY SectionFacts DEF LockProtocol, TypeOK
  <1>2. inside' \in [Tasks -> BOOLEAN] /\ \A u \in Tasks : ~inside'[u]
    BY <1>1
  <1>. QED
    BY <1>2 DEF MutualExclusion

\* The living transmitters can be counted.
LEMMA AliveIsFinite ==
    /\ Cardinality(Senders) \in Nat
    /\ IsFiniteSet(Alive) /\ Cardinality(Alive) \in Nat
    /\ Cardinality(Alive) <= Cardinality(Senders)
    /\ Alive # {} => Cardinality(Alive) > 0
  <1>1. IsFiniteSet(Senders) /\ Alive \subseteq Senders
    BY ChannelLockAssumption DEF Alive
  <1>. QED
    BY <1>1, FS_Subset, FS_CardinalityType, FS_EmptySet

\* What notifying the receiver, or leaving it alone, does to the task's calls.
LEMMA SenderLeaves ==
    ASSUME LockProtocol, NEW s \in Senders, inside[s],
           NEW call \in {"user_code", "drop_transmitter", "gone"},
           \/ NotifyReceiver(s, call)
           \/ LeaveReceiverAlone(s, call)
           \/ \E why \in {"bad_descriptor", "refused"} :
                  UnlockAndFail(s, why, call)
    PROVE  /\ doing'[s] = call
           /\ \A u \in Senders : u # s => doing'[u] = doing[u]
           /\ doing'[Rx] = doing[Rx]
                  \/ (doing[Rx] = "asleep" /\ doing'[Rx] = "recv" /\ ~NeedsWrite)
           /\ doing' \in [Tasks -> LockingCalls \cup {"user_code", "asleep",
                                                     "gone"}]
           /\ failure'[Rx] = failure[Rx]
           /\ failure' \in [Tasks -> {"none", "disconnected", "bad_descriptor",
                                     "refused", "not_registered"}]
           /\ MutualExclusion'
           /\ holder' \in Tasks \cup {Nobody} /\ inside' \in [Tasks -> BOOLEAN]
  <1>1. /\ s \in Tasks /\ Rx \in Tasks /\ Rx \notin Senders
        /\ Senders \subseteq Tasks
    BY ChannelLockAssumption DEF Tasks
  <1>2. /\ doing \in [Tasks -> LockingCalls \cup {"user_code", "asleep", "gone"}]
        /\ failure \in [Tasks -> {"none", "disconnected", "bad_descriptor",
                                  "refused", "not_registered"}]
    BY DEF LockProtocol, TypeOK
  <1>3. holder' = Nobody /\ inside' = [inside EXCEPT ![s] = FALSE]
    BY DEF NotifyReceiver, LeaveReceiverAlone, UnlockAndFail, Unlock
  <1>4. /\ failure'[Rx] = failure[Rx]
        /\ failure' \in [Tasks -> {"none", "disconnected", "bad_descriptor",
                                  "refused", "not_registered"}]
    BY <1>1, <1>2 DEF NotifyReceiver, LeaveReceiverAlone, UnlockAndFail
  <1>5. /\ doing'[s] = call
        /\ \A u \in Senders : u # s => doing'[u] = doing[u]
        /\ doing'[Rx] = doing[Rx]
                  \/ (doing[Rx] = "asleep" /\ doing'[Rx] = "recv" /\ ~NeedsWrite)
        /\ doing' \in [Tasks -> LockingCalls \cup {"user_code", "asleep",
                                                  "gone"}]
    <2>. DEFINE C == LockingCalls \cup {"user_code", "asleep", "gone"}
    <2>0. call \in C /\ "recv" \in C
      BY DEF LockingCalls
    <2>. HIDE DEF C
    <2>c. doing \in [Tasks -> C]
      BY <1>2 DEF C
    <2>1. ASSUME doing' = [doing EXCEPT ![s] = call]
          PROVE  /\ doing' \in [Tasks -> C] /\ doing'[s] = call
                 /\ \A u \in Senders : u # s => doing'[u] = doing[u]
                 /\ doing'[Rx] = doing[Rx]
      BY <1>1, <2>0, <2>1, <2>c
    <2>2. ASSUME doing' = [doing EXCEPT ![s] = call,
                             ![Rx] = IF @ = "asleep" THEN "recv" ELSE @]
          PROVE  /\ doing' \in [Tasks -> C] /\ doing'[s] = call
                 /\ \A u \in Senders : u # s => doing'[u] = doing[u]
                 /\ doing'[Rx] = IF doing[Rx] = "asleep" THEN "recv"
                                 ELSE doing[Rx]
      BY <1>1, <2>0, <2>2, <2>c
    <2>. HIDE DEF NeedsWrite
    <2>3. \/ doing' = [doing EXCEPT ![s] = call]
          \/ /\ ~NeedsWrite
             /\ doing' = [doing EXCEPT ![s] = call,
                            ![Rx] = IF @ = "asleep" THEN "recv" ELSE @]
      BY DEF NotifyReceiver, LeaveReceiverAlone, UnlockAndFail, Unlock
    <2>4. doing' \in [Tasks -> C]
      BY <2>1, <2>2, <2>3
    <2>5. doing'[s] = call /\ \A u \in Senders : u # s => doing'[u] = doing[u]
      BY <2>1, <2>2, <2>3
    <2>6. doing'[Rx] = doing[Rx]
                  \/ (doing[Rx] = "asleep" /\ doing'[Rx] = "recv" /\ ~NeedsWrite)
      BY <2>1, <2>2, <2>3
    <2>. QED
      BY <2>4, <2>5, <2>6 DEF C
  <1>6. ~MutexLost'
    BY <1>1, <1>4, SectionFacts DEF MutexLost
  <1>. QED
    BY <1>1, <1>3, <1>4, <1>5, <1>6, SectionIsLeft

\* Transmitter::try_send, with the message sent, refused by a dead port, or
\* the task failed because the eventfd could not be written.
LEMMA TrySendStep ==
    ASSUME LockProtocol, NEW s \in Senders, TrySend(s)
    PROVE  LockProtocol'
  <1>0. /\ s \in Tasks /\ Rx \in Tasks /\ s # Rx /\ Senders \subseteq Tasks
        /\ inside[s] /\ doing[s] = "try_send"
    BY ChannelLockAssumption DEF Tasks, TrySend
  <1>1. PICK call \in {"user_code", "drop_transmitter"} :
            \/ NotifyReceiver(s, call)
            \/ LeaveReceiverAlone(s, call)
            \/ \E why \in {"bad_descriptor", "refused"} :
                   UnlockAndFail(s, why, call)
    BY DEF TrySend, PortDead, WhyRefused
  <1>2. /\ doing'[s] = call
        /\ \A u \in Senders : u # s => doing'[u] = doing[u]
        /\ doing'[Rx] = doing[Rx]
               \/ (doing[Rx] = "asleep" /\ doing'[Rx] = "recv" /\ ~NeedsWrite)
        /\ doing' \in [Tasks -> LockingCalls \cup {"user_code", "asleep",
                                                  "gone"}]
        /\ failure'[Rx] = failure[Rx]
        /\ failure' \in [Tasks -> {"none", "disconnected", "bad_descriptor",
                                  "refused", "not_registered"}]
        /\ MutualExclusion'
        /\ holder' \in Tasks \cup {Nobody} /\ inside' \in [Tasks -> BOOLEAN]
    BY <1>0, <1>1, SenderLeaves
  <1>3. Alive' = Alive /\ s \in Alive
    BY <1>0, <1>2 DEF Alive
  <1>4. nr_senders = Cardinality(Alive) /\ nr_senders # 0
    BY <1>0, <1>3, SectionFacts, AliveIsFinite
  <1>5. UNCHANGED <<port_alive, nr_senders, epoll_fd, evented,
                    available_messages, sends>>
    BY DEF TrySend
  <1>6. /\ queue \in Nat /\ eventfd \in Nat /\ available_messages \in Nat
        /\ epoll_fd \in {"none", "open"} /\ receiver_notified \in BOOLEAN
        /\ port_alive \in BOOLEAN
    BY DEF TypeOK, LockProtocol, Descriptor
  <1>7. \/ /\ UNCHANGED <<receiver_notified, eventfd>>
           /\ \/ ~port_alive /\ queue' = queue
              \/ /\ port_alive /\ queue' = queue + 1
                 /\ queue > 0 \/ receiver_notified \/ NeedsWrite
           /\ doing'[Rx] = doing[Rx]
        \/ /\ port_alive /\ queue = 0 /\ ~receiver_notified /\ queue' = 1
           /\ receiver_notified'
           /\ \/ epoll_fd = "open" /\ eventfd' = eventfd + 1
                    /\ doing'[Rx] = doing[Rx]
              \/ epoll_fd = "none" /\ eventfd' = eventfd
                    /\ doing'[Rx] = IF doing[Rx] = "asleep" THEN "recv"
                                    ELSE doing[Rx]
    <2>. USE <1>0, <1>6
    <2>d. doing \in [Tasks -> LockingCalls \cup {"user_code", "asleep", "gone"}]
      BY DEF TypeOK, LockProtocol
    <2>1. CASE PortDead(s)
      BY <2>1, <2>d DEF PortDead, LeaveReceiverAlone, Unlock
    <2>2. CASE port_alive /\ queue' = queue + 1 /\ LeaveReceiverAlone(s, "user_code")
               /\ (queue > 0 \/ receiver_notified)
      BY <2>2, <2>d DEF LeaveReceiverAlone, Unlock
    <2>3. CASE /\ port_alive /\ queue' = queue + 1
               /\ queue = 0 /\ ~receiver_notified
               /\ NotifyReceiver(s, "user_code")
      <3>1. receiver_notified' = TRUE /\ queue' = 1
        BY <2>3 DEF NotifyReceiver
      <3>2. CASE epoll_fd = "open"
        <4>1. eventfd' = eventfd + 1 /\ Unlock(s, "user_code")
          BY <2>3, <3>2 DEF NotifyReceiver, NeedsWrite
        <4>2. doing'[Rx] = doing[Rx]
          BY <2>d, <4>1 DEF Unlock
        <4>. QED
          BY <2>3, <3>1, <3>2, <4>1, <4>2
      <3>3. CASE epoll_fd = "none"
        <4>1. /\ eventfd' = eventfd
              /\ doing' = [doing EXCEPT ![s] = "user_code",
                             ![Rx] = IF @ = "asleep" THEN "recv" ELSE @]
          BY <2>3, <3>3 DEF NotifyReceiver, NeedsWrite
        <4>2. doing'[Rx] = IF doing[Rx] = "asleep" THEN "recv" ELSE doing[Rx]
          BY <2>d, <4>1
        <4>. QED
          BY <2>3, <3>1, <3>3, <4>1, <4>2
      <3>. QED
        BY <3>2, <3>3
    <2>4. CASE /\ port_alive /\ queue' = queue + 1
               /\ NeedsWrite
               /\ UnlockAndFail(s, WhyRefused, "drop_transmitter")
               /\ UNCHANGED <<receiver_notified, eventfd>>
      BY <2>4, <2>d DEF UnlockAndFail, Unlock
    <2>. QED
      BY <2>1, <2>2, <2>3, <2>4 DEF TrySend
  <1>8. TypeOK'
    <2>1. queue' \in Nat /\ eventfd' \in Nat
      BY <1>6, <1>7
    <2>2. receiver_notified' \in BOOLEAN
      <3>1. receiver_notified' = receiver_notified \/ receiver_notified' = TRUE
        BY <1>1 DEF TrySend, PortDead, LeaveReceiverAlone, NotifyReceiver
      <3>. QED
        BY <1>6, <3>1, Zenon
    <2>. QED
      BY <1>2, <1>5, <2>1, <2>2 DEF TypeOK, LockProtocol
  <1>9. NoLostWakeup'
    BY <1>2, <1>4, <1>5, <1>6, <1>7
       DEF LockProtocol, NoLostWakeup, Notification, Descriptor, NeedsWrite
  <1>10. Roles'
    BY <1>0, <1>2, <1>5 DEF LockProtocol, Roles
  <1>11. TransmittersCounted'
    BY <1>3, <1>4, <1>5 DEF TransmittersCounted
  <1>12. Descriptor'
    BY <1>2, <1>5, <1>6, <1>7
       DEF LockProtocol, Descriptor, NoLostWakeup, NeedsWrite
  <1>13. Notification'
    <2>1. CASE UNCHANGED <<receiver_notified, eventfd>> /\ doing'[Rx] = doing[Rx]
      BY <1>2, <1>4, <1>5, <1>6, <1>7, <2>1
         DEF LockProtocol, Notification, Pending
    <2>2. CASE ~(UNCHANGED <<receiver_notified, eventfd>>
                 /\ doing'[Rx] = doing[Rx])
      <3>1. CASE epoll_fd = "open"
        <4>1. /\ port_alive /\ queue = 0 /\ ~receiver_notified /\ queue' = 1
              /\ receiver_notified'
              /\ eventfd' = eventfd + 1 /\ doing'[Rx] = doing[Rx]
          BY <1>7, <2>2, <3>1
        <4>2. Pending' = Pending + 1 /\ Pending \in Nat
          BY <1>6, <4>1 DEF Pending
        <4>3. Pending = 0 /\ (evented => available_messages = 0)
          BY <1>4, <1>6, <3>1, <4>1, <4>2 DEF LockProtocol, Notification
        <4>4. epoll_fd' = "open" => evented'
          BY <1>5 DEF LockProtocol, Descriptor
        <4>. QED
          BY <1>2, <1>4, <1>5, <1>6, <3>1, <4>1, <4>2, <4>3, <4>4
             DEF Notification
      <3>2. CASE epoll_fd = "none"
        BY <1>2, <1>4, <1>5, <1>6, <1>7, <2>2, <3>2
           DEF LockProtocol, Notification
      <3>. QED
        BY <1>6, <3>1, <3>2
    <2>. QED
      BY <2>1, <2>2
  <1>. QED
    BY <1>2, <1>8, <1>9, <1>10, <1>11, <1>12, <1>13 DEF LockProtocol

\* Transmitter::drop.  When the write to the eventfd is refused the task ends
\* in its destructor, or the process does when the task was failing already.
LEMMA DropTransmitterStep ==
    ASSUME LockProtocol, NEW s \in Senders, DropTransmitter(s)
    PROVE  LockProtocol'
  <1>0. /\ s \in Tasks /\ Rx \in Tasks /\ Rx \notin Senders
        /\ Senders \subseteq Tasks
        /\ inside[s] /\ doing[s] = "drop_transmitter"
    BY ChannelLockAssumption DEF Tasks, DropTransmitter
  <1>1. nr_senders = Cardinality(Alive) /\ nr_senders > 0 /\ nr_senders \in Nat
        /\ nr_senders <= Cardinality(Senders)
    <2>1. s \in Alive
      BY <1>0 DEF Alive
    <2>. QED
      BY <1>0, <2>1, SectionFacts, AliveIsFinite
  <1>2. /\ nr_senders' = nr_senders - 1
        /\ UNCHANGED <<queue, port_alive, epoll_fd, evented,
                       available_messages, sends>>
    BY DEF DropTransmitter
  <1>3. /\ queue \in Nat /\ eventfd \in Nat /\ available_messages \in Nat
        /\ epoll_fd \in {"none", "open"} /\ receiver_notified \in BOOLEAN
        /\ port_alive \in BOOLEAN /\ Cardinality(Senders) \in Nat
    BY AliveIsFinite DEF TypeOK, LockProtocol, Descriptor
  <1>4. nr_senders' \in 0 .. Cardinality(Senders)
    BY <1>1, <1>2, <1>3
  <1>. DEFINE C == LockingCalls \cup {"user_code", "asleep", "gone"}
              F == {"none", "disconnected", "bad_descriptor", "refused",
                    "not_registered"}
  <1>5. doing \in [Tasks -> C] /\ failure \in [Tasks -> F] /\ "gone" \in C
    BY DEF TypeOK, LockProtocol
  <1>. DEFINE LastOne == nr_senders = 1 /\ ~receiver_notified
  <1>6. CASE \/ LastOne /\ NotifyReceiver(s, "gone")
             \/ ~LastOne /\ LeaveReceiverAlone(s, "gone")
    <2>1. /\ doing'[s] = "gone"
          /\ \A u \in Senders : u # s => doing'[u] = doing[u]
          /\ doing'[Rx] = doing[Rx]
             \/ (doing[Rx] = "asleep" /\ doing'[Rx] = "recv" /\ ~NeedsWrite)
          /\ doing' \in [Tasks -> C]
          /\ failure'[Rx] = failure[Rx] /\ failure' \in [Tasks -> F]
          /\ MutualExclusion'
          /\ holder' \in Tasks \cup {Nobody} /\ inside' \in [Tasks -> BOOLEAN]
      BY <1>0, <1>6, SenderLeaves
    <2>. HIDE DEF C, F
    <2>2. \/ /\ UNCHANGED <<receiver_notified, eventfd>>
             /\ doing'[Rx] = doing[Rx]
             /\ nr_senders # 1 \/ receiver_notified
          \/ /\ nr_senders = 1 /\ ~receiver_notified /\ receiver_notified' = TRUE
             /\ \/ /\ epoll_fd = "open" /\ eventfd' = eventfd + 1
                   /\ doing'[Rx] = doing[Rx]
                \/ /\ epoll_fd = "none" /\ eventfd' = eventfd
                   /\ doing'[Rx] = IF doing[Rx] = "asleep" THEN "recv"
                                   ELSE doing[Rx]
      <3>1. CASE ~LastOne /\ LeaveReceiverAlone(s, "gone")
        BY <1>0, <1>5, <3>1 DEF LeaveReceiverAlone, Unlock
      <3>2. CASE LastOne /\ NotifyReceiver(s, "gone")
        <4>1. CASE epoll_fd = "open"
          BY <1>0, <1>5, <3>2, <4>1 DEF NotifyReceiver, NeedsWrite, Unlock
        <4>2. CASE epoll_fd = "none"
          BY <1>0, <1>5, <3>2, <4>2 DEF NotifyReceiver, NeedsWrite
        <4>. QED
          BY <1>3, <4>1, <4>2
      <3>. QED
        BY <1>6, <3>1, <3>2
    <2>3. TypeOK'
      <3>1. eventfd' \in Nat
        BY <1>3, <2>2
      <3>2. receiver_notified' \in BOOLEAN
        BY <1>3, <2>2, Zenon
      <3>. QED
        BY <1>2, <1>4, <2>1, <3>1, <3>2 DEF TypeOK, LockProtocol, C, F
    <2>4. TransmittersCounted'
      <3>1. Alive' = Alive \ {s} /\ s \in Alive
        BY <1>0, <2>1 DEF Alive
      <3>2. Cardinality(Alive') = Cardinality(Alive) - 1
        BY <3>1, AliveIsFinite, FS_RemoveElement
      <3>. QED
        BY <1>1, <1>2, <3>2 DEF TransmittersCounted
    <2>5. NoLostWakeup'
      BY <1>1, <1>2, <1>3, <2>2
         DEF LockProtocol, NoLostWakeup, Notification, Descriptor
    <2>6. Roles'
      BY <1>0, <1>2, <2>1 DEF LockProtocol, Roles
    <2>7. Descriptor'
      BY <1>2, <1>3, <2>1, <2>2 DEF LockProtocol, Descriptor, NoLostWakeup
    <2>8. Notification'
      <3>1. CASE nr_senders' = 0
        BY <3>1 DEF Notification
      <3>2. CASE nr_senders' # 0
        <4>1. /\ UNCHANGED <<receiver_notified, eventfd>>
              /\ doing'[Rx] = doing[Rx] /\ nr_senders # 0
          BY <1>1, <1>2, <2>2, <3>2
        <4>. QED
          BY <1>2, <2>1, <4>1 DEF LockProtocol, Notification, Pending
      <3>. QED
        BY <3>1, <3>2
    <2>. QED
      BY <2>1, <2>3, <2>4, <2>5, <2>6, <2>7, <2>8 DEF LockProtocol
  <1>7. CASE /\ LastOne /\ NeedsWrite
             /\ FailInDestructor(s, WhyRefused)
             /\ UNCHANGED <<receiver_notified, eventfd>>
    <2>1. /\ nr_senders = 1 /\ epoll_fd = "open"
          /\ FailInDestructor(s, WhyRefused)
          /\ UNCHANGED <<receiver_notified, eventfd>>
      BY <1>3, <1>7 DEF NeedsWrite
    <2>2. WhyRefused \in F
      BY DEF WhyRefused
    <2>. HIDE DEF C, F
    <2>3. /\ failure'[Rx] = failure[Rx] /\ failure' \in [Tasks -> F]
          /\ holder' = Nobody /\ inside' = [inside EXCEPT ![s] = FALSE]
      BY <1>0, <1>5, <2>1, <2>2 DEF FailInDestructor
    <2>4. /\ doing' \in [Tasks -> C] /\ doing'[s] = "gone"
          /\ \/ \A t \in Tasks : t # s => doing'[t] = doing[t]
             \/ \A t \in Tasks : doing'[t] = "gone"
      BY <1>0, <1>5, <2>1 DEF FailInDestructor
    <2>5. MutualExclusion' /\ holder' \in Tasks \cup {Nobody}
          /\ inside' \in [Tasks -> BOOLEAN]
      <3>1. ~MutexLost'
        BY <1>0, <2>3, SectionFacts DEF MutexLost
      <3>. QED
        BY <1>0, <2>3, <3>1, SectionIsLeft
    <2>6. TypeOK'
      BY <1>2, <1>4, <2>1, <2>3, <2>4, <2>5 DEF TypeOK, LockProtocol, C, F
    <2>7. TransmittersCounted'
      <3>1. CASE \A t \in Tasks : doing'[t] = "gone"
        BY <3>1 DEF TransmittersCounted
      <3>2. CASE \A t \in Tasks : t # s => doing'[t] = doing[t]
        <4>1. Alive' = Alive \ {s} /\ s \in Alive
          BY <1>0, <2>4, <3>2 DEF Alive
        <4>2. Cardinality(Alive') = Cardinality(Alive) - 1
          BY <4>1, AliveIsFinite, FS_RemoveElement
        <4>. QED
          BY <1>1, <1>2, <4>2 DEF TransmittersCounted
      <3>. QED
        BY <2>4, <3>1, <3>2
    <2>8. doing'[Rx] = doing[Rx] \/ doing'[Rx] = "gone"
      BY <1>0, <2>4
    <2>9. Roles'
      <3>1. \A u \in Senders : doing'[u] \in {doing[u], "gone"}
        BY <1>0, <2>4
      <3>. QED
        BY <1>2, <2>3, <2>8, <3>1 DEF LockProtocol, Roles
    <2>10. Descriptor' /\ NoLostWakeup'
      BY <1>2, <2>1, <2>8 DEF LockProtocol, Descriptor, NoLostWakeup
    <2>11. Notification'
      BY <1>1, <1>2, <2>1 DEF Notification
    <2>. QED
      BY <2>5, <2>6, <2>7, <2>9, <2>10, <2>11 DEF LockProtocol
  <1>. QED
    BY <1>6, <1>7 DEF DropTransmitter

\* What the end of a section changes in the tasks when the receiver's task
\* leaves it by releasing the mutex.
LEMMA ReceiverLeaves ==
    ASSUME LockProtocol, inside[Rx],
           NEW call \in {"user_code", "asleep", "gone", "drop_receiver",
                         "drop_blocking_receiver"},
           Unlock(Rx, call), UNCHANGED nr_senders,
           \/ UNCHANGED failure
           \/ \E why \in {"disconnected", "refused"} :
                  failure' = [failure EXCEPT ![Rx] = why]
    PROVE  /\ doing'[Rx] = call
           /\ \A u \in Senders : doing'[u] = doing[u]
           /\ doing' \in [Tasks -> LockingCalls \cup {"user_code", "asleep",
                                                     "gone"}]
           /\ failure' \in [Tasks -> {"none", "disconnected", "bad_descriptor",
                                     "refused", "not_registered"}]
           /\ MutualExclusion' /\ TransmittersCounted'
           /\ holder' \in Tasks \cup {Nobody} /\ inside' \in [Tasks -> BOOLEAN]
  <1>1. Rx \in Tasks /\ Rx \notin Senders /\ Senders \subseteq Tasks
    BY ChannelLockAssumption DEF Tasks
  <1>. DEFINE C == LockingCalls \cup {"user_code", "asleep", "gone"}
              F == {"none", "disconnected", "bad_descriptor", "refused",
                    "not_registered"}
  <1>2. doing \in [Tasks -> C] /\ failure \in [Tasks -> F] /\ call \in C
    BY DEF TypeOK, LockProtocol, LockingCalls
  <1>3. failure' \in [Tasks -> F] /\ failure'[Rx] # "not_registered"
    BY <1>1, <1>2, SectionFacts DEF MutexLost
  <1>. HIDE DEF C, F
  <1>4. /\ doing'[Rx] = call /\ doing' \in [Tasks -> C]
        /\ \A u \in Senders : doing'[u] = doing[u]
    BY <1>1, <1>2 DEF Unlock
  <1>5. MutualExclusion' /\ holder' \in Tasks \cup {Nobody}
        /\ inside' \in [Tasks -> BOOLEAN]
    <2>1. ~MutexLost'
      BY <1>3 DEF MutexLost
    <2>. QED
      BY <1>1, <2>1, SectionIsLeft DEF Unlock
  <1>6. TransmittersCounted'
    <2>1. Alive' = Alive
      BY <1>4 DEF Alive
    <2>. QED
      BY <1>1, <2>1, SectionFacts DEF TransmittersCounted
  <1>. QED
    BY <1>3, <1>4, <1>5, <1>6 DEF C, F

\* The scalar part of the types.
LEMMA LockScalars ==
    ASSUME LockProtocol
    PROVE  /\ queue \in Nat /\ eventfd \in Nat /\ available_messages \in Nat
           /\ epoll_fd \in {"none", "open"} /\ receiver_notified \in BOOLEAN
           /\ port_alive \in BOOLEAN /\ evented \in BOOLEAN
           /\ Rx \in Tasks
  BY DEF LockProtocol, TypeOK, Descriptor, Tasks

\* BlockingReceiver::recv: the task sleeps, takes a message, or fails because
\* everybody is gone.  A Receiver enters only with an announced message, which
\* is still queued unless the transmitters are gone.
LEMMA RecvStep ==
    ASSUME LockProtocol, Recv
    PROVE  LockProtocol'
  <1>0. inside[Rx] /\ doing[Rx] = "recv" /\ port_alive /\ failure[Rx] = "none"
    BY DEF Recv, LockProtocol, Roles
  <1>1. UNCHANGED <<port_alive, nr_senders, epoll_fd, eventfd, evented, sends>>
    BY DEF Recv
  <1>2. evented => available_messages > 0
    BY <1>0 DEF LockProtocol, Descriptor
  <1>. DEFINE Leaves(call) ==
                 /\ doing'[Rx] = call
                 /\ \A u \in Senders : doing'[u] = doing[u]
                 /\ MutualExclusion' /\ TransmittersCounted'
  <1>3. CASE /\ queue = 0 /\ nr_senders # 0
             /\ Unlock(Rx, "asleep")
             /\ UNCHANGED <<queue, receiver_notified, available_messages, failure>>
    <2>1. Leaves("asleep")
      BY <1>0, <1>1, <1>3, ReceiverLeaves
    <2>2. TypeOK'
      BY <1>0, <1>1, <1>3, ReceiverLeaves DEF TypeOK, LockProtocol
    <2>3. ~evented
      BY <1>0, <1>2, <1>3, LockScalars DEF LockProtocol, Notification
    <2>4. NoLostWakeup' /\ Roles'
      BY <1>0, <1>1, <1>3, <2>1, <2>3 DEF LockProtocol, NoLostWakeup, Roles
    <2>5. Descriptor' /\ Notification'
      BY <1>0, <1>1, <1>3, <2>1, <2>3
         DEF LockProtocol, Descriptor, Notification, Pending
    <2>. QED
      BY <2>1, <2>2, <2>4, <2>5 DEF LockProtocol
  <1>4. CASE /\ queue > 0
             /\ queue' = queue - 1
             /\ receiver_notified' = FALSE
             /\ available_messages' = available_messages
                                         - IF evented THEN 1 ELSE 0
             /\ Unlock(Rx, "user_code") /\ UNCHANGED failure
    <2>1. Leaves("user_code")
      BY <1>0, <1>1, <1>4, ReceiverLeaves
    <2>2. /\ queue' \in Nat /\ available_messages' \in Nat
          /\ evented => available_messages' = available_messages - 1
          /\ ~evented => available_messages' = 0
      BY <1>2, <1>4, LockScalars DEF LockProtocol, Descriptor
    <2>3. TypeOK'
      BY <1>0, <1>1, <1>4, <2>2, ReceiverLeaves DEF TypeOK, LockProtocol
    <2>4. NoLostWakeup' /\ Roles'
      BY <1>0, <1>1, <1>4, <2>1 DEF LockProtocol, NoLostWakeup, Roles
    <2>5. Descriptor'
      BY <1>0, <1>1, <2>1, <2>2 DEF LockProtocol, Descriptor
    <2>6. Notification'
      <3>1. Pending' = Pending /\ Pending \in Nat
        BY <1>0, <1>1, <2>1, LockScalars DEF Pending
      <3>2. epoll_fd = "open" /\ nr_senders # 0 =>
                ~receiver_notified /\ Pending = 0
        BY <1>0, <1>2, <3>1, LockScalars
           DEF LockProtocol, Notification, Descriptor
      <3>. QED
        BY <1>0, <1>1, <1>4, <2>2, <3>1, <3>2, LockScalars
           DEF LockProtocol, Notification
    <2>. QED
      BY <2>1, <2>3, <2>4, <2>5, <2>6 DEF LockProtocol
  <1>5. CASE /\ queue = 0 /\ nr_senders = 0
             /\ UnlockAndFail(Rx, "disconnected", DropOfReceivingEnd)
             /\ UNCHANGED <<queue, receiver_notified, available_messages>>
    <2>1. /\ Unlock(Rx, DropOfReceivingEnd)
          /\ failure' = [failure EXCEPT ![Rx] = "disconnected"]
          /\ DropOfReceivingEnd \in {"drop_receiver", "drop_blocking_receiver"}
          /\ DropOfReceivingEnd = "drop_receiver" => evented
      BY <1>5 DEF UnlockAndFail, DropOfReceivingEnd
    <2>2. Leaves(DropOfReceivingEnd)
      BY <1>0, <1>1, <2>1, ReceiverLeaves
    <2>3. TypeOK'
      BY <1>0, <1>1, <1>5, <2>1, ReceiverLeaves DEF TypeOK, LockProtocol
    <2>4. NoLostWakeup' /\ Roles'
      BY <1>0, <1>1, <1>5, <2>1, <2>2 DEF LockProtocol, NoLostWakeup, Roles
    <2>5. Descriptor' /\ Notification'
      BY <1>0, <1>1, <1>5, <2>1, <2>2
         DEF LockProtocol, Descriptor, Notification
    <2>. QED
      BY <2>2, <2>3, <2>4, <2>5 DEF LockProtocol
  <1>. QED
    BY <1>3, <1>4, <1>5 DEF Recv

\* Receiver::from_blocking_receiver.  Whatever the kernel refuses, the half
\* made Receiver has a descriptor of a file that is still open, or none; the
\* refusal of epoll_ctl is the one that loses the mutex.
LEMMA RegisterStep ==
    ASSUME LockProtocol, Register
    PROVE  LockProtocol'
  <1>0. /\ inside[Rx] /\ doing[Rx] = "register" /\ port_alive
        /\ failure[Rx] = "none" /\ evented
        /\ epoll_fd = "none" /\ available_messages = 0 /\ eventfd = 0
    BY DEF Register, LockProtocol, Roles, Descriptor
  <1>1. UNCHANGED <<queue, port_alive, nr_senders, evented,
                    available_messages, sends>>
    BY DEF Register
  <1>. DEFINE Leaves(call) ==
                 /\ doing'[Rx] = call
                 /\ \A u \in Senders : doing'[u] = doing[u]
                 /\ MutualExclusion' /\ TransmittersCounted'
  <1>2. CASE nr_senders # 0 /\ (NoEventfd \/ OwnWriteFails)
    <2>1. /\ Unlock(Rx, "drop_receiver")
          /\ failure' = [failure EXCEPT ![Rx] = "refused"]
          /\ UNCHANGED <<eventfd, receiver_notified>>
          /\ epoll_fd' \in {"none", "open"}
      BY <1>0, <1>2 DEF NoEventfd, OwnWriteFails, UnlockAndFail
    <2>2. Leaves("drop_receiver") /\ TypeOK'
      BY <1>0, <1>1, <2>1, ReceiverLeaves DEF TypeOK, LockProtocol
    <2>3. failure'[Rx] = "refused"
      BY <2>1, LockScalars DEF LockProtocol, TypeOK
    <2>4. NoLostWakeup' /\ Roles'
      BY <1>0, <1>1, <2>1, <2>2 DEF LockProtocol, NoLostWakeup, Roles
    <2>5. Descriptor' /\ Notification'
      BY <1>0, <1>1, <2>1, <2>2, <2>3, LockScalars
         DEF LockProtocol, Descriptor, Notification, Pending
    <2>. QED
      BY <2>2, <2>4, <2>5 DEF LockProtocol
  <1>3. CASE nr_senders # 0 /\ RegisterFdFails
    <2>. DEFINE C == LockingCalls \cup {"user_code", "asleep", "gone"}
    <2>1. /\ Rx \in Tasks /\ Rx \notin Senders /\ Senders \subseteq Tasks
          /\ doing \in [Tasks -> C] /\ "drop_receiver" \in C
          /\ inside \in [Tasks -> BOOLEAN]
      BY ChannelLockAssumption DEF Tasks, TypeOK, LockProtocol, LockingCalls
    <2>. HIDE DEF C
    <2>2. /\ holder' = holder /\ holder = Rx
          /\ inside' = [inside EXCEPT ![Rx] = FALSE]
          /\ \A u \in Tasks : u # Rx => ~inside[u]
          /\ UNCHANGED <<eventfd, receiver_notified>> /\ epoll_fd' = "open"
      BY <1>0, <1>3, <2>1, SectionFacts DEF RegisterFdFails, FailLocked
    <2>3. /\ doing'[Rx] = "drop_receiver" /\ doing' \in [Tasks -> C]
          /\ \A u \in Senders : doing'[u] = doing[u]
          /\ failure'[Rx] = "not_registered"
          /\ failure' \in [Tasks -> {"none", "disconnected", "bad_descriptor",
                                    "refused", "not_registered"}]
      BY <1>3, <2>1 DEF RegisterFdFails, FailLocked, LockProtocol, TypeOK
    <2>4. inside' \in [Tasks -> BOOLEAN] /\ \A u \in Tasks : ~inside'[u]
      BY <2>1, <2>2
    <2>5. MutualExclusion'
      BY <2>1, <2>2, <2>3, <2>4 DEF MutualExclusion, MutexLost
    <2>6. TypeOK'
      BY <1>1, <2>2, <2>3, <2>4 DEF LockProtocol, TypeOK, C
    <2>7. TransmittersCounted'
      <3>1. Alive' = Alive
        BY <2>3 DEF Alive
      <3>. QED
        BY <1>0, <1>1, <2>1, <3>1, SectionFacts DEF TransmittersCounted
    <2>8. NoLostWakeup' /\ Roles'
      BY <1>0, <1>1, <2>2, <2>3 DEF LockProtocol, NoLostWakeup, Roles
    <2>9. Descriptor' /\ Notification'
      BY <1>0, <1>1, <2>2, <2>3, LockScalars
         DEF LockProtocol, Descriptor, Notification, Pending
    <2>. QED
      BY <2>5, <2>6, <2>7, <2>8, <2>9 DEF LockProtocol
  <1>4. CASE nr_senders # 0 /\ Registered
    <2>1. /\ Unlock(Rx, "user_code") /\ UNCHANGED failure
          /\ epoll_fd' = "open"
          /\ \/ queue > 0 /\ eventfd' = 1 /\ receiver_notified' = TRUE
             \/ queue = 0 /\ UNCHANGED <<eventfd, receiver_notified>>
      BY <1>4, LockScalars DEF Registered
    <2>2. eventfd' \in Nat
      BY <1>0, <2>1
    <2>3. receiver_notified' \in BOOLEAN
      BY <2>1, LockScalars, Zenon
    <2>4. Leaves("user_code") /\ TypeOK'
      BY <1>0, <1>1, <2>1, <2>2, <2>3, ReceiverLeaves DEF TypeOK, LockProtocol
    <2>5. NoLostWakeup' /\ Roles'
      BY <1>0, <1>1, <2>1, <2>4 DEF LockProtocol, NoLostWakeup, Roles
    <2>6. Descriptor'
      BY <1>0, <1>1, <2>1, <2>4 DEF Descriptor
    <2>7. Notification'
      <3>1. Pending' = eventfd'
        <4>1. doing'[Rx] = "user_code" /\ eventfd' \in Nat
          BY <2>2, <2>4
        <4>2. Pending' = eventfd' + 0
          BY <4>1 DEF Pending
        <4>3. \A n \in Nat : n + 0 = n
          OBVIOUS
        <4>. QED
          BY <4>1, <4>2, <4>3
      <3>2. queue = 0 => ~receiver_notified
        BY <1>0, <1>4 DEF LockProtocol, Notification
      <3>. QED
        BY <1>0, <1>1, <2>1, <3>1, <3>2, LockScalars DEF Notification
    <2>. QED
      BY <2>4, <2>5, <2>6, <2>7 DEF LockProtocol
  <1>5. CASE /\ nr_senders = 0
             /\ LeaveReceiverAlone(Rx, "user_code") /\ UNCHANGED epoll_fd
    <2>1. /\ Unlock(Rx, "user_code")
          /\ UNCHANGED <<failure, receiver_notified, eventfd, epoll_fd>>
      BY <1>5 DEF LeaveReceiverAlone
    <2>2. Leaves("user_code") /\ TypeOK'
      BY <1>0, <1>1, <2>1, ReceiverLeaves DEF TypeOK, LockProtocol
    <2>3. NoLostWakeup' /\ Roles'
      BY <1>0, <1>1, <2>1, <2>2 DEF LockProtocol, NoLostWakeup, Roles
    <2>4. Descriptor' /\ Notification'
      BY <1>0, <1>1, <1>5, <2>1, <2>2
         DEF LockProtocol, Descriptor, Notification
    <2>. QED
      BY <2>2, <2>3, <2>4 DEF LockProtocol
  <1>. QED
    BY <1>2, <1>3, <1>4, <1>5 DEF Register

\* Receiver::process_epoll_events: everything queued is announced, and the
\* notification the callback answers is the only one under way.
LEMMA CallbackStep ==
    ASSUME LockProtocol, Callback
    PROVE  LockProtocol'
  <1>0. /\ inside[Rx] /\ doing[Rx] = "callback" /\ port_alive
        /\ failure[Rx] = "none" /\ epoll_fd = "open" /\ evented
    BY LockScalars DEF Callback, LockProtocol, Roles, Descriptor
  <1>1. /\ UNCHANGED <<failure, queue, port_alive, nr_senders, epoll_fd,
                       eventfd, evented, sends>>
        /\ available_messages' = available_messages + queue
        /\ receiver_notified' = FALSE /\ Unlock(Rx, "user_code")
    BY DEF Callback
  <1>2. /\ doing'[Rx] = "user_code"
        /\ \A u \in Senders : doing'[u] = doing[u]
        /\ MutualExclusion' /\ TransmittersCounted'
    BY <1>0, <1>1, ReceiverLeaves
  <1>3. available_messages' \in Nat
    BY <1>1, LockScalars
  <1>4. TypeOK'
    BY <1>0, <1>1, <1>3, ReceiverLeaves DEF TypeOK, LockProtocol
  <1>5. NoLostWakeup' /\ Roles'
    BY <1>0, <1>1, <1>2 DEF LockProtocol, NoLostWakeup, Roles
  <1>6. Descriptor'
    BY <1>0, <1>1, <1>2 DEF Descriptor
  <1>7. Notification'
    <2>1. Pending = eventfd + 1 /\ Pending' = eventfd
      BY <1>0, <1>1, <1>2, LockScalars DEF Pending
    <2>2. nr_senders # 0 => eventfd = 0 /\ available_messages = 0
      BY <1>0, <2>1, LockScalars DEF LockProtocol, Notification
    <2>. QED
      BY <1>0, <1>1, <2>1, <2>2, LockScalars DEF Notification
  <1>. QED
    BY <1>2, <1>4, <1>5, <1>6, <1>7 DEF LockProtocol

\* Receiver::drop: the descriptor leaves the shared data in the section that
\* closes it.
LEMMA DropReceiverStep ==
    ASSUME LockProtocol, DropReceiver
    PROVE  LockProtocol'
  <1>0. inside[Rx] /\ doing[Rx] = "drop_receiver" /\ port_alive /\ evented
    BY DEF DropReceiver, LockProtocol, Roles, Descriptor
  <1>1. /\ UNCHANGED <<failure, queue, port_alive, nr_senders,
                       receiver_notified, evented, available_messages, sends>>
        /\ epoll_fd' = "none" /\ eventfd' = 0
        /\ Unlock(Rx, "drop_blocking_receiver")
    BY DEF DropReceiver
  <1>2. /\ doing'[Rx] = "drop_blocking_receiver"
        /\ \A u \in Senders : doing'[u] = doing[u]
        /\ MutualExclusion' /\ TransmittersCounted'
    BY <1>0, <1>1, ReceiverLeaves
  <1>3. TypeOK'
    BY <1>0, <1>1, ReceiverLeaves DEF TypeOK, LockProtocol
  <1>4. NoLostWakeup' /\ Roles'
    BY <1>0, <1>1, <1>2 DEF LockProtocol, NoLostWakeup, Roles
  <1>5. Descriptor' /\ Notification'
    BY <1>0, <1>1, <1>2 DEF LockProtocol, Descriptor, Notification
  <1>. QED
    BY <1>2, <1>3, <1>4, <1>5 DEF LockProtocol

\* BlockingReceiver::drop: the port is dead and nothing is left in it.
LEMMA DropBlockingReceiverStep ==
    ASSUME LockProtocol, DropBlockingReceiver
    PROVE  LockProtocol'
  <1>0. inside[Rx] /\ doing[Rx] = "drop_blocking_receiver"
    BY DEF DropBlockingReceiver
  <1>1. /\ UNCHANGED <<failure, nr_senders, receiver_notified, epoll_fd,
                       eventfd, evented, available_messages, sends>>
        /\ port_alive' = FALSE /\ queue' = 0 /\ Unlock(Rx, "gone")
    BY DEF DropBlockingReceiver
  <1>2. /\ doing'[Rx] = "gone"
        /\ \A u \in Senders : doing'[u] = doing[u]
        /\ MutualExclusion' /\ TransmittersCounted'
    BY <1>0, <1>1, ReceiverLeaves
  <1>3. TypeOK'
    BY <1>0, <1>1, ReceiverLeaves DEF TypeOK, LockProtocol
  <1>4. NoLostWakeup' /\ Roles'
    BY <1>0, <1>1, <1>2 DEF LockProtocol, NoLostWakeup, Roles
  <1>5. Descriptor'
    BY <1>0, <1>1, <1>2 DEF LockProtocol, Descriptor
  <1>6. Notification'
    BY <1>0, <1>1, <1>2, LockScalars DEF LockProtocol, Notification, Pending
  <1>. QED
    BY <1>2, <1>3, <1>4, <1>5, <1>6 DEF LockProtocol

-----------------------------------------------------------------------------
(* Theorems                                                                 *)

\* No step breaks the protocol.
LEMMA LockProtocolStep ==
    ASSUME LockProtocol, [Next]_vars
    PROVE  LockProtocol'
  <1>1. CASE \E s \in Senders : \/ CallTrySend(s)
                                \/ CallDropTransmitter(s)
                                \/ SenderSection(s)
    BY <1>1, SenderCallStep, TrySendStep, DropTransmitterStep DEF SenderSection
  <1>2. CASE CallRecv \/ CallRegister \/ CallCallback \/ CallDropReceiver
    BY <1>2, ReceiverCallStep
  <1>3. CASE ReceiverSection
    BY <1>3, RecvStep, RegisterStep, CallbackStep, DropReceiverStep,
       DropBlockingReceiverStep DEF ReceiverSection
  <1>4. CASE \E t \in Tasks : Lock(t)
    BY <1>4, LockStep
  <1>5. CASE UNCHANGED vars
    BY <1>5 DEF LockProtocol, TypeOK, MutualExclusion, MutexLost, NoLostWakeup,
       Roles, TransmittersCounted, Alive, Descriptor, Notification, Pending,
       vars, lockvars
  <1>. QED
    BY <1>1, <1>2, <1>3, <1>4, <1>5 DEF Next

\* The channel keeps its protocol: the mutex excludes, the sleeping receiver
\* has nothing to receive, the counters count, the flag and the eventfd are
\* in step, whatever the kernel refuses and whichever tasks fail on the way.
THEOREM LockProtocolHolds == FairSpec => []LockProtocol
  <1>. QED
    BY LockInit, LockProtocolStep, PTL DEF FairSpec

\* A task that is inside a locked section is there alone, and a mutex that is
\* held by a task outside every section is the one that register_fd's failure
\* has lost.
THEOREM SectionsExclude ==
    FairSpec => [](/\ \A t, u \in Tasks : inside[t] /\ inside[u] => t = u
                   /\ holder # Nobody => inside[holder] \/ MutexLost)
  <1>1. LockProtocol =>
            /\ \A t, u \in Tasks : inside[t] /\ inside[u] => t = u
            /\ holder # Nobody => inside[holder] \/ MutexLost
    BY DEF LockProtocol, MutualExclusion
  <1>. QED
    BY <1>1, LockProtocolHolds, PTL

\* recv sleeps only while there is nothing to receive and somebody who can
\* still send, also when a write to the eventfd or its registration fails.
THEOREM NobodySleepsOnAMessage == FairSpec => []NoLostWakeup
  <1>1. LockProtocol => NoLostWakeup
    BY DEF LockProtocol
  <1>. QED
    BY <1>1, LockProtocolHolds, PTL

\* No transmitter writes to a descriptor that the receiver has closed: a task
\* fails with a bad descriptor only when it finds one in the shared data, and
\* Receiver::drop takes it from there in the section that closes it.
THEOREM NoWriteAfterCloseHolds == FairSpec => []NoWriteAfterClose
  <1>1. Init => NoWriteAfterClose
    BY DEF Init, NoWriteAfterClose
  <1>2. ASSUME LockProtocol, NoWriteAfterClose, [Next]_vars
        PROVE  NoWriteAfterClose'
    <2>1. /\ WhyRefused = "refused"
          /\ failure \in [Tasks -> {"none", "disconnected", "bad_descriptor",
                                    "refused", "not_registered"}]
          /\ Senders \subseteq Tasks /\ Rx \in Tasks
      BY <1>2 DEF LockProtocol, TypeOK, Descriptor, WhyRefused, Tasks
    <2>2. \/ UNCHANGED failure
          \/ \E t \in Tasks, why \in {"disconnected", "refused",
                                       "not_registered"} :
                 failure' = [failure EXCEPT ![t] = why]
      <3>1. CASE \E s \in Senders : CallTrySend(s) \/ CallDropTransmitter(s)
        BY <3>1 DEF CallTrySend, CallDropTransmitter, Enters
      <3>2. CASE \E s \in Senders : TrySend(s)
        BY <2>1, <3>2 DEF TrySend, PortDead, LeaveReceiverAlone,
           NotifyReceiver, UnlockAndFail
      <3>3. CASE \E s \in Senders : DropTransmitter(s)
        BY <2>1, <3>3 DEF DropTransmitter, LeaveReceiverAlone,
           NotifyReceiver, FailInDestructor
      <3>4. CASE CallRecv \/ CallRegister \/ CallCallback \/ CallDropReceiver
        BY <3>4 DEF CallRecv, CallRegister, CallCallback, CallDropReceiver,
           Enters
      <3>5. CASE ReceiverSection
        BY <2>1, <3>5 DEF ReceiverSection, Recv, Register, NoEventfd,
           RegisterFdFails, OwnWriteFails, Registered, LeaveReceiverAlone,
           UnlockAndFail, FailLocked, Callback, DropReceiver,
           DropBlockingReceiver
      <3>6. CASE (\E t \in Tasks : Lock(t)) \/ UNCHANGED vars
        BY <3>6 DEF Lock, vars
      <3>. QED
        BY <1>2, <3>1, <3>2, <3>3, <3>4, <3>5, <3>6 DEF Next, SenderSection
    <2>. QED
      BY <1>2, <2>1, <2>2 DEF NoWriteAfterClose
  <1>. QED
    BY <1>1, <1>2, LockProtocolHolds, PTL DEF FairSpec

=============================================================================
