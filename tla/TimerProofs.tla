----------------------------- MODULE TimerProofs -----------------------------
(***************************************************************************)
(* Proofs about module Timer, for any set of intervals, any number of      *)
(* unread expirations and any number of events of other sources.           *)
(***************************************************************************)
EXTENDS Timer, EventQueueProofs

\* The conversion of Timer::start is accepted by the kernel, and disarms the
\* timer exactly for the interval that start refuses.
LEMMA TimespecIsNormalised ==
    ASSUME NEW ms \in Nat
    PROVE  Timespec(ms) \in Timespecs /\ (Timespec(ms) = Zero <=> ms = 0)
  <1>1. ms \div 1000 \in Nat /\ ms % 1000 \in 0 .. 999
    BY SMT
  <1>2. (ms % 1000) * 1000000 \in {nsec \in Nat : nsec < 1000000000}
    <2>. DEFINE r == ms % 1000
    <2>1. r \in 0 .. 999
      BY <1>1
    <2>. HIDE DEF r
    <2>2. r * 1000000 \in {nsec \in Nat : nsec < 1000000000}
      BY <2>1, SMT
    <2>. QED
      BY <2>2, SMT DEF r
  <1>3. Timespec(ms) \in Timespecs
    BY <1>1, <1>2, SMT DEF Timespec, Timespecs
  <1>4. ASSUME ms = 0
        PROVE  Timespec(ms) = Zero
    BY <1>4, SMT DEF Timespec, Zero
  <1>5. ASSUME Timespec(ms) = Zero
        PROVE  ms = 0
    <2>. DEFINE q == ms \div 1000
                r == ms % 1000
    <2>1. q \in Nat /\ r \in 0 .. 999
      BY <1>1
    <2>2. (q = 0 /\ r = 0) => ms = 0
      BY SMT
    <2>3. Timespec(ms) = [tv_sec |-> q, tv_nsec |-> r * 1000000]
      BY SMT DEF Timespec
    <2>. HIDE DEF q, r
    <2>4. q = 0 /\ r * 1000000 = 0
      BY <1>5, <2>3, SMT DEF Zero
    <2>5. r = 0
      BY <2>1, <2>4, SMT
    <2>. QED
      BY <2>2, <2>4, <2>5
  <1>. QED
    BY <1>3, <1>4, <1>5, SMT

-----------------------------------------------------------------------------
(* No system call is refused                                                *)

\* The inductive invariant: epoll_registered mirrors the kernel's entry, and
\* an active timer has one.
RegistrationKnown ==
    /\ ~failed
    /\ interval \in Nat
    /\ exists => (epoll_registered <=> interest # "none")
    /\ exists /\ is_active => interest # "none"

\* Whatever the client calls, in whatever order, and whenever the timer
\* expires, epoll_ctl and timerfd_settime are never called in a way that
\* fails the task (Timer::start, Timer::stop).
THEOREM CallsAreAccepted == Spec => []NoCallRefused
  <1>1. Init => RegistrationKnown
    BY DEF Init, RegistrationKnown
  <1>2. RegistrationKnown /\ [Next]_vars => RegistrationKnown'
    <2>. SUFFICES ASSUME RegistrationKnown, [Next]_vars
                  PROVE  RegistrationKnown'
      OBVIOUS
    <2>. USE DEF RegistrationKnown
    <2>1. ASSUME NEW ms \in Intervals, SetInterval(ms)
          PROVE  RegistrationKnown'
      BY <2>1, TimerAssumption DEF SetInterval, kernel
    <2>2. ASSUME NEW value \in BOOLEAN, SetSingleshot(value)
          PROVE  RegistrationKnown'
      BY <2>2 DEF SetSingleshot, kernel
    <2>3. ASSUME Stop
          PROVE  RegistrationKnown'
      BY <2>3 DEF Stop, InUserCode, RegisteredAfterStop
    <2>4. ASSUME Start
          PROVE  RegistrationKnown'
      BY <2>4, TimespecIsNormalised DEF Start, InUserCode, Accepted
    <2>5. ASSUME Expire
          PROVE  RegistrationKnown'
      BY <2>5 DEF Expire, fields
    <2>6. ASSUME Tick
          PROVE  RegistrationKnown'
      BY <2>6 DEF Tick, ActiveAfterTick
    <2>7. ASSUME NextEvent \/ \E count \in 1 .. MaxOther : OtherSource(count)
          PROVE  RegistrationKnown'
      BY <2>7 DEF NextEvent, OtherSource, fields, kernel
    <2>8. ASSUME Drop
          PROVE  RegistrationKnown'
      BY <2>8 DEF Drop
    <2>9. ASSUME StopInactive \/ StartRefused \/ UNCHANGED vars
          PROVE  RegistrationKnown'
      BY <2>9 DEF StopInactive, StartRefused, vars, fields, kernel
    <2>. QED
      BY <2>1, <2>2, <2>3, <2>4, <2>5, <2>6, <2>7, <2>8, <2>9 DEF Next
  <1>3. RegistrationKnown => NoCallRefused
    BY DEF RegistrationKnown, NoCallRefused
  <1>. QED
    BY <1>1, <1>2, <1>3, PTL DEF Spec

-----------------------------------------------------------------------------
(* Types                                                                    *)

\* The timer and the event queue keep their types, whatever happens.
THEOREM TypeCorrect == Spec => []TypeOK
  <1>. USE TimerAssumption DEF TypeOK, history
  <1>0. Zero \in Timespecs
    BY SMT DEF Zero, Timespecs
  <1>. HIDE DEF Zero
  <1>1. Init => TypeOK
    <2>. SUFFICES ASSUME Init
                  PROVE  TypeOK
      OBVIOUS
    <2>1. EventQueueTypeOK
      BY DEF Init, EventQueueInit, EventQueueTypeOK
    <2>2. ticks \in 0 .. MaxTicks /\ interval \in Intervals
      BY DEF Init
    <2>. QED
      BY <1>0, <2>1, <2>2, Zenon DEF Init
  <1>2. TypeOK /\ [Next]_vars => TypeOK'
    <2>. SUFFICES ASSUME TypeOK, [Next]_vars
                  PROVE  TypeOK'
      OBVIOUS
    <2>0. ASSUME UNCHANGED eqvars
          PROVE  EventQueueTypeOK'
      BY <2>0 DEF eqvars, EventQueueTypeOK
    <2>s. ASSUME NEW source, RemovePendingEvents(source),
                 UNCHANGED <<loop, returned>>
          PROVE  EventQueueTypeOK'
      BY <2>s, RemovePendingIsSequence
         DEF RemovePendingEvents, EventQueueTypeOK
    <2>1. ASSUME NEW ms \in Intervals, SetInterval(ms)
          PROVE  TypeOK'
      BY <2>0, <2>1 DEF SetInterval, kernel
    <2>2. ASSUME NEW value \in BOOLEAN, SetSingleshot(value)
          PROVE  TypeOK'
      BY <2>0, <2>2 DEF SetSingleshot, kernel
    <2>3. ASSUME Stop
          PROVE  TypeOK'
      <3>1. EventQueueTypeOK'
        BY <2>s, <2>3 DEF Stop, Silence
      <3>2. ticks' \in 0 .. MaxTicks
        BY <2>3 DEF Stop, Settime
      <3>3. failed' \in BOOLEAN
        BY <2>3, Zenon DEF Stop
      <3>. QED
        BY <1>0, <2>3, <3>1, <3>2, <3>3, Zenon
           DEF Stop, Settime, RegisteredAfterStop
    <2>4. ASSUME Start
          PROVE  TypeOK'
      <3>1. Timespec(interval) \in Timespecs
        BY TimespecIsNormalised
      <3>2. EventQueueTypeOK'
        BY <2>0, <2>4 DEF Start
      <3>3. ticks' \in 0 .. MaxTicks
        BY <2>4 DEF Start, Settime
      <3>4. failed' \in BOOLEAN
        BY <2>4, Zenon DEF Start
      <3>. QED
        BY <1>0, <2>4, <3>1, <3>2, <3>3, <3>4, Zenon DEF Start, Settime
    <2>5. ASSUME Expire
          PROVE  TypeOK'
      BY <2>0, <2>5 DEF Expire, fields
    <2>6. ASSUME Tick
          PROVE  TypeOK'
      <3>1. NewEvent("Timer", TimerInfo) \in EventsOf(Sources)
        BY DEF NewEvent, EventsOf, EventKind
      <3>2. EventQueueTypeOK'
        BY <2>6, <3>1, RepeatIsSequence, FinishPollType DEF Tick
      <3>3. ticks' \in 0 .. MaxTicks
        BY <2>6 DEF Tick
      <3>. QED
        BY <2>6, <3>2, <3>3, Zenon DEF Tick, ActiveAfterTick
    <2>7. ASSUME NEW count \in 1 .. MaxOther, OtherSource(count)
          PROVE  TypeOK'
      <3>1. NewEvent("DataAvailable", Other) \in EventsOf(Sources)
        BY DEF NewEvent, EventsOf, EventKind
      <3>2. EventQueueTypeOK'
        BY <2>7, <3>1, RepeatIsSequence, FinishPollType DEF OtherSource
      <3>. QED
        BY <2>7, <3>2 DEF OtherSource, fields, kernel
    <2>8. ASSUME NextEvent
          PROVE  TypeOK'
      BY <2>8, NextEventType DEF NextEvent, fields, kernel
    <2>9. ASSUME Drop
          PROVE  TypeOK'
      <3>1. EventQueueTypeOK'
        BY <2>s, <2>9 DEF Drop, Silence
      <3>2. ticks' \in 0 .. MaxTicks
        BY <2>9 DEF Drop, Settime
      <3>. QED
        BY <1>0, <2>9, <3>1, <3>2, Zenon DEF Drop, Settime
    <2>10. ASSUME StopInactive \/ StartRefused \/ UNCHANGED vars
           PROVE  TypeOK'
      BY <2>0, <2>10 DEF StopInactive, StartRefused, vars, fields, kernel
    <2>. QED
      BY <2>1, <2>2, <2>3, <2>4, <2>5, <2>6, <2>7, <2>8, <2>9, <2>10 DEF Next
  <1>. QED
    BY <1>1, <1>2, PTL DEF Spec

-----------------------------------------------------------------------------
(* Nothing is pending in a callback                                         *)

\* One step of the timer's client, of the kernel or of another source keeps
\* the list empty while the owner polls.
LEMMA NothingPendingStep ==
    ASSUME TypeOK, NothingPendingInCallback, [Next]_vars
    PROVE  NothingPendingInCallback'
  <1>1. ASSUME Tick
        PROVE  NothingPendingInCallback'
    <2>1. ready_events = <<>> /\ ticks \in Nat
      BY <1>1, TimerAssumption DEF Tick, NothingPendingInCallback, TypeOK
    <2>2. NewEvent("Timer", TimerInfo).is_valid
      BY DEF NewEvent
    <2>. QED
      BY <1>1, <2>1, <2>2, FinishPollLeavesNothing DEF Tick
  <1>2. ASSUME NEW count \in 1 .. MaxOther, OtherSource(count)
        PROVE  NothingPendingInCallback'
    <2>1. ready_events = <<>> /\ count \in Nat
      BY <1>2, TimerAssumption DEF OtherSource, NothingPendingInCallback
    <2>2. NewEvent("DataAvailable", Other).is_valid
      BY DEF NewEvent
    <2>. QED
      BY <1>2, <2>1, <2>2, FinishPollLeavesNothing DEF OtherSource
  <1>3. ASSUME NextEvent \/ Stop \/ Drop
        PROVE  NothingPendingInCallback'
    BY <1>3 DEF NextEvent, NextEventReady, NextEventPoll, Stop, Drop,
       InUserCode, NothingPendingInCallback
  <1>4. ASSUME UNCHANGED eqvars
        PROVE  NothingPendingInCallback'
    BY <1>4 DEF eqvars, NothingPendingInCallback
  <1>. QED
    BY <1>1, <1>2, <1>3, <1>4
       DEF Next, SetInterval, SetSingleshot, StopInactive, Start,
           StartRefused, Expire, vars

\* A callback never runs, and epoll_wait is never entered, while an event is
\* in the list (EventQueueImpl::next_event).
THEOREM CallbacksFindNothing == Spec => []NothingPendingInCallback
  <1>1. Init => NothingPendingInCallback
    BY DEF Init, EventQueueInit, NothingPendingInCallback
  <1>2. TypeOK /\ NothingPendingInCallback /\ [Next]_vars
            => NothingPendingInCallback'
    BY NothingPendingStep
  <1>. QED
    BY <1>1, <1>2, TypeCorrect, PTL DEF Spec

-----------------------------------------------------------------------------
(* A timer whose mode was not changed since it was started                  *)

\* The inductive invariant: is_active knows what the kernel timer will do, the
\* entry at epoll fits the mode, a single shot fires once, and only a periodic
\* timer leaves ticks in the list.
ActivityKnown ==
    exists /\ ~reconfigured =>
        /\ is_active <=> (it_value # Zero \/ ticks > 0)
        /\ is_active /\ singleshot =>
              /\ interest \in {"level", "oneshot"}
              /\ it_interval = Zero
              /\ ticks = 0 \/ (ticks = 1 /\ it_value = Zero)
        /\ is_active /\ ~singleshot =>
              /\ interest = "level"
              /\ it_interval # Zero
              /\ it_value # Zero
        /\ Silent(ready_events, TimerInfo) \/ (is_active /\ ~singleshot)

\* ActivityKnown holds in every reachable state.
LEMMA ActivityStaysKnown == Spec => []ActivityKnown
  <1>1. Init => ActivityKnown
    BY DEF Init, EventQueueInit, ActivityKnown, Silent
  <1>2. TypeOK /\ NothingPendingInCallback /\ ActivityKnown /\ [Next]_vars
            => ActivityKnown'
    <2>. SUFFICES ASSUME TypeOK, NothingPendingInCallback, ActivityKnown,
                         [Next]_vars
                  PROVE  ActivityKnown'
      OBVIOUS
    <2>0. /\ ready_events \in Seq(EventsOf(Sources))
          /\ interval \in Nat
          /\ ticks \in Nat
      BY TimerAssumption DEF TypeOK, EventQueueTypeOK
    <2>. USE DEF ActivityKnown, history
    <2>1. ASSUME Stop
          PROVE  ActivityKnown'
      <3>1. Silent(ready_events, TimerInfo)'
        BY <2>0, <2>1, RemovePendingSilences
           DEF Stop, Silence, RemovePendingEvents
      <3>. QED
        BY <2>1, <3>1 DEF Stop, Settime
    <2>2. ASSUME Start
          PROVE  ActivityKnown'
      <3>1. Timespec(interval) # Zero
        BY <2>0, <2>2, TimespecIsNormalised DEF Start
      <3>2. ~reconfigured => Silent(ready_events, TimerInfo)'
        BY <2>2 DEF Start, InUserCode, eqvars
      <3>. QED
        BY <2>2, <3>1, <3>2 DEF Start, Settime
    <2>3. ASSUME Expire
          PROVE  ActivityKnown'
      <3>1. Silent(ready_events, TimerInfo)' <=>
                Silent(ready_events, TimerInfo)
        BY <2>3 DEF Expire, eqvars
      <3>. QED
        BY <2>0, <2>3, <3>1 DEF Expire, fields
    <2>4. ASSUME Tick
          PROVE  ActivityKnown'
      <3>1. ready_events = <<>>
        BY <2>4 DEF Tick, NothingPendingInCallback
      <3>2. ASSUME exists, ~reconfigured, singleshot
            PROVE  Silent(ready_events, TimerInfo)'
        <4>1. ticks = 1
          BY <2>4, <3>2 DEF Tick
        <4>2. ready_events' = <<>>
          BY <2>4, <3>1, <4>1 DEF Tick, FinishPoll, Repeat
        <4>. QED
          BY <4>2 DEF Silent
      <3>. QED
        BY <2>4, <3>2 DEF Tick, ActiveAfterTick
    <2>5. ASSUME NEW count \in 1 .. MaxOther, OtherSource(count)
          PROVE  ActivityKnown'
      <3>1. ready_events = <<>> /\ count \in Nat
        BY <2>5, TimerAssumption DEF OtherSource, NothingPendingInCallback
      <3>2. /\ NewEvent("DataAvailable", Other) \in EventsOf(Sources)
            /\ ~OriginatesFrom(NewEvent("DataAvailable", Other), TimerInfo)
        BY TimerAssumption DEF NewEvent, EventsOf, EventKind, OriginatesFrom
      <3>3. Silent(ready_events', TimerInfo)
        BY <2>5, <3>1, <3>2, FinishPollStaysSilent DEF OtherSource
      <3>. QED
        BY <2>5, <3>3 DEF OtherSource, fields, kernel
    <2>6. ASSUME NextEvent
          PROVE  ActivityKnown'
      <3>1. Silent(ready_events, TimerInfo) => Silent(ready_events, TimerInfo)'
        BY <2>0, <2>6, TailStaysSilent
           DEF NextEvent, NextEventReady, NextEventPoll
      <3>. QED
        BY <2>6, <3>1 DEF NextEvent, fields, kernel
    <2>7. ASSUME NEW value \in BOOLEAN, SetSingleshot(value)
          PROVE  ActivityKnown'
      <3>1. ~reconfigured' =>
                /\ ~reconfigured
                /\ is_active => singleshot' = singleshot
        BY <2>7, Zenon DEF SetSingleshot
      <3>2. /\ UNCHANGED <<exists, is_active, kernel>>
            /\ Silent(ready_events, TimerInfo)' <=>
                   Silent(ready_events, TimerInfo)
        BY <2>7 DEF SetSingleshot, kernel, eqvars
      <3>. QED
        BY <3>1, <3>2 DEF kernel
    <2>8. ASSUME Drop
          PROVE  ActivityKnown'
      BY <2>8 DEF Drop
    <2>9. ASSUME UNCHANGED <<exists, is_active, singleshot, reconfigured,
                          kernel, eqvars>>
          PROVE  ActivityKnown'
      BY <2>9 DEF kernel, eqvars
    <2>. QED
      BY <2>1, <2>2, <2>3, <2>4, <2>5, <2>6, <2>7, <2>8, <2>9
         DEF Next, SetInterval, StopInactive, StartRefused, vars, fields,
            history
  <1>. QED
    BY <1>1, <1>2, TypeCorrect, CallbacksFindNothing, PTL DEF Spec

\* For such a timer is_active is true exactly while a tick is to come, epoll
\* listens while it is, and the ticks in the list belong to the activation in
\* force.
THEOREM PlainClientsKnow ==
    Spec => [](ActiveMeansTickToCome /\ QueuedTicksAreCurrent)
  <1>1. ActivityKnown => ActiveMeansTickToCome /\ QueuedTicksAreCurrent
    BY DEF ActivityKnown, ActiveMeansTickToCome, QueuedTicksAreCurrent, Silent
  <1>. QED
    BY <1>1, ActivityStaysKnown, PTL

\* Ticks of an earlier activation never pass for ticks of the one in force.
THEOREM TicksAreCurrent == Spec => []QueuedTicksAreCurrent
  <1>1. (ActiveMeansTickToCome /\ QueuedTicksAreCurrent)
            => QueuedTicksAreCurrent
    OBVIOUS
  <1>. QED
    BY <1>1, PlainClientsKnow, PTL

-----------------------------------------------------------------------------
(* Silenced events                                                          *)

\* The inductive invariant: a silenced timer is also disarmed, so no tick can
\* follow the ones that were invalidated.
SilencedForGood ==
    (silenced /\ (exists => ~reconfigured)) =>
        /\ Silent(ready_events, TimerInfo)
        /\ it_value = Zero
        /\ ticks = 0

\* After any call of stop, and until the next start, no event of the timer in
\* the queue is valid, unless the mode was changed while the timer was active
\* and stop has not taken effect since; after drop there is none in any case
\* (Timer::stop, Timer::remove_pending_events).  A stop that returns at once
\* relies on what is_active says of the kernel timer (ActivityKnown).
THEOREM SilencedStaysInvalid == Spec => []SilencedMeansInvalid
  <1>1. Init => SilencedForGood
    BY DEF Init, SilencedForGood
  <1>2. TypeOK /\ NothingPendingInCallback /\ ActivityKnown
            /\ SilencedForGood /\ [Next]_vars
            => SilencedForGood'
    <2>. SUFFICES ASSUME TypeOK, NothingPendingInCallback, ActivityKnown,
                         SilencedForGood, [Next]_vars
                  PROVE  SilencedForGood'
      OBVIOUS
    <2>0. ready_events \in Seq(EventsOf(Sources)) /\ ticks \in Nat
      BY TimerAssumption DEF TypeOK, EventQueueTypeOK
    <2>. USE DEF SilencedForGood, history
    <2>1. ASSUME Stop \/ Drop
          PROVE  SilencedForGood'
      BY <2>0, <2>1, RemovePendingSilences
         DEF Stop, Drop, Settime, Silence, RemovePendingEvents
    <2>2. ASSUME Start
          PROVE  SilencedForGood'
      BY <2>2 DEF Start
    <2>3. ASSUME Expire
          PROVE  SilencedForGood'
      BY <2>3 DEF Expire, fields
    <2>4. ASSUME Tick
          PROVE  SilencedForGood'
      BY <2>4 DEF Tick
    <2>5. ASSUME NEW count \in 1 .. MaxOther, OtherSource(count)
          PROVE  SilencedForGood'
      <3>1. ready_events = <<>> /\ count \in Nat
        BY <2>5, TimerAssumption DEF OtherSource, NothingPendingInCallback
      <3>2. /\ NewEvent("DataAvailable", Other) \in EventsOf(Sources)
            /\ ~OriginatesFrom(NewEvent("DataAvailable", Other), TimerInfo)
        BY TimerAssumption DEF NewEvent, EventsOf, EventKind, OriginatesFrom
      <3>3. Silent(ready_events', TimerInfo)
        BY <2>5, <3>1, <3>2, FinishPollStaysSilent DEF OtherSource
      <3>. QED
        BY <2>5, <3>3 DEF OtherSource, fields, kernel
    <2>6. ASSUME NextEvent
          PROVE  SilencedForGood'
      <3>1. CASE NextEventReady
        BY <2>0, <2>6, <3>1, TailStaysSilent
           DEF NextEvent, NextEventReady, fields, kernel
      <3>2. CASE NextEventPoll
        BY <2>6, <3>2 DEF NextEvent, NextEventPoll, fields, kernel
      <3>. QED
        BY <2>6, <3>1, <3>2 DEF NextEvent
    <2>7. ASSUME StopInactive
          PROVE  SilencedForGood'
      <3>1. exists /\ ~reconfigured =>
                Silent(ready_events, TimerInfo) /\ it_value = Zero /\ ticks = 0
        BY <2>0, <2>7 DEF StopInactive, ActivityKnown
      <3>. QED
        BY <2>7, <3>1
           DEF StopInactive, InUserCode, fields, kernel, eqvars
    <2>8. ASSUME NEW value \in BOOLEAN, SetSingleshot(value)
          PROVE  SilencedForGood'
      <3>1. ~reconfigured' => ~reconfigured
        BY <2>8, Zenon DEF SetSingleshot
      <3>. QED
        BY <2>8, <3>1 DEF SetSingleshot, kernel, eqvars
    <2>9. ASSUME UNCHANGED <<exists, kernel, silenced, reconfigured, eqvars>>
          PROVE  SilencedForGood'
      BY <2>9 DEF kernel, eqvars
    <2>. QED
      BY <2>1, <2>2, <2>3, <2>4, <2>5, <2>6, <2>7, <2>8, <2>9
         DEF Next, SetInterval, StartRefused, vars, fields
  <1>3. SilencedForGood => SilencedMeansInvalid
    BY DEF SilencedForGood, SilencedMeansInvalid, Silent
  <1>. QED
    BY <1>1, <1>2, <1>3, TypeCorrect, CallbacksFindNothing,
       ActivityStaysKnown, PTL DEF Spec
=============================================================================
