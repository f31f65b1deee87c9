-------------------------------- MODULE Timer --------------------------------
(***************************************************************************)
(* src/linux/timer.rs: one Timer, the timerfd the kernel keeps for it, its *)
(* registration at epoll, and the event queue it shares with other         *)
(* sources.  Everything but the expirations happens in the task that owns  *)
(* the queue; expirations accumulate in the kernel whatever the task does. *)
(***************************************************************************)
EXTENDS EventQueue, Integers

CONSTANTS
    Intervals,          \* interval values the client uses, in milliseconds
    TimerInfo, Other,   \* EventSourceInfo of the timer and of another source
    MaxTicks,           \* bound: expirations not yet read from the timerfd
    MaxOther            \* bound: events one callback of the other source pushes

ASSUME TimerAssumption ==
    /\ Intervals \subseteq Nat /\ 0 \in Intervals
    /\ TimerInfo \in Sources /\ Other \in Sources /\ TimerInfo # Other
    /\ MaxTicks \in Nat /\ MaxOther \in Nat

VARIABLES
    exists, is_active, interval, singleshot, epoll_registered,  \* struct Timer
    it_value, it_interval,  \* kernel: struct itimerspec in force
    ticks,                  \* kernel: expirations not yet read
    interest,               \* kernel: epoll entry of the timerfd
    failed,                 \* a system call was refused and failed the task
    silenced,               \* history: the client has called stop or dropped
                            \* the timer since the last start
    reconfigured            \* history: the mode was changed while the timer
                            \* was active, and no stop has taken effect since

fields == <<exists, is_active, interval, singleshot, epoll_registered>>
kernel == <<it_value, it_interval, ticks, interest>>
history == <<silenced, reconfigured>>
vars == <<fields, kernel, failed, history, eqvars>>

(***************************************************************************)
(* timerfd_settime                                                         *)
(***************************************************************************)

\* normalised values of struct timespec
Timespecs ==
    [tv_sec : Nat, tv_nsec : {nsec \in Nat : nsec < 1000000000}]

Zero == [tv_sec |-> 0, tv_nsec |-> 0]

\* Timer::start turns milliseconds into a timespec.
Timespec(ms) == [tv_sec |-> ms \div 1000, tv_nsec |-> (ms % 1000) * 1000000]

\* The kernel refuses a timespec that is not normalised.
Accepted(spec) == spec \in Timespecs

\* A new setting forgets the expirations nobody has read.
Settime(value, period) ==
    /\ it_value' = value
    /\ it_interval' = period
    /\ ticks' = 0

TypeOK ==
    /\ exists \in BOOLEAN
    /\ is_active \in BOOLEAN
    /\ interval \in Intervals
    /\ singleshot \in BOOLEAN
    /\ epoll_registered \in BOOLEAN
    /\ it_value \in Timespecs
    /\ it_interval \in Timespecs
    /\ ticks \in 0 .. MaxTicks
    /\ interest \in {"none", "level", "oneshot", "spent"}
    /\ failed \in BOOLEAN
    /\ silenced \in BOOLEAN /\ reconfigured \in BOOLEAN
    /\ EventQueueTypeOK

\* Timer::create
Init ==
    /\ exists = TRUE
    /\ is_active = FALSE
    /\ interval = 0
    /\ singleshot = FALSE
    /\ epoll_registered = FALSE
    /\ it_value = Zero /\ it_interval = Zero
    /\ ticks = 0
    /\ interest = "none"
    /\ failed = FALSE
    /\ silenced = FALSE /\ reconfigured = FALSE
    /\ EventQueueInit

InUserCode == loop = "user" /\ exists /\ ~failed

SetInterval(ms) ==
    /\ InUserCode
    /\ interval' = ms
    /\ UNCHANGED <<exists, is_active, singleshot, epoll_registered, kernel,
                   failed, history, eqvars>>

SetSingleshot(value) ==
    /\ InUserCode
    /\ singleshot' = value
    /\ reconfigured' = (reconfigured \/ (is_active /\ singleshot # value))
    /\ UNCHANGED <<exists, is_active, interval, epoll_registered, kernel,
                   failed, silenced, eqvars>>

\* Fault: start forgets that the timerfd was taken off epoll.
RegisteredAsBefore == epoll_registered

\* value of epoll_registered once stop has unregistered the timerfd
RegisteredAfterStop == FALSE

\* Fault: the events that are queued stay valid.
KeepPendingEvents(source) == UNCHANGED ready_events

\* Timer::remove_pending_events
Silence(source) == RemovePendingEvents(source)

\* Timer::stop.  EPOLL_CTL_DEL of a descriptor that is not registered fails
\* the task.
Stop ==
    /\ InUserCode /\ is_active
    /\ Settime(Zero, Zero)
    /\ failed' = (interest = "none")
    /\ interest' = "none"
    /\ epoll_registered' = RegisteredAfterStop
    /\ is_active' = FALSE
    /\ Silence(TimerInfo)
    /\ silenced' = TRUE
    /\ reconfigured' = FALSE
    /\ UNCHANGED <<exists, interval, singleshot, loop, returned>>

\* stop returns at once if the timer takes itself for inactive.
StopInactive ==
    /\ InUserCode /\ ~is_active
    /\ silenced' = TRUE
    /\ UNCHANGED <<fields, kernel, failed, reconfigured, eqvars>>

\* Timer::start; nothing happens to an active timer or without an interval.
\* The timerfd is added to epoll or, when a single shot has left it there
\* disabled, modified; either is refused when the entry is not as assumed.
Start ==
    /\ InUserCode /\ ~is_active /\ interval # 0
    /\ LET first == Timespec(interval)
       IN  /\ Settime(first, IF singleshot THEN Zero ELSE first)
           /\ failed' = \/ ~Accepted(first)
                        \/ ~(epoll_registered <=> interest # "none")
    /\ interest' = IF singleshot THEN "oneshot" ELSE "level"
    /\ is_active' = TRUE
    /\ epoll_registered' = TRUE
    /\ silenced' = FALSE
    /\ UNCHANGED <<exists, interval, singleshot, reconfigured, eqvars>>

StartRefused ==
    InUserCode /\ (is_active \/ interval = 0) /\ UNCHANGED vars

\* The kernel timer expires; without an interval it is then disarmed.
Expire ==
    /\ it_value # Zero
    /\ ticks < MaxTicks
    /\ ticks' = ticks + 1
    /\ it_value' = it_interval
    /\ UNCHANGED <<fields, it_interval, interest, failed, history, eqvars>>

\* Fault: a single shot that has fired still counts as active.
ActiveAsBefore == is_active

\* is_active after the callback has seen an expiration
ActiveAfterTick == IF singleshot THEN FALSE ELSE is_active

\* epoll_wait reports the timerfd; process_epoll_events reads the number of
\* expirations and pushes one event for each.  EPOLLONESHOT disables the
\* entry.
Tick ==
    /\ loop = "polling"
    /\ interest \in {"level", "oneshot"} /\ ticks > 0
    /\ ticks' = 0
    /\ interest' = IF interest = "oneshot" THEN "spent" ELSE interest
    /\ is_active' = ActiveAfterTick
    /\ FinishPoll(Repeat(NewEvent("Timer", TimerInfo), ticks))
    /\ UNCHANGED <<exists, interval, singleshot, epoll_registered, it_value,
                   it_interval, failed, history>>

\* The callback of another source pushes events.
OtherSource(count) ==
    /\ loop = "polling"
    /\ FinishPoll(Repeat(NewEvent("DataAvailable", Other), count))
    /\ UNCHANGED <<fields, kernel, failed, history>>

NextEvent ==
    /\ ~failed
    /\ NextEventReady \/ NextEventPoll
    /\ UNCHANGED <<fields, kernel, failed, history>>

\* Timer::drop; closing the timerfd takes it off epoll.
Drop ==
    /\ InUserCode
    /\ Silence(TimerInfo)
    /\ exists' = FALSE
    /\ Settime(Zero, Zero)
    /\ interest' = "none"
    /\ silenced' = TRUE
    /\ UNCHANGED <<is_active, interval, singleshot, epoll_registered, failed,
                   reconfigured, loop, returned>>

Next ==
    \/ \E ms \in Intervals : SetInterval(ms)
    \/ \E value \in BOOLEAN : SetSingleshot(value)
    \/ Stop
    \/ StopInactive
    \/ Start
    \/ StartRefused
    \/ Expire
    \/ Tick
    \/ \E count \in 1 .. MaxOther : OtherSource(count)
    \/ NextEvent
    \/ Drop

Spec == Init /\ [][Next]_vars

-----------------------------------------------------------------------------
(* Safety                                                                   *)

\* No sequence of calls makes epoll_ctl or timerfd_settime refuse its
\* arguments: epoll_registered always knows whether the timerfd is on epoll,
\* also when a single shot has left a disabled entry behind.
NoCallRefused == ~failed

\* A client can trust is_active: it is true exactly while a tick is still to
\* come, and then epoll listens for it, unless set_singleshot has changed the
\* mode of the running timer.  What such a change has upset only a stop that
\* finds the timer active sets right: one that finds it wrongly inactive
\* returns (timer.rs:78).
ActiveMeansTickToCome ==
    (exists /\ ~reconfigured) =>
        /\ is_active <=> (it_value # Zero \/ ticks > 0)
        /\ is_active => interest \in {"level", "oneshot"}

\* stop and drop reach the ticks that are already queued: from the call until
\* the next start none of them is valid, also when stop returns at once.  The
\* exception is a stop after set_singleshot has changed the mode of the running
\* timer and a tick has then made it inactive (timer.rs:65, 159): it returns at
\* timer.rs:78, leaves the queued ticks valid, and more are to come.  drop knows
\* no exception (timer.rs:179-181).
SilencedMeansInvalid ==
    (silenced /\ (exists => ~reconfigured)) =>
        \A i \in 1 .. Len(ready_events) :
            OriginatesFrom(ready_events[i], TimerInfo)
                => ~ready_events[i].is_valid

\* A tick that still waits in the list belongs to the activation in force,
\* which is periodic: after stop, or after stop and start, next_event never
\* presents a tick of the time before as a current one.  A single shot has its
\* tick returned by the very round of polling that reads it.
QueuedTicksAreCurrent ==
    (exists /\ ~reconfigured) =>
        \A i \in 1 .. Len(ready_events) :
            (OriginatesFrom(ready_events[i], TimerInfo)
                /\ ready_events[i].is_valid)
            => is_active /\ it_interval # Zero

\* timer.rs:179-180, "Don't call close because this won't deque already
\* queued events if the timer is inactive": dropping a timer takes its
\* queued events out of the queue, so next_event hands out none of them.
DroppedTimerIsSilent ==
    [][~exists /\ HandsOut
         => ~OriginatesFrom(returned', TimerInfo)]_vars

-----------------------------------------------------------------------------
(* Liveness                                                                 *)

\* The clock runs, the task keeps asking for events, and epoll_wait, asked for
\* one event at a time, does not report the same descriptor for ever while
\* another one is ready (a level-triggered entry goes back to the end of the
\* kernel's ready list): hence strong fairness of Tick.
Fairness ==
    /\ WF_vars(Expire)
    /\ SF_vars(Tick)
    /\ WF_vars(NextEvent)

FairSpec == Spec /\ Fairness

\* A timer that stays active, in the mode it was started in, ticks again and
\* again.
ActiveTimerTicks ==
    <>[](is_active /\ exists /\ ~reconfigured) => []<><<Tick>>_vars
=============================================================================
