------------------------------ MODULE EventLoop ------------------------------
(***************************************************************************)
(* The whole EventQueueImpl: its epoll descriptor, several sources that    *)
(* come and go, and the kernel's ready list, from which epoll_wait is      *)
(* asked for one entry at a time.                                          *)
(*                                                                         *)
(* The sources are reduced to what matters to their neighbours: which      *)
(* descriptor they hold, when they are on epoll, what their callbacks push *)
(* and when their objects die.  Descriptor numbers and addresses of        *)
(* EventSourceInfo objects are reused, source objects are not, so that an  *)
(* entry, a number or an event that outlives its source is seen.           *)
(***************************************************************************)
EXTENDS EventQueue, Integers

CONSTANTS
    Objects, NoObject,  \* the source objects of one behaviour
    Fds,                \* descriptor numbers
    EpollResults,       \* what epoll_create may return
    MaxPushed,          \* bound: events pushed by one callback
    MaxReady            \* bound: events in the list when the user adds one

NoFd == -1

ASSUME EventLoopAssumption ==
    /\ NoObject \notin Objects
    /\ Fds \subseteq Nat
    /\ EpollResults \subseteq Int
    /\ MaxPushed \in Nat /\ MaxReady \in Nat

VARIABLES
    epfd, task,             \* the descriptor; "running" or "failed"
    kind, life, fd, info,   \* per object; fd is what its code still holds
    file,                   \* kernel: whose open file a number denotes
    entry,                  \* kernel: epoll interest and callback per number
    raised,                 \* kernel: numbers whose condition holds
    rdlist,                 \* kernel: ready list of the epoll descriptor
    heard,                  \* sockets whose data has been announced
    pushers, author         \* history: who pushed ready_events, returned

sources == <<kind, life, fd, info, heard>>
kernel == <<file, entry, raised, rdlist>>
vars == <<epfd, task, sources, kernel, pushers, author, eqvars>>

Kinds == {"socket", "timer", "receiver"}
Enabled == {"level", "oneshot", "edge"}
NoEntry == [mode |-> "none", callback |-> NoObject]

TypeOK ==
    /\ epfd \in EpollResults /\ task \in {"running", "failed"}
    /\ kind \in [Objects -> Kinds]
    /\ life \in [Objects -> {"absent", "open", "closed", "dropped"}]
    /\ fd \in [Objects -> Fds \cup {NoFd}]
    /\ info \in [Objects -> Sources]
    /\ file \in [Fds -> Objects \cup {NoObject}]
    /\ entry \in [Fds -> [mode : {"none", "spent"} \cup Enabled,
                          callback : Objects \cup {NoObject}]]
    /\ raised \subseteq Fds
    /\ rdlist \in Seq(Fds)
    /\ heard \subseteq Objects
    /\ pushers \in Seq(Objects) /\ Len(pushers) = Len(ready_events)
    /\ author \in Objects \cup {NoObject}
    /\ EventQueueTypeOK

\* EventQueueImpl::new; the result of epoll_create is compared with 1.
Init ==
    /\ epfd \in EpollResults
    /\ task = IF epfd = 1 THEN "failed" ELSE "running"
    /\ kind \in [Objects -> Kinds]
    /\ life = [o \in Objects |-> "absent"]
    /\ fd = [o \in Objects |-> NoFd]
    /\ \E i \in Sources : info = [o \in Objects |-> i]
    /\ file = [f \in Fds |-> NoObject]
    /\ entry = [f \in Fds |-> NoEntry]
    /\ raised = {} /\ rdlist = <<>> /\ heard = {}
    /\ pushers = <<>> /\ author = NoObject
    /\ EventQueueInit

InUserCode == loop = "user" /\ task = "running"
Alive(o) == life[o] \in {"open", "closed"}

(***************************************************************************)
(* epoll_ctl.  A refused call fails the task.                              *)
(***************************************************************************)

Control(f, refused, newEntry) ==
    IF refused \/ epfd < 0 THEN task' = "failed" /\ UNCHANGED entry
    ELSE entry' = [entry EXCEPT ![f] = newEntry] /\ UNCHANGED task

\* Fault: the entry is edge-triggered, as if the callback took everything.
RegisterEdgeTriggered(f, o, mode) ==
    Control(f, entry[f].mode # "none", [mode |-> "edge", callback |-> o])

RegisterFd(f, o, mode) ==
    Control(f, entry[f].mode # "none", [mode |-> mode, callback |-> o])

ModifyFd(f, o, mode) ==
    Control(f, entry[f].mode = "none", [mode |-> mode, callback |-> o])

UnregisterFd(f) == Control(f, entry[f].mode = "none", NoEntry)

\* the ready list; a number is at most once in it
Listed(f) == \E k \in 1 .. Len(rdlist) : rdlist[k] = f
PlaceOf(f) == CHOOSE k \in 1 .. Len(rdlist) : rdlist[k] = f
Before(f) == SubSeq(rdlist, 1, PlaceOf(f) - 1)
After(f) == SubSeq(rdlist, PlaceOf(f) + 1, Len(rdlist))
Without(f) == IF Listed(f) THEN Before(f) \o After(f) ELSE rdlist

\* close(2): the entry ends with the open file.
CloseFd(f) ==
    /\ file' = [file EXCEPT ![f] = NoObject]
    /\ entry' = [entry EXCEPT ![f] = NoEntry]
    /\ raised' = raised \ {f}
    /\ rdlist' = Without(f)

\* The condition of a descriptor becomes true.
Raise(f) ==
    /\ raised' = raised \cup {f}
    /\ rdlist' = IF entry[f].mode \in Enabled /\ ~Listed(f)
                 THEN Append(rdlist, f) ELSE rdlist

(***************************************************************************)
(* The life of a source                                                    *)
(***************************************************************************)

\* Fault: an event does not keep the EventSourceInfo of its source.
AddressesOfLiving == {info[o] : o \in {p \in Objects : Alive(p)}}

\* EventSourceInfo objects that some Rc still holds: of living sources, and
\* through source_info of the events in the list and in the user's hands
AddressesInUse ==
    {info[o] : o \in {p \in Objects : Alive(p)}}
        \cup {ready_events[i].source_info : i \in 1 .. Len(ready_events)}
        \cup (IF returned = NoEvent THEN {} ELSE {returned.source_info})

\* The constructors.  A timer is put on epoll when it is started.
Create(o, f, i) ==
    /\ InUserCode /\ life[o] = "absent" /\ file[f] = NoObject
    /\ i \notin AddressesInUse
    /\ life' = [life EXCEPT ![o] = "open"]
    /\ fd' = [fd EXCEPT ![o] = f]
    /\ info' = [info EXCEPT ![o] = i]
    /\ file' = [file EXCEPT ![f] = o]
    /\ IF kind[o] = "timer" THEN UNCHANGED <<entry, task>>
       ELSE RegisterFd(f, o, "level")
    /\ UNCHANGED <<epfd, kind, heard, raised, rdlist, pushers, author, eqvars>>

\* Timer::start of a timer that is not active; the new setting forgets old
\* expirations.
StartTimer(o, mode) ==
    /\ InUserCode /\ kind[o] = "timer" /\ life[o] = "open"
    /\ entry[fd[o]].mode \notin Enabled
    /\ IF entry[fd[o]].mode = "none" THEN RegisterFd(fd[o], o, mode)
       ELSE ModifyFd(fd[o], o, mode)
    /\ raised' = raised \ {fd[o]}
    /\ UNCHANGED <<epfd, sources, file, rdlist, pushers, author, eqvars>>

\* Timer::stop of an active timer
StopTimer(o) ==
    /\ InUserCode /\ kind[o] = "timer" /\ life[o] = "open"
    /\ entry[fd[o]].mode \in Enabled
    /\ UnregisterFd(fd[o])
    /\ raised' = raised \ {fd[o]}
    /\ rdlist' = Without(fd[o])
    /\ RemovePendingEvents(info[o])
    /\ UNCHANGED <<epfd, sources, file, pushers, author, loop, returned>>

\* Fault: the number is closed although it has been closed before.
CloseAgain(o) == CloseFd(fd[o])

\* close_socket returns early when the socket is closed already.
CloseSocket(o) ==
    IF life[o] = "closed" THEN UNCHANGED kernel ELSE CloseFd(fd[o])

\* TcpSocket::close, TcpServerSocket::close
Close(o) ==
    /\ InUserCode /\ kind[o] = "socket" /\ Alive(o)
    /\ CloseSocket(o)
    /\ life' = [life EXCEPT ![o] = "closed"]
    /\ heard' = heard \ {o}
    /\ RemovePendingEvents(info[o])
    /\ UNCHANGED <<epfd, task, kind, fd, info, pushers, author, loop,
                   returned>>

\* Fault: the object goes, the descriptor stays.
DropKeepsDescriptor(o) == UNCHANGED kernel

\* The destructors of all sources close the descriptor.
CloseOnDrop(o) ==
    IF kind[o] = "socket" THEN CloseSocket(o) ELSE CloseFd(fd[o])

\* Receiver::drop takes the number away from the transmitters as well.
FdAfterDrop(o) == IF kind[o] = "receiver" THEN NoFd ELSE fd[o]

Drop(o) ==
    /\ InUserCode /\ Alive(o)
    /\ CloseOnDrop(o)
    /\ life' = [life EXCEPT ![o] = "dropped"]
    /\ fd' = [fd EXCEPT ![o] = FdAfterDrop(o)]
    /\ heard' = heard \ {o}
    /\ RemovePendingEvents(info[o])
    /\ UNCHANGED <<epfd, task, kind, info, pushers, author, loop, returned>>

(***************************************************************************)
(* Conditions                                                              *)
(***************************************************************************)

\* A transmitter, in any task, writes to the eventfd of its channel.
Transmit(o) ==
    /\ kind[o] = "receiver" /\ fd[o] # NoFd
    /\ Raise(fd[o])
    /\ UNCHANGED <<epfd, task, sources, file, entry, pushers, author, eqvars>>

\* Input arrives at a socket, or an active timer expires.
BecomesReady(o) ==
    /\ life[o] = "open"
    /\ \/ kind[o] = "socket"
       \/ kind[o] = "timer" /\ entry[fd[o]].mode \in Enabled
    /\ Raise(fd[o])
    /\ UNCHANGED <<epfd, task, sources, file, entry, pushers, author, eqvars>>

\* The client takes all that a socket has announced, by read or accept.
Take(o) ==
    /\ InUserCode /\ o \in heard
    /\ raised' = raised \ {fd[o]}
    /\ heard' = heard \ {o}
    /\ UNCHANGED <<epfd, task, kind, life, fd, info, file, entry, rdlist,
                   pushers, author, eqvars>>

(***************************************************************************)
(* EventQueue                                                              *)
(***************************************************************************)

\* push_back_event and push_front_event by the user, who can only push an
\* event he has got
PutBack ==
    /\ InUserCode /\ returned # NoEvent /\ Len(ready_events) < MaxReady
    /\ PushBack(returned)
    /\ pushers' = Append(pushers, author)
    /\ UNCHANGED <<epfd, task, sources, kernel, author, loop, returned>>

PutFront ==
    /\ InUserCode /\ returned # NoEvent /\ Len(ready_events) < MaxReady
    /\ ready_events' = <<returned>> \o ready_events
    /\ pushers' = <<author>> \o pushers
    /\ UNCHANGED <<epfd, task, sources, kernel, author, loop, returned>>

NextEvent ==
    /\ task = "running"
    /\ \/ /\ NextEventReady
          /\ pushers' = Tail(pushers) /\ author' = Head(pushers)
       \/ NextEventPoll /\ UNCHANGED <<pushers, author>>
    /\ UNCHANGED <<epfd, task, sources, kernel>>

\* helpers::retry: a signal interrupts epoll_wait, which is called again.
Interrupted == loop = "polling" /\ UNCHANGED vars

\* epoll_wait fails and next_event answers with the error.
NextEventFails ==
    /\ loop = "polling" /\ epfd < 0
    /\ loop' = "user"
    /\ UNCHANGED <<epfd, task, sources, kernel, pushers, author,
                   ready_events, returned>>

EventOf(o) ==
    NewEvent(CASE kind[o] = "socket"   -> "DataAvailable"
               [] kind[o] = "timer"    -> "Timer"
               [] kind[o] = "receiver" -> "ChannelMessage", info[o])

\* The callback of o pushes count events and returns to the poll loop.
CallbackPushes(o, count) ==
    LET all == pushers \o Repeat(o, count)
    IN  /\ FinishPoll(Repeat(EventOf(o), count))
        /\ pushers' = IF all = <<>> THEN <<>> ELSE Tail(all)
        /\ author' = IF loop' = "user" THEN Head(all) ELSE author

\* epoll_wait goes through its ready list, drops what is not ready any more,
\* and reports number f, the first that is.
Reports(f) ==
    /\ loop = "polling" /\ epfd >= 0
    /\ \E k \in 1 .. Len(rdlist) :
           /\ rdlist[k] = f
           /\ f \in raised
           /\ \A j \in 1 .. k - 1 : rdlist[j] \notin raised

\* what is left of the list; a level-triggered entry goes to its end
ListAfter(f) ==
    IF entry[f].mode = "level" THEN Append(After(f), f) ELSE After(f)

EntryAfter(f) ==
    IF entry[f].mode = "oneshot" THEN [entry EXCEPT ![f].mode = "spent"]
    ELSE entry

\* The callbacks of receivers and timers read what there is; that of a socket
\* leaves its data or connections to the client.
Served(o, f, count) ==
    /\ Reports(f) /\ entry[f].callback = o
    /\ CallbackPushes(o, count)
    /\ rdlist' = ListAfter(f)
    /\ entry' = EntryAfter(f)
    /\ IF kind[o] = "socket"
       THEN count = 1 /\ heard' = heard \cup {o} /\ UNCHANGED raised
       ELSE /\ kind[o] = "timer" => count > 0
            /\ raised' = raised \ {f} /\ UNCHANGED heard
    /\ UNCHANGED <<epfd, task, kind, life, fd, info, file>>

\* The callback of a socket finds an error or the end of the stream.
ServedLast(o, f) ==
    /\ Reports(f) /\ entry[f].callback = o
    /\ kind[o] = "socket"
    /\ CallbackPushes(o, 1)
    /\ CloseFd(f)
    /\ life' = [life EXCEPT ![o] = "closed"]
    /\ heard' = heard \ {o}
    /\ UNCHANGED <<epfd, task, kind, fd, info>>

\* poll_events calls the callback of o.
PollEvents(o) ==
    \E f \in Fds :
        ServedLast(o, f) \/ \E count \in 0 .. MaxPushed : Served(o, f, count)

Next ==
    \/ \E o \in Objects :
        \/ \E f \in Fds, i \in Sources : Create(o, f, i)
        \/ \E mode \in {"level", "oneshot"} : StartTimer(o, mode)
        \/ StopTimer(o)
        \/ Close(o)
        \/ Drop(o)
        \/ Transmit(o)
        \/ BecomesReady(o)
        \/ Take(o)
        \/ PollEvents(o)
    \/ PutBack
    \/ PutFront
    \/ NextEvent
    \/ Interrupted
    \/ NextEventFails

Spec == Init /\ [][Next]_vars

-----------------------------------------------------------------------------
(* Safety                                                                   *)

\* o's code, or a transmitter of its channel, may still use the number fd[o].
Uses(o) ==
    IF kind[o] = "receiver" THEN fd[o] # NoFd ELSE life[o] = "open"

\* A number that is still in use denotes the file it was got for, although
\* numbers are reused: nobody closes a number twice (close_socket), and no
\* transmitter writes to the eventfd of a receiver that is gone
\* (channel.rs:281-284).
NumbersDenoteOwnFile == \A o \in Objects : Uses(o) => file[fd[o]] = o

\* poll_events jumps to an address it gets back from the kernel
\* (eventqueueimpl.rs:83-86): it is that of a living source, which holds the
\* very descriptor that is reported.
CallbacksReachTheirSource ==
    \A f \in Fds : entry[f].mode # "none" =>
        LET o == entry[f].callback
        IN  /\ o \in Objects
            /\ life[o] = "open" /\ fd[o] = f

\* originates_from compares addresses, and addresses are reused; even so an
\* event in the list or in the user's hands that originates from a living
\* source was pushed by that source.
OriginIsRight ==
    \A o \in Objects : Alive(o) =>
        /\ \A k \in 1 .. Len(ready_events) :
               OriginatesFrom(ready_events[k], info[o]) => pushers[k] = o
        /\ returned # NoEvent /\ OriginatesFrom(returned, info[o])
               => author = o

\* eventqueueimpl.rs:42-44 checks the result of epoll_create and fails the
\* task "if fd == 1": a task that goes on has an epoll descriptor.
NewChecksTheDescriptor == task = "running" => epfd >= 0

\* The safety side of EverySourceIsServed.  A descriptor on epoll whose
\* condition holds is on the ready list, and there once, ...
ReadyIsListed ==
    /\ \A f \in Fds : entry[f].mode \in Enabled /\ f \in raised => Listed(f)
    /\ \A j, k \in 1 .. Len(rdlist) : rdlist[j] = rdlist[k] => j = k

\* ... nobody gets in front of it, and each callback that is not its own brings
\* it nearer to the head: its place bounds the callbacks it waits for.
NobodyOvertakes ==
    [][\A f \in raised :
           Listed(f) /\ Listed(f)' /\ ~Reports(f) =>
               /\ PlaceOf(f)' <= PlaceOf(f)
               /\ (\E o \in Objects : PollEvents(o)) =>
                      PlaceOf(f)' < PlaceOf(f)]_vars

-----------------------------------------------------------------------------
(* Liveness                                                                 *)

\* The task goes on: it asks for the next event and, inside epoll_wait, the
\* first ready entry is reported.  No strong fairness is assumed.
Fairness ==
    /\ WF_vars(NextEvent)
    /\ WF_vars(\E o \in Objects : PollEvents(o))

FairSpec == Spec /\ Fairness

Registered(o) == life[o] = "open" /\ entry[fd[o]].mode \in Enabled

\* A source that stays on epoll and is ready again and again while the task
\* polls is served again and again, however busy the other sources are: the
\* strong fairness that the modules of the single sources assume of Tick and
\* EpollWait.
EverySourceIsServed ==
    \A o \in Objects :
        (<>[]Registered(o) /\ []<>(loop = "polling" /\ fd[o] \in raised))
            => []<><<PollEvents(o)>>_vars
=============================================================================
