--------------------------- MODULE EventLoopProofs ---------------------------
(* Proofs about module EventLoop, for any number of sources, descriptors    *)
(* and addresses.                                                           *)
EXTENDS EventLoop, EventQueueProofs

-----------------------------------------------------------------------------
(* Descriptors and callbacks                                                *)

\* The types of what the file side of the model consists of.
FileTypes ==
    /\ kind \in [Objects -> Kinds]
    /\ life \in [Objects -> {"absent", "open", "closed", "dropped"}]
    /\ fd \in [Objects -> Fds \cup {NoFd}]
    /\ file \in [Fds -> Objects \cup {NoObject}]
    /\ entry \in [Fds -> [mode : {"none", "spent"} \cup Enabled,
                          callback : Objects \cup {NoObject}]]

\* An open source owns its descriptor; only sockets are closed and kept; the
\* number a receiver's transmitters hold is that of the living receiver.
OwnDescriptors ==
    \A o \in Objects :
        /\ life[o] = "open" => fd[o] \in Fds /\ file[fd[o]] = o
        /\ kind[o] # "socket" => life[o] # "closed"
        /\ kind[o] = "receiver" => (fd[o] # NoFd <=> life[o] = "open")

NoCallbackWithoutEntry ==
    \A f \in Fds : entry[f].mode = "none" => entry[f].callback = NoObject

\* The inductive invariant: neither half of the property holds without the
\* other.
Descriptors ==
    /\ FileTypes
    /\ OwnDescriptors
    /\ NoCallbackWithoutEntry
    /\ CallbacksReachTheirSource

files == <<kind, life, fd, file, entry>>

\* A source whose callback is on epoll is open and holds that descriptor.
LEMMA CallbackIsOwner ==
    ASSUME Descriptors, NEW o \in Objects, NEW f \in Fds,
           entry[f].callback = o
    PROVE  life[o] = "open" /\ fd[o] = f /\ file[f] = o
<1>1. o # NoObject
  BY EventLoopAssumption
<1>2. entry[f].mode # "none"
  BY <1>1 DEF Descriptors, NoCallbackWithoutEntry
<1>3. QED
  BY <1>2 DEF Descriptors, CallbacksReachTheirSource, OwnDescriptors

\* epoll_ctl for the descriptor of an open source
LEMMA ControlKeepsDescriptors ==
    ASSUME Descriptors, NEW o \in Objects, life[o] = "open",
           UNCHANGED <<kind, life, fd, file>>,
           NEW e \in [mode : {"none", "spent"} \cup Enabled,
                      callback : Objects \cup {NoObject}],
           e.mode = "none" => e.callback = NoObject,
           e.mode # "none" => e.callback = o,
           entry' = entry \/ entry' = [entry EXCEPT ![fd[o]] = e]
    PROVE  Descriptors'
<1>1. FileTypes' /\ OwnDescriptors'
  BY DEF Descriptors, FileTypes, OwnDescriptors
<1>2. fd[o] \in Fds
  BY DEF Descriptors, OwnDescriptors
<1>3. \A f \in Fds : entry'[f] = entry[f] \/ (f = fd[o] /\ entry'[f] = e)
  BY <1>2 DEF Descriptors, FileTypes
<1>4. NoCallbackWithoutEntry'
  BY <1>3 DEF Descriptors, NoCallbackWithoutEntry
<1>5. CallbacksReachTheirSource'
  BY <1>3 DEF Descriptors, CallbacksReachTheirSource
<1>6. QED
  BY <1>1, <1>4, <1>5 DEF Descriptors

\* close(2) on the descriptor of an open source that is open no more
\* afterwards
LEMMA ClosingKeepsDescriptors ==
    ASSUME Descriptors, NEW o \in Objects, life[o] = "open",
           CloseFd(fd[o]), UNCHANGED kind,
           NEW l \in {"closed", "dropped"}, l = "closed" => kind[o] = "socket",
           life' = [life EXCEPT ![o] = l],
           NEW n \in Fds \cup {NoFd}, fd' = [fd EXCEPT ![o] = n],
           kind[o] = "receiver" => n = NoFd
    PROVE  Descriptors'
<1>1. fd[o] \in Fds /\ file[fd[o]] = o
  BY DEF Descriptors, OwnDescriptors
<1>2. FileTypes'
  BY <1>1 DEF Descriptors, FileTypes, CloseFd, NoEntry
<1>3. life'[o] = l /\ fd'[o] = n
  BY DEF Descriptors, FileTypes
<1>4. \A p \in Objects \ {o} : life'[p] = life[p] /\ fd'[p] = fd[p]
  BY DEF Descriptors, FileTypes
<1>5. \A f \in Fds \ {fd[o]} : file'[f] = file[f] /\ entry'[f] = entry[f]
  BY DEF Descriptors, FileTypes, CloseFd
<1>6. entry'[fd[o]] = NoEntry
  BY <1>1 DEF Descriptors, FileTypes, CloseFd
<1>7. OwnDescriptors'
  <2> SUFFICES ASSUME NEW p \in Objects
               PROVE  /\ life'[p] = "open" =>
                             fd'[p] \in Fds /\ file'[fd'[p]] = p
                      /\ kind[p] # "socket" => life'[p] # "closed"
                      /\ kind[p] = "receiver" =>
                             (fd'[p] # NoFd <=> life'[p] = "open")
    BY DEF OwnDescriptors
  <2>1. CASE p = o
    BY <2>1, <1>3
  <2>2. CASE p # o
    BY <2>2, <1>1, <1>4, <1>5 DEF Descriptors, OwnDescriptors
  <2>3. QED
    BY <2>1, <2>2
<1>8. NoCallbackWithoutEntry'
  BY <1>5, <1>6 DEF Descriptors, NoCallbackWithoutEntry, NoEntry
<1>9. CallbacksReachTheirSource'
  <2> SUFFICES ASSUME NEW f \in Fds, entry'[f].mode # "none"
               PROVE  /\ entry'[f].callback \in Objects
                      /\ life'[entry'[f].callback] = "open"
                      /\ fd'[entry'[f].callback] = f
    BY DEF CallbacksReachTheirSource
  <2>1. f # fd[o]
    BY <1>6 DEF NoEntry
  <2>2. QED
    BY <2>1, <1>4, <1>5 DEF Descriptors, CallbacksReachTheirSource
<1>10. QED
  BY <1>2, <1>7, <1>8, <1>9 DEF Descriptors

LEMMA DescriptorsInitially == Init => Descriptors
<1> SUFFICES ASSUME Init PROVE Descriptors
  OBVIOUS
<1>1. FileTypes
  BY DEF Init, FileTypes, NoEntry
<1>2. OwnDescriptors
  BY DEF Init, OwnDescriptors
<1>3. \A f \in Fds : entry[f].mode = "none" /\ entry[f].callback = NoObject
  BY DEF Init, NoEntry
<1>4. QED
  BY <1>1, <1>2, <1>3 DEF Descriptors, NoCallbackWithoutEntry,
     CallbacksReachTheirSource

\* A new source gets a number that denotes no file, and therefore one that no
\* open source holds and no entry is left for.
LEMMA CreateKeepsDescriptors ==
    ASSUME Descriptors, NEW o \in Objects, NEW f \in Fds, NEW i \in Sources,
           Create(o, f, i)
    PROVE  Descriptors'
<1>1. /\ life[o] = "absent" /\ file[f] = NoObject
      /\ life' = [life EXCEPT ![o] = "open"]
      /\ fd' = [fd EXCEPT ![o] = f]
      /\ file' = [file EXCEPT ![f] = o]
      /\ kind' = kind
      /\ \/ entry' = entry
         \/ entry' = [entry EXCEPT ![f] = [mode |-> "level", callback |-> o]]
  BY DEF Create, RegisterFd, Control
<1>2. FileTypes'
  <2>1. FileTypes
    BY DEF Descriptors
  <2>2. /\ kind' \in [Objects -> Kinds]
        /\ life' \in [Objects -> {"absent", "open", "closed", "dropped"}]
        /\ fd' \in [Objects -> Fds \cup {NoFd}]
        /\ file' \in [Fds -> Objects \cup {NoObject}]
    BY <1>1, <2>1 DEF FileTypes
  <2>3. entry' \in [Fds -> [mode : {"none", "spent"} \cup Enabled,
                           callback : Objects \cup {NoObject}]]
    <3>. DEFINE E == [mode : {"none", "spent"} \cup Enabled,
                      callback : Objects \cup {NoObject}]
    <3>1. [mode |-> "level", callback |-> o] \in E
      BY DEF Enabled
    <3>2. entry \in [Fds -> E]
      BY <2>1 DEF FileTypes
    <3>. HIDE DEF E
    <3>3. entry' \in [Fds -> E]
      BY <1>1, <3>1, <3>2
    <3>. QED
      BY <3>3 DEF E
  <2>. QED
    BY <2>2, <2>3 DEF FileTypes
<1>3. \A p \in Objects : life[p] = "open" => p # o /\ fd[p] # f
  BY <1>1, EventLoopAssumption DEF Descriptors, OwnDescriptors
<1>4. OwnDescriptors'
  <2> SUFFICES ASSUME NEW p \in Objects
               PROVE  /\ life'[p] = "open" =>
                             fd'[p] \in Fds /\ file'[fd'[p]] = p
                      /\ kind[p] # "socket" => life'[p] # "closed"
                      /\ kind[p] = "receiver" =>
                             (fd'[p] # NoFd <=> life'[p] = "open")
    BY <1>1 DEF OwnDescriptors
  <2>1. CASE p = o
    <3>1. life'[p] = "open" /\ fd'[p] = f /\ file'[f] = o
      BY <2>1, <1>1 DEF Descriptors, FileTypes
    <3>2. f # NoFd
      BY EventLoopAssumption DEF NoFd
    <3>3. QED
      BY <2>1, <3>1, <3>2
  <2>2. CASE p # o
    <3>1. life'[p] = life[p] /\ fd'[p] = fd[p]
      BY <2>2, <1>1 DEF Descriptors, FileTypes
    <3>2. life[p] = "open" => file'[fd[p]] = file[fd[p]]
      BY <1>1, <1>3 DEF Descriptors, FileTypes, OwnDescriptors
    <3>3. QED
      BY <3>1, <3>2 DEF Descriptors, OwnDescriptors
  <2>3. QED
    BY <2>1, <2>2
<1>5. \A g \in Fds : \/ entry'[g] = entry[g]
                     \/ g = f /\ entry'[g] = [mode |-> "level",
                                              callback |-> o]
  BY <1>1 DEF Descriptors, FileTypes
<1>6. NoCallbackWithoutEntry'
  BY <1>5 DEF Descriptors, NoCallbackWithoutEntry
<1>7. CallbacksReachTheirSource'
  <2> SUFFICES ASSUME NEW g \in Fds, entry'[g].mode # "none"
               PROVE  /\ entry'[g].callback \in Objects
                      /\ life'[entry'[g].callback] = "open"
                      /\ fd'[entry'[g].callback] = g
    BY DEF CallbacksReachTheirSource
  <2>1. CASE entry'[g] = entry[g]
    <3>1. /\ entry[g].callback \in Objects
          /\ life[entry[g].callback] = "open"
          /\ fd[entry[g].callback] = g
      BY <2>1 DEF Descriptors, CallbacksReachTheirSource
    <3>2. entry[g].callback # o
      BY <3>1, <1>1
    <3>3. QED
      BY <2>1, <3>1, <3>2, <1>1 DEF Descriptors, FileTypes
  <2>2. CASE g = f /\ entry'[g] = [mode |-> "level", callback |-> o]
    BY <2>2, <1>1 DEF Descriptors, FileTypes
  <2>3. QED
    BY <2>1, <2>2, <1>5
<1>8. QED
  BY <1>2, <1>4, <1>6, <1>7 DEF Descriptors

LEMMA DropKeepsDescriptors ==
    ASSUME Descriptors, NEW o \in Objects, Drop(o)
    PROVE  Descriptors'
<1>1. /\ Alive(o) /\ CloseOnDrop(o) /\ kind' = kind
      /\ life' = [life EXCEPT ![o] = "dropped"]
      /\ fd' = [fd EXCEPT ![o] = FdAfterDrop(o)]
  BY DEF Drop
<1>2. FdAfterDrop(o) \in Fds \cup {NoFd}
  BY DEF Descriptors, FileTypes, FdAfterDrop
<1>3. CASE life[o] = "open"
  <2>1. CloseFd(fd[o])
    BY <1>1, <1>3 DEF CloseOnDrop, CloseSocket
  <2>2. kind[o] = "receiver" => FdAfterDrop(o) = NoFd
    BY DEF FdAfterDrop
  <2>3. QED
    BY <1>1, <1>2, <1>3, <2>1, <2>2, ClosingKeepsDescriptors
<1>4. CASE life[o] = "closed"
  <2>1. kind[o] = "socket"
    BY <1>4 DEF Descriptors, OwnDescriptors
  <2>2. UNCHANGED <<file, entry>> /\ fd' = fd
    BY <1>1, <1>4, <2>1 DEF CloseOnDrop, CloseSocket, kernel, FdAfterDrop,
       Descriptors, FileTypes
  <2>3. FileTypes' /\ NoCallbackWithoutEntry'
    BY <1>1, <2>2 DEF Descriptors, FileTypes, NoCallbackWithoutEntry
  <2>4. /\ life'[o] = "dropped"
        /\ \A p \in Objects \ {o} : life'[p] = life[p]
    BY <1>1 DEF Descriptors, FileTypes
  <2>5. OwnDescriptors'
    BY <1>1, <2>1, <2>2, <2>4 DEF Descriptors, OwnDescriptors
  <2>6. CallbacksReachTheirSource'
    BY <1>4, <2>2, <2>4 DEF Descriptors, CallbacksReachTheirSource
  <2>7. QED
    BY <2>3, <2>5, <2>6 DEF Descriptors
<1>5. QED
  BY <1>1, <1>3, <1>4 DEF Alive

LEMMA CloseKeepsDescriptors ==
    ASSUME Descriptors, NEW o \in Objects, Close(o)
    PROVE  Descriptors'
<1>1. /\ kind[o] = "socket" /\ Alive(o) /\ CloseSocket(o)
      /\ life' = [life EXCEPT ![o] = "closed"]
      /\ UNCHANGED <<kind, fd>>
  BY DEF Close
<1>2. fd[o] \in Fds \cup {NoFd} /\ fd' = [fd EXCEPT ![o] = fd[o]]
  BY <1>1 DEF Descriptors, FileTypes
<1>3. CASE life[o] = "open"
  <2>1. CloseFd(fd[o])
    BY <1>1, <1>3 DEF CloseSocket
  <2>2. QED
    BY <1>1, <1>2, <1>3, <2>1, ClosingKeepsDescriptors
<1>4. CASE life[o] = "closed"
  <2>1. UNCHANGED files
    BY <1>1, <1>4 DEF CloseSocket, kernel, files, Descriptors, FileTypes
  <2>2. QED
    BY <2>1 DEF files, Descriptors, FileTypes, OwnDescriptors,
       NoCallbackWithoutEntry, CallbacksReachTheirSource
<1>5. QED
  BY <1>1, <1>3, <1>4 DEF Alive

LEMMA PollKeepsDescriptors ==
    ASSUME Descriptors, NEW o \in Objects, PollEvents(o)
    PROVE  Descriptors'
<1>1. PICK f \in Fds :
          ServedLast(o, f) \/ \E count \in 0 .. MaxPushed : Served(o, f, count)
  BY DEF PollEvents
<1>2. CASE ServedLast(o, f)
  <2>1. life[o] = "open" /\ fd[o] = f
    BY <1>2, CallbackIsOwner DEF ServedLast
  <2>2. fd' = [fd EXCEPT ![o] = f]
    BY <1>2, <2>1 DEF ServedLast, Descriptors, FileTypes
  <2>3. QED
    BY <1>2, <2>1, <2>2, ClosingKeepsDescriptors DEF ServedLast
<1>3. CASE \E count \in 0 .. MaxPushed : Served(o, f, count)
  <2>1. entry[f].callback = o /\ entry' = EntryAfter(f)
        /\ UNCHANGED <<kind, life, fd, file>>
    BY <1>3 DEF Served
  <2>2. life[o] = "open" /\ fd[o] = f
    BY <2>1, CallbackIsOwner
  <2>. DEFINE e == [mode |-> "spent", callback |-> o]
  <2>3. entry' = entry \/ entry' = [entry EXCEPT ![f] = e]
    <3>1. entry[f] \in [mode : {"none", "spent"} \cup Enabled,
                       callback : Objects \cup {NoObject}]
      BY DEF Descriptors, FileTypes
    <3>2. [entry[f] EXCEPT !.mode = "spent"] = e
      BY <2>1, <3>1
    <3>3. QED
      BY <2>1, <3>2 DEF EntryAfter
  <2>4. /\ e \in [mode : {"none", "spent"} \cup Enabled,
                  callback : Objects \cup {NoObject}]
        /\ e.mode # "none" /\ e.callback = o
    OBVIOUS
  <2>. HIDE DEF e
  <2>5. QED
    BY <2>1, <2>2, <2>3, <2>4, ControlKeepsDescriptors
<1>4. QED
  BY <1>1, <1>2, <1>3

LEMMA TimersKeepDescriptors ==
    ASSUME Descriptors, NEW o \in Objects,
           StopTimer(o) \/ \E mode \in {"level", "oneshot"} :
                               StartTimer(o, mode)
    PROVE  Descriptors'
<1>1. CASE StopTimer(o)
  <2>1. /\ life[o] = "open" /\ UNCHANGED <<kind, life, fd, file>>
        /\ entry' = entry \/ entry' = [entry EXCEPT ![fd[o]] = NoEntry]
    BY <1>1 DEF StopTimer, UnregisterFd, Control, sources
  <2>2. /\ NoEntry \in [mode : {"none", "spent"} \cup Enabled,
                        callback : Objects \cup {NoObject}]
        /\ NoEntry.mode = "none" /\ NoEntry.callback = NoObject
    BY DEF NoEntry
  <2>3. QED
    BY <2>1, <2>2, ControlKeepsDescriptors
<1>2. ASSUME NEW mode \in {"level", "oneshot"}, StartTimer(o, mode)
      PROVE  Descriptors'
  <2>. DEFINE e == [mode |-> mode, callback |-> o]
  <2>1. /\ life[o] = "open" /\ UNCHANGED <<kind, life, fd, file>>
        /\ entry' = entry \/ entry' = [entry EXCEPT ![fd[o]] = e]
    BY <1>2 DEF StartTimer, RegisterFd, ModifyFd, Control, sources
  <2>2. /\ e \in [mode : {"none", "spent"} \cup Enabled,
                  callback : Objects \cup {NoObject}]
        /\ e.mode # "none" /\ e.callback = o
    BY DEF Enabled
  <2>. HIDE DEF e
  <2>3. QED
    BY <2>1, <2>2, ControlKeepsDescriptors
<1>3. QED
  BY <1>1, <1>2

LEMMA DescriptorsStep ==
    ASSUME Descriptors, [Next]_vars PROVE Descriptors'
<1>1. CASE UNCHANGED files
  BY <1>1 DEF files, Descriptors, FileTypes, OwnDescriptors,
     NoCallbackWithoutEntry, CallbacksReachTheirSource
<1>2. ASSUME NEW o \in Objects,
             Transmit(o) \/ BecomesReady(o) \/ Take(o)
      PROVE  UNCHANGED files
  BY <1>2 DEF Transmit, BecomesReady, Take, files, sources
<1>3. ASSUME PutBack \/ PutFront \/ NextEvent \/ Interrupted
                 \/ NextEventFails
      PROVE  UNCHANGED files
  BY <1>3 DEF PutBack, PutFront, NextEvent, Interrupted, NextEventFails,
     vars, sources, kernel, files
<1>4. CASE UNCHANGED vars
  BY <1>1, <1>4 DEF vars, sources, kernel, files
<1>5. QED
  BY <1>1, <1>2, <1>3, <1>4, CreateKeepsDescriptors, DropKeepsDescriptors,
     CloseKeepsDescriptors, PollKeepsDescriptors, TimersKeepDescriptors
     DEF Next

LEMMA DescriptorsInvariant == Spec => []Descriptors
<1>1. QED
  BY DescriptorsInitially, DescriptorsStep, PTL DEF Spec

\* For any number of sources and any reuse of numbers: epoll never leads
\* poll_events to a source that is closed or gone.
THEOREM CallbacksAreSafe == Spec => []CallbacksReachTheirSource
<1>1. Descriptors => CallbacksReachTheirSource
  BY DEF Descriptors
<1>2. QED
  BY <1>1, DescriptorsInvariant, PTL

\* For any number of sources and any reuse of numbers: whoever may still use
\* a descriptor number uses it for the file it was got for.
THEOREM NumbersAreOwn == Spec => []NumbersDenoteOwnFile
<1>1. Descriptors => NumbersDenoteOwnFile
  BY DEF Descriptors, OwnDescriptors, NumbersDenoteOwnFile, Uses
<1>2. QED
  BY <1>1, DescriptorsInvariant, PTL

-----------------------------------------------------------------------------
(* Identity of events                                                       *)

QueueTypes ==
    /\ EventQueueTypeOK
    /\ info \in [Objects -> Sources]
    /\ pushers \in Seq(Objects)
    /\ Len(pushers) = Len(ready_events)
    /\ returned # NoEvent => author \in Objects

\* Living sources have EventSourceInfo objects of their own.
InfosDistinct ==
    \A o, p \in Objects : Alive(o) /\ Alive(p) /\ o # p => info[o] # info[p]

\* The inductive invariant.
Origins == QueueTypes /\ InfosDistinct /\ OriginIsRight

\* In a list of events and the list of those who pushed them, what originates
\* from source is of o.
PushedBy(events, who, source, o) ==
    \A k \in 1 .. Len(events) :
        OriginatesFrom(events[k], source) => who[k] = o

LEMMA OriginIsRightUnfolded ==
    OriginIsRight <=>
        \A o \in Objects : Alive(o) =>
            /\ PushedBy(ready_events, pushers, info[o], o)
            /\ returned # NoEvent /\ OriginatesFrom(returned, info[o])
                   => author = o
BY DEF OriginIsRight, PushedBy

LEMMA PushedByTail ==
    ASSUME NEW events \in Seq(EventsOf(Sources)), NEW who \in Seq(Objects),
           Len(who) = Len(events), events # <<>>,
           NEW source, NEW o, PushedBy(events, who, source, o)
    PROVE  /\ PushedBy(Tail(events), Tail(who), source, o)
           /\ OriginatesFrom(Head(events), source) => Head(who) = o
           /\ Tail(events) \in Seq(EventsOf(Sources))
           /\ Tail(who) \in Seq(Objects)
           /\ Len(Tail(who)) = Len(Tail(events))
           /\ Head(events) \in EventsOf(Sources) /\ Head(who) \in Objects
<1>1. /\ Len(events) \in Nat \ {0} /\ who # <<>>
      /\ Len(Tail(events)) = Len(events) - 1
      /\ Len(Tail(who)) = Len(who) - 1
      /\ Head(events) = events[1] /\ Head(who) = who[1]
      /\ Tail(events) \in Seq(EventsOf(Sources))
      /\ Tail(who) \in Seq(Objects)
  OBVIOUS
<1>2. \A k \in 1 .. Len(Tail(events)) :
          /\ Tail(events)[k] = events[k + 1]
          /\ Tail(who)[k] = who[k + 1]
          /\ k + 1 \in 1 .. Len(events)
  BY <1>1
<1>3. PushedBy(Tail(events), Tail(who), source, o)
  BY <1>2 DEF PushedBy
<1>4. 1 \in 1 .. Len(events)
  BY <1>1
<1>5. Head(events) \in EventsOf(Sources) /\ Head(who) \in Objects
  BY <1>1
<1>6. QED
  BY <1>1, <1>3, <1>4, <1>5 DEF PushedBy

\* Lists of events and of those who pushed them grow together.
LEMMA ConcatTypes ==
    ASSUME NEW S, NEW T,
           NEW events \in Seq(S), NEW who \in Seq(T), Len(who) = Len(events),
           NEW more \in Seq(S), NEW others \in Seq(T),
           Len(others) = Len(more)
    PROVE  /\ events \o more \in Seq(S) /\ who \o others \in Seq(T)
           /\ Len(who \o others) = Len(events \o more)
           /\ who \o others = <<>> <=> events \o more = <<>>
<1>1. events \o more \in Seq(S) /\ who \o others \in Seq(T)
  OBVIOUS
<1>2. Len(who \o others) = Len(events \o more)
  <2>1. Len(who \o others) = Len(who) + Len(others)
    BY ConcatElements
  <2>2. Len(events \o more) = Len(events) + Len(more)
    BY ConcatElements
  <2>3. QED
    BY <2>1, <2>2
<1>3. \A U : \A s \in Seq(U) : s = <<>> <=> Len(s) = 0
  OBVIOUS
<1>4. QED
  BY <1>1, <1>2, <1>3

LEMMA AppendIsConcat ==
    ASSUME NEW S, NEW s \in Seq(S), NEW e \in S
    PROVE  Append(s, e) = s \o <<e>>
<1>1. /\ Append(s, e) \in Seq(S) /\ s \o <<e>> \in Seq(S)
      /\ Len(Append(s, e)) = Len(s \o <<e>>)
  OBVIOUS
<1>2. \A i \in 1 .. Len(s) + 1 : Append(s, e)[i] = (s \o <<e>>)[i]
  OBVIOUS
<1>3. QED
  BY <1>1, <1>2

LEMMA PushedByConcat ==
    ASSUME NEW events \in Seq(EventsOf(Sources)), NEW who \in Seq(Objects),
           Len(who) = Len(events),
           NEW more \in Seq(EventsOf(Sources)), NEW others \in Seq(Objects),
           Len(others) = Len(more),
           NEW source, NEW o, PushedBy(events, who, source, o),
           PushedBy(more, others, source, o)
    PROVE  PushedBy(events \o more, who \o others, source, o)
<1> SUFFICES ASSUME NEW k \in 1 .. Len(events \o more),
                    OriginatesFrom((events \o more)[k], source)
             PROVE  (who \o others)[k] = o
  BY DEF PushedBy
<1>1. CASE k \in 1 .. Len(events)
  BY <1>1 DEF PushedBy
<1>2. CASE k \notin 1 .. Len(events)
  <2>1. k - Len(events) \in 1 .. Len(more)
    BY <1>2
  <2>2. /\ (events \o more)[k] = more[k - Len(events)]
        /\ (who \o others)[k] = others[k - Len(events)]
    BY <1>2, <2>1
  <2>3. QED
    BY <2>1, <2>2 DEF PushedBy
<1>3. QED
  BY <1>1, <1>2

\* Invalidating events does not touch their origin.
LEMMA PushedByRemovePending ==
    ASSUME NEW events \in Seq(EventsOf(Sources)), NEW who,
           NEW s, NEW source, NEW o, PushedBy(events, who, source, o)
    PROVE  PushedBy(RemovePending(events, s), who, source, o)
<1>1. Len(RemovePending(events, s)) = Len(events)
  BY RemovePendingIsSequence
<1>2. ASSUME NEW k \in 1 .. Len(events)
      PROVE  OriginatesFrom(RemovePending(events, s)[k], source)
                 <=> OriginatesFrom(events[k], source)
  <2>1. events[k] \in EventsOf(Sources)
    OBVIOUS
  <2>2. Invalidate(events[k]).source_info = events[k].source_info
    BY <2>1 DEF Invalidate, EventsOf
  <2>3. QED
    BY <2>2 DEF RemovePending, OriginatesFrom
<1>3. QED
  BY <1>1, <1>2 DEF PushedBy

-----------------------------------------------------------------------------

LEMMA OriginsInitially == Init => Origins
<1> SUFFICES ASSUME Init PROVE Origins
  OBVIOUS
<1>1. /\ ready_events = <<>> /\ pushers = <<>> /\ returned = NoEvent
      /\ \A o \in Objects : ~Alive(o)
      /\ loop = "user"
  BY DEF Init, EventQueueInit, Alive
<1>2. info \in [Objects -> Sources]
  BY DEF Init
<1>3. QED
  BY <1>1, <1>2 DEF Origins, QueueTypes, EventQueueTypeOK, InfosDistinct,
     OriginIsRight

\* Steps that leave the list, the last event and the living sources alone.
LEMMA OriginsUndisturbed ==
    ASSUME Origins, UNCHANGED <<life, info, ready_events, pushers, returned,
                                author>>,
           loop' \in {"user", "polling", "callback"}
    PROVE  Origins'
BY DEF Origins, QueueTypes, EventQueueTypeOK, InfosDistinct, OriginIsRight,
   Alive

\* An address is taken for a new source only if nothing carries it.
LEMMA CreateKeepsOrigins ==
    ASSUME Origins, NEW o \in Objects, NEW f \in Fds, NEW i \in Sources,
           Create(o, f, i), FileTypes
    PROVE  Origins'
<1>1. /\ i \notin AddressesInUse
      /\ life' = [life EXCEPT ![o] = "open"]
      /\ info' = [info EXCEPT ![o] = i]
      /\ UNCHANGED <<pushers, author, ready_events, loop, returned>>
  BY DEF Create, eqvars
<1>2. QueueTypes'
  BY <1>1 DEF Origins, QueueTypes, EventQueueTypeOK
<1>3. info'[o] = i /\ \A p \in Objects \ {o} :
          info'[p] = info[p] /\ (Alive(p)' <=> Alive(p))
  BY <1>1 DEF Origins, QueueTypes, FileTypes, Alive
<1>4. /\ \A p \in Objects : Alive(p) => info[p] # i
      /\ \A k \in 1 .. Len(ready_events) : ready_events[k].source_info # i
      /\ returned # NoEvent => returned.source_info # i
  BY <1>1 DEF AddressesInUse
<1>5. InfosDistinct'
  BY <1>3, <1>4 DEF Origins, InfosDistinct
<1>6. OriginIsRight'
  <2> SUFFICES ASSUME NEW p \in Objects, Alive(p)'
               PROVE  /\ \A k \in 1 .. Len(ready_events) :
                          OriginatesFrom(ready_events[k], info'[p])
                              => pushers[k] = p
                      /\ returned # NoEvent
                           /\ OriginatesFrom(returned, info'[p])
                             => author = p
    BY <1>1 DEF OriginIsRight
  <2>1. CASE p = o
    BY <2>1, <1>3, <1>4 DEF OriginatesFrom
  <2>2. CASE p # o
    BY <2>2, <1>3 DEF Origins, OriginIsRight
  <2>3. QED
    BY <2>1, <2>2
<1>7. QED
  BY <1>2, <1>5, <1>6 DEF Origins

\* stop, close and drop invalidate events; no source comes to life.
LEMMA SilencingKeepsOrigins ==
    ASSUME Origins, NEW s, RemovePendingEvents(s),
           UNCHANGED <<info, pushers, author, loop, returned>>,
           \A p \in Objects : Alive(p)' => Alive(p)
    PROVE  Origins'
<1>1. /\ ready_events' = RemovePending(ready_events, s)
      /\ ready_events \in Seq(EventsOf(Sources))
  BY DEF RemovePendingEvents, Origins, QueueTypes, EventQueueTypeOK
<1>2. QueueTypes'
  BY <1>1, RemovePendingIsSequence DEF Origins, QueueTypes, EventQueueTypeOK
<1>3. InfosDistinct'
  BY DEF Origins, InfosDistinct
<1>4. OriginIsRight'
  <2> SUFFICES ASSUME NEW o \in Objects, Alive(o)'
               PROVE  /\ PushedBy(ready_events', pushers, info[o], o)
                      /\ returned # NoEvent
                           /\ OriginatesFrom(returned, info[o])
                             => author = o
    BY DEF OriginIsRight, PushedBy
  <2>1. /\ PushedBy(ready_events, pushers, info[o], o)
        /\ returned # NoEvent /\ OriginatesFrom(returned, info[o])
               => author = o
    BY OriginIsRightUnfolded DEF Origins
  <2>2. QED
    BY <2>1, <1>1, PushedByRemovePending
<1>5. QED
  BY <1>2, <1>3, <1>4 DEF Origins

LEMMA PuttingKeepsOrigins ==
    ASSUME Origins, PutBack \/ PutFront
    PROVE  Origins'
<1>1. /\ returned \in EventsOf(Sources)
      /\ UNCHANGED <<life, info, author, loop, returned>>
      /\ \/ /\ ready_events' = Append(ready_events, returned)
            /\ pushers' = Append(pushers, author)
         \/ /\ ready_events' = <<returned>> \o ready_events
            /\ pushers' = <<author>> \o pushers
  BY DEF PutBack, PutFront, PushBack, sources, Origins, QueueTypes,
     EventQueueTypeOK
<1>2. author \in Objects
  BY DEF PutBack, PutFront, Origins, QueueTypes
<1>3. /\ ready_events \in Seq(EventsOf(Sources)) /\ pushers \in Seq(Objects)
      /\ Len(pushers) = Len(ready_events)
      /\ <<returned>> \in Seq(EventsOf(Sources)) /\ <<author>> \in Seq(Objects)
      /\ Len(<<returned>>) = Len(<<author>>)
  BY <1>1, <1>2 DEF Origins, QueueTypes, EventQueueTypeOK
<1>4. \/ /\ ready_events' = ready_events \o <<returned>>
         /\ pushers' = pushers \o <<author>>
      \/ /\ ready_events' = <<returned>> \o ready_events
         /\ pushers' = <<author>> \o pushers
  <2>1. /\ Append(ready_events, returned) = ready_events \o <<returned>>
        /\ Append(pushers, author) = pushers \o <<author>>
    BY <1>1, <1>2, <1>3, AppendIsConcat
  <2>2. QED
    BY <1>1, <2>1
<1>5. QueueTypes'
  <2>1. /\ ready_events' \in Seq(EventsOf(Sources))
        /\ pushers' \in Seq(Objects) /\ Len(pushers') = Len(ready_events')
    <3>1. /\ ready_events \o <<returned>> \in Seq(EventsOf(Sources))
          /\ pushers \o <<author>> \in Seq(Objects)
          /\ Len(pushers \o <<author>>) = Len(ready_events \o <<returned>>)
      BY <1>3, ConcatTypes
    <3>2. /\ <<returned>> \o ready_events \in Seq(EventsOf(Sources))
          /\ <<author>> \o pushers \in Seq(Objects)
          /\ Len(<<author>> \o pushers) = Len(<<returned>> \o ready_events)
      BY <1>3, ConcatTypes
    <3>3. QED
      BY <1>4, <3>1, <3>2
  <2>2. QED
    BY <1>1, <1>2, <2>1 DEF Origins, QueueTypes, EventQueueTypeOK
<1>6. InfosDistinct'
  BY <1>1 DEF Origins, InfosDistinct, Alive
<1>7. OriginIsRight'
  <2> SUFFICES ASSUME NEW o \in Objects, Alive(o)
               PROVE  /\ PushedBy(ready_events', pushers', info[o], o)
                      /\ returned # NoEvent
                           /\ OriginatesFrom(returned, info[o])
                             => author = o
    BY <1>1 DEF OriginIsRight, PushedBy, Alive
  <2>1. /\ PushedBy(ready_events, pushers, info[o], o)
        /\ returned # NoEvent /\ OriginatesFrom(returned, info[o])
               => author = o
    BY OriginIsRightUnfolded DEF Origins
  <2>2. returned # NoEvent
    BY DEF PutBack, PutFront
  <2>3. PushedBy(<<returned>>, <<author>>, info[o], o)
    BY <2>1, <2>2 DEF PushedBy
  <2>4. QED
    BY <2>1, <2>3, <1>3, <1>4, PushedByConcat
<1>8. QED
  BY <1>5, <1>6, <1>7 DEF Origins

LEMMA NextEventKeepsOrigins ==
    ASSUME Origins, NextEvent
    PROVE  Origins'
<1>1. UNCHANGED <<life, info>>
  BY DEF NextEvent, sources
<1>2. CASE NextEventPoll /\ UNCHANGED <<pushers, author>>
  BY <1>1, <1>2, OriginsUndisturbed DEF NextEventPoll
<1>3. CASE /\ NextEventReady
           /\ pushers' = Tail(pushers) /\ author' = Head(pushers)
  <2>1. /\ ready_events # <<>> /\ ready_events' = Tail(ready_events)
        /\ returned' = Head(ready_events) /\ loop' = loop
        /\ pushers' = Tail(pushers) /\ author' = Head(pushers)
    BY <1>3 DEF NextEventReady
  <2>2. /\ ready_events \in Seq(EventsOf(Sources))
        /\ pushers \in Seq(Objects) /\ Len(pushers) = Len(ready_events)
    BY DEF Origins, QueueTypes, EventQueueTypeOK
  <2>3. /\ ready_events' \in Seq(EventsOf(Sources))
        /\ pushers' \in Seq(Objects) /\ Len(pushers') = Len(ready_events')
        /\ returned' \in EventsOf(Sources) /\ author' \in Objects
    BY <2>1, <2>2
  <2>4. QueueTypes'
    BY <1>1, <2>1, <2>3 DEF Origins, QueueTypes, EventQueueTypeOK
  <2>5. InfosDistinct'
    BY <1>1 DEF Origins, InfosDistinct, Alive
  <2>6. ASSUME NEW o \in Objects, Alive(o)
        PROVE  /\ PushedBy(ready_events', pushers', info[o], o)
               /\ OriginatesFrom(returned', info[o]) => author' = o
    <3>1. PushedBy(ready_events, pushers, info[o], o)
      BY <2>6, OriginIsRightUnfolded DEF Origins
    <3>2. QED
      BY <3>1, <2>1, <2>2, PushedByTail
  <2>7. OriginIsRight'
    BY <1>1, <2>6 DEF OriginIsRight, PushedBy, Alive
  <2>8. QED
    BY <2>4, <2>5, <2>7 DEF Origins
<1>4. QED
  BY <1>2, <1>3 DEF NextEvent

\* A callback pushes events of its own, living, source.
LEMMA CallbackKeepsOrigins ==
    ASSUME Origins, FileTypes, NEW o \in Objects, Alive(o), NEW n \in Nat,
           CallbackPushes(o, n), info' = info,
           \A p \in Objects : Alive(p)' <=> Alive(p)
    PROVE  Origins'
<1>. DEFINE events == ready_events \o Repeat(EventOf(o), n)
            who == pushers \o Repeat(o, n)
            useful == events # <<>> /\ Head(events).is_valid
<1>1. /\ EventOf(o) \in EventsOf(Sources)
      /\ EventOf(o).source_info = info[o]
  <2>1. kind[o] \in Kinds /\ info[o] \in Sources
    BY DEF FileTypes, Origins, QueueTypes
  <2>2. QED
    BY <2>1 DEF EventOf, NewEvent, EventsOf, EventKind, Kinds
<1>2. /\ ready_events \in Seq(EventsOf(Sources))
      /\ pushers \in Seq(Objects) /\ Len(pushers) = Len(ready_events)
  BY DEF Origins, QueueTypes, EventQueueTypeOK
<1>3. /\ Repeat(EventOf(o), n) \in Seq(EventsOf(Sources))
      /\ Repeat(o, n) \in Seq(Objects)
      /\ Len(Repeat(EventOf(o), n)) = n /\ Len(Repeat(o, n)) = n
  BY <1>1, RepeatIsSequence
<1>4. /\ events \in Seq(EventsOf(Sources)) /\ who \in Seq(Objects)
      /\ Len(who) = Len(events) /\ (who = <<>> <=> events = <<>>)
  BY <1>2, <1>3, ConcatTypes
<1>5. ASSUME NEW p \in Objects, Alive(p)
      PROVE  PushedBy(events, who, info[p], p)
  <2>1. PushedBy(ready_events, pushers, info[p], p)
    BY <1>5, OriginIsRightUnfolded DEF Origins
  <2>2. info[o] = info[p] => o = p
    BY <1>5 DEF Origins, InfosDistinct
  <2>3. PushedBy(Repeat(EventOf(o), n), Repeat(o, n), info[p], p)
    BY <1>1, <1>3, <2>2 DEF PushedBy, OriginatesFrom, Repeat
  <2>4. QED
    BY <2>1, <2>3, <1>2, <1>3, PushedByConcat
<1>6. /\ ready_events' = IF events = <<>> THEN <<>> ELSE Tail(events)
      /\ pushers' = IF who = <<>> THEN <<>> ELSE Tail(who)
      /\ returned' = IF useful THEN Head(events) ELSE returned
      /\ loop' = IF useful THEN "user" ELSE "polling"
      /\ author' = IF useful THEN Head(who) ELSE author
  BY DEF CallbackPushes, FinishPoll
<1>. HIDE DEF events, who
<1>7. QueueTypes'
  <2>1. /\ ready_events' \in Seq(EventsOf(Sources))
        /\ pushers' \in Seq(Objects) /\ Len(pushers') = Len(ready_events')
    BY <1>4, <1>6
  <2>2. useful => Head(events) \in EventsOf(Sources) /\ Head(who) \in Objects
    BY <1>4
  <2>3. /\ returned' \in EventsOf(Sources) \cup {NoEvent}
        /\ returned' # NoEvent => author' \in Objects
    BY <1>6, <2>2 DEF Origins, QueueTypes, EventQueueTypeOK
  <2>4. loop' \in {"user", "polling", "callback"}
    BY <1>6
  <2>5. QED
    BY <2>1, <2>3, <2>4 DEF Origins, QueueTypes, EventQueueTypeOK
<1>8. InfosDistinct'
  BY DEF Origins, InfosDistinct
<1>9. ASSUME NEW p \in Objects, Alive(p)
      PROVE  /\ PushedBy(ready_events', pushers', info[p], p)
             /\ returned' # NoEvent /\ OriginatesFrom(returned', info[p])
                    => author' = p
  <2>1. PushedBy(events, who, info[p], p)
    BY <1>5, <1>9
  <2>2. PushedBy(ready_events', pushers', info[p], p)
    <3>1. CASE events = <<>>
      BY <3>1, <1>6 DEF PushedBy
    <3>2. CASE events # <<>>
      BY <3>2, <2>1, <1>4, <1>6, PushedByTail
    <3>3. QED
      BY <3>1, <3>2
  <2>3. CASE useful
    BY <2>3, <2>1, <1>4, <1>6, PushedByTail
  <2>4. CASE ~useful
    <3>1. returned' = returned /\ author' = author
      BY <2>4, <1>6
    <3>2. returned # NoEvent /\ OriginatesFrom(returned, info[p])
              => author = p
      BY <1>9, OriginIsRightUnfolded DEF Origins
    <3>3. QED
      BY <3>1, <3>2, <2>2
  <2>5. QED
    BY <2>2, <2>3, <2>4
<1>10. OriginIsRight'
  BY <1>9 DEF OriginIsRight, PushedBy
<1>11. QED
  BY <1>7, <1>8, <1>10 DEF Origins

LEMMA PollKeepsOrigins ==
    ASSUME Origins, Descriptors, NEW o \in Objects, PollEvents(o)
    PROVE  Origins'
<1>1. FileTypes
  BY DEF Descriptors
<1>2. PICK f \in Fds :
          ServedLast(o, f) \/ \E count \in 0 .. MaxPushed : Served(o, f, count)
  BY DEF PollEvents
<1>3. life[o] = "open"
  BY <1>2, CallbackIsOwner DEF ServedLast, Served
<1>4. CASE ServedLast(o, f)
  <2>1. \A p \in Objects : Alive(p)' <=> Alive(p)
    BY <1>1, <1>3, <1>4 DEF ServedLast, Alive, FileTypes
  <2>2. CallbackPushes(o, 1) /\ info' = info
    BY <1>4 DEF ServedLast
  <2>3. QED
    BY <1>1, <1>3, <2>1, <2>2, CallbackKeepsOrigins DEF Alive
<1>5. ASSUME NEW count \in 0 .. MaxPushed, Served(o, f, count)
      PROVE  Origins'
  <2>1. CallbackPushes(o, count) /\ UNCHANGED <<life, info>>
    BY <1>5 DEF Served
  <2>2. count \in Nat
    OBVIOUS
  <2>3. QED
    BY <1>1, <1>3, <2>1, <2>2, CallbackKeepsOrigins DEF Alive
<1>6. QED
  BY <1>2, <1>4, <1>5

LEMMA OriginsStep ==
    ASSUME Origins, Descriptors, [Next]_vars PROVE Origins'
<1>1. FileTypes /\ loop \in {"user", "polling", "callback"}
  BY DEF Descriptors, Origins, QueueTypes, EventQueueTypeOK
<1>2. ASSUME NEW o \in Objects,
             \/ Transmit(o) \/ BecomesReady(o) \/ Take(o)
             \/ \E mode \in {"level", "oneshot"} : StartTimer(o, mode)
      PROVE  Origins'
  BY <1>1, <1>2, OriginsUndisturbed
     DEF Transmit, BecomesReady, Take, StartTimer, sources, eqvars
<1>3. ASSUME Interrupted \/ NextEventFails \/ UNCHANGED vars
      PROVE  Origins'
  BY <1>1, <1>3, OriginsUndisturbed
     DEF Interrupted, NextEventFails, vars, sources, eqvars
<1>4. ASSUME NEW o \in Objects, StopTimer(o) \/ Close(o) \/ Drop(o)
      PROVE  Origins'
  <2>1. /\ RemovePendingEvents(info[o])
        /\ UNCHANGED <<info, pushers, author, loop, returned>>
    BY <1>4 DEF StopTimer, Close, Drop, sources
  <2>2. \A p \in Objects : Alive(p)' => Alive(p)
    BY <1>1, <1>4 DEF StopTimer, Close, Drop, sources, Alive, FileTypes
  <2>3. QED
    BY <2>1, <2>2, SilencingKeepsOrigins
<1>5. QED
  BY <1>1, <1>2, <1>3, <1>4, CreateKeepsOrigins, PuttingKeepsOrigins,
     NextEventKeepsOrigins, PollKeepsOrigins DEF Next

\* For any number of sources, events and addresses: originates_from answers
\* for the source that pushed the event, although addresses are reused.
THEOREM OriginsAreRight == Spec => []OriginIsRight
<1>1. Origins => OriginIsRight
  BY DEF Origins
<1>2. Origins /\ Descriptors /\ [Next]_vars => Origins'
  BY OriginsStep
<1>3. QED
  BY <1>1, <1>2, OriginsInitially, DescriptorsInvariant, PTL DEF Spec

-----------------------------------------------------------------------------
(* Types                                                                    *)

\* The part of the types that neither of the invariants above needs.
KernelTypes ==
    /\ epfd \in EpollResults /\ task \in {"running", "failed"}
    /\ raised \subseteq Fds
    /\ rdlist \in Seq(Fds)
    /\ heard \subseteq Objects
    /\ author \in Objects \cup {NoObject}

\* Taking a number off the ready list, or all up to it, leaves a list of
\* numbers.
LEMMA ReadyListTypes ==
    ASSUME rdlist \in Seq(Fds), NEW f \in Fds
    PROVE  /\ Without(f) \in Seq(Fds)
           /\ Append(rdlist, f) \in Seq(Fds)
           /\ Listed(f) => ListAfter(f) \in Seq(Fds)
<1>1. ASSUME Listed(f)
      PROVE  Before(f) \in Seq(Fds) /\ After(f) \in Seq(Fds)
  <2>1. PlaceOf(f) \in 1 .. Len(rdlist)
    BY <1>1 DEF Listed, PlaceOf
  <2>2. QED
    BY <2>1 DEF Before, After
<1>2. ASSUME Listed(f)
      PROVE  Without(f) \in Seq(Fds) /\ ListAfter(f) \in Seq(Fds)
  BY <1>1, <1>2 DEF Without, ListAfter
<1>3. QED
  BY <1>2 DEF Without

\* Kernel and queue keep their types, whatever becomes of a source.
LEMMA KernelTypesStep ==
    ASSUME KernelTypes, Descriptors, Origins, [Next]_vars
    PROVE  KernelTypes'
<1>0. FileTypes /\ QueueTypes
  BY DEF Descriptors, Origins
<1>. USE DEF KernelTypes
<1>1. ASSUME NEW o \in Objects, NEW f \in Fds, NEW i \in Sources,
             Create(o, f, i)
      PROVE  KernelTypes'
  BY <1>1 DEF Create, RegisterFd, Control
<1>2. ASSUME NEW o \in Objects, NEW mode \in {"level", "oneshot"},
             StartTimer(o, mode) \/ StopTimer(o)
      PROVE  KernelTypes'
  <2>1. fd[o] \in Fds
    BY <1>2 DEF StartTimer, StopTimer, Descriptors, OwnDescriptors
  <2>2. Without(fd[o]) \in Seq(Fds)
    BY <2>1, ReadyListTypes
  <2>3. QED
    BY <1>2, <2>2 DEF StartTimer, StopTimer, RegisterFd, ModifyFd,
       UnregisterFd, Control, sources
<1>3. ASSUME NEW o \in Objects, Close(o) \/ Drop(o)
      PROVE  KernelTypes'
  <2>1. life[o] = "open" => fd[o] \in Fds
    BY DEF Descriptors, OwnDescriptors
  <2>2. \/ life[o] = "open" /\ CloseFd(fd[o])
        \/ UNCHANGED kernel
    BY <1>3, <1>0 DEF Close, Drop, CloseOnDrop, CloseSocket, Alive,
       Descriptors, OwnDescriptors
  <2>3. raised' \subseteq Fds /\ rdlist' \in Seq(Fds)
    BY <2>1, <2>2, ReadyListTypes DEF CloseFd, kernel
  <2>4. QED
    BY <1>3, <2>3 DEF Close, Drop
<1>4. ASSUME NEW o \in Objects, Transmit(o) \/ BecomesReady(o)
      PROVE  KernelTypes'
  <2>1. fd[o] \in Fds
    BY <1>0, <1>4
       DEF Transmit, BecomesReady, FileTypes, Descriptors, OwnDescriptors
  <2>2. Append(rdlist, fd[o]) \in Seq(Fds)
    BY <2>1, ReadyListTypes
  <2>3. QED
    BY <1>4, <2>1, <2>2 DEF Transmit, BecomesReady, Raise, sources
<1>5. ASSUME NEW o \in Objects, PollEvents(o)
      PROVE  KernelTypes'
  <2>1. author' \in Objects \cup {NoObject}
    <3>1. Origins'
      BY <1>5, PollKeepsOrigins
    <3>2. returned' # NoEvent => author' \in Objects
      BY <3>1 DEF Origins, QueueTypes
    <3>3. returned' = NoEvent => author' = author
      <4>1. PICK count \in Nat : CallbackPushes(o, count)
        BY <1>5, EventLoopAssumption DEF PollEvents, ServedLast, Served
      <4>2. /\ EventOf(o) \in EventsOf(Sources)
            /\ ready_events \in Seq(EventsOf(Sources))
        <5>1. kind[o] \in Kinds /\ info[o] \in Sources
          BY <1>0 DEF FileTypes, QueueTypes
        <5>2. QED
          BY <1>0, <5>1 DEF EventOf, NewEvent, EventsOf, EventKind, Kinds,
             QueueTypes, EventQueueTypeOK
      <4>. DEFINE events == ready_events \o Repeat(EventOf(o), count)
      <4>3. events \in Seq(EventsOf(Sources))
        BY <4>2, RepeatIsSequence
      <4>4. loop' = "user" => returned' = Head(events) /\ events # <<>>
        BY <4>1 DEF CallbackPushes, FinishPoll
      <4>. HIDE DEF events
      <4>5. loop' = "user" => returned' \in EventsOf(Sources)
        BY <4>3, <4>4
      <4>6. returned' = NoEvent => loop' # "user"
        BY <4>5, NoEventAssumption
      <4>7. QED
        BY <4>1, <4>6 DEF CallbackPushes
    <3>4. QED
      BY <3>2, <3>3
  <2>2. PICK f \in Fds :
            ServedLast(o, f)
                \/ \E count \in 0 .. MaxPushed : Served(o, f, count)
    BY <1>5 DEF PollEvents
  <2>3. Listed(f)
    BY <2>2 DEF ServedLast, Served, Reports, Listed
  <2>4. Without(f) \in Seq(Fds) /\ ListAfter(f) \in Seq(Fds)
    BY <2>3, ReadyListTypes
  <2>5. QED
    BY <2>1, <2>2, <2>4 DEF ServedLast, Served, CloseFd
<1>6. ASSUME NextEvent
      PROVE  KernelTypes'
  <2>1. author' \in Objects \cup {NoObject}
    <3>1. CASE NextEventReady /\ author' = Head(pushers)
      <4>1. pushers \in Seq(Objects) /\ pushers # <<>>
        BY <1>0, <3>1 DEF QueueTypes, EventQueueTypeOK, NextEventReady
      <4>2. QED
        BY <3>1, <4>1
    <3>2. QED
      BY <1>6, <3>1 DEF NextEvent
  <2>2. QED
    BY <1>6, <2>1 DEF NextEvent, sources, kernel
<1>7. ASSUME \/ PutBack \/ PutFront \/ Interrupted \/ NextEventFails
             \/ UNCHANGED vars \/ \E o \in Objects : Take(o)
      PROVE  KernelTypes'
  BY <1>7 DEF PutBack, PutFront, Interrupted, NextEventFails, Take, vars,
     sources, kernel
<1>8. QED
  BY <1>1, <1>2, <1>3, <1>4, <1>5, <1>6, <1>7 DEF Next

\* Event queue, sources and kernel keep their types, for any number of
\* sources.
THEOREM TypeCorrect == Spec => []TypeOK
<1>1. Init => KernelTypes
  BY DEF Init, KernelTypes
<1>2. KernelTypes /\ Descriptors /\ Origins /\ [Next]_vars => KernelTypes'
  BY KernelTypesStep
<1>3. Origins /\ Descriptors /\ [Next]_vars => Origins'
  BY OriginsStep
<1>4. KernelTypes /\ Descriptors /\ Origins => TypeOK
  BY DEF KernelTypes, Descriptors, FileTypes, Origins, QueueTypes, TypeOK
<1>5. QED
  BY <1>1, <1>2, <1>3, <1>4, OriginsInitially, DescriptorsInvariant, PTL
     DEF Spec

-----------------------------------------------------------------------------
(* The ready list                                                           *)

Distinct(s) == \A j, k \in 1 .. Len(s) : s[j] = s[k] => j = k

\* The inductive invariant: what is ready on epoll is on the list, and nothing
\* is ready without an open file, so that a new source finds its number quiet.
\* No source is registered edge-triggered: the list would lose a socket whose
\* client has not taken everything.
ReadyList ==
    /\ Distinct(rdlist)
    /\ \A f \in Fds :
           /\ entry[f].mode # "edge"
           /\ f \in raised => file[f] # NoObject
           /\ entry[f].mode \in Enabled /\ f \in raised => Listed(f)

\* Where an element of a list without repetitions is.
LEMMA PlaceIsUnique ==
    ASSUME NEW s, Distinct(s), NEW k \in 1 .. Len(s)
    PROVE  (CHOOSE j \in 1 .. Len(s) : s[j] = s[k]) = k
  BY DEF Distinct

\* A list without its k-th element.
LEMMA RemoveElement ==
    ASSUME NEW S, NEW s \in Seq(S), NEW k \in 1 .. Len(s),
           NEW rest, rest = SubSeq(s, 1, k - 1) \o SubSeq(s, k + 1, Len(s))
    PROVE  /\ Len(rest) = Len(s) - 1
           /\ \A i \in 1 .. Len(rest) :
                  rest[i] = IF i < k THEN s[i] ELSE s[i + 1]
  <1>. DEFINE front == SubSeq(s, 1, k - 1)
              back == SubSeq(s, k + 1, Len(s))
  <1>1. /\ front \in Seq(S) /\ Len(front) = k - 1
        /\ \A i \in 1 .. k - 1 : front[i] = s[i]
    OBVIOUS
  <1>2. /\ back \in Seq(S) /\ Len(back) = Len(s) - k
        /\ \A i \in 1 .. Len(s) - k : back[i] = s[k + i]
    OBVIOUS
  <1>3. rest = front \o back
    OBVIOUS
  <1>. HIDE DEF front, back
  <1>4. /\ Len(front \o back) = Len(front) + Len(back)
        /\ \A i \in 1 .. Len(front) : (front \o back)[i] = front[i]
        /\ \A i \in 1 .. Len(back) :
               (front \o back)[Len(front) + i] = back[i]
    <2>1. \A a, b \in Seq(S) :
              /\ Len(a \o b) = Len(a) + Len(b)
              /\ \A i \in 1 .. Len(a) : (a \o b)[i] = a[i]
              /\ \A i \in 1 .. Len(b) : (a \o b)[Len(a) + i] = b[i]
      BY ConcatElements
    <2>. QED
      BY <1>1, <1>2, <2>1
  <1>. DEFINE m == Len(s)
  <1>5. m \in Nat /\ k \in 1 .. m
    OBVIOUS
  <1>6. /\ Len(rest) = (k - 1) + (m - k)
        /\ \A i \in 1 .. k - 1 : rest[i] = s[i]
        /\ \A i \in 1 .. m - k : rest[(k - 1) + i] = s[k + i]
    BY <1>1, <1>2, <1>3, <1>4
  <1>. HIDE DEF m
  <1>7. Len(rest) = m - 1
    <2>1. (k - 1) + (m - k) = m - 1
      BY <1>5
    <2>. QED
      BY <1>6, <2>1
  <1>8. ASSUME NEW i \in 1 .. m - 1
        PROVE  rest[i] = IF i < k THEN s[i] ELSE s[i + 1]
    <2>1. CASE i < k
      <3>1. i \in 1 .. k - 1
        BY <1>5, <2>1
      <3>. QED
        BY <1>6, <2>1, <3>1
    <2>2. CASE ~(i < k)
      <3>1. /\ i - (k - 1) \in 1 .. m - k
            /\ (k - 1) + (i - (k - 1)) = i
            /\ k + (i - (k - 1)) = i + 1
        BY <1>5, <2>2
      <3>. QED
        BY <1>6, <2>2, <3>1
    <2>. QED
      BY <2>1, <2>2
  <1>. QED
    BY <1>7, <1>8 DEF m

\* Taking a number off the ready list leaves the others in their order.
LEMMA WithoutKeepsOthers ==
    ASSUME rdlist \in Seq(Fds), Distinct(rdlist), NEW f \in Fds
    PROVE  /\ Distinct(Without(f))
           /\ \A i \in 1 .. Len(Without(f)) : Without(f)[i] # f
           /\ \A p \in 1 .. Len(rdlist) : rdlist[p] # f =>
                  LET q == IF Listed(f) /\ PlaceOf(f) < p THEN p - 1 ELSE p
                  IN  q \in 1 .. Len(Without(f)) /\ Without(f)[q] = rdlist[p]
  <1>1. CASE ~Listed(f)
    BY <1>1 DEF Without, Listed
  <1>2. CASE Listed(f)
    <2>. DEFINE k == PlaceOf(f)
                rest == Without(f)
    <2>1. k \in 1 .. Len(rdlist) /\ rdlist[k] = f
      BY <1>2 DEF Listed, PlaceOf
    <2>2. rest = SubSeq(rdlist, 1, k - 1) \o SubSeq(rdlist, k + 1, Len(rdlist))
      BY <1>2 DEF Without, Before, After
    <2>. HIDE DEF k, rest
    <2>3. /\ Len(rest) = Len(rdlist) - 1
          /\ \A i \in 1 .. Len(rest) :
                 rest[i] = IF i < k THEN rdlist[i] ELSE rdlist[i + 1]
      BY <2>1, <2>2, RemoveElement
    <2>4. Distinct(rest) /\ \A i \in 1 .. Len(rest) : rest[i] # f
      <3>. DEFINE from(i) == IF i < k THEN i ELSE i + 1
      <3>1. \A i \in 1 .. Len(rest) :
                /\ from(i) \in 1 .. Len(rdlist) /\ from(i) # k
                /\ rest[i] = rdlist[from(i)]
        BY <2>1, <2>3
      <3>2. \A i, j \in 1 .. Len(rest) : from(i) = from(j) => i = j
        BY <2>1, <2>3
      <3>. HIDE DEF from
      <3>. QED
        BY <2>1, <3>1, <3>2 DEF Distinct
    <2>5. ASSUME NEW p \in 1 .. Len(rdlist), rdlist[p] # f
          PROVE  LET q == IF k < p THEN p - 1 ELSE p
                 IN  q \in 1 .. Len(rest) /\ rest[q] = rdlist[p]
      <3>1. p # k
        BY <2>1, <2>5
      <3>2. CASE k < p
        BY <2>1, <2>3, <3>2
      <3>3. CASE p < k
        BY <2>1, <2>3, <3>3
      <3>. QED
        BY <2>1, <3>1, <3>2, <3>3
    <2>. QED
      BY <1>2, <2>4, <2>5 DEF k, rest
  <1>. QED
    BY <1>1, <1>2

\* When the k-th entry of the ready list is reported, those behind it move up
\* by k places; a level-triggered one is the last then.
LEMMA ListAfterKeepsOthers ==
    ASSUME rdlist \in Seq(Fds), Distinct(rdlist), NEW k \in 1 .. Len(rdlist),
           NEW f, rdlist[k] = f
    PROVE  /\ Distinct(ListAfter(f))
           /\ \A p \in k + 1 .. Len(rdlist) :
                  /\ p - k \in 1 .. Len(ListAfter(f))
                  /\ ListAfter(f)[p - k] = rdlist[p]
           /\ entry[f].mode = "level" =>
                  \E q \in 1 .. Len(ListAfter(f)) : ListAfter(f)[q] = f
  <1>. DEFINE rest == After(f)
              n == Len(rdlist) - k
  <1>1. PlaceOf(f) = k
    BY PlaceIsUnique DEF PlaceOf
  <1>2. /\ rest \in Seq(Fds) /\ Len(rest) = n
        /\ \A i \in 1 .. n : rest[i] = rdlist[k + i]
    BY <1>1 DEF After
  <1>3. n \in Nat /\ f \in Fds
    OBVIOUS
  <1>. HIDE DEF rest
  <1>4. \A i \in 1 .. n : k + i \in 1 .. Len(rdlist) /\ k + i # k
    OBVIOUS
  <1>5. \A i \in 1 .. n : rest[i] # f
    BY <1>2, <1>4 DEF Distinct
  <1>6. Distinct(rest)
    BY <1>2, <1>4 DEF Distinct
  <1>7. \A p \in k + 1 .. Len(rdlist) :
            p - k \in 1 .. n /\ rest[p - k] = rdlist[p]
    <2>1. \A p \in k + 1 .. Len(rdlist) : p - k \in 1 .. n /\ k + (p - k) = p
      OBVIOUS
    <2>. QED
      BY <1>2, <2>1
  <1>8. CASE entry[f].mode # "level"
    <2>1. ListAfter(f) = rest
      BY <1>8 DEF ListAfter, rest
    <2>. QED
      BY <1>2, <1>6, <1>7, <1>8, <2>1
  <1>9. CASE entry[f].mode = "level"
    <2>1. ListAfter(f) = Append(rest, f)
      BY <1>9 DEF ListAfter, rest
    <2>. DEFINE more == Append(rest, f)
    <2>2. /\ Len(more) = n + 1 /\ more[n + 1] = f
          /\ \A i \in 1 .. n : more[i] = rest[i]
      BY <1>2, <1>3
    <2>. HIDE DEF more, n
    <2>3. \A i \in 1 .. n + 1 : i \in 1 .. n \/ i = n + 1
      BY <1>3
    <2>4. Distinct(more)
      BY <1>2, <1>3, <1>5, <1>6, <2>2, <2>3 DEF Distinct
    <2>5. n + 1 \in 1 .. n + 1 /\ \A i \in 1 .. n : i \in 1 .. n + 1
      BY <1>3
    <2>6. ListAfter(f) = more
      BY <2>1 DEF more
    <2>. QED
      BY <1>7, <2>2, <2>4, <2>5, <2>6
  <1>. QED
    BY <1>8, <1>9

\* Nothing leaves the list, and nothing becomes ready.
LEMMA ReadyListUndisturbed ==
    ASSUME ReadyList, UNCHANGED <<rdlist, entry, file>>, raised' \subseteq raised
    PROVE  ReadyList'
  BY DEF ReadyList, Listed

\* A number leaves the list together with its condition (close, stop).
LEMMA RemovalKeepsReadyList ==
    ASSUME ReadyList, KernelTypes, NEW f \in Fds,
           rdlist' = Without(f), raised' = raised \ {f},
           \A g \in Fds \ {f} : entry'[g] = entry[g] /\ file'[g] = file[g],
           entry'[f].mode # "edge"
    PROVE  ReadyList'
  <1>1. rdlist \in Seq(Fds) /\ Distinct(rdlist)
    BY DEF ReadyList, KernelTypes
  <1>2. Distinct(rdlist')
    BY <1>1, WithoutKeepsOthers
  <1>3. ASSUME NEW g \in Fds
        PROVE  /\ entry'[g].mode # "edge"
               /\ g \in raised' => file'[g] # NoObject
               /\ entry'[g].mode \in Enabled /\ g \in raised' => Listed(g)'
    <2>1. CASE g = f
      BY <2>1
    <2>2. CASE g # f
      <3>1. Listed(g) => Listed(g)'
        <4>. SUFFICES ASSUME NEW p \in 1 .. Len(rdlist), rdlist[p] = g
                      PROVE  Listed(g)'
          BY DEF Listed
        <4>1. \E q \in 1 .. Len(Without(f)) : Without(f)[q] = g
          BY <1>1, <2>2, WithoutKeepsOthers
        <4>. QED
          BY <4>1 DEF Listed
      <3>. QED
        BY <2>2, <3>1 DEF ReadyList
    <2>. QED
      BY <2>1, <2>2
  <1>. QED
    BY <1>2, <1>3 DEF ReadyList

\* A descriptor with an open file becomes ready.
LEMMA RaiseKeepsReadyList ==
    ASSUME ReadyList, KernelTypes, NEW f \in Fds, file[f] # NoObject,
           Raise(f), UNCHANGED <<entry, file>>
    PROVE  ReadyList'
  <1>1. rdlist \in Seq(Fds) /\ Distinct(rdlist)
    BY DEF ReadyList, KernelTypes
  <1>2. \A g \in Fds : Listed(g) => Listed(g)'
    BY <1>1 DEF Raise, Listed
  <1>3. entry[f].mode \in Enabled => Listed(f)'
    <2>1. CASE rdlist' = Append(rdlist, f)
      BY <1>1, <2>1 DEF Listed
    <2>2. CASE Listed(f)
      BY <1>2, <2>2
    <2>. QED
      BY <2>1, <2>2 DEF Raise
  <1>4. Distinct(rdlist')
    <2>1. CASE ~Listed(f) /\ rdlist' = Append(rdlist, f)
      <3>. DEFINE n == Len(rdlist)
      <3>1. /\ n \in Nat /\ Len(rdlist') = n + 1 /\ rdlist'[n + 1] = f
            /\ \A i \in 1 .. n : rdlist'[i] = rdlist[i] /\ rdlist[i] # f
        BY <1>1, <2>1 DEF Listed
      <3>2. \A i, j \in 1 .. n : rdlist[i] = rdlist[j] => i = j
        BY <1>1 DEF Distinct
      <3>. HIDE DEF n
      <3>3. \A i \in 1 .. n + 1 : i \in 1 .. n \/ i = n + 1
        BY <3>1
      <3>. QED
        BY <3>1, <3>2, <3>3 DEF Distinct
    <2>2. CASE rdlist' = rdlist
      BY <1>1, <2>2
    <2>. QED
      BY <2>1, <2>2 DEF Raise
  <1>5. raised' = raised \cup {f}
    BY DEF Raise
  <1>. QED
    BY <1>2, <1>3, <1>4, <1>5 DEF ReadyList

\* What stood before the reported entry was not ready, and what stood behind
\* it stays on the list; the entry itself stays if it may be ready again.
LEMMA ServedKeepsReadyList ==
    ASSUME ReadyList, KernelTypes, Descriptors,
           NEW o \in Objects, NEW f \in Fds, NEW count, Served(o, f, count)
    PROVE  ReadyList'
  <1>1. rdlist \in Seq(Fds) /\ Distinct(rdlist)
    BY DEF ReadyList, KernelTypes
  <1>2. PICK k \in 1 .. Len(rdlist) :
            /\ rdlist[k] = f
            /\ \A j \in 1 .. k - 1 : rdlist[j] \notin raised
    BY DEF Served, Reports
  <1>3. /\ rdlist' = ListAfter(f) /\ entry' = EntryAfter(f)
        /\ raised' \subseteq raised /\ file' = file
    BY DEF Served
  <1>4. Distinct(rdlist')
    BY <1>1, <1>2, <1>3, ListAfterKeepsOthers
  <1>5. ASSUME NEW g \in Fds \ {f}, g \in raised, Listed(g)
        PROVE  Listed(g)'
    <2>1. PICK p \in 1 .. Len(rdlist) : rdlist[p] = g
      BY <1>5 DEF Listed
    <2>2. p # k /\ p \notin 1 .. k - 1
      BY <1>2, <1>5, <2>1
    <2>3. p \in k + 1 .. Len(rdlist)
      BY <1>1, <2>2
    <2>4. /\ p - k \in 1 .. Len(ListAfter(f))
          /\ ListAfter(f)[p - k] = g
      BY <1>1, <1>2, <2>1, <2>3, ListAfterKeepsOthers
    <2>. QED
      BY <1>3, <2>4 DEF Listed
  <1>6. /\ \A g \in Fds \ {f} : entry'[g] = entry[g]
        /\ entry[f].mode = "oneshot" => entry'[f].mode = "spent"
        /\ entry[f].mode # "oneshot" => entry'[f] = entry[f]
    <2>1. FileTypes
      BY DEF Descriptors
    <2>. QED
      BY <1>3, <2>1 DEF EntryAfter, FileTypes
  <1>7. entry'[f].mode \in Enabled => Listed(f)'
    <2>. SUFFICES ASSUME entry'[f].mode \in Enabled
                  PROVE  Listed(f)'
      OBVIOUS
    <2>1. entry[f].mode = "level"
      BY <1>6 DEF Enabled, ReadyList
    <2>. QED
      BY <1>1, <1>2, <1>3, <2>1, ListAfterKeepsOthers DEF Listed
  <1>8. entry'[f].mode # "edge"
    BY <1>6 DEF ReadyList
  <1>. QED
    BY <1>3, <1>4, <1>5, <1>6, <1>7, <1>8 DEF ReadyList

\* Neither the kernel nor the calls of a source lose what is ready.
LEMMA ReadyListStep ==
    ASSUME ReadyList, KernelTypes, Descriptors, [Next]_vars
    PROVE  ReadyList'
  <1>0. FileTypes /\ OwnDescriptors
    BY DEF Descriptors
  <1>1. ASSUME NEW o \in Objects, NEW f \in Fds, NEW i \in Sources,
               Create(o, f, i)
        PROVE  ReadyList'
    <2>1. /\ f \notin raised /\ UNCHANGED <<raised, rdlist>>
      BY <1>1 DEF Create, ReadyList
    <2>2. /\ entry'[f].mode # "edge"
          /\ \A g \in Fds \ {f} : entry'[g] = entry[g] /\ file'[g] = file[g]
      <3>1. entry'[f] = entry[f] \/ entry'[f].mode = "level"
        BY <1>0, <1>1 DEF Create, RegisterFd, Control, FileTypes
      <3>2. \A g \in Fds \ {f} : entry'[g] = entry[g] /\ file'[g] = file[g]
        BY <1>0, <1>1 DEF Create, RegisterFd, Control, FileTypes
      <3>. QED
        BY <3>1, <3>2 DEF ReadyList
    <2>. QED
      BY <2>1, <2>2 DEF ReadyList, Listed
  <1>2. ASSUME NEW o \in Objects, NEW mode \in {"level", "oneshot"},
               StartTimer(o, mode)
        PROVE  ReadyList'
    <2>1. /\ fd[o] \in Fds /\ UNCHANGED <<file, rdlist>>
          /\ raised' = raised \ {fd[o]}
      BY <1>0, <1>2 DEF StartTimer, OwnDescriptors
    <2>2. /\ entry'[fd[o]] = entry[fd[o]] \/ entry'[fd[o]].mode = mode
          /\ \A g \in Fds \ {fd[o]} : entry'[g] = entry[g]
      BY <1>0, <1>2, <2>1
         DEF StartTimer, RegisterFd, ModifyFd, Control, FileTypes
    <2>3. entry'[fd[o]].mode # "edge"
      BY <2>1, <2>2 DEF ReadyList
    <2>. QED
      BY <2>1, <2>2, <2>3 DEF ReadyList, Listed
  <1>3. ASSUME NEW o \in Objects, StopTimer(o)
        PROVE  ReadyList'
    <2>1. /\ fd[o] \in Fds /\ file' = file
          /\ raised' = raised \ {fd[o]} /\ rdlist' = Without(fd[o])
      BY <1>0, <1>3 DEF StopTimer, OwnDescriptors
    <2>2. /\ entry'[fd[o]] = entry[fd[o]] \/ entry'[fd[o]].mode = "none"
          /\ \A g \in Fds \ {fd[o]} : entry'[g] = entry[g]
      BY <1>0, <1>3, <2>1
         DEF StopTimer, UnregisterFd, Control, NoEntry, FileTypes
    <2>3. entry'[fd[o]].mode # "edge"
      BY <2>1, <2>2 DEF ReadyList
    <2>. QED
      BY <2>1, <2>2, <2>3, RemovalKeepsReadyList
  <1>4. ASSUME NEW f \in Fds, CloseFd(f)
        PROVE  ReadyList'
    <2>1. /\ \A g \in Fds \ {f} : entry'[g] = entry[g] /\ file'[g] = file[g]
          /\ entry'[f].mode = "none"
      BY <1>0, <1>4 DEF CloseFd, NoEntry, FileTypes
    <2>. QED
      BY <1>4, <2>1, RemovalKeepsReadyList DEF CloseFd
  <1>5. ASSUME NEW o \in Objects, Close(o) \/ Drop(o)
        PROVE  ReadyList'
    <2>1. life[o] = "open" => fd[o] \in Fds
      BY DEF Descriptors, OwnDescriptors
    <2>2. \/ life[o] = "open" /\ CloseFd(fd[o])
          \/ UNCHANGED kernel
      BY <1>0, <1>5 DEF Close, Drop, CloseOnDrop, CloseSocket, Alive,
         OwnDescriptors
    <2>3. CASE UNCHANGED kernel
      BY <2>3, ReadyListUndisturbed DEF kernel
    <2>. QED
      BY <1>4, <2>1, <2>2, <2>3
  <1>6. ASSUME NEW o \in Objects, Transmit(o) \/ BecomesReady(o)
        PROVE  ReadyList'
    <2>1. fd[o] \in Fds /\ file[fd[o]] = o
      BY <1>0, <1>6 DEF Transmit, BecomesReady, FileTypes, OwnDescriptors
    <2>2. file[fd[o]] # NoObject
      BY <2>1, EventLoopAssumption
    <2>3. Raise(fd[o]) /\ UNCHANGED <<entry, file>>
      BY <1>6 DEF Transmit, BecomesReady
    <2>. QED
      BY <2>1, <2>2, <2>3, RaiseKeepsReadyList
  <1>7. ASSUME NEW o \in Objects, PollEvents(o)
        PROVE  ReadyList'
    BY <1>4, <1>7, ServedKeepsReadyList DEF PollEvents, ServedLast
  <1>8. ASSUME \/ PutBack \/ PutFront \/ NextEvent \/ Interrupted
               \/ NextEventFails \/ UNCHANGED vars
               \/ \E o \in Objects : Take(o)
        PROVE  ReadyList'
    BY <1>8, ReadyListUndisturbed DEF PutBack, PutFront, NextEvent,
       Interrupted, NextEventFails, Take, vars, kernel
  <1>. QED
    BY <1>1, <1>2, <1>3, <1>5, <1>6, <1>7, <1>8 DEF Next

LEMMA ReadyListInvariant == Spec => [](ReadyList /\ KernelTypes /\ Descriptors)
  <1>1. Init => ReadyList /\ KernelTypes
    BY DEF Init, ReadyList, KernelTypes, Distinct, NoEntry
  <1>2. KernelTypes /\ Descriptors /\ Origins /\ [Next]_vars => KernelTypes'
    BY KernelTypesStep
  <1>3. Origins /\ Descriptors /\ [Next]_vars => Origins'
    BY OriginsStep
  <1>4. ReadyList /\ KernelTypes /\ Descriptors /\ [Next]_vars => ReadyList'
    BY ReadyListStep
  <1>. QED
    BY <1>1, <1>2, <1>3, <1>4, OriginsInitially, DescriptorsInvariant, PTL
       DEF Spec

\* For any number of sources and any reuse of numbers: a descriptor on epoll
\* whose condition holds is on the list that epoll_wait goes through, once,
\* whatever is registered, unregistered, closed or served meanwhile.
THEOREM ReadyIsNeverLost == Spec => []ReadyIsListed
  <1>1. ReadyList => ReadyIsListed
    BY DEF ReadyList, ReadyIsListed, Distinct
  <1>. QED
    BY <1>1, ReadyListInvariant, PTL

\* An entry that waits does not move back, whatever happens to the others.
LEMMA WithoutBringsNearer ==
    ASSUME rdlist \in Seq(Fds), Distinct(rdlist), NEW f \in Fds,
           NEW g \in Fds, g # f, Listed(g), rdlist' = Without(f)
    PROVE  /\ PlaceOf(g)' <= PlaceOf(g)
           /\ Listed(f) /\ PlaceOf(f) < PlaceOf(g) =>
                  PlaceOf(g)' < PlaceOf(g)
  <1>. DEFINE p == PlaceOf(g)
              q == IF Listed(f) /\ PlaceOf(f) < p THEN p - 1 ELSE p
  <1>1. p \in 1 .. Len(rdlist) /\ rdlist[p] = g
    BY DEF Listed, PlaceOf
  <1>2. q \in 1 .. Len(Without(f)) /\ Without(f)[q] = g
    BY <1>1, WithoutKeepsOthers
  <1>3. Distinct(rdlist')
    BY WithoutKeepsOthers
  <1>. HIDE DEF p, q
  <1>4. (CHOOSE j \in 1 .. Len(rdlist') : rdlist'[j] = rdlist'[q]) = q
    BY <1>2, <1>3, PlaceIsUnique
  <1>5. PlaceOf(g)' = q
    BY <1>2, <1>4 DEF PlaceOf
  <1>6. q <= p /\ (Listed(f) /\ PlaceOf(f) < p => q < p)
    BY <1>1 DEF q
  <1>. QED
    BY <1>5, <1>6 DEF p

\* A callback brings all others that wait nearer to the head of the list.
LEMMA PollBringsNearer ==
    ASSUME ReadyList, KernelTypes, NEW g \in raised, Listed(g), ~Reports(g),
           NEW o \in Objects, PollEvents(o)
    PROVE  PlaceOf(g)' < PlaceOf(g)
  <1>1. rdlist \in Seq(Fds) /\ Distinct(rdlist) /\ g \in Fds
    BY DEF ReadyList, KernelTypes
  <1>2. PICK f \in Fds :
            ServedLast(o, f)
                \/ \E count \in 0 .. MaxPushed : Served(o, f, count)
    BY DEF PollEvents
  <1>3. Reports(f) /\ f # g
    BY <1>2 DEF ServedLast, Served
  <1>4. PICK k \in 1 .. Len(rdlist) :
            /\ rdlist[k] = f
            /\ \A j \in 1 .. k - 1 : rdlist[j] \notin raised
    BY <1>3 DEF Reports
  <1>5. Listed(f) /\ PlaceOf(f) = k
    BY <1>1, <1>4, PlaceIsUnique DEF Listed, PlaceOf
  <1>6. PlaceOf(g) \in 1 .. Len(rdlist) /\ rdlist[PlaceOf(g)] = g
    BY DEF Listed, PlaceOf
  <1>7. k < PlaceOf(g) /\ PlaceOf(g) \in k + 1 .. Len(rdlist)
    <2>1. PlaceOf(g) # k /\ PlaceOf(g) \notin 1 .. k - 1
      BY <1>3, <1>4, <1>6
    <2>. QED
      BY <1>1, <1>6, <2>1
  <1>8. CASE ServedLast(o, f)
    BY <1>1, <1>3, <1>5, <1>7, <1>8, WithoutBringsNearer
       DEF ServedLast, CloseFd
  <1>9. CASE rdlist' = ListAfter(f)
    <2>. DEFINE p == PlaceOf(g)
    <2>1. /\ Distinct(rdlist')
          /\ p - k \in 1 .. Len(rdlist') /\ rdlist'[p - k] = g
      BY <1>1, <1>4, <1>6, <1>7, <1>9, ListAfterKeepsOthers
    <2>. HIDE DEF p
    <2>2. (CHOOSE j \in 1 .. Len(rdlist') : rdlist'[j] = rdlist'[p - k])
              = p - k
      BY <2>1, PlaceIsUnique
    <2>3. PlaceOf(g)' = p - k
      BY <2>1, <2>2 DEF PlaceOf
    <2>. QED
      BY <1>6, <2>3 DEF p
  <1>. QED
    BY <1>2, <1>8, <1>9 DEF Served

\* The other steps append to the list, take one number off, or leave it.
LEMMA NothingMovesBack ==
    ASSUME ReadyList, KernelTypes, Descriptors, [Next]_vars,
           NEW g \in raised, Listed(g), Listed(g)', ~Reports(g)
    PROVE  PlaceOf(g)' <= PlaceOf(g)
  <1>0. /\ rdlist \in Seq(Fds) /\ Distinct(rdlist) /\ g \in Fds
        /\ PlaceOf(g) \in 1 .. Len(rdlist) /\ rdlist[PlaceOf(g)] = g
    BY DEF ReadyList, KernelTypes, Listed, PlaceOf
  <1>n. FileTypes /\ OwnDescriptors
    BY DEF Descriptors
  <1>1. CASE rdlist' = rdlist
    BY <1>0, <1>1 DEF PlaceOf
  <1>2. ASSUME NEW f \in Fds, rdlist' = Without(f)
        PROVE  PlaceOf(g)' <= PlaceOf(g)
    <2>1. g # f
      BY <1>0, <1>2, WithoutKeepsOthers DEF Listed
    <2>. QED
      BY <1>0, <1>2, <2>1, WithoutBringsNearer
  <1>3. ASSUME NEW f \in Fds, Raise(f), ReadyList'
        PROVE  PlaceOf(g)' <= PlaceOf(g)
    <2>. DEFINE p == PlaceOf(g)
    <2>1. p \in 1 .. Len(rdlist') /\ rdlist'[p] = g /\ Distinct(rdlist')
      BY <1>0, <1>3 DEF Raise, ReadyList
    <2>. HIDE DEF p
    <2>2. (CHOOSE j \in 1 .. Len(rdlist') : rdlist'[j] = rdlist'[p]) = p
      BY <2>1, PlaceIsUnique
    <2>3. PlaceOf(g)' = p
      BY <2>1, <2>2 DEF PlaceOf
    <2>. QED
      BY <1>0, <2>3 DEF p
  <1>4. ASSUME NEW o \in Objects, Transmit(o) \/ BecomesReady(o)
        PROVE  PlaceOf(g)' <= PlaceOf(g)
    <2>1. fd[o] \in Fds
      BY <1>n, <1>4 DEF Transmit, BecomesReady, FileTypes, OwnDescriptors
    <2>2. Raise(fd[o]) /\ ReadyList'
      BY <1>4, ReadyListStep DEF Transmit, BecomesReady
    <2>. QED
      BY <1>3, <2>1, <2>2
  <1>5. ASSUME NEW o \in Objects, StopTimer(o) \/ Close(o) \/ Drop(o)
        PROVE  PlaceOf(g)' <= PlaceOf(g)
    <2>1. life[o] = "open" => fd[o] \in Fds
      BY <1>n DEF OwnDescriptors
    <2>2. \/ life[o] = "open" /\ rdlist' = Without(fd[o])
          \/ rdlist' = rdlist
      BY <1>n, <1>5 DEF StopTimer, Close, Drop, CloseOnDrop, CloseSocket,
         CloseFd, Alive, OwnDescriptors, kernel
    <2>. QED
      BY <1>1, <1>2, <2>1, <2>2
  <1>6. ASSUME NEW o \in Objects, PollEvents(o)
        PROVE  PlaceOf(g)' <= PlaceOf(g)
    <2>1. PlaceOf(g)' < PlaceOf(g)
      BY <1>6, PollBringsNearer
    <2>2. PlaceOf(g)' \in 1 .. Len(rdlist')
      BY DEF Listed, PlaceOf
    <2>. QED
      BY <1>0, <2>1, <2>2
  <1>7. ASSUME \/ PutBack \/ PutFront \/ NextEvent \/ Interrupted
               \/ NextEventFails \/ UNCHANGED vars
               \/ \E o \in Objects :
                     \/ Take(o)
                     \/ \E f \in Fds, i \in Sources : Create(o, f, i)
                     \/ \E mode \in {"level", "oneshot"} : StartTimer(o, mode)
        PROVE  rdlist' = rdlist
    BY <1>7 DEF PutBack, PutFront, NextEvent, Interrupted, NextEventFails,
       Take, Create, StartTimer, vars, kernel
  <1>. QED
    BY <1>1, <1>4, <1>5, <1>6, <1>7 DEF Next

\* For any number of sources: a descriptor that waits on the ready list is
\* overtaken by nobody, and each callback of another source brings it nearer
\* to the head, so that its place bounds the callbacks it waits for.
THEOREM WaitingIsBounded == Spec => NobodyOvertakes
  <1>1. ReadyList /\ KernelTypes /\ Descriptors /\ [Next]_vars =>
            [\A f \in raised :
                Listed(f) /\ Listed(f)' /\ ~Reports(f) =>
                    /\ PlaceOf(f)' <= PlaceOf(f)
                    /\ (\E o \in Objects : PollEvents(o)) =>
                           PlaceOf(f)' < PlaceOf(f)]_vars
    BY PollBringsNearer, NothingMovesBack
  <1>. QED
    BY <1>1, ReadyListInvariant, PTL DEF NobodyOvertakes, Spec
=============================================================================
