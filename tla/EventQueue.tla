----------------------------- MODULE EventQueue -----------------------------
(***************************************************************************)
(* The part of EventQueueImpl that every event source is built on: the     *)
(* list of ready events and the two paths of next_event.  The modules of   *)
(* the sources extend this one and supply the callbacks.                   *)
(*                                                                         *)
(* The queue belongs to one task (Rc<RefCell<...>>), so the steps below    *)
(* never interleave with other users of the list; they do interleave with  *)
(* the kernel and with other tasks while the owner is inside epoll_wait.   *)
(***************************************************************************)
EXTENDS Events

CONSTANTS
    Sources,   \* the EventSourceInfo objects events may point to
    NoEvent    \* the value of "returned" before the first event

ASSUME NoEventAssumption == NoEvent \notin EventsOf(Sources)

VARIABLES
    ready_events,   \* RingBuf of events, head first
    loop,           \* where the owner is: "user" code, "polling", "callback"
    returned        \* the event the last next_event handed to the user

eqvars == <<ready_events, loop, returned>>

EventQueueTypeOK ==
    /\ ready_events \in Seq(EventsOf(Sources))
    /\ loop \in {"user", "polling", "callback"}
    /\ returned \in EventsOf(Sources) \cup {NoEvent}

EventQueueInit ==
    /\ ready_events = <<>>
    /\ loop = "user"
    /\ returned = NoEvent

\* push_back_event
PushBack(event) == ready_events' = Append(ready_events, event)

\* next_event finds an event in the list and returns it as it is, valid or
\* not.
NextEventReady ==
    /\ loop = "user"
    /\ ready_events # <<>>
    /\ returned' = Head(ready_events)
    /\ ready_events' = Tail(ready_events)
    /\ UNCHANGED loop

\* Fault: next_event polls before it has handed out what is ready.
NextEventPollsFirst ==
    /\ loop = "user"
    /\ loop' = "polling"
    /\ UNCHANGED <<ready_events, returned>>

\* next_event finds the list empty and enters its poll loop.
NextEventPoll ==
    /\ loop = "user"
    /\ ready_events = <<>>
    /\ loop' = "polling"
    /\ UNCHANGED <<ready_events, returned>>

\* The tail of one round of the poll loop, after a callback has pushed the
\* events "pushed": the first event of the list is taken off; a valid one is
\* returned, otherwise the loop polls again.
FinishPoll(pushed) ==
    LET events == ready_events \o pushed
        useful == events # <<>> /\ Head(events).is_valid
    IN  /\ ready_events' = IF events = <<>> THEN <<>> ELSE Tail(events)
        /\ returned' = IF useful THEN Head(events) ELSE returned
        /\ loop' = IF useful THEN "user" ELSE "polling"

\* remove_pending_events, called from user code by the drop, stop and close
\* of a source.
RemovePendingEvents(source) ==
    ready_events' = RemovePending(ready_events, source)

\* The step makes next_event return: from the list, or from its poll loop.
HandsOut ==
    \/ loop # "user" /\ loop' = "user"
    \/ loop = "user" /\ Len(ready_events') < Len(ready_events)

\* The callbacks of the sources rely on running with nothing pending
\* (tcp.rs:421-423 and 716-718: "There is no need to remove pending events
\* because if there would be any this function wouldn't have been called").
NothingPendingInCallback == loop # "user" => ready_events = <<>>
=============================================================================
