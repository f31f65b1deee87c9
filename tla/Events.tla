------------------------------- MODULE Events -------------------------------
(***************************************************************************)
(* The values of src/events.rs and the list operations that                *)
(* src/linux/eventqueueimpl.rs performs on them.  An event names its       *)
(* source by identity: the Rust code compares the addresses of two         *)
(* EventSourceInfo objects, and an event keeps its source's object alive,  *)
(* so an address is never reused while an event that carries it is queued. *)
(***************************************************************************)
EXTENDS Naturals, Sequences

\* The variants of enum EventKind.  Payloads (an error, a byte count) are
\* kept by the modules that need them.
EventKind ==
    {"StreamClosed", "IoError", "DataAvailable", "Timer", "ChannelClosed",
     "ChannelMessage", "Connected", "ClientConnected"}

\* struct Event
EventsOf(sources) ==
    [event_type : EventKind, is_valid : BOOLEAN, source_info : sources]

\* Every producer builds its events this way, with is_valid: true.
NewEvent(kind, source) ==
    [event_type |-> kind, is_valid |-> TRUE, source_info |-> source]

OriginatesFrom(event, source) == event.source_info = source

Invalidate(event) == [event EXCEPT !.is_valid = FALSE]

\* EventQueueImpl::remove_pending_events with the condition that all four
\* sources pass, |ev| ev.originates_from(self): the events stay in the list.
RemovePending(events, source) ==
    [i \in 1 .. Len(events) |->
        IF OriginatesFrom(events[i], source) THEN Invalidate(events[i])
        ELSE events[i]]

\* count events of one kind pushed in a row by a callback
Repeat(event, count) == [i \in 1 .. count |-> event]

\* positions of the list that hold an event of the given kind
PositionsOf(kind, events) ==
    {i \in 1 .. Len(events) : events[i].event_type = kind}
=============================================================================
