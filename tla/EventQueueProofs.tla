-------------------------- MODULE EventQueueProofs --------------------------
(***************************************************************************)
(* Lemmas about the operators of Events and EventQueue, for the proofs of  *)
(* the event sources.                                                      *)
(***************************************************************************)
EXTENDS EventQueue, FiniteSetTheorems, TLAPS

\* Repeating an event gives a sequence (the loop of process_epoll_events).
LEMMA RepeatIsSequence ==
    ASSUME NEW S, NEW e \in S, NEW n \in Nat
    PROVE  Repeat(e, n) \in Seq(S) /\ Len(Repeat(e, n)) = n
  BY DEF Repeat

\* The length and the elements of a concatenation.
LEMMA ConcatElements ==
    ASSUME NEW S, NEW s \in Seq(S), NEW t \in Seq(S)
    PROVE  /\ s \o t \in Seq(S)
           /\ Len(s \o t) = Len(s) + Len(t)
           /\ \A i \in 1 .. Len(s) : (s \o t)[i] = s[i]
           /\ \A i \in 1 .. Len(t) : (s \o t)[Len(s) + i] = t[i]
  <1>1. s \o t \in Seq(S) /\ Len(s \o t) = Len(s) + Len(t)
    OBVIOUS
  <1>2. ASSUME NEW i \in 1 .. Len(s)
        PROVE  (s \o t)[i] = s[i]
    OBVIOUS
  <1>3. ASSUME NEW i \in 1 .. Len(t)
        PROVE  (s \o t)[Len(s) + i] = t[i]
    <2>1. Len(s) + i \in 1 .. Len(s) + Len(t) /\ Len(s) + i > Len(s)
          /\ (Len(s) + i) - Len(s) = i
      OBVIOUS
    <2>. QED
      BY <2>1
  <1>. QED
    BY <1>1, <1>2, <1>3

\* Invalidating events changes neither their number nor their type
\* (EventQueueImpl::remove_pending_events).
LEMMA RemovePendingIsSequence ==
    ASSUME NEW T, NEW events \in Seq(EventsOf(T)), NEW source
    PROVE  /\ RemovePending(events, source) \in Seq(EventsOf(T))
           /\ Len(RemovePending(events, source)) = Len(events)
  <1>1. \A e \in EventsOf(T) : Invalidate(e) \in EventsOf(T)
    BY DEF Invalidate, EventsOf
  <1>2. \A i \in 1 .. Len(events) : events[i] \in EventsOf(T)
    OBVIOUS
  <1>3. RemovePending(events, source) \in [1 .. Len(events) -> EventsOf(T)]
    BY <1>1, <1>2 DEF RemovePending
  <1>. QED
    BY <1>3, Len(events) \in Nat

\* The end of a round of polling keeps the event queue well-formed.
LEMMA FinishPollType ==
    ASSUME EventQueueTypeOK, NEW pushed \in Seq(EventsOf(Sources)),
           FinishPoll(pushed)
    PROVE  EventQueueTypeOK'
  <1>. DEFINE events == ready_events \o pushed
  <1>1. events \in Seq(EventsOf(Sources))
    BY DEF EventQueueTypeOK
  <1>2. ready_events' \in Seq(EventsOf(Sources))
    BY <1>1 DEF FinishPoll
  <1>3. returned' \in EventsOf(Sources) \cup {NoEvent}
    BY <1>1 DEF FinishPoll, EventQueueTypeOK
  <1>. QED
    BY <1>2, <1>3 DEF FinishPoll, EventQueueTypeOK

\* next_event up to its return or to epoll_wait keeps the event queue
\* well-formed.
LEMMA NextEventType ==
    ASSUME EventQueueTypeOK, NextEventReady \/ NextEventPoll
    PROVE  EventQueueTypeOK'
  <1>1. CASE NextEventReady
    <2>1. /\ Tail(ready_events) \in Seq(EventsOf(Sources))
          /\ Head(ready_events) \in EventsOf(Sources)
      BY <1>1 DEF NextEventReady, EventQueueTypeOK
    <2>. QED
      BY <1>1, <2>1 DEF NextEventReady, EventQueueTypeOK
  <1>2. CASE NextEventPoll
    BY <1>2 DEF NextEventPoll, EventQueueTypeOK
  <1>. QED
    BY <1>1, <1>2

-----------------------------------------------------------------------------
(* Nothing is pending while the queue polls                                 *)

\* A callback that runs with an empty list and pushes valid events, or none,
\* either makes next_event return or leaves the list empty.  Without this the
\* poll loop could skip an invalid head and wait with events in the list.
LEMMA FinishPollLeavesNothing ==
    ASSUME ready_events = <<>>, NEW event, event.is_valid, NEW n \in Nat,
           FinishPoll(Repeat(event, n))
    PROVE  NothingPendingInCallback'
  <1>. DEFINE pushed == Repeat(event, n)
  <1>1. ready_events \o pushed = pushed
    BY DEF Repeat
  <1>2. CASE n = 0
    BY <1>1, <1>2 DEF FinishPoll, NothingPendingInCallback, Repeat
  <1>3. CASE n > 0
    <2>1. pushed # <<>> /\ Head(pushed) = event
      BY <1>3 DEF Repeat
    <2>. HIDE DEF pushed
    <2>2. loop' = "user"
      BY <1>1, <2>1 DEF FinishPoll, pushed
    <2>. QED
      BY <2>2 DEF NothingPendingInCallback
  <1>. QED
    BY <1>2, <1>3

\* The sockets push at most one event in a callback: the event is handed out
\* at once, without it the loop polls again, and the list stays empty.
LEMMA PushAtMostOne ==
    ASSUME ready_events = <<>>
    PROVE  /\ \A event : event.is_valid /\ FinishPoll(<<event>>)
                  => ready_events' = <<>> /\ loop' = "user"
           /\ FinishPoll(<<>>) => ready_events' = <<>> /\ loop' = "polling"
  <1>1. \A event : <<>> \o <<event>> = <<event>> /\ Head(<<event>>) = event
                      /\ Tail(<<event>>) = <<>> /\ <<event>> # <<>>
    OBVIOUS
  <1>2. ASSUME NEW event, event.is_valid, FinishPoll(<<event>>)
        PROVE  ready_events' = <<>> /\ loop' = "user"
    BY <1>1, <1>2 DEF FinishPoll
  <1>3. FinishPoll(<<>>) => ready_events' = <<>> /\ loop' = "polling"
    BY DEF FinishPoll
  <1>. QED
    BY <1>2, <1>3

-----------------------------------------------------------------------------
(* Events of a source that has been silenced                                *)

\* Every event of the source that is still in the list is invalid.
Silent(events, source) ==
    \A i \in 1 .. Len(events) :
        OriginatesFrom(events[i], source) => ~events[i].is_valid

\* After remove_pending_events the source is silent.
LEMMA RemovePendingSilences ==
    ASSUME NEW T, NEW events \in Seq(EventsOf(T)), NEW source
    PROVE  Silent(RemovePending(events, source), source)
  <1>. DEFINE list == RemovePending(events, source)
  <1>. SUFFICES ASSUME NEW i \in 1 .. Len(list),
                       OriginatesFrom(list[i], source)
                PROVE  ~list[i].is_valid
    BY DEF Silent
  <1>1. i \in 1 .. Len(events)
    BY RemovePendingIsSequence
  <1>2. list[i] = IF OriginatesFrom(events[i], source)
                  THEN Invalidate(events[i]) ELSE events[i]
    BY <1>1 DEF RemovePending
  <1>3. events[i] \in EventsOf(T)
    BY <1>1
  <1>. HIDE DEF list
  <1>4. OriginatesFrom(events[i], source)
    BY <1>2
  <1>5. list[i] = Invalidate(events[i])
    BY <1>2, <1>4
  <1>. QED
    BY <1>3, <1>5 DEF Invalidate, EventsOf

\* Taking the first event off the list keeps a source silent.
LEMMA TailStaysSilent ==
    ASSUME NEW T, NEW events \in Seq(EventsOf(T)), events # <<>>, NEW source,
           Silent(events, source)
    PROVE  Silent(Tail(events), source)
  <1>1. /\ Len(events) \in Nat \ {0}
        /\ Len(Tail(events)) = Len(events) - 1
        /\ \A i \in 1 .. Len(Tail(events)) : Tail(events)[i] = events[i + 1]
    OBVIOUS
  <1>2. \A i \in 1 .. Len(Tail(events)) : i + 1 \in 1 .. Len(events)
    BY <1>1
  <1>. QED
    BY <1>1, <1>2 DEF Silent

\* A callback that runs with an empty list and pushes events of one source
\* leaves every other source silent.
LEMMA FinishPollStaysSilent ==
    ASSUME ready_events = <<>>, NEW event \in EventsOf(Sources), NEW n \in Nat,
           NEW source, ~OriginatesFrom(event, source),
           FinishPoll(Repeat(event, n))
    PROVE  Silent(ready_events', source)
  <1>. DEFINE pushed == Repeat(event, n)
  <1>1. /\ pushed \in Seq(EventsOf(Sources))
        /\ ready_events \o pushed = pushed
    BY RepeatIsSequence
  <1>2. Silent(pushed, source)
    BY RepeatIsSequence DEF Silent, Repeat
  <1>. HIDE DEF pushed
  <1>3. CASE pushed = <<>>
    BY <1>1, <1>2, <1>3 DEF FinishPoll, pushed
  <1>4. CASE pushed # <<>>
    <2>1. ready_events' = Tail(pushed)
      BY <1>1, <1>4 DEF FinishPoll, pushed
    <2>. QED
      BY <1>1, <1>2, <1>4, <2>1, TailStaysSilent
  <1>. QED
    BY <1>3, <1>4

-----------------------------------------------------------------------------
(* Counting events                                                          *)

\* The events of one kind in a list can be counted.
LEMMA PositionsAreCounted ==
    ASSUME NEW S, NEW s \in Seq(S), NEW kind
    PROVE  /\ IsFiniteSet(PositionsOf(kind, s))
           /\ Cardinality(PositionsOf(kind, s)) \in Nat
  <1>1. IsFiniteSet(1 .. Len(s))
    BY FS_Interval
  <1>2. PositionsOf(kind, s) \subseteq 1 .. Len(s)
    BY DEF PositionsOf
  <1>. QED
    BY <1>1, <1>2, FS_Subset, FS_CardinalityType

\* Moving positions up by the length of another list keeps their number.
LEMMA ShiftKeepsCount ==
    ASSUME NEW n \in Nat, NEW B \in SUBSET Nat, IsFiniteSet(B)
    PROVE  /\ IsFiniteSet({n + i : i \in B})
           /\ Cardinality({n + i : i \in B}) = Cardinality(B)
  <1>. DEFINE T == {n + i : i \in B}
              f == [i \in B |-> n + i]
  <1>1. f \in [B -> T]
    OBVIOUS
  <1>2. IsInjective(f)
    BY DEF IsInjective
  <1>3. \A t \in T : \E i \in B : f[i] = t
    OBVIOUS
  <1>4. f \in Bijection(B, T)
    BY <1>1, <1>2, <1>3 DEF Bijection, Injection, Surjection
  <1>5. ExistsBijection(B, T)
    BY <1>4 DEF ExistsBijection
  <1>. QED
    BY <1>5, FS_Bijection

\* The events of a kind in a concatenation are those of its two parts.
LEMMA CountOfConcat ==
    ASSUME NEW S, NEW s \in Seq(S), NEW t \in Seq(S), NEW kind
    PROVE  Cardinality(PositionsOf(kind, s \o t)) =
               Cardinality(PositionsOf(kind, s))
                   + Cardinality(PositionsOf(kind, t))
  <1>. DEFINE front == PositionsOf(kind, s)
              back == {Len(s) + i : i \in PositionsOf(kind, t)}
  <1>1. /\ Len(s) \in Nat /\ Len(t) \in Nat
        /\ Len(s \o t) = Len(s) + Len(t)
        /\ \A i \in 1 .. Len(s) : (s \o t)[i] = s[i]
        /\ \A i \in 1 .. Len(t) : (s \o t)[Len(s) + i] = t[i]
    BY ConcatElements
  <1>2. PositionsOf(kind, s \o t) = front \cup back
    <2>1. ASSUME NEW i \in PositionsOf(kind, s \o t)
          PROVE  i \in front \cup back
      <3>1. i \in 1 .. Len(s) + Len(t) /\ (s \o t)[i].event_type = kind
        BY <1>1 DEF PositionsOf
      <3>2. CASE i \in 1 .. Len(s)
        BY <1>1, <3>1, <3>2 DEF PositionsOf
      <3>3. CASE i \notin 1 .. Len(s)
        <4>1. /\ i - Len(s) \in 1 .. Len(t)
              /\ i = Len(s) + (i - Len(s))
          BY <1>1, <3>1, <3>3
        <4>2. i - Len(s) \in PositionsOf(kind, t)
          BY <1>1, <3>1, <4>1 DEF PositionsOf
        <4>. QED
          BY <4>1, <4>2
      <3>. QED
        BY <3>2, <3>3
    <2>2. ASSUME NEW i \in front
          PROVE  i \in PositionsOf(kind, s \o t)
      BY <1>1 DEF PositionsOf
    <2>3. ASSUME NEW i \in PositionsOf(kind, t)
          PROVE  Len(s) + i \in PositionsOf(kind, s \o t)
      <3>1. i \in 1 .. Len(t) /\ t[i].event_type = kind
        BY DEF PositionsOf
      <3>2. Len(s) + i \in 1 .. Len(s) + Len(t)
        BY <1>1, <3>1
      <3>. QED
        BY <1>1, <3>1, <3>2 DEF PositionsOf
    <2>. QED
      BY <2>1, <2>2, <2>3
  <1>3. front \cap back = {}
    BY <1>1 DEF PositionsOf
  <1>4. /\ IsFiniteSet(back)
        /\ Cardinality(back) = Cardinality(PositionsOf(kind, t))
    <2>1. PositionsOf(kind, t) \in SUBSET Nat
      BY DEF PositionsOf
    <2>. QED
      BY <1>1, <2>1, PositionsAreCounted, ShiftKeepsCount
  <1>5. IsFiniteSet(front) /\ Cardinality(front) \in Nat
        /\ Cardinality(PositionsOf(kind, t)) \in Nat
    BY PositionsAreCounted
  <1>. HIDE DEF front, back
  <1>6. Cardinality(front \cup back) =
            Cardinality(front) + Cardinality(back) - Cardinality({})
    BY <1>3, <1>4, <1>5, FS_Union
  <1>. QED
    BY <1>2, <1>4, <1>5, <1>6, FS_EmptySet DEF front

\* A repeated event is counted as often as it is repeated, for its own kind.
LEMMA CountOfRepeat ==
    ASSUME NEW e, NEW n \in Nat
    PROVE  /\ Cardinality(PositionsOf(e.event_type, Repeat(e, n))) = n
           /\ \A kind : kind # e.event_type
                  => Cardinality(PositionsOf(kind, Repeat(e, n))) = 0
  <1>1. Len(Repeat(e, n)) = n /\ \A i \in 1 .. n : Repeat(e, n)[i] = e
    BY DEF Repeat
  <1>2. PositionsOf(e.event_type, Repeat(e, n)) = 1 .. n
    BY <1>1 DEF PositionsOf
  <1>3. Cardinality(1 .. n) = n
    BY FS_Interval
  <1>4. ASSUME NEW kind, kind # e.event_type
        PROVE  PositionsOf(kind, Repeat(e, n)) = {}
    BY <1>1, <1>4 DEF PositionsOf
  <1>. QED
    BY <1>2, <1>3, <1>4, FS_EmptySet

\* The empty list holds no events.
LEMMA CountOfNothing ==
    \A kind : Cardinality(PositionsOf(kind, <<>>)) = 0
  <1>1. \A kind : PositionsOf(kind, <<>>) = {}
    BY DEF PositionsOf
  <1>. QED
    BY <1>1, FS_EmptySet

\* A list of one event is counted for the kind of that event.
LEMMA CountOfOne ==
    ASSUME NEW e, NEW kind
    PROVE  Cardinality(PositionsOf(kind, <<e>>)) =
               IF e.event_type = kind THEN 1 ELSE 0
  <1>1. PositionsOf(kind, <<e>>) = IF e.event_type = kind THEN {1} ELSE {}
    BY DEF PositionsOf
  <1>. QED
    BY <1>1, FS_Singleton, FS_EmptySet
=============================================================================
