# revbio in TLA+

revbio ("Rust evented based IO") lets one task wait for sockets, timers and
channels through a single event queue.  This directory models the library's
Linux implementation in TLA+, checks the models with TLC on small instances, and
proves the central invariants with TLAPS for every instance.

Source references are paths below the repository root; line numbers are those of
the modelled commit.

## 1. Inventory

### Parts, state, operations, interactions

| Part | State it keeps | Operations |
|---|---|---|
| Event (`events.rs`) | kind, `is_valid`, `source_info` | `originates_from`: identity of the source |
| Event queue (`eventqueue.rs`, `linux/eventqueueimpl.rs`) | `ready_events`, the epoll descriptor | `next_event`, `poll_events`, `push_back_event`, `remove_pending_events`, `register_fd`, `modify_fd`, `unregister_fd`, drop |
| Channel (`linux/channel.rs`) | shared: `queue`, `port_alive`, `nr_senders`, `receiver_notified`, `epoll_fd`; per `Receiver`: `available_messages` | `send`, `try_send`, `clone`, drop of a `Transmitter`; `recv`, `recv_opt`, `try_recv`, drop of a `BlockingReceiver`; `from_blocking_receiver`, `recv`, callback, drop of a `Receiver` |
| Timer (`linux/timer.rs`) | `is_active`, `interval`, `singleshot`, `epoll_registered`; in the kernel the timerfd and its epoll entry | `create`, `set_interval`, `set_singleshot`, `start`, `stop`, callback, drop |
| TCP socket (`linux/tcp.rs`) | `connection_state`, `available_bytes`; in the kernel the connection, its error, its receive buffer and its epoll entry | `connect`, `from_raw_tcp_socket`, `read`, `write`, `close`, callback, drop |
| TCP server socket (`linux/tcp.rs`) | `connection_state`, `client_available`; in the kernel the queue of connections | `bind`, `accept`, `close`, callback, drop |
| Address conversion (`linux/tcp.rs:31-108`) | none | `create_socket`, `addr_to_sockaddr`, `ip_to_inaddr`, `htons` |
| System calls, helpers (`linux/syscalls.rs`, `linux/helpers.rs`) | none | declarations; `retry`, `last_error`, `translate_error` |
| Example programs (`serverexample.rs`, `example.rs`) | per task the event it handles, flags, counters | a client and a server with one task per connection; an HTTP client with a timer |
| Benchmarks (`channelbench.rs`, `syncchannelbench.rs`) | per task the iterations left | a producer and a consumer; two tasks that answer each other |
| `lib.rs`, build script | - | re-exports, compilation |

Everything except the channel's shared data belongs to one task.  A source
registers a descriptor with the queue and leaves the address of its callback
with epoll.  `next_event` hands out the head of `ready_events`; with an empty
list it calls `epoll_wait` for one event, calls the source's callback, which
pushes events, and hands out the first.  A source that is stopped, closed or
dropped marks its events in the list invalid.  Transmitters live in other tasks
and share a mutex, a condition variable and later an eventfd with the receiver.

### What is hard

* **Concurrency.** Transmitters interleave with the receiving task, in
  particular between the read of the eventfd and the lock in the callback
  (`channel.rs:230-240`), between a callback and the `recv` it leads to, and
  between the two locked sections of dropping a `Receiver`.  Kernel and network
  change a socket between `epoll_wait`, the callback and the client's call.
* **Ordering.** Events wait in a list while the client stops, restarts, closes
  or drops their source.
* **Failure.** A system call that is refused fails the task, in the channel
  perhaps while the mutex is held; the destructors run on unwinding and ask for
  it again.  Connections break at any moment, a write may fail half-way.
* **Reuse.** Descriptor numbers and addresses are used again, while an epoll
  entry, a struct or an event in the list still holds the old ones.
* **Staleness.** `available_messages`, `available_bytes`, `client_available`,
  `is_active` and `epoll_registered` are copies of what another actor knows, and
  blocking calls are made on their word.
* **Numbers.** Two unsigned subtractions (`channel.rs:241`, `tcp.rs:346`), the
  conversion of milliseconds, byte orders, a notification that must be exactly 1.
* **Progress.** Wake-ups, announcements, level-triggered readiness taken one
  event at a time, and writes that wait for the peer.

### What makes each part correct

* *Event queue*: no callback runs while an event is in the list; callbacks reach
  living sources; events originate from the source that pushed them; every ready
  source is served.
* *Channel*: messages come out once and in order; no lost wake-up; no two
  notifications at once; the counter covers the queue; "closed" is last and comes
  after every message; the end is announced; a task that fails in a locked
  section leaves the mutex free.
* *Timer*: `epoll_registered` and `is_active` know what the kernel will do; no
  tick of an earlier activation is valid; an active timer ticks.
* *Sockets*: no call on behalf of an announced condition blocks the loop; events
  come in order and none after close; conditions are announced.

`PROJECT.json` lists the single hazards, each with its line and the properties
that watch it.  Five have none but a note.  Three are failures the code really
runs into (`channel.rs:181`, `tcp.rs:167`, `tcp.rs:328`): the properties next to
them name them as exceptions and say nothing of them.  The fourth, a signal during
`send` (`helpers.rs:21`), is in the model, but no property looks at it.  The
fifth, the address conversion (`tcp.rs:46`), has a theorem instead.

## 2. Modules

```
Events <- EventQueue <- Channel <- ChannelProperties <- MCChannel
                     |    |          |  (instance of FifoChannel)
                     |    |          <- ChannelBench
                     |    <- SyncChannelBench (second instance of Channel)
                     <- Timer <- MCTimer
                     <- TcpSocket <- TcpSocketProperties <- MCTcpSocket
                     <- TcpServerSocket <- MCTcpServerSocket
                     <- EventLoop <- MCEventLoop
ChannelLock    TcpPair    ServerExample    Example    Address
MCPrograms: SyncChannelBench with ChannelBench, ServerExample, Example, TcpPair
Proofs: EventQueueProofs <- Channel-, Timer-, TcpSocket-, EventLoopProofs
                         <- TcpServerSocketProofs (with Address)
        ChannelLockProofs    ProgramProofs (ChannelProofs, and two instances)
```

**Events, EventQueue.**  The list and the paths of `next_event`:
`NextEventReady` is the fast path (`eventqueueimpl.rs:52-54`), `NextEventPoll`
enters the poll loop, `FinishPoll(pushed)` is the rest of one round after a
callback has pushed events.  `loop` says where the owner is: in user code,
inside `epoll_wait`, or inside a callback.  The source modules extend EventQueue,
so each is composed with the queue it lives on; Timer and the two socket modules
also have an action `OtherSource`, which stands for the callback of any other
source of the same queue and puts foreign events into the list.

**EventLoop.**  The queue as a whole: its epoll descriptor, several sources of
three kinds that come and go, the kernel's interest list and its ready list, of
which `epoll_wait` reports the first entry and puts a level-triggered one back at
the end.  The sources are reduced to what matters to their neighbours: the
descriptor they hold, whether they are on epoll, what their callbacks push, and
when they are closed and dropped.  Descriptor numbers and the addresses that
`originates_from` compares are reused; the history variables `pushers` and
`author` remember which source really pushed an event.  The results of
`epoll_create`, a refused or interrupted `epoll_wait`, and events the user puts
back at either end belong to the model.

**Channel.**  One action for each locked section, because every access to the
shared fields happens between `lock` and `unlock`.  `mutex.wait()` is the state
`rx_thread = "asleep"`; `Signal` wakes it or is lost, `SpuriousWakeup` is what
condition variables may do, `ResumeReceive` the next turn of the `while`.  The
callback is two actions, `ReadEventfd` (before the lock) and
`ProcessEpollEvents`; the drop of a `Receiver` is two, `DropReceiver` and
`DropBlockingReceiver` of its field.  A failed task runs the same destructors.
A message is identified by the handle that sent it.  With `PromptClient` TRUE the
task answers each message event with one `recv` and calls the channel at no other
time.  `FifoChannel` is the abstract specification: a queue with many senders and
one receiver, without flags or descriptors; `FifoSpec` is the refinement.

**ChannelLock.**  The same file one level below: `Lock` gives the mutex to one of
the tasks that ask for it, a section ends by unlocking, by failing with the mutex
let go, or, in `from_blocking_receiver`, by failing with the mutex held.  The
kernel may refuse the calls in `Refusals`.  A task that fails goes on to the
destructors of what it owns, in the order of the code.

**Timer.**  The fields of the struct, and the kernel's side: `it_value` and
`it_interval` of the timerfd, the unread expirations `ticks`, and `interest`, the
epoll entry (`"none"`, `"level"`, `"oneshot"`, or `"spent"` once EPOLLONESHOT
has disabled it).  A call that the kernel would refuse sets `failed`.  The history
variable `silenced` is raised by every call of `stop` and by `drop`, and lowered
by `start`; `reconfigured` is raised when `set_singleshot` changes the mode of an
active timer, and lowered by a `stop` that finds the timer active.

**TcpSocket.**  The four ways a socket comes to its queue are the initial states.
`EpollWait` fixes the reported conditions, `ProcessEpollEvents` makes the
callback's system calls on what the kernel knows then, and the network may act
between the two.  A client's `read` is `Read`, `ReadBlocks` (the blocking `recv`
finds nothing) and `ReadResumes`.  `available_bytes` is an unsigned number that
wraps at `UintSize`.  Bytes are counted, not modelled.  The history variable
`overread` is raised by a `recv` that returned more than was announced and
lowered by the next callback that counts the bytes anew.

**TcpServerSocket.**  The same scheme with the queue of established connections;
a raw socket it is made from may be open, with clients waiting, or closed.

**TcpPair.**  Two sockets at the ends of a connection whose kernels hold
`Capacity` bytes for each direction.  `KernelTakes` moves bytes of a `write` to
the peer, `Interrupted` is a signal that ends `send` early (and
`helpers::retry`, which repeats the call only when nothing was taken), a reset
makes it fail.  The single socket being the subject of TcpSocket, `epoll_wait`
and callback are one step here.

**ServerExample, Example.**  The tasks of the two programs as state machines over
the promises of the modules above: a callback pushes one event and `next_event`
returns it.  In ServerExample the client connects again as soon as its socket
ends, and the server closes its listening socket after `Clients` connections,
whoever is in its accept queue then.  In Example the history variable `unnoticed`
remembers the write of line 96 that failed, whose result nobody looks at.

**ChannelBench, SyncChannelBench.**  The programs over the full channel: the
operations of Channel happen when the program counters of the two tasks say so.
SyncChannelBench has two channels, one inherited and one instance.

**MCPrograms** puts the five programs into one state space; `program` is chosen
initially and never changes, and what the program does not use stays as it was.
A program has at least one iteration, connection or client, as the constants of
the sources have.

**Address.**  From `ip::SocketAddr` to the bytes the kernel reads, as operators:
`CreateSocket`, `AddrToSockaddr`, `SAddr`, `S6Addr`, `Htons`, for a machine of
either byte order.  It has no behaviour, and no run; see section 4.

Definitions whose comment begins with *Fault* are not part of a specification:
each is a plausible mistake in the code it stands beside, and serves to show that
a property notices it.

## 3. Runs

| Run | Question | Bounds, distinct states |
|---|---|---|
| `channel` | Are flag, eventfd, counter and queue coordinated, is the channel a FIFO channel, does a blocked `recv` return, is the end announced, for a client that calls in any order? | 3 handles, 4 messages; 746,556 |
| `channel_lock` | Do locked sections exclude each other and leave flag, eventfd and counters in step, do failing tasks end and senders get out of `try_send`, when system calls are refused inside them? | 2 senders with 2 calls; 22,371 |
| `channel_unannounced` | *violation*: is every message announced? | 2 messages |
| `channel_deadsenders` | *violation*: is nothing left when there are no senders? | 2 messages |
| `timer` | Are system calls accepted, the right events silenced, `is_active` and queued ticks to be trusted, and do active timers tick? | intervals 0, 1, 2001 ms; 3 unread ticks; 2 foreign events; 2,598 |
| `timer_dropped` | *violation*: is a dropped timer silent? | 2 unread ticks |
| `tcp` | Order of events, silence after close, reads that block, connects answered, input and ends noticed, with buffers of any size | 3 bytes, `uint` of 8 values, 1 foreign event; 6,168 |
| `tcp_blocked` | *violation*: does `read` never block? | 3 bytes |
| `tcp_server` | Is `accept` backed by a connection, are clients announced, is a closed socket silent? | 3 connections, 2 foreign events |
| `event_loop` | Do callbacks, numbers and origins reach the right source, and is every ready source served? | 3 objects, 2 descriptor numbers, 2 addresses, 1 event per callback, 1 event in the list when the user adds one; 1.0 million |
| `event_loop_new` | *violation*: does `new` check its descriptor? | 2 objects |
| `programs` | Do the repository's programs, and two ends that write to each other, come to their ends, with everything counted and served? | 8 iterations of the benchmarks, 5 clients, 3 connections of the HTTP client, 3 bytes in a direction, writes of 5; 44,539 |

**Why the bounds are enough.**  Three handles allow a living, a cloned and a
dropped transmitter at once.  Three messages are needed to tell apart a message
that was taken, one that was announced and one that is not; the fourth lets a
second round begin.  Two senders and the receiver are enough for each of them to
wait for the mutex while another holds or loses it; a second call finds the
receiver in the state the first has left.  Two unread ticks make one tick wait in
the list while the next is handed out, the third a further one unread.  Three
bytes are an announced byte, one that arrived since, and one more; `UintSize` only
has to exceed `MaxBytes`.  The intervals are the refused zero, one below and one
above a second.  Three objects on two numbers and two addresses force a reuse of
both while the third is still living.  A write of five over three bytes does not
fit, and is longer than what is free after one read.  The programs' constants are
larger than the number of messages or connections that can be under way at once.

`CHECK_DEADLOCK FALSE` stands in every configuration because the systems do
stop: a dropped source has no further action, a program ends, and a task may
sleep for ever when nobody sends.

### What the violations show

* **`channel.rs:306`** A message sent after the callback has announced its
  predecessor and before the client takes it finds a queue of two and does not
  notify.  It stays unannounced until a transmitter finds the queue empty again
  or the last one is dropped.  `example.rs:100-101` sends two in a row.
* **`channel.rs:171`** If all transmitters are gone when the `Receiver` is made,
  it announces the end alone and the queued messages are lost.
* **`eventqueueimpl.rs:53`** The fast path of `next_event` does not ask
  `is_valid`, so events of dropped sources are handed out.  `SilencedMeansInvalid`
  and `ClosedSocketIsSilent` therefore speak of validity, not of absence.  The
  callback of a server socket pushes one event, which is handed out at once, so
  that `SilentAfterClose` rests on the epoll entry ending with the descriptor.
* **`tcp.rs:346`** `recv` may return more than was announced; the unsigned
  counter wraps and a later `read` sleeps in `recv`.
* **`eventqueueimpl.rs:42`** `new` compares the result of `epoll_create` with 1,
  not with -1, and goes on with no descriptor.

### Limits the passing runs state

Some properties hold only beside a named exception, which is itself something to
know of the code:

* `ActiveMeansTickToCome`, `QueuedTicksAreCurrent`, `ActiveTimerTicks` until the
  mode of an active timer is changed (`reconfigured`, `timer.rs:65`): `is_active`
  may then be wrong until the next `stop` that finds the timer active.
* `SilencedMeansInvalid` for `stop` under the same condition: after
  `set_singleshot(true)` on a periodic timer the next tick makes it inactive
  (`timer.rs:159`), although the timerfd stays armed; a `stop` then returns at
  `timer.rs:78`, leaves the queued ticks valid, and more follow.  After `drop`,
  which does not go by `is_active` (`timer.rs:179-181`), the property holds in
  any case.
* `AnnouncementsExact` while a transmitter lives; after the last one has gone,
  only for a client that answers each event with one `recv` (`PromptClient`).
  Any other may find `available_messages` above the length of the queue
  (`channel.rs:242`), and its `recv` then fails the task (`channel.rs:82`).
* `ExactReadsReturn` until a `recv` has returned more than was announced
  (`overread`), the cause of `tcp_blocked`.
* `FailedTasksEnd`, `SendsReturn` unless `register_fd` is refused: `channel.rs:181`
  then fails the task with the mutex held, its destructor waits for it, and so do
  all senders (`MutexLost`).
* `WritesReturn` unless both ends write more than the kernels hold
  (`CrossedWrites`): the sockets block, `tcp.rs:167`.
* `StreamAliveIsTrue`, `SubtaskEnds` unless the write of `example.rs:96` fails: it
  closes the socket without an event, `tcp.rs:328`, and the program waits for
  one (`unnoticed`).

### Fairness

Nothing is assumed of transmitters, of the network, or of the client's wish to
stop, close or drop.  Assumed are:

* the task keeps asking for events (weak fairness of `NextEvent`), completes what
  it has begun (`ProcessEpollEvents`, `FinishDrop`), and makes the `recv` and
  `read` calls its events are for;
* a thread whose `mutex.wait()` has returned gets the mutex (`ResumeReceive`);
  in ChannelLock a free mutex is given to a task that goes on asking for it
  (`Lock`), and a locked section ends;
* strong fairness of `Tick`, of `EpollWait` and of the client's read.  The
  first two are not taken for granted: `EverySourceIsServed` derives them in
  EventLoop from weak fairness alone, because the kernel takes the first entry of
  its ready list and puts a level-triggered one back at the end, so that a ready
  descriptor is reached although others are ready again and again;
* the clock runs (`Expire`);
* in `programs`, each task of the running program goes on, a kernel takes bytes
  for which there is room, and the handshake of a queued connection is answered;
  the HTTP server answers and closes in the end, without which `example.rs`
  has no end either.  `MCFairness` writes this per program: as `program` is
  constant in a behaviour, the condition may stand inside each `WF`.

## 4. Proofs

All theorems are proved by TLAPS for any values of the constants that satisfy the
named assumptions (`ChannelAssumption`, `TimerAssumption`, ...).  These only say
that the identities of the sources differ and that bounds are numbers, so the
bounds may be arbitrarily large.  Type correctness of Channel, Timer, TcpSocket,
TcpServerSocket and EventLoop is proved and therefore not repeated in the runs.
Every invariant of the passing runs has a theorem, and so have the refinement
`FifoSpec` and the action property `SilentAfterClose`.

**ChannelProofs.**  `NotificationProtocol` is inductive.  The safety properties
alone are not: that no receiver sleeps beside a queued message depends on when
the flag is up.  The strengthening consists of
`FlagMeansQueued` (with living transmitters a raised flag means a message is
there), `FlagMeansPending` (with a descriptor, a raised flag means exactly one
notification is under way and nothing announced is left, so no `recv` can lower
the flag in between) and `AnnouncedIsQueued`.  `SendersCounted` ties `nr_senders`
to the transmitters.  `ProtocolCorrect` proves it step by step; `WakeupsArrive`,
`NotificationsStaySingle`, `LoopStaysAwake`, `SubtractionIsSafe` and
`TypeCorrect` follow.  `ChannelIsFifo` proves the refinement of `FifoChannel`
from the same invariant: an event receiver calls the blocking `recv` only with a
message in the queue or after the last transmitter.  `EndComesLast` adds the
invariant `EndIsLast`: once the end is announced no transmitter lives, the flag
is down and nothing is pending, so no later callback announces anything.
`EndIsNeverLost` is the converse: with the last transmitter gone, the end has been
announced or exactly one notification is under way, because a raised flag means
that one is (`FlagMeansPending`), and a lowered one makes the drop write.
`AnnouncementsStayExact` counts: `AnnouncementsClaimed` says that the message
events pushed so far, less the messages taken, are `available_messages`, and that
no callback runs while an event is in the list.  With a living transmitter the
callback finds nothing left announced (the protocol says so), so that adding the
whole queue (`channel.rs:242`) adds the new messages only; without one a client
that answers each event with one `recv` has emptied the counter before it polls
again.  The counting lemmas of EventQueueProofs (`CountOfConcat`, `CountOfRepeat`
and others) say how appending changes the number of events of a kind: they rest on
bijections between sets of positions, as induction over a sequence is not to be
had.

**ChannelLockProofs.**  `LockProtocol` is the invariant at the level of the
mutex, and `LockProtocolHolds` proves it action by action.  It has to say more
than module Channel does, because a section may now end in a failure: who is
inside holds the mutex (`MutualExclusion`), failing tasks only run destructors
(`Roles`), a transmitter is counted until its destructor has run
(`TransmittersCounted`, which needs the cardinality of the living ones), and
flag and eventfd are in step although a write may be refused between them
(`Descriptor`, `Notification`).  Only `register_fd`'s failure breaks the rule
that a section gives the mutex back; `SectionsExclude` states it with this
exception.  `NobodySleepsOnAMessage` and `NoWriteAfterCloseHolds` follow.

**TimerProofs.**  `CallsAreAccepted` rests on `RegistrationKnown`:
`epoll_registered` mirrors the kernel's entry, and an active timer has one; the
lemma `TimespecIsNormalised` covers the conversion of milliseconds.
`CallbacksFindNothing` shows that no callback runs with an event in the list, on
which the others rely.  `PlainClientsKnow` and `TicksAreCurrent` use `ActivityKnown`, which describes the
two modes separately: a single shot fires once and leaves nothing in the list, a
periodic timer stays armed.  `SilencedStaysInvalid` needs (`SilencedForGood`) that
a silenced timer is also disarmed and read, so no tick can follow; for a `stop`
that returns at once this is `ActivityKnown` again: what takes itself for inactive
is so, as long as the mode of the running timer was not changed.

**TcpSocketProofs.**  `ReadsReturn`: what was announced and not yet read is in
the kernel's buffer (`AnnouncedIsBacked`) as long as no `recv` has returned more.
`EventsComeInOrder`, `StreamEndsDrained` and `ClosedIsSilent` have the common
invariant `EndIsFinal`: an announced end has closed the socket, which has no
descriptor on epoll then and no valid event in the list, the end itself having
been handed out by the round of polling that found it.  `ConditionsReachEpoll`
and `EveryCallbackAnnounces` show that what the client is to be told is what epoll
is asked for, and that the callback turns it into an event; they need that the
entry has the interest of the socket's state (`InputIsAskedFor`).

**TcpServerSocketProofs.**  `AcceptReturns` (`ClientIsThere`): `client_available`
implies a waiting connection, because only `accept` takes one and it resets the
flag.  `ClosedIsSilent` (`ClosedForGood`): a closed socket has no valid event in
the list and no callback under way.  `ClientsReachEpoll`: a waiting client is
reported by epoll as long as the socket is open.

**EventLoopProofs.**  `CallbacksAreSafe` and `NumbersAreOwn` have one inductive
invariant, `Descriptors`: an open source's number denotes its own file, the entry
of that number leads back to it, two living sources never hold the same number,
and a closed number has no entry and is not on the ready list.
`OriginsAreRight` uses `Origins`: living objects have different addresses, and
whoever frees an address has silenced its events first.  `TypeCorrect` adds
`KernelTypes` for the ready list.  `ReadyIsNeverLost` and `WaitingIsBounded` are
the argument for `EverySourceIsServed` without its fairness: what is ready on
epoll is on the list once (`ReadyList`, which needs that no entry is
edge-triggered, and that nothing is ready under a number without a file, so that
a reused number starts quiet), nobody overtakes, and each callback of another
source takes at least one place off a waiting descriptor's way to the head.

**EventQueueProofs** holds the lemmas about the list that the others cite.

**Addresses** (in TcpServerSocketProofs).  `AddressesArrive`: for any bytes and
either byte order, family, length and bytes are such that the kernel reads the address that was
asked for, except that IPv4 addresses are put together by shifts that suit a
little-endian machine (`tcp.rs:46-49`).  The theorem needs no behaviour; its
lemmas say which word lies in memory in network order.

**ProgramProofs.**  A step of MCPrograms is a step of one program and leaves the
variables of the others alone (`HttpStep`, `ServingStep`, `PairStep`,
`RepliesStep`, `RequestsStep`), so each program has its own invariant.

* *example.rs*: `StreamAliveStaysTrue` needs to know what the client believes
  while it handles an event (`BeliefsHold`), and that a connection is begun with an
  iteration left (`IterationsCounted`).
* *serverexample.rs*: `ClientsAreServed` follows one connection from the accept
  queue through the response to its end (`ConnectionState`), relates it to the
  event the client handles (`EventState`) and to where the server is
  (`ServerState`), and balances the clients served against those still to come
  (`ServedState`).
* *Two ends of a connection*: no end holds or has announced more than the other's
  kernel holds, part of `ProgramsTypeCorrect`.
* *Channels of the benchmarks*: each operation of the programs is the operation
  of Channel (`CountingActions`, `RequestActions`), so that the theorems of
  ChannelProofs are used, for the second channel and for a prompt client through
  instances of that module.  `Protocols` is the notification protocol of both
  channels.
* *channelbench.rs*: `EventsStayExact` from `AnnouncementsClaimed` of a prompt
  client.
* *syncchannelbench.rs*: `TasksStayInLockstep`.  `OneMessage` says where the one
  message is: nowhere, in the request queue, with the worker, or in the reply
  queue; the iterations of both tasks follow from that (`IterationsOfTasks`), and
  `ReplyEvents` and `RequestEvents` say that an event returned to a task is that of
  the message it is about to take.

**Only model-checked.**  All liveness properties: liveness under fairness and
`ENABLED` are out of the prover's reach.  Of `DisconnectionAnnounced`,
`ConnectIsAnswered`, `InputIsNoticed`, `ClientsAreAnnounced` and
`EverySourceIsServed` the theorems above prove the safety side for every instance,
that what they wait for is never lost: `EndIsOnItsWay`, `ConditionsAreReported`,
`CallbacksAnnounce`, `ClientsAreReported`, `ReadyIsListed` and `NobodyOvertakes`.
These hold for every instance and so are not repeated in the runs.  Induction over data and modules with RECURSIVE
operators are out of reach as well; the models use none of the latter.

## 5. Not modelled

* `RawTcpSocket` and `RawTcpServerSocket` used on their own, without the event
  sources that wrap them: their calls are modelled inside TcpSocket and
  TcpServerSocket.
* `read` and `write` on a raw socket before it is given to
  `from_raw_tcp_socket`: TcpSocket starts with one that was accepted, with its
  peer still there or not, or one that was closed before.
* EINTR during `connect` (`tcp.rs:131-134`), `errno` read after `close`
  (`tcp.rs:190`).
* The parts of the benchmarks that measure Rust's own channels, and the time
  they print; the main task of `example.rs`, which prints what a channel brings
  (its use of `recv` is `PromptClient` of Channel).
* Error kinds (`translate_error`), the packing of `epoll_event`, the `fcntl`
  calls of `set_fd_blocking`.
* Data: messages, payloads, `println!`; memory management, except that addresses
  are freed and reused.
* `lib.rs` and the build script have no behaviour.

## 6. Plan

Done: the modules of section 2, the runs of section 3, the theorems of section 4.

What could be added:

1. A refinement of Channel by ChannelLock for runs without refusals.
2. `RawTcpSocket` on its own, with `connect` repeated after EINTR.
3. Abstract specifications of the sockets and the timer, as FifoChannel is that
   of the channel.
