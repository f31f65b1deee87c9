---------------------------- MODULE ProgramProofs ----------------------------
(***************************************************************************)
(* Proofs about the programs of module MCPrograms, for any number of       *)
(* iterations, clients and messages, and any capacity of the kernels.      *)
(***************************************************************************)
EXTENDS MCPrograms, ChannelProofs

-----------------------------------------------------------------------------
(* example.rs                                                               *)

\* A step of the whole is one of the HTTP client, or leaves it alone.
LEMMA HttpStep == [MCNext]_everything => Http!Next \/ UNCHANGED http
  BY DEF MCNext, RunsCounting, RunsSync, RunsServing, RunsHttp, RunsPair,
     everything

HttpTypes ==
    /\ subtask \in {"polling", "handling", "ended", "failed"}
    /\ sub_event \in {"Timer", "Connected", "DataAvailable", "IoError",
                      "StreamClosed"}
    /\ stream_alive \in BOOLEAN
    /\ sub_connection_state \in {"Connecting", "Connected", "Closed"}
    /\ sub_link \in {"handshake", "up", "fin", "reset"}
    /\ data \in BOOLEAN /\ unnoticed \in BOOLEAN

\* A connection is begun with at least one iteration left and costs at most
\* two, one when it is there and one when it ends.
IterationsCounted ==
    /\ iterations \in Int /\ -1 <= iterations /\ iterations <= Iterations
    /\ sub_connection_state = "Connecting" => iterations >= 1
    /\ sub_connection_state = "Connected" => iterations >= 0
    /\ subtask = "handling" =>
           /\ sub_event = "Connected" => iterations >= 1
           /\ sub_event \in {"IoError", "StreamClosed"} => iterations >= 0

StreamAliveIsKnown ==
    stream_alive <=> (sub_connection_state # "Closed" \/ unnoticed)

\* What the client believes is true also while it handles an event, except
\* that it has yet to be told of an end.  The failed write that closes a
\* socket unnoticed is not followed by an event of that socket.
BeliefsHold ==
    /\ subtask = "handling" /\ sub_event \in {"IoError", "StreamClosed"} =>
           sub_connection_state = "Closed" /\ ~unnoticed
    /\ subtask = "polling" => StreamAliveIsKnown
    /\ subtask = "handling"
           /\ sub_event \in {"Timer", "Connected", "DataAvailable"}
       => StreamAliveIsKnown
    /\ subtask = "handling" /\ sub_event \in {"Connected", "DataAvailable"} =>
           sub_connection_state = "Connected"
    /\ unnoticed => sub_connection_state = "Closed"

HttpInvariant == HttpTypes /\ IterationsCounted /\ BeliefsHold

LEMMA HttpInit == MCInit => HttpInvariant
  <1>1. MCInit => Http!Init
    BY DEF MCInit
  <1>2. Http!Init => HttpTypes /\ BeliefsHold
    BY DEF Http!Init, HttpTypes, BeliefsHold, StreamAliveIsKnown
  <1>3. Http!Init => IterationsCounted
    BY ProgramsAssumption DEF Http!Init, IterationsCounted
  <1>. QED
    BY <1>1, <1>2, <1>3 DEF HttpInvariant

LEMMA HttpInvariantStep ==
    ASSUME HttpInvariant, Http!Next \/ UNCHANGED http
    PROVE  HttpInvariant'
  <1>1. HttpTypes /\ IterationsCounted /\ BeliefsHold
    BY DEF HttpInvariant
  <1>2. HttpTypes'
    <2>. USE <1>1 DEF HttpTypes, Http!locals, Http!kernel, Http!Ending
    <2>1. CASE Http!OnTick
      BY <2>1 DEF Http!OnTick
    <2>2. CASE Http!OnConnected \/ Http!OnData \/ Http!OnEnd
      BY <2>2 DEF Http!OnConnected, Http!OnData, Http!OnEnd,
         Http!AliveAfterEnd
    <2>3. CASE Http!Tick \/ Http!SocketEvent
      BY <2>3 DEF Http!Tick, Http!SocketEvent
    <2>4. CASE \/ Http!Answers \/ Http!Sends \/ Http!Closes \/ Http!Breaks
               \/ UNCHANGED http
      BY <2>4 DEF Http!Answers, Http!Sends, Http!Closes, Http!Breaks, http
    <2>. QED
      BY <2>1, <2>2, <2>3, <2>4 DEF Http!Next, Http!OnEvent
  <1>3. IterationsCounted'
    <2>. USE <1>1, ProgramsAssumption
         DEF IterationsCounted, Http!locals, Http!kernel, Http!Ending
    <2>1. CASE Http!OnTick
      BY <2>1 DEF Http!OnTick, Http!IterationsLeft
    <2>2. CASE Http!OnConnected \/ Http!OnData \/ Http!OnEnd
      BY <2>2 DEF Http!OnConnected, Http!OnData, Http!OnEnd, BeliefsHold
    <2>3. CASE Http!Tick \/ Http!SocketEvent
      BY <2>3 DEF Http!Tick, Http!SocketEvent, HttpTypes
    <2>4. CASE \/ Http!Answers \/ Http!Sends \/ Http!Closes \/ Http!Breaks
               \/ UNCHANGED http
      BY <2>4 DEF Http!Answers, Http!Sends, Http!Closes, Http!Breaks, http
    <2>. QED
      BY <2>1, <2>2, <2>3, <2>4 DEF Http!Next, Http!OnEvent
  <1>4. BeliefsHold'
    <2>. USE <1>1 DEF HttpTypes, BeliefsHold, StreamAliveIsKnown,
             Http!locals, Http!kernel, Http!Ending
    <2>1. CASE Http!OnTick
      BY <2>1 DEF Http!OnTick
    <2>2. CASE Http!OnConnected \/ Http!OnData \/ Http!OnEnd
      BY <2>2 DEF Http!OnConnected, Http!OnData, Http!OnEnd,
         Http!AliveAfterEnd
    <2>3. CASE Http!Tick \/ Http!SocketEvent
      BY <2>3 DEF Http!Tick, Http!SocketEvent
    <2>4. CASE \/ Http!Answers \/ Http!Sends \/ Http!Closes \/ Http!Breaks
               \/ UNCHANGED http
      BY <2>4 DEF Http!Answers, Http!Sends, Http!Closes, Http!Breaks, http
    <2>. QED
      BY <2>1, <2>2, <2>3, <2>4 DEF Http!Next, Http!OnEvent
  <1>. QED
    BY <1>2, <1>3, <1>4 DEF HttpInvariant

\* The HTTP client waits for events only of a socket that will send some, and
\* connects again only in place of a socket that is closed, whatever server
\* and network do and however the ticks fall, unless a write has failed
\* unnoticed.
THEOREM StreamAliveStaysTrue == MCSpec => []StreamAliveIsTrue
  <1>1. HttpInvariant => StreamAliveIsTrue
    BY DEF HttpInvariant, BeliefsHold, StreamAliveIsKnown,
       StreamAliveIsTrue, Http!StreamAliveIsTrue
  <1>. QED
    BY <1>1, HttpInit, HttpStep, HttpInvariantStep, PTL DEF MCSpec

-----------------------------------------------------------------------------
(* serverexample.rs                                                         *)

LEMMA ServingStep == [MCNext]_everything => Serving!Next \/ UNCHANGED serving
  BY DEF MCNext, RunsCounting, RunsSync, RunsServing, RunsHttp, RunsPair,
     everything

\* The listening socket is there as long as the server serves, and the client
\* connects only when it has been told so: a connection is refused or reset
\* only by a server that has come to its end.
ServerState ==
    /\ server \in {"binding", "bound", "polling", "accepting", "accepted"} =>
           client_count >= 1
    /\ server = "ended" => client_count = 0
    /\ start = "sent" <=> server \notin {"binding", "bound"} /\ listener # "none"
    /\ listener = "closed" => server \in {"ended", "gave_up", "failed"}
    /\ listener = "none" => server \in {"binding", "failed"}
    /\ server = "binding" => listener = "none"
    /\ link # "none" \/ clienttask # "none" => start = "sent"
    /\ link = "reset" => server \in {"ended", "gave_up", "failed"}

\* Nothing has happened on the client's connection yet.
Fresh == clienttask = "none" /\ ~response /\ ~received_data

\* The way of a connection: it is queued, accepted, its response written, and
\* closed, or it is reset before it is accepted.  The response is in the
\* kernel's buffer or the client has received it.
ConnectionState ==
    /\ link = "none" <=> client_main = "starting"
    /\ link \in {"none", "handshake", "reset"} => Fresh /\ ~queued
    /\ queued => link = "up" /\ Fresh
    /\ link = "up" => queued \/ clienttask # "none"
    /\ clienttask = "writing" => ~response /\ ~received_data
    /\ link = "fin" => clienttask = "none"
    /\ clienttask = "written" \/ link = "fin" => response = ~received_data

\* The event the client handles was true when it was pushed and still is.
EventState ==
    /\ client_main = "ended" => link = "reset"
    /\ client_main = "handling" =>
           /\ event # "none"
           /\ event = "IoError" => link = "reset"
           /\ event = "StreamClosed" => link = "fin" /\ ~response
           /\ event = "DataAvailable" => response

\* Each connection accepted has been served, but for the one under way.
ServedState ==
    served = Clients - client_count
                 + (IF server = "accepted" THEN 1 ELSE 0)
                 - (IF clienttask = "writing" \/ response THEN 1 ELSE 0)

ServingInvariant ==
    /\ Serving!TypeOK
    /\ ServerState
    /\ client_main # "failed" => ConnectionState /\ EventState /\ ServedState

LEMMA ServingInit == MCInit => ServingInvariant
  <1>1. MCInit => Serving!Init
    BY DEF MCInit
  <1>2. Serving!Init => Serving!TypeOK
    <2>1. Clients \in 0 .. Clients /\ 0 \in Nat
      BY ProgramsAssumption
    <2>. QED
      BY <2>1, Zenon DEF Serving!Init, Serving!TypeOK
  <1>3. Serving!Init => ServerState /\ ServedState
    <2>1. Clients >= 1 /\ 0 = Clients - Clients + 0 - 0
      BY ProgramsAssumption
    <2>2. Serving!Init => ServedState
      BY <2>1, Zenon DEF Serving!Init, ServedState
    <2>. QED
      BY <2>1, <2>2 DEF Serving!Init, ServerState
  <1>4. Serving!Init => ConnectionState /\ EventState
    BY DEF Serving!Init, ConnectionState, EventState, Fresh
  <1>. QED
    BY <1>1, <1>2, <1>3, <1>4 DEF ServingInvariant

\* Types of what the arguments below compare.
LEMMA ServingTypes ==
    ASSUME Serving!TypeOK
    PROVE  /\ client_count \in Nat /\ client_count <= Clients
           /\ Clients \in Nat \ {0} /\ served \in Nat
           /\ link \in {"none", "handshake", "up", "fin", "reset"}
           /\ clienttask \in {"none", "writing", "written"}
           /\ listener \in {"none", "open", "closed", "error"}
           /\ start \in {"empty", "sent", "closed"}
           /\ response \in BOOLEAN /\ queued \in BOOLEAN
           /\ received_data \in BOOLEAN
  BY ProgramsAssumption DEF Serving!TypeOK

\* The condition the callback of the client's socket finds.
LEMMA ConditionFound ==
    /\ Serving!Condition \in {"none", "Connected", "IoError", "StreamClosed",
                              "DataAvailable"}
    /\ Serving!Condition = "IoError" => link = "reset"
    /\ Serving!Condition = "StreamClosed" => link = "fin" /\ ~response
    /\ Serving!Condition = "DataAvailable" => response
  BY Zenon DEF Serving!Condition

LEMMA ServingTypesStep ==
    ASSUME ServingInvariant, Serving!Next \/ UNCHANGED serving
    PROVE  Serving!TypeOK'
  <1>0. Serving!TypeOK /\ ServerState
    BY DEF ServingInvariant
  <1>. USE DEF Serving!client, Serving!servertask
  <1>1. /\ received_data' \in BOOLEAN /\ queued' \in BOOLEAN
        /\ response' \in BOOLEAN
    <2>0. /\ received_data \in BOOLEAN /\ queued \in BOOLEAN
          /\ response \in BOOLEAN
      BY <1>0, ServingTypes
    <2>1. received_data' \in BOOLEAN
      <3>1. UNCHANGED received_data \/ received_data' = TRUE
                \/ received_data' = FALSE
        BY Zenon DEF Serving!Next, Serving!ServerStep, Serving!Bind,
           Serving!SendStart, Serving!ClientConnected, Serving!Accept,
           Serving!AcceptFails, Serving!CountClient, Serving!ServerGivesUp,
           Serving!ClientTask, Serving!MainStep, Serving!Start,
           Serving!NextEvent, Serving!Proceed, Serving!ReconnectOrStop,
           Serving!ReceivedOnReconnect, Serving!Handshake,
           Serving!ListenerBreaks, serving
      <3>. QED
        BY <2>0, <3>1, Zenon
    <2>2. queued' \in BOOLEAN
      <3>1. UNCHANGED queued \/ queued' = TRUE \/ queued' = FALSE
        BY Zenon DEF Serving!Next, Serving!ServerStep, Serving!Bind,
           Serving!SendStart, Serving!ClientConnected, Serving!Accept,
           Serving!AcceptFails, Serving!CountClient, Serving!ServerGivesUp,
           Serving!CloseListener, Serving!ClientTask, Serving!MainStep,
           Serving!Start, Serving!NextEvent, Serving!Proceed,
           Serving!ReconnectOrStop, Serving!Handshake,
           Serving!ListenerBreaks, serving
      <3>. QED
        BY <2>0, <3>1, Zenon
    <2>3. response' \in BOOLEAN
      <3>1. UNCHANGED response \/ response' = TRUE \/ response' = FALSE
        BY Zenon DEF Serving!Next, Serving!ServerStep, Serving!Bind,
           Serving!SendStart, Serving!ClientConnected, Serving!Accept,
           Serving!AcceptFails, Serving!CountClient, Serving!ServerGivesUp,
           Serving!ClientTask, Serving!MainStep, Serving!Start,
           Serving!Connect, Serving!NextEvent, Serving!Proceed,
           Serving!ReconnectOrStop, Serving!Handshake,
           Serving!ListenerBreaks, serving
      <3>. QED
        BY <2>0, <3>1, Zenon
    <2>. QED
      BY <2>1, <2>2, <2>3
  <1>. USE <1>0, <1>1 DEF Serving!TypeOK
  <1>2. CASE Serving!Bind \/ Serving!SendStart \/ Serving!ClientConnected
    BY <1>2 DEF Serving!Bind, Serving!SendStart, Serving!ClientConnected
  <1>3. CASE Serving!Accept \/ Serving!AcceptFails \/ Serving!ServerGivesUp
    BY <1>3 DEF Serving!Accept, Serving!AcceptFails,
       Serving!ServerGivesUp, Serving!CloseListener
  <1>4. CASE Serving!CountClient
    <2>1. client_count' \in 0 .. Clients
      BY <1>4, ServingTypes DEF Serving!CountClient, ServerState
    <2>. QED
      BY <1>4, <2>1 DEF Serving!CountClient, Serving!CloseListener
  <1>5. CASE \/ Serving!ClientTask \/ Serving!Handshake
             \/ Serving!ListenerBreaks \/ UNCHANGED serving
    BY <1>5 DEF Serving!ClientTask, Serving!Handshake,
       Serving!ListenerBreaks, serving
  <1>6. CASE Serving!Start \/ Serving!ReconnectOrStop
    BY <1>6 DEF Serving!Start, Serving!ReconnectOrStop, Serving!Connect
  <1>7. CASE Serving!NextEvent
    BY <1>7, ConditionFound DEF Serving!NextEvent
  <1>8. CASE Serving!Proceed
    BY <1>8 DEF Serving!Proceed
  <1>. QED
    BY <1>2, <1>3, <1>4, <1>5, <1>6, <1>7, <1>8
       DEF Serving!Next, Serving!ServerStep, Serving!MainStep

LEMMA ServerStateStep ==
    ASSUME ServingInvariant, Serving!Next \/ UNCHANGED serving
    PROVE  ServerState'
  <1>. USE ServingTypes DEF ServingInvariant, ServerState, Serving!client,
           Serving!servertask
  <1>1. CASE Serving!Bind \/ Serving!SendStart \/ Serving!ClientConnected
    BY <1>1 DEF Serving!Bind, Serving!SendStart, Serving!ClientConnected
  <1>2. CASE Serving!Accept \/ Serving!AcceptFails \/ Serving!ServerGivesUp
    BY <1>2 DEF Serving!Accept, Serving!AcceptFails, Serving!ServerGivesUp,
       Serving!CloseListener
  <1>3. CASE Serving!CountClient
    BY <1>3 DEF Serving!CountClient, Serving!CloseListener,
       Serving!LastClient
  <1>4. CASE \/ Serving!ClientTask \/ Serving!Handshake
             \/ Serving!ListenerBreaks \/ UNCHANGED serving
    BY <1>4 DEF Serving!ClientTask, Serving!Handshake,
       Serving!ListenerBreaks, serving
  <1>5. CASE Serving!Start \/ Serving!ReconnectOrStop
    BY <1>5 DEF Serving!Start, Serving!ReconnectOrStop, Serving!Connect,
       Serving!Started, EventState
  <1>6. CASE Serving!NextEvent \/ Serving!Proceed
    BY <1>6 DEF Serving!NextEvent, Serving!Proceed
  <1>. QED
    BY <1>1, <1>2, <1>3, <1>4, <1>5, <1>6
       DEF Serving!Next, Serving!ServerStep, Serving!MainStep

\* A main task that has failed does nothing more.
LEMMA MainFails ==
    ASSUME Serving!Next \/ UNCHANGED serving, client_main' # "failed"
    PROVE  client_main # "failed"
  BY Zenon DEF Serving!Next, Serving!ServerStep, Serving!Bind,
     Serving!SendStart, Serving!ClientConnected, Serving!Accept,
     Serving!AcceptFails, Serving!CountClient, Serving!ServerGivesUp,
     Serving!ClientTask, Serving!MainStep, Serving!Start,
     Serving!NextEvent, Serving!Proceed, Serving!ReconnectOrStop,
     Serving!Handshake, Serving!ListenerBreaks, serving, Serving!client

LEMMA ConnectionStateStep ==
    ASSUME ServingInvariant, Serving!Next \/ UNCHANGED serving,
           client_main' # "failed"
    PROVE  ConnectionState'
  <1>0. Serving!TypeOK /\ ServerState /\ ConnectionState /\ EventState
    BY MainFails DEF ServingInvariant
  <1>. USE <1>0, ServingTypes
       DEF ConnectionState, Fresh, Serving!client, Serving!servertask
  <1>1. CASE Serving!Bind \/ Serving!SendStart \/ Serving!ClientConnected
    BY <1>1 DEF Serving!Bind, Serving!SendStart, Serving!ClientConnected
  <1>2. CASE Serving!Accept
    BY <1>2 DEF Serving!Accept
  <1>3. CASE Serving!AcceptFails \/ Serving!ServerGivesUp
    BY <1>3 DEF Serving!AcceptFails, Serving!ServerGivesUp,
       Serving!CloseListener
  <1>4. CASE Serving!CountClient
    BY <1>4 DEF Serving!CountClient, Serving!CloseListener
  <1>5. CASE Serving!ClientTask
    BY <1>5 DEF Serving!ClientTask
  <1>6. CASE Serving!Handshake
    BY <1>6 DEF Serving!Handshake
  <1>7. CASE Serving!Start
    BY <1>7 DEF Serving!Start, Serving!Connect
  <1>8. CASE Serving!ReconnectOrStop
    BY <1>8 DEF Serving!ReconnectOrStop, Serving!Connect,
       Serving!Reconnects, Serving!ReceivedOnReconnect, EventState
  <1>9. CASE Serving!NextEvent \/ Serving!ListenerBreaks \/ UNCHANGED serving
    BY <1>9 DEF Serving!NextEvent, Serving!ListenerBreaks, serving
  <1>10. CASE Serving!Proceed
    BY <1>10 DEF Serving!Proceed, EventState
  <1>. QED
    BY <1>1, <1>2, <1>3, <1>4, <1>5, <1>6, <1>7, <1>8, <1>9, <1>10
       DEF Serving!Next, Serving!ServerStep, Serving!MainStep

LEMMA EventStateStep ==
    ASSUME ServingInvariant, Serving!Next \/ UNCHANGED serving,
           client_main' # "failed"
    PROVE  EventState'
  <1>0. Serving!TypeOK /\ ConnectionState /\ EventState
    BY MainFails DEF ServingInvariant
  <1>. USE <1>0, ServingTypes
       DEF EventState, Serving!client, Serving!servertask
  <1>1. CASE Serving!Bind \/ Serving!SendStart \/ Serving!ClientConnected
    BY <1>1 DEF Serving!Bind, Serving!SendStart, Serving!ClientConnected
  <1>2. CASE Serving!Accept
    BY <1>2 DEF Serving!Accept
  <1>3. CASE \/ Serving!AcceptFails \/ Serving!ServerGivesUp
             \/ Serving!CountClient
    BY <1>3 DEF Serving!AcceptFails, Serving!ServerGivesUp,
       Serving!CountClient, Serving!CloseListener, ConnectionState
  <1>4. CASE Serving!ClientTask \/ Serving!Handshake
    BY <1>4 DEF Serving!ClientTask, Serving!Handshake, ConnectionState, Fresh
  <1>5. CASE Serving!Start
    BY <1>5 DEF Serving!Start, Serving!Connect
  <1>6. CASE Serving!ReconnectOrStop
    BY <1>6 DEF Serving!ReconnectOrStop, Serving!Connect,
       Serving!Reconnects, ConnectionState
  <1>7. CASE Serving!NextEvent
    BY <1>7, ConditionFound DEF Serving!NextEvent
  <1>8. CASE Serving!Proceed
    BY <1>8 DEF Serving!Proceed
  <1>9. CASE Serving!ListenerBreaks \/ UNCHANGED serving
    BY <1>9 DEF Serving!ListenerBreaks, serving
  <1>. QED
    BY <1>1, <1>2, <1>3, <1>4, <1>5, <1>6, <1>7, <1>8, <1>9
       DEF Serving!Next, Serving!ServerStep, Serving!MainStep

LEMMA ServedStateStep ==
    ASSUME ServingInvariant, Serving!Next \/ UNCHANGED serving,
           client_main' # "failed"
    PROVE  ServedState'
  <1>0. Serving!TypeOK /\ ConnectionState /\ EventState /\ ServedState
    BY MainFails DEF ServingInvariant
  <1>. USE <1>0, ServingTypes
       DEF ServedState, Serving!client, Serving!servertask
  <1>1. CASE Serving!Bind \/ Serving!SendStart \/ Serving!ClientConnected
    BY <1>1 DEF Serving!Bind, Serving!SendStart, Serving!ClientConnected
  <1>2. CASE Serving!Accept
    BY <1>2 DEF Serving!Accept, ConnectionState, Fresh
  <1>3. CASE Serving!AcceptFails \/ Serving!ServerGivesUp
    BY <1>3 DEF Serving!AcceptFails, Serving!ServerGivesUp,
       Serving!CloseListener
  <1>4. CASE Serving!CountClient
    BY <1>4 DEF Serving!CountClient, Serving!CloseListener
  <1>5. CASE Serving!ClientTask \/ Serving!Handshake
    BY <1>5 DEF Serving!ClientTask, Serving!Handshake
  <1>6. CASE Serving!Start
    BY <1>6 DEF Serving!Start, Serving!Connect, ConnectionState, Fresh
  <1>7. CASE Serving!ReconnectOrStop
    <2>1. Serving!Reconnects => ~response
      BY <1>7 DEF Serving!ReconnectOrStop, Serving!Reconnects,
         ConnectionState, Fresh, EventState
    <2>2. /\ response' \/ clienttask' = "writing"
              <=> response \/ clienttask = "writing"
          /\ UNCHANGED <<served, client_count, server>>
      BY <1>7, <2>1 DEF Serving!ReconnectOrStop, Serving!Connect
    <2>. QED
      BY <2>2
  <1>8. CASE Serving!Proceed
    <2>1. UNCHANGED <<client_count, server, clienttask>>
      BY <1>8 DEF Serving!Proceed
    <2>2. CASE event = "DataAvailable"
      <3>1. response /\ clienttask # "writing"
        BY <1>8, <2>2 DEF Serving!Proceed, EventState, ConnectionState, Fresh
      <3>2. served' = served + 1 /\ ~response'
        BY <1>8, <2>2 DEF Serving!Proceed
      <3>. QED
        BY <2>1, <3>1, <3>2
    <2>3. CASE event # "DataAvailable"
      BY <1>8, <2>1, <2>3 DEF Serving!Proceed
    <2>. QED
      BY <2>2, <2>3
  <1>9. CASE Serving!NextEvent \/ Serving!ListenerBreaks \/ UNCHANGED serving
    BY <1>9 DEF Serving!NextEvent, Serving!ListenerBreaks, serving
  <1>. QED
    BY <1>1, <1>2, <1>3, <1>4, <1>5, <1>6, <1>7, <1>8, <1>9
       DEF Serving!Next, Serving!ServerStep, Serving!MainStep

LEMMA ServingInvariantStep ==
    ASSUME ServingInvariant, Serving!Next \/ UNCHANGED serving
    PROVE  ServingInvariant'
  BY ServingTypesStep, ServerStateStep, ConnectionStateStep, EventStateStep,
     ServedStateStep DEF ServingInvariant

\* The client stops only when its last connection has been reset or refused by
\* a server that has served as many clients as it was to serve, wherever the
\* two are when the listening socket is closed; unless the server failed.
THEOREM ClientsAreServed == MCSpec => []EveryClientIsServed
  <1>1. ServingInvariant => EveryClientIsServed
    <2>. SUFFICES ASSUME ServingInvariant, client_main = "ended",
                         server \notin {"gave_up", "failed"}
                  PROVE  served = Clients
      BY DEF EveryClientIsServed, Serving!EveryClientIsServed
    <2>1. link = "reset" /\ server = "ended" /\ client_count = 0
      BY DEF ServingInvariant, EventState, ServerState
    <2>2. clienttask = "none" /\ ~response
      BY <2>1 DEF ServingInvariant, ConnectionState, Fresh
    <2>3. served = Clients - 0 + 0 - 0 /\ Clients \in Nat
      BY <2>1, <2>2, ProgramsAssumption DEF ServingInvariant, ServedState
    <2>. QED
      BY <2>3
  <1>. QED
    BY <1>1, ServingInit, ServingStep, ServingInvariantStep, PTL DEF MCSpec

-----------------------------------------------------------------------------
(* Two ends of a connection                                                 *)

LEMMA PairStep == [MCNext]_everything => Pair!Next \/ UNCHANGED pair
  BY DEF MCNext, RunsCounting, RunsSync, RunsServing, RunsHttp, RunsPair,
     everything

LEMMA PairInit == MCInit => Pair!TypeOK
  <1>1. MCInit => Pair!Init
    BY DEF MCInit
  <1>2. 0 \in 0 .. Capacity /\ 0 \in 0 .. MaxWrite
    BY ProgramsAssumption
  <1>. QED
    BY <1>1, <1>2 DEF Pair!Init, Pair!TypeOK

LEMMA PeerIsEnd ==
    \A e \in Pair!Ends : Pair!Peer(e) \in Pair!Ends /\ Pair!Peer(e) # e
  BY DEF Pair!Ends, Pair!Peer

LEMMA ClosingTypes ==
    ASSUME Pair!TypeOK, NEW e \in Pair!Ends,
           Pair!CloseSocket(e) \/ Pair!StaysOpen
    PROVE  /\ end_state' \in [Pair!Ends -> {"Connected", "Closed"}]
           /\ ended' \in [Pair!Ends -> BOOLEAN]
           /\ broken' \in [Pair!Ends -> BOOLEAN]
  <1>1. Pair!Peer(e) \in Pair!Ends
    BY PeerIsEnd
  <1>2. CASE Pair!CloseSocket(e)
    BY <1>1, <1>2 DEF Pair!TypeOK, Pair!CloseSocket
  <1>3. CASE Pair!StaysOpen
    BY <1>3 DEF Pair!TypeOK, Pair!StaysOpen
  <1>. QED
    BY <1>2, <1>3

\* No end announces or holds more bytes than the kernels do.
LEMMA PairTypeStep ==
    ASSUME Pair!TypeOK, Pair!Next \/ UNCHANGED pair
    PROVE  Pair!TypeOK'
  <1>. USE ProgramsAssumption
  <1>1. CASE Pair!ConnectionBreaks \/ UNCHANGED pair
    BY <1>1 DEF Pair!TypeOK, Pair!ConnectionBreaks, pair
  <1>2. ASSUME NEW e \in Pair!Ends,
               Pair!Close(e) \/ Pair!NextEvent(e) \/ Pair!OtherSource(e)
        PROVE  Pair!TypeOK'
    <2>1. CASE Pair!Close(e)
      BY <2>1, ClosingTypes DEF Pair!TypeOK, Pair!Close
    <2>2. CASE Pair!NextEvent(e) \/ Pair!OtherSource(e)
      BY <2>2 DEF Pair!TypeOK, Pair!NextEvent, Pair!OtherSource, Pair!Goes
    <2>. QED
      BY <1>2, <2>1, <2>2
  <1>3. ASSUME NEW e \in Pair!Ends, Pair!ProcessEpollEvents(e)
        PROVE  Pair!TypeOK'
    <2>1. Pair!CloseSocket(e) \/ Pair!StaysOpen
      BY <1>3 DEF Pair!ProcessEpollEvents
    <2>. QED
      BY <1>3, <2>1, ClosingTypes
         DEF Pair!TypeOK, Pair!ProcessEpollEvents, Pair!Goes
  <1>4. ASSUME NEW e \in Pair!Ends, NEW len \in 1 .. Capacity + 1,
               Pair!Read(e, len)
        PROVE  Pair!TypeOK'
    BY <1>4 DEF Pair!TypeOK, Pair!Read, Pair!BufferSizes, Pair!StaysOpen
  <1>5. ASSUME NEW e \in Pair!Ends, NEW len \in 1 .. MaxWrite,
               Pair!Write(e, len)
        PROVE  Pair!TypeOK'
    BY <1>5 DEF Pair!TypeOK, Pair!Write, Pair!Goes, Pair!StaysOpen
  <1>6. ASSUME NEW e \in Pair!Ends, NEW len \in 1 .. MaxWrite,
               Pair!KernelTakes(e, len)
        PROVE  Pair!TypeOK'
    <2>1. Pair!Peer(e) \in Pair!Ends
      BY PeerIsEnd
    <2>2. unsent' \in [Pair!Ends -> 0 .. MaxWrite]
      BY <1>6 DEF Pair!TypeOK, Pair!KernelTakes
    <2>3. /\ towards' \in [Pair!Ends -> 0 .. Capacity]
          /\ broken' \in [Pair!Ends -> BOOLEAN]
      <3>1. CASE Pair!Connected(Pair!Peer(e))
        <4>1. towards[Pair!Peer(e)] + len \in 0 .. Capacity
          BY <1>6, <2>1, <3>1 DEF Pair!TypeOK, Pair!KernelTakes
        <4>. QED
          BY <1>6, <2>1, <3>1, <4>1 DEF Pair!TypeOK, Pair!KernelTakes
      <3>2. CASE ~Pair!Connected(Pair!Peer(e))
        BY <1>6, <3>2 DEF Pair!TypeOK, Pair!KernelTakes
      <3>. QED
        BY <3>1, <3>2
    <2>. QED
      BY <1>6, <2>2, <2>3 DEF Pair!TypeOK, Pair!KernelTakes
  <1>7. ASSUME NEW e \in Pair!Ends,
               Pair!WriteReturns(e) \/ Pair!Interrupted(e)
        PROVE  Pair!TypeOK'
    <2>1. Pair!CloseSocket(e) \/ Pair!StaysOpen
      BY <1>7 DEF Pair!WriteReturns, Pair!Interrupted
    <2>. QED
      BY <1>7, <2>1, ClosingTypes
         DEF Pair!TypeOK, Pair!WriteReturns, Pair!Interrupted, Pair!Goes
  <1>. QED
    BY <1>1, <1>2, <1>3, <1>4, <1>5, <1>6, <1>7 DEF Pair!Next

-----------------------------------------------------------------------------
(* The channels of the benchmarks                                           *)

\* The lemmas of the channel, about the channel of the requests and for a
\* client that answers each event with one recv.
RequestProofs == INSTANCE ChannelProofs WITH
    queue <- r_queue, port_alive <- r_port_alive,
    nr_senders <- r_nr_senders, receiver_notified <- r_receiver_notified,
    epoll_fd <- r_epoll_fd, eventfd <- r_eventfd,
    transmitters <- r_transmitters, rx <- r_rx, rx_thread <- r_rx_thread,
    recv_call <- r_recv_call, fd_read <- r_fd_read,
    available_messages <- r_available_messages, sent <- r_sent,
    received <- r_received, stream <- r_stream, taken <- r_taken,
    outcome <- r_outcome, ready_events <- r_ready_events, loop <- r_loop,
    returned <- r_returned

Prompt == INSTANCE ChannelProofs WITH PromptClient <- TRUE

\* The channel of channelbench.rs is the channel, used by a prompt client.
LEMMA CountingActions ==
    /\ \A h : Counting!TrySend(h) => Prompt!TrySend(h) /\ TrySend(h)
    /\ \A h : Counting!DropTransmitter(h) =>
           Prompt!DropTransmitter(h) /\ DropTransmitter(h)
    /\ Counting!RegisterReceiver =>
           Prompt!RegisterReceiver /\ RegisterReceiver
    /\ Counting!BlockingRecv => Prompt!BlockingRecv /\ BlockingRecv
    /\ Counting!ResumeReceive => Prompt!ResumeReceive /\ ResumeReceive
    /\ Counting!SpuriousWakeup => Prompt!SpuriousWakeup /\ SpuriousWakeup
    /\ Counting!EventedRecv => Prompt!EventedRecv /\ EventedRecv
    /\ Counting!NextEvent => Prompt!NextEvent /\ NextEvent
    /\ Counting!ReadEventfd => Prompt!ReadEventfd /\ ReadEventfd
    /\ Counting!ProcessEpollEvents =>
           Prompt!ProcessEpollEvents /\ ProcessEpollEvents
    /\ Counting!DropReceiver => Prompt!DropReceiver /\ DropReceiver
    /\ Counting!DropBlockingReceiver =>
           Prompt!DropBlockingReceiver /\ DropBlockingReceiver
  <1>. USE DEF Counting!shared, Prompt!shared, shared, Counting!history, Prompt!history,
               history, Counting!eqvars, Prompt!eqvars, eqvars,
               Counting!InUserCode, Prompt!InUserCode, InUserCode
  <1>1. \A h : Counting!TrySend(h) => Prompt!TrySend(h) /\ TrySend(h)
    BY DEF Counting!TrySend, Prompt!TrySend, TrySend, Counting!SendNotifies,
           Prompt!SendNotifies, SendNotifies, Counting!NotifyReceiver,
           Prompt!NotifyReceiver, NotifyReceiver, Counting!Signal,
           Prompt!Signal, Signal, Counting!LeaveReceiverAlone,
           Prompt!LeaveReceiverAlone, LeaveReceiverAlone
  <1>2. \A h : Counting!DropTransmitter(h) =>
             Prompt!DropTransmitter(h) /\ DropTransmitter(h)
    BY DEF Counting!DropTransmitter, Prompt!DropTransmitter, DropTransmitter,
           Counting!DropNotifies, Prompt!DropNotifies, DropNotifies,
           Counting!NotifyReceiver, Prompt!NotifyReceiver, NotifyReceiver,
           Counting!Signal, Prompt!Signal, Signal,
           Counting!LeaveReceiverAlone, Prompt!LeaveReceiverAlone,
           LeaveReceiverAlone
  <1>3. Counting!RegisterReceiver =>
             Prompt!RegisterReceiver /\ RegisterReceiver
    BY DEF Counting!RegisterReceiver, Prompt!RegisterReceiver, RegisterReceiver
  <1>4. Counting!BlockingRecv => Prompt!BlockingRecv /\ BlockingRecv
    BY DEF Counting!BlockingRecv, Prompt!BlockingRecv, BlockingRecv,
           Counting!ReceiveSection, Prompt!ReceiveSection, ReceiveSection,
           Counting!SleepInWait, Prompt!SleepInWait, SleepInWait,
           Counting!PopMessage, Prompt!PopMessage, PopMessage,
           Counting!NotifiedAfterPop, Prompt!NotifiedAfterPop,
           NotifiedAfterPop, Counting!AllSendersDead, Prompt!AllSendersDead,
           AllSendersDead
  <1>5. Counting!ResumeReceive => Prompt!ResumeReceive /\ ResumeReceive
    BY DEF Counting!ResumeReceive, Prompt!ResumeReceive, ResumeReceive,
           Counting!ReceiveSection, Prompt!ReceiveSection, ReceiveSection,
           Counting!SleepInWait, Prompt!SleepInWait, SleepInWait,
           Counting!PopMessage, Prompt!PopMessage, PopMessage,
           Counting!NotifiedAfterPop, Prompt!NotifiedAfterPop,
           NotifiedAfterPop, Counting!AllSendersDead, Prompt!AllSendersDead,
           AllSendersDead
  <1>6. Counting!SpuriousWakeup => Prompt!SpuriousWakeup /\ SpuriousWakeup
    BY DEF Counting!SpuriousWakeup, Prompt!SpuriousWakeup, SpuriousWakeup
  <1>7. Counting!EventedRecv => Prompt!EventedRecv /\ EventedRecv
    BY BenchAssumption DEF Counting!EventedRecv, Prompt!EventedRecv, EventedRecv, Counting!Unclaimed,
           Prompt!Unclaimed, Unclaimed, Counting!PositionsOf,
           Prompt!PositionsOf, PositionsOf, Counting!ReceiveSection,
           Prompt!ReceiveSection, ReceiveSection, Counting!SleepInWait,
           Prompt!SleepInWait, SleepInWait, Counting!PopMessage,
           Prompt!PopMessage, PopMessage, Counting!NotifiedAfterPop,
           Prompt!NotifiedAfterPop, NotifiedAfterPop, Counting!AllSendersDead,
           Prompt!AllSendersDead, AllSendersDead, Counting!Cardinality,
           Prompt!Cardinality, Cardinality
  <1>8. Counting!NextEvent => Prompt!NextEvent /\ NextEvent
    BY BenchAssumption DEF Counting!NextEvent, Prompt!NextEvent, NextEvent, Counting!Unclaimed,
           Prompt!Unclaimed, Unclaimed, Counting!PositionsOf,
           Prompt!PositionsOf, PositionsOf, Counting!NextEventReady,
           Prompt!NextEventReady, NextEventReady, Counting!NextEventPoll,
           Prompt!NextEventPoll, NextEventPoll, Counting!Cardinality,
           Prompt!Cardinality, Cardinality
  <1>9. Counting!ReadEventfd => Prompt!ReadEventfd /\ ReadEventfd
    BY DEF Counting!ReadEventfd, Prompt!ReadEventfd, ReadEventfd
  <1>10. Counting!ProcessEpollEvents =>
             Prompt!ProcessEpollEvents /\ ProcessEpollEvents
    BY DEF Counting!ProcessEpollEvents, Prompt!ProcessEpollEvents, ProcessEpollEvents,
           Counting!CountMessages, Prompt!CountMessages, CountMessages,
           Counting!Announcements, Prompt!Announcements, Announcements,
           Counting!Repeat, Prompt!Repeat, Repeat, Counting!MessageEvent,
           Prompt!MessageEvent, MessageEvent, Counting!NewEvent,
           Prompt!NewEvent, NewEvent, Counting!NewMessages,
           Prompt!NewMessages, NewMessages, Counting!ClosedEvent,
           Prompt!ClosedEvent, ClosedEvent, Counting!FinishPoll,
           Prompt!FinishPoll, FinishPoll
  <1>11. Counting!DropReceiver => Prompt!DropReceiver /\ DropReceiver
    BY DEF Counting!DropReceiver, Prompt!DropReceiver, DropReceiver,
           Counting!RemovePendingEvents, Prompt!RemovePendingEvents,
           RemovePendingEvents, Counting!RemovePending, Prompt!RemovePending,
           RemovePending, Counting!OriginatesFrom, Prompt!OriginatesFrom,
           OriginatesFrom, Counting!Invalidate, Prompt!Invalidate, Invalidate
  <1>12. Counting!DropBlockingReceiver =>
             Prompt!DropBlockingReceiver /\ DropBlockingReceiver
    BY DEF Counting!DropBlockingReceiver, Prompt!DropBlockingReceiver,
           DropBlockingReceiver
  <1>. QED
    BY <1>1, <1>2, <1>3, <1>4, <1>5, <1>6,
       <1>7, <1>8, <1>9, <1>10, <1>11, <1>12

\* The channel of the requests is the channel the lemmas are about.
LEMMA RequestActions ==
    /\ \A h : Requests!TrySend(h) => RequestProofs!TrySend(h)
    /\ \A h : Requests!DropTransmitter(h) => RequestProofs!DropTransmitter(h)
    /\ Requests!RegisterReceiver => RequestProofs!RegisterReceiver
    /\ Requests!BlockingRecv => RequestProofs!BlockingRecv
    /\ Requests!ResumeReceive => RequestProofs!ResumeReceive
    /\ Requests!SpuriousWakeup => RequestProofs!SpuriousWakeup
    /\ Requests!EventedRecv => RequestProofs!EventedRecv
    /\ Requests!NextEvent => RequestProofs!NextEvent
    /\ Requests!ReadEventfd => RequestProofs!ReadEventfd
    /\ Requests!ProcessEpollEvents => RequestProofs!ProcessEpollEvents
    /\ Requests!DropReceiver => RequestProofs!DropReceiver
    /\ Requests!DropBlockingReceiver => RequestProofs!DropBlockingReceiver
  <1>. USE DEF Requests!shared, RequestProofs!shared, Requests!history,
               RequestProofs!history, Requests!eqvars, RequestProofs!eqvars,
               Requests!InUserCode, RequestProofs!InUserCode
  <1>1. \A h : Requests!TrySend(h) => RequestProofs!TrySend(h)
    BY DEF Requests!TrySend, RequestProofs!TrySend, Requests!SendNotifies,
           RequestProofs!SendNotifies, Requests!NotifyReceiver,
           RequestProofs!NotifyReceiver, Requests!Signal,
           RequestProofs!Signal, Requests!LeaveReceiverAlone,
           RequestProofs!LeaveReceiverAlone
  <1>2. \A h : Requests!DropTransmitter(h) =>
             RequestProofs!DropTransmitter(h)
    BY DEF Requests!DropTransmitter, RequestProofs!DropTransmitter,
           Requests!DropNotifies, RequestProofs!DropNotifies,
           Requests!NotifyReceiver, RequestProofs!NotifyReceiver,
           Requests!Signal, RequestProofs!Signal, Requests!LeaveReceiverAlone,
           RequestProofs!LeaveReceiverAlone
  <1>3. Requests!RegisterReceiver => RequestProofs!RegisterReceiver
    BY DEF Requests!RegisterReceiver, RequestProofs!RegisterReceiver
  <1>4. Requests!BlockingRecv => RequestProofs!BlockingRecv
    BY DEF Requests!BlockingRecv, RequestProofs!BlockingRecv, Requests!ReceiveSection,
           RequestProofs!ReceiveSection, Requests!SleepInWait,
           RequestProofs!SleepInWait, Requests!PopMessage,
           RequestProofs!PopMessage, Requests!NotifiedAfterPop,
           RequestProofs!NotifiedAfterPop, Requests!AllSendersDead,
           RequestProofs!AllSendersDead
  <1>5. Requests!ResumeReceive => RequestProofs!ResumeReceive
    BY DEF Requests!ResumeReceive, RequestProofs!ResumeReceive, Requests!ReceiveSection,
           RequestProofs!ReceiveSection, Requests!SleepInWait,
           RequestProofs!SleepInWait, Requests!PopMessage,
           RequestProofs!PopMessage, Requests!NotifiedAfterPop,
           RequestProofs!NotifiedAfterPop, Requests!AllSendersDead,
           RequestProofs!AllSendersDead
  <1>6. Requests!SpuriousWakeup => RequestProofs!SpuriousWakeup
    BY DEF Requests!SpuriousWakeup, RequestProofs!SpuriousWakeup
  <1>7. Requests!EventedRecv => RequestProofs!EventedRecv
    BY BenchAssumption DEF Requests!EventedRecv, RequestProofs!EventedRecv, Requests!ReceiveSection,
           RequestProofs!ReceiveSection, Requests!SleepInWait,
           RequestProofs!SleepInWait, Requests!PopMessage,
           RequestProofs!PopMessage, Requests!NotifiedAfterPop,
           RequestProofs!NotifiedAfterPop, Requests!AllSendersDead,
           RequestProofs!AllSendersDead
  <1>8. Requests!NextEvent => RequestProofs!NextEvent
    BY BenchAssumption DEF Requests!NextEvent, RequestProofs!NextEvent, Requests!NextEventReady,
           RequestProofs!NextEventReady, Requests!NextEventPoll,
           RequestProofs!NextEventPoll
  <1>9. Requests!ReadEventfd => RequestProofs!ReadEventfd
    BY DEF Requests!ReadEventfd, RequestProofs!ReadEventfd
  <1>10. Requests!ProcessEpollEvents => RequestProofs!ProcessEpollEvents
    BY DEF Requests!ProcessEpollEvents, RequestProofs!ProcessEpollEvents,
           Requests!CountMessages, RequestProofs!CountMessages,
           Requests!Announcements, RequestProofs!Announcements,
           Requests!Repeat, RequestProofs!Repeat, Requests!MessageEvent,
           RequestProofs!MessageEvent, Requests!NewEvent,
           RequestProofs!NewEvent, Requests!NewMessages,
           RequestProofs!NewMessages, Requests!ClosedEvent,
           RequestProofs!ClosedEvent, Requests!FinishPoll,
           RequestProofs!FinishPoll
  <1>11. Requests!DropReceiver => RequestProofs!DropReceiver
    BY DEF Requests!DropReceiver, RequestProofs!DropReceiver,
           Requests!RemovePendingEvents, RequestProofs!RemovePendingEvents,
           Requests!RemovePending, RequestProofs!RemovePending,
           Requests!OriginatesFrom, RequestProofs!OriginatesFrom,
           Requests!Invalidate, RequestProofs!Invalidate
  <1>12. Requests!DropBlockingReceiver => RequestProofs!DropBlockingReceiver
    BY DEF Requests!DropBlockingReceiver, RequestProofs!DropBlockingReceiver
  <1>. QED
    BY <1>1, <1>2, <1>3, <1>4, <1>5, <1>6,
       <1>7, <1>8, <1>9, <1>10, <1>11, <1>12

LEMMA CountingStepIsPrompt ==
    ASSUME TypeOK, RunsCounting
    PROVE  [Prompt!Next]_Prompt!vars /\ [Next]_vars
  <1>. USE CountingActions DEF Next, Receiving, Prompt!Next, Prompt!Receiving
  <1>1. CASE Counting!Main
    BY <1>1 DEF Counting!Main, Counting!CreateReceiver,
       Counting!MainReceives, Counting!MainWaits, Counting!MainHandles,
       Counting!MainEnds, Counting!vars, vars, Prompt!vars,
       Counting!shared, shared, Prompt!shared, Counting!history, history,
       Prompt!history, Counting!eqvars, eqvars, Prompt!eqvars
  <1>2. CASE Counting!Worker
    <2>1. transmitters \subseteq Handles
      BY DEF TypeOK
    <2>. QED
      BY <1>2, <2>1 DEF Counting!Worker, Counting!WorkerSends,
         Counting!WorkerEnds, Transmitters, Prompt!Transmitters
  <1>3. CASE Counting!SpuriousWakeup
    BY <1>3
  <1>. QED
    BY <1>1, <1>2, <1>3 DEF RunsCounting, Counting!BenchNext

\* A step of a benchmark takes a step of the channel of the replies, or
\* leaves it alone.
LEMMA RepliesStep ==
    ASSUME TypeOK, [MCNext]_everything
    PROVE  [Next]_vars
  <1>1. CASE RunsSync
    <2>1. transmitters \subseteq Handles
      BY DEF TypeOK
    <2>2. CASE Main
      BY <2>2 DEF Main, CreateReceiver, SendRequest, ReceiveReply,
         WaitForReply, HandleEvent, MainEnds, Next, Receiving
    <2>3. CASE Worker
      BY <2>1, <2>3 DEF Worker, RegisterRequests, ReceiveRequest,
         WaitForRequest, TakeRequest, SendReply, WorkerEnds, Next,
         Transmitters
    <2>4. CASE Wakeups
      BY <2>4 DEF Wakeups, Next, Receiving
    <2>. QED
      BY <1>1, <2>2, <2>3, <2>4 DEF RunsSync, BenchNext
  <1>2. CASE RunsCounting
    BY <1>2, CountingStepIsPrompt
  <1>3. CASE RunsServing \/ RunsHttp \/ RunsPair \/ UNCHANGED everything
    BY <1>3 DEF RunsServing, RunsHttp, RunsPair, everything, allvars
  <1>. QED
    BY <1>1, <1>2, <1>3 DEF MCNext

\* The same for the channel of the requests.
LEMMA RequestsStep ==
    ASSUME RequestProofs!TypeOK, [MCNext]_everything
    PROVE  [RequestProofs!Next]_RequestProofs!vars
  <1>. USE RequestActions DEF RequestProofs!Next, RequestProofs!Receiving
  <1>0. UNCHANGED rvars => UNCHANGED RequestProofs!vars
    BY DEF rvars, RequestProofs!vars, RequestProofs!shared,
       RequestProofs!history, RequestProofs!eqvars
  <1>1. CASE RunsSync
    <2>1. r_transmitters \subseteq Handles
      BY DEF RequestProofs!TypeOK
    <2>2. CASE Main
      BY <1>0, <2>1, <2>2 DEF Main, CreateReceiver, SendRequest,
         ReceiveReply, WaitForReply, HandleEvent, MainEnds,
         RequestProofs!Transmitters
    <2>3. CASE Worker
      BY <1>0, <2>3 DEF Worker, RegisterRequests, ReceiveRequest,
         WaitForRequest, TakeRequest, SendReply, WorkerEnds
    <2>4. CASE Wakeups
      BY <1>0, <2>4 DEF Wakeups
    <2>. QED
      BY <1>1, <2>2, <2>3, <2>4 DEF RunsSync, BenchNext
  <1>2. CASE RunsCounting
    BY <1>0, <1>2 DEF RunsCounting
  <1>3. CASE RunsServing \/ RunsHttp \/ RunsPair \/ UNCHANGED everything
    BY <1>0, <1>3 DEF RunsServing, RunsHttp, RunsPair, everything, allvars
  <1>. QED
    BY <1>1, <1>2, <1>3 DEF MCNext

\* Both channels keep the notification protocol.
Protocols == NotificationProtocol /\ RequestProofs!NotificationProtocol

LEMMA ProtocolsInit == MCInit => Protocols
  <1>1. Requests!Init => RequestProofs!Init
    BY DEF Requests!Init, RequestProofs!Init, Requests!EventQueueInit,
       RequestProofs!EventQueueInit
  <1>2. RequestProofs!Init => RequestProofs!NotificationProtocol
    BY RequestProofs!ProtocolInit, ChannelAssumption, NoEventAssumption
       DEF RequestProofs!IsFiniteSet, IsFiniteSet, RequestProofs!EventsOf,
           EventsOf, RequestProofs!EventKind, EventKind
  <1>. QED
    BY <1>1, <1>2, ProtocolInit DEF MCInit, BenchInit, Protocols

LEMMA ProtocolsStep ==
    ASSUME Protocols, [MCNext]_everything
    PROVE  Protocols'
  <1>1. NotificationProtocol'
    BY RepliesStep, ProtocolStep DEF Protocols, NotificationProtocol
  <1>2. RequestProofs!NotificationProtocol'
    <2>1. [RequestProofs!Next]_RequestProofs!vars
      BY RequestsStep DEF Protocols, RequestProofs!NotificationProtocol
    <2>. QED
      BY <2>1, RequestProofs!ProtocolStep, ChannelAssumption,
         NoEventAssumption
         DEF Protocols, RequestProofs!IsFiniteSet, IsFiniteSet,
             RequestProofs!EventsOf, EventsOf, RequestProofs!EventKind,
             EventKind
  <1>. QED
    BY <1>1, <1>2 DEF Protocols

\* All programs keep the types of their variables: with those of the channels
\* the protocol comes along, with those of example.rs and serverexample.rs
\* the order of their connections.
THEOREM ProgramsTypeCorrect == MCSpec => []ProgramsTypeOK
  <1>. DEFINE Inv == /\ Protocols /\ HttpInvariant /\ ServingInvariant
                     /\ Pair!TypeOK
  <1>1. MCInit => Inv
    BY ProtocolsInit, HttpInit, ServingInit, PairInit
  <1>2. Inv /\ [MCNext]_everything => Inv'
    BY ProtocolsStep, HttpStep, HttpInvariantStep, ServingStep,
       ServingInvariantStep, PairStep, PairTypeStep
  <1>3. Inv => ProgramsTypeOK
    <2>. SUFFICES ASSUME Inv PROVE ProgramsTypeOK
      OBVIOUS
    <2>1. TypeOK /\ Serving!TypeOK
      BY DEF Protocols, NotificationProtocol, ServingInvariant
    <2>2. Http!TypeOK
      BY ProgramsAssumption DEF HttpInvariant, HttpTypes,
         IterationsCounted, Http!TypeOK, Http!Ending
    <2>3. Requests!TypeOK
      <3>1. RequestProofs!TypeOK
        BY DEF Protocols, RequestProofs!NotificationProtocol
      <3>. QED
        BY <3>1 DEF RequestProofs!TypeOK, Requests!TypeOK,
           RequestProofs!EventQueueTypeOK, Requests!EventQueueTypeOK,
           RequestProofs!EventsOf, Requests!EventsOf,
           RequestProofs!EventKind, Requests!EventKind
    <2>. QED
      BY <2>1, <2>2, <2>3 DEF ProgramsTypeOK
  <1>. HIDE DEF Inv
  <1>. QED
    BY <1>1, <1>2, <1>3, PTL DEF MCSpec

-----------------------------------------------------------------------------
(* channelbench.rs                                                          *)

\* Only what mentions PromptClient depends on the kind of the client.
LEMMA ProtocolIsPrompt == NotificationProtocol => Prompt!NotificationProtocol
  <1>1. TypeOK => Prompt!TypeOK
    BY DEF TypeOK, Prompt!TypeOK, EventQueueTypeOK, Prompt!EventQueueTypeOK,
         EventsOf, Prompt!EventsOf, EventKind, Prompt!EventKind
  <1>2. SendersCounted => Prompt!SendersCounted
    BY DEF SendersCounted, Prompt!SendersCounted, Cardinality,
         Prompt!Cardinality, IsFiniteSet, Prompt!IsFiniteSet
  <1>3. Coordination => Prompt!Coordination
    BY DEF Coordination, Prompt!Coordination, ReceivingEnd, Prompt!ReceivingEnd,
         Descriptor, Prompt!Descriptor, FlagMeansQueued,
         Prompt!FlagMeansQueued, FlagMeansPending, Prompt!FlagMeansPending,
         AnnouncedIsQueued, Prompt!AnnouncedIsQueued, NoLostWakeup,
         Prompt!NoLostWakeup, OneNotificationAtATime,
         Prompt!OneNotificationAtATime, Pending, Prompt!Pending
  <1>. QED
    BY <1>1, <1>2, <1>3
       DEF NotificationProtocol, Prompt!NotificationProtocol

LEMMA PromptSteps ==
    ASSUME NotificationProtocol, Prompt!AnnouncementsClaimed,
           [Prompt!Next]_Prompt!vars
    PROVE  Prompt!AnnouncementsClaimed'
  BY ProtocolIsPrompt, Prompt!AnnouncementsStep, ChannelAssumption,
     NoEventAssumption
     DEF Prompt!IsFiniteSet, IsFiniteSet, Prompt!EventsOf, EventsOf,
         Prompt!EventKind, EventKind

\* The book-keeping of the receiver, and what main has counted.
CountingInvariant ==
    program = "channelbench" =>
        /\ Prompt!AnnouncementsClaimed
        /\ nr_received = Len(received)

LEMMA CountingInit == MCInit => CountingInvariant
  <1>1. Init => Prompt!Init
    BY DEF Init, Prompt!Init, EventQueueInit, Prompt!EventQueueInit
  <1>2. Prompt!Init => Prompt!AnnouncementsClaimed
    BY Prompt!AnnouncementsInit, ChannelAssumption, NoEventAssumption
       DEF Prompt!IsFiniteSet, IsFiniteSet, Prompt!EventsOf, EventsOf,
           Prompt!EventKind, EventKind
  <1>3. MCInit => Init /\ nr_received = Len(received)
    BY DEF MCInit, BenchInit, Init
  <1>. QED
    BY <1>1, <1>2, <1>3 DEF CountingInvariant

\* A task that has got a message event finds the message.
LEMMA ClaimedMessageIsThere ==
    ASSUME NotificationProtocol, Prompt!AnnouncementsClaimed,
           Counting!EventedRecv
    PROVE  Len(received') = Len(received) + 1
  <1>1. EventedRecv /\ Counting!Unclaimed > 0 /\ rx = "evented"
    BY CountingActions DEF Counting!EventedRecv
  <1>2. /\ available_messages = MessageEventsPushed - taken
        /\ available_messages <= Len(queue)
    BY <1>1 DEF Prompt!AnnouncementsClaimed, Prompt!MessageEventsPushed,
       MessageEventsPushed, Prompt!PositionsOf, PositionsOf,
       Prompt!Cardinality, Cardinality
  <1>3. Counting!Unclaimed = Unclaimed
    BY DEF Counting!Unclaimed, Unclaimed, Counting!PositionsOf, PositionsOf,
       Counting!Cardinality, Cardinality
  <1>4. available_messages > 0
    <2>1. Cardinality(PositionsOf("ChannelMessage", ready_events)) \in Nat
      BY PositionsAreCounted DEF NotificationProtocol, TypeOK,
         EventQueueTypeOK
    <2>2. MessageEventsPushed \in Nat /\ taken \in Nat
      BY PositionsAreCounted
         DEF NotificationProtocol, TypeOK, MessageEventsPushed
    <2>3. Unclaimed = MessageEventsPushed
              - Cardinality(PositionsOf("ChannelMessage", ready_events))
              - taken
      BY DEF Unclaimed, MessageEventsPushed
    <2>. QED
      BY <1>1, <1>2, <1>3, <2>1, <2>2, <2>3
  <1>5. received \in Seq(Handles) /\ Len(queue) \in Nat
    BY DEF NotificationProtocol, TypeOK
  <1>6. PopMessage
    BY <1>1, <1>2, <1>4, <1>5 DEF EventedRecv, ReceiveSection, SleepInWait,
       AllSendersDead
  <1>. QED
    BY <1>5, <1>6 DEF PopMessage

LEMMA CountingInvariantStep ==
    ASSUME NotificationProtocol, CountingInvariant, [MCNext]_everything
    PROVE  CountingInvariant'
  <1>. SUFFICES ASSUME program' = "channelbench"
                PROVE  /\ Prompt!AnnouncementsClaimed'
                       /\ nr_received' = Len(received')
    BY DEF CountingInvariant
  <1>1. /\ Prompt!AnnouncementsClaimed /\ nr_received = Len(received)
        /\ RunsCounting \/ UNCHANGED everything
    BY DEF CountingInvariant, MCNext, RunsCounting, RunsSync, RunsServing,
       RunsHttp, RunsPair, everything
  <1>2. TypeOK
    BY DEF NotificationProtocol
  <1>3. [Prompt!Next]_Prompt!vars
    BY <1>1, <1>2, CountingStepIsPrompt DEF everything, allvars, vars,
       Prompt!vars, shared, Prompt!shared, history, Prompt!history, eqvars,
       Prompt!eqvars
  <1>4. nr_received' = Len(received')
    <2>1. CASE UNCHANGED <<nr_received, received>>
      BY <1>1, <2>1
    <2>2. CASE Counting!MainReceives
      BY <1>1, <1>2, <2>2 DEF Counting!MainReceives, TypeOK
    <2>3. CASE Counting!MainHandles /\ Counting!EventedRecv
                   /\ nr_received' = nr_received + 1
      BY <1>1, <2>3, ClaimedMessageIsThere
    <2>4. CASE RunsCounting /\ ~UNCHANGED <<nr_received, received>>
      <3>1. Counting!MainReceives \/ Counting!MainHandles
        BY <2>4, CountingActions DEF RunsCounting, Counting!BenchNext,
           Counting!Main, Counting!Worker, Counting!CreateReceiver,
           RegisterReceiver, Counting!WorkerSends, TrySend,
           Counting!WorkerEnds, DropTransmitter, Counting!MainWaits,
           NextEvent, ReadEventfd, ProcessEpollEvents, Counting!MainEnds,
           DropReceiver, DropBlockingReceiver, Counting!bench,
           SpuriousWakeup, history
      <3>. QED
        BY <2>2, <2>3, <2>4, <3>1 DEF Counting!MainHandles, Counting!vars,
           Counting!history
    <2>. QED
      BY <1>1, <2>1, <2>4 DEF everything, allvars, vars, history, tasks
  <1>. QED
    BY <1>1, <1>3, <1>4, PromptSteps

\* Each event that channelbench.rs counts had a message, and the counter of
\* its receiver stays right when the transmitter has gone.
THEOREM EventsStayExact == MCSpec => []EventsAreExact
  <1>1. NotificationProtocol /\ CountingInvariant => EventsAreExact
    <2>. SUFFICES ASSUME NotificationProtocol, CountingInvariant,
                         program = "channelbench"
                  PROVE  /\ Counting!EveryEventHadAMessage
                         /\ Counting!AnnouncementsExact
      BY DEF EventsAreExact
    <2>1. Prompt!AnnouncementsClaimed /\ nr_received = Len(received)
      BY DEF CountingInvariant
    <2>2. Counting!AnnouncementsExact
      BY <2>1 DEF Prompt!AnnouncementsClaimed, Prompt!MessageEventsPushed,
         Counting!MessageEventsPushed, Prompt!PositionsOf,
         Counting!PositionsOf, Prompt!Cardinality, Counting!Cardinality,
         Counting!AnnouncementsExact
    <2>. QED
      BY <2>1, <2>2 DEF Counting!EveryEventHadAMessage
  <1>2. Protocols => NotificationProtocol
    BY DEF Protocols
  <1>. QED
    BY <1>1, <1>2, ProtocolsInit, ProtocolsStep, CountingInit,
       CountingInvariantStep, PTL DEF MCSpec

-----------------------------------------------------------------------------
(* syncchannelbench.rs                                                      *)

\* Where the one message is: the main task may send the next request, ...
Idle ==
    /\ main \in {"creating", "sending", "leaving"}
    /\ worker \in {"starting", "waiting", "leaving"}
    /\ Len(queue) = 0 /\ Len(r_queue) = 0
    /\ nr_served = nr_received /\ Len(r_sent) = nr_received

\* ... the request is in its queue, ...
Requested ==
    /\ main = "waiting" /\ worker \in {"starting", "waiting", "taking"}
    /\ Len(queue) = 0 /\ Len(r_queue) = 1
    /\ nr_served = nr_received /\ Len(r_sent) = nr_received + 1

\* ... the worker has it and is about to reply, ...
Replying ==
    /\ main = "waiting" /\ worker = "replying"
    /\ Len(queue) = 0 /\ Len(r_queue) = 0
    /\ nr_served = nr_received /\ Len(r_sent) = nr_received + 1

\* ... or the reply is in its queue.
Replied ==
    /\ main \in {"waiting", "handling"} /\ worker \in {"waiting", "leaving"}
    /\ Len(queue) = 1 /\ Len(r_queue) = 0
    /\ nr_served = nr_received + 1 /\ Len(r_sent) = nr_received + 1

OneMessage == Idle \/ Requested \/ Replying \/ Replied

\* The iterations of both tasks.
IterationsOfTasks ==
    /\ nr_received \in Nat /\ nr_received <= ITERATIONS
    /\ nr_served \in Nat /\ nr_served <= ITERATIONS
    /\ main = "leaving" <=> nr_received = ITERATIONS
    /\ worker = "leaving" <=> nr_served = ITERATIONS
    /\ Len(received) = nr_received
    /\ Len(r_received) = nr_served + (IF worker = "replying" THEN 1 ELSE 0)

\* A task keeps its transmitter until it leaves.  The blocking part has no
\* event queues.
PartsOfTasks ==
    /\ nr_senders # 0 \/ worker = "leaving"
    /\ r_nr_senders # 0 \/ main = "leaving"
    /\ main \in {"creating", "handling"} => with_events
    /\ worker \in {"starting", "taking"} => with_events

\* next_event returns to the main task only with the event of a reply, which
\* only the end of the channel may follow.
ReplyEvents ==
    with_events =>
        /\ available_messages = IF main = "handling" THEN 1 ELSE 0
        /\ main = "handling" =>
               /\ returned = MessageEvent
               /\ ready_events = <<>> \/ nr_senders = 0
        /\ main \notin {"handling", "leaving"} => ready_events = <<>>

\* The worker does not look at the event: there must be no other.
RequestEvents ==
    with_events =>
        /\ r_available_messages = IF worker = "taking" THEN 1 ELSE 0
        /\ worker # "leaving" => r_ready_events = <<>>

Lockstep ==
    /\ OneMessage /\ IterationsOfTasks /\ PartsOfTasks
    /\ ReplyEvents /\ RequestEvents

\* What these say about each channel.
replies == <<queue, received, nr_senders, available_messages, ready_events,
             returned>>
requests == <<r_queue, r_sent, r_received, r_nr_senders,
              r_available_messages, r_ready_events>>

LEMMA LockstepTypes ==
    ASSUME Protocols
    PROVE  /\ Len(queue) \in Nat /\ Len(received) \in Nat
           /\ Len(r_queue) \in Nat /\ Len(r_received) \in Nat
           /\ Len(r_sent) \in Nat
           /\ ITERATIONS \in Nat \ {0}
           /\ TypeOK /\ ReceivingEnd
           /\ RequestProofs!TypeOK /\ RequestProofs!ReceivingEnd
  <1>1. TypeOK /\ RequestProofs!TypeOK
    BY DEF Protocols, NotificationProtocol,
       RequestProofs!NotificationProtocol
  <1>2. ReceivingEnd /\ RequestProofs!ReceivingEnd
    BY DEF Protocols, NotificationProtocol, Coordination,
       RequestProofs!NotificationProtocol, RequestProofs!Coordination
  <1>. QED
    BY <1>1, <1>2, BenchAssumption DEF TypeOK, RequestProofs!TypeOK

\* The calls of both tasks on the channel of the requests.
LEMMA RequestCalls ==
    ASSUME Protocols
    PROVE  /\ \A h : Requests!TrySend(h) =>
                  /\ Len(r_queue') = Len(r_queue) + 1
                  /\ Len(r_sent') = Len(r_sent) + 1
                  /\ UNCHANGED <<r_received, r_nr_senders,
                                 r_available_messages, r_ready_events>>
           /\ Requests!BlockingRecv \/ Requests!ResumeReceive =>
                  /\ UNCHANGED <<r_sent, r_nr_senders>>
                  /\ \/ UNCHANGED <<r_queue, r_received>>
                     \/ /\ Len(r_queue') = Len(r_queue) - 1
                        /\ Len(r_received') = Len(r_received) + 1
                        /\ Len(r_queue) > 0
           /\ Requests!EventedRecv /\ r_available_messages = 1
                  /\ Len(r_queue) = 1 =>
                  /\ UNCHANGED <<r_sent, r_nr_senders, r_ready_events>>
                  /\ Len(r_queue') = 0
                  /\ Len(r_received') = Len(r_received) + 1
                  /\ r_available_messages' = 0
  <1>1. \A h : Requests!TrySend(h) =>
            /\ Len(r_queue') = Len(r_queue) + 1
            /\ Len(r_sent') = Len(r_sent) + 1
            /\ UNCHANGED <<r_received, r_nr_senders, r_available_messages,
                           r_ready_events>>
    BY RequestActions, LockstepTypes, RequestProofs!SendAppends,
       ChannelAssumption, NoEventAssumption
       DEF RequestProofs!IsFiniteSet, IsFiniteSet, RequestProofs!EventsOf,
           EventsOf, RequestProofs!EventKind, EventKind
  <1>2. Requests!BlockingRecv \/ Requests!ResumeReceive =>
            /\ UNCHANGED <<r_sent, r_nr_senders>>
            /\ \/ UNCHANGED <<r_queue, r_received>>
               \/ /\ Len(r_queue') = Len(r_queue) - 1
                  /\ Len(r_received') = Len(r_received) + 1
                  /\ Len(r_queue) > 0
    BY RequestActions, LockstepTypes, RequestProofs!BlockingRecvTakes,
       ChannelAssumption, NoEventAssumption
       DEF RequestProofs!IsFiniteSet, IsFiniteSet, RequestProofs!EventsOf,
           EventsOf, RequestProofs!EventKind, EventKind
  <1>3. Requests!EventedRecv /\ r_available_messages = 1
            /\ Len(r_queue) = 1 =>
            /\ UNCHANGED <<r_sent, r_nr_senders, r_ready_events>>
            /\ Len(r_queue') = 0
            /\ Len(r_received') = Len(r_received) + 1
            /\ r_available_messages' = 0
    BY RequestActions, LockstepTypes, RequestProofs!EventedRecvTakes,
       ChannelAssumption, NoEventAssumption
       DEF RequestProofs!IsFiniteSet, IsFiniteSet, RequestProofs!EventsOf,
           EventsOf, RequestProofs!EventKind, EventKind
  <1>. QED
    BY <1>1, <1>2, <1>3

LEMMA RequestWait ==
    ASSUME Protocols, \/ Requests!NextEvent \/ Requests!ReadEventfd
                      \/ Requests!ProcessEpollEvents,
           r_ready_events = <<>>, r_available_messages = 0,
           Len(r_queue) \in {0, 1}, r_nr_senders # 0
    PROVE  /\ UNCHANGED <<r_queue, r_sent, r_received, r_nr_senders>>
           /\ r_ready_events' = <<>>
           /\ Requests!HandsOut => Len(r_queue) = 1 /\ r_available_messages' = 1
           /\ ~Requests!HandsOut => r_available_messages' = 0
  <1>1. Requests!HandsOut <=> RequestProofs!HandsOut
    BY DEF Requests!HandsOut, RequestProofs!HandsOut
  <1>. QED
    BY <1>1, RequestActions, LockstepTypes, RequestProofs!WaitingTurn,
       ChannelAssumption, NoEventAssumption
       DEF RequestProofs!IsFiniteSet, IsFiniteSet, RequestProofs!EventsOf,
           EventsOf, RequestProofs!EventKind, EventKind

LEMMA RequestOthers ==
    ASSUME Protocols
    PROVE  /\ Requests!RegisterReceiver => UNCHANGED requests
           /\ \A h : Requests!DropTransmitter(h) =>
                  UNCHANGED <<r_queue, r_sent, r_received,
                              r_available_messages, r_ready_events>>
           /\ Requests!DropReceiver \/ Requests!DropBlockingReceiver =>
                  /\ r_queue' = <<>> \/ UNCHANGED r_queue
                  /\ UNCHANGED <<r_sent, r_received, r_nr_senders,
                                 r_available_messages>>
           /\ Requests!SpuriousWakeup => UNCHANGED requests
  BY RequestActions, LockstepTypes, RequestProofs!OthersKeepMessages,
     ChannelAssumption, NoEventAssumption
     DEF requests, RequestProofs!IsFiniteSet, IsFiniteSet,
         RequestProofs!EventsOf, EventsOf, RequestProofs!EventKind, EventKind

\* The steps of the main task keep the tasks in lockstep.
LEMMA MainInLockstep ==
    ASSUME Protocols, Lockstep, Main
    PROVE  Lockstep'
  <1>. USE LockstepTypes DEF Lockstep, replies, requests
  <1>v. /\ UNCHANGED vars => UNCHANGED replies
        /\ UNCHANGED rvars => UNCHANGED requests
    BY DEF vars, rvars, shared, history, eqvars
  <1>. USE DEF OneMessage, Idle, Requested, Replying, Replied, IterationsOfTasks,
           PartsOfTasks, ReplyEvents, RequestEvents
  <1>1. CASE CreateReceiver
    <2>1. UNCHANGED replies /\ UNCHANGED requests
      BY <1>1, <1>v, OthersKeepMessages DEF CreateReceiver
    <2>. QED
      BY <1>1, <2>1 DEF CreateReceiver
  <1>2. CASE SendRequest
    <2>1. /\ UNCHANGED replies
          /\ Len(r_queue') = Len(r_queue) + 1
          /\ Len(r_sent') = Len(r_sent) + 1
          /\ UNCHANGED <<r_received, r_nr_senders, r_available_messages,
                         r_ready_events>>
      BY <1>2, <1>v, RequestCalls DEF SendRequest
    <2>. QED
      BY <1>2, <2>1 DEF SendRequest
  <1>3. CASE ReceiveReply
    <2>1. /\ UNCHANGED requests /\ UNCHANGED nr_senders
          /\ \/ UNCHANGED <<queue, received>>
             \/ /\ Len(queue') = Len(queue) - 1
                /\ Len(received') = Len(received) + 1
                /\ Len(queue) > 0
      BY <1>3, <1>v, BlockingRecvTakes DEF ReceiveReply
    <2>2. CASE UNCHANGED <<queue, received>>
      BY <1>3, <2>1, <2>2 DEF ReceiveReply
    <2>3. CASE Len(received') = Len(received) + 1 /\ Len(queue) > 0
                   /\ Len(queue') = Len(queue) - 1
      <3>1. received' # received
        BY <2>3
      <3>2. AfterReply(nr_received + 1) /\ ~with_events /\ Replied
            /\ UNCHANGED <<with_events, worker, nr_served>>
        BY <1>3, <2>3, <3>1 DEF ReceiveReply
      <3>3. Len(queue') = 0 /\ Len(received') = nr_received + 1
        BY <2>3, <3>2
      <3>. QED
        BY <2>1, <3>2, <3>3 DEF AfterReply
    <2>. QED
      BY <2>1, <2>2, <2>3
  <1>4. CASE WaitForReply
    <2>1. ready_events = <<>> /\ available_messages = 0
      BY <1>4 DEF WaitForReply
    <2>2. Len(queue) \in {0, 1} /\ (Len(queue) = 1 \/ nr_senders # 0)
      BY <1>4 DEF WaitForReply
    <2>3. /\ UNCHANGED <<queue, received, nr_senders>>
          /\ HandsOut =>
                 /\ Len(queue) = 1 /\ available_messages' = 1
                 /\ returned' = MessageEvent
                 /\ ready_events' = <<>> \/ nr_senders = 0
          /\ ~HandsOut => available_messages' = 0 /\ ready_events' = <<>>
      BY <1>4, <2>1, <2>2, WaitingTurn DEF WaitForReply
    <2>4. UNCHANGED requests /\ MessageEvent' = MessageEvent
      BY <1>4, <1>v DEF WaitForReply, MessageEvent, NewEvent
    <2>. HIDE DEF MessageEvent
    <2>. QED
      BY <1>4, <2>3, <2>4 DEF WaitForReply
  <1>5. CASE HandleEvent
    <2>1. /\ returned = MessageEvent /\ available_messages = 1
          /\ Len(queue) = 1
      BY <1>5 DEF HandleEvent
    <2>2. EventedRecv /\ AfterReply(nr_received + 1) /\ UNCHANGED requests
      BY <1>5, <1>v, <2>1 DEF HandleEvent, MessageEvent, NewEvent,
         OriginatesFrom
    <2>3. /\ UNCHANGED <<nr_senders, ready_events, returned>>
          /\ Len(queue') = 0 /\ Len(received') = Len(received) + 1
          /\ available_messages' = 0
      BY <2>1, <2>2, EventedRecvTakes
    <2>. QED
      BY <1>5, <2>2, <2>3 DEF HandleEvent, AfterReply
  <1>6. CASE MainEnds
    <2>1. /\ Len(queue') = 0 /\ Len(r_queue') = 0
          /\ UNCHANGED <<received, nr_senders, available_messages, returned,
                         r_sent, r_received, r_available_messages,
                         r_ready_events>>
      <3>1. CASE (DropReceiver \/ DropBlockingReceiver) /\ UNCHANGED rvars
        <4>1. /\ queue' = <<>> \/ UNCHANGED queue
              /\ UNCHANGED <<received, nr_senders, available_messages,
                             returned>>
          BY <3>1, OthersKeepMessages
        <4>2. UNCHANGED requests
          BY <1>v, <3>1
        <4>3. Len(queue) = 0 /\ Len(r_queue) = 0 /\ Len(<<>>) = 0
          BY <1>6 DEF MainEnds
        <4>. QED
          BY <4>1, <4>2, <4>3
      <3>2. CASE /\ \E h \in r_transmitters : Requests!DropTransmitter(h)
                 /\ UNCHANGED vars
        BY <1>6, <1>v, <3>2, RequestOthers DEF MainEnds
      <3>. QED
        BY <1>6, <3>1, <3>2 DEF MainEnds
    <2>. QED
      BY <1>6, <2>1 DEF MainEnds, tasks
  <1>. QED
    BY <1>1, <1>2, <1>3, <1>4, <1>5, <1>6 DEF Main

\* The steps of the worker do, too.
LEMMA WorkerInLockstep ==
    ASSUME Protocols, Lockstep, Worker
    PROVE  Lockstep'
  <1>. USE LockstepTypes DEF Lockstep, replies, requests
  <1>v. /\ UNCHANGED vars => UNCHANGED replies
        /\ UNCHANGED rvars => UNCHANGED requests
    BY DEF vars, rvars, shared, history, eqvars
  <1>m. MessageEvent' = MessageEvent
    BY DEF MessageEvent, NewEvent
  <1>. USE DEF OneMessage, Idle, Requested, Replying, Replied, IterationsOfTasks,
           PartsOfTasks, ReplyEvents, RequestEvents
  <1>1. CASE RegisterRequests
    <2>1. UNCHANGED replies /\ UNCHANGED requests
      BY <1>1, <1>v, RequestOthers DEF RegisterRequests
    <2>. QED
      BY <1>1, <1>m, <2>1 DEF RegisterRequests
  <1>2. CASE ReceiveRequest
    <2>1. /\ UNCHANGED replies /\ UNCHANGED <<r_sent, r_nr_senders>>
          /\ \/ UNCHANGED <<r_queue, r_received>>
             \/ /\ Len(r_queue') = Len(r_queue) - 1
                /\ Len(r_received') = Len(r_received) + 1
                /\ Len(r_queue) > 0
      BY <1>2, <1>v, RequestCalls DEF ReceiveRequest
    <2>2. CASE UNCHANGED <<r_queue, r_received>>
      BY <1>2, <1>m, <2>1, <2>2 DEF ReceiveRequest
    <2>3. CASE Len(r_received') = Len(r_received) + 1 /\ Len(r_queue) > 0
                   /\ Len(r_queue') = Len(r_queue) - 1
      <3>1. r_received' # r_received
        BY <2>3
      <3>2. /\ worker' = "replying" /\ ~with_events /\ Requested
            /\ worker = "waiting"
            /\ UNCHANGED <<with_events, main, nr_received, nr_served>>
        BY <1>2, <2>3, <3>1 DEF ReceiveRequest
      <3>3. Len(r_queue') = 0 /\ Len(r_received') = nr_served + 1
        BY <2>3, <3>2
      <3>. QED
        BY <1>m, <2>1, <3>2, <3>3
    <2>. QED
      BY <2>1, <2>2, <2>3
  <1>3. CASE WaitForRequest
    <2>1. /\ r_ready_events = <<>> /\ r_available_messages = 0
          /\ Len(r_queue) \in {0, 1} /\ r_nr_senders # 0
      BY <1>3 DEF WaitForRequest
    <2>2. /\ UNCHANGED replies
          /\ UNCHANGED <<r_queue, r_sent, r_received, r_nr_senders>>
          /\ r_ready_events' = <<>>
          /\ Requests!HandsOut =>
                 Len(r_queue) = 1 /\ r_available_messages' = 1
          /\ ~Requests!HandsOut => r_available_messages' = 0
      BY <1>3, <1>v, <2>1, RequestWait DEF WaitForRequest
    <2>3. CASE Requests!HandsOut
      <3>1. /\ worker' = "taking" /\ worker = "waiting" /\ with_events
            /\ UNCHANGED <<with_events, main, nr_received, nr_served>>
        BY <1>3, <2>3 DEF WaitForRequest
      <3>2. Requested
        <4>1. Len(r_queue) = 1
          BY <2>2, <2>3
        <4>. QED
          BY <4>1
      <3>3. Requested'
        BY <2>2, <3>1, <3>2
      <3>. QED
        BY <1>m, <2>2, <2>3, <3>1, <3>2, <3>3
    <2>4. CASE ~Requests!HandsOut
      <3>1. worker' = "waiting"
        BY <1>3, <2>4 DEF WaitForRequest
      <3>. QED
        BY <1>3, <1>m, <2>2, <2>4, <3>1 DEF WaitForRequest
    <2>. QED
      BY <2>3, <2>4
  <1>4. CASE TakeRequest
    <2>1. r_available_messages = 1 /\ Len(r_queue) = 1
      BY <1>4 DEF TakeRequest
    <2>2. /\ UNCHANGED replies
          /\ UNCHANGED <<r_sent, r_nr_senders, r_ready_events>>
          /\ Len(r_queue') = 0 /\ Len(r_received') = Len(r_received) + 1
          /\ r_available_messages' = 0
      BY <1>4, <1>v, <2>1, RequestCalls DEF TakeRequest
    <2>. QED
      BY <1>4, <1>m, <2>2 DEF TakeRequest
  <1>5. CASE SendReply
    <2>1. /\ UNCHANGED requests /\ Len(queue') = Len(queue) + 1
          /\ UNCHANGED <<received, nr_senders, available_messages,
                         ready_events, returned>>
      BY <1>5, <1>v, SendAppends DEF SendReply
    <2>. QED
      BY <1>5, <1>m, <2>1 DEF SendReply
  <1>6. CASE WorkerEnds
    <2>1. /\ Len(r_queue') = 0
          /\ nr_senders = 0 => UNCHANGED nr_senders
          /\ UNCHANGED <<queue, received, available_messages, ready_events,
                         returned, r_sent, r_received, r_nr_senders,
                         r_available_messages>>
      <3>1. CASE /\ Requests!DropReceiver \/ Requests!DropBlockingReceiver
                 /\ UNCHANGED vars
        BY <1>6, <1>v, <3>1, RequestOthers DEF WorkerEnds
      <3>2. CASE /\ \E h \in transmitters : DropTransmitter(h)
                 /\ UNCHANGED rvars
        BY <1>6, <1>v, <3>2, OthersKeepMessages, SenderIsCounted
           DEF WorkerEnds, Protocols, NotificationProtocol
      <3>. QED
        BY <1>6, <3>1, <3>2 DEF WorkerEnds
    <2>. QED
      BY <1>6, <1>m, <2>1 DEF WorkerEnds, tasks
  <1>. QED
    BY <1>1, <1>2, <1>3, <1>4, <1>5, <1>6 DEF Worker

LockstepInvariant == program = "syncchannelbench" => Lockstep

LEMMA LockstepInit == MCInit => LockstepInvariant
  <1>. SUFFICES ASSUME MCInit PROVE Lockstep
    BY DEF LockstepInvariant
  <1>. USE BenchAssumption DEF MCInit, BenchInit, Init, EventQueueInit,
           Requests!Init, Requests!EventQueueInit
  <1>1. /\ main \in {"creating", "sending"}
        /\ worker \in {"starting", "waiting"}
        /\ main = "creating" \/ worker = "starting" => with_events
    OBVIOUS
  <1>2. OneMessage
    BY <1>1 DEF OneMessage, Idle
  <1>3. IterationsOfTasks /\ PartsOfTasks
    BY <1>1 DEF IterationsOfTasks, PartsOfTasks
  <1>4. ReplyEvents /\ RequestEvents
    BY <1>1 DEF ReplyEvents, RequestEvents
  <1>. QED
    BY <1>2, <1>3, <1>4 DEF Lockstep

LEMMA LockstepStep ==
    ASSUME Protocols, LockstepInvariant, [MCNext]_everything
    PROVE  LockstepInvariant'
  <1>. SUFFICES ASSUME program' = "syncchannelbench" PROVE Lockstep'
    BY DEF LockstepInvariant
  <1>1. Lockstep /\ (RunsSync \/ UNCHANGED everything)
    BY DEF LockstepInvariant, MCNext, RunsCounting, RunsSync, RunsServing,
       RunsHttp, RunsPair, everything
  <1>2. CASE Main \/ Worker
    BY <1>1, <1>2, MainInLockstep, WorkerInLockstep
  <1>3. CASE Wakeups \/ UNCHANGED everything
    <2>1. UNCHANGED replies /\ UNCHANGED requests /\ UNCHANGED tasks
      BY <1>3, LockstepTypes, OthersKeepMessages, RequestOthers
         DEF Wakeups, everything, allvars, vars, rvars, shared, history,
             eqvars, replies, requests
    <2>2. MessageEvent' = MessageEvent
      BY DEF MessageEvent, NewEvent
    <2>. QED
      BY <1>1, <2>1, <2>2 DEF Lockstep, replies, requests, tasks, OneMessage,
         Idle, Requested, Replying, Replied, IterationsOfTasks, PartsOfTasks,
         ReplyEvents, RequestEvents
  <1>. QED
    BY <1>1, <1>2, <1>3 DEF RunsSync, BenchNext

\* Requests and replies of syncchannelbench.rs alternate, with the blocking
\* recv and with event queues: each next_event that returns does so for the
\* one message there is, although neither task looks twice.
THEOREM TasksStayInLockstep == MCSpec => []TasksInLockstep
  <1>1. Protocols /\ LockstepInvariant => TasksInLockstep
    <2>. SUFFICES ASSUME Protocols, Lockstep PROVE InLockstep
      BY DEF LockstepInvariant, TasksInLockstep
    <2>1. IterationsOfTasks /\ OneMessage
      BY DEF Lockstep
    <2>2. /\ Len(received) = nr_received
          /\ Len(r_received) = nr_served
                                   + (IF worker = "replying" THEN 1 ELSE 0)
      BY <2>1 DEF IterationsOfTasks
    <2>3. /\ Len(r_queue) + Len(queue) <= 1
          /\ Len(r_sent) - nr_received \in {0, 1}
      <3>1. nr_received \in Nat
        BY <2>1 DEF IterationsOfTasks
      <3>2. /\ \/ Len(r_queue) = 0 /\ Len(queue) = 0
               \/ Len(r_queue) = 1 /\ Len(queue) = 0
               \/ Len(r_queue) = 0 /\ Len(queue) = 1
            /\ Len(r_sent) = nr_received \/ Len(r_sent) = nr_received + 1
        BY <2>1 DEF OneMessage, Idle, Requested, Replying, Replied
      <3>3. Len(r_queue) + Len(queue) <= 1
        <4>1. 0 + 0 <= 1 /\ 1 + 0 <= 1 /\ 0 + 1 <= 1
          OBVIOUS
        <4>. QED
          BY <3>2, <4>1, Zenon
      <3>4. CASE Len(r_sent) = nr_received
        BY <3>1, <3>3, <3>4
      <3>5. CASE Len(r_sent) = nr_received + 1
        BY <3>1, <3>3, <3>5
      <3>. QED
        BY <3>2, <3>4, <3>5
    <2>. QED
      BY <2>2, <2>3 DEF InLockstep
  <1>. QED
    BY <1>1, ProtocolsInit, ProtocolsStep, LockstepInit, LockstepStep, PTL
       DEF MCSpec

=============================================================================
