----------------------------- MODULE MCPrograms -----------------------------
(***************************************************************************)
(* The programs of the repository, and two tasks with a connection between *)
(* them.  A behaviour runs one of them; the variables of the others stay   *)
(* as they were initially.  The fairness is that of each module.           *)
(***************************************************************************)
EXTENDS SyncChannelBench

CONSTANTS Clients, Iterations, Capacity, MaxWrite

ASSUME ProgramsAssumption ==
    /\ Clients \in Nat \ {0} /\ Iterations \in Nat \ {0}
    /\ Capacity \in Nat \ {0} /\ MaxWrite \in Nat

VARIABLES
    program,                                    \* the one that runs
    \* ChannelBench
    counting_main, to_send,
    \* ServerExample
    client_main, event, received_data, connection_state, served, server,
    client_count, start, clienttask, listener, queued, link, response,
    \* Example
    subtask, sub_event, iterations, stream_alive, sub_connection_state,
    sub_link, data, unnoticed,
    \* TcpPair
    end_state, available_bytes, task, unsent, partial, towards, ended, broken

Counting == INSTANCE ChannelBench WITH
                PromptClient <- TRUE, main <- counting_main
Serving == INSTANCE ServerExample WITH main <- client_main
Http == INSTANCE Example WITH
            event <- sub_event, connection_state <- sub_connection_state,
            link <- sub_link
Pair == INSTANCE TcpPair WITH connection_state <- end_state

counting == <<counting_main, to_send>>
bench == <<vars, with_events, counting, nr_received>>
serving == <<client_main, event, received_data, connection_state, served,
             server, client_count, start, clienttask, listener, queued, link,
             response>>
http == <<subtask, sub_event, iterations, stream_alive, sub_connection_state,
          sub_link, data, unnoticed>>
pair == <<end_state, available_bytes, task, unsent, partial, towards, ended,
          broken>>
everything == <<program, allvars, counting, serving, http, pair>>

MCInit ==
    /\ program \in {"channelbench", "syncchannelbench", "serverexample",
                    "example", "pair"}
    /\ BenchInit /\ Counting!BenchInit
    /\ Serving!Init /\ Http!Init /\ Pair!Init
    /\ with_events => program \in {"channelbench", "syncchannelbench"}

RunsCounting ==
    /\ program = "channelbench" /\ Counting!BenchNext
    /\ UNCHANGED <<program, rvars, main, worker, nr_served, serving, http,
                   pair>>

RunsSync ==
    /\ program = "syncchannelbench" /\ BenchNext
    /\ UNCHANGED <<program, counting, serving, http, pair>>

RunsServing ==
    /\ program = "serverexample" /\ Serving!Next
    /\ UNCHANGED <<program, allvars, counting, http, pair>>

RunsHttp ==
    /\ program = "example" /\ Http!Next
    /\ UNCHANGED <<program, allvars, counting, serving, pair>>

RunsPair ==
    /\ program = "pair" /\ Pair!Next
    /\ UNCHANGED <<program, allvars, counting, serving, http>>

MCNext == RunsCounting \/ RunsSync \/ RunsServing \/ RunsHttp \/ RunsPair

\* program = p => WF_vars(A) for each fair action A of program p; program
\* never changes, so the condition may stand inside.
MCFairness ==
    /\ WF_bench(program = "channelbench" /\ Counting!Main)
    /\ WF_bench(program = "channelbench" /\ Counting!Worker)
    /\ WF_allvars(program = "syncchannelbench" /\ Main)
    /\ WF_allvars(program = "syncchannelbench" /\ Worker)
    /\ WF_serving(program = "serverexample" /\ Serving!ServerStep)
    /\ WF_serving(program = "serverexample" /\ Serving!ClientTask)
    /\ WF_serving(program = "serverexample" /\ Serving!MainStep)
    /\ WF_serving(program = "serverexample" /\ Serving!Handshake)
    /\ WF_http(program = "example" /\ Http!Answers)
    /\ WF_http(program = "example" /\ Http!Closes)
    /\ WF_http(program = "example" /\ Http!Tick)
    /\ SF_http(program = "example" /\ Http!SocketEvent)
    /\ WF_http(program = "example" /\ Http!OnEvent)
    /\ \A e \in Pair!Ends :
        /\ WF_pair(program = "pair" /\ Pair!NextEvent(e))
        /\ SF_pair(program = "pair" /\ Pair!ProcessEpollEvents(e))
        /\ WF_pair(program = "pair"
                       /\ Pair!Read(e, available_bytes[e]))
        /\ WF_pair(program = "pair" /\ Pair!KernelTakes(e, 1))
        /\ WF_pair(program = "pair" /\ Pair!WriteReturns(e))

MCSpec == MCInit /\ [][MCNext]_everything /\ MCFairness

-----------------------------------------------------------------------------
(* The properties of the modules, each of the program it is about           *)

\* All programs keep the types of their variables.
ProgramsTypeOK ==
    /\ TypeOK /\ Requests!TypeOK
    /\ Serving!TypeOK /\ Http!TypeOK /\ Pair!TypeOK

\* channelbench.rs: each event that is counted had a message; and for a task
\* that answers each event with one recv, as its main task does, the counter
\* of the receiver is right also when the last transmitter has gone.
EventsAreExact ==
    program = "channelbench" =>
        Counting!EveryEventHadAMessage /\ Counting!AnnouncementsExact

\* syncchannelbench.rs: requests and replies alternate.
TasksInLockstep == program = "syncchannelbench" => InLockstep

\* channelbench.rs, syncchannelbench.rs: the programs end, with all messages
\* counted and all requests answered.
BenchmarksEnd ==
    /\ program = "channelbench" => Counting!BenchEnds
    /\ program = "syncchannelbench" => BothTasksEnd

\* serverexample.rs: the client stops only when all its connects were served.
EveryClientIsServed == Serving!EveryClientIsServed

\* serverexample.rs: the client comes to its end, and so does the server.
ServerExampleEnds ==
    program = "serverexample" => Serving!MainEnds /\ Serving!ServerEnds

\* example.rs: what the client believes of its stream is true.
StreamAliveIsTrue == Http!StreamAliveIsTrue

\* example.rs: the client comes to the end of its iterations.
SubtaskEnds == program = "example" => Http!SubtaskEnds

\* tcp.rs: a write gets back to the event loop unless both ends write.
WritesReturn == program = "pair" => Pair!WritesReturn
=============================================================================
