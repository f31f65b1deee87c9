----------------------------- MODULE FifoChannel -----------------------------
(***************************************************************************)
(* What a channel promises its users, without mutex, flags or descriptors: *)
(* a queue with many sending handles and one receiver.  Accepted messages  *)
(* are handed out once and in the order of their acceptance for as long as *)
(* the receiver lives; "empty" is answered only while a sender lives and   *)
(* nothing is queued, "disconnected" only when nothing more can ever come. *)
(***************************************************************************)
EXTENDS Naturals, Sequences

CONSTANT Message

VARIABLES
    buffer,     \* accepted and not yet received
    senders,    \* number of living sending handles
    alive,      \* the receiver has not been dropped
    received,   \* everything the receiver got, in order
    outcome     \* answer of the last receive call

fifovars == <<buffer, senders, alive, received, outcome>>

Init ==
    /\ buffer = <<>>
    /\ senders = 1
    /\ alive = TRUE
    /\ received = <<>>
    /\ outcome = "none"

Accept(m) ==
    /\ alive /\ senders > 0
    /\ buffer' = Append(buffer, m)
    /\ UNCHANGED <<senders, alive, received, outcome>>

AddSender ==
    /\ senders > 0
    /\ senders' = senders + 1
    /\ UNCHANGED <<buffer, alive, received, outcome>>

LoseSender ==
    /\ senders > 0
    /\ senders' = senders - 1
    /\ UNCHANGED <<buffer, alive, received, outcome>>

Deliver ==
    /\ alive /\ buffer # <<>>
    /\ received' = Append(received, Head(buffer))
    /\ buffer' = Tail(buffer)
    /\ outcome' = "data"
    /\ UNCHANGED <<senders, alive>>

AnswerEmpty ==
    /\ alive /\ buffer = <<>> /\ senders > 0
    /\ outcome' = "empty"
    /\ UNCHANGED <<buffer, senders, alive, received>>

AnswerDisconnected ==
    /\ alive /\ buffer = <<>> /\ senders = 0
    /\ outcome' = "disconnected"
    /\ UNCHANGED <<buffer, senders, alive, received>>

\* An event receiver may say "nothing announced yet" at any time.
AnswerNone ==
    /\ alive
    /\ outcome' = "none"
    /\ UNCHANGED <<buffer, senders, alive, received>>

Close ==
    /\ alive
    /\ alive' = FALSE
    /\ buffer' = <<>>
    /\ UNCHANGED <<senders, received, outcome>>

Next ==
    \/ \E m \in Message : Accept(m)
    \/ AddSender
    \/ LoseSender
    \/ Deliver
    \/ AnswerEmpty
    \/ AnswerDisconnected
    \/ AnswerNone
    \/ Close

Spec == Init /\ [][Next]_fifovars
=============================================================================
