------------------------------ MODULE MCChannel ------------------------------
(* Constants of the runs that check module Channel.                         *)
EXTENDS ChannelProperties

CONSTANTS h1, h2, h3, noEvent

MCHandles == {h1, h2, h3}
MCSources == {"rx"}
MCRxInfo == "rx"
=============================================================================
