-------------------------- MODULE MCTcpServerSocket --------------------------
(* Constants of the runs that check module TcpServerSocket.                 *)
EXTENDS TcpServerSocket

CONSTANT noEvent

MCSources == {"server", "other"}
MCServerInfo == "server"
MCOther == "other"
=============================================================================
