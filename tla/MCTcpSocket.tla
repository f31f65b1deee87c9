----------------------------- MODULE MCTcpSocket -----------------------------
(* Constants of the runs that check module TcpSocket.                       *)
EXTENDS TcpSocketProperties

CONSTANT noEvent

MCSources == {"socket", "other"}
MCSockInfo == "socket"
MCOther == "other"
=============================================================================
