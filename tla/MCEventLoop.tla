----------------------------- MODULE MCEventLoop -----------------------------
(* Constants of the runs that check module EventLoop.                       *)
EXTENDS EventLoop, TLC

CONSTANTS noEvent, noObject, o1, o2, o3, i1, i2, i3

MCObjects == {o1, o2, o3}
MCTwoObjects == {o1, o2}
MCSources == {i1, i2}
MCThreeSources == {i1, i2, i3}
MCResults == {-1, 1, 3}
=============================================================================
