------------------------------- MODULE MCTimer -------------------------------
(* Constants of the runs that check module Timer.                           *)
EXTENDS Timer

CONSTANT noEvent

MCSources == {"timer", "other"}
MCTimerInfo == "timer"
MCOther == "other"
MCIntervals == {0, 1, 2001}
=============================================================================
