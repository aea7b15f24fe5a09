------------------------- MODULE MCSatelliteSession -------------------------
(* Small instances of SatelliteSession for TLC.                            *)
EXTENDS SatelliteSession

CONSTANTS s1, c1, c2, satTool, otherTool

MCSessions == {s1}
MCConns    == {c1, c2}
MCTools    == {satTool, otherTool}
MCSatTools == {satTool}

(* A negative grant, a whole one (2.0), and a fractional one (5.5) that    *)
(* outlasts the suspicion threshold.                                       *)
MCBudgets    == {-1, 4, 11}
TwoBudgets   == {-1, 11}
OneDuration  == {1}
=============================================================================
