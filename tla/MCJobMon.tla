------------------------------ MODULE MCJobMon ------------------------------
(* TLC instances of JobMon: two binds, so that the monitor of a closed port *)
(* meets the one of the next.                                               *)
EXTENDS JobMon

MCMonitors == {"m1", "m2"}
=============================================================================
