------------------------------- MODULE MCBuilder -------------------------------
(* Two commits, two executions, two callers and one slot: builds queue   *)
(* behind each other, callers join at every point of a run, and a run is   *)
(* restarted after a crash.                                                *)
EXTENDS Builder

CONSTANTS b1, b2, r1, r2, c1, c2

MCBuild == {b1, b2}
MCRun == {r1, r2}
MCCaller == {c1, c2}
AllMisfortunes == {"refuse", "vanish", "timeout", "undeleted", "crash"}
Refuse == {"refuse"}
Vanish == {"vanish"}
Timeout == {"timeout"}
===============================================================================
