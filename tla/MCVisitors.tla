------------------------------ MODULE MCVisitors ------------------------------
(* Two visitors of one commit: both may find the snapshot gone and rebuild,*)
(* at once or one after the other, which takes up to three executions, and *)
(* a fourth when the process dies in between. The delete of a golden may   *)
(* fail.                                                                   *)
EXTENDS Visitors

CONSTANTS b1, r1, r2, r3, r4, c1, c2

MCBuild == {b1}
Runs3 == {r1, r2, r3}
Runs4 == {r1, r2, r3, r4}
MCCaller == {c1, c2}
NoMisfortune == {}
CrashOrUndeleted == {"crash", "undeleted"}
===============================================================================
