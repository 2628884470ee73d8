------------------------------- MODULE MCSession -------------------------------
(* Two calls of Create. A device replaces its own session, another one is  *)
(* refused for the address they share, clients leave in the middle of a    *)
(* call, writes fail, and sessions end by expiry, reclaim, replacement and *)
(* restart.                                                                *)
EXTENDS Session

CONSTANTS r1, r2, d1, d2, i1

Requests1 == {r1}
Requests2 == {r1, r2}
Devices1 == {d1}
Devices2 == {d1, d2}
IPs1 == {i1}
NoStress == {}
Replace == {"replace"}
ExtendRace == {"extend"}
Leaving == {"leave"}
Failing == {"fail"}
ReplacingAndFailing == {"replace", "fail"}
EveryStress == {"replace", "extend", "roam", "leave", "fail"}

(* Calls and devices have no order of their own: r1 is the first call, and *)
(* d1 the device that makes it.                                            *)
InOrder ==
    /\ device'[r1] \in {None, d1}
    /\ \A r \in Request : device'[r] # None => device'[r1] # None

OrderedNext == (Call /\ InOrder) \/ Continue

OrderedSpec == Init /\ [][OrderedNext]_vars /\ Fairness
===============================================================================
