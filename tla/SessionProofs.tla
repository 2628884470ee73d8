------------------------------ MODULE SessionProofs ------------------------------
(***************************************************************************)
(* Session, for any number of calls, devices and addresses, any limits,    *)
(* any number of restarts, any number of calls of Create at once, and      *)
(* whatever the environment does of Stress: how far the limit per device,  *)
(* the promise, the end of a session and its extension hold.               *)
(***************************************************************************)
EXTENDS Session, FiniteSetTheorems, TLAPS

(* Sets of sessions are finite and can be counted.                         *)
LEMMA Counting ==
    ASSUME NEW S \in SUBSET Request
    PROVE  IsFiniteSet(S) /\ Cardinality(S) \in Nat
  BY SessionAssumption, FS_Subset, FS_CardinalityType

(* A part of a set is no larger.                                           *)
LEMMA Fewer ==
    ASSUME NEW S \in SUBSET Request, NEW T \in SUBSET S
    PROVE  Cardinality(T) <= Cardinality(S) /\ Cardinality(T) \in Nat /\ Cardinality(S) \in Nat
  BY Counting, FS_Subset

(* A membership is TRUE or FALSE.                                          *)
LEMMA Truth ==
    ASSUME NEW x, NEW S
    PROVE  (x \in S) \in BOOLEAN
  OBVIOUS

(* The types are kept by every step.                                       *)
LEMMA TypesKept ==
    ASSUME TypeOK, [Next]_vars
    PROVE  TypeOK'
  <1> USE SessionAssumption DEF TypeOK, Waiting, Settled, Ending, CreatePlaces, Statuses
  <1>0. CASE UNCHANGED vars
    BY <1>0 DEF vars
  <1>1. ASSUME NEW r \in Request, NEW e \in Device, NEW i \in IP, CreateCount(r, e, i) PROVE TypeOK'
    BY <1>1, Counting DEF CreateCount, CreateTo, OfIP, LiveRows, table, logVars, createVars, runVars, clock, env
  <1>2. ASSUME NEW r \in Request, CreateList(r) PROVE TypeOK'
    BY <1>2 DEF CreateList, CreateTo, OfDevice, LiveRows, table, logVars, createVars, runVars, clock, env
  <1>3. ASSUME NEW r \in Request, NEW v \in Request, TerminateBox(r, v) PROVE TypeOK'
    <2>1. box' \in [Request -> {"none", "up", "left", "gone"}]
      BY <1>3 DEF TerminateBox
    <2>2. victim' \in [Request -> Request \cup {None}] /\ cpc' \in [Request -> CreatePlaces]
      BY <1>3 DEF TerminateBox, CreateTo
    <2> QED
      BY <1>3, <2>1, <2>2 DEF TerminateBox, table, logVars, runVars, clock, env
  <1>4. ASSUME NEW r \in Request, TerminateRecord(r) PROVE TypeOK'
    <2>1. (victim[r] \in stale[r]) \in BOOLEAN
      BY Truth, Zenon
    <2>2. ASSUME NEW b \in BOOLEAN PROVE [hasBox EXCEPT ![victim[r]] = b] \in [Request -> BOOLEAN]
      OBVIOUS
    <2>3. hasBox' \in [Request -> BOOLEAN]
      BY <1>4, <2>1, <2>2, Zenon DEF TerminateRecord
    <2> QED
      BY <1>4, <2>3 DEF TerminateRecord, CreateTo, SetStatus, CutShort, logVars, runVars, clock, env
  <1>5. ASSUME NEW r \in Request, TerminateLoses(r) PROVE TypeOK'
    BY <1>5 DEF TerminateLoses, CreateTo, table, logVars, createVars, runVars, clock, env
  <1>6. ASSUME NEW r \in Request, TerminateTell(r) PROVE TypeOK'
    <2>1. done' \in [Request -> BOOLEAN]
      BY <1>6, Zenon DEF TerminateTell
    <2>2. told' \in [Request -> {"no", "yes", "late"}]
      BY <1>6 DEF TerminateTell, EmitEnded
    <2> QED
      BY <1>6, <2>1, <2>2 DEF TerminateTell, CreateTo, table, runVars, clock, env
  <1>7. ASSUME NEW r \in Request, CreateAdmit(r) PROVE TypeOK'
    BY <1>7 DEF CreateAdmit, CreateTo, table, logVars, createVars, runVars, clock, env
  <1>8. ASSUME NEW r \in Request, CreateInsert(r) PROVE TypeOK'
    BY <1>8 DEF CreateInsert, CreateTo, SetStatus, table, logVars, createVars, runVars, clock, env
  <1>9. ASSUME NEW r \in Request, CreateGivesUp(r) PROVE TypeOK'
    BY <1>9 DEF CreateGivesUp, CreateTo, table, logVars, createVars, runVars, clock, env
  <1>10. ASSUME NEW r \in Request, CreateRegister(r) PROVE TypeOK'
    BY <1>10 DEF CreateRegister, CreateTo, table, logVars, createVars, runVars, clock, env
  <1>11. ASSUME NEW r \in Request, Leave(r) PROVE TypeOK'
    BY <1>11 DEF Leave, table, logVars, createVars, runVars, clock, env
  <1>12. ASSUME NEW r \in Request, FollowBuild(r) PROVE TypeOK'
    BY <1>12 DEF FollowBuild, RunTo, table, logVars, createVars, runVars, clock, env
  <1>13. ASSUME NEW r \in Request, MarkStarting(r) PROVE TypeOK'
    BY <1>13 DEF MarkStarting, RunTo, SetStatus, table, logVars, createVars, runVars, clock, env
  <1>14. ASSUME NEW r \in Request, Restore(r) PROVE TypeOK'
    <2>1. box' \in [Request -> {"none", "up", "left", "gone"}]
      BY <1>14 DEF Restore
    <2>2. rebuilt' \in [Request -> BOOLEAN]
      BY <1>14 DEF Restore
    <2>3. rpc' \in [Request -> {"idle"} \cup Waiting \cup Settled]
      BY <1>14 DEF Restore, RunTo
    <2> QED
      BY <1>14, <2>1, <2>2, <2>3 DEF Restore, table, logVars, createVars, clock, env
  <1>15. ASSUME NEW r \in Request, RecordBox(r) PROVE TypeOK'
    BY <1>15 DEF RecordBox, RunTo, SetStatus, table, logVars, createVars, runVars, clock, env
  <1>16. ASSUME NEW r \in Request, WaitReady(r) PROVE TypeOK'
    BY <1>16 DEF WaitReady, RunTo, table, logVars, createVars, runVars, clock, env
  <1>17. ASSUME NEW r \in Request, GoLive(r) PROVE TypeOK'
    BY <1>17 DEF GoLive, RunTo, SetStatus, table, logVars, createVars, runVars, clock, env
  <1>18. ASSUME NEW r \in Request, RunLoses(r) PROVE TypeOK'
    BY <1>18 DEF RunLoses, AfterWrite, RunTo, table, logVars, createVars, runVars, clock, env
  <1>19. ASSUME NEW r \in Request, Watch(r) PROVE TypeOK'
    <2>1. box' \in [Request -> {"none", "up", "left", "gone"}]
      BY <1>19 DEF Watch, DeleteAtExpiry
    <2>2. rpc' \in [Request -> {"idle"} \cup Waiting \cup Settled]
      BY <1>19 DEF Watch, RunTo
    <2> QED
      BY <1>19, <2>1, <2>2 DEF Watch, table, logVars, createVars, env
  <1>20. ASSUME NEW r \in Request, EndCheck(r) PROVE TypeOK'
    <2>1. /\ waited' \in [Request -> Nat] /\ lived' \in [Request -> Nat]
          /\ left' \in [Request -> Int \cup {None}] /\ rebuilt' \in [Request -> BOOLEAN]
      <3>1. CASE status[r] = "live"
        BY <1>20, <3>1 DEF EndCheck, StopUnlessLive
      <3>2. CASE status[r] # "live"
        <4>1. StopClocks(r)
          BY <1>20, <3>2 DEF EndCheck, StopUnlessLive
        <4>2. waited' \in [Request -> Nat] /\ lived' \in [Request -> Nat]
          BY <4>1 DEF StopClocks
        <4>3. left' \in [Request -> Int \cup {None}]
          BY <4>1 DEF StopClocks
        <4>4. rebuilt' \in [Request -> BOOLEAN]
          BY <4>1 DEF StopClocks
        <4> QED
          BY <4>2, <4>3, <4>4
      <3> QED
        BY <3>1, <3>2
    <2>2. rpc' \in [Request -> {"idle"} \cup Waiting \cup Settled]
      BY <1>20 DEF EndCheck, RunTo
    <2>3. done' \in [Request -> BOOLEAN]
      BY <1>20 DEF EndCheck
    <2> QED
      BY <1>20, <2>1, <2>2, <2>3 DEF EndCheck, createVars, env
  <1>21. ASSUME NEW r \in Request, EndWrite(r) PROVE TypeOK'
    BY <1>21 DEF EndWrite, RunTo, SetStatus, StopClocks, CutShort, table, logVars, createVars, runVars,
       clock, env
  <1>22. ASSUME NEW r \in Request, EndTell(r) PROVE TypeOK'
    BY <1>22 DEF EndTell, EmitEnded, RunTo, table, logVars, createVars, runVars, clock, env
  <1>23. ASSUME NEW r \in Request, EndDrop(r) PROVE TypeOK'
    BY <1>23 DEF EndDrop, RunTo, table, logVars, createVars, runVars, clock, env
  <1>24. ASSUME NEW r \in Request, ExtendRead(r) PROVE TypeOK'
    BY <1>24 DEF ExtendRead, table, logVars, createVars, runVars, clock, env
  <1>25. ASSUME NEW r \in Request, ExtendKeepalive(r) PROVE TypeOK'
    BY <1>25 DEF ExtendKeepalive, table, logVars, createVars, runVars, clock, env
  <1>26. ASSUME NEW r \in Request, ExtendWrite(r) PROVE TypeOK'
    BY <1>26 DEF ExtendWrite, SetStatus, ExtendedTo, Smaller, Age, table, logVars, createVars, runVars,
       clock, env
  <1>27. ASSUME NEW r \in Request, Reclaim(r) PROVE TypeOK'
    BY <1>27 DEF Reclaim, table, logVars, createVars, runVars, clock, env
  <1>28. ASSUME Tick PROVE TypeOK'
    BY <1>28 DEF Tick, Running, Smaller, table, logVars, createVars, runVars, clock, env
  <1>29. ASSUME Crash PROVE TypeOK'
    BY <1>29 DEF Crash, Running, table, logVars, createVars, runVars, clock, env
  <1> QED
    BY <1>0, <1>1, <1>2, <1>3, <1>4, <1>5, <1>6, <1>7, <1>8, <1>9, <1>10, <1>11, <1>12, <1>13,
       <1>14, <1>15, <1>16, <1>17, <1>18, <1>19, <1>20, <1>21, <1>22, <1>23, <1>24, <1>25,
       <1>26, <1>27, <1>28, <1>29
       DEF Next, Call, Continue, Create, Run, Extend

(* What a step may not undo: run does not come back to writing the record, *)
(* a record appears by its own insert only, who made it does not change,   *)
(* what is excused stays so, and only run while it prepares the session or *)
(* Extend brings an ended record back.                                     *)
Onwards(s) ==
    /\ rpc[s] \in Settled => rpc'[s] \in Settled
    /\ status[s] = "none" => status'[s] = "none" \/ CreateInsert(s)
    /\ status[s] # "none" => status'[s] # "none" /\ device'[s] = device[s]
    /\ status[s] = "ended" /\ status'[s] # "ended" => rpc[s] \in Waiting \/ xpc[s] = "write"
    /\ extended'[s] /\ ~extended[s] => ExtendWrite(s)
    /\ excused \subseteq excused'

LEMMA Onward ==
    ASSUME SessionInv, Next, NEW s \in Request
    PROVE  Onwards(s)
  <1>a. Course(s) /\ Clock(s)
    BY DEF SessionInv
  <1>b. TypeOK
    BY DEF SessionInv
  <1>c. ASSUME NEW r \in Request PROVE Calls(r) /\ Course(r)
    BY DEF SessionInv
  <1> USE <1>a, <1>b DEF Onwards, TypeOK, Course, Settled, Ending, Waiting
  <1>1. ASSUME NEW r \in Request, NEW e \in Device, NEW i \in IP, CreateCount(r, e, i) PROVE Onwards(s)
    BY <1>1 DEF CreateCount, CreateTo, table, logVars, createVars, runVars, clock, env
  <1>2. ASSUME NEW r \in Request, CreateList(r) PROVE Onwards(s)
    BY <1>2 DEF CreateList, CreateTo, table, logVars, createVars, runVars, clock, env
  <1>3. ASSUME NEW r \in Request, NEW v \in Request, TerminateBox(r, v) PROVE Onwards(s)
    BY <1>3 DEF TerminateBox, CreateTo, table, logVars, createVars, runVars, clock, env
  <1>4. ASSUME NEW r \in Request, TerminateRecord(r) PROVE Onwards(s)
    <2>1. victim[r] \in Request /\ status[victim[r]] # "none"
      BY <1>4, <1>c DEF TerminateRecord, Calls
    <2> QED
      BY <1>4, <2>1 DEF TerminateRecord, CreateTo, SetStatus, logVars, runVars, clock, env
  <1>5. ASSUME NEW r \in Request, TerminateLoses(r) PROVE Onwards(s)
    BY <1>5 DEF TerminateLoses, CreateTo, table, logVars, createVars, runVars, clock, env
  <1>6. ASSUME NEW r \in Request, TerminateTell(r) PROVE Onwards(s)
    BY <1>6 DEF TerminateTell, EmitEnded, CreateTo, table, logVars, createVars, runVars, clock, env
  <1>7. ASSUME NEW r \in Request, CreateAdmit(r) PROVE Onwards(s)
    BY <1>7 DEF CreateAdmit, CreateTo, table, logVars, createVars, runVars, clock, env
  <1>8. ASSUME NEW r \in Request, CreateInsert(r) PROVE Onwards(s)
    BY <1>8 DEF CreateInsert, CreateTo, SetStatus, table, logVars, createVars, runVars, clock, env
  <1>9. ASSUME NEW r \in Request, CreateGivesUp(r) PROVE Onwards(s)
    BY <1>9 DEF CreateGivesUp, CreateTo, table, logVars, createVars, runVars, clock, env
  <1>10. ASSUME NEW r \in Request, CreateRegister(r) PROVE Onwards(s)
    BY <1>10 DEF CreateRegister, CreateTo, table, logVars, createVars, runVars, clock, env
  <1>11. ASSUME NEW r \in Request, Leave(r) PROVE Onwards(s)
    BY <1>11 DEF Leave, table, logVars, createVars, runVars, clock, env
  <1>12. ASSUME NEW r \in Request, FollowBuild(r) PROVE Onwards(s)
    BY <1>12 DEF FollowBuild, RunTo, table, logVars, createVars, runVars, clock, env
  <1>13. ASSUME NEW r \in Request, MarkStarting(r) PROVE Onwards(s)
    <2>1. status[r] # "none"
      BY <1>13, <1>c DEF MarkStarting
    <2> QED
      BY <1>13, <2>1 DEF MarkStarting, RunTo, SetStatus, logVars, createVars, runVars, clock, env
  <1>14. ASSUME NEW r \in Request, Restore(r) PROVE Onwards(s)
    BY <1>14 DEF Restore, RunTo, table, logVars, createVars, runVars, clock, env
  <1>15. ASSUME NEW r \in Request, RecordBox(r) PROVE Onwards(s)
    <2>1. status[r] # "none"
      BY <1>15, <1>c DEF RecordBox
    <2> QED
      BY <1>15, <2>1 DEF RecordBox, RunTo, SetStatus, logVars, createVars, runVars, clock, env
  <1>16. ASSUME NEW r \in Request, WaitReady(r) PROVE Onwards(s)
    BY <1>16 DEF WaitReady, RunTo, table, logVars, createVars, runVars, clock, env
  <1>17. ASSUME NEW r \in Request, GoLive(r) PROVE Onwards(s)
    <2>1. status[r] # "none"
      BY <1>17, <1>c DEF GoLive
    <2> QED
      BY <1>17, <2>1 DEF GoLive, RunTo, SetStatus, logVars, createVars, runVars, clock, env
  <1>18. ASSUME NEW r \in Request, RunLoses(r) PROVE Onwards(s)
    BY <1>18 DEF RunLoses, AfterWrite, RunTo, table, logVars, createVars, runVars, clock, env
  <1>19. ASSUME NEW r \in Request, Watch(r) PROVE Onwards(s)
    BY <1>19 DEF Watch, DeleteAtExpiry, RunTo, table, logVars, createVars, runVars, clock, env
  <1>20. ASSUME NEW r \in Request, EndCheck(r) PROVE Onwards(s)
    BY <1>20 DEF EndCheck, RunTo, StopUnlessLive, StopClocks, table, logVars, createVars, runVars, clock,
       env
  <1>21. ASSUME NEW r \in Request, EndWrite(r) PROVE Onwards(s)
    <2>1. status[r] # "none"
      BY <1>21, <1>c DEF EndWrite
    <2> QED
      BY <1>21, <2>1 DEF EndWrite, RunTo, SetStatus, StopClocks, logVars, createVars, runVars, clock, env
  <1>22. ASSUME NEW r \in Request, EndTell(r) PROVE Onwards(s)
    BY <1>22 DEF EndTell, EmitEnded, RunTo, table, logVars, createVars, runVars, clock, env
  <1>23. ASSUME NEW r \in Request, EndDrop(r) PROVE Onwards(s)
    BY <1>23 DEF EndDrop, RunTo, table, logVars, createVars, runVars, clock, env
  <1>24. ASSUME NEW r \in Request, ExtendRead(r) PROVE Onwards(s)
    BY <1>24 DEF ExtendRead, table, logVars, createVars, runVars, clock, env
  <1>25. ASSUME NEW r \in Request, ExtendKeepalive(r) PROVE Onwards(s)
    BY <1>25 DEF ExtendKeepalive, table, logVars, createVars, runVars, clock, env
  <1>26. ASSUME NEW r \in Request, ExtendWrite(r) PROVE Onwards(s)
    <2>1. status[r] # "none"
      BY <1>26, <1>c DEF ExtendWrite
    <2> QED
      BY <1>26, <2>1 DEF ExtendWrite, SetStatus, logVars, createVars, runVars, clock, env
  <1>27. ASSUME NEW r \in Request, Reclaim(r) PROVE Onwards(s)
    BY <1>27 DEF Reclaim, table, logVars, createVars, runVars, clock, env
  <1>28. ASSUME Tick PROVE Onwards(s)
    BY <1>28 DEF Tick, Running, Smaller, table, logVars, createVars, runVars, clock, env
  <1>29. ASSUME Crash PROVE Onwards(s)
    BY <1>29 DEF Crash, Running, table, logVars, createVars, runVars, clock, env
  <1> QED
    BY <1>1, <1>2, <1>3, <1>4, <1>5, <1>6, <1>7, <1>8, <1>9, <1>10, <1>11, <1>12, <1>13, <1>14,
       <1>15, <1>16, <1>17, <1>18, <1>19, <1>20, <1>21, <1>22, <1>23, <1>24, <1>25, <1>26,
       <1>27, <1>28, <1>29
       DEF Next, Call, Continue, Create, Run, Extend

(* Course is kept.                                                         *)
LEMMA CourseKept ==
    ASSUME SessionInv, Next, NEW s \in Request
    PROVE  Course(s)'
  <1>a. Course(s)
    BY DEF SessionInv
  <1>b. TypeOK
    BY DEF SessionInv
  <1>c. ASSUME NEW r \in Request PROVE Calls(r) /\ Course(r)
    BY DEF SessionInv
  <1> USE <1>a, <1>b DEF TypeOK, Course, Settled, Ending, Waiting
  <1>1. ASSUME NEW r \in Request, NEW e \in Device, NEW i \in IP, CreateCount(r, e, i) PROVE Course(s)'
    BY <1>1 DEF CreateCount, CreateTo, table, logVars, createVars, runVars, clock, env
  <1>2. ASSUME NEW r \in Request, CreateList(r) PROVE Course(s)'
    BY <1>2 DEF CreateList, CreateTo, OfDevice, LiveRows, table, logVars, createVars, runVars, clock, env
  <1>3. ASSUME NEW r \in Request, NEW v \in Request, TerminateBox(r, v) PROVE Course(s)'
    BY <1>3 DEF TerminateBox, CreateTo, table, logVars, createVars, runVars, clock, env
  <1>4. ASSUME NEW r \in Request, TerminateRecord(r) PROVE Course(s)'
    <2>1. victim[r] \in excused
      BY <1>4, <1>c DEF TerminateRecord, Calls
    <2>2. victim[r] \in Request /\ Course(victim[r])
      BY <2>1, <1>c
    <2> QED
      BY <1>4, <2>1, <2>2 DEF TerminateRecord, CreateTo, SetStatus, CutShort, logVars, runVars, clock, env
  <1>5. ASSUME NEW r \in Request, TerminateLoses(r) PROVE Course(s)'
    BY <1>5 DEF TerminateLoses, CreateTo, table, logVars, createVars, runVars, clock, env
  <1>6. ASSUME NEW r \in Request, TerminateTell(r) PROVE Course(s)'
    BY <1>6 DEF TerminateTell, EmitEnded, CreateTo, table, logVars, createVars, runVars, clock, env
  <1>7. ASSUME NEW r \in Request, CreateAdmit(r) PROVE Course(s)'
    BY <1>7 DEF CreateAdmit, CreateTo, table, logVars, createVars, runVars, clock, env
  <1>8. ASSUME NEW r \in Request, CreateInsert(r) PROVE Course(s)'
    BY <1>8 DEF CreateInsert, CreateTo, SetStatus, table, logVars, createVars, runVars, clock, env
  <1>9. ASSUME NEW r \in Request, CreateGivesUp(r) PROVE Course(s)'
    BY <1>9 DEF CreateGivesUp, CreateTo, table, logVars, createVars, runVars, clock, env
  <1>10. ASSUME NEW r \in Request, CreateRegister(r) PROVE Course(s)'
    BY <1>10 DEF CreateRegister, CreateTo, table, logVars, createVars, runVars, clock, env
  <1>11. ASSUME NEW r \in Request, Leave(r) PROVE Course(s)'
    BY <1>11 DEF Leave, table, logVars, createVars, runVars, clock, env
  <1>12. ASSUME NEW r \in Request, FollowBuild(r) PROVE Course(s)'
    BY <1>12 DEF FollowBuild, RunTo, table, logVars, createVars, runVars, clock, env
  <1>13. ASSUME NEW r \in Request, MarkStarting(r) PROVE Course(s)'
    BY <1>13 DEF MarkStarting, RunTo, SetStatus, table, logVars, createVars, runVars, clock, env
  <1>14. ASSUME NEW r \in Request, Restore(r) PROVE Course(s)'
    BY <1>14 DEF Restore, RunTo, table, logVars, createVars, runVars, clock, env
  <1>15. ASSUME NEW r \in Request, RecordBox(r) PROVE Course(s)'
    BY <1>15 DEF RecordBox, RunTo, SetStatus, table, logVars, createVars, runVars, clock, env
  <1>16. ASSUME NEW r \in Request, WaitReady(r) PROVE Course(s)'
    BY <1>16 DEF WaitReady, RunTo, table, logVars, createVars, runVars, clock, env
  <1>17. ASSUME NEW r \in Request, GoLive(r) PROVE Course(s)'
    BY <1>17 DEF GoLive, RunTo, SetStatus, table, logVars, createVars, runVars, clock, env
  <1>18. ASSUME NEW r \in Request, RunLoses(r) PROVE Course(s)'
    BY <1>18 DEF RunLoses, AfterWrite, RunTo, table, logVars, createVars, runVars, clock, env
  <1>19. ASSUME NEW r \in Request, Watch(r) PROVE Course(s)'
    BY <1>19 DEF Watch, DeleteAtExpiry, RunTo, table, logVars, createVars, runVars, clock, env
  <1>20. ASSUME NEW r \in Request, EndCheck(r) PROVE Course(s)'
    BY <1>20 DEF EndCheck, RunTo, StopUnlessLive, StopClocks, table, logVars, createVars, runVars, clock,
       env
  <1>21. ASSUME NEW r \in Request, EndWrite(r) PROVE Course(s)'
    BY <1>21 DEF EndWrite, RunTo, SetStatus, StopClocks, CutShort, table, logVars, createVars, runVars,
       clock, env
  <1>22. ASSUME NEW r \in Request, EndTell(r) PROVE Course(s)'
    BY <1>22 DEF EndTell, EmitEnded, RunTo, table, logVars, createVars, runVars, clock, env
  <1>23. ASSUME NEW r \in Request, EndDrop(r) PROVE Course(s)'
    BY <1>23 DEF EndDrop, RunTo, table, logVars, createVars, runVars, clock, env
  <1>24. ASSUME NEW r \in Request, ExtendRead(r) PROVE Course(s)'
    BY <1>24 DEF ExtendRead, table, logVars, createVars, runVars, clock, env
  <1>25. ASSUME NEW r \in Request, ExtendKeepalive(r) PROVE Course(s)'
    BY <1>25 DEF ExtendKeepalive, table, logVars, createVars, runVars, clock, env
  <1>26. ASSUME NEW r \in Request, ExtendWrite(r) PROVE Course(s)'
    BY <1>26, <1>c DEF ExtendWrite, SetStatus, ExtendedTo, Smaller, Age, table, logVars, createVars, runVars,
       clock, env
  <1>27. ASSUME NEW r \in Request, Reclaim(r) PROVE Course(s)'
    BY <1>27 DEF Reclaim, table, logVars, createVars, runVars, clock, env
  <1>28. ASSUME Tick PROVE Course(s)'
    BY <1>28 DEF Tick, Running, Smaller, table, logVars, createVars, runVars, clock, env
  <1>29. ASSUME Crash PROVE Course(s)'
    <2>1. /\ UNCHANGED <<status, excused>> /\ xpc'[s] = "idle"
          /\ cpc'[s] = IF cpc[s] = "idle" THEN "idle" ELSE "over"
          /\ rpc'[s] = rpc[s] \/ (rpc'[s] = "dead" /\ cpc'[s] = "over")
          /\ rpc[s] \in Waiting \cup {"watch"} \cup Ending \/ cpc[s] = "register" => rpc'[s] = "dead"
          /\ rpc'[s] # rpc[s] => status[s] # "none"
          /\ s \notin live'
      BY <1>29 DEF Crash, Running, table
    <2> QED
      BY <2>1
  <1> QED
    BY <1>1, <1>2, <1>3, <1>4, <1>5, <1>6, <1>7, <1>8, <1>9, <1>10, <1>11, <1>12, <1>13, <1>14,
       <1>15, <1>16, <1>17, <1>18, <1>19, <1>20, <1>21, <1>22, <1>23, <1>24, <1>25, <1>26,
       <1>27, <1>28, <1>29
       DEF Next, Call, Continue, Create, Run, Extend

(* Calls is kept.                                                          *)
LEMMA CallsKept ==
    ASSUME SessionInv, Next, NEW q \in Request
    PROVE  Calls(q)'
  <1>a. Calls(q)
    BY DEF SessionInv
  <1>b. TypeOK
    BY DEF SessionInv
  <1> USE <1>a, <1>b DEF TypeOK, Calls
  <1>1. ASSUME NEW r \in Request, NEW e \in Device, NEW i \in IP, CreateCount(r, e, i) PROVE Calls(q)'
    BY <1>1 DEF CreateCount, CreateTo, table, logVars, createVars, runVars, clock, env
  <1>2. ASSUME NEW r \in Request, CreateList(r) PROVE Calls(q)'
    BY <1>2 DEF CreateList, CreateTo, OfDevice, LiveRows, table, logVars, createVars, runVars, clock, env
  <1>3. ASSUME NEW r \in Request, NEW v \in Request, TerminateBox(r, v) PROVE Calls(q)'
    BY <1>3 DEF TerminateBox, CreateTo, table, logVars, createVars, runVars, clock, env
  <1>4. ASSUME NEW r \in Request, TerminateRecord(r) PROVE Calls(q)'
    BY <1>4 DEF TerminateRecord, CreateTo, SetStatus, CutShort, table, logVars, createVars, runVars,
       clock, env
  <1>5. ASSUME NEW r \in Request, TerminateLoses(r) PROVE Calls(q)'
    BY <1>5 DEF TerminateLoses, CreateTo, table, logVars, createVars, runVars, clock, env
  <1>6. ASSUME NEW r \in Request, TerminateTell(r) PROVE Calls(q)'
    BY <1>6 DEF TerminateTell, EmitEnded, CreateTo, table, logVars, createVars, runVars, clock, env
  <1>7. ASSUME NEW r \in Request, CreateAdmit(r) PROVE Calls(q)'
    BY <1>7 DEF CreateAdmit, CreateTo, table, logVars, createVars, runVars, clock, env
  <1>8. ASSUME NEW r \in Request, CreateInsert(r) PROVE Calls(q)'
    BY <1>8 DEF CreateInsert, CreateTo, SetStatus, table, logVars, createVars, runVars, clock, env
  <1>9. ASSUME NEW r \in Request, CreateGivesUp(r) PROVE Calls(q)'
    BY <1>9 DEF CreateGivesUp, CreateTo, table, logVars, createVars, runVars, clock, env
  <1>10. ASSUME NEW r \in Request, CreateRegister(r) PROVE Calls(q)'
    BY <1>10 DEF CreateRegister, CreateTo, table, logVars, createVars, runVars, clock, env
  <1>11. ASSUME NEW r \in Request, Leave(r) PROVE Calls(q)'
    BY <1>11 DEF Leave, table, logVars, createVars, runVars, clock, env
  <1>12. ASSUME NEW r \in Request, FollowBuild(r) PROVE Calls(q)'
    BY <1>12 DEF FollowBuild, RunTo, table, logVars, createVars, runVars, clock, env
  <1>13. ASSUME NEW r \in Request, MarkStarting(r) PROVE Calls(q)'
    BY <1>13 DEF MarkStarting, RunTo, SetStatus, table, logVars, createVars, runVars, clock, env
  <1>14. ASSUME NEW r \in Request, Restore(r) PROVE Calls(q)'
    BY <1>14 DEF Restore, RunTo, table, logVars, createVars, runVars, clock, env
  <1>15. ASSUME NEW r \in Request, RecordBox(r) PROVE Calls(q)'
    BY <1>15 DEF RecordBox, RunTo, SetStatus, table, logVars, createVars, runVars, clock, env
  <1>16. ASSUME NEW r \in Request, WaitReady(r) PROVE Calls(q)'
    BY <1>16 DEF WaitReady, RunTo, table, logVars, createVars, runVars, clock, env
  <1>17. ASSUME NEW r \in Request, GoLive(r) PROVE Calls(q)'
    BY <1>17 DEF GoLive, RunTo, SetStatus, table, logVars, createVars, runVars, clock, env
  <1>18. ASSUME NEW r \in Request, RunLoses(r) PROVE Calls(q)'
    BY <1>18 DEF RunLoses, AfterWrite, RunTo, table, logVars, createVars, runVars, clock, env
  <1>19. ASSUME NEW r \in Request, Watch(r) PROVE Calls(q)'
    BY <1>19 DEF Watch, DeleteAtExpiry, RunTo, table, logVars, createVars, runVars, clock, env
  <1>20. ASSUME NEW r \in Request, EndCheck(r) PROVE Calls(q)'
    BY <1>20 DEF EndCheck, RunTo, StopUnlessLive, StopClocks, table, logVars, createVars, runVars, clock,
       env
  <1>21. ASSUME NEW r \in Request, EndWrite(r) PROVE Calls(q)'
    BY <1>21 DEF EndWrite, RunTo, SetStatus, StopClocks, CutShort, table, logVars, createVars, runVars,
       clock, env
  <1>22. ASSUME NEW r \in Request, EndTell(r) PROVE Calls(q)'
    BY <1>22 DEF EndTell, EmitEnded, RunTo, table, logVars, createVars, runVars, clock, env
  <1>23. ASSUME NEW r \in Request, EndDrop(r) PROVE Calls(q)'
    BY <1>23 DEF EndDrop, RunTo, table, logVars, createVars, runVars, clock, env
  <1>24. ASSUME NEW r \in Request, ExtendRead(r) PROVE Calls(q)'
    BY <1>24 DEF ExtendRead, table, logVars, createVars, runVars, clock, env
  <1>25. ASSUME NEW r \in Request, ExtendKeepalive(r) PROVE Calls(q)'
    BY <1>25 DEF ExtendKeepalive, table, logVars, createVars, runVars, clock, env
  <1>26. ASSUME NEW r \in Request, ExtendWrite(r) PROVE Calls(q)'
    BY <1>26 DEF ExtendWrite, SetStatus, ExtendedTo, Smaller, Age, table, logVars, createVars, runVars,
       clock, env
  <1>27. ASSUME NEW r \in Request, Reclaim(r) PROVE Calls(q)'
    BY <1>27 DEF Reclaim, table, logVars, createVars, runVars, clock, env
  <1>28. ASSUME Tick PROVE Calls(q)'
    BY <1>28 DEF Tick, Running, Smaller, table, logVars, createVars, runVars, clock, env
  <1>29. ASSUME Crash PROVE Calls(q)'
    BY <1>29 DEF Crash, Running, table, logVars, createVars, runVars, clock, env
  <1> QED
    BY <1>1, <1>2, <1>3, <1>4, <1>5, <1>6, <1>7, <1>8, <1>9, <1>10, <1>11, <1>12, <1>13, <1>14,
       <1>15, <1>16, <1>17, <1>18, <1>19, <1>20, <1>21, <1>22, <1>23, <1>24, <1>25, <1>26,
       <1>27, <1>28, <1>29
       DEF Next, Call, Continue, Create, Run, Extend

(* The clocks are kept.                                                    *)
LEMMA ClockKept ==
    ASSUME SessionInv, Next, NEW s \in Request
    PROVE  Clock(s)'
  <1>a. Clock(s) /\ Course(s)
    BY DEF SessionInv
  <1>b. TypeOK
    BY DEF SessionInv
  <1>c. ASSUME NEW r \in Request PROVE Calls(r) /\ Course(r)
    BY DEF SessionInv
  <1> USE <1>a, <1>b, SessionAssumption
      DEF TypeOK, Clock, Course, Allowed, Settled, Ending, Waiting
  <1>1. ASSUME NEW r \in Request, NEW e \in Device, NEW i \in IP, CreateCount(r, e, i) PROVE Clock(s)'
    BY <1>1 DEF CreateCount, CreateTo, table, logVars, createVars, runVars, clock, env
  <1>2. ASSUME NEW r \in Request, CreateList(r) PROVE Clock(s)'
    BY <1>2 DEF CreateList, CreateTo, table, logVars, createVars, runVars, clock, env
  <1>3. ASSUME NEW r \in Request, NEW v \in Request, TerminateBox(r, v) PROVE Clock(s)'
    BY <1>3 DEF TerminateBox, CreateTo, table, logVars, createVars, runVars, clock, env
  <1>4. ASSUME NEW r \in Request, TerminateRecord(r) PROVE Clock(s)'
    BY <1>4, <1>c DEF TerminateRecord, CreateTo, SetStatus, CutShort, Calls, table, logVars, createVars,
       runVars, clock, env
  <1>5. ASSUME NEW r \in Request, TerminateLoses(r) PROVE Clock(s)'
    BY <1>5 DEF TerminateLoses, CreateTo, table, logVars, createVars, runVars, clock, env
  <1>6. ASSUME NEW r \in Request, TerminateTell(r) PROVE Clock(s)'
    BY <1>6 DEF TerminateTell, EmitEnded, CreateTo, table, logVars, createVars, runVars, clock, env
  <1>7. ASSUME NEW r \in Request, CreateAdmit(r) PROVE Clock(s)'
    BY <1>7 DEF CreateAdmit, CreateTo, table, logVars, createVars, runVars, clock, env
  <1>8. ASSUME NEW r \in Request, CreateInsert(r) PROVE Clock(s)'
    BY <1>8 DEF CreateInsert, CreateTo, SetStatus, table, logVars, createVars, runVars, clock, env
  <1>9. ASSUME NEW r \in Request, CreateGivesUp(r) PROVE Clock(s)'
    BY <1>9 DEF CreateGivesUp, CreateTo, table, logVars, createVars, runVars, clock, env
  <1>10. ASSUME NEW r \in Request, CreateRegister(r) PROVE Clock(s)'
    BY <1>10 DEF CreateRegister, CreateTo, table, logVars, createVars, runVars, clock, env
  <1>11. ASSUME NEW r \in Request, Leave(r) PROVE Clock(s)'
    BY <1>11 DEF Leave, table, logVars, createVars, runVars, clock, env
  <1>12. ASSUME NEW r \in Request, FollowBuild(r) PROVE Clock(s)'
    BY <1>12 DEF FollowBuild, RunTo, table, logVars, createVars, runVars, clock, env
  <1>13. ASSUME NEW r \in Request, MarkStarting(r) PROVE Clock(s)'
    BY <1>13 DEF MarkStarting, RunTo, SetStatus, table, logVars, createVars, runVars, clock, env
  <1>14. ASSUME NEW r \in Request, Restore(r) PROVE Clock(s)'
    BY <1>14 DEF Restore, RunTo, table, logVars, createVars, runVars, clock, env
  <1>15. ASSUME NEW r \in Request, RecordBox(r) PROVE Clock(s)'
    BY <1>15 DEF RecordBox, RunTo, SetStatus, table, logVars, createVars, runVars, clock, env
  <1>16. ASSUME NEW r \in Request, WaitReady(r) PROVE Clock(s)'
    BY <1>16 DEF WaitReady, RunTo, table, logVars, createVars, runVars, clock, env
  <1>17. ASSUME NEW r \in Request, GoLive(r) PROVE Clock(s)'
    BY <1>17 DEF GoLive, RunTo, SetStatus, table, logVars, createVars, runVars, clock, env
  <1>18. ASSUME NEW r \in Request, RunLoses(r) PROVE Clock(s)'
    BY <1>18 DEF RunLoses, AfterWrite, RunTo, table, logVars, createVars, runVars, clock, env
  <1>19. ASSUME NEW r \in Request, Watch(r) PROVE Clock(s)'
    BY <1>19 DEF Watch, DeleteAtExpiry, RunTo, Expired, table, logVars, createVars, runVars, clock, env
  <1>20. ASSUME NEW r \in Request, EndCheck(r) PROVE Clock(s)'
    BY <1>20 DEF EndCheck, RunTo, StopUnlessLive, StopClocks, table, logVars, createVars, runVars, clock,
       env
  <1>21. ASSUME NEW r \in Request, EndWrite(r) PROVE Clock(s)'
    BY <1>21 DEF EndWrite, RunTo, SetStatus, StopClocks, CutShort, table, logVars, createVars, runVars,
       clock, env
  <1>22. ASSUME NEW r \in Request, EndTell(r) PROVE Clock(s)'
    BY <1>22 DEF EndTell, EmitEnded, RunTo, table, logVars, createVars, runVars, clock, env
  <1>23. ASSUME NEW r \in Request, EndDrop(r) PROVE Clock(s)'
    BY <1>23 DEF EndDrop, RunTo, table, logVars, createVars, runVars, clock, env
  <1>24. ASSUME NEW r \in Request, ExtendRead(r) PROVE Clock(s)'
    BY <1>24 DEF ExtendRead, table, logVars, createVars, runVars, clock, env
  <1>25. ASSUME NEW r \in Request, ExtendKeepalive(r) PROVE Clock(s)'
    BY <1>25 DEF ExtendKeepalive, table, logVars, createVars, runVars, clock, env
  <1>26. ASSUME NEW r \in Request, ExtendWrite(r) PROVE Clock(s)'
    BY <1>26, <1>c DEF ExtendWrite, SetStatus, ExtendedTo, Smaller, Age, table, logVars, createVars, runVars,
       clock, env
  <1>27. ASSUME NEW r \in Request, Reclaim(r) PROVE Clock(s)'
    BY <1>27 DEF Reclaim, table, logVars, createVars, runVars, clock, env
  <1>28. ASSUME Tick PROVE Clock(s)'
    BY <1>28 DEF Tick, Running, Smaller, table, logVars, createVars, runVars, clock, env
  <1>29. ASSUME Crash PROVE Clock(s)'
    BY <1>29 DEF Crash, Running, table, logVars, createVars, runVars, clock, env
  <1> QED
    BY <1>1, <1>2, <1>3, <1>4, <1>5, <1>6, <1>7, <1>8, <1>9, <1>10, <1>11, <1>12, <1>13, <1>14,
       <1>15, <1>16, <1>17, <1>18, <1>19, <1>20, <1>21, <1>22, <1>23, <1>24, <1>25, <1>26,
       <1>27, <1>28, <1>29
       DEF Next, Call, Continue, Create, Run, Extend

(* Where a call of Create is, as far as Room asks: it is in Create because *)
(* it was or is counted in, and it may add a session because it might have *)
(* before, was admitted by the count, or has listed what it replaces.      *)
Adding == Terminating \cup {"admit", "insert"}

Moves(q) ==
    /\ InCreate(q)' => InCreate(q) \/ \E e \in Device, i \in IP : CreateCount(q, e, i)
    /\ cpc[q] # "idle" => device'[q] = device[q] /\ cpc'[q] # "idle"
    /\ cpc'[q] \in Adding =>
        \/ cpc[q] \in Adding
        \/ CreateList(q)
        \/ \E e \in Device, i \in IP : CreateCount(q, e, i)

LEMMA Moved ==
    ASSUME SessionInv, Next, NEW q \in Request
    PROVE  Moves(q)
  <1>b. TypeOK
    BY DEF SessionInv
  <1> USE <1>b DEF TypeOK, Moves, InCreate, Adding, Terminating
  <1>1. ASSUME NEW r \in Request, NEW e \in Device, NEW i \in IP, CreateCount(r, e, i) PROVE Moves(q)
    <2>1. CASE r = q
      BY <1>1, <2>1 DEF CreateCount
    <2>2. CASE r # q
      BY <1>1, <2>2 DEF CreateCount, CreateTo
    <2> QED
      BY <2>1, <2>2
  <1>2. ASSUME NEW r \in Request, CreateList(r) PROVE Moves(q)
    BY <1>2 DEF CreateList, CreateTo, table, logVars, createVars, runVars, clock, env
  <1>3. ASSUME NEW r \in Request, NEW v \in Request, TerminateBox(r, v) PROVE Moves(q)
    BY <1>3 DEF TerminateBox, CreateTo, table, logVars, createVars, runVars, clock, env
  <1>4. ASSUME NEW r \in Request, TerminateRecord(r) PROVE Moves(q)
    BY <1>4 DEF TerminateRecord, CreateTo, SetStatus, CutShort, table, logVars, createVars, runVars,
       clock, env
  <1>5. ASSUME NEW r \in Request, TerminateLoses(r) PROVE Moves(q)
    BY <1>5 DEF TerminateLoses, CreateTo, table, logVars, createVars, runVars, clock, env
  <1>6. ASSUME NEW r \in Request, TerminateTell(r) PROVE Moves(q)
    BY <1>6 DEF TerminateTell, EmitEnded, CreateTo, table, logVars, createVars, runVars, clock, env
  <1>7. ASSUME NEW r \in Request, CreateAdmit(r) PROVE Moves(q)
    BY <1>7 DEF CreateAdmit, CreateTo, table, logVars, createVars, runVars, clock, env
  <1>8. ASSUME NEW r \in Request, CreateInsert(r) PROVE Moves(q)
    BY <1>8 DEF CreateInsert, CreateTo, SetStatus, table, logVars, createVars, runVars, clock, env
  <1>9. ASSUME NEW r \in Request, CreateGivesUp(r) PROVE Moves(q)
    BY <1>9 DEF CreateGivesUp, CreateTo, table, logVars, createVars, runVars, clock, env
  <1>10. ASSUME NEW r \in Request, CreateRegister(r) PROVE Moves(q)
    BY <1>10 DEF CreateRegister, CreateTo, table, logVars, createVars, runVars, clock, env
  <1>11. ASSUME NEW r \in Request, Leave(r) PROVE Moves(q)
    BY <1>11 DEF Leave, table, logVars, createVars, runVars, clock, env
  <1>12. ASSUME NEW r \in Request, FollowBuild(r) PROVE Moves(q)
    BY <1>12 DEF FollowBuild, RunTo, table, logVars, createVars, runVars, clock, env
  <1>13. ASSUME NEW r \in Request, MarkStarting(r) PROVE Moves(q)
    BY <1>13 DEF MarkStarting, RunTo, SetStatus, table, logVars, createVars, runVars, clock, env
  <1>14. ASSUME NEW r \in Request, Restore(r) PROVE Moves(q)
    BY <1>14 DEF Restore, RunTo, table, logVars, createVars, runVars, clock, env
  <1>15. ASSUME NEW r \in Request, RecordBox(r) PROVE Moves(q)
    BY <1>15 DEF RecordBox, RunTo, SetStatus, table, logVars, createVars, runVars, clock, env
  <1>16. ASSUME NEW r \in Request, WaitReady(r) PROVE Moves(q)
    BY <1>16 DEF WaitReady, RunTo, table, logVars, createVars, runVars, clock, env
  <1>17. ASSUME NEW r \in Request, GoLive(r) PROVE Moves(q)
    BY <1>17 DEF GoLive, RunTo, SetStatus, table, logVars, createVars, runVars, clock, env
  <1>18. ASSUME NEW r \in Request, RunLoses(r) PROVE Moves(q)
    BY <1>18 DEF RunLoses, AfterWrite, RunTo, table, logVars, createVars, runVars, clock, env
  <1>19. ASSUME NEW r \in Request, Watch(r) PROVE Moves(q)
    BY <1>19 DEF Watch, DeleteAtExpiry, RunTo, table, logVars, createVars, runVars, clock, env
  <1>20. ASSUME NEW r \in Request, EndCheck(r) PROVE Moves(q)
    BY <1>20 DEF EndCheck, RunTo, StopUnlessLive, StopClocks, table, logVars, createVars, runVars, clock,
       env
  <1>21. ASSUME NEW r \in Request, EndWrite(r) PROVE Moves(q)
    BY <1>21 DEF EndWrite, RunTo, SetStatus, StopClocks, CutShort, table, logVars, createVars, runVars,
       clock, env
  <1>22. ASSUME NEW r \in Request, EndTell(r) PROVE Moves(q)
    BY <1>22 DEF EndTell, EmitEnded, RunTo, table, logVars, createVars, runVars, clock, env
  <1>23. ASSUME NEW r \in Request, EndDrop(r) PROVE Moves(q)
    BY <1>23 DEF EndDrop, RunTo, table, logVars, createVars, runVars, clock, env
  <1>24. ASSUME NEW r \in Request, ExtendRead(r) PROVE Moves(q)
    BY <1>24 DEF ExtendRead, table, logVars, createVars, runVars, clock, env
  <1>25. ASSUME NEW r \in Request, ExtendKeepalive(r) PROVE Moves(q)
    BY <1>25 DEF ExtendKeepalive, table, logVars, createVars, runVars, clock, env
  <1>26. ASSUME NEW r \in Request, ExtendWrite(r) PROVE Moves(q)
    BY <1>26 DEF ExtendWrite, SetStatus, ExtendedTo, Smaller, Age, table, logVars, createVars, runVars,
       clock, env
  <1>27. ASSUME NEW r \in Request, Reclaim(r) PROVE Moves(q)
    BY <1>27 DEF Reclaim, table, logVars, createVars, runVars, clock, env
  <1>28. ASSUME Tick PROVE Moves(q)
    BY <1>28 DEF Tick, Running, Smaller, table, logVars, createVars, runVars, clock, env
  <1>29. ASSUME Crash PROVE Moves(q)
    BY <1>29 DEF Crash, Running, table, logVars, createVars, runVars, clock, env
  <1> QED
    BY <1>1, <1>2, <1>3, <1>4, <1>5, <1>6, <1>7, <1>8, <1>9, <1>10, <1>11, <1>12, <1>13, <1>14,
       <1>15, <1>16, <1>17, <1>18, <1>19, <1>20, <1>21, <1>22, <1>23, <1>24, <1>25, <1>26,
       <1>27, <1>28, <1>29
       DEF Next, Call, Continue, Create, Run, Extend

(* The sessions that count for a device are those of before, but for the   *)
(* one that is inserted.                                                   *)
LEMMA Rows ==
    ASSUME SessionInv, Next, NEW d, NEW s \in OfDevice(d)' \ excused'
    PROVE  s \in OfDevice(d) \ excused \/ (CreateInsert(s) /\ s \in Request /\ device'[s] = d)
  <1>1. s \in Request /\ status'[s] \notin {"none", "ended"} /\ device'[s] = d /\ s \notin excused'
    BY DEF OfDevice, LiveRows
  <1>2. Onwards(s) /\ Course(s)
    BY <1>1, Onward DEF SessionInv
  <1>3. s \notin excused
    BY <1>1, <1>2 DEF Onwards
  <1>4. status[s] # "ended"
    BY <1>2, <1>3 DEF Course
  <1> QED
    BY <1>1, <1>2, <1>3, <1>4 DEF OfDevice, LiveRows, Onwards

(* The calls in Create stay within Overlap.                                *)
LEMMA FewCalls ==
    ASSUME SessionInv, Next
    PROVE  Cardinality({q \in Request : InCreate(q)}') <= Overlap
  <1> DEFINE C == {q \in Request : InCreate(q)}
  <1>1. C \in SUBSET Request /\ C' \in SUBSET Request
    OBVIOUS
  <1>2. Cardinality(C) \in Nat /\ Cardinality(C') \in Nat /\ Overlap \in Nat /\ Cardinality(C) <= Overlap
    BY <1>1, Counting, SessionAssumption DEF SessionInv, Room
  <1>3. CASE C' \subseteq C
    BY <1>1, <1>2, <1>3, Fewer
  <1>4. CASE \E q \in Request : q \in C' /\ q \notin C
    <2>1. PICK r \in Request : r \in C' /\ r \notin C
      BY <1>4
    <2>2. \E e \in Device, i \in IP : CreateCount(r, e, i)
      BY <2>1, Moved DEF Moves
    <2>3. Cardinality(C) < Overlap /\ cpc' \in [Request -> CreatePlaces] /\ \A q \in Request : q # r => cpc'[q] = cpc[q]
      <3>1. TypeOK
        BY DEF SessionInv
      <3> QED
        BY <2>2, <3>1 DEF CreateCount, MayCall, CreateTo, TypeOK, CreatePlaces
    <2>4. C' \subseteq C \cup {r}
      BY <2>3 DEF InCreate
    <2>5. Cardinality(C \cup {r}) = Cardinality(C) + 1
      BY <1>1, <2>1, Counting, FS_AddElement
    <2>6. C \cup {r} \in SUBSET Request
      BY <1>1
    <2>7. Cardinality(C') <= Cardinality(C) + 1
      BY <2>4, <2>5, <2>6, Fewer
    <2> QED
      BY <1>2, <2>3, <2>7
  <1> QED
    BY <1>1, <1>3, <1>4

(* Overlap calls that count before one of them inserts exceed the limit of *)
(* a device by Overlap - 1 at most.                                        *)
LEMMA RoomKept ==
    ASSUME SessionInv, Next
    PROVE  Room'
  <1> DEFINE C == {q \in Request : InCreate(q)}
  <1>a. TypeOK /\ Room /\ \A s \in Request : Course(s)
    BY DEF SessionInv
  <1>b. PerDevice \in Nat \ {0} /\ Overlap \in Nat \ {0}
    BY SessionAssumption
  <1>c. C' \in SUBSET Request /\ Cardinality(C') <= Overlap /\ Cardinality(C') \in Nat
    BY FewCalls, Counting
  <1>1. ASSUME NEW d \in Device
        PROVE  Cardinality(Counted(d)') <= PerDevice + Overlap - 1
    <2> DEFINE K == {q \in Request : device[q] = d /\ cpc[q] \in Adding}
               R == OfDevice(d) \ excused
    <2>1. Counted(d) = R \cup K /\ Counted(d)' = R' \cup K'
      BY DEF Counted, Adding
    <2>2. R \in SUBSET Request /\ R' \in SUBSET Request /\ K \in SUBSET Request /\ K' \in SUBSET C'
      BY DEF OfDevice, LiveRows, InCreate, Adding, Terminating
    <2>3. \A s \in R' : s \in R \/ s \in K
      <3> TAKE s \in R'
      <3>1. CASE CreateInsert(s)
        <4>1. s \in Request /\ cpc[s] = "insert" /\ device'[s] = device[s] /\ device'[s] = d
          BY <3>1, <2>2 DEF CreateInsert, OfDevice
        <4> QED
          BY <4>1 DEF Adding
      <3>2. CASE ~CreateInsert(s)
        BY <3>2, Rows
      <3> QED
        BY <3>1, <3>2
    <2>4. CASE \E q \in Request : CreateList(q) /\ device[q] = d
      <3>1. R' = {}
        BY <1>a, <2>4 DEF CreateList, table, OfDevice, LiveRows
      <3>2. Counted(d)' \in SUBSET C'
        BY <2>1, <2>2, <3>1
      <3>3. Cardinality(Counted(d)') <= Cardinality(C') /\ Cardinality(Counted(d)') \in Nat
        BY <1>c, <3>2, Fewer
      <3> QED
        BY <1>b, <1>c, <3>3
    <2>5. CASE \E q \in Request, i \in IP : CreateCount(q, d, i) /\ q \in K'
      <3>1. PICK q \in Request, i \in IP : CreateCount(q, d, i) /\ q \in K'
        BY <2>5
      <3>2. ~(Cardinality(OfDevice(d)) >= PerDevice) /\ cpc[q] = "idle"
        BY <1>a, <3>1 DEF CreateCount, CreateTo, TypeOK, Adding, Terminating
      <3>3. OfDevice(d) \in SUBSET Request
        BY DEF OfDevice, LiveRows
      <3>4. Cardinality(R) <= PerDevice - 1 /\ Cardinality(R) \in Nat
        BY <1>b, <3>2, <3>3, Fewer, Counting
      <3>5. R' \subseteq R
        <4>1. \A s \in Request : ~CreateInsert(s)
          BY <1>a, <3>1, <3>2 DEF CreateCount, CreateInsert, CreateTo, TypeOK, table
        <4> QED
          BY <2>2, <4>1, Rows
      <3>6. R \cup C' \in SUBSET Request /\ Cardinality(R \cup C') <= Cardinality(R) + Cardinality(C')
        <4>1. R \in SUBSET Request /\ C' \in SUBSET Request /\ R \cap C' \in SUBSET Request /\ R \cup C' \in SUBSET Request
          BY <1>c, <2>2
        <4> HIDE DEF R, C
        <4>2. IsFiniteSet(R) /\ IsFiniteSet(C') /\ Cardinality(R \cap C') \in Nat /\ Cardinality(R \cup C') \in Nat
          BY <4>1, Counting
        <4>3. Cardinality(R \cup C') = Cardinality(R) + Cardinality(C') - Cardinality(R \cap C')
          BY <4>2, FS_Union
        <4> QED
          BY <1>c, <3>4, <4>1, <4>2, <4>3
      <3>7. Cardinality(Counted(d)') <= Cardinality(R \cup C') /\ Cardinality(Counted(d)') \in Nat
            /\ Cardinality(R \cup C') \in Nat
        BY <2>1, <2>2, <3>5, <3>6, Fewer
      <3> HIDE DEF R, C
      <3> QED
        BY <1>b, <1>c, <3>4, <3>6, <3>7
    <2>6. CASE /\ ~\E q \in Request : CreateList(q) /\ device[q] = d
               /\ ~\E q \in Request, i \in IP : CreateCount(q, d, i) /\ q \in K'
      <3>1. \A q \in K' : q \in K
        <4> TAKE q \in K'
        <4>1. q \in Request /\ device'[q] = d /\ cpc'[q] \in Adding
          OBVIOUS
        <4>2. Moves(q)
          BY <4>1, Moved
        <4>3. CASE \E e \in Device, i \in IP : CreateCount(q, e, i)
          <5>1. PICK e \in Device, i \in IP : CreateCount(q, e, i)
            BY <4>3
          <5>2. device'[q] = e
            BY <1>a, <4>1, <5>1 DEF CreateCount, TypeOK
          <5> QED
            BY <2>6, <4>1, <5>1, <5>2
        <4>4. CASE CreateList(q)
          BY <2>6, <4>1, <4>2, <4>4 DEF CreateList
        <4>5. CASE cpc[q] \in Adding
          BY <4>1, <4>2, <4>5 DEF Moves, Adding, Terminating
        <4> QED
          BY <4>1, <4>2, <4>3, <4>4, <4>5 DEF Moves
      <3>2. Counted(d)' \in SUBSET Counted(d) /\ Counted(d) \in SUBSET Request
        BY <2>1, <2>2, <2>3, <3>1
      <3>3. Cardinality(Counted(d)') <= Cardinality(Counted(d)) /\ Cardinality(Counted(d)') \in Nat
            /\ Cardinality(Counted(d)) \in Nat
        BY <3>2, Fewer
      <3>4. Cardinality(Counted(d)) <= PerDevice + Overlap - 1
        BY <1>a DEF Room
      <3> QED
        BY <1>b, <3>3, <3>4
    <2> QED
      BY <2>4, <2>5, <2>6
  <1>2. Cardinality({r \in Request : InCreate(r)}') <= Overlap
    BY FewCalls
  <1> QED
    BY <1>1, <1>2 DEF Room

(* The inductive invariant is kept.                                        *)
LEMMA SessionStep ==
    ASSUME SessionInv, [Next]_vars
    PROVE  SessionInv'
  <1>0. TypeOK'
    BY TypesKept DEF SessionInv
  <1>1. CASE Next
    BY <1>0, <1>1, RoomKept, CourseKept, CallsKept, ClockKept DEF SessionInv
  <1>2. CASE UNCHANGED vars
    <2>1. Room'
      BY <1>2 DEF vars, SessionInv, Room, InCreate, Counted, OfDevice, LiveRows
    <2>2. ASSUME NEW s \in Request PROVE Course(s)' /\ Calls(s)' /\ Clock(s)'
      BY <1>2 DEF vars, SessionInv, Course, Calls, Clock, Allowed
    <2> QED
      BY <1>0, <2>1, <2>2 DEF SessionInv
  <1> QED
    BY <1>1, <1>2

(* It holds before the first call.                                         *)
LEMMA SessionBegins == Init => SessionInv
  <1> SUFFICES ASSUME Init PROVE SessionInv
    OBVIOUS
  <1> USE SessionAssumption DEF Init
  <1>1. TypeOK
    BY DEF TypeOK, Statuses, CreatePlaces, Settled, Ending, Waiting
  <1>2. Room
    <2>1. {r \in Request : InCreate(r)} = {} /\ \A d \in Device : Counted(d) = {}
      BY DEF InCreate, Counted, OfDevice, LiveRows, Terminating
    <2>2. PerDevice \in Nat /\ PerDevice # 0 /\ Overlap \in Nat /\ Overlap # 0
      OBVIOUS
    <2>3. Cardinality({}) = 0
      BY FS_EmptySet
    <2>4. 0 <= Overlap /\ 0 <= PerDevice + Overlap - 1
      BY <2>2
    <2> QED
      BY ONLY <2>1, <2>3, <2>4 DEF Room
  <1>3. ASSUME NEW s \in Request PROVE Course(s) /\ Calls(s) /\ Clock(s)
    BY DEF Course, Calls, Clock
  <1> QED
    BY <1>1, <1>2, <1>3 DEF SessionInv

(* What the theorems below rest on holds in every reachable state, for any *)
(* calls, devices, addresses and limits, and any Stress and Overlap.       *)
THEOREM SessionInvariant == Spec => []SessionInv
  <1>1. SessionInv /\ [Next]_vars => SessionInv'
    BY SessionStep
  <1> QED
    BY SessionBegins, <1>1, PTL DEF Spec

(* However many calls of Create overlap between their count and their      *)
(* insert (session.go:109-139), and whatever else happens, a device has no *)
(* more than PerDevice + Overlap - 1 sessions that no call set out to      *)
(* replace; with one call at a time that is the limit (README.md:51).      *)
THEOREM DeviceLimitHolds == Spec => []OnePerDeviceUnlessRaced
  <1>1. SessionInv => OnePerDeviceUnlessRaced
    <2> SUFFICES ASSUME SessionInv, NEW d \in Device
                 PROVE  Cardinality(OfDevice(d) \ excused) <= PerDevice + Overlap - 1
      BY DEF OnePerDeviceUnlessRaced
    <2>1. Counted(d) \in SUBSET Request /\ OfDevice(d) \ excused \in SUBSET Counted(d)
      BY DEF Counted, OfDevice, LiveRows
    <2>2. /\ Cardinality(OfDevice(d) \ excused) <= Cardinality(Counted(d))
          /\ Cardinality(OfDevice(d) \ excused) \in Nat /\ Cardinality(Counted(d)) \in Nat
      BY <2>1, Fewer
    <2>3. Cardinality(Counted(d)) <= PerDevice + Overlap - 1
      BY DEF SessionInv, Room
    <2> QED
      BY <2>2, <2>3, SessionAssumption
  <1> QED
    BY SessionInvariant, <1>1, PTL

(* While its run is there no session outlives its promise by more than a   *)
(* poll (session.go:299-300), whatever else writes its record.             *)
THEOREM WatchedPromisesKept == Spec => []PromiseKeptWhileWatched
  <1>1. SessionInv => PromiseKeptWhileWatched
    BY DEF SessionInv, TypeOK, Course, Clock, Allowed, PromiseKeptWhileWatched, Settled
  <1> QED
    BY SessionInvariant, <1>1, PTL

(* Of the writes of whole records from copies (session.go:229, 273, 293,   *)
(* 411, 461) only those of a run that still prepares the session and of an *)
(* Extend bring an ended record back.                                      *)
THEOREM EndedStaysEndedUnlessRaced == Spec => EndedUnlessRaced
  <1> DEFINE A(s) == status[s] = "ended" /\ status'[s] # "ended" => rpc[s] \in Waiting \/ xpc[s] = "write"
  <1>1. ASSUME SessionInv, Next, NEW s \in Request PROVE A(s)
    BY <1>1, Onward DEF Onwards
  <1>2. SessionInv /\ [Next]_vars => [\A s \in Request : A(s)]_vars
    BY <1>1
  <1> QED
    BY SessionInvariant, <1>2, PTL DEF Spec, EndedUnlessRaced

(* The one extension takes no time away from a session that went live      *)
(* within MaxTTL - TTL of being created (session.go:440, 456-459).         *)
THEOREM ExtensionTakesNoTime == Spec => ExtendTakesNoTime
  <1> DEFINE A(s) == extended'[s] /\ ~extended[s] /\ left[s] # None =>
                         left'[s] >= left[s] \/ waited[s] > MaxTTL - TTL
  <1>1. ASSUME SessionInv, Next, NEW s \in Request PROVE A(s)
    <2>1. CASE ExtendWrite(s)
      <3>1. TypeOK /\ Clock(s)
        BY <1>1 DEF SessionInv
      <3>2. left'[s] = ExtendedTo(s)
        BY <2>1, <3>1 DEF ExtendWrite, TypeOK
      <3>3. waited[s] \in Nat /\ lived[s] \in Nat /\ left[s] \in Int \cup {None}
        BY <3>1 DEF TypeOK
      <3>4. ~extended[s] /\ left[s] # None => lived[s] + left[s] <= TTL
        BY <3>1 DEF Clock, Allowed
      <3>5. TTL \in Nat /\ MaxTTL \in Nat
        BY SessionAssumption
      <3> QED
        BY <3>2, <3>3, <3>4, <3>5 DEF ExtendedTo, Smaller, Age
    <2>2. CASE ~ExtendWrite(s)
      BY <1>1, <2>2, Onward DEF Onwards
    <2> QED
      BY <2>1, <2>2
  <1>2. SessionInv /\ [Next]_vars => [\A s \in Request : A(s)]_vars
    BY <1>1
  <1> QED
    BY SessionInvariant, <1>2, PTL DEF Spec, ExtendTakesNoTime

=================================================================================
