---------------------------- MODULE BuilderProofs ----------------------------
(***************************************************************************)
(* Theorems about Builder and Visitors, for any number of commits, runs,   *)
(* callers, slots and misfortunes.                                         *)
(***************************************************************************)
EXTENDS Visitors, FiniteSetTheorems, TLAPS

-------------------------------------------------------------------------------
(* The inductive invariant, one lemma per part of it.                      *)

(* The delete of this sandbox was asked for.                               *)
Condemned == {"left", "deleted"}

(* Whether a Delete works or fails: the sandbox has been condemned, and no *)
(* other is touched.                                                       *)
LEMMA DeleteEffect ==
    ASSUME NEW x, TypeOK, Delete(x)
    PROVE  /\ box' \in [Run -> {"none", "up", "paused", "left", "deleted"}]
           /\ snap' \in [Run -> {"none", "capturing", "ready", "gone"}]
           /\ mishaps' \in 0 .. MaxMishaps
           /\ x \in Run => box'[x] \in Condemned
           /\ \A q \in Run \ {x} : box'[q] = box[q] /\ snap'[q] = snap[q]
<1> USE BuilderAssumption DEF TypeOK, Condemned
<1>1. CASE DeleteBox(x) /\ UNCHANGED mishaps
    BY <1>1 DEF DeleteBox
<1>2. CASE DeleteFails(x)
    <2>1. mishaps' \in 0 .. MaxMishaps
        BY <1>2 DEF DeleteFails, Mishap
    <2> QED BY <1>2, <2>1 DEF DeleteFails
<1> QED BY <1>1, <1>2 DEF Delete

(* Every variable keeps its type.                                          *)
LEMMA TypeStep ==
    ASSUME Tracked, [Next]_vars
    PROVE  TypeOK'
<1> USE BuilderAssumption DEF TypeOK, Locations, Goto, Mishap, Settled, builderVars, runVars, callerVars, platform
<1>0. TypeOK
    BY DEF Tracked
<1>1. ASSUME NEW c \in Caller, NEW b \in Build, EnsureBuild(c, b)
      PROVE  TypeOK'
    <2>1. CASE UNCHANGED <<record, runs, tokens, runVars, platform>>
        BY SMTT(30), <1>0, <1>1, <2>1 DEF EnsureBuild
    <2>2. ASSUME NEW r \in Run, Start(b, r), record' = [record EXCEPT ![b].status = "queued"], UNCHANGED seen
          PROVE  TypeOK'
        <3>1. runs' \in [Build -> Run \cup {None}] /\ of' \in [Run -> Build \cup {None}] /\ pc' \in [Run -> Locations]
            BY <1>0, <2>2 DEF Start
        <3>2. mem' \in [Run -> [golden : Run \cup {None}, snapshot : Run \cup {None}]]
            BY <1>0, <2>2 DEF Start
        <3>3. cpc' \in [Caller -> {"idle", "ensured", "following", "reading", "settled", "gone"}]
              /\ cb' \in [Caller -> Build \cup {None}]
            BY <1>0, <1>1 DEF EnsureBuild
        <3>4. record' \in [Build -> [status : Settled \cup {"none", "queued", "building"},
                                    golden : Run \cup {None}, snapshot : Run \cup {None}]]
            <4> DEFINE R == [status : Settled \cup {"none", "queued", "building"},
                             golden : Run \cup {None}, snapshot : Run \cup {None}]
            <4>1. record \in [Build -> R]
                BY <1>0
            <4>2. [record[b] EXCEPT !.status = "queued"] \in R
                BY <4>1
            <4> HIDE DEF R
            <4>3. record' \in [Build -> R]
                BY <2>2, <4>1, <4>2
            <4> QED BY <4>3 DEF R
        <3>5. UNCHANGED <<tokens, sb, outcome, expired, logDone, box, snap, crun, seen, mishaps>>
            BY <1>1, <2>2 DEF EnsureBuild, Start
        <3> QED BY <1>0, <3>1, <3>2, <3>3, <3>4, <3>5
    <2> QED BY <1>1, <2>1, <2>2 DEF EnsureBuild
<1>2. ASSUME NEW r \in Run, Acquire(r) PROVE TypeOK'
    BY <1>0, <1>2 DEF Acquire
<1>3. ASSUME NEW r \in Run, Begin(r) PROVE TypeOK'
    BY <1>0, <1>3 DEF Begin, Record
<1>4. ASSUME NEW r \in Run, CreateBox(r) PROVE TypeOK'
    BY SMTT(30), <1>0, <1>4 DEF CreateBox
<1>5. ASSUME NEW r \in Run, Ready(r) PROVE TypeOK'
    BY <1>0, <1>5 DEF Ready
<1>6. ASSUME NEW r \in Run, Work(r) PROVE TypeOK'
    <2>1. After[pc[r]] \in Locations
        BY <1>6 DEF Work, After
    <2> QED BY <1>0, <1>6, <2>1 DEF Work
<1>7. ASSUME NEW r \in Run, TakeSnapshot(r) PROVE TypeOK'
    BY <1>0, <1>7 DEF TakeSnapshot
<1>8. ASSUME NEW r \in Run, WaitSnapshot(r) PROVE TypeOK'
    BY <1>0, <1>8 DEF WaitSnapshot
<1>9. ASSUME NEW r \in Run, Pause(r) PROVE TypeOK'
    BY <1>0, <1>9 DEF Pause
<1>10. ASSUME NEW r \in Run, NEW status \in Settled, Fail(r, status) PROVE TypeOK'
    <2>1. /\ box' \in [Run -> {"none", "up", "paused", "left", "deleted"}]
          /\ sb' \in [Run -> Run \cup {None}] /\ mishaps' \in 0 .. MaxMishaps
        BY SMTT(30), <1>0, <1>10 DEF Fail
    <2>2. /\ pc' \in [Run -> Locations] /\ outcome' \in [Run -> Settled \cup {None}]
          /\ UNCHANGED <<record, runs, tokens, of, mem, expired, logDone, snap, callerVars>>
        BY <1>0, <1>10 DEF Fail
    <2> QED BY <1>0, <2>1, <2>2
<1>11. ASSUME NEW r \in Run, Settle(r) PROVE TypeOK'
    <2>1. outcome[r] \in Settled
        BY <1>0, <1>11 DEF Settle, Tracked, Ending
    <2> QED BY <1>0, <1>11, <2>1 DEF Settle, Record
<1>12. ASSUME NEW r \in Run, FinishLog(r) PROVE TypeOK'
    BY <1>0, <1>12 DEF FinishLog
<1>13. ASSUME NEW r \in Run, Unregister(r) PROVE TypeOK'
    BY <1>0, <1>13 DEF Unregister
<1>14. ASSUME NEW r \in Run, Cleanup(r) PROVE TypeOK'
    <2>1. /\ pc' \in [Run -> Locations]
          /\ UNCHANGED <<record, builderVars, of, sb, mem, outcome, expired, logDone, callerVars>>
        BY <1>0, <1>14 DEF Cleanup
    <2>2. CASE UNCHANGED <<platform, mishaps>>
        BY <1>0, <2>1, <2>2
    <2>3. CASE sb[r] # None /\ Delete(sb[r])
        <3>1. /\ box' \in [Run -> {"none", "up", "paused", "left", "deleted"}]
              /\ snap' \in [Run -> {"none", "capturing", "ready", "gone"}] /\ mishaps' \in 0 .. MaxMishaps
            BY <1>0, <2>3, DeleteEffect
        <3> QED BY <1>0, <2>1, <3>1
    <2> QED BY <1>14, <2>2, <2>3 DEF Cleanup
<1>15. ASSUME NEW r \in Run, Release(r) PROVE TypeOK'
    BY <1>0, <1>15 DEF Release
<1>16. ASSUME NEW r \in Run, Expire(r) PROVE TypeOK'
    BY <1>0, <1>16 DEF Expire
<1>17. ASSUME NEW c \in Caller, Subscribe(c) PROVE TypeOK'
    <2>1. cb[c] \in Build
        BY <1>0, <1>17 DEF Subscribe, Tracked
    <2> QED BY <1>0, <1>17, <2>1 DEF Subscribe
<1>18. ASSUME NEW c \in Caller, StreamEnds(c) PROVE TypeOK'
    BY <1>0, <1>18 DEF StreamEnds
<1>19. ASSUME NEW c \in Caller, ReadOutcome(c) PROVE TypeOK'
    <2>1. cb[c] \in Build
        BY <1>0, <1>19 DEF ReadOutcome, Tracked
    <2> QED BY <1>0, <1>19, <2>1 DEF ReadOutcome
<1>20. CASE Crash
    BY <1>0, <1>20 DEF Crash
<1>21. CASE UNCHANGED vars
    BY <1>0, <1>21 DEF vars
<1> QED BY <1>1, <1>2, <1>3, <1>4, <1>5, <1>6, <1>7, <1>8, <1>9, <1>10, <1>11, <1>12, <1>13, <1>14,
           <1>15, <1>16, <1>17, <1>18, <1>19, <1>20, <1>21 DEF Next, Execute, Follow

(* A slot is taken by Acquire and given back by Release, and by nothing    *)
(* else; there are never more than Concurrency of them.                    *)
LEMMA SlotsStep ==
    ASSUME BuilderInv, [Next]_vars
    PROVE  Slots'
<1> USE DEF Goto, Holding, InFlight, Locations
<1>0. /\ Slots
      /\ pc \in [Run -> Locations]
      /\ Concurrency \in Nat
    BY BuilderAssumption DEF BuilderInv, TypeOK
<1>1. IsFiniteSet(tokens)
    BY <1>0, FS_Subset, BuilderAssumption DEF Slots
<1>2. /\ Cardinality(tokens) \in Nat
      /\ \A r : IsFiniteSet(tokens \cup {r}) /\ IsFiniteSet(tokens \ {r})
    BY <1>1, FS_CardinalityType, FS_AddElement, FS_RemoveElement
<1>3. ASSUME NEW r \in Run, NEW l \in Holding, pc[r] \in Holding, Goto(r, l), UNCHANGED tokens
      PROVE  Slots'
    <2>1. {q \in Run : pc'[q] \in Holding} = {q \in Run : pc[q] \in Holding}
        BY <1>0, <1>3
    <2> QED BY <1>0, <1>3, <2>1 DEF Slots
<1>4. ASSUME UNCHANGED <<pc, tokens>> PROVE Slots'
    BY <1>0, <1>4 DEF Slots
<1>5. ASSUME NEW c \in Caller, NEW b \in Build, EnsureBuild(c, b) PROVE Slots'
    <2>1. CASE UNCHANGED <<record, runs, tokens, runVars, platform>>
        BY <1>4, <2>1 DEF runVars
    <2>2. ASSUME NEW r \in Run, Start(b, r) PROVE Slots'
        <3>1. {q \in Run : pc'[q] \in Holding} = {q \in Run : pc[q] \in Holding}
            BY <1>0, <2>2 DEF Start
        <3> QED BY <1>0, <2>2, <3>1 DEF Slots, Start
    <2> QED BY <1>5, <2>1, <2>2 DEF EnsureBuild
<1>6. ASSUME NEW r \in Run, Acquire(r) PROVE Slots'
    <2>1. {q \in Run : pc'[q] \in Holding} = {q \in Run : pc[q] \in Holding} \cup {r}
        BY <1>0, <1>6 DEF Acquire
    <2>2. Cardinality(tokens \cup {r}) <= Cardinality(tokens) + 1
        BY <1>1, <1>2, FS_AddElement
    <2>3. Cardinality(tokens \cup {r}) \in Nat
        BY <1>2, FS_CardinalityType
    <2> QED BY <1>0, <1>2, <1>6, <2>1, <2>2, <2>3 DEF Slots, Acquire
<1>7. ASSUME NEW r \in Run, Release(r) PROVE Slots'
    <2>1. {q \in Run : pc'[q] \in Holding} = {q \in Run : pc[q] \in Holding} \ {r}
        BY <1>0, <1>7 DEF Release
    <2>2. Cardinality(tokens \ {r}) <= Cardinality(tokens)
        BY <1>1, FS_Subset
    <2>3. Cardinality(tokens \ {r}) \in Nat
        BY <1>2, FS_CardinalityType
    <2> QED BY <1>0, <1>2, <1>7, <2>1, <2>2, <2>3 DEF Slots, Release
<1>8. ASSUME NEW r \in Run,
             Begin(r) \/ CreateBox(r) \/ Ready(r) \/ TakeSnapshot(r) \/ WaitSnapshot(r) \/ Pause(r)
      PROVE  Slots'
    BY <1>3, <1>8 DEF Begin, CreateBox, Ready, TakeSnapshot, WaitSnapshot, Pause, builderVars
<1>9. ASSUME NEW r \in Run, Work(r) PROVE Slots'
    <2>1. pc[r] \in Holding /\ After[pc[r]] \in Holding
        BY <1>9 DEF Work, After
    <2> QED BY <1>3, <1>9, <2>1 DEF Work, builderVars
<1>10. ASSUME NEW r \in Run, NEW status \in Settled, Fail(r, status) PROVE Slots'
    <2>1. pc[r] \in Holding
        BY <1>10 DEF Fail, Verdicts
    <2> QED BY <1>3, <1>10, <2>1 DEF Fail, builderVars
<1>11. ASSUME NEW r \in Run, Settle(r) \/ FinishLog(r) \/ Unregister(r) \/ Cleanup(r)
       PROVE  Slots'
    BY <1>3, <1>11 DEF Settle, FinishLog, Unregister, Cleanup, builderVars
<1>12. ASSUME NEW r \in Run, Expire(r) PROVE Slots'
    BY <1>4, <1>12 DEF Expire
<1>13. ASSUME NEW c \in Caller, Subscribe(c) \/ StreamEnds(c) \/ ReadOutcome(c) PROVE Slots'
    BY <1>4, <1>13 DEF Subscribe, StreamEnds, ReadOutcome, builderVars, runVars
<1>14. CASE Crash
    <2>1. {q \in Run : pc'[q] \in Holding} = {}
        BY <1>0, <1>14 DEF Crash
    <2>2. Cardinality({}) = 0
        BY FS_EmptySet
    <2> QED BY <1>0, <1>14, <2>1, <2>2 DEF Slots, Crash
<1>15. CASE UNCHANGED vars
    BY <1>4, <1>15 DEF vars
<1> QED BY <1>5, <1>6, <1>7, <1>8, <1>9, <1>10, <1>11, <1>12, <1>13, <1>14, <1>15
        DEF Next, Execute, Follow

(* b.runs names the run of a build from start until it is unregistered: a  *)
(* run is started only where none is registered.                           *)
LEMMA InRunsStep ==
    ASSUME Tracked, [Next]_vars
    PROVE  \A q \in Run : InRuns(q)'
<1> USE DEF Goto, Registered, InFlight, Locations
<1>0. /\ \A q \in Run : InRuns(q)
      /\ pc \in [Run -> Locations]
      /\ of \in [Run -> Build \cup {None}]
      /\ runs \in [Build -> Run \cup {None}]
      /\ None \notin Run \cup Build
    BY BuilderAssumption DEF Tracked, TypeOK
<1>1. ASSUME NEW r \in Run, NEW l \in Locations \ {"unused"}, pc[r] # "unused", Goto(r, l),
             UNCHANGED <<of, runs>>, l \in Registered => pc[r] \in Registered
      PROVE  \A q \in Run : InRuns(q)'
    BY <1>0, <1>1 DEF InRuns
<1>2. ASSUME UNCHANGED <<pc, of, runs>> PROVE \A q \in Run : InRuns(q)'
    BY <1>0, <1>2 DEF InRuns
<1>3. ASSUME NEW c \in Caller, NEW b \in Build, EnsureBuild(c, b) PROVE \A q \in Run : InRuns(q)'
    <2>1. CASE UNCHANGED <<record, runs, tokens, runVars, platform>>
        BY <1>2, <2>1 DEF runVars
    <2>2. ASSUME NEW r \in Run, Start(b, r), ~Trustworthy(b) PROVE \A q \in Run : InRuns(q)'
        <3>1. ASSUME NEW q \in Run, q # r PROVE InRuns(q)'
            <4>1. pc'[q] = pc[q] /\ of'[q] = of[q]
                BY <1>0, <2>2, <3>1 DEF Start
            <4>2. pc[q] \in Registered => of[q] # b /\ of[q] \in Build
                BY <1>0, <2>2 DEF Trustworthy, InRuns
            <4>3. pc[q] \in Registered => runs'[of[q]] = runs[of[q]]
                BY <1>0, <2>2, <4>2 DEF Start
            <4> QED BY <1>0, <4>1, <4>3 DEF InRuns
        <3>2. InRuns(r)'
            BY <1>0, <2>2 DEF Start, InRuns
        <3> QED BY <3>1, <3>2
    <2> QED BY <1>3, <2>1, <2>2 DEF EnsureBuild
<1>4. ASSUME NEW r \in Run, Acquire(r) PROVE \A q \in Run : InRuns(q)'
    BY <1>1, <1>4 DEF Acquire
<1>5. ASSUME NEW r \in Run,
             Begin(r) \/ CreateBox(r) \/ Ready(r) \/ TakeSnapshot(r) \/ WaitSnapshot(r) \/ Pause(r)
      PROVE  \A q \in Run : InRuns(q)'
    BY <1>1, <1>5 DEF Begin, CreateBox, Ready, TakeSnapshot, WaitSnapshot, Pause, builderVars
<1>6. ASSUME NEW r \in Run, Work(r) PROVE \A q \in Run : InRuns(q)'
    <2>1. pc[r] \in Registered /\ After[pc[r]] \in Registered
        BY <1>6 DEF Work, After
    <2> QED BY <1>1, <1>6, <2>1 DEF Work, builderVars
<1>7. ASSUME NEW r \in Run, NEW status \in Settled, Fail(r, status) PROVE \A q \in Run : InRuns(q)'
    <2>1. pc[r] \in Registered
        BY <1>7 DEF Fail, Verdicts
    <2> QED BY <1>1, <1>7, <2>1 DEF Fail, builderVars
<1>8. ASSUME NEW r \in Run, Settle(r) \/ FinishLog(r) \/ Cleanup(r) \/ Release(r)
      PROVE  \A q \in Run : InRuns(q)'
    BY <1>1, <1>8 DEF Settle, FinishLog, Cleanup, Release, builderVars
<1>9. ASSUME NEW r \in Run, Unregister(r) PROVE \A q \in Run : InRuns(q)'
    <2>1. ASSUME NEW q \in Run, q # r PROVE InRuns(q)'
        <3>1. pc'[q] = pc[q] /\ of'[q] = of[q]
            BY <1>0, <1>9, <2>1 DEF Unregister
        <3>2. pc[q] \in Registered => of[q] # of[r] /\ of[q] \in Build
            BY <1>0, <1>9, <2>1 DEF Unregister, InRuns
        <3>3. pc[q] \in Registered => runs'[of[q]] = runs[of[q]]
            BY <1>0, <1>9, <3>2 DEF Unregister
        <3> QED BY <1>0, <3>1, <3>3 DEF InRuns
    <2>2. InRuns(r)'
        BY <1>0, <1>9 DEF Unregister, InRuns
    <2> QED BY <2>1, <2>2
<1>10. ASSUME NEW r \in Run, Expire(r) PROVE \A q \in Run : InRuns(q)'
    BY <1>2, <1>10 DEF Expire
<1>11. ASSUME NEW c \in Caller, Subscribe(c) \/ StreamEnds(c) \/ ReadOutcome(c)
       PROVE  \A q \in Run : InRuns(q)'
    BY <1>2, <1>11 DEF Subscribe, StreamEnds, ReadOutcome, builderVars, runVars
<1>12. CASE Crash
    BY <1>0, <1>12 DEF Crash, InRuns
<1>13. CASE UNCHANGED vars
    BY <1>2, <1>13 DEF vars
<1> QED BY <1>3, <1>4, <1>5, <1>6, <1>7, <1>8, <1>9, <1>10, <1>11, <1>12, <1>13
        DEF Next, Execute, Follow

(* A run touches no sandbox, snapshot or id but its own, and what it makes *)
(* is there as long as it is needed.                                       *)
LEMMA HoldsStep ==
    ASSUME BuilderInv, [Next]_vars
    PROVE  \A q \in Run : Holds(q)'
<1> USE BuilderAssumption DEF Goto, Working, Preparing, Ending, Registered, InFlight, Locations, platform, builderVars
<1> DEFINE own(q) == <<pc[q], sb[q], mem[q], outcome[q], box[q], snap[q]>>
<1>0. TypeOK /\ \A q \in Run : Holds(q)
    BY DEF BuilderInv
<1>1. ASSUME NEW r \in Run, Holds(r)', \A q \in Run \ {r} : own(q)' = own(q)
      PROVE  \A q \in Run : Holds(q)'
    <2>1. ASSUME NEW q \in Run \ {r} PROVE Holds(q)'
        BY <1>0, <1>1 DEF Holds
    <2> QED BY <1>1, <2>1
<1>2. ASSUME UNCHANGED <<pc, sb, mem, outcome, box, snap>> PROVE \A q \in Run : Holds(q)'
    BY <1>0, <1>2 DEF Holds
<1> HIDE DEF own
<1>3. ASSUME NEW c \in Caller, NEW b \in Build, EnsureBuild(c, b) PROVE \A q \in Run : Holds(q)'
    <2>1. CASE UNCHANGED <<record, runs, tokens, runVars, platform>>
        BY <1>2, <2>1 DEF runVars
    <2>2. ASSUME NEW r \in Run, Start(b, r) PROVE \A q \in Run : Holds(q)'
        <3>1. Holds(r)'
            BY <1>0, <2>2 DEF Start, Holds, TypeOK
        <3>2. \A q \in Run \ {r} : own(q)' = own(q)
            BY <1>0, <2>2 DEF Start, TypeOK, own
        <3> QED BY <1>1, <3>1, <3>2
    <2> QED BY <1>3, <2>1, <2>2 DEF EnsureBuild
<1>4. ASSUME NEW r \in Run, Acquire(r) \/ Begin(r) \/ Ready(r)
      PROVE  \A q \in Run : Holds(q)'
    <2>1. Holds(r)'
        BY <1>0, <1>4 DEF Acquire, Begin, Ready, Holds, TypeOK
    <2>2. \A q \in Run \ {r} : own(q)' = own(q)
        BY <1>0, <1>4 DEF Acquire, Begin, Ready, TypeOK, own
    <2> QED BY <1>1, <2>1, <2>2
<1>5. ASSUME NEW r \in Run, CreateBox(r) PROVE \A q \in Run : Holds(q)'
    <2>1. Holds(r)'
        BY <1>0, <1>5 DEF CreateBox, Holds, TypeOK
    <2>2. \A q \in Run \ {r} : own(q)' = own(q)
        BY <1>0, <1>5 DEF CreateBox, TypeOK, own
    <2> QED BY <1>1, <2>1, <2>2
<1>6. ASSUME NEW r \in Run, Work(r) PROVE \A q \in Run : Holds(q)'
    <2>1. pc[r] \in Preparing \ {"pause"} /\ After[pc[r]] \in Preparing \ {"pause"}
        BY <1>6 DEF Work, After
    <2>2. Holds(r)'
        BY <1>0, <1>6, <2>1 DEF Work, Holds, TypeOK
    <2>3. \A q \in Run \ {r} : own(q)' = own(q)
        BY <1>0, <1>6 DEF Work, TypeOK, own
    <2> QED BY <1>1, <2>2, <2>3
<1>7. ASSUME NEW r \in Run, TakeSnapshot(r) \/ WaitSnapshot(r) PROVE \A q \in Run : Holds(q)'
    <2>1. Holds(r)'
        BY <1>0, <1>7 DEF TakeSnapshot, WaitSnapshot, Holds, TypeOK
    <2>2. \A q \in Run \ {r} : own(q)' = own(q)
        BY <1>0, <1>7 DEF TakeSnapshot, WaitSnapshot, TypeOK, own
    <2> QED BY <1>1, <2>1, <2>2
<1>8. ASSUME NEW r \in Run, Pause(r) PROVE \A q \in Run : Holds(q)'
    <2>1. Holds(r)'
        BY <1>0, <1>8 DEF Pause, Holds, TypeOK
    <2>2. \A q \in Run \ {r} : own(q)' = own(q)
        BY <1>0, <1>8 DEF Pause, TypeOK, own
    <2> QED BY <1>1, <2>1, <2>2
<1>9. ASSUME NEW r \in Run, NEW status \in Settled, Fail(r, status) PROVE \A q \in Run : Holds(q)'
    <2>1. status \notin {"ready", None} /\ outcome[r] = None
        BY <1>0, <1>9 DEF Fail, Verdicts, Holds, Settled
    <2>2. Holds(r)'
        BY <1>0, <1>9, <2>1 DEF Fail, Holds, TypeOK
    <2>3. \A q \in Run \ {r} : own(q)' = own(q)
        BY <1>0, <1>9 DEF Fail, TypeOK, own
    <2> QED BY <1>1, <2>2, <2>3
<1>10. ASSUME NEW r \in Run, Settle(r) \/ FinishLog(r) \/ Unregister(r) \/ Release(r)
       PROVE  \A q \in Run : Holds(q)'
    <2>1. Holds(r)'
        BY <1>0, <1>10 DEF Settle, FinishLog, Unregister, Release, Holds, TypeOK
    <2>2. \A q \in Run \ {r} : own(q)' = own(q)
        BY <1>0, <1>10 DEF Settle, FinishLog, Unregister, Release, TypeOK, own
    <2> QED BY <1>1, <2>1, <2>2
<1>11. ASSUME NEW r \in Run, Cleanup(r) PROVE \A q \in Run : Holds(q)'
    <2>1. sb[r] \in {None, r}
        BY <1>0 DEF Holds
    <2>2. /\ pc[r] = "cleanup" /\ pc' = [pc EXCEPT ![r] = "release"]
          /\ UNCHANGED <<sb, mem, outcome>>
        BY <1>11 DEF Cleanup
    <2>3. CASE UNCHANGED platform /\ (outcome[r] = "ready" \/ sb[r] = None)
        <3>1. Holds(r)'
            BY <1>0, <2>1, <2>2, <2>3 DEF Holds, TypeOK
        <3>2. \A q \in Run \ {r} : own(q)' = own(q)
            BY <1>0, <2>2, <2>3 DEF TypeOK, own
        <3> QED BY <1>1, <3>1, <3>2
    <2>4. CASE outcome[r] # "ready" /\ sb[r] = r /\ Delete(sb[r])
        <3>1. box'[r] \in Condemned /\ \A q \in Run \ {r} : box'[q] = box[q] /\ snap'[q] = snap[q]
            BY <1>0, <2>4, DeleteEffect
        <3>2. Holds(r)'
            BY <1>0, <2>1, <2>2, <2>4, <3>1 DEF Holds, TypeOK, Condemned
        <3>3. \A q \in Run \ {r} : own(q)' = own(q)
            BY <1>0, <2>2, <3>1 DEF TypeOK, own
        <3> QED BY <1>1, <3>2, <3>3
    <2> QED BY <1>11, <2>1, <2>3, <2>4 DEF Cleanup
<1>12. ASSUME NEW r \in Run, Expire(r) PROVE \A q \in Run : Holds(q)'
    BY <1>2, <1>12 DEF Expire
<1>13. ASSUME NEW c \in Caller, Subscribe(c) \/ StreamEnds(c) \/ ReadOutcome(c)
       PROVE  \A q \in Run : Holds(q)'
    BY <1>2, <1>13 DEF Subscribe, StreamEnds, ReadOutcome, runVars
<1>14. CASE Crash
    BY <1>0, <1>14 DEF Crash, Holds, TypeOK
<1>15. CASE UNCHANGED vars
    BY <1>2, <1>15 DEF vars
<1> QED BY <1>3, <1>4, <1>5, <1>6, <1>7, <1>8, <1>9, <1>10, <1>11, <1>12, <1>13, <1>14, <1>15
        DEF Next, Execute, Follow

(* What is known does not change: a recorded outcome is never rewritten, a *)
(* run keeps its build and its outcome, and time that is up stays up.      *)
LEMMA KnownStep ==
    ASSUME BuilderInv, [Next]_vars
    PROVE  /\ \A b \in Build : record[b].status \in Settled => record'[b] = record[b]
           /\ \A q \in Run : /\ of[q] \in Build => of'[q] = of[q]
                             /\ outcome[q] # None => outcome'[q] = outcome[q]
                             /\ expired[q] => expired'[q]
<1> USE BuilderAssumption DEF Goto, Working, Registered, InFlight, builderVars
<1> DEFINE kept == \A b \in Build : record[b].status \in Settled => record'[b] = record[b]
           same == UNCHANGED <<of, outcome, expired>>
           grown == \A q \in Run : /\ of[q] \in Build => of'[q] = of[q]
                                   /\ outcome[q] # None => outcome'[q] = outcome[q]
                                   /\ expired[q] => expired'[q]
<1>0. TypeOK /\ \A q \in Run : InRuns(q) /\ Holds(q) /\ Wrote(q)
    BY DEF BuilderInv
<1>1. ASSUME NEW c \in Caller, NEW b \in Build, EnsureBuild(c, b) PROVE kept /\ grown
    <2>1. CASE UNCHANGED <<record, runs, tokens, runVars, platform>>
        BY <2>1 DEF runVars
    <2>2. ASSUME NEW r \in Run, Start(b, r), ~Trustworthy(b), record' = [record EXCEPT ![b].status = "queued"]
          PROVE  kept /\ grown
        <3>1. of[r] \notin Build /\ of' = [of EXCEPT ![r] = b] /\ UNCHANGED <<outcome, expired>>
            BY <1>0, <2>2 DEF Start, InRuns
        <3>2. grown
            BY <1>0, <3>1 DEF TypeOK
        <3>3. kept
            BY <1>0, <2>2 DEF Trustworthy, TypeOK
        <3> QED BY <3>2, <3>3
    <2> QED BY <1>1, <2>1, <2>2 DEF EnsureBuild
<1>2. ASSUME NEW r \in Run, NEW status, Record(r, status), pc[r] \in {"begin", "settle"}, same
      PROVE  kept /\ grown
    <2>1. of[r] \in Build /\ record[of[r]].status \notin Settled
        BY <1>0, <1>2 DEF InRuns, Wrote
    <2> QED BY <1>0, <1>2, <2>1 DEF Record, TypeOK
<1>3. ASSUME NEW r \in Run, Begin(r) PROVE kept /\ grown
    BY <1>2, <1>3 DEF Begin
<1>4. ASSUME NEW r \in Run, Settle(r) PROVE kept /\ grown
    BY <1>2, <1>4 DEF Settle
<1>5. ASSUME NEW r \in Run, outcome[r] = None, UNCHANGED <<record, of, expired>>,
             \A q \in Run \ {r} : outcome'[q] = outcome[q]
      PROVE  kept /\ grown
    BY <1>5
<1>6. ASSUME NEW r \in Run, Pause(r) PROVE kept /\ grown
    <2>1. outcome[r] = None
        BY <1>0, <1>6 DEF Pause, Holds
    <2>2. \A q \in Run \ {r} : outcome'[q] = outcome[q]
        BY <1>0, <1>6 DEF Pause, TypeOK
    <2> QED BY <1>5, <1>6, <2>1, <2>2 DEF Pause
<1>7. ASSUME NEW r \in Run, NEW status \in Settled, Fail(r, status) PROVE kept /\ grown
    <2>1. outcome[r] = None
        BY <1>0, <1>7 DEF Fail, Verdicts, Holds
    <2>2. \A q \in Run \ {r} : outcome'[q] = outcome[q]
        BY <1>0, <1>7 DEF Fail, TypeOK
    <2> QED BY <1>5, <1>7, <2>1, <2>2 DEF Fail
<1>8. ASSUME NEW r \in Run, Expire(r) PROVE kept /\ grown
    BY <1>0, <1>8 DEF Expire, TypeOK
<1>9. ASSUME UNCHANGED record, same PROVE kept /\ grown
    BY <1>9
<1>10. ASSUME NEW r \in Run,
             \/ Acquire(r) \/ CreateBox(r) \/ Ready(r) \/ Work(r) \/ TakeSnapshot(r) \/ WaitSnapshot(r)
             \/ FinishLog(r) \/ Unregister(r) \/ Cleanup(r) \/ Release(r)
       PROVE  kept /\ grown
    BY <1>9, <1>10 DEF Acquire, CreateBox, Ready, Work, TakeSnapshot, WaitSnapshot, FinishLog,
                       Unregister, Cleanup, Release
<1>11. ASSUME NEW c \in Caller, Subscribe(c) \/ StreamEnds(c) \/ ReadOutcome(c) PROVE kept /\ grown
    BY <1>9, <1>11 DEF Subscribe, StreamEnds, ReadOutcome, runVars
<1>12. ASSUME Crash PROVE kept /\ grown
    BY <1>9, <1>12 DEF Crash
<1>13. ASSUME UNCHANGED vars PROVE kept /\ grown
    BY <1>9, <1>13 DEF vars
<1> HIDE DEF kept, grown
<1>14. kept /\ grown
    BY <1>1, <1>3, <1>4, <1>6, <1>7, <1>8, <1>10, <1>11, <1>12, <1>13 DEF Next, Execute, Follow
<1> QED BY <1>14 DEF kept, grown

(* A record says what the run working on it has done: nothing final before *)
(* it settles, its outcome from then on.                                   *)
LEMMA WroteStep ==
    ASSUME BuilderInv, [Next]_vars
    PROVE  \A q \in Run : Wrote(q)'
<1> USE BuilderAssumption DEF Goto, Working, Ending, Registered, InFlight, Locations, builderVars
<1> DEFINE Open == Working \cup {"settle"}
           Done == Ending \ {"settle"}
<1>0. TypeOK /\ \A q \in Run : InRuns(q) /\ Holds(q) /\ Wrote(q)
    BY DEF BuilderInv
<1>1. /\ \A b \in Build : record[b].status \in Settled => record'[b] = record[b]
      /\ \A q \in Run : /\ of[q] \in Build => of'[q] = of[q]
                        /\ outcome[q] # None => outcome'[q] = outcome[q]
                        /\ expired[q] => expired'[q]
    BY KnownStep
<1>2. ASSUME NEW q \in Run, pc[q] # "unused",
             pc'[q] \in Open => record'[of[q]].status \notin Settled,
             pc'[q] \in Done => pc[q] \in Done
      PROVE  Wrote(q)'
    <2>1. of[q] \in Build /\ of'[q] = of[q]
        BY <1>0, <1>1, <1>2 DEF InRuns
    <2>2. pc[q] \in Done => outcome'[q] = outcome[q]
        BY <1>0, <1>1 DEF Holds
    <2>3. pc[q] \in Done /\ ~expired'[q] => record'[of[q]] = record[of[q]] /\ ~expired[q]
        BY <1>0, <1>1, <2>1 DEF Wrote
    <2> QED BY <1>0, <1>2, <2>1, <2>2, <2>3 DEF Wrote
<1>3. ASSUME NEW q \in Run, pc'[q] = "unused" PROVE Wrote(q)'
    BY <1>3 DEF Wrote
<1>4. ASSUME NEW r \in Run, NEW l \in Locations, pc[r] # "unused", Goto(r, l), UNCHANGED record,
             l \in Open => pc[r] \in Open, l \in Done => pc[r] \in Done
      PROVE  \A q \in Run : Wrote(q)'
    <2>1. ASSUME NEW q \in Run, pc'[q] # "unused" PROVE Wrote(q)'
        <3>1. pc[q] # "unused" /\ (pc'[q] \in Open => pc[q] \in Open) /\ (pc'[q] \in Done => pc[q] \in Done)
            BY <1>0, <1>4, <2>1 DEF TypeOK
        <3>2. pc[q] \in Open => record[of[q]].status \notin Settled
            BY <1>0 DEF Wrote
        <3> QED BY <1>2, <1>4, <3>1, <3>2
    <2> QED BY <1>3, <2>1
<1>5. ASSUME UNCHANGED <<record, pc>> PROVE \A q \in Run : Wrote(q)'
    <2>1. \A q \in Run : pc[q] \in Open => record[of[q]].status \notin Settled
        BY <1>0 DEF Wrote
    <2> QED BY <1>2, <1>3, <1>5, <2>1
<1>6. ASSUME NEW c \in Caller, NEW b \in Build, EnsureBuild(c, b) PROVE \A q \in Run : Wrote(q)'
    <2>1. CASE UNCHANGED <<record, runs, tokens, runVars, platform>>
        BY <1>5, <2>1 DEF runVars
    <2>2. ASSUME NEW r \in Run, Start(b, r), record' = [record EXCEPT ![b].status = "queued"]
          PROVE  \A q \in Run : Wrote(q)'
        <3>1. record'[b].status = "queued" /\ \A d \in Build \ {b} : record'[d] = record[d]
            BY <1>0, <2>2 DEF TypeOK
        <3>2. pc'[r] = "queued" /\ of'[r] = b /\ \A q \in Run \ {r} : pc'[q] = pc[q]
            BY <1>0, <2>2 DEF Start, TypeOK
        <3>3. Wrote(r)'
            BY <3>1, <3>2 DEF Wrote, Settled
        <3>4. ASSUME NEW q \in Run \ {r}, pc[q] # "unused" PROVE Wrote(q)'
            <4>1. of[q] \in Build
                BY <1>0, <3>4 DEF InRuns
            <4>2. pc[q] \in Open => record'[of[q]].status \notin Settled
                BY <1>0, <3>1, <4>1 DEF Wrote, Settled
            <4> QED BY <1>2, <3>2, <3>4, <4>2
        <3> QED BY <1>3, <3>2, <3>3, <3>4
    <2> QED BY <1>6, <2>1, <2>2 DEF EnsureBuild
<1>7. ASSUME NEW r \in Run, Begin(r) PROVE \A q \in Run : Wrote(q)'
    <2>1. of[r] \in Build
        BY <1>0, <1>7 DEF Begin, InRuns
    <2>2. \A d \in Build : record[d].status \notin Settled => record'[d].status \notin Settled
        BY <1>0, <1>7, <2>1 DEF Begin, Record, TypeOK, Settled
    <2>3. ASSUME NEW q \in Run, pc'[q] # "unused" PROVE Wrote(q)'
        <3>1. pc[q] # "unused" /\ (pc'[q] \in Open => pc[q] \in Open) /\ (pc'[q] \in Done => pc[q] \in Done)
            BY <1>0, <1>7, <2>3 DEF Begin, TypeOK
        <3>2. of[q] \in Build /\ (pc[q] \in Open => record[of[q]].status \notin Settled)
            BY <1>0, <3>1 DEF Wrote, InRuns
        <3> QED BY <1>2, <2>2, <3>1, <3>2
    <2> QED BY <1>3, <2>3
<1>8. ASSUME NEW r \in Run, Settle(r) PROVE \A q \in Run : Wrote(q)'
    <2>1. of[r] \in Build /\ outcome[r] \in Settled /\ of' = of /\ outcome' = outcome /\ expired' = expired
        BY <1>0, <1>8 DEF Settle, InRuns, Holds, TypeOK
    <2>2. /\ pc'[r] = "finish" /\ \A q \in Run \ {r} : pc'[q] = pc[q]
          /\ \A d \in Build \ {of[r]} : record'[d] = record[d]
          /\ ~expired[r] => record'[of[r]].status = outcome[r] /\ record'[of[r]].golden = mem[r].golden
        BY <1>0, <1>8, <2>1 DEF Settle, Record, TypeOK
    <2>3. Wrote(r)'
        BY <1>0, <2>1, <2>2 DEF Wrote, Holds
    <2>4. ASSUME NEW q \in Run \ {r}, pc[q] # "unused" PROVE Wrote(q)'
        <3>1. of[q] \in Build
            BY <1>0, <2>4 DEF InRuns
        <3>2. pc[q] \in Open => of[q] # of[r]
            BY <1>0, <1>8 DEF InRuns, Settle
        <3>3. pc[q] \in Open => record'[of[q]].status \notin Settled
            BY <1>0, <2>2, <3>1, <3>2 DEF Wrote
        <3> QED BY <1>2, <2>2, <2>4, <3>3
    <2> QED BY <1>3, <2>2, <2>3, <2>4
<1>9. ASSUME NEW r \in Run,
             Acquire(r) \/ CreateBox(r) \/ Ready(r) \/ TakeSnapshot(r) \/ WaitSnapshot(r) \/ Pause(r)
      PROVE  \A q \in Run : Wrote(q)'
    BY <1>4, <1>9 DEF Acquire, CreateBox, Ready, TakeSnapshot, WaitSnapshot, Pause
<1>10. ASSUME NEW r \in Run, Work(r) PROVE \A q \in Run : Wrote(q)'
    <2>1. pc[r] \in Working /\ After[pc[r]] \in Working
        BY <1>10 DEF Work, After
    <2> QED BY <1>4, <1>10, <2>1 DEF Work
<1>11. ASSUME NEW r \in Run, NEW status \in Settled, Fail(r, status) PROVE \A q \in Run : Wrote(q)'
    <2>1. pc[r] \in Working
        BY <1>11 DEF Fail, Verdicts
    <2> QED BY <1>4, <1>11, <2>1 DEF Fail
<1>12. ASSUME NEW r \in Run, FinishLog(r) \/ Unregister(r) \/ Cleanup(r) \/ Release(r)
       PROVE  \A q \in Run : Wrote(q)'
    BY <1>4, <1>12 DEF FinishLog, Unregister, Cleanup, Release
<1>13. ASSUME NEW r \in Run, Expire(r) PROVE \A q \in Run : Wrote(q)'
    BY <1>5, <1>13 DEF Expire
<1>14. ASSUME NEW c \in Caller, Subscribe(c) \/ StreamEnds(c) \/ ReadOutcome(c)
       PROVE  \A q \in Run : Wrote(q)'
    BY <1>5, <1>14 DEF Subscribe, StreamEnds, ReadOutcome, runVars
<1>15. CASE Crash
    <2>1. ASSUME NEW q \in Run, pc'[q] # "unused" PROVE Wrote(q)'
        <3>1. pc[q] # "unused" /\ pc'[q] \notin Open /\ (pc'[q] \in Done => pc[q] \in Done)
            BY <1>0, <1>15, <2>1 DEF Crash, TypeOK
        <3> QED BY <1>2, <3>1
    <2> QED BY <1>3, <2>1
<1>16. CASE UNCHANGED vars
    BY <1>5, <1>16 DEF vars
<1> QED BY <1>6, <1>7, <1>8, <1>9, <1>10, <1>11, <1>12, <1>13, <1>14, <1>15, <1>16
        DEF Next, Execute, Follow

(* What a follower relies on stays: a build that has an outcome keeps it,  *)
(* and a log is finished only after the outcome was recorded.              *)
LEMMA ToldStep ==
    ASSUME BuilderInv, [Next]_vars
    PROVE  /\ \A b \in Build : Told(b) => Told(b)'
           /\ \A q \in Run : logDone'[q] => (of[q] \in Build /\ Told(of[q]))'
<1> USE BuilderAssumption DEF Goto, builderVars
<1> DEFINE said == \A q \in Run : logDone'[q] => (of[q] \in Build /\ Told(of[q]))'
<1>0. /\ TypeOK /\ \A q \in Run : InRuns(q) /\ Wrote(q)
      /\ \A q \in Run : logDone[q] => of[q] \in Build /\ Told(of[q])
    BY DEF BuilderInv
<1>1. /\ \A b \in Build : record[b].status \in Settled => record'[b] = record[b]
      /\ \A q \in Run : /\ of[q] \in Build => of'[q] = of[q]
                        /\ expired[q] => expired'[q]
    BY KnownStep
<1>2. \A b \in Build : Told(b) => Told(b)'
    BY <1>1 DEF Told
<1>3. ASSUME NEW q \in Run, of[q] \in Build, Told(of[q]) PROVE (of[q] \in Build /\ Told(of[q]))'
    <2>1. of'[q] = of[q]
        BY <1>1, <1>3
    <2> QED BY <1>2, <1>3, <2>1 DEF Told
<1>4. ASSUME UNCHANGED logDone PROVE said
    BY <1>0, <1>3, <1>4
<1>5. ASSUME NEW r \in Run, FinishLog(r) PROVE said
    <2>1. of[r] \in Build /\ Told(of[r])
        BY <1>0, <1>5 DEF FinishLog, InRuns, Wrote, Told, Ending
    <2>2. \A q \in Run \ {r} : logDone'[q] = logDone[q]
        BY <1>0, <1>5 DEF FinishLog, TypeOK
    <2> QED BY <1>0, <1>3, <2>1, <2>2
<1> HIDE DEF said
<1>6. ASSUME NEW c \in Caller, NEW b \in Build, EnsureBuild(c, b) PROVE said
    BY <1>4, <1>6 DEF EnsureBuild, Start, runVars
<1>7. ASSUME NEW r \in Run,
             \/ Acquire(r) \/ Begin(r) \/ CreateBox(r) \/ Ready(r) \/ Work(r) \/ TakeSnapshot(r)
             \/ WaitSnapshot(r) \/ Pause(r) \/ (\E status \in Settled : Fail(r, status))
             \/ Settle(r) \/ Unregister(r) \/ Cleanup(r) \/ Release(r) \/ Expire(r)
      PROVE  said
    BY <1>4, <1>7 DEF Acquire, Begin, CreateBox, Ready, Work, TakeSnapshot, WaitSnapshot, Pause, Fail,
                      Settle, Unregister, Cleanup, Release, Expire
<1>8. ASSUME NEW c \in Caller, Subscribe(c) \/ StreamEnds(c) \/ ReadOutcome(c) PROVE said
    BY <1>4, <1>8 DEF Subscribe, StreamEnds, ReadOutcome, runVars
<1>9. ASSUME Crash \/ UNCHANGED vars PROVE said
    BY <1>4, <1>9 DEF Crash, vars
<1>10. said
    BY <1>5, <1>6, <1>7, <1>8, <1>9 DEF Next, Execute, Follow
<1> QED BY <1>2, <1>10 DEF said

(* Only the run that made a golden writes that a build is ready with it,   *)
(* and b.runs gives a build none but a run of its own.                     *)
LEMMA RestorableStep ==
    ASSUME BuilderInv, [Next]_vars
    PROVE  \A b \in Build : Restorable(b)' /\ (runs'[b] # None => of'[runs'[b]] = b)
<1> USE BuilderAssumption DEF Goto, builderVars
<1> DEFINE Mine(b) == runs[b] # None => of[runs[b]] = b
<1>0. TypeOK /\ (\A b \in Build : Restorable(b) /\ Mine(b)) /\ \A q \in Run : InRuns(q) /\ Holds(q)
    BY DEF BuilderInv
<1>1. \A q \in Run : /\ of[q] \in Build => of'[q] = of[q]
                     /\ outcome[q] # None => outcome'[q] = outcome[q]
    BY KnownStep
<1>2. ASSUME NEW b \in Build, record'[b] = record[b] \/ record'[b].status # "ready" PROVE Restorable(b)'
    BY <1>0, <1>1, <1>2 DEF Restorable
<1>3. ASSUME NEW b \in Build, runs'[b] = runs[b] \/ runs'[b] = None PROVE Mine(b)'
    <2>1. runs[b] # None => runs[b] \in Run
        BY <1>0 DEF TypeOK
    <2> QED BY <1>0, <1>1, <1>3, <2>1
<1> HIDE DEF Mine
<1>4. ASSUME UNCHANGED <<record, runs>> PROVE \A b \in Build : Restorable(b)' /\ Mine(b)'
    BY <1>2, <1>3, <1>4
<1>5. ASSUME NEW c \in Caller, NEW b \in Build, EnsureBuild(c, b)
      PROVE  \A d \in Build : Restorable(d)' /\ Mine(d)'
    <2>1. CASE UNCHANGED <<record, runs, tokens, runVars, platform>>
        BY <1>4, <2>1
    <2>2. ASSUME NEW r \in Run, Start(b, r), record' = [record EXCEPT ![b].status = "queued"]
          PROVE  \A d \in Build : Restorable(d)' /\ Mine(d)'
        <3>1. \A d \in Build : record'[d] = record[d] \/ record'[d].status # "ready"
            BY <1>0, <2>2 DEF TypeOK
        <3>2. \A d \in Build \ {b} : runs'[d] = runs[d]
            BY <1>0, <2>2 DEF Start, TypeOK
        <3>3. Mine(b)'
            BY <1>0, <2>2 DEF Start, TypeOK, Mine
        <3> QED BY <1>2, <1>3, <3>1, <3>2, <3>3
    <2> QED BY <1>5, <2>1, <2>2 DEF EnsureBuild
<1>6. ASSUME NEW r \in Run, Begin(r) PROVE \A b \in Build : Restorable(b)' /\ Mine(b)'
    <2>1. of[r] \in Build
        BY <1>0, <1>6 DEF InRuns, Begin
    <2>2. \A b \in Build : record'[b] = record[b] \/ record'[b].status # "ready"
        BY <1>0, <1>6, <2>1 DEF Begin, Record, TypeOK
    <2> QED BY <1>2, <1>3, <1>6, <2>2 DEF Begin
<1>7. ASSUME NEW r \in Run, Settle(r) PROVE \A b \in Build : Restorable(b)' /\ Mine(b)'
    <2>1. of[r] \in Build /\ outcome' = outcome
        BY <1>0, <1>7 DEF InRuns, Settle, Registered
    <2>2. \A b \in Build \ {of[r]} : record'[b] = record[b]
        BY <1>0, <1>7, <2>1 DEF Settle, Record, TypeOK
    <2>3. ASSUME NEW b \in Build, b = of[r] PROVE Restorable(b)'
        <3>1. CASE expired[r] \/ outcome[r] # "ready"
            <4>1. record'[of[r]] = record[of[r]] \/ record'[of[r]].status # "ready"
                BY <1>0, <1>7, <2>1, <3>1 DEF Settle, Record, TypeOK
            <4> QED BY <1>2, <2>3, <4>1
        <3>2. CASE ~expired[r] /\ outcome[r] = "ready"
            <4>1. record'[of[r]].golden = r /\ record'[of[r]].snapshot = r
                BY <1>0, <1>7, <2>1, <3>2 DEF Settle, Record, TypeOK, Holds
            <4> QED BY <2>1, <2>3, <3>2, <4>1 DEF Restorable
        <3> QED BY <3>1, <3>2
    <2>4. \A b \in Build : Restorable(b)'
        BY <1>2, <2>2, <2>3
    <2> QED BY <1>3, <1>7, <2>4 DEF Settle
<1>8. ASSUME NEW r \in Run, Unregister(r) PROVE \A b \in Build : Restorable(b)' /\ Mine(b)'
    <2>1. \A b \in Build : runs'[b] = runs[b] \/ runs'[b] = None
        BY <1>0, <1>8 DEF Unregister, TypeOK
    <2> QED BY <1>2, <1>3, <1>8, <2>1 DEF Unregister
<1>9. ASSUME NEW r \in Run,
             \/ Acquire(r) \/ CreateBox(r) \/ Ready(r) \/ Work(r) \/ TakeSnapshot(r) \/ WaitSnapshot(r)
             \/ Pause(r) \/ (\E status \in Settled : Fail(r, status))
             \/ FinishLog(r) \/ Cleanup(r) \/ Release(r) \/ Expire(r)
      PROVE  \A b \in Build : Restorable(b)' /\ Mine(b)'
    BY <1>4, <1>9 DEF Acquire, CreateBox, Ready, Work, TakeSnapshot, WaitSnapshot, Pause, Fail,
                      FinishLog, Cleanup, Release, Expire
<1>10. ASSUME NEW c \in Caller, Subscribe(c) \/ StreamEnds(c) \/ ReadOutcome(c)
       PROVE  \A b \in Build : Restorable(b)' /\ Mine(b)'
    BY <1>4, <1>10 DEF Subscribe, StreamEnds, ReadOutcome
<1>11. ASSUME Crash PROVE \A b \in Build : Restorable(b)' /\ Mine(b)'
    BY <1>2, <1>3, <1>11 DEF Crash
<1>12. ASSUME UNCHANGED vars PROVE \A b \in Build : Restorable(b)' /\ Mine(b)'
    BY <1>4, <1>12 DEF vars
<1>13. \A b \in Build : Restorable(b)' /\ Mine(b)'
    BY <1>5, <1>6, <1>7, <1>8, <1>9, <1>10, <1>11, <1>12 DEF Next, Execute, Follow
<1> QED BY <1>13 DEF Mine

(* A caller waits only on a build that is under way or has its outcome.    *)
LEMMA FollowsStep ==
    ASSUME BuilderInv, [Next]_vars
    PROVE  \A c \in Caller : Follows(c)'
<1> USE BuilderAssumption DEF Goto, builderVars, runVars, platform
<1> DEFINE Late(b) == \E r \in Run : of[r] = b /\ expired[r]
           Awaited(b) == runs[b] # None \/ Told(b)
<1>0. /\ TypeOK /\ (\A c \in Caller : Follows(c)) /\ \A q \in Run : InRuns(q) /\ Wrote(q)
      /\ \A q \in Run : logDone[q] => of[q] \in Build /\ Told(of[q])
      /\ \A b \in Build : runs[b] # None => of[runs[b]] = b
    BY DEF BuilderInv
<1>1. \A q \in Run : (of[q] \in Build => of'[q] = of[q]) /\ (expired[q] => expired'[q])
    BY KnownStep
<1>2. \A b \in Build : (Told(b) => Told(b)') /\ (Late(b) => Late(b)')
    <2>1. \A b \in Build : Told(b) => Told(b)'
        BY ToldStep
    <2> QED BY <1>1, <2>1
<1>3. ASSUME NEW c \in Caller,
             UNCHANGED <<cpc[c], cb[c], crun[c], seen[c]>>,
             cpc[c] = "ensured" /\ Awaited(cb[c]) => Awaited(cb[c])'
      PROVE  Follows(c)'
    <2>1. CASE cpc[c] = "idle"
        BY <1>0, <1>3, <2>1 DEF Follows
    <2>2. CASE cpc[c] # "idle"
        <3>1. cb[c] \in Build /\ cb'[c] = cb[c]
            BY <1>0, <1>3, <2>2 DEF Follows
        <3>2. PICK b \in Build : b = cb[c]
            BY <3>1
        <3>3. /\ cpc[c] = "ensured" => Awaited(b)'
              /\ cpc[c] = "reading" => Told(b)'
              /\ seen[c] \in Settled \cup {None} \/ Late(b)'
            BY <1>0, <1>2, <1>3, <3>1, <3>2 DEF Follows, Told
        <3>4. cpc[c] = "following" => crun[c] \in Run /\ of'[crun[c]] = b
            BY <1>0, <1>1, <3>1, <3>2 DEF Follows
        <3>5. cpc'[c] # "idle" /\ cb'[c] = b
            BY <1>3, <2>2, <3>1, <3>2
        <3>6. /\ cpc'[c] = "ensured" => (runs[cb[c]] # None \/ Told(cb[c]))'
              /\ cpc'[c] = "reading" => Told(cb[c])'
            BY <1>3, <3>3, <3>5 DEF Told
        <3>7. (seen[c] \in Settled \cup {None} \/ Late(cb[c]))'
            BY <1>3, <3>3, <3>5
        <3>8. cpc'[c] = "following" => crun'[c] \in Run /\ of'[crun'[c]] = cb'[c]
            BY <1>3, <3>4, <3>5
        <3> HIDE DEF Late
        <3> QED BY <3>2, <3>5, <3>6, <3>7, <3>8 DEF Follows, Late
    <2> QED BY <2>1, <2>2
<1>4. ASSUME UNCHANGED <<callerVars, runs>> PROVE \A c \in Caller : Follows(c)'
    <2>1. ASSUME NEW c \in Caller, cpc[c] = "ensured" PROVE Awaited(cb[c]) => Awaited(cb[c])'
        <3>1. PICK b \in Build : b = cb[c] /\ b = cb'[c]
            BY <1>0, <1>4, <2>1 DEF Follows, callerVars
        <3>2. Awaited(b) => Awaited(b)'
            BY <1>2, <1>4
        <3> QED BY <3>1, <3>2 DEF Told
    <2> QED BY <1>3, <1>4, <2>1 DEF callerVars
<1>5. ASSUME NEW c \in Caller, NEW b \in Build, EnsureBuild(c, b) PROVE \A d \in Caller : Follows(d)'
    <2>1. /\ cb'[c] = b /\ cpc'[c] \in {"settled", "ensured"} /\ seen'[c] \in {None, "ready"}
          /\ \A d \in Caller \ {c} : UNCHANGED <<cpc[d], cb[d], crun[d], seen[d]>>
        <3>1. seen[c] = None
            BY <1>0, <1>5 DEF EnsureBuild, Follows
        <3> QED BY <1>0, <1>5, <3>1 DEF EnsureBuild, TypeOK
    <2>2. \A e \in Build : runs[e] # None => runs'[e] # None
        BY <1>0, <1>5 DEF EnsureBuild, Start, TypeOK
    <2>3. cpc'[c] = "ensured" => Awaited(b)'
        <3>1. CASE Trustworthy(b) /\ UNCHANGED <<record, runs>>
            <4>1. Awaited(b)
                BY <3>1 DEF Trustworthy, Told
            <4> QED BY <1>2, <2>2, <4>1
        <3>2. CASE \E r \in Run : Start(b, r)
            <4>1. runs'[b] # None
                BY <1>0, <3>2 DEF Start, TypeOK
            <4> QED BY <4>1
        <3> QED BY <1>5, <3>1, <3>2 DEF EnsureBuild
    <2>4. Follows(c)'
        <3>1. (cpc[c] = "ensured" => runs[cb[c]] # None \/ Told(cb[c]))'
            BY <2>1, <2>3 DEF Told
        <3> QED BY <2>1, <3>1 DEF Follows, Settled
    <2>5. ASSUME NEW d \in Caller \ {c} PROVE Follows(d)'
        <3>1. ASSUME cpc[d] = "ensured", Awaited(cb[d]) PROVE Awaited(cb[d])'
            <4>1. PICK e \in Build : e = cb[d] /\ e = cb'[d]
                BY <1>0, <2>1, <2>5, <3>1 DEF Follows
            <4>2. Awaited(e)'
                BY <1>2, <2>2, <3>1, <4>1
            <4> QED BY <4>1, <4>2 DEF Told
        <3> QED BY <1>3, <2>1, <2>5, <3>1
    <2> QED BY <2>4, <2>5
<1>6. ASSUME NEW r \in Run, Unregister(r) PROVE \A c \in Caller : Follows(c)'
    <2>1. of[r] \in Build /\ Told(of[r])
        BY <1>0, <1>6 DEF Unregister, InRuns, Wrote, Told, Registered, Ending
    <2>2. \A b \in Build : Awaited(b) => Awaited(b)'
        <3>1. \A b \in Build \ {of[r]} : runs'[b] = runs[b]
            BY <1>0, <1>6, <2>1 DEF Unregister, TypeOK
        <3>2. ASSUME NEW b \in Build, b = of[r] PROVE Told(b)'
            BY <1>2, <2>1, <3>2
        <3> QED BY <1>2, <3>1, <3>2
    <2>3. ASSUME NEW c \in Caller, cpc[c] = "ensured", Awaited(cb[c]) PROVE Awaited(cb[c])'
        <3>1. PICK b \in Build : b = cb[c] /\ b = cb'[c]
            BY <1>0, <1>6, <2>3 DEF Follows, Unregister, callerVars
        <3>2. Awaited(b)'
            BY <2>2, <2>3, <3>1
        <3> QED BY <3>1, <3>2 DEF Told
    <2> QED BY <1>3, <1>6, <2>3 DEF Unregister, callerVars
<1>7. ASSUME NEW r \in Run,
             \/ Acquire(r) \/ Begin(r) \/ CreateBox(r) \/ Ready(r) \/ Work(r) \/ TakeSnapshot(r)
             \/ WaitSnapshot(r) \/ Pause(r) \/ (\E status \in Settled : Fail(r, status))
             \/ Settle(r) \/ FinishLog(r) \/ Cleanup(r) \/ Release(r) \/ Expire(r)
      PROVE  \A c \in Caller : Follows(c)'
    BY <1>4, <1>7 DEF Acquire, Begin, CreateBox, Ready, Work, TakeSnapshot, WaitSnapshot, Pause, Fail,
                      Settle, FinishLog, Cleanup, Release, Expire
<1>8. ASSUME NEW c \in Caller, UNCHANGED <<record, runs, of, expired, cb>>,
             \A d \in Caller \ {c} : UNCHANGED <<cpc[d], crun[d], seen[d]>>,
             Follows(c)'
      PROVE  \A d \in Caller : Follows(d)'
    <2>1. ASSUME NEW d \in Caller \ {c} PROVE Follows(d)'
        BY <1>3, <1>8, <2>1 DEF Told
    <2> QED BY <1>8, <2>1
<1>9. ASSUME NEW c \in Caller, Subscribe(c) PROVE \A d \in Caller : Follows(d)'
    <2>1. cb[c] \in Build /\ Awaited(cb[c]) /\ UNCHANGED <<record, of, expired, cb, seen>>
        BY <1>0, <1>9 DEF Subscribe, Follows
    <2>2. cpc'[c] = "reading" => Told(cb[c])
        BY <1>0, <1>9, <2>1 DEF Subscribe, TypeOK
    <2>3. cpc'[c] = "following" => crun'[c] \in Run /\ of[crun'[c]] = cb[c]
        BY <1>0, <1>9, <2>1 DEF Subscribe, TypeOK
    <2>4. cpc'[c] \in {"reading", "following"}
        BY <1>0, <1>9 DEF Subscribe, TypeOK
    <2>5. Follows(c)'
        BY <1>0, <2>1, <2>2, <2>3, <2>4 DEF Follows, Told
    <2> QED BY <1>0, <1>8, <1>9, <2>5 DEF Subscribe, TypeOK
<1>10. ASSUME NEW c \in Caller, StreamEnds(c) PROVE \A d \in Caller : Follows(d)'
    <2>1. cb[c] \in Build /\ Told(cb[c]) /\ cpc'[c] = "reading" /\ UNCHANGED <<record, of, expired, cb, seen>>
        BY <1>0, <1>10 DEF StreamEnds, Follows, TypeOK
    <2>2. Follows(c)'
        BY <1>0, <2>1 DEF Follows, Told
    <2> QED BY <1>0, <1>8, <1>10, <2>2 DEF StreamEnds, TypeOK
<1>11. ASSUME NEW c \in Caller, ReadOutcome(c) PROVE \A d \in Caller : Follows(d)'
    <2>1. /\ cb[c] \in Build /\ Told(cb[c]) /\ cpc'[c] = "settled" /\ UNCHANGED <<record, of, expired, cb>>
          /\ seen'[c] = record[cb[c]].status
        BY <1>0, <1>11 DEF ReadOutcome, Follows, TypeOK
    <2>2. Follows(c)'
        BY <2>1 DEF Follows, Told
    <2> QED BY <1>0, <1>8, <1>11, <2>2 DEF ReadOutcome, TypeOK
<1>12. ASSUME Crash PROVE \A c \in Caller : Follows(c)'
    <2>1. ASSUME NEW c \in Caller PROVE Follows(c)'
        <3>1. cpc'[c] \in {"idle", "settled", "gone"} /\ (cpc'[c] = "idle" <=> cpc[c] = "idle")
            BY <1>0, <1>12 DEF Crash, TypeOK
        <3> QED BY <1>0, <1>12, <3>1 DEF Crash, Follows
    <2> QED BY <2>1
<1>13. ASSUME UNCHANGED vars PROVE \A c \in Caller : Follows(c)'
    BY <1>4, <1>13 DEF vars, callerVars
<1> QED BY <1>5, <1>6, <1>7, <1>9, <1>10, <1>11, <1>12, <1>13 DEF Next, Execute, Follow

-------------------------------------------------------------------------------
(* Nothing has happened yet: every part of the invariant is vacuous.       *)
LEMMA InvInit ==
    ASSUME Init
    PROVE  BuilderInv
<1> USE BuilderAssumption
<1>1. TypeOK
    BY DEF Init, TypeOK, Locations, Settled
<1>2. Slots
    <2>1. {r \in Run : pc[r] \in Holding} = {}
        BY DEF Init, Holding, InFlight, Locations
    <2> QED BY <2>1, FS_EmptySet DEF Init, Slots
<1>3. \A r \in Run : InRuns(r) /\ Holds(r) /\ Wrote(r)
    <2>1. ASSUME NEW r \in Run PROVE pc[r] = "unused" /\ of[r] = None /\ sb[r] = None /\ outcome[r] = None
        BY DEF Init
    <2>2. \A r \in Run : InRuns(r) /\ Wrote(r)
        BY <2>1 DEF InRuns, Wrote, Registered, Working, Ending
    <2>3. \A r \in Run : Holds(r)
        BY <2>1 DEF Holds, Working, Registered, Preparing, Ending
    <2> QED BY <2>2, <2>3
<1>4. \A r \in Run : ~logDone[r]
    BY DEF Init
<1>5. \A b \in Build : Restorable(b) /\ runs[b] = None
    BY DEF Init, Restorable
<1>6. \A c \in Caller : Follows(c)
    BY DEF Init, Follows
<1> QED BY <1>1, <1>2, <1>3, <1>4, <1>5, <1>6 DEF BuilderInv

(* BuilderInv is an invariant of the builder.                              *)
THEOREM BuilderInvariant == Spec => []BuilderInv
<1>1. ASSUME BuilderInv, [Next]_vars PROVE BuilderInv'
    <2>1. \A r \in Run : (logDone[r] => of[r] \in Build /\ Told(of[r]))'
        BY <1>1, ToldStep
    <2>2. Tracked
        BY <1>1 DEF BuilderInv, Tracked, Holds, Follows
    <2> QED BY <1>1, <2>1, <2>2, TypeStep, SlotsStep, InRunsStep, HoldsStep, WroteStep, RestorableStep, FollowsStep
            DEF BuilderInv
<1> QED BY <1>1, InvInit, PTL DEF Spec

(* Every variable has its type.                                            *)
THEOREM TypeCorrect == Spec => []TypeOK
<1>1. BuilderInv => TypeOK
    BY DEF BuilderInv
<1> QED BY <1>1, BuilderInvariant, PTL

(* Concurrent callers for one commit share one build: no commit has two    *)
(* registered runs, whatever failed, restarted or is being cleaned up.     *)
THEOREM OneBuildPerCommit == Spec => []OneRunPerBuild
<1>1. BuilderInv => OneRunPerBuild
    BY DEF BuilderInv, OneRunPerBuild, InRuns
<1> QED BY <1>1, BuilderInvariant, PTL

(* At most Concurrency pipelines run, the ones deleting their sandbox      *)
(* included, across timeouts and restarts.                                 *)
THEOREM PoolIsBounded == Spec => []PoolBound
<1>1. BuilderInv => PoolBound
    BY DEF BuilderInv, Slots, PoolBound
<1> QED BY <1>1, BuilderInvariant, PTL

(* A record that says ready names a finished snapshot and the sandbox that *)
(* owns it, and the deferred delete of no run takes them away.             *)
THEOREM ReadyStaysRestorable == Spec => []ReadyIsRestorable
<1>1. ASSUME BuilderInv PROVE ReadyIsRestorable
    BY <1>1 DEF BuilderInv, ReadyIsRestorable, Restorable, Holds
<1> QED BY <1>1, BuilderInvariant, PTL

(* A finished run leaves a sandbox nobody refers to only when its Delete   *)
(* failed, when the id was lost with the answer of the create or by        *)
(* WaitReady, or when its time was up before the outcome was recorded.     *)
THEOREM OrphansAreExplained == Spec => []OrphansHaveACause
<1>1. ASSUME BuilderInv, NEW r \in Run, Orphan(r), box[r] # "left", sb[r] # None, ~expired[r] PROVE FALSE
    BY <1>1 DEF BuilderInv, Orphan, Holds, Wrote, Ending
<1>2. BuilderInv => OrphansHaveACause
    BY <1>1 DEF OrphansHaveACause
<1> QED BY <1>2, BuilderInvariant, PTL

(* A caller acts on an outcome, never on a build still under way, unless   *)
(* the timeout kept the outcome from being recorded.                       *)
THEOREM CallersHearOutcomes == Spec => []CallersActOnOutcomes
<1>1. BuilderInv => CallersActOnOutcomes
    BY DEF BuilderInv, CallersActOnOutcomes, Follows
<1> QED BY <1>1, BuilderInvariant, PTL

(* A recorded outcome is never rewritten.                                  *)
THEOREM OutcomesStay == Spec => OutcomesAreFinal
<1>1. BuilderInv /\ [Next]_vars =>
        [\A b \in Build : record[b].status \in Settled => record'[b] = record[b]]_vars
    BY KnownStep
<1> QED BY <1>1, BuilderInvariant, PTL DEF Spec, OutcomesAreFinal

-------------------------------------------------------------------------------
(* Visitors who find the snapshot gone.                                    *)

(* Builder keeps Tracked without the parts of BuilderInv that a reset of   *)
(* the record breaks.                                                      *)
LEMMA TrackedStep ==
    ASSUME Tracked, [Next]_vars
    PROVE  Tracked'
<1> USE BuilderAssumption DEF Goto, Ending
<1> DEFINE Decided == \A q \in Run : pc[q] \in Ending => outcome[q] # None
           Asked == \A c \in Caller : cpc[c] # "idle" => cb[c] \in Build
<1>0. TypeOK /\ Decided /\ Asked
    BY DEF Tracked
<1>1. ASSUME UNCHANGED <<cpc, cb>> PROVE Asked'
    BY <1>0, <1>1
<1>2. ASSUME UNCHANGED <<pc, outcome>> PROVE Decided'
    BY <1>0, <1>2
<1>3. ASSUME NEW c \in Caller, NEW b \in Build, EnsureBuild(c, b) PROVE Decided' /\ Asked'
    <2>1. Asked'
        BY <1>0, <1>3 DEF EnsureBuild, TypeOK
    <2>2. CASE UNCHANGED <<record, runs, tokens, runVars, platform>>
        BY <1>2, <2>1, <2>2 DEF runVars
    <2>3. ASSUME NEW r \in Run, Start(b, r) PROVE Decided'
        BY <1>0, <2>3 DEF Start, TypeOK
    <2> QED BY <1>3, <2>1, <2>2, <2>3 DEF EnsureBuild
<1>4. ASSUME NEW r \in Run,
             Acquire(r) \/ Begin(r) \/ CreateBox(r) \/ Ready(r) \/ TakeSnapshot(r) \/ WaitSnapshot(r)
      PROVE  Decided' /\ Asked'
    BY <1>0, <1>4 DEF Acquire, Begin, CreateBox, Ready, TakeSnapshot, WaitSnapshot, callerVars, TypeOK
<1>5. ASSUME NEW r \in Run, Work(r) PROVE Decided' /\ Asked'
    <2>1. After[pc[r]] \notin Ending
        BY <1>5 DEF Work, After
    <2> QED BY <1>0, <1>5, <2>1 DEF Work, callerVars, TypeOK
<1>6. ASSUME NEW r \in Run, Pause(r) \/ \E status \in Settled : Fail(r, status) PROVE Decided' /\ Asked'
    BY <1>0, <1>6 DEF Pause, Fail, callerVars, TypeOK, Settled
<1>7. ASSUME NEW r \in Run, Settle(r) \/ FinishLog(r) \/ Unregister(r) \/ Cleanup(r) \/ Release(r)
      PROVE  Decided' /\ Asked'
    BY <1>0, <1>7 DEF Settle, FinishLog, Unregister, Cleanup, Release, callerVars, TypeOK
<1>8. ASSUME NEW r \in Run, Expire(r) PROVE Decided' /\ Asked'
    BY <1>1, <1>2, <1>8 DEF Expire, callerVars
<1>9. ASSUME NEW c \in Caller, Subscribe(c) \/ StreamEnds(c) \/ ReadOutcome(c) PROVE Decided' /\ Asked'
    BY <1>0, <1>9 DEF Subscribe, StreamEnds, ReadOutcome, builderVars, runVars, TypeOK
<1>10. ASSUME Crash PROVE Decided' /\ Asked'
    BY <1>0, <1>10 DEF Crash, TypeOK
<1>11. ASSUME UNCHANGED vars PROVE Decided' /\ Asked'
    BY <1>1, <1>2, <1>11 DEF vars, runVars, callerVars
<1>12. Decided' /\ Asked'
    BY <1>3, <1>4, <1>5, <1>6, <1>7, <1>8, <1>9, <1>10, <1>11 DEF Next, Execute, Follow
<1> HIDE DEF Decided, Asked
<1>13. Tracked' <=> TypeOK' /\ (\A q \in Run : InRuns(q)') /\ Decided' /\ Asked'
    BY DEF Tracked, Decided, Asked
<1> QED BY <1>12, <1>13, TypeStep, InRunsStep

(* What the builder does for visitors is a step of Builder, and what they  *)
(* do themselves starts and ends no run.                                   *)
LEMMA VisitorsStep ==
    ASSUME Tracked, [VisitorsNext]_allVars
    PROVE  Tracked'
<1>1. CASE [Next]_vars
    BY <1>1, TrackedStep
<1>2. ASSUME TypeOK', UNCHANGED <<pc, of, runs, outcome, cb>>, \A c \in Caller : cpc'[c] \in {cpc[c], "idle"}
      PROVE  Tracked'
    BY <1>2 DEF Tracked, InRuns
<1>3. ASSUME NEW c \in Caller, Refused(c) PROVE Tracked'
    <2>1. UNCHANGED <<store, builderVars, runVars, callerVars>>
        BY <1>3 DEF Refused
    <2>2. /\ box' \in [Run -> {"none", "up", "paused", "left", "deleted"}]
          /\ snap' \in [Run -> {"none", "capturing", "ready", "gone"}]
          /\ mishaps' \in 0 .. MaxMishaps
        <3>1. CASE UNCHANGED <<platform, mishaps>>
            BY <3>1 DEF Tracked, TypeOK, platform
        <3>2. CASE Delete(bld[c].golden)
            BY <3>2, DeleteEffect DEF Tracked
        <3> QED BY <1>3, <3>1, <3>2 DEF Refused
    <2> QED BY <1>2, <2>1, <2>2 DEF store, builderVars, runVars, callerVars, Tracked, TypeOK
<1>4. ASSUME NEW c \in Caller, Requeue(c) PROVE Tracked'
    <2>1. UNCHANGED <<builderVars, runVars, platform, cb, mishaps>>
        BY <1>4 DEF Requeue
    <2>2. record' \in [Build -> [status : Settled \cup {"none", "queued", "building"},
                                  golden : Run \cup {None}, snapshot : Run \cup {None}]]
        BY <1>4 DEF Requeue, Tracked, TypeOK
    <2>3. /\ cpc' \in [Caller -> {"idle", "ensured", "following", "reading", "settled", "gone"}]
          /\ crun' \in [Caller -> Run \cup {None}]
          /\ seen' \in [Caller -> Settled \cup {"none", "queued", "building", None}]
          /\ \A d \in Caller : cpc'[d] \in {cpc[d], "idle"}
        BY <1>4 DEF Requeue, Tracked, TypeOK
    <2> QED BY <1>2, <2>1, <2>2, <2>3 DEF builderVars, runVars, platform, Tracked, TypeOK
<1>5. ASSUME NEW c \in Caller, NEW b \in Build, Visit(c, b) PROVE [Next]_vars
    BY <1>5 DEF Visit, Next
<1>6. ASSUME NEW c \in Caller, Subscribe(c) \/ StreamEnds(c) \/ FinalRecord(c) PROVE [Next]_vars
    BY <1>6 DEF FinalRecord, Next, Follow
<1>7. ASSUME NEW c \in Caller, TurnedAway(c) \/ Restore(c) \/ GiveUp(c) PROVE [Next]_vars
    BY <1>7 DEF TurnedAway, Restore, GiveUp
<1>8. ASSUME NEW r \in Run, Pipeline(r) PROVE [Next]_vars
    BY <1>8 DEF Pipeline, Next
<1>9. CASE VisitorsCrash
    BY <1>1, <1>9 DEF VisitorsCrash, Next
<1>10. CASE UNCHANGED allVars
    BY <1>1, <1>10 DEF allVars
<1> QED BY <1>1, <1>3, <1>4, <1>5, <1>6, <1>7, <1>8, <1>9, <1>10
        DEF VisitorsNext, Arrive, EnsureAgain, Proceed

(* However many visitors find the snapshot gone, at once or one after the  *)
(* other, and delete the golden and queue the commit again, no commit has  *)
(* two registered runs (session.go:363-376).                               *)
THEOREM OneBuildWhenRebuilt == VisitorsSpec => []OneRunPerBuild
<1>1. VisitorsInit => Tracked
    BY InvInit DEF VisitorsInit, BuilderInv, Tracked, Holds, Follows
<1>2. Tracked => OneRunPerBuild
    BY DEF Tracked, OneRunPerBuild, InRuns
<1>3. VisitorsInit /\ [][VisitorsNext]_allVars => []Tracked
    BY <1>1, VisitorsStep, PTL
<1>4. VisitorsSpec => VisitorsInit /\ [][VisitorsNext]_allVars
    BY DEF VisitorsSpec
<1> QED BY <1>2, <1>3, <1>4, PTL

-------------------------------------------------------------------------------
(* What a golden's record and its copies go through.                       *)

(* A run that names its sandbox to nobody any more.                        *)
Behind == {"finish", "unregister", "cleanup", "release", "over", "lost"}

(* A record under a run that works on it has no outcome, whoever reset it. *)
Unsettled == \A r \in Run : pc[r] \in Working \cup {"settle"} => record[of[r]].status \notin Settled

(* A golden that a record names, or a run will name, is that run's own or  *)
(* of a run that is behind.                                                *)
Named ==
    /\ \A b \in Build : record[b].golden # None => pc[record[b].golden] \in Behind
    /\ \A r \in Run : mem[r].golden # None =>
           \/ pc[mem[r].golden] \in Behind
           \/ mem[r].golden = r /\ pc[r] \notin {"unused", "queued", "begin", "create"}

(* So is the one of a copy; and a visitor about to reset the record has    *)
(* asked for the delete of the golden of its copy.                         *)
Copied ==
    /\ vpc \in [Caller -> {"follow", "requeue", "up", "ended", "gone"}]
    /\ bld \in [Caller -> [status : Settled \cup {"none", "queued", "building"},
                           golden : Run \cup {None}, snapshot : Run \cup {None}]]
    /\ \A c \in Caller : bld[c].golden # None => pc[bld[c].golden] \in Behind
    /\ \A c \in Caller : vpc[c] = "requeue" =>
           /\ cpc[c] = "settled"
           /\ bld[c].golden # None => box[bld[c].golden] \in Condemned

(* Builder writes the ids of a golden into its record only, keeps behind   *)
(* what is behind, and saves no golden whose delete was asked for.         *)
LEMMA NamedStep ==
    ASSUME Tracked, Unsettled, Named, [Next]_vars
    PROVE  /\ Unsettled' /\ Named'
           /\ \A q \in Run : pc[q] \in Behind =>
                  pc'[q] \in Behind /\ (box[q] \in Condemned => box'[q] \in Condemned)
<1> USE BuilderAssumption DEF Goto, Locations, Behind, platform
<1> DEFINE Open == Working \cup {"settle"}
           Early == {"unused", "queued", "begin", "create"}
           Goal == /\ Unsettled' /\ Named'
                   /\ \A q \in Run : pc[q] \in Behind =>
                          pc'[q] \in Behind /\ (box[q] \in Condemned => box'[q] \in Condemned)
<1>0. /\ TypeOK /\ None \notin Run \cup Build
      /\ pc \in [Run -> Locations] /\ of \in [Run -> Build \cup {None}]
      /\ record \in [Build -> [status : Settled \cup {"none", "queued", "building"},
                               golden : Run \cup {None}, snapshot : Run \cup {None}]]
      /\ mem \in [Run -> [golden : Run \cup {None}, snapshot : Run \cup {None}]]
      /\ box \in [Run -> {"none", "up", "paused", "left", "deleted"}]
      /\ \A q \in Run : pc[q] # "unused" => of[q] \in Build
    BY DEF Tracked, TypeOK, InRuns
<1>1. ASSUME UNCHANGED <<record, pc, of, mem, box>> PROVE Goal
    BY <1>1 DEF Unsettled, Named
<1>2. ASSUME NEW r \in Run, NEW l \in Locations, pc[r] # "unused", Goto(r, l), UNCHANGED <<record, of, mem>>,
             l \in Open => pc[r] \in Open, pc[r] \in Behind => l \in Behind,
             l \in Early => pc[r] \in Early,
             \A q \in Run : q # r /\ box[q] \in Condemned => box'[q] \in Condemned,
             pc[r] \in Behind /\ box[r] \in Condemned => box'[r] \in Condemned
      PROVE  Goal
    <2>1. pc'[r] = l /\ \A q \in Run \ {r} : pc'[q] = pc[q]
        BY <1>0, <1>2
    <2>2. Unsettled'
        BY <1>0, <1>2, <2>1 DEF Unsettled
    <2>3. \A q \in Run : (pc[q] \in Behind => pc'[q] \in Behind) /\ (pc[q] \notin Early => pc'[q] \notin Early)
        BY <1>0, <1>2, <2>1
    <2>4. Named'
        BY <1>0, <1>2, <2>3 DEF Named
    <2> QED BY <1>2, <2>2, <2>3, <2>4
<1>3. ASSUME NEW c \in Caller, NEW b \in Build, EnsureBuild(c, b) PROVE Goal
    <2>1. CASE UNCHANGED <<record, runs, tokens, runVars, platform>>
        BY <1>1, <2>1 DEF runVars
    <2>2. ASSUME NEW r \in Run, Start(b, r), record' = [record EXCEPT ![b].status = "queued"]
          PROVE  Goal
        <3>1. /\ record'[b].status = "queued" /\ \A d \in Build \ {b} : record'[d] = record[d]
              /\ \A d \in Build : record'[d].golden = record[d].golden
            BY <1>0, <2>2
        <3>2. /\ pc[r] = "unused" /\ pc'[r] = "queued" /\ of'[r] = b /\ mem'[r].golden = record[b].golden
              /\ \A q \in Run \ {r} : pc'[q] = pc[q] /\ of'[q] = of[q] /\ mem'[q] = mem[q]
              /\ UNCHANGED box
            BY <1>0, <2>2 DEF Start
        <3>3. Unsettled'
            <4>1. ASSUME NEW q \in Run \ {r}, pc[q] \in Open PROVE record'[of[q]].status \notin Settled
                <5>1. of[q] \in Build
                    BY <1>0, <4>1 DEF Working, Registered
                <5> QED BY <3>1, <4>1, <5>1 DEF Unsettled, Settled
            <4>2. record'[of'[r]].status \notin Settled
                BY <3>1, <3>2 DEF Settled
            <4> QED BY <3>2, <4>1, <4>2 DEF Unsettled
        <3>4. \A q \in Run : pc[q] \in Behind => pc'[q] \in Behind
            BY <3>2
        <3>5. \A d \in Build : record'[d].golden # None => pc'[record'[d].golden] \in Behind
            BY <1>0, <3>1, <3>4 DEF Named
        <3>6. \A q \in Run : mem'[q].golden # None =>
                  \/ pc'[mem'[q].golden] \in Behind
                  \/ mem'[q].golden = q /\ pc'[q] \notin Early
            <4>1. record[b].golden # None => record[b].golden \in Run /\ pc'[record[b].golden] \in Behind
                BY <1>0, <3>1, <3>5
            <4>2. \A q \in Run \ {r} : mem[q].golden # None =>
                      \/ pc'[mem[q].golden] \in Behind
                      \/ mem[q].golden = q /\ pc'[q] \notin Early
                BY <1>0, <3>2, <3>4 DEF Named
            <4> QED BY <3>2, <4>1, <4>2
        <3> QED BY <3>2, <3>3, <3>4, <3>5, <3>6 DEF Named
    <2> QED BY <1>3, <2>1, <2>2 DEF EnsureBuild
<1>4. ASSUME NEW r \in Run, Acquire(r) \/ Ready(r) \/ TakeSnapshot(r) \/ WaitSnapshot(r)
      PROVE  Goal
    BY <1>2, <1>4 DEF Acquire, Ready, TakeSnapshot, WaitSnapshot, Working, Registered
<1>5. ASSUME NEW r \in Run, Work(r) PROVE Goal
    <2>1. pc[r] \in Working \ Early /\ After[pc[r]] \in Working \ Early
        BY <1>5 DEF Work, After, Working, Registered
    <2> QED BY ZenonT(30), <1>2, <1>5, <2>1 DEF Work, Working, Registered
<1>6. ASSUME NEW r \in Run, NEW status \in Settled, Fail(r, status) PROVE Goal
    <2>1. pc[r] \in Working
        BY <1>6 DEF Fail, Verdicts, Working, Registered
    <2>2. /\ Goto(r, "settle") /\ UNCHANGED <<record, of, mem>>
          /\ \A q \in Run : q # r => box'[q] = box[q]
        BY <1>0, <1>6 DEF Fail
    <2> QED BY <1>2, <2>1, <2>2 DEF Working, Registered
<1>7. ASSUME NEW r \in Run, Begin(r) \/ Settle(r) PROVE Goal
    <2>1. pc[r] \in Open /\ of[r] \in Build /\ UNCHANGED <<of, mem, box>>
        BY <1>0, <1>7 DEF Begin, Settle, Working, Registered
    <2>2. /\ pc'[r] \in {"create", "finish"} /\ (pc'[r] = "create") = (pc[r] = "begin")
          /\ pc[r] \in {"begin", "settle"}
          /\ \A q \in Run \ {r} : pc'[q] = pc[q]
        BY <1>0, <1>7 DEF Begin, Settle
    <2>3. /\ \A d \in Build \ {of[r]} : record'[d] = record[d]
          /\ record'[of[r]].golden \in {record[of[r]].golden, mem[r].golden}
          /\ pc[r] = "begin" => record'[of[r]].status \in {record[of[r]].status, "building"}
        BY <1>0, <1>7, <2>1 DEF Begin, Settle, Record
    <2>4. Unsettled'
        <3>1. ASSUME NEW q \in Run, pc'[q] \in Open PROVE record'[of[q]].status \notin Settled
            <4>1. CASE q = r
                <5>1. pc[r] = "begin"
                    BY <2>2, <3>1, <4>1 DEF Working, Registered
                <5> QED BY <2>1, <2>3, <4>1, <5>1 DEF Unsettled, Settled
            <4>2. CASE q # r /\ of[q] # of[r]
                <5>1. pc[q] = pc'[q] /\ of[q] \in Build
                    BY <1>0, <2>2, <3>1, <4>2 DEF Working, Registered
                <5> QED BY <2>3, <3>1, <4>2, <5>1 DEF Unsettled
            <4>3. CASE q # r /\ of[q] = of[r]
                <5>1. pc[q] = pc'[q] /\ pc[q] \in Registered /\ pc[r] \in Registered
                    BY <2>2, <3>1, <4>3 DEF Working, Registered
                <5> QED BY <4>3, <5>1 DEF Tracked, InRuns
            <4> QED BY <4>1, <4>2, <4>3
        <3> QED BY <2>1, <3>1 DEF Unsettled
    <2>5. \A q \in Run : (pc[q] \in Behind => pc'[q] \in Behind) /\ (pc[q] \notin Early => pc'[q] \notin Early)
        BY <2>2
    <2>6. mem[r].golden # None => pc'[mem[r].golden] \in Behind
        <3>1. CASE mem[r].golden # None /\ pc[mem[r].golden] \in Behind
            BY <1>0, <2>5, <3>1
        <3>2. CASE mem[r].golden = r /\ pc[r] \notin Early
            BY <2>2, <3>2
        <3> QED BY <3>1, <3>2 DEF Named
    <2>7. \A d \in Build : record'[d].golden # None => pc'[record'[d].golden] \in Behind
        <3>1. \A d \in Build : record[d].golden # None => pc'[record[d].golden] \in Behind
            BY <1>0, <2>5 DEF Named
        <3> QED BY <2>1, <2>3, <2>6, <3>1
    <2>8. \A q \in Run : mem'[q].golden # None =>
              \/ pc'[mem'[q].golden] \in Behind
              \/ mem'[q].golden = q /\ pc'[q] \notin Early
        BY <1>0, <2>1, <2>5 DEF Named
    <2> QED BY <2>1, <2>4, <2>5, <2>7, <2>8 DEF Named
<1>8. ASSUME NEW r \in Run, CreateBox(r) \/ Pause(r) PROVE Goal
    <2>1. /\ pc[r] \in {"create", "pause"} /\ pc'[r] \in {"waitReady", "settle"}
          /\ \A q \in Run \ {r} : pc'[q] = pc[q] /\ box'[q] = box[q] /\ mem'[q] = mem[q]
          /\ mem'[r].golden = r \/ (pc[r] = "pause" /\ mem'[r].golden = mem[r].golden)
          /\ UNCHANGED <<record, of>>
        BY <1>0, <1>8 DEF CreateBox, Pause
    <2>2. \A q \in Run : (pc[q] \in Behind => pc'[q] \in Behind) /\ (pc[q] \notin Early => pc'[q] \notin Early)
        BY <2>1
    <2>3. Unsettled'
        BY <1>0, <2>1 DEF Unsettled, Working, Registered
    <2>4. \A d \in Build : record'[d].golden # None => pc'[record'[d].golden] \in Behind
        BY <1>0, <2>1, <2>2 DEF Named
    <2>5. \A q \in Run : mem'[q].golden # None =>
              \/ pc'[mem'[q].golden] \in Behind
              \/ mem'[q].golden = q /\ pc'[q] \notin Early
        <3>1. \A q \in Run : mem[q].golden # None =>
                  \/ pc'[mem[q].golden] \in Behind
                  \/ mem[q].golden = q /\ pc'[q] \notin Early
            BY <1>0, <2>2 DEF Named
        <3> QED BY <2>1, <3>1
    <2> QED BY <2>1, <2>2, <2>3, <2>4, <2>5 DEF Named
<1>9. ASSUME NEW r \in Run, FinishLog(r) \/ Unregister(r) \/ Release(r) PROVE Goal
    BY <1>2, <1>9 DEF FinishLog, Unregister, Release, Working, Registered
<1>10. ASSUME NEW r \in Run, Cleanup(r) PROVE Goal
    <2>1. \A q \in Run : box[q] \in Condemned => box'[q] \in Condemned
        <3>1. CASE UNCHANGED platform
            BY <3>1
        <3>2. CASE Delete(sb[r])
            BY <1>0, <3>2, DeleteEffect
        <3> QED BY <1>10, <3>1, <3>2 DEF Cleanup
    <2> QED BY <1>2, <1>10, <2>1 DEF Cleanup, Working, Registered
<1>11. ASSUME NEW r \in Run, Expire(r) PROVE Goal
    BY <1>1, <1>11 DEF Expire
<1>12. ASSUME NEW c \in Caller, Follow(c) PROVE Goal
    BY <1>1, <1>12 DEF Follow, Subscribe, StreamEnds, ReadOutcome, runVars
<1>13. CASE Crash
    <2>1. /\ \A q \in Run : pc'[q] = pc[q] \/ pc'[q] = "lost"
          /\ UNCHANGED <<record, of, mem, box>>
        BY <1>13 DEF Crash
    <2>2. Unsettled'
        BY <2>1 DEF Unsettled, Working, Registered
    <2> QED BY <1>0, <2>1, <2>2 DEF Named
<1>14. CASE UNCHANGED vars
    BY <1>1, <1>14 DEF vars
<1>15. Goal
    BY <1>3, <1>4, <1>5, <1>6, <1>7, <1>8, <1>9, <1>10, <1>11, <1>12, <1>13, <1>14 DEF Next, Execute
<1> QED BY <1>15

(* A copy is of a record as it was, and a visitor asks for the delete of   *)
(* the golden of its copy before it resets the record (session.go:363-376).*)
LEMMA CopiedStep ==
    ASSUME Tracked, Unsettled, Named, Copied, [VisitorsNext]_allVars
    PROVE  Unsettled' /\ Named' /\ Copied'
<1> USE BuilderAssumption
<1> DEFINE Copy == [status : Settled \cup {"none", "queued", "building"},
                    golden : Run \cup {None}, snapshot : Run \cup {None}]
<1>0. /\ TypeOK /\ None \notin Run \cup Build
      /\ record \in [Build -> Copy] /\ bld \in [Caller -> Copy]
      /\ vpc \in [Caller -> {"follow", "requeue", "up", "ended", "gone"}]
      /\ cpc \in [Caller -> {"idle", "ensured", "following", "reading", "settled", "gone"}]
      /\ box \in [Run -> {"none", "up", "paused", "left", "deleted"}]
      /\ \A q \in Run : pc[q] # "unused" => of[q] \in Build
    BY DEF Tracked, TypeOK, InRuns, Copied
<1>t. TypeOK' /\ record' \in [Build -> Copy]
    BY VisitorsStep DEF Tracked, TypeOK
(* A step of Builder, with what the visitors take down of it.              *)
<1>1. ASSUME [Next]_vars,
             \A c \in Caller : \/ bld'[c] = bld[c]
                               \/ vpc[c] # "requeue" /\ \E b \in Build : bld'[c] = record'[b],
             DOMAIN bld' = Caller, bld' = [c \in Caller |-> bld'[c]],
             \A c \in Caller : vpc'[c] = "requeue" => vpc[c] = "requeue" /\ cpc'[c] = cpc[c],
             vpc' \in [Caller -> {"follow", "requeue", "up", "ended", "gone"}]
      PROVE  Unsettled' /\ Named' /\ Copied'
    <2>1. /\ Unsettled' /\ Named'
          /\ \A q \in Run : pc[q] \in Behind =>
                 pc'[q] \in Behind /\ (box[q] \in Condemned => box'[q] \in Condemned)
        BY <1>1, NamedStep
    <2>2. \A c \in Caller : bld'[c] \in Copy
        BY <1>0, <1>1, <1>t
    <2>3. bld' \in [Caller -> Copy]
        BY <1>1, <2>2
    <2>4. \A c \in Caller : bld'[c].golden # None => pc'[bld'[c].golden] \in Behind
        <3>1. ASSUME NEW c \in Caller, bld'[c] = bld[c], bld[c].golden # None
              PROVE  pc'[bld[c].golden] \in Behind
            <4>1. bld[c].golden \in Run
                BY <1>0, <3>1
            <4> QED BY <2>1, <3>1, <4>1 DEF Copied
        <3>2. ASSUME NEW c \in Caller, NEW b \in Build, bld'[c] = record'[b], record'[b].golden # None
              PROVE  pc'[record'[b].golden] \in Behind
            BY <2>1, <3>2 DEF Named
        <3> QED BY <1>1, <3>1, <3>2
    <2>5. ASSUME NEW c \in Caller, vpc'[c] = "requeue"
          PROVE  cpc'[c] = "settled" /\ (bld'[c].golden # None => box'[bld'[c].golden] \in Condemned)
        <3>1. vpc[c] = "requeue" /\ cpc'[c] = "settled" /\ bld'[c] = bld[c]
            BY <1>1, <2>5 DEF Copied
        <3>2. bld[c].golden # None => bld[c].golden \in Run
            BY <1>0
        <3> QED BY <2>1, <3>1, <3>2 DEF Copied
    <2> HIDE DEF Copy
    <2> QED BY <1>1, <2>1, <2>3, <2>4, <2>5 DEF Copied, Copy
<1>2. ASSUME [Next]_vars, UNCHANGED <<vpc, bld>>,
             \A c \in Caller : vpc[c] = "requeue" => cpc'[c] = cpc[c]
      PROVE  Unsettled' /\ Named' /\ Copied'
    <2>1. bld' = [c \in Caller |-> bld'[c]] /\ DOMAIN bld' = Caller
        BY <1>0, <1>2
    <2> QED BY <1>0, <1>1, <1>2, <2>1
<1>3. ASSUME NEW c \in Caller, NEW b \in Build, Visit(c, b) PROVE Unsettled' /\ Named' /\ Copied'
    <2>1. [Next]_vars /\ vpc[c] = "follow" /\ cpc[c] = "idle" /\ UNCHANGED vpc
        BY <1>3 DEF Visit, EnsureBuild, Next
    <2>2. bld'[c] = record'[b] /\ \A d \in Caller \ {c} : bld'[d] = bld[d]
        BY <1>0, <1>3 DEF Visit
    <2>3. DOMAIN bld' = Caller /\ bld' = [d \in Caller |-> bld'[d]]
        BY <1>0, <1>3 DEF Visit
    <2>4. \A d \in Caller \ {c} : cpc'[d] = cpc[d]
        BY <1>0, <1>3 DEF Visit, EnsureBuild
    <2> QED BY <1>0, <1>1, <2>1, <2>2, <2>3, <2>4
<1>4. ASSUME NEW c \in Caller, FinalRecord(c) PROVE Unsettled' /\ Named' /\ Copied'
    <2>1. [Next]_vars /\ cpc[c] = "reading" /\ UNCHANGED <<vpc, record, cb>>
        BY <1>4 DEF FinalRecord, ReadOutcome, Next, Follow
    <2>2. cb[c] \in Build /\ vpc[c] # "requeue"
        BY <2>1 DEF Tracked, Copied
    <2>3. bld'[c] = record'[cb[c]] /\ \A d \in Caller \ {c} : bld'[d] = bld[d]
        BY <1>0, <1>4, <2>1 DEF FinalRecord
    <2>4. DOMAIN bld' = Caller /\ bld' = [d \in Caller |-> bld'[d]]
        BY <1>0, <1>4 DEF FinalRecord
    <2>5. \A d \in Caller \ {c} : cpc'[d] = cpc[d]
        BY <1>0, <1>4 DEF FinalRecord, ReadOutcome
    <2> QED BY <1>0, <1>1, <2>1, <2>2, <2>3, <2>4, <2>5
<1>5. ASSUME NEW c \in Caller,
             (Subscribe(c) \/ StreamEnds(c)) /\ UNCHANGED visitorVars
      PROVE  Unsettled' /\ Named' /\ Copied'
    <2>1. /\ [Next]_vars /\ UNCHANGED <<vpc, bld>>
          /\ cpc[c] # "settled" /\ \A d \in Caller \ {c} : cpc'[d] = cpc[d]
        BY <1>0, <1>5 DEF Subscribe, StreamEnds, Next, Follow, visitorVars
    <2> QED BY <1>2, <2>1 DEF Copied
<1>6. ASSUME NEW r \in Run, Pipeline(r) PROVE Unsettled' /\ Named' /\ Copied'
    <2>1. [Next]_vars /\ UNCHANGED <<vpc, bld>>
        BY <1>6 DEF Pipeline, Next, visitorVars
    <2>2. UNCHANGED cpc
        BY <1>6 DEF Pipeline, Execute, Acquire, Begin, CreateBox, Ready, Work, TakeSnapshot, WaitSnapshot,
                    Pause, Fail, Settle, FinishLog, Unregister, Cleanup, Release, callerVars
    <2> QED BY <1>2, <2>1, <2>2
<1>7. ASSUME NEW c \in Caller, NEW l \in {"up", "ended"}, VisitTo(c, l), UNCHANGED <<vars, bld>>
      PROVE  Unsettled' /\ Named' /\ Copied'
    <2>1. /\ vpc'[c] = l /\ \A d \in Caller \ {c} : vpc'[d] = vpc[d]
          /\ vpc' \in [Caller -> {"follow", "requeue", "up", "ended", "gone"}]
        BY <1>0, <1>7 DEF VisitTo
    <2>2. bld' = [d \in Caller |-> bld'[d]] /\ DOMAIN bld' = Caller
        BY <1>0, <1>7
    <2>3. UNCHANGED cpc /\ [Next]_vars
        BY <1>7 DEF vars
    <2> QED BY <1>1, <1>7, <2>1, <2>2, <2>3
<1>8. ASSUME NEW c \in Caller, TurnedAway(c) \/ Restore(c) \/ GiveUp(c)
      PROVE  Unsettled' /\ Named' /\ Copied'
    BY <1>7, <1>8 DEF TurnedAway, Restore, GiveUp
<1>9. ASSUME NEW c \in Caller, Refused(c) PROVE Unsettled' /\ Named' /\ Copied'
    <2>1. UNCHANGED <<record, pc, of, mem, cpc, bld>>
        BY <1>9 DEF Refused, store, runVars, callerVars
    <2>2. Unsettled' /\ Named'
        BY <2>1 DEF Unsettled, Named
    <2>3. vpc' = [vpc EXCEPT ![c] = "requeue"] /\ cpc[c] = "settled"
        BY <1>9 DEF Refused, VisitTo, Followed
    <2>4. \A q \in Run : box[q] \in Condemned => box'[q] \in Condemned
        <3>1. CASE UNCHANGED platform
            BY <3>1 DEF platform
        <3>2. CASE Delete(bld[c].golden)
            BY <1>0, <3>2, DeleteEffect
        <3> QED BY <1>9, <3>1, <3>2 DEF Refused
    <2>5. bld[c].golden # None => bld[c].golden \in Run /\ box'[bld[c].golden] \in Condemned
        BY <1>0, <1>9, DeleteEffect DEF Refused
    <2>6. \A d \in Caller : bld[d].golden # None => bld[d].golden \in Run
        BY <1>0
    <2> QED BY <1>0, <2>1, <2>2, <2>3, <2>4, <2>5, <2>6 DEF Copied
<1>10. ASSUME NEW c \in Caller, Requeue(c) PROVE Unsettled' /\ Named' /\ Copied'
    <2>1. /\ UNCHANGED <<pc, of, mem, box, bld>>
          /\ vpc' = [vpc EXCEPT ![c] = "follow"] /\ cpc' = [cpc EXCEPT ![c] = "idle"]
          /\ record' = [record EXCEPT ![cb[c]] = [status |-> "queued", golden |-> None, snapshot |-> None]]
        BY <1>10 DEF Requeue, VisitTo, runVars, platform
    <2>2. \A b \in Build : record'[b] = record[b] \/ (record'[b].status = "queued" /\ record'[b].golden = None)
        BY <1>0, <2>1
    <2>3. Unsettled'
        <3>1. \A r \in Run : pc[r] \in Working \cup {"settle"} => of[r] \in Build
            BY <1>0 DEF Working, Registered
        <3> QED BY <2>1, <2>2, <3>1 DEF Unsettled, Settled
    <2>4. Named'
        BY <2>1, <2>2 DEF Named
    <2> QED BY <1>0, <2>1, <2>3, <2>4 DEF Copied
<1>11. CASE VisitorsCrash
    <2>1. [Next]_vars /\ UNCHANGED bld
        BY <1>11 DEF VisitorsCrash, Next
    <2>2. bld' = [c \in Caller |-> bld'[c]] /\ DOMAIN bld' = Caller
        BY <1>0, <2>1
    <2>3. /\ \A c \in Caller : vpc'[c] \in {vpc[c], "gone"} /\ vpc'[c] # "requeue"
          /\ vpc' \in [Caller -> {"follow", "requeue", "up", "ended", "gone"}]
        BY <1>0, <1>11 DEF VisitorsCrash
    <2> QED BY <1>1, <2>1, <2>2, <2>3
<1>12. CASE UNCHANGED allVars
    BY <1>2, <1>12 DEF allVars, vars, visitorVars
<1> QED BY <1>3, <1>4, <1>5, <1>6, <1>8, <1>9, <1>10, <1>11, <1>12
        DEF VisitorsNext, Arrive, EnsureAgain, Proceed

(* Only a reset takes the golden from a record that has an outcome.        *)
LEMMA OutcomesAreKept ==
    ASSUME Tracked, Unsettled, [Next]_vars
    PROVE  \A b \in Build : record[b].status \in Settled => record'[b] = record[b]
<1> USE DEF Tracked, TypeOK
<1>1. ASSUME NEW c \in Caller, NEW d \in Build, EnsureBuild(c, d),
             NEW b \in Build, record[b].status \in Settled
      PROVE  record'[b] = record[b]
    BY <1>1 DEF EnsureBuild, Trustworthy
<1>2. ASSUME NEW r \in Run, Begin(r) \/ Settle(r),
             NEW b \in Build, record[b].status \in Settled
      PROVE  record'[b] = record[b]
    <2>1. of[r] # b
        BY <1>2 DEF Begin, Settle, Unsettled, Working, Registered
    <2> QED BY <1>2, <2>1 DEF Begin, Settle, Record
<1>3. ASSUME NEW r \in Run, Execute(r), ~(Begin(r) \/ Settle(r))
      PROVE  UNCHANGED record
    BY <1>3 DEF Execute, Acquire, CreateBox, Ready, Work, TakeSnapshot, WaitSnapshot,
                Pause, Fail, FinishLog, Unregister, Cleanup, Release
<1>4. ASSUME \/ \E r \in Run : Expire(r)
             \/ \E c \in Caller : Follow(c)
             \/ Crash \/ UNCHANGED vars
      PROVE  UNCHANGED record
    BY <1>4 DEF Expire, Follow, Subscribe, StreamEnds, ReadOutcome, Crash, vars
<1> QED BY <1>1, <1>2, <1>3, <1>4 DEF Next

(* A visitor whose copy names the golden of the record has asked for its   *)
(* delete before it resets the record (session.go:368-371): a golden that  *)
(* is still there is forgotten only by a copy that is out of date, or when *)
(* its Delete failed, however many visitors rebuild, whichever deletes     *)
(* fail and whenever the process dies.                                     *)
THEOREM GoldensAreNotForgotten == VisitorsSpec => ForgottenForACause
<1> DEFINE Forgets(r) == Golden(r) /\ box'[r] # "deleted" =>
               \/ record'[of[r]].golden = r
               \/ \E c \in Caller :
                   /\ vpc[c] = "requeue" /\ cb[c] = of[r]
                   /\ bld[c].golden # r \/ box[r] = "left"
           Inv == Tracked /\ Unsettled /\ Named /\ Copied
<1>1. VisitorsInit => Inv
    <2> SUFFICES ASSUME VisitorsInit PROVE Inv
        OBVIOUS
    <2>1. Tracked
        BY InvInit DEF VisitorsInit, BuilderInv, Tracked, Holds, Follows
    <2>2. Unsettled /\ Named
        BY DEF VisitorsInit, Init, Unsettled, Named, Working, Registered
    <2>3. Copied
        BY DEF VisitorsInit, Init, Copied, NoRecord
    <2> QED BY <2>1, <2>2, <2>3
<1>2. Inv /\ [VisitorsNext]_allVars => Inv'
    BY VisitorsStep, CopiedStep
<1>3. ASSUME Inv, [VisitorsNext]_allVars PROVE [\A r \in Run : Forgets(r)]_allVars
    <2> SUFFICES ASSUME NEW r \in Run, Golden(r), box'[r] # "deleted", VisitorsNext
                 PROVE  \/ record'[of[r]].golden = r
                        \/ \E c \in Caller :
                            /\ vpc[c] = "requeue" /\ cb[c] = of[r]
                            /\ bld[c].golden # r \/ box[r] = "left"
        BY <1>3
    <2>1. /\ of[r] \in Build /\ record[of[r]].golden = r
          /\ record[of[r]].status \in Settled /\ box[r] # "deleted"
        BY <1>3 DEF Golden, Tracked, InRuns, Settled
    <2>2. CASE [Next]_vars
        BY <1>3, <2>1, <2>2, OutcomesAreKept
    <2>3. ASSUME NEW c \in Caller, Refused(c) PROVE UNCHANGED record
        BY <2>3 DEF Refused, store
    <2>4. ASSUME NEW c \in Caller, Requeue(c)
          PROVE  \/ record'[of[r]].golden = r
                 \/ \E d \in Caller :
                     /\ vpc[d] = "requeue" /\ cb[d] = of[r]
                     /\ bld[d].golden # r \/ box[r] = "left"
        <3>1. vpc[c] = "requeue" /\ (bld[c].golden # None => box[bld[c].golden] \in Condemned)
            BY <1>3, <2>4 DEF Requeue, Copied
        <3>2. None \notin Run
            BY BuilderAssumption
        <3>3. bld[c].golden # r \/ box[r] = "left"
            BY <2>1, <3>1, <3>2 DEF Condemned
        <3>4. CASE cb[c] # of[r]
            BY <1>3, <2>1, <2>4, <3>4 DEF Requeue, Tracked, TypeOK
        <3> QED BY <3>1, <3>3, <3>4
    <2>5. ASSUME NEW c \in Caller, TurnedAway(c) \/ Restore(c) \/ GiveUp(c) PROVE UNCHANGED record
        BY <2>5 DEF TurnedAway, Restore, GiveUp, vars
    <2>6. ASSUME NEW c \in Caller, NEW b \in Build, Visit(c, b) PROVE [Next]_vars
        BY <2>6 DEF Visit, Next
    <2>7. ASSUME NEW c \in Caller, Subscribe(c) \/ StreamEnds(c) \/ FinalRecord(c) PROVE [Next]_vars
        BY <2>7 DEF FinalRecord, Next, Follow
    <2>8. ASSUME NEW q \in Run, Pipeline(q) PROVE [Next]_vars
        BY <2>8 DEF Pipeline, Next
    <2>9. CASE VisitorsCrash
        BY <2>2, <2>9 DEF VisitorsCrash, Next
    <2> QED BY <2>1, <2>2, <2>3, <2>4, <2>5, <2>6, <2>7, <2>8, <2>9
            DEF VisitorsNext, Arrive, EnsureAgain, Proceed
<1>4. VisitorsSpec => VisitorsInit /\ [][VisitorsNext]_allVars
    BY DEF VisitorsSpec
<1>5. VisitorsInit /\ [][VisitorsNext]_allVars => []Inv
    BY <1>1, <1>2, PTL
<1> QED BY <1>3, <1>4, <1>5, PTL DEF ForgottenForACause
===============================================================================
