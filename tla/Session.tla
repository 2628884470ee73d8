-------------------------------- MODULE Session --------------------------------
(***************************************************************************)
(* internal/session: the life of a visitor's session. Create (limits,      *)
(* replacement, admission), run (build, restore, live, watch, end),        *)
(* terminate and Extend, over the sessions table and the platform.         *)
(*                                                                         *)
(* A session is named by the Create call that made it. A store call, a     *)
(* platform call and a critical section of m.mu are one action each. The   *)
(* build is reduced to whether it ends well (CallersActOnOutcomes of       *)
(* Builder). Time is counted in ticks, relative to each session. Reads of  *)
(* the sessions table succeed.                                             *)
(***************************************************************************)
EXTENDS Integers, FiniteSets

CONSTANTS
    Request,        \* bound: calls of Create
    Device, IP,     \* who calls
    PerDevice, PerIP, Global,   \* Limits
    TTL, MaxTTL,    \* Limits, in ticks
    MaxWait,        \* bound: ticks counted before a session is live
    MaxCrashes,     \* bound: restarts in one behaviour
    Overlap,        \* bound: calls of Create under way at once
    Stress,         \* what the environment may do, see below
    None

(* "replace": a device opens a new repo while its session is not live yet. *)
(* "extend": a session's record is ended between Extend's read and write.    *)
(* "roam": a device calls from another address than before. "leave": a     *)
(* client goes away while its Create is under way. "fail": a write of the  *)
(* sessions table fails.                                                   *)
ASSUME SessionAssumption ==
    /\ {PerDevice, PerIP, Global, TTL, Overlap} \subseteq Nat \ {0}
    /\ MaxTTL \in Nat /\ MaxTTL >= TTL
    /\ MaxWait \in Nat /\ MaxCrashes \in Nat
    /\ IsFiniteSet(Request)
    /\ None \notin Request \cup Device \cup IP /\ None \notin Int
    /\ Stress \subseteq {"replace", "extend", "roam", "leave", "fail"}

VARIABLES
    status,     \* sessions table: status, "none" before CreateSession
    hasBox,     \* sessions table: sandbox_id is set
    extended,   \* sessions table: extended
    left,       \* sessions table: expires_at, as ticks from now, or None
    device,     \* per request: who called
    ip,         \* per request: from where
    live,       \* keys of m.live
    told,       \* per session: whether "ended" was emitted, and before the log was finished
    done,       \* per session: its log is finished
    cpc,        \* per request: where Create is
    byIP,       \* per request: Create's byIP
    victims,    \* per request: the live sessions it still has to terminate
    victim,     \* per request: the one terminate is at
    stale,      \* per request: the victims whose sandbox_id was set when listed
    rpc,        \* per session: where run is
    rebuilt,    \* per session: run's local rebuilt
    xpc,        \* per session: where Extend is
    box,        \* platform: the session's sandbox
    waited,     \* ticks between created_at and going live
    lived,      \* ticks since going live
    polled,     \* sessions whose watch loop ran since the last tick
    gone,       \* calls of Create whose context is done
    crashes,    \* restarts so far
    excused     \* history: sessions that ended, or that a call set out to replace

table == <<status, hasBox, extended, left>>
logVars == <<live, told, done>>
createVars == <<device, ip, cpc, byIP, victims, victim, stale>>
runVars == <<rpc, rebuilt>>
clock == <<waited, lived, polled>>
env == <<gone, crashes, excused>>
vars == <<status, hasBox, extended, left, live, told, done, device, ip, cpc, byIP, victims,
          victim, stale, rpc, rebuilt, xpc, box, waited, lived, polled, gone, crashes, excused>>

Init ==
    /\ status = [s \in Request |-> "none"]
    /\ hasBox = [s \in Request |-> FALSE]
    /\ extended = [s \in Request |-> FALSE]
    /\ left = [s \in Request |-> None]
    /\ device = [s \in Request |-> None]
    /\ ip = [s \in Request |-> None]
    /\ live = {}
    /\ told = [s \in Request |-> "no"]
    /\ done = [s \in Request |-> FALSE]
    /\ cpc = [s \in Request |-> "idle"]
    /\ byIP = [s \in Request |-> 0]
    /\ victims = [s \in Request |-> {}]
    /\ victim = [s \in Request |-> None]
    /\ stale = [s \in Request |-> {}]
    /\ rpc = [s \in Request |-> "idle"]
    /\ rebuilt = [s \in Request |-> FALSE]
    /\ xpc = [s \in Request |-> "idle"]
    /\ box = [s \in Request |-> "none"]
    /\ waited = [s \in Request |-> 0]
    /\ lived = [s \in Request |-> 0]
    /\ polled = {}
    /\ gone = {}
    /\ crashes = 0
    /\ excused = {}

(* Session.Live: every record that is not ended.                           *)
LiveRows == {s \in Request : status[s] \notin {"none", "ended"}}

OfDevice(d) == {s \in LiveRows : device[s] = d}

OfIP(i) == {s \in LiveRows : ip[s] = i}

SetStatus(s, st) == status' = [status EXCEPT ![s] = st]

(* l.Emit of "ended". A subscriber that has read everything is closed when *)
(* the log is finished, and hears nothing of what is emitted after it.     *)
EmitEnded(s) ==
    told' = [told EXCEPT ![s] = IF @ # "no" THEN @ ELSE IF done[s] THEN "late" ELSE "yes"]

(* What the environment is assumed to do, per Stress: an Extend that is    *)
(* under way when the record of its session is ended fails.                *)
CutShort(s) == xpc' = IF "extend" \in Stress THEN xpc ELSE [xpc EXCEPT ![s] = "idle"]

-------------------------------------------------------------------------------
(* Create.                                                                 *)

CreateTo(r, l) == cpc' = [cpc EXCEPT ![r] = l]

InCreate(r) == cpc[r] \notin {"idle", "over"}

(* What the environment is assumed to do, per Overlap and Stress.          *)
MayCall(r, d, i) ==
    /\ Cardinality({q \in Request : InCreate(q)}) < Overlap
    /\ "replace" \in Stress \/ \A s \in OfDevice(d) : status[s] = "live" \/ rpc[s] = "dead"
    /\ "roam" \in Stress \/ \A q \in Request : device[q] = d => ip[q] = i

(* LiveSessions, the global limit, and whether the device is at its own.   *)
CreateCount(r, d, i) ==
    /\ cpc[r] = "idle"
    /\ MayCall(r, d, i)
    /\ device' = [device EXCEPT ![r] = d]
    /\ ip' = [ip EXCEPT ![r] = i]
    /\ byIP' = [byIP EXCEPT ![r] = Cardinality(OfIP(i))]
    /\ CreateTo(r, IF Cardinality(LiveRows) >= Global THEN "over"
                   ELSE IF Cardinality(OfDevice(d)) >= PerDevice THEN "list" ELSE "admit")
    /\ UNCHANGED <<table, logVars, victims, victim, stale, runVars, xpc, box, clock, env>>

(* LiveSessionsForDevice: the records are copies from here on.             *)
CreateList(r) ==
    /\ cpc[r] = "list"
    /\ victims' = [victims EXCEPT ![r] = OfDevice(device[r])]
    /\ stale' = [stale EXCEPT ![r] = {s \in OfDevice(device[r]) : hasBox[s]}]
    /\ excused' = excused \cup OfDevice(device[r])
    /\ CreateTo(r, "terminate")
    /\ UNCHANGED <<table, logVars, device, ip, byIP, victim, runVars, xpc, box, clock, gone, crashes>>

(* terminate(old): the sandbox of the copy is deleted (an error is logged),*)
(* the copy is written back as ended, then listeners are told, if the log  *)
(* is still registered, finished or not.                                   *)
TerminateBox(r, v) ==
    /\ cpc[r] = "terminate"
    /\ victim[r] = None
    /\ v \in victims[r]
    /\ victim' = [victim EXCEPT ![r] = v]
    /\ \/ v \in stale[r] /\ box' = [box EXCEPT ![v] = "gone"]
       \/ UNCHANGED box
    /\ CreateTo(r, "record")
    /\ UNCHANGED <<table, logVars, device, ip, byIP, victims, stale, runVars, xpc, clock, env>>

(* A slip: the record is not written.                                      *)
TerminateRecordForgets(r) ==
    /\ cpc[r] = "record"
    /\ CreateTo(r, "tell")
    /\ UNCHANGED <<table, logVars, device, ip, byIP, victims, victim, stale, runVars, xpc, box, clock, env>>

TerminateRecord(r) ==
    /\ cpc[r] = "record"
    /\ SetStatus(victim[r], "ended")
    /\ hasBox' = [hasBox EXCEPT ![victim[r]] = victim[r] \in stale[r]]
    /\ CutShort(victim[r])
    /\ CreateTo(r, "tell")
    /\ UNCHANGED <<extended, left, logVars, device, ip, byIP, victims, victim, stale, runVars,
                   box, clock, env>>

(* The write fails, which is logged.                                       *)
TerminateLoses(r) ==
    /\ cpc[r] = "record"
    /\ r \in gone \/ "fail" \in Stress
    /\ CreateTo(r, "tell")
    /\ UNCHANGED <<table, logVars, device, ip, byIP, victims, victim, stale, runVars, xpc, box, clock, env>>

TerminateTell(r) ==
    /\ cpc[r] = "tell"
    /\ live' = live \ {victim[r]}
    /\ IF victim[r] \in live THEN EmitEnded(victim[r]) ELSE UNCHANGED told
    /\ done' = [done EXCEPT ![victim[r]] = @ \/ victim[r] \in live]
    /\ byIP' = [byIP EXCEPT ![r] = @ - 1]
    /\ victims' = [victims EXCEPT ![r] = @ \ {victim[r]}]
    /\ victim' = [victim EXCEPT ![r] = None]
    /\ stale' = [stale EXCEPT ![r] = @ \ {victim[r]}]
    /\ CreateTo(r, "terminate")
    /\ UNCHANGED <<table, device, ip, runVars, xpc, box, clock, env>>

(* The per-IP limit; then Resolve and Ensure, which may fail, and do when  *)
(* the client has gone.                                                    *)
CreateAdmit(r) ==
    /\ cpc[r] = "admit" \/ (cpc[r] = "terminate" /\ victims[r] = {})
    /\ \/ byIP[r] < PerIP /\ r \notin gone /\ CreateTo(r, "insert")
       \/ CreateTo(r, "over")
    /\ byIP' = [byIP EXCEPT ![r] = 0]
    /\ UNCHANGED <<table, logVars, device, ip, victims, victim, stale, runVars, xpc, box, clock, env>>

(* CreateSession; a ready build lets the session begin as starting.        *)
CreateInsert(r) ==
    /\ cpc[r] = "insert"
    /\ \E st \in {"building", "starting"} : SetStatus(r, st)
    /\ CreateTo(r, "register")
    /\ UNCHANGED <<hasBox, extended, left, logVars, device, ip, byIP, victims, victim, stale, runVars,
                   xpc, box, clock, env>>

(* The client goes away: the request's context is done. Postgres and the   *)
(* platform refuse a call with it, the in-memory store does not look.      *)
Leave(r) ==
    /\ "leave" \in Stress
    /\ cpc[r] \notin {"idle", "over"}
    /\ gone' = gone \cup {r}
    /\ UNCHANGED <<table, logVars, createVars, runVars, xpc, box, clock, crashes, excused>>

(* A read or the insert fails with it, and Create returns.                 *)
CreateGivesUp(r) ==
    /\ cpc[r] \in {"list", "insert"}
    /\ r \in gone
    /\ CreateTo(r, "over")
    /\ byIP' = [byIP EXCEPT ![r] = 0]
    /\ UNCHANGED <<table, logVars, device, ip, victims, victim, stale, runVars, xpc, box, clock, env>>

CreateRegister(r) ==
    /\ cpc[r] = "register"
    /\ live' = live \cup {r}
    /\ rpc' = [rpc EXCEPT ![r] = "follow"]
    /\ CreateTo(r, "over")
    /\ UNCHANGED <<table, told, done, device, ip, byIP, victims, victim, stale, rebuilt, xpc, box, clock, env>>

-------------------------------------------------------------------------------
(* run.                                                                    *)

RunTo(s, l) == rpc' = [rpc EXCEPT ![s] = l]

(* follow: the build settles.                                              *)
FollowBuild(s) ==
    /\ rpc[s] = "follow"
    /\ \/ RunTo(s, IF rebuilt[s] THEN "restore" ELSE "starting")
       \/ RunTo(s, "ending")
    /\ UNCHANGED <<table, logVars, createVars, rebuilt, xpc, box, clock, env>>

(* UpdateSession with run's own copy, whatever the table says by now.      *)
MarkStarting(s) ==
    /\ rpc[s] = "starting"
    /\ SetStatus(s, "starting")
    /\ hasBox' = [hasBox EXCEPT ![s] = FALSE]
    /\ RunTo(s, "restore")
    /\ UNCHANGED <<extended, left, logVars, createVars, rebuilt, xpc, box, clock, env>>

(* Create from the snapshot: it works, the platform is busy or refuses for *)
(* good, or the snapshot is gone and the commit is rebuilt, once.          *)
Restore(s) ==
    /\ rpc[s] = "restore"
    /\ \/ /\ box' = [box EXCEPT ![s] = "up"]
          /\ RunTo(s, "record")
          /\ UNCHANGED rebuilt
       \/ /\ RunTo(s, "ending")
          /\ UNCHANGED <<box, rebuilt>>
       \/ /\ ~rebuilt[s]
          /\ rebuilt' = [rebuilt EXCEPT ![s] = TRUE]
          /\ RunTo(s, "follow")
          /\ UNCHANGED box
    /\ UNCHANGED <<table, logVars, createVars, xpc, clock, env>>

RecordBox(s) ==
    /\ rpc[s] = "record"
    /\ SetStatus(s, "starting")
    /\ hasBox' = [hasBox EXCEPT ![s] = TRUE]
    /\ RunTo(s, "waitReady")
    /\ UNCHANGED <<extended, left, logVars, createVars, rebuilt, xpc, box, clock, env>>

(* On an error the sandbox is deleted, if WaitReady still knows its id.    *)
WaitReady(s) ==
    /\ rpc[s] = "waitReady"
    /\ \/ RunTo(s, "golive") /\ UNCHANGED box
       \/ RunTo(s, "ending") /\ box' = [box EXCEPT ![s] = "gone"]
       \/ RunTo(s, "ending") /\ UNCHANGED box
    /\ UNCHANGED <<table, logVars, createVars, rebuilt, xpc, clock, env>>

GoLive(s) ==
    /\ rpc[s] = "golive"
    /\ SetStatus(s, "live")
    /\ hasBox' = [hasBox EXCEPT ![s] = TRUE]
    /\ extended' = [extended EXCEPT ![s] = FALSE]
    /\ left' = [left EXCEPT ![s] = TTL]
    /\ polled' = polled \cup {s}
    /\ rebuilt' = [rebuilt EXCEPT ![s] = FALSE]
    /\ RunTo(s, "watch")
    /\ UNCHANGED <<logVars, createVars, xpc, box, waited, lived, env>>

(* A slip: end returns when its write fails.                               *)
AfterWriteReturns == [starting |-> "restore", record |-> "waitReady", golive |-> "watch", endWrite |-> "over"]

(* run drops or logs the error of a write, and goes on as if it had worked. *)
AfterWrite == [starting |-> "restore", record |-> "waitReady", golive |-> "watch", endWrite |-> "endTell"]

RunLoses(s) ==
    /\ "fail" \in Stress
    /\ rpc[s] \in DOMAIN AfterWrite
    /\ RunTo(s, AfterWrite[rpc[s]])
    /\ rebuilt' = [rebuilt EXCEPT ![s] = @ /\ rpc[s] # "golive"]
    /\ polled' = IF rpc[s] = "golive" THEN polled \cup {s} ELSE polled
    /\ UNCHANGED <<table, logVars, createVars, xpc, box, waited, lived, env>>

(* The watch loop's copy is the record of the table.                       *)
Expired(s) == left[s] # None /\ left[s] < 0

(* The platform has the sandbox: nobody deleted it, or the watch loop's    *)
(* delete of it failed.                                                    *)
Up(s) == box[s] \in {"up", "left"}

(* The delete at the expiry, whose error is dropped.                       *)
DeleteAtExpiry(s) ==
    \E b \in {"gone", "left"} : box' = [box EXCEPT ![s] = IF Up(s) THEN b ELSE @]

(* A slip: the delete of an expired session's sandbox is not asked for.    *)
WatchKeepsBox(s) ==
    /\ rpc[s] = "watch"
    /\ \/ (~Up(s) \/ Expired(s)) /\ RunTo(s, "ending")
       \/ ~Expired(s) /\ UNCHANGED rpc
    /\ polled' = polled \cup {s}
    /\ UNCHANGED <<table, logVars, createVars, rebuilt, xpc, box, waited, lived, env>>

(* A slip: the expiry is not looked at.                                    *)
WatchNoExpiry(s) ==
    /\ rpc[s] = "watch"
    /\ \/ ~Up(s) /\ RunTo(s, "ending")
       \/ UNCHANGED rpc
    /\ polled' = polled \cup {s}
    /\ UNCHANGED <<table, logVars, createVars, rebuilt, xpc, box, waited, lived, env>>

(* A slip: a round writes its copy back.                                   *)
WatchHeartbeat(s) ==
    /\ rpc[s] = "watch"
    /\ \/ ~Up(s) /\ RunTo(s, "ending") /\ UNCHANGED <<status, box>>
       \/ Expired(s) /\ RunTo(s, "ending") /\ DeleteAtExpiry(s) /\ UNCHANGED status
       \/ ~Expired(s) /\ SetStatus(s, "live") /\ UNCHANGED <<rpc, box>>
    /\ polled' = polled \cup {s}
    /\ UNCHANGED <<hasBox, extended, left, logVars, createVars, rebuilt, xpc, waited, lived, env>>

(* One round of the watch loop: a sandbox that is gone or stopped ends the *)
(* session, unless Get failed for another reason; so does the expiry read  *)
(* from the table, whether or not the sandbox could be deleted.            *)
Watch(s) ==
    /\ rpc[s] = "watch"
    /\ \/ ~Up(s) /\ RunTo(s, "ending") /\ UNCHANGED box
       \/ Expired(s) /\ RunTo(s, "ending") /\ DeleteAtExpiry(s)
       \/ ~Expired(s) /\ UNCHANGED <<rpc, box>>
    /\ polled' = polled \cup {s}
    /\ UNCHANGED <<table, logVars, createVars, rebuilt, xpc, waited, lived, env>>

WatchNotices(s) == Watch(s) /\ ~Up(s) /\ rpc'[s] = "ending"

(* end: a session already ended keeps its reason (and its entry in m.live  *)
(* is terminate's); otherwise it is written, told and unregistered. Nobody *)
(* reads the clocks of a session that ends once its record is not live:    *)
(* they stop.                                                              *)
StopClocks(s) ==
    /\ waited' = [waited EXCEPT ![s] = 0]
    /\ lived' = [lived EXCEPT ![s] = 0]
    /\ left' = [left EXCEPT ![s] = None]
    /\ rebuilt' = [rebuilt EXCEPT ![s] = FALSE]

StopUnlessLive(s) ==
    IF status[s] = "live" THEN UNCHANGED <<waited, lived, left, rebuilt>> ELSE StopClocks(s)

(* A slip: the record is not written.                                      *)
EndCheckForgetsWrite(s) ==
    /\ rpc[s] = "ending"
    /\ RunTo(s, "endTell")
    /\ StopUnlessLive(s)
    /\ UNCHANGED <<status, hasBox, extended, logVars, createVars, xpc, box, polled, env>>

EndCheck(s) ==
    /\ rpc[s] = "ending"
    /\ \/ /\ status[s] = "ended"
          /\ RunTo(s, "over")
          /\ done' = [done EXCEPT ![s] = TRUE]
       \/ /\ status[s] # "ended"
          /\ RunTo(s, "endWrite")
          /\ UNCHANGED done
    /\ StopUnlessLive(s)
    /\ UNCHANGED <<status, hasBox, extended, live, told, createVars, xpc, box, polled, env>>

EndWrite(s) ==
    /\ rpc[s] = "endWrite"
    /\ SetStatus(s, "ended")
    /\ excused' = excused \cup {s}
    /\ RunTo(s, "endTell")
    /\ StopClocks(s)
    /\ CutShort(s)
    /\ UNCHANGED <<hasBox, extended, logVars, createVars, box, polled, gone, crashes>>

EndTell(s) ==
    /\ rpc[s] = "endTell"
    /\ EmitEnded(s)
    /\ done' = [done EXCEPT ![s] = TRUE]
    /\ RunTo(s, "endDrop")
    /\ UNCHANGED <<table, live, createVars, rebuilt, xpc, box, clock, env>>

EndDrop(s) ==
    /\ rpc[s] = "endDrop"
    /\ live' = live \ {s}
    /\ RunTo(s, "over")
    /\ UNCHANGED <<table, told, done, createVars, rebuilt, xpc, box, clock, env>>

-------------------------------------------------------------------------------
(* Extend.                                                                 *)

(* The session read is a copy from here on.                                *)
ExtendRead(s) ==
    /\ xpc[s] = "idle"
    /\ status[s] = "live" /\ hasBox[s]
    /\ ~extended[s]
    /\ xpc' = [xpc EXCEPT ![s] = "keep"]
    /\ UNCHANGED <<table, logVars, createVars, runVars, box, clock, env>>

(* Keepalive fails, or succeeds on a sandbox that is up.                   *)
ExtendKeepalive(s) ==
    /\ xpc[s] = "keep"
    /\ \/ xpc' = [xpc EXCEPT ![s] = "idle"]
       \/ Up(s) /\ xpc' = [xpc EXCEPT ![s] = "write"]
    /\ UNCHANGED <<table, logVars, createVars, runVars, box, clock, env>>

Age(s) == waited[s] + lived[s]

Smaller(m, n) == IF m < n THEN m ELSE n

(* A slip: a TTL is taken off the cap.                                     *)
CapMinusTTL(s) == MaxTTL - Age(s) - TTL

(* min(CreatedAt + MaxTTL, now + TTL), from now.                           *)
ExtendedTo(s) == Smaller(MaxTTL - Age(s), TTL)

(* UpdateSession with the copy, which is live.                             *)
ExtendWrite(s) ==
    /\ xpc[s] = "write"
    /\ SetStatus(s, "live")
    /\ hasBox' = [hasBox EXCEPT ![s] = TRUE]
    /\ extended' = [extended EXCEPT ![s] = TRUE]
    /\ left' = [left EXCEPT ![s] = ExtendedTo(s)]
    /\ xpc' = [xpc EXCEPT ![s] = "idle"]
    /\ UNCHANGED <<logVars, createVars, runVars, box, clock, env>>

-------------------------------------------------------------------------------
(* The platform reclaims or stops a sandbox whenever it likes; a stopped   *)
(* one is as good as gone. Once there is no run to notice, it matters to   *)
(* nobody (a keepalive may fail anyway): that is left out.                 *)
Reclaim(s) ==
    /\ Up(s)
    /\ rpc[s] \notin {"over", "dead"}
    /\ box' = [box EXCEPT ![s] = "gone"]
    /\ UNCHANGED <<table, logVars, createVars, runVars, xpc, clock, env>>

Waiting == {"follow", "starting", "restore", "record", "waitReady", "golive"}

Running == Waiting \cup {"watch", "ending", "endWrite", "endTell", "endDrop"}

(* Time passes. A tick is much longer than Poll and than the store calls   *)
(* that end a session, so between two ticks every watch loop has run and   *)
(* every end has finished; builds, restores and handlers may take longer.  *)
Tick ==
    /\ \A s \in Request : rpc[s] \in Running => rpc[s] \in Waiting \/ (rpc[s] = "watch" /\ s \in polled)
    /\ \E s \in Request : status[s] \in {"building", "starting", "live"} \/ rpc[s] \in Running
    /\ waited' = [s \in Request |-> IF rpc[s] \in Waiting THEN Smaller(waited[s] + 1, MaxWait) ELSE waited[s]]
    /\ LET older == {s \in Request : (status[s] = "live" \/ rpc[s] = "watch") /\ lived[s] < MaxTTL + 2}
       IN  /\ lived' = [s \in Request |-> IF s \in older THEN lived[s] + 1 ELSE lived[s]]
           /\ left' = [s \in Request |-> IF s \in older /\ left[s] # None THEN left[s] - 1 ELSE left[s]]
    /\ polled' = {}
    /\ UNCHANGED <<status, hasBox, extended, logVars, createVars, runVars, xpc, box, env>>

(* The process dies: goroutines, handlers and m.live with it.              *)
Crash ==
    /\ crashes < MaxCrashes
    /\ crashes' = crashes + 1
    /\ live' = {}
    /\ cpc' = [r \in Request |-> IF cpc[r] = "idle" THEN "idle" ELSE "over"]
    /\ victims' = [r \in Request |-> {}]
    /\ victim' = [r \in Request |-> None]
    /\ stale' = [r \in Request |-> {}]
    /\ byIP' = [r \in Request |-> 0]
    /\ rpc' = [s \in Request |-> IF s \in live \/ rpc[s] \in Running \/ cpc[s] = "register" THEN "dead" ELSE rpc[s]]
    /\ xpc' = [s \in Request |-> "idle"]
    /\ UNCHANGED <<table, told, done, device, ip, rebuilt, box, clock, gone, excused>>

-------------------------------------------------------------------------------
Create(r) ==
    \/ CreateList(r)
    \/ \E v \in Request : TerminateBox(r, v)
    \/ TerminateRecord(r)
    \/ TerminateLoses(r)
    \/ TerminateTell(r)
    \/ CreateAdmit(r)
    \/ CreateInsert(r)
    \/ CreateGivesUp(r)
    \/ CreateRegister(r)

Run(s) ==
    \/ FollowBuild(s)
    \/ MarkStarting(s)
    \/ Restore(s)
    \/ RecordBox(s)
    \/ WaitReady(s)
    \/ GoLive(s)
    \/ RunLoses(s)
    \/ Watch(s)
    \/ EndCheck(s)
    \/ EndWrite(s)
    \/ EndTell(s)
    \/ EndDrop(s)

Extend(s) == ExtendRead(s) \/ ExtendKeepalive(s) \/ ExtendWrite(s)

Call == \E r \in Request, d \in Device, i \in IP : CreateCount(r, d, i)

Continue ==
    \/ \E r \in Request : Create(r) \/ Leave(r) \/ Run(r) \/ Extend(r) \/ Reclaim(r)
    \/ Tick
    \/ Crash

Next == Call \/ Continue

(* A handler or goroutine that can go on does, and time passes. Nobody has *)
(* to open, extend or reclaim a session.                                   *)
Fairness ==
    /\ \A r \in Request : WF_vars(Create(r)) /\ WF_vars(Run(r))
    /\ WF_vars(Tick)

Spec == Init /\ [][Next]_vars

FairSpec == Spec /\ Fairness

(* The sandbox is created with an idle time and a lifetime after which the *)
(* platform deletes it (session.go:245), and the platform answers in the   *)
(* end whether it is there.                                                *)
ReapedSpec ==
    /\ FairSpec
    /\ \A s \in Request : WF_vars(Reclaim(s)) /\ WF_vars(WatchNotices(s))

-------------------------------------------------------------------------------
(* "One live session per device" (README.md:51; session.go:116-117): a     *)
(* device that opens a new repo replaces its session, across the several   *)
(* store calls of Create and the old session's own end.                    *)
OnePerDevice == \A d \in Device : Cardinality(OfDevice(d)) <= PerDevice

(* "a few per IP" (README.md:51), with a replaced session's place given    *)
(* back by byIP--.                                                         *)
FewPerIP == \A i \in IP : Cardinality(OfIP(i)) <= PerIP

(* Both limits at once: making room for a device's new session must not    *)
(* let its address have more (session.go:109-128).                         *)
LimitsKept == OnePerDevice /\ FewPerIP

(* An ended session stays ended: run, terminate and Extend all write whole *)
(* records from copies, and none of them may bring a session back that     *)
(* nothing will end again. ("Safe to call for a session already ending",   *)
(* session.go:402.)                                                        *)
EndedIsFinal ==
    [][\A s \in Request : status[s] = "ended" => status'[s] = "ended"]_vars

(* What holds of it, whatever the environment does: a record that ended is *)
(* brought back only by its own run while that still prepares the session  *)
(* (session.go:228, 273, 293), or by an Extend that read it before the end *)
(* and is at its write (session.go:461). Nothing else writes an old copy   *)
(* back: not the watch loop, not the end of the session, no other session. *)
EndedUnlessRaced ==
    [][\A s \in Request :
        status[s] = "ended" /\ status'[s] # "ended" => rpc[s] \in Waiting \/ xpc[s] = "write"]_vars

(* The limit per device, whatever the environment does: Overlap calls that *)
(* all count before one of them inserts (session.go:109, 139) exceed it by *)
(* Overlap - 1, and by no more. Sessions that some call set out to replace *)
(* do not count, nor do those that had ended: they may be live because a   *)
(* write was lost or because they were brought back.                       *)
OnePerDeviceUnlessRaced ==
    \A d \in Device : Cardinality(OfDevice(d) \ excused) <= PerDevice + Overlap - 1

Allowed(s) == IF extended[s] THEN MaxTTL ELSE TTL

(* "a session never outlives its promise if the platform's idle reaper     *)
(* lags" (session.go:299-300): while the process is up, a session is live  *)
(* for TTL and a poll, or for MaxTTL and a poll once it is extended.       *)
PromiseKept ==
    \A s \in Request : status[s] = "live" /\ rpc[s] # "dead" => lived[s] <= Allowed(s) + 1

(* What holds of it, whatever the environment does: the promise is kept by *)
(* every run that is there. A record that is live without one, because its *)
(* end was not written or an Extend brought it back, is nobody's.          *)
PromiseKeptWhileWatched ==
    \A s \in Request : status[s] = "live" /\ rpc[s] \notin {"dead", "over"} => lived[s] <= Allowed(s) + 1

(* The one extension takes no time away from a visitor whose session went  *)
(* live within MaxTTL - TTL of being created. It need not give any: the    *)
(* comment says that "the expiry moves to the hard cap" (session.go:440)   *)
(* and the README "extended once to 30" (README.md:49-50), but the code    *)
(* takes the sooner of the cap and now + TTL (456-459), which right after  *)
(* going live is the expiry there was. (And after a longer build it takes  *)
(* time away: the cap is counted from the creation.)                       *)
ExtendTakesNoTime ==
    [][\A s \in Request :
        extended'[s] /\ ~extended[s] /\ left[s] # None =>
            left'[s] >= left[s] \/ waited[s] > MaxTTL - TTL]_vars

(* "any listeners told" (session.go:401): a listener hears the end from    *)
(* the log unless "ended" was emitted after the log was finished. That     *)
(* happens: run's end sees the record terminate wrote, and finishes the    *)
(* log (session.go:200) before terminate emits (418). A listener that had  *)
(* read everything is then closed without the event (fanout.go:28-29) and  *)
(* hears the end from the table when it connects again, which by then says *)
(* ended.                                                                  *)
Hears(s) == told[s] = "yes" \/ (told[s] = "late" /\ status[s] = "ended")

LetGo(s) == done[s] /\ s \notin live

(* Every session that was started ends: its record says so, its listeners  *)
(* hear it (see Hears), its stream closes and m.live forgets it, whether   *)
(* it ends by itself, is replaced, or both at once; unless the process     *)
(* dies first.                                                             *)
EverySessionCloses ==
    \A s \in Request :
        rpc[s] \in Running ~> (status[s] = "ended" /\ Hears(s) /\ LetGo(s)) \/ rpc[s] = "dead"

(* "A session lasts 15 minutes of activity and can be extended once to 30" *)
(* (README.md:49-50): a record that goes live is one day ended, so that it *)
(* no longer counts against the limits, restart or not.                    *)
EverySessionEnds ==
    \A s \in Request : status[s] = "live" ~> status[s] = "ended"

(* Whoever listens to a session hears its end (see Hears) and is let go,   *)
(* though writes of the table fail, clients leave in the middle of a       *)
(* replacement, and a session is replaced that is still being prepared.    *)
ListenersHear ==
    \A s \in Request : rpc[s] \in Running ~> (Hears(s) /\ LetGo(s)) \/ rpc[s] = "dead"

(* A sandbox that is watched goes in the end without the platform's help,  *)
(* a replacement that was left half done included; or the watch loop asked *)
(* for its delete at the expiry and that failed (box "left"): the error is *)
(* dropped and nobody tries again (session.go:317).                        *)
WatchedSandboxesGo ==
    \A s \in Request : rpc[s] = "watch" ~> box[s] \in {"gone", "left"} \/ rpc[s] = "dead"

-------------------------------------------------------------------------------
(* What makes the properties above that hold whatever the environment does *)
(* inductive.                                                              *)

Statuses == {"none", "building", "starting", "live", "ended"}
CreatePlaces == {"idle", "list", "terminate", "record", "tell", "admit", "insert", "register", "over"}
Ending == {"ending", "endWrite", "endTell", "endDrop"}
Terminating == {"terminate", "record", "tell"}

(* Places at which run writes the record no more, but for its end.         *)
Settled == {"watch", "over", "dead"} \cup Ending

TypeOK ==
    /\ status \in [Request -> Statuses]
    /\ hasBox \in [Request -> BOOLEAN] /\ extended \in [Request -> BOOLEAN]
    /\ left \in [Request -> Int \cup {None}]
    /\ device \in [Request -> Device \cup {None}] /\ ip \in [Request -> IP \cup {None}]
    /\ cpc \in [Request -> CreatePlaces]
    /\ byIP \in [Request -> Int]
    /\ victims \in [Request -> SUBSET Request] /\ stale \in [Request -> SUBSET Request]
    /\ victim \in [Request -> Request \cup {None}]
    /\ live \subseteq Request
    /\ told \in [Request -> {"no", "yes", "late"}] /\ done \in [Request -> BOOLEAN]
    /\ rpc \in [Request -> {"idle"} \cup Waiting \cup Settled]
    /\ rebuilt \in [Request -> BOOLEAN]
    /\ xpc \in [Request -> {"idle", "keep", "write"}]
    /\ box \in [Request -> {"none", "up", "left", "gone"}]
    /\ waited \in [Request -> Nat] /\ lived \in [Request -> Nat]
    /\ polled \subseteq Request /\ gone \subseteq Request /\ crashes \in Nat /\ excused \subseteq Request

(* A record, its run, its Create and its Extend keep step.                 *)
Course(s) ==
    /\ cpc[s] \notin {"register", "over"} => status[s] = "none"
    /\ cpc[s] # "over" => rpc[s] = "idle"
    /\ status[s] = "none" => rpc[s] = "idle" /\ cpc[s] # "register"
    /\ s \in live => cpc[s] = "over" /\ status[s] # "none"
    /\ status[s] = "live" \/ xpc[s] # "idle" => rpc[s] \in Settled
    /\ status[s] = "ended" => s \in excused
    /\ s \in excused => status[s] # "none"

(* The sessions a call terminates are among those it set out to replace.   *)
Calls(r) ==
    /\ victims[r] \subseteq excused
    /\ cpc[r] \in {"record", "tell"} => victim[r] \in victims[r]

(* The sessions that count for a device, and the calls that may add one    *)
(* without listing it first.                                               *)
Counted(d) ==
    (OfDevice(d) \ excused)
        \cup {r \in Request : device[r] = d /\ cpc[r] \in Terminating \cup {"admit", "insert"}}

Room ==
    /\ Cardinality({r \in Request : InCreate(r)}) <= Overlap
    /\ \A d \in Device : Cardinality(Counted(d)) <= PerDevice + Overlap - 1

(* The expiry never lies beyond what the session is allowed, a live record *)
(* that is watched has one, and a session that was looked at since the     *)
(* last tick had not reached it.                                           *)
Clock(s) ==
    /\ rpc[s] \in {"idle"} \cup Waiting => lived[s] = 0
    /\ left[s] # None => lived[s] + left[s] <= Allowed(s)
    /\ status[s] = "live" \/ xpc[s] # "idle" =>
        /\ rpc[s] = "watch" => left[s] # None /\ (s \in polled => lived[s] <= Allowed(s))
        /\ rpc[s] \in {"watch"} \cup Ending => lived[s] <= Allowed(s) + 1

SessionInv ==
    /\ TypeOK /\ Room
    /\ \A s \in Request : Course(s) /\ Calls(s) /\ Clock(s)
===============================================================================
