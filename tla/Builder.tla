-------------------------------- MODULE Builder --------------------------------
(***************************************************************************)
(* internal/builder: Ensure, the execute pipeline and the way a caller     *)
(* follows a build to its outcome, over the builds table of the store and  *)
(* the sandbox platform.                                                   *)
(*                                                                         *)
(* A build id stands for its commit: the table is unique on (owner, repo,  *)
(* sha) and UpdateBuild keeps the id. One execute goroutine is a run. A    *)
(* run creates at most one sandbox and one snapshot, so both are named     *)
(* after it. A step of the pipeline is one action: the platform calls of a *)
(* phase (clone, detect, install, start) only decide how the phase ends.   *)
(***************************************************************************)
EXTENDS Naturals, FiniteSets, Phases

CONSTANTS
    Build,          \* build ids
    Run,            \* bound: executions that can be started
    Caller,         \* callers of Ensure (session.Create) that follow the build
    Concurrency,    \* cap(b.sem)
    Misfortune,     \* what may go wrong beyond a failing phase, see below
    MaxMishaps,     \* bound: how often it may, in one behaviour
    None

(* "refuse": a create fails, refused or its answer lost; "vanish": Get     *)
(* fails while WaitReady polls; "timeout": buildTimeout passes;            *)
(* "undeleted": a Delete fails; "crash": the process dies and restarts.    *)
ASSUME BuilderAssumption ==
    /\ Concurrency \in Nat \ {0}
    /\ IsFiniteSet(Run)
    /\ MaxMishaps \in Nat
    /\ None \notin Run \cup Build \cup {"ready", "failed", "unsupported"}
    /\ Misfortune \subseteq {"refuse", "vanish", "timeout", "undeleted", "crash"}

VARIABLES
    record,     \* the builds table (durable)
    runs,       \* b.runs: the live run of a build
    tokens,     \* the runs holding a slot of b.sem
    pc,         \* per run: where execute is
    of,         \* per run: its build
    sb,         \* per run: the local sb.ID, None when it is ""
    mem,        \* per run: r.build's golden and snapshot ids
    outcome,    \* per run: the status it will record, None while it works
    expired,    \* per run: its ctx passed buildTimeout
    logDone,    \* per run: r.log is finished
    box,        \* platform: the sandbox a run created
    snap,       \* platform: the snapshot a run took
    cpc,        \* per caller: where it is
    cb,         \* per caller: the build Ensure gave it
    crun,       \* per caller: the run whose log it follows
    seen,       \* per caller: the status it acted on, None before
    mishaps     \* misfortunes so far

store == <<record>>
builderVars == <<runs, tokens>>
runVars == <<pc, of, sb, mem, outcome, expired, logDone>>
platform == <<box, snap>>
callerVars == <<cpc, cb, crun, seen>>
vars == <<record, runs, tokens, pc, of, sb, mem, outcome, expired, logDone,
          box, snap, cpc, cb, crun, seen, mishaps>>

Settled == {"ready", "failed", "unsupported"}

Locations == {"unused", "queued", "begin", "create", "waitReady", "clone", "detect",
              "install", "start", "snapshot", "waitSnapshot", "pause", "settle",
              "finish", "unregister", "cleanup", "release", "over", "lost"}

Init ==
    /\ record = [b \in Build |-> [status |-> "none", golden |-> None, snapshot |-> None]]
    /\ runs = [b \in Build |-> None]
    /\ tokens = {}
    /\ pc = [r \in Run |-> "unused"]
    /\ of = [r \in Run |-> None]
    /\ sb = [r \in Run |-> None]
    /\ mem = [r \in Run |-> [golden |-> None, snapshot |-> None]]
    /\ outcome = [r \in Run |-> None]
    /\ expired = [r \in Run |-> FALSE]
    /\ logDone = [r \in Run |-> FALSE]
    /\ box = [r \in Run |-> "none"]
    /\ snap = [r \in Run |-> "none"]
    /\ cpc = [c \in Caller |-> "idle"]
    /\ cb = [c \in Caller |-> None]
    /\ crun = [c \in Caller |-> None]
    /\ seen = [c \in Caller |-> None]
    /\ mishaps = 0

(* The environment spends one of its misfortunes.                          *)
Mishap(kind) ==
    /\ kind \in Misfortune
    /\ mishaps < MaxMishaps
    /\ mishaps' = mishaps + 1

Goto(r, l) == pc' = [pc EXCEPT ![r] = l]

-------------------------------------------------------------------------------
(* Ensure, under b.mu.                                                     *)

(* A slip: a build that failed is run again.                               *)
TrustworthyIfReady(b) == runs[b] # None \/ record[b].status = "ready"

(* A slip: a run under way is not looked for.                              *)
TrustworthyIfSettled(b) == record[b].status \in Settled

Trustworthy(b) == runs[b] # None \/ record[b].status \in Settled

(* Which of the unused names a run gets does not matter.                   *)
NextName(r) == r = CHOOSE q \in Run : pc[q] = "unused"

(* start: a fresh run whose r.build is the record just written.            *)
Start(b, r) ==
    /\ pc[r] = "unused"
    /\ NextName(r)
    /\ Goto(r, "queued")
    /\ of' = [of EXCEPT ![r] = b]
    /\ mem' = [mem EXCEPT ![r] = [golden |-> record[b].golden, snapshot |-> record[b].snapshot]]
    /\ runs' = [runs EXCEPT ![b] = r]
    /\ UNCHANGED <<tokens, sb, outcome, expired, logDone, platform>>

(* The record is returned as it is, or created or re-queued and started.   *)
(* The caller goes on with what was returned: a ready build needs no       *)
(* following.                                                              *)
EnsureBuild(c, b) ==
    /\ cpc[c] = "idle"
    /\ cb' = [cb EXCEPT ![c] = b]
    /\ \/ /\ Trustworthy(b)
          /\ cpc' = [cpc EXCEPT ![c] = IF record[b].status = "ready" THEN "settled" ELSE "ensured"]
          /\ seen' = [seen EXCEPT ![c] = IF record[b].status = "ready" THEN "ready" ELSE None]
          /\ UNCHANGED <<record, runs, tokens, runVars, platform>>
       \/ /\ ~Trustworthy(b)
          /\ \E r \in Run : Start(b, r)
          /\ record' = [record EXCEPT ![b].status = "queued"]
          /\ cpc' = [cpc EXCEPT ![c] = "ensured"]
          /\ UNCHANGED seen
    /\ UNCHANGED <<crun, mishaps>>

-------------------------------------------------------------------------------
(* execute.                                                                *)

Acquire(r) ==
    /\ pc[r] = "queued"
    /\ Cardinality(tokens) < Concurrency
    /\ tokens' = tokens \cup {r}
    /\ Goto(r, "begin")
    /\ UNCHANGED <<record, runs, of, sb, mem, outcome, expired, logDone, platform, callerVars, mishaps>>

(* buildTimeout passes; from here on calls made with ctx fail.             *)
Expire(r) ==
    /\ Mishap("timeout")
    /\ r \in tokens
    /\ ~expired[r]
    /\ expired' = [expired EXCEPT ![r] = TRUE]
    /\ UNCHANGED <<record, runs, tokens, pc, of, sb, mem, outcome, logDone, platform, callerVars>>

(* UpdateBuild(ctx, r.build): an error is logged and forgotten.            *)
Record(r, status) ==
    record' = IF expired[r] THEN record
              ELSE [record EXCEPT ![of[r]] = [status |-> status, golden |-> mem[r].golden,
                                              snapshot |-> mem[r].snapshot]]

Begin(r) ==
    /\ pc[r] = "begin"
    /\ Record(r, "building")
    /\ Goto(r, "create")
    /\ UNCHANGED <<runs, tokens, of, sb, mem, outcome, expired, logDone, platform, callerVars, mishaps>>

CreateBox(r) ==
    /\ pc[r] = "create"
    /\ ~expired[r]
    /\ box' = [box EXCEPT ![r] = "up"]
    /\ sb' = [sb EXCEPT ![r] = r]
    /\ mem' = [mem EXCEPT ![r].golden = r]
    /\ Goto(r, "waitReady")
    /\ UNCHANGED <<record, runs, tokens, of, outcome, expired, logDone, snap, callerVars, mishaps>>

Ready(r) ==
    /\ pc[r] = "waitReady"
    /\ ~expired[r]
    /\ Goto(r, "clone")
    /\ UNCHANGED <<record, builderVars, of, sb, mem, outcome, expired, logDone, platform, callerVars, mishaps>>

(* clone, detect, install and start end well. An install or a start        *)
(* without commands makes no call: it ends well after the timeout too.     *)
Work(r) ==
    /\ pc[r] \in DOMAIN After
    /\ ~expired[r] \/ pc[r] \in {"install", "start"}
    /\ Goto(r, After[pc[r]])
    /\ UNCHANGED <<record, builderVars, of, sb, mem, outcome, expired, logDone, platform, callerVars, mishaps>>

TakeSnapshot(r) ==
    /\ pc[r] = "snapshot"
    /\ ~expired[r]
    /\ snap' = [snap EXCEPT ![r] = "capturing"]
    /\ Goto(r, "waitSnapshot")
    /\ UNCHANGED <<record, builderVars, of, sb, mem, outcome, expired, logDone, box, callerVars, mishaps>>

WaitSnapshot(r) ==
    /\ pc[r] = "waitSnapshot"
    /\ ~expired[r]
    /\ snap' = [snap EXCEPT ![r] = "ready"]
    /\ Goto(r, "pause")
    /\ UNCHANGED <<record, builderVars, of, sb, mem, outcome, expired, logDone, box, callerVars, mishaps>>

(* The golden is paused, or the call fails and that is only logged; the    *)
(* deferred delete is called off by keep (here: outcome "ready").          *)
Pause(r) ==
    /\ pc[r] = "pause"
    /\ \/ ~expired[r] /\ box' = [box EXCEPT ![r] = "paused"]
       \/ UNCHANGED box
    /\ outcome' = [outcome EXCEPT ![r] = "ready"]
    /\ mem' = [mem EXCEPT ![r].snapshot = r]
    /\ Goto(r, "settle")
    /\ UNCHANGED <<record, builderVars, of, sb, expired, logDone, snap, callerVars, mishaps>>

(* fail(status, ...): the phase could not be done. A create fails when the *)
(* platform refuses it, its answer is lost or the ctx is done, before sb   *)
(* exists; there may be a sandbox all the same. When Get fails, by itself  *)
(* or on a ctx that is done, WaitReady returns an empty Sandbox and        *)
(* execute's sb is overwritten with it.                                    *)
Fail(r, status) ==
    /\ pc[r] \in DOMAIN Verdicts
    /\ status \in Verdicts[pc[r]]
    /\ \/ /\ pc[r] = "create"
          /\ (~expired[r] /\ Mishap("refuse")) \/ (expired[r] /\ UNCHANGED mishaps)
          /\ \E b \in {"none", "up"} : box' = [box EXCEPT ![r] = b]
          /\ UNCHANGED sb
       \/ /\ pc[r] = "waitReady"
          /\ Mishap("vanish") \/ (expired[r] /\ UNCHANGED mishaps)
          /\ sb' = [sb EXCEPT ![r] = None]
          /\ UNCHANGED box
       \/ pc[r] # "create" /\ UNCHANGED <<box, sb, mishaps>>
    /\ outcome' = [outcome EXCEPT ![r] = status]
    /\ Goto(r, "settle")
    /\ UNCHANGED <<record, builderVars, of, mem, expired, logDone, snap, callerVars>>

(* The common end of fail and of a success: the outcome is recorded, then  *)
(* the log finished, then the run unregistered; the deferred calls follow. *)
Settle(r) ==
    /\ pc[r] = "settle"
    /\ Record(r, outcome[r])
    /\ Goto(r, "finish")
    /\ UNCHANGED <<builderVars, of, sb, mem, outcome, expired, logDone, platform, callerVars, mishaps>>

FinishLog(r) ==
    /\ pc[r] = "finish"
    /\ logDone' = [logDone EXCEPT ![r] = TRUE]
    /\ Goto(r, "unregister")
    /\ UNCHANGED <<record, builderVars, of, sb, mem, outcome, expired, platform, callerVars, mishaps>>

Unregister(r) ==
    /\ pc[r] = "unregister"
    /\ runs' = [runs EXCEPT ![of[r]] = None]
    /\ Goto(r, "cleanup")
    /\ UNCHANGED <<record, tokens, of, sb, mem, outcome, expired, logDone, platform, callerVars, mishaps>>

(* Deleting a sandbox deletes the snapshots it owns.                       *)
DeleteBox(x) ==
    /\ box' = [box EXCEPT ![x] = "deleted"]
    /\ snap' = [snap EXCEPT ![x] = IF @ = "none" THEN "none" ELSE "gone"]

(* A Delete that fails leaves what is there, and its error is dropped.     *)
DeleteFails(x) ==
    /\ Mishap("undeleted")
    /\ box' = [box EXCEPT ![x] = IF @ = "deleted" THEN @ ELSE "left"]
    /\ UNCHANGED snap

Delete(x) == (DeleteBox(x) /\ UNCHANGED mishaps) \/ DeleteFails(x)

(* A slip: the golden is deleted too.                                      *)
CleanupAlways(r) ==
    /\ pc[r] = "cleanup"
    /\ IF sb[r] # None THEN Delete(sb[r]) ELSE UNCHANGED <<platform, mishaps>>
    /\ Goto(r, "release")
    /\ UNCHANGED <<record, builderVars, of, sb, mem, outcome, expired, logDone, callerVars>>

(* A slip: a failed build does not ask for the delete of its sandbox.      *)
CleanupNever(r) ==
    /\ pc[r] = "cleanup"
    /\ UNCHANGED platform
    /\ Goto(r, "release")
    /\ UNCHANGED <<record, builderVars, of, sb, mem, outcome, expired, logDone, callerVars, mishaps>>

(* A Delete that fails is logged and not tried again.                      *)
Cleanup(r) ==
    /\ pc[r] = "cleanup"
    /\ IF outcome[r] # "ready" /\ sb[r] # None THEN Delete(sb[r]) ELSE UNCHANGED <<platform, mishaps>>
    /\ Goto(r, "release")
    /\ UNCHANGED <<record, builderVars, of, sb, mem, outcome, expired, logDone, callerVars>>

(* A slip: a failed build keeps its slot.                                  *)
ReleaseOnlyIfReady(r) ==
    /\ pc[r] = "release"
    /\ tokens' = IF outcome[r] = "ready" THEN tokens \ {r} ELSE tokens
    /\ Goto(r, "over")
    /\ UNCHANGED <<record, runs, of, sb, mem, outcome, expired, logDone, platform, callerVars, mishaps>>

Release(r) ==
    /\ pc[r] = "release"
    /\ tokens' = tokens \ {r}
    /\ Goto(r, "over")
    /\ UNCHANGED <<record, runs, of, sb, mem, outcome, expired, logDone, platform, callerVars, mishaps>>

-------------------------------------------------------------------------------
(* Following a build (Builder.Subscribe and session.follow).               *)

(* A slip: the stored record is read, run or no run.                       *)
SubscribeStored(c) ==
    /\ cpc[c] = "ensured"
    /\ cpc' = [cpc EXCEPT ![c] = "reading"]
    /\ UNCHANGED <<record, builderVars, runVars, platform, cb, crun, seen, mishaps>>

(* A live run's log is followed; otherwise the stored record is replayed.  *)
Subscribe(c) ==
    /\ cpc[c] = "ensured"
    /\ crun' = [crun EXCEPT ![c] = runs[cb[c]]]
    /\ cpc' = [cpc EXCEPT ![c] = IF runs[cb[c]] = None THEN "reading" ELSE "following"]
    /\ UNCHANGED <<record, builderVars, runVars, platform, cb, seen, mishaps>>

StreamEnds(c) ==
    /\ cpc[c] = "following"
    /\ logDone[crun[c]]
    /\ cpc' = [cpc EXCEPT ![c] = "reading"]
    /\ UNCHANGED <<record, builderVars, runVars, platform, cb, crun, seen, mishaps>>

(* "The stream closes when the build ends; read the final record."         *)
ReadOutcome(c) ==
    /\ cpc[c] = "reading"
    /\ seen' = [seen EXCEPT ![c] = record[cb[c]].status]
    /\ cpc' = [cpc EXCEPT ![c] = "settled"]
    /\ UNCHANGED <<record, builderVars, runVars, platform, cb, crun, mishaps>>

-------------------------------------------------------------------------------
(* The process dies: runs and callers with it. The store and the platform  *)
(* are elsewhere. The new process starts with empty maps.                  *)
InFlight == Locations \ {"unused", "over", "lost"}

Crash ==
    /\ Mishap("crash")
    /\ runs' = [b \in Build |-> None]
    /\ tokens' = {}
    /\ pc' = [r \in Run |-> IF pc[r] \in InFlight THEN "lost" ELSE pc[r]]
    /\ cpc' = [c \in Caller |-> IF cpc[c] \in {"ensured", "following", "reading"} THEN "gone" ELSE cpc[c]]
    /\ UNCHANGED <<record, of, sb, mem, outcome, expired, logDone, platform, cb, crun, seen>>

-------------------------------------------------------------------------------
Execute(r) ==
    \/ Acquire(r)
    \/ Begin(r)
    \/ CreateBox(r)
    \/ Ready(r)
    \/ Work(r)
    \/ TakeSnapshot(r)
    \/ WaitSnapshot(r)
    \/ Pause(r)
    \/ \E status \in Settled : Fail(r, status)
    \/ Settle(r)
    \/ FinishLog(r)
    \/ Unregister(r)
    \/ Cleanup(r)
    \/ Release(r)

Follow(c) == Subscribe(c) \/ StreamEnds(c) \/ ReadOutcome(c)

Next ==
    \/ \E c \in Caller, b \in Build : EnsureBuild(c, b)
    \/ \E r \in Run : Execute(r) \/ Expire(r)
    \/ \E c \in Caller : Follow(c)
    \/ Crash

(* Every call of the pipeline has a timeout, so a goroutine that can go on *)
(* does; a send on the semaphore is served in the order of arrival.        *)
Fairness ==
    /\ \A r \in Run : WF_vars(Execute(r))
    /\ \A c \in Caller : WF_vars(Follow(c))

Spec == Init /\ [][Next]_vars

FairSpec == Spec /\ Fairness

-------------------------------------------------------------------------------
(* Every variable has its type.                                            *)
TypeOK ==
    /\ record \in [Build -> [status : Settled \cup {"none", "queued", "building"},
                             golden : Run \cup {None}, snapshot : Run \cup {None}]]
    /\ runs \in [Build -> Run \cup {None}]
    /\ tokens \subseteq Run
    /\ pc \in [Run -> Locations]
    /\ of \in [Run -> Build \cup {None}]
    /\ sb \in [Run -> Run \cup {None}]
    /\ mem \in [Run -> [golden : Run \cup {None}, snapshot : Run \cup {None}]]
    /\ outcome \in [Run -> Settled \cup {None}]
    /\ expired \in [Run -> BOOLEAN]
    /\ logDone \in [Run -> BOOLEAN]
    /\ box \in [Run -> {"none", "up", "paused", "left", "deleted"}]
    /\ snap \in [Run -> {"none", "capturing", "ready", "gone"}]
    /\ cpc \in [Caller -> {"idle", "ensured", "following", "reading", "settled", "gone"}]
    /\ cb \in [Caller -> Build \cup {None}]
    /\ crun \in [Caller -> Run \cup {None}]
    /\ seen \in [Caller -> Settled \cup {"none", "queued", "building", None}]
    /\ mishaps \in 0 .. MaxMishaps

Registered == {"queued", "begin", "create", "waitReady", "clone", "detect", "install",
               "start", "snapshot", "waitSnapshot", "pause", "settle", "finish", "unregister"}

Holding == InFlight \ {"queued"}

(* "Concurrent callers for the same commit share one build" (builder.go:98),*)
(* across failing runs, restarts and runs that are still cleaning up.      *)
OneRunPerBuild ==
    \A r, q \in Run :
        pc[r] \in Registered /\ pc[q] \in Registered /\ of[r] = of[q] => r = q

(* The pool is not exceeded: at most Concurrency pipelines are past the    *)
(* semaphore, the ones still deleting their sandbox included.              *)
PoolBound == Cardinality({r \in Run : pc[r] \in Holding}) <= Concurrency

(* A record that says ready names a finished snapshot and the sandbox that *)
(* owns it, and neither was deleted ("success keeps it as golden",         *)
(* builder.go:259): a visitor can restore from it.                         *)
ReadyIsRestorable ==
    \A b \in Build :
        record[b].status = "ready" =>
            \E r \in Run :
                /\ record[b].golden = r /\ record[b].snapshot = r
                /\ box[r] \in {"up", "paused"}
                /\ snap[r] = "ready"

(* "Any failure from here on deletes the sandbox; success keeps it as      *)
(* golden" (builder.go:259): when a run is over its sandbox is gone or is  *)
(* the golden of a ready record.                                           *)
Orphan(r) ==
    /\ pc[r] = "over"
    /\ box[r] \in {"up", "paused", "left"}
    /\ ~(record[of[r]].status = "ready" /\ record[of[r]].golden = r)

NoOrphanBox == \A r \in Run : ~Orphan(r)

(* What the code guarantees of it: a run that is over leaves a sandbox     *)
(* behind only if it asked for its delete and that failed (box "left",     *)
(* builder.go:263 logs it), if it had no id for it (the create's answer or *)
(* WaitReady lost it), or if its time was up before the outcome was        *)
(* recorded.                                                               *)
OrphansHaveACause ==
    \A r \in Run : Orphan(r) => box[r] = "left" \/ sb[r] = None \/ expired[r]

(* "execute runs the whole pipeline for one build and records the outcome" *)
(* (builder.go:205).                                                       *)
OutcomeRecorded ==
    \A r \in Run : pc[r] = "over" => record[of[r]].status = outcome[r]

(* "The stream closes when the build ends; read the final record"          *)
(* (session.go:347): whichever way the end of a run interleaves with a     *)
(* caller that joins, follows or reads, the caller acts on an outcome,     *)
(* never on queued or building (which session.follow reports as "build     *)
(* failed"), except when the outcome itself was lost to the timeout.       *)
CallersActOnOutcomes ==
    \A c \in Caller :
        \/ seen[c] \in Settled \cup {None}
        \/ \E r \in Run : of[r] = cb[c] /\ expired[r]

(* An outcome, once recorded, stays (Ensure, builder.go:104-108): callers  *)
(* that come later agree with those that came before, whatever Ensure and  *)
(* the runs do. (Visitors adds the one who resets it on purpose.)          *)
OutcomesAreFinal ==
    [][\A b \in Build : record[b].status \in Settled => record'[b] = record[b]]_vars

(* Whoever asked for a build hears its outcome, unless the process dies:   *)
(* nobody waits on a run that is gone, and no run waits for a slot that is *)
(* never given back.                                                       *)
EveryCallerHears ==
    \A c \in Caller : cpc[c] = "ensured" ~> cpc[c] \in {"settled", "gone"}

(* The inductive strengthening of the invariants above.                    *)
Working == Registered \ {"settle", "finish", "unregister"}

Preparing == {"waitReady", "clone", "detect", "install", "start", "snapshot", "waitSnapshot", "pause"}

Ending == {"settle", "finish", "unregister", "cleanup", "release", "over"}

(* The slots are held by the runs between Acquire and Release.             *)
Slots ==
    /\ tokens = {r \in Run : pc[r] \in Holding}
    /\ Cardinality(tokens) <= Concurrency

(* A run is in b.runs from start until it is unregistered.                 *)
InRuns(r) ==
    /\ pc[r] = "unused" => of[r] = None
    /\ pc[r] # "unused" => of[r] \in Build
    /\ pc[r] \in Registered => runs[of[r]] = r

(* What holds of the runs and the callers whoever else writes the records. *)
Tracked ==
    /\ TypeOK
    /\ \A r \in Run : InRuns(r) /\ (pc[r] \in Ending => outcome[r] # None)
    /\ \A c \in Caller : cpc[c] # "idle" => cb[c] \in Build

(* What a run holds: its sandbox, its snapshot, and the ids it will write. *)
Holds(r) ==
    /\ sb[r] \in {None, r}
    /\ pc[r] \in Working \cup {"unused"} => outcome[r] = None
    /\ pc[r] \in Ending => outcome[r] # None
    /\ pc[r] \in Preparing => box[r] = "up" /\ mem[r].golden = r
    /\ pc[r] = "pause" => snap[r] = "ready"
    /\ outcome[r] = "ready" =>
        /\ box[r] \in {"up", "paused"} /\ snap[r] = "ready"
        /\ mem[r].golden = r /\ mem[r].snapshot = r
    /\ pc[r] \in {"release", "over"} /\ outcome[r] # "ready" /\ sb[r] # None =>
        box[r] \in {"left", "deleted"}

(* The record of a build while a run works on it, and once it is written.  *)
Wrote(r) ==
    /\ pc[r] \in Working \cup {"settle"} => record[of[r]].status \notin Settled
    /\ pc[r] \in Ending \ {"settle"} /\ ~expired[r] => record[of[r]].status \in Settled
    /\ pc[r] \in Ending \ {"settle"} /\ ~expired[r] /\ outcome[r] = "ready" =>
        record[of[r]].status = "ready" /\ record[of[r]].golden = r

(* A record that says ready was written by the run that made its golden.   *)
Restorable(b) ==
    record[b].status = "ready" =>
        /\ record[b].golden \in Run
        /\ outcome[record[b].golden] = "ready"
        /\ record[b].snapshot = record[b].golden

(* A build has an outcome, or one of its runs ran out of time.             *)
Told(b) == record[b].status \in Settled \/ \E r \in Run : of[r] = b /\ expired[r]

Follows(c) ==
    /\ cpc[c] = "idle" => seen[c] = None
    /\ cpc[c] # "idle" => cb[c] \in Build
    /\ cpc[c] = "ensured" => runs[cb[c]] # None \/ Told(cb[c])
    /\ cpc[c] = "following" => crun[c] \in Run /\ of[crun[c]] = cb[c]
    /\ cpc[c] = "reading" => Told(cb[c])
    /\ seen[c] \in Settled \cup {None} \/ \E r \in Run : of[r] = cb[c] /\ expired[r]

BuilderInv ==
    /\ TypeOK
    /\ Slots
    /\ \A r \in Run : InRuns(r) /\ Holds(r) /\ Wrote(r)
    /\ \A r \in Run : logDone[r] => of[r] \in Build /\ Told(of[r])
    /\ \A b \in Build : Restorable(b) /\ (runs[b] # None => of[runs[b]] = b)
    /\ \A c \in Caller : Follows(c)
===============================================================================
