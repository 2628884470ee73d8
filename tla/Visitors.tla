-------------------------------- MODULE Visitors --------------------------------
(***************************************************************************)
(* The visitors' side of a build (session.run up to its restored sandbox,  *)
(* session.go:195-274 and session.rebuild), composed with Builder: several *)
(* visitors restore from one record, and any of them may find the snapshot *)
(* gone, delete the golden and queue the commit again.                     *)
(*                                                                         *)
(* A visitor is a Caller of Builder. Each goes on with a copy of the build *)
(* record, made when Ensure or follow returned it. No build runs out of    *)
(* time here: Builder has that case.                                       *)
(***************************************************************************)
EXTENDS Builder

VARIABLES
    vpc,        \* per visitor: where the restore loop is
    rebuilt,    \* per visitor: the local rebuilt
    bld         \* per visitor: the local bld, a copy of the record

visitorVars == <<vpc, rebuilt, bld>>
allVars == <<vars, visitorVars>>

NoRecord == [status |-> "none", golden |-> None, snapshot |-> None]

VisitorsInit ==
    /\ Init
    /\ vpc = [c \in Caller |-> "follow"]
    /\ rebuilt = [c \in Caller |-> FALSE]
    /\ bld = [c \in Caller |-> NoRecord]

VisitTo(c, l) == vpc' = [vpc EXCEPT ![c] = l]

(* Create calls Ensure; so does rebuild, for the commit it has reset.      *)
Visit(c, b) ==
    /\ vpc[c] = "follow"
    /\ rebuilt[c] => b = cb[c]
    /\ EnsureBuild(c, b)
    /\ bld' = [bld EXCEPT ![c] = record'[b]]
    /\ UNCHANGED <<vpc, rebuilt>>

Arrive(c, b) == ~rebuilt[c] /\ Visit(c, b)

EnsureAgain(c) == rebuilt[c] /\ \E b \in Build : Visit(c, b)

(* follow ends with the final record.                                      *)
FinalRecord(c) ==
    /\ ReadOutcome(c)
    /\ bld' = [bld EXCEPT ![c] = record[cb[c]]]
    /\ UNCHANGED <<vpc, rebuilt>>

Followed(c) == vpc[c] = "follow" /\ cpc[c] = "settled"

(* follow has ended the session.                                           *)
TurnedAway(c) ==
    /\ Followed(c)
    /\ seen[c] # "ready"
    /\ VisitTo(c, "ended")
    /\ UNCHANGED <<vars, rebuilt, bld>>

Restore(c) ==
    /\ Followed(c)
    /\ seen[c] = "ready"
    /\ bld[c].snapshot # None /\ snap[bld[c].snapshot] = "ready"
    /\ VisitTo(c, "up")
    /\ UNCHANGED <<vars, rebuilt, bld>>

(* ErrBusy, or a second refusal.                                           *)
GiveUp(c) ==
    /\ Followed(c)
    /\ seen[c] = "ready"
    /\ VisitTo(c, "ended")
    /\ UNCHANGED <<vars, rebuilt, bld>>

(* A slip: the delete of the golden is not asked for.                      *)
RefusedKeepsGolden(c) ==
    /\ Followed(c)
    /\ seen[c] = "ready"
    /\ ~rebuilt[c]
    /\ rebuilt' = [rebuilt EXCEPT ![c] = TRUE]
    /\ VisitTo(c, "requeue")
    /\ UNCHANGED <<vars, bld>>

(* Any other refusal is taken for a lost snapshot, once. rebuild deletes   *)
(* the golden of the copy first and goes on if that fails.                 *)
Refused(c) ==
    /\ Followed(c)
    /\ seen[c] = "ready"
    /\ ~rebuilt[c]
    /\ rebuilt' = [rebuilt EXCEPT ![c] = TRUE]
    /\ IF bld[c].golden # None THEN Delete(bld[c].golden) ELSE UNCHANGED <<platform, mishaps>>
    /\ VisitTo(c, "requeue")
    /\ UNCHANGED <<store, builderVars, runVars, callerVars, bld>>

(* UpdateBuild with the copy, whatever the record says by now.             *)
Requeue(c) ==
    /\ vpc[c] = "requeue"
    /\ record' = [record EXCEPT ![cb[c]] = [status |-> "queued", golden |-> None, snapshot |-> None]]
    /\ VisitTo(c, "follow")
    /\ cpc' = [cpc EXCEPT ![c] = "idle"]
    /\ crun' = [crun EXCEPT ![c] = None]
    /\ seen' = [seen EXCEPT ![c] = None]
    /\ UNCHANGED <<builderVars, runVars, platform, cb, mishaps, rebuilt, bld>>

(* The process dies, and every session's goroutine with it.                *)
VisitorsCrash ==
    /\ Crash
    /\ vpc' = [c \in Caller |->
                IF (vpc[c] = "follow" /\ (cpc[c] # "idle" \/ rebuilt[c])) \/ vpc[c] = "requeue"
                THEN "gone" ELSE vpc[c]]
    /\ UNCHANGED <<rebuilt, bld>>

-------------------------------------------------------------------------------
Proceed(c) ==
    \/ EnsureAgain(c)
    \/ Subscribe(c) /\ UNCHANGED visitorVars
    \/ StreamEnds(c) /\ UNCHANGED visitorVars
    \/ FinalRecord(c)
    \/ TurnedAway(c)
    \/ Restore(c)
    \/ GiveUp(c)
    \/ Refused(c)
    \/ Requeue(c)

Pipeline(r) == Execute(r) /\ UNCHANGED visitorVars

VisitorsNext ==
    \/ \E c \in Caller, b \in Build : Arrive(c, b)
    \/ \E c \in Caller : Proceed(c)
    \/ \E r \in Run : Pipeline(r)
    \/ VisitorsCrash

(* As in Builder: goroutines and handlers go on when they can.             *)
VisitorsFairness ==
    /\ \A r \in Run : WF_allVars(Pipeline(r))
    /\ \A c \in Caller : WF_allVars(Proceed(c))

VisitorsSpec == VisitorsInit /\ [][VisitorsNext]_allVars /\ VisitorsFairness

-------------------------------------------------------------------------------
(* A finished golden that its record names.                                *)
Golden(r) ==
    /\ pc[r] \in {"finish", "unregister", "cleanup", "release", "over"}
    /\ box[r] \in {"up", "paused", "left"}
    /\ record[of[r]].golden = r /\ record[of[r]].status = "ready"

(* A golden that is still there is forgotten by its record only when a     *)
(* visitor resets the record for one of two reasons: its copy is out of    *)
(* date and names another golden, or it asked for the delete of this one   *)
(* and a Delete failed. "The golden that owned the snapshot is deleted if  *)
(* it still exists" (session.go:364) says neither can be; session.go:369   *)
(* drops the error and deletes what the copy names.                        *)
ForgottenForACause ==
    [][\A r \in Run :
        Golden(r) /\ box'[r] # "deleted" =>
            \/ record'[of[r]].golden = r
            \/ \E c \in Caller :
                /\ vpc[c] = "requeue" /\ cb[c] = of[r]
                /\ bld[c].golden # r \/ box[r] = "left"]_allVars

(* "rebuild queues the commit again after its snapshot was lost"           *)
(* (session.go:363): a record that says ready is reset only when its       *)
(* snapshot is gone.                                                       *)
ResetOnlyWhenLost ==
    [][\A b \in Build :
        record[b].status = "ready" /\ record'[b].status = "queued" =>
            snap[record[b].snapshot] # "ready"]_allVars

(* Every visitor gets a sandbox or is told why not, also when several find *)
(* the snapshot gone at once and rebuild one after the other.              *)
EveryVisitorHears ==
    \A c \in Caller : cpc[c] = "ensured" ~> vpc[c] \in {"up", "ended", "gone"}
===============================================================================
