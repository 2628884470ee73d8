--------------------------------- MODULE Waits ---------------------------------
(***************************************************************************)
(* WaitReady and WaitSnapshot of internal/sandbox: one loop that asks,     *)
(* looks at the answer and sleeps, against a thing (a sandbox, a snapshot) *)
(* that gets ready, goes bad or disappears while the answers travel.       *)
(* "ready" is Ready with a connect URL, or a Ready snapshot; "bad" is one  *)
(* of the phases the loop gives up at. Time is counted in ticks.           *)
(***************************************************************************)
EXTENDS Naturals

CONSTANTS
    Timeout,        \* the caller's
    Interval,       \* between two calls: 1 s, 2 s
    CallTimeout     \* of one call: 30 s

ASSUME WaitsAssumption ==
    /\ Timeout \in Nat
    /\ Interval \in Nat \ {0}
    /\ CallTimeout \in Nat \ {0}

VARIABLES
    thing,      \* platform: its phase
    readyAt,    \* platform: since when it is ready
    now,        \* ticks since the wait began
    pc,         \* the loop: in a call, asleep, returned
    since,      \* when that began
    answer,     \* of the call under way: what the platform has read
    done,       \* ctx is done
    result      \* what the wait returned

waitsVars == <<thing, readyAt, now, pc, since, answer, done, result>>

Phase == {"pending", "ready", "bad", "missing"}

(* The wait's last moment.                                                 *)
Bound == Timeout + Interval + CallTimeout

WaitsInit ==
    /\ thing \in Phase
    /\ readyAt = 0
    /\ now = 0
    /\ pc = "call"
    /\ since = 0
    /\ answer = "none"
    /\ done = FALSE
    /\ result = "none"

(* The platform gets on with it, stops it, or deletes it.                  *)
Change(p) ==
    /\ pc # "returned"
    /\ thing' = p
    /\ thing # "missing" /\ p # thing
    /\ readyAt' = IF p = "ready" THEN now ELSE readyAt
    /\ UNCHANGED <<now, pc, since, answer, done, result>>

(* The platform reads the phase; its answer is on the way from here on.    *)
Read ==
    /\ pc = "call"
    /\ answer = "none"
    /\ answer' = thing
    /\ UNCHANGED <<thing, readyAt, now, pc, since, done, result>>

Return(r) == pc' = "returned" /\ result' = r /\ since' = now

(* A slip: the deadline is looked at before the answer.                    *)
ArriveDeadlineFirst ==
    /\ pc = "call"
    /\ answer # "none"
    /\ \/ now > Timeout /\ Return("late")
       \/ now <= Timeout /\ answer = "missing" /\ Return("error")
       \/ now <= Timeout /\ answer = "ready" /\ Return("ok")
       \/ now <= Timeout /\ answer = "bad" /\ Return("bad")
       \/ now <= Timeout /\ answer = "pending" /\ pc' = "sleep" /\ since' = now /\ UNCHANGED result
    /\ answer' = "none"
    /\ UNCHANGED <<thing, readyAt, now, done>>

(* A slip: a phase that is not ready yet is waited for without a deadline. *)
ArriveNoDeadline ==
    /\ pc = "call"
    /\ answer # "none"
    /\ \/ answer = "missing" /\ Return("error")
       \/ answer = "ready" /\ Return("ok")
       \/ answer = "bad" /\ Return("bad")
       \/ answer = "pending" /\ pc' = "sleep" /\ since' = now /\ UNCHANGED result
    /\ answer' = "none"
    /\ UNCHANGED <<thing, readyAt, now, done>>

(* The answer is here. Get makes an error of 404.                          *)
Arrive ==
    /\ pc = "call"
    /\ answer # "none"
    /\ \/ answer = "missing" /\ Return("error")
       \/ answer = "ready" /\ Return("ok")
       \/ answer = "bad" /\ Return("bad")
       \/ answer = "pending" /\ now > Timeout /\ Return("late")
       \/ answer = "pending" /\ now <= Timeout /\ pc' = "sleep" /\ since' = now /\ UNCHANGED result
    /\ answer' = "none"
    /\ UNCHANGED <<thing, readyAt, now, done>>

(* The call fails: no answer in time, the connection, a status that is not *)
(* 200, a body that does not decode, or ctx.                               *)
CallFails ==
    /\ pc = "call"
    /\ Return("error")
    /\ answer' = "none"
    /\ UNCHANGED <<thing, readyAt, now, done>>

(* time.After.                                                             *)
Wake ==
    /\ pc = "sleep"
    /\ now = since + Interval
    /\ pc' = "call"
    /\ since' = now
    /\ UNCHANGED <<thing, readyAt, now, answer, done, result>>

Interrupt ==
    /\ pc = "sleep"
    /\ done
    /\ Return("ctx")
    /\ UNCHANGED <<thing, readyAt, now, answer, done>>

Cancel ==
    /\ pc # "returned"
    /\ done' = TRUE
    /\ UNCHANGED <<thing, readyAt, now, pc, since, answer, result>>

(* A call takes no longer than its timeout, a sleep no longer than its     *)
(* interval, and neither goes on when ctx is done.                         *)
Tick ==
    /\ ~done
    /\ \/ pc = "call" /\ now < since + CallTimeout
       \/ pc = "sleep" /\ now < since + Interval
    /\ now' = now + 1
    /\ UNCHANGED <<thing, readyAt, pc, since, answer, done, result>>

WaitsNext ==
    \/ \E p \in Phase : Change(p)
    \/ Read \/ Arrive \/ CallFails \/ Wake \/ Interrupt
    \/ Cancel
    \/ Tick

WaitsSpec == WaitsInit /\ [][WaitsNext]_waitsVars

-------------------------------------------------------------------------------
(* Every variable has its type.                                            *)
TypeOK ==
    /\ thing \in Phase
    /\ readyAt \in Nat /\ now \in Nat /\ since \in Nat
    /\ pc \in {"call", "sleep", "returned"}
    /\ answer \in Phase \cup {"none"}
    /\ done \in BOOLEAN
    /\ result \in {"none", "ok", "bad", "late", "error", "ctx"}

(* The deadline is looked at between calls only, so the wait may pass it,  *)
(* but by no more than one sleep and one call (http.go:93-113, 199-216):   *)
(* what readyTimeout and snapshotTimeout are worth to the build.           *)
WaitIsBounded == now <= Bound

(* What makes WaitIsBounded inductive: a sleep began before the deadline,  *)
(* and what is under way is within its own limit.                          *)
Pace ==
    /\ since <= now /\ readyAt <= now
    /\ pc = "sleep" => since <= Timeout /\ now <= since + Interval
    /\ pc = "call" => since <= Timeout + Interval /\ now <= since + CallTimeout
    /\ pc = "returned" => since = now

(* A wait says that it is late only of a thing that was not ready one call *)
(* before the deadline was over, however the answers were delayed: what is *)
(* ready in time, and stays so, is found (http.go:95-107, 199-211).        *)
ReadyInTimeIsFound ==
    result = "late" /\ thing = "ready" => readyAt + CallTimeout > Timeout

(* What makes ReadyInTimeIsFound inductive: an answer that says otherwise  *)
(* was read before the thing got ready.                                    *)
Stale ==
    answer = "pending" /\ thing = "ready" => since <= readyAt
===============================================================================
