------------------------------- MODULE Migrations -------------------------------
(***************************************************************************)
(* OpenPostgres and migrate (internal/store/postgres.go), as several       *)
(* servers run them on one database when they start: each migration in a   *)
(* transaction of its own, with the row that says it was applied. A server *)
(* that fails or crashes is started again by the loop of deploy/sandbox.sh.*)
(***************************************************************************)
EXTENDS Naturals

CONSTANTS
    Server,
    N,              \* migrations, in name order
    MaxCrashes      \* bound

VARIABLES
    schema,     \* database: migrations whose statements are committed
    applied,    \* database: schema_migrations
    pc,         \* per server: down, check, apply, commit, up
    at,         \* per server: the migration it is at
    crashes

vars == <<schema, applied, pc, at, crashes>>

Init ==
    /\ schema = {} /\ applied = {}
    /\ pc = [s \in Server |-> "down"]
    /\ at = [s \in Server |-> 1]
    /\ crashes = 0

Go(s, l) == pc' = [pc EXCEPT ![s] = l]

(* main, OpenPostgres: from the first migration on.                        *)
Start(s) ==
    /\ pc[s] = "down"
    /\ Go(s, "check")
    /\ at' = [at EXCEPT ![s] = 1]
    /\ UNCHANGED <<schema, applied, crashes>>

(* SELECT EXISTS.                                                          *)
Check(s) ==
    /\ pc[s] = "check"
    /\ IF at[s] > N THEN Go(s, "up") /\ UNCHANGED at
       ELSE IF at[s] \in applied THEN at' = [at EXCEPT ![s] = @ + 1] /\ UNCHANGED pc
       ELSE Go(s, "apply") /\ UNCHANGED at
    /\ UNCHANGED <<schema, applied, crashes>>

(* The statements, in a transaction. Where another transaction is making   *)
(* the same tables they wait for its end, and where the tables are there   *)
(* they fail: migrate returns the error and the server exits.              *)
Apply(s) ==
    /\ pc[s] = "apply"
    /\ \A t \in Server : pc[t] = "commit" => at[t] # at[s]
    /\ Go(s, IF at[s] \in schema THEN "down" ELSE "commit")
    /\ UNCHANGED <<schema, applied, at, crashes>>

(* A slip: the row is committed before the statements are.                 *)
RecordThenCommit(s) ==
    /\ pc[s] = "commit"
    /\ IF at[s] \in applied THEN schema' = schema \cup {at[s]} /\ Go(s, "check") /\ UNCHANGED applied
       ELSE applied' = applied \cup {at[s]} /\ UNCHANGED <<schema, pc>>
    /\ UNCHANGED <<at, crashes>>

(* The row, and the end of the transaction.                                *)
Commit(s) ==
    /\ pc[s] = "commit"
    /\ schema' = schema \cup {at[s]}
    /\ applied' = applied \cup {at[s]}
    /\ Go(s, "check")
    /\ UNCHANGED <<at, crashes>>

(* The server, or the connection, is gone: what was not committed is not   *)
(* there.                                                                  *)
Crash(s) ==
    /\ crashes < MaxCrashes
    /\ crashes' = crashes + 1
    /\ Go(s, "down")
    /\ UNCHANGED <<schema, applied, at>>

Step(s) == Start(s) \/ Check(s) \/ Apply(s) \/ Commit(s)

Next == \E s \in Server : Step(s) \/ Crash(s)

Fairness == \A s \in Server : WF_vars(Step(s))

Spec == Init /\ [][Next]_vars /\ Fairness

-------------------------------------------------------------------------------
(* However many servers start at once, no crash and no server that was     *)
(* overtaken leaves a database that the next start trips over, or takes    *)
(* for migrated: in the end all are up, on the whole schema                *)
(* (postgres.go:45-91).                                                    *)
AllComeUp == <>[](schema = 1 .. N /\ \A s \in Server : pc[s] = "up")
===============================================================================
