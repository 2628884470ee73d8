-------------------------------- MODULE MCStores --------------------------------
(* Servers come up on a database, while some of them crash; on what they   *)
(* migrated, two goroutines make two builds of one repository and open a   *)
(* session. What the stores answer has nothing to do with how the schema   *)
(* came to be, so the calls begin where no server crashed. The rows of a   *)
(* session have nothing to do with logs: with a raw one there is none.     *)
EXTENDS Stores

CONSTANTS b1, b2, s1, c1, c2, Server, N, MaxCrashes

VARIABLES schema, applied, pc, at, crashes

Postgres == INSTANCE Migrations

migrationVars == <<schema, applied, pc, at, crashes>>

StoresInit == Init /\ Postgres!Init

Unused == mem.builds = [i \in BuildId |-> None]
Migrated == crashes = 0 /\ \A s \in Server : pc[s] = "up"

Apart == raw = {} \/ Found(mem.sessions) = {}

StoresNext ==
    \/ Unused /\ Postgres!Next /\ UNCHANGED vars
    \/ Migrated /\ Next /\ Apart' /\ UNCHANGED migrationVars

StoresSpec == StoresInit /\ [][StoresNext]_<<vars, migrationVars>> /\ Postgres!Fairness

AllComeUp == Postgres!AllComeUp
===============================================================================
