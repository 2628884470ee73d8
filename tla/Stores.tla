--------------------------------- MODULE Stores ---------------------------------
(***************************************************************************)
(* The two implementations of store.Store, internal/store/memory.go and    *)
(* postgres.go (with its first migration), given the same calls by callers *)
(* that write records they read earlier: the builder, whose run keeps its  *)
(* copy for minutes, and the sessions. A database is its two tables; the   *)
(* calls are functions of a database. usage_daily has no caller.           *)
(***************************************************************************)
EXTENDS Naturals, FiniteSets

CONSTANTS
    BuildId, SessionId,
    Repo, Sha,      \* a repo is owner and name
    Device, IP,
    Log,            \* what a run may write: "text", or "raw", with bytes that are no text
    Caller,         \* goroutines, each with a copy of a build and of a session
    MaxClock,       \* bound: records made and visits counted
    None

Build == [id : BuildId, key : Repo \X Sha, status : {"queued", "ready"}, log : {"none", "text", "raw"},
          visits : Nat, last : Nat, created : Nat]
Session == [id : SessionId, build : BuildId, device : Device, ip : IP,
            status : {"starting", "live", "ended"}, extended : BOOLEAN]
Database == [builds : [BuildId -> Build \cup {None}], sessions : [SessionId -> Session \cup {None}]]

ASSUME StoresAssumption ==
    /\ Log \subseteq {"text", "raw"}
    /\ MaxClock \in Nat
    /\ None \notin Build \cup Session

VARIABLES
    mem, pg,        \* the databases
    copy,           \* per store and caller: a build record it holds
    held,           \* per store and caller: a session record it holds
    told,           \* what the last write answered, per store
    clock,
    visited,        \* history, per build: the RecordVisit calls made for it
    raw             \* history: the builds whose run had a log that is no text

vars == <<mem, pg, copy, held, told, clock, visited, raw>>

Both(m, p) == [mem |-> m, pg |-> p]
Nobody == [c \in Caller |-> None]

Init ==
    /\ mem = [builds |-> [i \in BuildId |-> None], sessions |-> [i \in SessionId |-> None]]
    /\ pg = mem
    /\ copy = Both(Nobody, Nobody)
    /\ held = Both(Nobody, Nobody)
    /\ told = Both("ok", "ok")
    /\ clock = 0
    /\ visited = [i \in BuildId |-> 0]
    /\ raw = {}

Found(tbl) == {i \in DOMAIN tbl : tbl[i] # None}

(* GetBuildBySHA: the records of a commit.                                 *)
BySHA(db, k) == {i \in Found(db.builds) : db.builds[i].key = k}

(* LatestBuild: ORDER BY created_at DESC LIMIT 1.                          *)
Latest(db, r) ==
    {i \in Found(db.builds) : /\ db.builds[i].key[1] = r
                              /\ \A j \in Found(db.builds) :
                                    db.builds[j].key[1] = r => db.builds[j].created <= db.builds[i].created}

(* LiveSessionsForDevice, and all of them.                                 *)
Live(db) == {i \in Found(db.sessions) : db.sessions[i].status # "ended"}
LiveFor(db, d) == {i \in Live(db) : db.sessions[i].device = d}

(* LiveSessions: byDevice, byIP, total.                                    *)
LiveCounts(db, d, a) ==
    <<Cardinality(LiveFor(db, d)), Cardinality({i \in Live(db) : db.sessions[i].ip = a}),
      Cardinality(Live(db))>>

-------------------------------------------------------------------------------
(* Each call: the database after it, its answer, the caller's record.      *)
Answer(db, a, r) == [db |-> db, answer |-> a, rec |-> r]

MemCreateBuild(db, b) == Answer([db EXCEPT !.builds[b.id] = b], "ok", b)

(* builds_repo_sha is unique, and TEXT is text.                            *)
PgCreateBuild(db, b) ==
    IF BySHA(db, b.key) # {} \/ b.log = "raw" THEN Answer(db, "error", b)
    ELSE Answer([db EXCEPT !.builds[b.id] = b], "ok", b)

(* The stored counters and creation time stay, in the caller's record too. *)
MemUpdateBuild(db, b) ==
    LET cur == db.builds[b.id]
        new == [b EXCEPT !.visits = cur.visits, !.last = cur.last, !.created = cur.created]
    IN  IF cur = None THEN Answer(db, "not found", b)
        ELSE Answer([db EXCEPT !.builds[b.id] = new], "ok", new)

(* A slip: a column is missing from the UPDATE.                            *)
PgUpdateStatus(db, b) ==
    IF b.log = "raw" THEN Answer(db, "error", b)
    ELSE IF db.builds[b.id] = None THEN Answer(db, "not found", b)
    ELSE Answer([db EXCEPT !.builds[b.id].status = b.status], "ok", b)

(* The UPDATE names the columns that a builder writes.                     *)
PgUpdateBuild(db, b) ==
    IF b.log = "raw" THEN Answer(db, "error", b)
    ELSE IF db.builds[b.id] = None THEN Answer(db, "not found", b)
    ELSE Answer([db EXCEPT !.builds[b.id] = [@ EXCEPT !.status = b.status, !.log = b.log]], "ok", b)

Visited(db, i, at) ==
    LET b == db.builds[i] IN [db EXCEPT !.builds[i] = [b EXCEPT !.visits = b.visits + 1, !.last = at]]

MemRecordVisit(db, i, at) ==
    IF db.builds[i] = None THEN Answer(db, "not found", i) ELSE Answer(Visited(db, i, at), "ok", i)

PgRecordVisit(db, i, at) ==
    IF i \notin Found(db.builds) THEN Answer(db, "not found", i) ELSE Answer(Visited(db, i, at), "ok", i)

MemCreateSession(db, s) == Answer([db EXCEPT !.sessions[s.id] = s], "ok", s)

(* build_id REFERENCES builds.                                             *)
PgCreateSession(db, s) ==
    IF s.build \notin Found(db.builds) THEN Answer(db, "error", s)
    ELSE Answer([db EXCEPT !.sessions[s.id] = s], "ok", s)

MemUpdateSession(db, s) ==
    IF db.sessions[s.id] = None THEN Answer(db, "not found", s)
    ELSE Answer([db EXCEPT !.sessions[s.id] = s], "ok", s)

PgUpdateSession(db, s) ==
    IF db.sessions[s.id] = None THEN Answer(db, "not found", s)
    ELSE Answer([db EXCEPT !.sessions[s.id] = [@ EXCEPT !.status = s.status, !.extended = s.extended]],
                "ok", s)

-------------------------------------------------------------------------------
(* Both stores get the call.                                               *)
Tell(m, p) ==
    /\ mem' = m.db
    /\ pg' = p.db
    /\ told' = Both(m.answer, p.answer)

Keep(v, c, m, p) == [v EXCEPT !.mem[c] = m, !.pg[c] = p]

Tick == clock < MaxClock /\ clock' = clock + 1

(* Ensure, under its lock: one that is there, or a new one.                *)
Ensure(c, i, k) ==
    IF BySHA(mem, k) # {} THEN
        /\ i \in BySHA(mem, k)
        /\ copy' = Keep(copy, c, mem.builds[i], pg.builds[i])
        /\ UNCHANGED <<mem, pg, held, told, clock, visited, raw>>
    ELSE LET b == [id |-> i, key |-> k, status |-> "queued", log |-> "none",
                   visits |-> 0, last |-> clock, created |-> clock] IN
        /\ mem.builds[i] = None
        /\ Tick
        /\ Tell(MemCreateBuild(mem, b), PgCreateBuild(pg, b))
        /\ copy' = Keep(copy, c, b, b)
        /\ UNCHANGED <<held, visited, raw>>

(* Ensure, rebuild and the run's setStatus, each with the record it holds; *)
(* a run that ends has set its log.                                        *)
WriteBuild(c, status, log) ==
    /\ copy.mem[c] # None
    /\ LET New(b) == [b EXCEPT !.status = status, !.log = IF log = "kept" THEN @ ELSE log]
           m == MemUpdateBuild(mem, New(copy.mem[c]))
           p == PgUpdateBuild(pg, New(copy.pg[c])) IN
          /\ Tell(m, p)
          /\ copy' = Keep(copy, c, m.rec, p.rec)
    /\ raw' = IF log = "raw" THEN raw \cup {copy.mem[c].id} ELSE raw
    /\ UNCHANGED <<held, clock, visited>>

(* follow and Get.                                                         *)
GetBuild(c, i) ==
    /\ mem.builds[i] # None
    /\ copy' = Keep(copy, c, mem.builds[i], pg.builds[i])
    /\ UNCHANGED <<mem, pg, held, told, clock, visited, raw>>

(* Create admits the visitor with the build that Ensure returned.          *)
CreateSession(c, i, d, a) ==
    /\ copy.mem[c] # None
    /\ mem.sessions[i] = None
    /\ LET s == [id |-> i, build |-> copy.mem[c].id, device |-> d, ip |-> a,
                 status |-> "starting", extended |-> FALSE] IN
          /\ Tell(MemCreateSession(mem, s), PgCreateSession(pg, s))
          /\ held' = Keep(held, c, s, s)
    /\ UNCHANGED <<copy, clock, visited, raw>>

(* And counts the visit.                                                   *)
RecordVisit(c) ==
    /\ held.mem[c] # None
    /\ Tick
    /\ LET i == held.mem[c].build IN
          /\ Tell(MemRecordVisit(mem, i, clock), PgRecordVisit(pg, i, clock))
          /\ visited' = [visited EXCEPT ![i] = @ + 1]
    /\ UNCHANGED <<copy, held, raw>>

GetSession(c, i) ==
    /\ mem.sessions[i] # None
    /\ held' = Keep(held, c, mem.sessions[i], pg.sessions[i])
    /\ UNCHANGED <<mem, pg, copy, told, clock, visited, raw>>

(* run, terminate and Extend, each with the record it holds.               *)
WriteSession(c, status, extended) ==
    /\ held.mem[c] # None
    /\ LET New(s) == [s EXCEPT !.status = status, !.extended = extended]
           m == MemUpdateSession(mem, New(held.mem[c]))
           p == PgUpdateSession(pg, New(held.pg[c])) IN
          /\ Tell(m, p)
          /\ held' = Keep(held, c, m.rec, p.rec)
    /\ UNCHANGED <<copy, clock, visited, raw>>

Next ==
    \E c \in Caller :
        \/ \E i \in BuildId, r \in Repo, h \in Sha : Ensure(c, i, <<r, h>>)
        \/ \E l \in Log : WriteBuild(c, "ready", l)
        \/ WriteBuild(c, "queued", "kept")
        \/ \E i \in BuildId : GetBuild(c, i)
        \/ \E i \in SessionId, d \in Device, a \in IP : CreateSession(c, i, d, a)
        \/ RecordVisit(c)
        \/ \E i \in SessionId : GetSession(c, i)
        \/ \E st \in {"live", "ended"}, x \in BOOLEAN : WriteSession(c, st, x)

Spec == Init /\ [][Next]_vars

-------------------------------------------------------------------------------
(* Every variable has its type.                                            *)
TypeOK ==
    /\ mem \in Database /\ pg \in Database
    /\ copy \in [mem : [Caller -> Build \cup {None}], pg : [Caller -> Build \cup {None}]]
    /\ held \in [mem : [Caller -> Session \cup {None}], pg : [Caller -> Session \cup {None}]]
    /\ told \in [mem : {"ok", "error", "not found"}, pg : {"ok", "error", "not found"}]
    /\ clock \in 0 .. MaxClock
    /\ visited \in [BuildId -> Nat] /\ raw \subseteq BuildId

(* "runConformance holds both implementations to the same behaviour"       *)
(* (store_test.go:14), here for every order of calls and every copy a      *)
(* caller may write: both answer alike, to each write and to every read,   *)
(* but for the status and the log of a build whose run had a log that is   *)
(* no text, which Postgres refuses to write (postgres.go:122-134).         *)
SameAnswers ==
    /\ told.mem = told.pg \/ (raw # {} /\ told = Both("ok", "error"))
    /\ \A i \in BuildId :
          /\ i \notin raw => mem.builds[i] = pg.builds[i]
          /\ mem.builds[i] = None <=> pg.builds[i] = None
    /\ \A i \in SessionId : mem.sessions[i] = pg.sessions[i]
    /\ \A r \in Repo : Latest(mem, r) = Latest(pg, r)
    /\ \A r \in Repo, h \in Sha : BySHA(mem, <<r, h>>) = BySHA(pg, <<r, h>>)
    /\ \A d \in Device, a \in IP :
          /\ LiveFor(mem, d) = LiveFor(pg, d)
          /\ LiveCounts(mem, d, a) = LiveCounts(pg, d, a)

(* Whatever copy is written, and whatever log, no visit is lost            *)
(* (memory.go:45-47, postgres.go:130).                                     *)
VisitsCounted ==
    \A i \in BuildId : /\ mem.builds[i] # None => mem.builds[i].visits = visited[i]
                       /\ pg.builds[i] # None => pg.builds[i].visits = visited[i]

(* The conformance test's promise as it stands: every write is answered    *)
(* alike.                                                                  *)
AlwaysAlike == told.mem = told.pg
===============================================================================
