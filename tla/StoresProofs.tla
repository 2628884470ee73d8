------------------------------ MODULE StoresProofs ------------------------------
(***************************************************************************)
(* Memory and Postgres cannot be told apart, for any callers, records and  *)
(* calls, but for the status and the log of a build whose log was no text. *)
(* The induction: the rows and copies of the two are alike, equal where    *)
(* there was no raw log, and what a record was created with never changes, *)
(* so that a whole-record write and an UPDATE of the mutable columns come  *)
(* to the same.                                                            *)
(***************************************************************************)
EXTENDS Stores, TLAPS

(* Two copies of a build may differ in what the caller's store has told it *)
(* of the counters; those of a build in R also in status and log.          *)
Alike(a, b, R) ==
    \/ a = None /\ b = None
    \/ /\ a \in Build /\ b \in Build
       /\ a.id = b.id /\ a.key = b.key /\ a.created = b.created
       /\ a.id \notin R => a.status = b.status /\ a.log = b.log /\ a.log # "raw"

(* The rows of a build do not differ in the counters.                      *)
Twins(a, b, R) == Alike(a, b, R) /\ (a # None => a.visits = b.visits /\ a.last = b.last)

(* What a copy was made of is still stored.                                *)
BuildKept(db, a) ==
    a # None => /\ db.builds[a.id] # None
                /\ db.builds[a.id].key = a.key
                /\ db.builds[a.id].created = a.created

SessionKept(db, s) ==
    s # None => /\ db.sessions[s.id] # None
                /\ db.sessions[s.id].build = s.build
                /\ db.sessions[s.id].device = s.device
                /\ db.sessions[s.id].ip = s.ip
                /\ db.builds[s.build] # None

Equal ==
    /\ \A i \in BuildId : Twins(mem.builds[i], pg.builds[i], raw)
    /\ mem.sessions = pg.sessions /\ held.mem = held.pg
    /\ told.mem = told.pg \/ (raw # {} /\ told = Both("ok", "error"))

Copies ==
    \A c \in Caller : /\ Alike(copy.mem[c], copy.pg[c], raw)
                      /\ BuildKept(mem, copy.mem[c])
                      /\ SessionKept(mem, held.mem[c])

Rows ==
    /\ \A i \in BuildId : mem.builds[i] # None => mem.builds[i].id = i
    /\ \A i \in SessionId : mem.sessions[i] # None =>
          mem.sessions[i].id = i /\ mem.builds[mem.sessions[i].build] # None

Counted == \A i \in BuildId : IF mem.builds[i] = None THEN visited[i] = 0
                              ELSE mem.builds[i].visits = visited[i]

Inductive == TypeOK /\ Equal /\ Copies /\ Rows /\ Counted

(* Records with the same fields are the same.                              *)
LEMMA SameBuild ==
    ASSUME NEW r \in Build, NEW s \in Build,
           r.id = s.id, r.key = s.key, r.status = s.status, r.log = s.log,
           r.visits = s.visits, r.last = s.last, r.created = s.created
    PROVE  r = s
  BY DEF Build

(* What keeping the counters of another row leaves and sets.               *)
LEMMA Recounted ==
    ASSUME NEW b \in Build, NEW a \in Build
    PROVE  LET n == [b EXCEPT !.visits = a.visits, !.last = a.last, !.created = a.created]
           IN  /\ n \in Build /\ n.visits = a.visits /\ n.last = a.last /\ n.created = a.created
               /\ n.id = b.id /\ n.key = b.key /\ n.status = b.status /\ n.log = b.log
  BY DEF Build

(* The same for sessions.                                                  *)
LEMMA SameSession ==
    ASSUME NEW r \in Session, NEW s \in Session,
           r.id = s.id, r.build = s.build, r.device = s.device, r.ip = s.ip,
           r.status = s.status, r.extended = s.extended
    PROVE  r = s
  BY DEF Session

(* Nothing is stored, and nobody has a copy.                               *)
LEMMA InductiveInit == Init => Inductive
  <1> SUFFICES ASSUME Init PROVE Inductive
    OBVIOUS
  <1>1. TypeOK
    BY StoresAssumption DEF Init, TypeOK, Database, Both, Nobody
  <1>2. Equal
    BY DEF Init, Equal, Both, Twins, Alike
  <1>3. Copies /\ Rows
    BY DEF Init, Copies, Rows, Both, Nobody, Alike, BuildKept, SessionKept
  <1>4. Counted
    BY DEF Init, Counted
  <1> QED
    BY <1>1, <1>2, <1>3, <1>4 DEF Inductive

(* What is stored stays stored, with what it was created with.             *)
Grows ==
    /\ \A i \in BuildId : mem.builds[i] # None => /\ mem'.builds[i] # None
                                                /\ mem'.builds[i].key = mem.builds[i].key
                                                /\ mem'.builds[i].created = mem.builds[i].created
    /\ \A i \in SessionId : mem.sessions[i] # None => /\ mem'.sessions[i] # None
                                                    /\ mem'.sessions[i].build = mem.sessions[i].build
                                                    /\ mem'.sessions[i].device = mem.sessions[i].device
                                                    /\ mem'.sessions[i].ip = mem.sessions[i].ip

(* Time is a number, and a tick keeps to the bound.                        *)
LEMMA ClockIsNat ==
    ASSUME Inductive
    PROVE  clock \in Nat /\ (Tick => clock' \in 0 .. MaxClock)
  <1>1. MaxClock \in Nat
    BY StoresAssumption
  <1>2. clock \in 0 .. MaxClock
    BY DEF Inductive, TypeOK
  <1> QED
    BY <1>1, <1>2 DEF Tick

(* What the invariant says of a row that is there.                         *)
LEMMA RowOfBuild ==
    ASSUME Inductive, NEW j \in BuildId, mem.builds[j] # None
    PROVE  /\ mem.builds[j] \in Build /\ mem.builds[j].id = j
           /\ visited[j] = mem.builds[j].visits
           /\ pg.builds[j] \in Build /\ pg.builds[j] # None /\ pg.builds[j].id = j
           /\ Twins(mem.builds[j], pg.builds[j], raw)
  <1>1. mem.builds[j].id = j
    BY DEF Inductive, Rows
  <1>2. visited[j] = mem.builds[j].visits
    BY DEF Inductive, Counted
  <1>3. Twins(mem.builds[j], pg.builds[j], raw)
    BY DEF Inductive, Equal
  <1>4. /\ mem.builds[j] \in Build /\ pg.builds[j] \in Build
        /\ pg.builds[j].id = mem.builds[j].id
    BY <1>3 DEF Twins, Alike
  <1> QED
    BY <1>1, <1>2, <1>3, <1>4, StoresAssumption

(* What a database is after one build was written.                         *)
LEMMA BuildWritten ==
    ASSUME NEW db \in Database, NEW i \in BuildId, NEW row \in Build
    PROVE  LET new == [db EXCEPT !.builds[i] = row]
           IN  /\ new \in Database /\ new.builds = [db.builds EXCEPT ![i] = row]
               /\ new.sessions = db.sessions /\ new.builds[i] = row
               /\ \A j \in BuildId : j # i => new.builds[j] = db.builds[j]
  BY DEF Database

LEMMA BothAreDatabases ==
    ASSUME Inductive
    PROVE  /\ mem \in Database /\ mem.builds \in [BuildId -> Build \cup {None}]
           /\ mem.sessions \in [SessionId -> Session \cup {None}]
           /\ pg \in Database /\ pg.builds \in [BuildId -> Build \cup {None}]
           /\ pg.sessions \in [SessionId -> Session \cup {None}]
  BY DEF Inductive, TypeOK, Database

(* A build is in both stores or in neither, under the same commit.         *)
LEMMA SameBuilds ==
    ASSUME Inductive
    PROVE  /\ \A i \in BuildId : mem.builds[i] = None <=> pg.builds[i] = None
           /\ Found(mem.builds) = Found(pg.builds)
           /\ \A k : BySHA(mem, k) = BySHA(pg, k)
           /\ \A r : Latest(mem, r) = Latest(pg, r)
  <1>1. ASSUME NEW i \in BuildId
        PROVE  /\ mem.builds[i] = None <=> pg.builds[i] = None
               /\ mem.builds[i] # None => /\ mem.builds[i].key = pg.builds[i].key
                                          /\ mem.builds[i].created = pg.builds[i].created
    BY StoresAssumption DEF Inductive, Equal, Twins, Alike
  <1>2. DOMAIN mem.builds = BuildId /\ DOMAIN pg.builds = BuildId
    BY BothAreDatabases
  <1>3. Found(mem.builds) = Found(pg.builds) /\ Found(mem.builds) \subseteq BuildId
    BY <1>1, <1>2 DEF Found
  <1>4. ASSUME NEW k PROVE BySHA(mem, k) = BySHA(pg, k)
    BY <1>1, <1>3 DEF BySHA, Found
  <1>5. ASSUME NEW r PROVE Latest(mem, r) = Latest(pg, r)
    BY <1>1, <1>3 DEF Latest, Found
  <1> QED
    BY <1>1, <1>3, <1>4, <1>5

LEMMA RowOfSession ==
    ASSUME Inductive, NEW j \in SessionId, mem.sessions[j] # None
    PROVE  mem.sessions[j] \in Session /\ mem.sessions[j].id = j
  BY BothAreDatabases DEF Inductive, Rows

(* The rows stay sound when one build is written in both.                  *)
LEMMA RowsStep ==
    ASSUME Inductive, NEW i \in BuildId, NEW row \in Build, NEW other \in Build,
           row.id = i, Twins(row, other, raw'), raw \subseteq raw',
           mem.builds[i] # None => mem.builds[i].key = row.key /\ mem.builds[i].created = row.created,
           mem' = [mem EXCEPT !.builds[i] = row], pg' = [pg EXCEPT !.builds[i] = other]
    PROVE  /\ mem' \in Database /\ pg' \in Database /\ mem'.sessions = pg'.sessions
           /\ mem'.builds[i] = row /\ row # None
           /\ \A j \in BuildId : j # i => mem'.builds[j] = mem.builds[j]
           /\ \A j \in BuildId : Twins(mem'.builds[j], pg'.builds[j], raw')
           /\ Grows /\ Rows'
  <1>0. /\ mem' \in Database /\ pg' \in Database
        /\ mem'.sessions = mem.sessions /\ pg'.sessions = pg.sessions
        /\ mem'.builds[i] = row /\ pg'.builds[i] = other
        /\ \A j \in BuildId : j # i => mem'.builds[j] = mem.builds[j] /\ pg'.builds[j] = pg.builds[j]
    <2>1. mem \in Database /\ pg \in Database
      BY BothAreDatabases
    <2> QED
      BY ONLY <2>1, i \in BuildId, row \in Build, other \in Build, BuildWritten,
              mem' = [mem EXCEPT !.builds[i] = row], pg' = [pg EXCEPT !.builds[i] = other]
  <1>1. row # None
    BY StoresAssumption
  <1>2. mem'.sessions = pg'.sessions
    BY <1>0 DEF Inductive, Equal
  <1>3. ASSUME NEW j \in BuildId
        PROVE  Twins(mem'.builds[j], pg'.builds[j], raw')
    <2>1. CASE j = i
      BY <1>0, <2>1
    <2>2. CASE j # i
      <3>1. Twins(mem.builds[j], pg.builds[j], raw)
        BY DEF Inductive, Equal
      <3>2. Twins(mem.builds[j], pg.builds[j], raw')
        BY <3>1 DEF Twins, Alike
      <3>3. mem'.builds[j] = mem.builds[j] /\ pg'.builds[j] = pg.builds[j]
        BY <1>0, <2>2
      <3> QED
        BY ONLY <3>2, <3>3
    <2> QED
      BY <2>1, <2>2
  <1>4. Grows
    BY <1>0, <1>1 DEF Grows
  <1>5. ASSUME NEW j \in BuildId, mem'.builds[j] # None
        PROVE  mem'.builds[j].id = j
    BY <1>0, <1>5, RowOfBuild
  <1>6. ASSUME NEW j \in SessionId, mem'.sessions[j] # None
        PROVE  mem'.sessions[j].id = j /\ mem'.builds[mem'.sessions[j].build] # None
    <2>1. mem.sessions[j] \in Session
      BY <1>0, <1>6, BothAreDatabases
    <2>2. mem.sessions[j].build \in BuildId
      BY <2>1 DEF Session
    <2>3. mem.sessions[j].id = j /\ mem.builds[mem.sessions[j].build] # None
      BY <1>0, <1>6 DEF Inductive, Rows
    <2> QED
      BY <1>0, <1>1, <2>2, <2>3
  <1>7. Rows'
    BY <1>5, <1>6 DEF Rows
  <1> QED
    BY <1>0, <1>1, <1>2, <1>3, <1>4, <1>7

(* Copies that were kept are kept.                                         *)
LEMMA StillKept ==
    ASSUME Grows
    PROVE  /\ \A a \in Build \cup {None} : BuildKept(mem, a) => BuildKept(mem', a)
           /\ \A s \in Session \cup {None} : SessionKept(mem, s) => SessionKept(mem', s)
  BY DEF Grows, BuildKept, SessionKept, Build, Session

(* A call that gives one caller another build record.                      *)
LEMMA CopyStep ==
    ASSUME Inductive, Grows, NEW c \in Caller, NEW m, NEW q, copy' = Keep(copy, c, m, q),
           raw \subseteq raw', Alike(m, q, raw'), BuildKept(mem', m), held' = held
    PROVE  Copies' /\ copy' \in [mem : [Caller -> Build \cup {None}], pg : [Caller -> Build \cup {None}]]
  <1>1. {m, q} \subseteq Build \cup {None}
    BY DEF Alike
  <1>2. copy' \in [mem : [Caller -> Build \cup {None}], pg : [Caller -> Build \cup {None}]]
    BY <1>1 DEF Inductive, TypeOK, Keep
  <1>3. ASSUME NEW d \in Caller
        PROVE  Alike(copy'.mem[d], copy'.pg[d], raw') /\ BuildKept(mem', copy'.mem[d])
    <2>1. CASE d = c
      <3>1. copy'.mem[d] = m /\ copy'.pg[d] = q
        BY <2>1 DEF Inductive, TypeOK, Keep
      <3> QED
        BY <3>1
    <2>2. CASE d # c
      <3>1. copy'.mem[d] = copy.mem[d] /\ copy'.pg[d] = copy.pg[d] /\ copy.mem[d] \in Build \cup {None}
        BY <2>2 DEF Inductive, TypeOK, Keep
      <3>2. Alike(copy.mem[d], copy.pg[d], raw) /\ BuildKept(mem, copy.mem[d])
        BY DEF Inductive, Copies
      <3>3. Alike(copy.mem[d], copy.pg[d], raw')
        BY <3>2 DEF Alike
      <3>4. BuildKept(mem', copy.mem[d])
        BY <3>1, <3>2, StillKept
      <3> QED
        BY ONLY <3>1, <3>3, <3>4
    <2> QED
      BY <2>1, <2>2
  <1>4. ASSUME NEW d \in Caller PROVE SessionKept(mem', held'.mem[d])
    BY StillKept DEF Inductive, TypeOK, Copies
  <1> QED
    BY <1>2, <1>3, <1>4 DEF Copies

(* A call that gives one caller another session record.                    *)
LEMMA HeldStep ==
    ASSUME Inductive, Grows, NEW c \in Caller, NEW s \in Session, held' = Keep(held, c, s, s),
           SessionKept(mem', s), copy' = copy, raw' = raw
    PROVE  /\ Copies' /\ held'.mem = held'.pg
           /\ held' \in [mem : [Caller -> Session \cup {None}], pg : [Caller -> Session \cup {None}]]
  <1>1. /\ held' \in [mem : [Caller -> Session \cup {None}], pg : [Caller -> Session \cup {None}]]
        /\ held'.mem = held'.pg
    BY DEF Inductive, TypeOK, Equal, Keep
  <1>2. ASSUME NEW d \in Caller PROVE SessionKept(mem', held'.mem[d])
    <2>1. CASE d = c
      BY <2>1 DEF Inductive, TypeOK, Keep
    <2>2. CASE d # c
      <3>1. held'.mem[d] = held.mem[d] /\ held.mem[d] \in Session \cup {None}
        BY <2>2 DEF Inductive, TypeOK, Keep
      <3> QED
        BY <3>1, StillKept DEF Inductive, Copies
    <2> QED
      BY <2>1, <2>2
  <1>3. ASSUME NEW d \in Caller
        PROVE  Alike(copy'.mem[d], copy'.pg[d], raw') /\ BuildKept(mem', copy'.mem[d])
    BY StillKept DEF Inductive, TypeOK, Copies
  <1> QED
    BY <1>1, <1>2, <1>3 DEF Copies

(* Reading a build gives both copies of the caller what is stored.         *)
LEMMA ReadBuild ==
    ASSUME Inductive, NEW c \in Caller, NEW i \in BuildId, mem.builds[i] # None,
           copy' = Keep(copy, c, mem.builds[i], pg.builds[i]),
           UNCHANGED <<mem, pg, held, told, clock, visited, raw>>
    PROVE  Inductive'
  <1>1. mem.builds[i].id = i /\ Alike(mem.builds[i], pg.builds[i], raw)
    BY RowOfBuild DEF Twins
  <1>2. Grows
    BY DEF Grows
  <1>3. Alike(mem.builds[i], pg.builds[i], raw') /\ BuildKept(mem', mem.builds[i])
    BY <1>1 DEF BuildKept
  <1>4. Copies' /\ copy' \in [mem : [Caller -> Build \cup {None}], pg : [Caller -> Build \cup {None}]]
    BY <1>2, <1>3, CopyStep
  <1> QED
    BY <1>4 DEF Inductive, TypeOK, Equal, Rows, Counted

(* Ensure: the record is new in both stores, or was in both.               *)
LEMMA EnsureStep ==
    ASSUME Inductive, NEW c \in Caller, NEW i \in BuildId, NEW r \in Repo, NEW h \in Sha,
           Ensure(c, i, <<r, h>>)
    PROVE  Inductive'
  <1> DEFINE k == <<r, h>>
             b == [id |-> i, key |-> k, status |-> "queued", log |-> "none",
                   visits |-> 0, last |-> clock, created |-> clock]
  <1>1. CASE BySHA(mem, k) # {}
    <2>1. mem.builds[i] # None
      BY <1>1 DEF Ensure, BySHA, Found
    <2> QED
      BY <1>1, <2>1, ReadBuild DEF Ensure
  <1>2. CASE BySHA(mem, k) = {}
    <2>1. b \in Build
      <3>1. clock \in Nat /\ k \in Repo \X Sha
        BY ClockIsNat
      <3> QED
        BY <3>1 DEF Build
    <2>2. /\ mem.builds[i] = None
          /\ mem' = [mem EXCEPT !.builds[i] = b] /\ pg' = [pg EXCEPT !.builds[i] = b]
          /\ told' = Both("ok", "ok")
          /\ copy' = Keep(copy, c, b, b) /\ UNCHANGED <<held, visited, raw>>
          /\ clock' \in 0 .. MaxClock
      <3>1. BySHA(pg, k) = {}
        BY <1>2, SameBuilds
      <3>2. /\ mem.builds[i] = None /\ Tick
            /\ Tell(MemCreateBuild(mem, b), PgCreateBuild(pg, b))
            /\ copy' = Keep(copy, c, b, b) /\ UNCHANGED <<held, visited, raw>>
        BY <1>2 DEF Ensure
      <3>3. /\ MemCreateBuild(mem, b) = Answer([mem EXCEPT !.builds[i] = b], "ok", b)
            /\ PgCreateBuild(pg, b) = Answer([pg EXCEPT !.builds[i] = b], "ok", b)
        BY <3>1 DEF MemCreateBuild, PgCreateBuild
      <3>4. clock' \in 0 .. MaxClock
        BY <3>2, ClockIsNat DEF Tick
      <3> QED
        BY <3>2, <3>3, <3>4 DEF Tell, Answer
    <2>3. Twins(b, b, raw') /\ Alike(b, b, raw') /\ b.id = i /\ b.visits = 0
      BY <2>1 DEF Twins, Alike
    <2> HIDE DEF b
    <2>4. /\ mem' \in Database /\ pg' \in Database /\ mem'.sessions = pg'.sessions
          /\ mem'.builds[i] = b /\ b # None
          /\ \A j \in BuildId : j # i => mem'.builds[j] = mem.builds[j]
          /\ \A j \in BuildId : Twins(mem'.builds[j], pg'.builds[j], raw')
          /\ Grows /\ Rows'
      BY <2>1, <2>2, <2>3, RowsStep
    <2>5. BuildKept(mem', b)
      BY <2>3, <2>4 DEF BuildKept
    <2>6. Copies' /\ copy' \in [mem : [Caller -> Build \cup {None}], pg : [Caller -> Build \cup {None}]]
      BY <2>2, <2>3, <2>4, <2>5, CopyStep
    <2>7. Counted'
      BY <2>2, <2>3, <2>4 DEF Counted, Inductive
    <2> QED
      BY <2>2, <2>4, <2>6, <2>7 DEF Inductive, TypeOK, Equal, Both
  <1> QED
    BY <1>1, <1>2

(* What a caller that holds b writes.                                      *)
Changed(b, st, l) == [b EXCEPT !.status = st, !.log = IF l = "kept" THEN @ ELSE l]

LEMMA ChangedBuild ==
    ASSUME NEW b \in Build, NEW st \in {"queued", "ready"}, NEW l \in Log \cup {"kept"}
    PROVE  /\ Changed(b, st, l) \in Build /\ Changed(b, st, l).status = st
           /\ Changed(b, st, l).log = (IF l = "kept" THEN b.log ELSE l)
           /\ Changed(b, st, l).id = b.id /\ Changed(b, st, l).key = b.key
           /\ Changed(b, st, l).created = b.created
  <1> DEFINE text == IF l = "kept" THEN b.log ELSE l
  <1>1. text \in {"none", "text", "raw"}
    BY StoresAssumption DEF Build
  <1>2. Changed(b, st, l) = [b EXCEPT !.status = st, !.log = text]
    BY DEF Changed
  <1> HIDE DEF text
  <1>3. LET n == [b EXCEPT !.status = st, !.log = text]
        IN  /\ n \in Build /\ n.status = st /\ n.log = text
            /\ n.id = b.id /\ n.key = b.key /\ n.created = b.created
    BY <1>1 DEF Build
  <1> QED
    BY <1>2, <1>3 DEF text

(* The whole record in one store, the mutable columns in the other: the    *)
(* same row if the log is text, because the copies agree and the rest      *)
(* never changes; otherwise the row of the other stays, with its counters. *)
LEMMA WriteBuildStep ==
    ASSUME Inductive, NEW c \in Caller,
           NEW st \in {"queued", "ready"}, NEW l \in Log \cup {"kept"}, WriteBuild(c, st, l)
    PROVE  Inductive'
  <1> DEFINE m == copy.mem[c]
             q == copy.pg[c]
             i == m.id
             cur == mem.builds[i]
             own == pg.builds[i]
             new == Changed(m, st, l)
             sent == Changed(q, st, l)
             row == [new EXCEPT !.visits = cur.visits, !.last = cur.last, !.created = cur.created]
             upd == [own EXCEPT !.status = sent.status, !.log = sent.log]
             other == IF sent.log = "raw" THEN own ELSE upd
  <1>1. /\ m \in Build /\ q \in Build /\ m # None
        /\ Alike(m, q, raw) /\ BuildKept(mem, m)
    BY DEF WriteBuild, Inductive, TypeOK, Copies, Alike
  <1>2. /\ i \in BuildId /\ cur # None /\ cur.key = m.key /\ cur.created = m.created
        /\ cur \in Build /\ cur.id = i
        /\ own \in Build /\ own # None /\ own.id = i /\ Twins(cur, own, raw)
    <2>1. i \in BuildId
      BY <1>1 DEF Build
    <2>2. cur # None /\ cur.key = m.key /\ cur.created = m.created
      BY <1>1 DEF BuildKept
    <2> HIDE DEF i
    <2> QED
      BY <2>1, <2>2, RowOfBuild
  <1>3. /\ q.id = i /\ q.key = m.key /\ q.created = m.created
        /\ i \notin raw => q.log = m.log /\ m.log # "raw"
    BY <1>1 DEF Alike
  <1>4. /\ new \in Build /\ new.status = st /\ new.log = (IF l = "kept" THEN m.log ELSE l)
        /\ new.id = i /\ new.key = m.key /\ new.created = m.created
        /\ sent \in Build /\ sent.status = st /\ sent.log = (IF l = "kept" THEN q.log ELSE l)
        /\ sent.id = i /\ sent.key = m.key /\ sent.created = m.created
    <2>1. /\ new \in Build /\ new.status = st /\ new.log = (IF l = "kept" THEN m.log ELSE l)
          /\ new.id = m.id /\ new.key = m.key /\ new.created = m.created
      BY <1>1, ChangedBuild
    <2>2. /\ sent \in Build /\ sent.status = st /\ sent.log = (IF l = "kept" THEN q.log ELSE l)
          /\ sent.id = q.id /\ sent.key = q.key /\ sent.created = q.created
      BY <1>1, ChangedBuild
    <2> QED
      BY <1>3, <2>1, <2>2
  <1>5. raw' = IF l = "raw" THEN raw \cup {i} ELSE raw
    BY DEF WriteBuild
  <1> HIDE DEF new, sent
  <1>6. /\ row \in Build /\ row.id = i /\ row.key = m.key /\ row.status = st /\ row.log = new.log
        /\ row.visits = cur.visits /\ row.last = cur.last /\ row.created = m.created
    <2>1. cur \in Build /\ new \in Build
      BY <1>2, <1>4
    <2> HIDE DEF cur, i, m, q
    <2>2. /\ row \in Build /\ row.visits = cur.visits /\ row.last = cur.last
          /\ row.created = cur.created
          /\ row.id = new.id /\ row.key = new.key /\ row.status = new.status /\ row.log = new.log
      BY ONLY <2>1, Recounted
    <2> QED
      BY <1>2, <1>4, <2>2
  <1>7. /\ upd \in Build /\ upd.id = i /\ upd.key = own.key /\ upd.created = own.created
        /\ upd.visits = own.visits /\ upd.last = own.last
        /\ upd.status = st /\ upd.log = sent.log
    <2>1. sent.log \in {"none", "text", "raw"}
      BY <1>4 DEF Build
    <2> HIDE DEF own, i, m, q
    <2>2. own \in Build /\ own.id = i /\ sent.status = st
      BY <1>2, <1>4
    <2>3. sent.status \in {"queued", "ready"}
      BY <2>2
    <2>4. /\ upd \in Build /\ upd.status = sent.status /\ upd.log = sent.log
          /\ upd.id = own.id /\ upd.key = own.key /\ upd.created = own.created
          /\ upd.visits = own.visits /\ upd.last = own.last
      <3> DEFINE newStatus == sent.status
                 newLog == sent.log
      <3>1. newStatus \in {"queued", "ready"} /\ newLog \in {"none", "text", "raw"} /\ own \in Build
        BY <2>1, <2>2, <2>3
      <3> HIDE DEF newStatus, newLog
      <3>2. LET n == [own EXCEPT !.status = newStatus, !.log = newLog]
            IN  /\ n \in Build /\ n.status = newStatus /\ n.log = newLog
                /\ n.id = own.id /\ n.key = own.key /\ n.created = own.created
                /\ n.visits = own.visits /\ n.last = own.last
        BY ONLY <3>1 DEF Build
      <3> QED
        BY <3>2 DEF newStatus, newLog
    <2> QED
      BY <2>2, <2>4
  <1>8. MemUpdateBuild(mem, new) = Answer([mem EXCEPT !.builds[i] = row], "ok", row)
    BY <1>2, <1>4 DEF MemUpdateBuild
  <1>9. PgUpdateBuild(pg, sent) =
          Answer([pg EXCEPT !.builds[i] = other], IF sent.log = "raw" THEN "error" ELSE "ok", sent)
    <2>1. CASE sent.log = "raw"
      <3>1. [pg EXCEPT !.builds[i] = own] = pg
        BY <1>2, BothAreDatabases DEF Database
      <3> QED
        BY <2>1, <3>1 DEF PgUpdateBuild
    <2>2. CASE sent.log # "raw"
      <3>1. PgUpdateBuild(pg, sent) =
              Answer([pg EXCEPT !.builds[i] = [@ EXCEPT !.status = sent.status, !.log = sent.log]], "ok", sent)
        BY <1>2, <1>4, <2>2 DEF PgUpdateBuild
      <3>2. ASSUME NEW x, NEW y
            PROVE  [pg EXCEPT !.builds[i] = [@ EXCEPT !.status = x, !.log = y]]
                     = [pg EXCEPT !.builds[i] = [own EXCEPT !.status = x, !.log = y]]
        BY <1>2, BothAreDatabases DEF Database
      <3> QED
        BY <2>2, <3>1, <3>2
    <2> QED
      BY <2>1, <2>2
  <1> HIDE DEF row, upd, other
  <1>10. /\ mem' = [mem EXCEPT !.builds[i] = row] /\ pg' = [pg EXCEPT !.builds[i] = other]
         /\ told' = Both("ok", IF sent.log = "raw" THEN "error" ELSE "ok")
         /\ copy' = Keep(copy, c, row, sent) /\ UNCHANGED <<held, clock, visited>>
    <2>1. /\ Tell(MemUpdateBuild(mem, new), PgUpdateBuild(pg, sent))
          /\ copy' = Keep(copy, c, MemUpdateBuild(mem, new).rec, PgUpdateBuild(pg, sent).rec)
          /\ UNCHANGED <<held, clock, visited>>
      BY DEF WriteBuild, Changed, new, sent
    <2> QED
      BY <1>8, <1>9, <2>1 DEF Tell, Answer
  <1>11. /\ raw \subseteq raw' /\ raw' \subseteq BuildId
         /\ i \notin raw' => i \notin raw /\ new.log = sent.log /\ new.log # "raw"
    <2>1. raw \subseteq BuildId
      BY DEF Inductive, TypeOK
    <2> HIDE DEF i, m, q
    <2> QED
      BY <1>2, <1>3, <1>4, <1>5, <2>1
  <1>12. other \in Build /\ Twins(row, other, raw')
    <2>1. /\ other \in Build /\ other.id = i /\ other.key = m.key /\ other.created = m.created
          /\ other.visits = cur.visits /\ other.last = cur.last
      <3>1. own.key = cur.key /\ own.created = cur.created /\ own.visits = cur.visits /\ own.last = cur.last
        BY <1>2 DEF Twins, Alike
      <3>2. other \in {own, upd}
        BY DEF other
      <3> HIDE DEF own, cur, i, m, q
      <3> QED
        BY <1>2, <1>7, <3>1, <3>2
    <2>2. i \notin raw' => other.status = st /\ other.log = new.log /\ new.log # "raw"
      BY <1>7, <1>11 DEF other
    <2> HIDE DEF cur, i, m, q
    <2> QED
      BY <1>6, <2>1, <2>2 DEF Twins, Alike
  <1>13. Alike(row, sent, raw')
    <2> HIDE DEF cur, i, m, q
    <2> QED
      BY <1>4, <1>6, <1>11 DEF Alike
  <1>14. /\ mem' \in Database /\ pg' \in Database /\ mem'.sessions = pg'.sessions
         /\ mem'.builds[i] = row /\ row # None
         /\ \A j \in BuildId : j # i => mem'.builds[j] = mem.builds[j]
         /\ \A j \in BuildId : Twins(mem'.builds[j], pg'.builds[j], raw')
         /\ Grows /\ Rows'
    <2>1. mem.builds[i] # None => mem.builds[i].key = row.key /\ mem.builds[i].created = row.created
      BY <1>2, <1>6
    <2> HIDE DEF cur, i, m, q
    <2> QED
      BY <1>2, <1>6, <1>10, <1>11, <1>12, <2>1, RowsStep
  <1>15. BuildKept(mem', row)
    BY <1>6, <1>14 DEF BuildKept
  <1>16. Copies' /\ copy' \in [mem : [Caller -> Build \cup {None}], pg : [Caller -> Build \cup {None}]]
    BY <1>10, <1>11, <1>13, <1>14, <1>15, CopyStep
  <1>17. Counted'
    <2>1. cur.visits = visited[i]
      BY <1>2, RowOfBuild
    <2> HIDE DEF cur, i, m, q
    <2> QED
      BY <1>6, <1>10, <1>14, <2>1 DEF Counted, Inductive
  <1>18. told'.mem = told'.pg \/ (raw' # {} /\ told' = Both("ok", "error"))
    <2>1. CASE sent.log = "raw"
      <3>1. i \in raw'
        BY <1>11, <2>1
      <3> QED
        BY <1>10, <2>1, <3>1
    <2>2. CASE sent.log # "raw"
      BY <1>10, <2>2 DEF Both
    <2> QED
      BY <2>1, <2>2
  <1>19. told' \in [mem : {"ok", "error", "not found"}, pg : {"ok", "error", "not found"}]
    BY <1>10 DEF Both
  <1> QED
    BY <1>10, <1>11, <1>14, <1>16, <1>17, <1>18, <1>19 DEF Inductive, TypeOK, Equal

(* A row that a visit is counted in keeps the rest.                        *)
LEMMA VisitedBuild ==
    ASSUME NEW b \in Build, NEW v \in Nat, NEW t \in Nat
    PROVE  LET n == [b EXCEPT !.visits = v, !.last = t]
           IN  /\ n \in Build /\ n.id = b.id /\ n.key = b.key /\ n.created = b.created
               /\ n.status = b.status /\ n.log = b.log
               /\ n.visits = v /\ n.last = t
  BY DEF Build

(* A visit is counted in both, and no copy is touched.                     *)
LEMMA VisitStep ==
    ASSUME Inductive, NEW c \in Caller, RecordVisit(c)
    PROVE  Inductive'
  <1> DEFINE i == held.mem[c].build
             cur == mem.builds[i]
             own == pg.builds[i]
             row == [cur EXCEPT !.visits = cur.visits + 1, !.last = clock]
             other == [own EXCEPT !.visits = own.visits + 1, !.last = clock]
  <1>1. i \in BuildId /\ cur # None
    <2>1. held.mem[c] \in Session /\ held.mem[c] # None /\ SessionKept(mem, held.mem[c])
      BY DEF RecordVisit, Inductive, TypeOK, Copies
    <2> QED
      BY <2>1 DEF SessionKept, Session
  <1>2. /\ cur \in Build /\ cur.id = i /\ visited[i] = cur.visits
        /\ own \in Build /\ own # None /\ Twins(cur, own, raw)
    <2> HIDE DEF i
    <2> QED
      BY <1>1, RowOfBuild
  <1>3. clock \in Nat
    BY ClockIsNat
  <1>4. ASSUME NEW b \in Build
        PROVE  LET n == [b EXCEPT !.visits = b.visits + 1, !.last = clock]
               IN  /\ n \in Build /\ n.id = b.id /\ n.key = b.key /\ n.created = b.created
                   /\ n.status = b.status /\ n.log = b.log
                   /\ n.visits = b.visits + 1 /\ n.last = clock
    <2>1. b.visits + 1 \in Nat
      BY DEF Build
    <2> QED
      BY ONLY <1>3, <2>1, b \in Build, VisitedBuild
  <1>5. /\ row \in Build /\ row.id = cur.id /\ row.key = cur.key /\ row.created = cur.created
        /\ row.status = cur.status /\ row.log = cur.log
        /\ row.visits = cur.visits + 1 /\ row.last = clock
    <2> HIDE DEF cur
    <2> QED
      BY <1>2, <1>4
  <1>6. /\ other \in Build /\ other.id = own.id /\ other.key = own.key /\ other.created = own.created
        /\ other.status = own.status /\ other.log = own.log
        /\ other.visits = own.visits + 1 /\ other.last = clock
    <2> HIDE DEF own
    <2> QED
      BY <1>2, <1>4
  <1>7. Visited(mem, i, clock) = [mem EXCEPT !.builds[i] = row]
        /\ Visited(pg, i, clock) = [pg EXCEPT !.builds[i] = other]
    BY DEF Visited
  <1> HIDE DEF row, other
  <1>8. /\ MemRecordVisit(mem, i, clock) = Answer([mem EXCEPT !.builds[i] = row], "ok", i)
        /\ PgRecordVisit(pg, i, clock) = Answer([pg EXCEPT !.builds[i] = other], "ok", i)
    BY <1>1, <1>2, <1>7, BothAreDatabases DEF MemRecordVisit, PgRecordVisit, Found
  <1>9. /\ mem' = [mem EXCEPT !.builds[i] = row] /\ pg' = [pg EXCEPT !.builds[i] = other]
        /\ told' = Both("ok", "ok")
        /\ visited' = [visited EXCEPT ![i] = @ + 1] /\ UNCHANGED <<copy, held, raw>>
        /\ clock' \in 0 .. MaxClock
    BY <1>8, ClockIsNat DEF RecordVisit, Tell, Answer
  <1>10. Twins(row, other, raw')
    <2>1. Twins(cur, own, raw')
      BY <1>2, <1>9
    <2> HIDE DEF cur, own, i
    <2> QED
      BY <1>1, <1>2, <1>5, <1>6, <2>1 DEF Twins, Alike
  <1>11. /\ mem' \in Database /\ pg' \in Database /\ mem'.sessions = pg'.sessions
         /\ mem'.builds[i] = row /\ row # None
         /\ \A j \in BuildId : j # i => mem'.builds[j] = mem.builds[j]
         /\ \A j \in BuildId : Twins(mem'.builds[j], pg'.builds[j], raw')
         /\ Grows /\ Rows'
    <2>1. raw \subseteq raw' /\ row.id = i
      BY <1>2, <1>5, <1>9
    <2>2. mem.builds[i] # None => mem.builds[i].key = row.key /\ mem.builds[i].created = row.created
      BY <1>5
    <2> HIDE DEF cur, own, i
    <2> QED
      BY <1>1, <1>5, <1>6, <1>9, <1>10, <2>1, <2>2, RowsStep
  <1>12. Copies'
    BY <1>9, <1>11, StillKept DEF Inductive, TypeOK, Copies
  <1>13. Counted' /\ visited' \in [BuildId -> Nat]
    <2>1. visited \in [BuildId -> Nat] /\ visited[i] + 1 \in Nat
      <3>1. visited \in [BuildId -> Nat]
        BY DEF Inductive, TypeOK
      <3> QED
        BY <1>1, <3>1
    <2>2. visited' \in [BuildId -> Nat] /\ visited'[i] = visited[i] + 1
      BY <1>1, <1>9, <2>1
    <2>3. ASSUME NEW j \in BuildId, j # i
          PROVE  mem'.builds[j] = mem.builds[j] /\ visited'[j] = visited[j]
      BY <1>9, <1>11, <2>1, <2>3
    <2>4. row.visits = visited'[i]
      BY <1>2, <1>5, <2>2
    <2> HIDE DEF cur, own, i
    <2> QED
      BY <1>11, <2>2, <2>3, <2>4 DEF Counted, Inductive
  <1> QED
    BY <1>9, <1>11, <1>12, <1>13 DEF Inductive, TypeOK, Equal, Both

(* A session row that is written the same in both.                         *)
LEMMA SessionRowStep ==
    ASSUME Inductive, NEW c \in Caller, NEW i \in SessionId, NEW s \in Session, s.id = i,
           mem.builds[s.build] # None,
           mem.sessions[i] # None => /\ mem.sessions[i].build = s.build
                                     /\ mem.sessions[i].device = s.device /\ mem.sessions[i].ip = s.ip,
           mem' = [mem EXCEPT !.sessions[i] = s], pg' = [pg EXCEPT !.sessions[i] = s],
           told' = Both("ok", "ok"),
           held' = Keep(held, c, s, s), UNCHANGED <<copy, clock, visited, raw>>
    PROVE  Inductive'
  <1>1. s # None /\ s.build \in BuildId
    BY StoresAssumption DEF Session
  <1>2. /\ mem'.sessions = [mem.sessions EXCEPT ![i] = s] /\ mem'.builds = mem.builds
        /\ pg'.sessions = [pg.sessions EXCEPT ![i] = s] /\ pg'.builds = pg.builds
        /\ mem' \in Database /\ pg' \in Database
    BY DEF Inductive, TypeOK, Database
  <1>3. Grows
    BY <1>1, <1>2 DEF Grows, Inductive, TypeOK, Database
  <1>4. SessionKept(mem', s)
    BY <1>1, <1>2 DEF SessionKept, Inductive, TypeOK, Database
  <1>5. /\ Copies' /\ held'.mem = held'.pg
        /\ held' \in [mem : [Caller -> Session \cup {None}], pg : [Caller -> Session \cup {None}]]
    BY <1>3, <1>4, HeldStep
  <1>6. Rows'
    <2>1. \A j \in BuildId : mem'.builds[j] # None => mem'.builds[j].id = j
      BY <1>2 DEF Inductive, Rows
    <2>2. \A j \in SessionId : mem'.sessions[j] # None =>
             mem'.sessions[j].id = j /\ mem'.builds[mem'.sessions[j].build] # None
      BY <1>2 DEF Inductive, TypeOK, Database, Rows
    <2> QED
      BY <2>1, <2>2 DEF Rows
  <1>7. Counted'
    BY <1>2 DEF Inductive, Counted
  <1>8. /\ \A j \in BuildId : Twins(mem'.builds[j], pg'.builds[j], raw')
        /\ mem'.sessions = pg'.sessions /\ told'.mem = told'.pg
    BY <1>2 DEF Inductive, Equal, Both
  <1> QED
    BY <1>2, <1>5, <1>6, <1>7, <1>8 DEF Inductive, TypeOK, Equal, Both

(* The build of a new session is in both stores: Ensure returned it.       *)
LEMMA CreateSessionStep ==
    ASSUME Inductive, NEW c \in Caller, NEW i \in SessionId, NEW d \in Device, NEW a \in IP,
           CreateSession(c, i, d, a)
    PROVE  Inductive'
  <1> DEFINE s == [id |-> i, build |-> copy.mem[c].id, device |-> d, ip |-> a,
                   status |-> "starting", extended |-> FALSE]
  <1>1. copy.mem[c].id \in BuildId /\ mem.builds[copy.mem[c].id] # None
    <2>1. copy.mem[c] \in Build /\ copy.mem[c] # None /\ BuildKept(mem, copy.mem[c])
      BY DEF CreateSession, Inductive, TypeOK, Copies
    <2> QED
      BY <2>1 DEF BuildKept, Build
  <1>2. s \in Session
    BY <1>1 DEF Session
  <1>3. /\ MemCreateSession(mem, s) = Answer([mem EXCEPT !.sessions[i] = s], "ok", s)
        /\ PgCreateSession(pg, s) = Answer([pg EXCEPT !.sessions[i] = s], "ok", s)
    <2>1. copy.mem[c].id \in Found(mem.builds)
      BY <1>1, BothAreDatabases DEF Found
    <2>2. s.build \in Found(pg.builds)
      BY <2>1, SameBuilds
    <2> QED
      BY <2>2 DEF MemCreateSession, PgCreateSession
  <1>4. /\ mem.sessions[i] = None /\ held' = Keep(held, c, s, s)
        /\ mem' = [mem EXCEPT !.sessions[i] = s] /\ pg' = [pg EXCEPT !.sessions[i] = s]
        /\ told' = Both("ok", "ok") /\ UNCHANGED <<copy, clock, visited, raw>>
    <2>1. /\ mem.sessions[i] = None /\ held' = Keep(held, c, s, s)
          /\ Tell(MemCreateSession(mem, s), PgCreateSession(pg, s))
          /\ UNCHANGED <<copy, clock, visited, raw>>
      BY DEF CreateSession
    <2> HIDE DEF s
    <2> QED
      BY <1>3, <2>1 DEF Tell, Answer
  <1>5. s.id = i /\ s.build = copy.mem[c].id
    OBVIOUS
  <1> HIDE DEF s
  <1> QED
    BY <1>1, <1>2, <1>4, <1>5, SessionRowStep

(* The whole session in one store, the mutable columns in the other.       *)
LEMMA WriteSessionStep ==
    ASSUME Inductive, NEW c \in Caller, NEW st \in {"live", "ended"}, NEW x \in BOOLEAN,
           WriteSession(c, st, x)
    PROVE  Inductive'
  <1> DEFINE h == held.mem[c]
             i == h.id
             cur == mem.sessions[i]
             row == [h EXCEPT !.status = st, !.extended = x]
  <1>1. h \in Session /\ h # None /\ SessionKept(mem, h) /\ held.pg[c] = h
    BY DEF WriteSession, Inductive, TypeOK, Copies, Equal
  <1>2. /\ i \in SessionId /\ cur # None /\ cur \in Session /\ cur.id = i
        /\ cur.build = h.build /\ cur.device = h.device /\ cur.ip = h.ip /\ mem.builds[h.build] # None
    <2>1. i \in SessionId
      BY <1>1 DEF Session
    <2>2. /\ cur # None /\ cur.build = h.build /\ cur.device = h.device /\ cur.ip = h.ip
          /\ mem.builds[h.build] # None
      BY <1>1 DEF SessionKept
    <2>3. cur \in Session /\ cur.id = i
      BY <2>1, <2>2, RowOfSession
    <2> QED
      BY <2>1, <2>2, <2>3
  <1>3. /\ row \in Session /\ row.id = i /\ row.build = h.build /\ row.device = h.device
        /\ row.ip = h.ip /\ row.status = st /\ row.extended = x
    BY <1>1 DEF Session
  <1>4. [cur EXCEPT !.status = st, !.extended = x] = row
    <2> DEFINE upd == [cur EXCEPT !.status = st, !.extended = x]
    <2>1. /\ upd \in Session /\ upd.id = i /\ upd.build = cur.build /\ upd.device = cur.device
          /\ upd.ip = cur.ip /\ upd.status = st /\ upd.extended = x
      BY <1>2 DEF Session
    <2> HIDE DEF upd, row
    <2>2. upd = row
      BY <1>2, <1>3, <2>1, SameSession
    <2> QED
      BY <2>2 DEF upd
  <1>5. /\ MemUpdateSession(mem, row) = Answer([mem EXCEPT !.sessions[i] = row], "ok", row)
        /\ PgUpdateSession(pg, row) = Answer([pg EXCEPT !.sessions[i] = row], "ok", row)
    <2>1. MemUpdateSession(mem, row) = Answer([mem EXCEPT !.sessions[i] = row], "ok", row)
      BY <1>2, <1>3 DEF MemUpdateSession
    <2>2. pg.sessions[i] = cur
      BY DEF Inductive, Equal
    <2>3. PgUpdateSession(pg, row) =
            Answer([pg EXCEPT !.sessions[i] = [@ EXCEPT !.status = st, !.extended = x]], "ok", row)
      BY <1>2, <1>3, <2>2 DEF PgUpdateSession
    <2>4. [pg EXCEPT !.sessions[i] = [@ EXCEPT !.status = st, !.extended = x]]
            = [pg EXCEPT !.sessions[i] = [cur EXCEPT !.status = st, !.extended = x]]
      BY <1>2, <2>2, BothAreDatabases DEF Database
    <2> QED
      BY <1>4, <2>1, <2>3, <2>4
  <1>6. /\ mem' = [mem EXCEPT !.sessions[i] = row] /\ pg' = [pg EXCEPT !.sessions[i] = row]
        /\ told' = Both("ok", "ok")
        /\ held' = Keep(held, c, row, row) /\ UNCHANGED <<copy, clock, visited, raw>>
    BY <1>1, <1>5 DEF WriteSession, Tell, Answer
  <1> HIDE DEF row
  <1> QED
    BY <1>2, <1>3, <1>6, SessionRowStep

(* Reading a session gives the caller the same record from either store.   *)
LEMMA GetSessionStep ==
    ASSUME Inductive, NEW c \in Caller, NEW i \in SessionId, GetSession(c, i)
    PROVE  Inductive'
  <1> DEFINE s == mem.sessions[i]
  <1>1. /\ s \in Session /\ s # None /\ s.id = i /\ mem.builds[s.build] # None /\ pg.sessions[i] = s
    BY DEF GetSession, Inductive, TypeOK, Database, Equal, Rows
  <1>2. held' = Keep(held, c, s, s) /\ UNCHANGED <<mem, pg, copy, told, clock, visited, raw>>
    BY <1>1 DEF GetSession
  <1>3. Grows /\ SessionKept(mem', s)
    BY <1>1, <1>2 DEF Grows, SessionKept
  <1> HIDE DEF s
  <1>4. /\ Copies' /\ held'.mem = held'.pg
        /\ held' \in [mem : [Caller -> Session \cup {None}], pg : [Caller -> Session \cup {None}]]
    BY <1>1, <1>2, <1>3, HeldStep
  <1> QED
    BY <1>2, <1>4 DEF Inductive, TypeOK, Equal, Rows, Counted

(* Each call keeps the stores alike.                                       *)
LEMMA InductiveStep ==
    ASSUME Inductive, [Next]_vars
    PROVE  Inductive'
  <1>1. CASE UNCHANGED vars
    BY <1>1 DEF vars, Inductive, TypeOK, Equal, Copies, Rows, Counted
  <1>2. CASE Next
    <2>1. PICK c \in Caller :
            \/ \E i \in BuildId, r \in Repo, h \in Sha : Ensure(c, i, <<r, h>>)
            \/ \E l \in Log : WriteBuild(c, "ready", l)
            \/ WriteBuild(c, "queued", "kept")
            \/ \E i \in BuildId : GetBuild(c, i)
            \/ \E i \in SessionId, d \in Device, a \in IP : CreateSession(c, i, d, a)
            \/ RecordVisit(c)
            \/ \E i \in SessionId : GetSession(c, i)
            \/ \E st \in {"live", "ended"}, x \in BOOLEAN : WriteSession(c, st, x)
      BY <1>2 DEF Next
    <2>2. ASSUME NEW i \in BuildId, GetBuild(c, i) PROVE Inductive'
      BY <2>2, ReadBuild DEF GetBuild
    <2> QED
      BY <2>1, <2>2, EnsureStep, WriteBuildStep, CreateSessionStep, VisitStep, GetSessionStep, WriteSessionStep
  <1> QED
    BY <1>1, <1>2

(* The induction holds both properties, and the types.                     *)
LEMMA InductiveImplies == Inductive => SameAnswers /\ VisitsCounted
  <1> SUFFICES ASSUME Inductive PROVE SameAnswers /\ VisitsCounted
    OBVIOUS
  <1>1. /\ \A r \in Repo : Latest(mem, r) = Latest(pg, r)
        /\ \A r \in Repo, h \in Sha : BySHA(mem, <<r, h>>) = BySHA(pg, <<r, h>>)
        /\ \A i \in BuildId : mem.builds[i] = None <=> pg.builds[i] = None
    BY SameBuilds
  <1>2. ASSUME NEW i \in BuildId, i \notin raw
        PROVE  mem.builds[i] = pg.builds[i]
    <2>1. CASE mem.builds[i] = None
      BY <1>1, <2>1
    <2>2. CASE mem.builds[i] # None
      <3>1. /\ mem.builds[i] \in Build /\ mem.builds[i].id = i /\ pg.builds[i] \in Build
            /\ Twins(mem.builds[i], pg.builds[i], raw)
        BY <2>2, RowOfBuild
      <3> QED
        BY <1>2, <2>2, <3>1, SameBuild DEF Twins, Alike
    <2> QED
      BY <2>1, <2>2
  <1>3. /\ mem.sessions = pg.sessions
        /\ told.mem = told.pg \/ (raw # {} /\ told = Both("ok", "error"))
    BY DEF Inductive, Equal
  <1>4. ASSUME NEW d, NEW a
        PROVE  LiveFor(mem, d) = LiveFor(pg, d) /\ LiveCounts(mem, d, a) = LiveCounts(pg, d, a)
    BY <1>3 DEF LiveFor, LiveCounts, Live
  <1>5. SameAnswers
    BY <1>1, <1>2, <1>3, <1>4 DEF SameAnswers
  <1>6. ASSUME NEW i \in BuildId
        PROVE  /\ mem.builds[i] # None => mem.builds[i].visits = visited[i]
               /\ pg.builds[i] # None => pg.builds[i].visits = visited[i]
    BY <1>1, RowOfBuild DEF Twins
  <1> QED
    BY <1>5, <1>6 DEF VisitsCounted

(* The stores stay alike, always: the inductive invariant, of which the    *)
(* types are a part (memory.go:20-110, postgres.go:95-200).                *)
THEOREM StoresInvariant == Spec => []Inductive
  <1>1. Inductive /\ [Next]_vars => Inductive'
    BY InductiveStep
  <1> QED
    BY InductiveInit, <1>1, PTL DEF Spec

(* No caller can tell Postgres from Memory, whatever it calls and writes,  *)
(* but by the status and the log of a build whose run had a log that is no *)
(* text, and by the error such a write gets (store_test.go:14).            *)
THEOREM StoresConform == Spec => []SameAnswers
  BY StoresInvariant, InductiveImplies, PTL

(* No visit is lost to a copy that is written back, nor to a log that      *)
(* Postgres refuses (memory.go:45-47, postgres.go:130).                    *)
THEOREM NoVisitIsLost == Spec => []VisitsCounted
  BY StoresInvariant, InductiveImplies, PTL
===============================================================================
