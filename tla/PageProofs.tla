------------------------------- MODULE PageProofs -------------------------------
(***************************************************************************)
(* The session page, for any number of sessions, visits, lines and faults: *)
(* what it shows is of the session it holds, a restart never brings back   *)
(* what it dropped, and a page that was disconnected catches up.           *)
(*                                                                         *)
(* The argument follows the id from the request to the page. An event of a *)
(* log is about the session of that log (Tagging), an answer about one     *)
(* that was registered (Registered, Calling), and the stream is of the     *)
(* session the page holds (Holding). While a request of the visit under    *)
(* way is out the page holds none and is as it was at first, so that the   *)
(* answer has nothing of an older session to mix with (Calling, Showing).  *)
(***************************************************************************)
EXTENDS Page, SequenceTheorems, TLAPS

Holders == Ids \cup {None}
Stages == Working \cup {"none", "exposed", "announcing", "ending", "over"}
Rows == [status : {"none", "building", "starting", "live", "ended"},
         web : BOOLEAN, ready : BOOLEAN, extended : BOOLEAN]
Calls == [pc : {"idle", "get", "create", "sleep", "ok", "error"}, wanted : Holders,
          attempt : Nat, got : Holders, row : Rows]
Vals == Nat \cup BOOLEAN \cup {"building", "starting", "live", None}

(* What is told of a session.                                              *)
Tagged(s) ==
    [name : {"log", "phase", "preview", "terminal", "ttl", "ended"}, of : {s}, val : Vals]

PageTypes ==
    /\ stage \in [Ids -> Stages] /\ rec \in [Ids -> Rows]
    /\ call \in [Visits -> Calls] /\ visit \in Visits
    /\ url \in Holders /\ activeId \in Holders /\ dropped \subseteq Ids

(* The logs, the script of the stream and the records of the page.         *)
Tagging ==
    /\ DOMAIN hist = Ids /\ \A s \in Ids : hist[s] \in Seq(Tagged(s))
    /\ DOMAIN es = {"of", "st", "script", "follows", "cursor"}
    /\ es.script \in Seq(Tagged(es.of)) /\ es.cursor \in Nat
    /\ DOMAIN page = {"status", "logs", "preview", "ready", "expiry", "extended", "reason",
                      "connection"}

Registered == \A s \in Ids : rec[s].status # "none" => stage[s] # "none"

(* What the requests ask for and were told.                                *)
Calling ==
    /\ \A v \in Visits : /\ call[v].pc = "get" => call[v].wanted \in Ids
                         /\ call[v].pc = "ok" => call[v].got \in Ids /\ stage[call[v].got] # "none"
    /\ call[visit].pc # "idle" => activeId = None
    /\ call[visit].pc = "get" => dropped = {}
    /\ call[visit].pc = "ok" => call[visit].got \notin dropped

(* The session of the page and those it dropped.                           *)
Holding ==
    /\ es.of = activeId
    /\ activeId = None => es.st = "none"
    /\ activeId # None => stage[activeId] # "none" /\ activeId \notin dropped
    /\ \A s \in dropped : stage[s] # "none"

(* What the page shows.                                                    *)
Showing ==
    /\ page.logs \in Seq(Tagged(activeId))
    /\ {page.preview, page.reason} \subseteq {activeId, None}
    /\ page.expiry \in {activeId, None} \/ misled
    /\ activeId = None => page.status = "pending" /\ ~page.ready /\ page.logs = <<>>

(* The log lines of a build are about its session.                         *)
LEMMA LogsAreTagged ==
    ASSUME NEW s \in Ids, NEW n \in Nat
    PROVE  Log(s, n) \in Seq(Tagged(s))
  <1>1. \A i \in 1 .. n : Event("log", s, i) \in Tagged(s)
    BY DEF Event, Tagged, Vals
  <1>2. Log(s, n) \in [1 .. n -> Tagged(s)]
    BY <1>1 DEF Log
  <1> QED
    BY <1>2, SeqDef

(* So is each event that run and terminate emit (session.go's hub).        *)
LEMMA EventsAreTagged ==
    ASSUME NEW s \in Ids
    PROVE  /\ Event("phase", s, "building") \in Tagged(s)
           /\ Event("phase", s, "starting") \in Tagged(s)
           /\ Event("phase", s, "live") \in Tagged(s)
           /\ Event("preview", s, "live") \in Tagged(s)
           /\ Event("terminal", s, TRUE) \in Tagged(s)
           /\ Event("ttl", s, TRUE) \in Tagged(s)
           /\ Event("ttl", s, FALSE) \in Tagged(s)
           /\ Event("ended", s, None) \in Tagged(s)
  <1> USE DEF Event, Tagged, Vals
  <1>1. /\ Event("phase", s, "building") \in Tagged(s)
        /\ Event("phase", s, "starting") \in Tagged(s)
        /\ Event("phase", s, "live") \in Tagged(s)
        /\ Event("preview", s, "live") \in Tagged(s)
    OBVIOUS
  <1>2. Event("terminal", s, TRUE) \in Tagged(s)
    OBVIOUS
  <1>3. Event("ttl", s, TRUE) \in Tagged(s) /\ Event("ttl", s, FALSE) \in Tagged(s)
    OBVIOUS
  <1>4. Event("ended", s, None) \in Tagged(s)
    OBVIOUS
  <1> HIDE DEF Event, Tagged, Vals
  <1> QED
    BY <1>1, <1>2, <1>3, <1>4

(* What run emits in a row.                                                *)
LEMMA Bursts ==
    ASSUME NEW s \in Ids
    PROVE  /\ \A n \in Nat : <<Event("phase", s, "building")>> \o Log(s, n) \in Seq(Tagged(s))
           /\ \A q \in Seq(Tagged(s)) : q \o <<Event("phase", s, "starting")>> \in Seq(Tagged(s))
           /\ <<Event("terminal", s, TRUE), Event("ttl", s, FALSE), Event("phase", s, "live")>>
                  \in Seq(Tagged(s))
           /\ <<Event("preview", s, "live")>> \in Seq(Tagged(s))
           /\ <<Event("ended", s, None)>> \in Seq(Tagged(s))
           /\ <<Event("ttl", s, TRUE)>> \in Seq(Tagged(s))
  <1>1. \A q, r \in Seq(Tagged(s)) : q \o r \in Seq(Tagged(s))
    BY ConcatProperties
  <1>2. /\ \A e \in Tagged(s) : <<e>> \in Seq(Tagged(s))
        /\ \A e, f, g \in Tagged(s) : <<e, f, g>> \in Seq(Tagged(s))
    OBVIOUS
  <1>3. /\ <<Event("phase", s, "building")>> \in Seq(Tagged(s))
        /\ <<Event("phase", s, "starting")>> \in Seq(Tagged(s))
        /\ <<Event("preview", s, "live")>> \in Seq(Tagged(s))
        /\ <<Event("ended", s, None)>> \in Seq(Tagged(s))
        /\ <<Event("ttl", s, TRUE)>> \in Seq(Tagged(s))
    BY <1>2, EventsAreTagged
  <1>4. <<Event("terminal", s, TRUE), Event("ttl", s, FALSE), Event("phase", s, "live")>>
        \in Seq(Tagged(s))
    BY <1>2, EventsAreTagged
  <1> QED
    BY <1>1, <1>3, <1>4, LogsAreTagged

(* A log grows by what is told of its session.                             *)
LEMMA EmitTagged ==
    ASSUME DOMAIN hist = Ids, \A s \in Ids : hist[s] \in Seq(Tagged(s)),
           NEW s \in Ids, NEW q \in Seq(Tagged(s)), Emit(s, q)
    PROVE  DOMAIN hist' = Ids /\ \A r \in Ids : hist'[r] \in Seq(Tagged(r))
  <1>1. DOMAIN hist' = Ids /\ hist'[s] = hist[s] \o q /\ \A r \in Ids : r # s => hist'[r] = hist[r]
    BY DEF Emit
  <1>2. hist[s] \o q \in Seq(Tagged(s))
    BY ConcatProperties
  <1> QED
    BY <1>1, <1>2

--------------------------------------------------------------------------------
(* Each step keeps the types.                                              *)
LEMMA PageTypesKept ==
    ASSUME PageTypes, Calling, Holding, [Next]_vars
    PROVE  PageTypes'
  <1>a. None \notin Ids /\ Retries \in Nat
    BY PageAssumption DEF Ids
  <1>c. ASSUME NEW v \in Visits, NEW c \in Calls, Answer(v, c),
               UNCHANGED <<visit, url, activeId, dropped>>,
               stage' \in [Ids -> Stages], rec' \in [Ids -> Rows]
        PROVE  PageTypes'
    BY <1>c DEF PageTypes, Answer
  <1>r. NoRow \in Rows /\ \A s \in Ids : rec[s] \in Rows
    BY DEF NoRow, Rows, PageTypes
  <1>i. Idle \in Calls /\ \A u \in Holders : Load(u) \in Calls
    <2>1. Idle \in Calls
      BY <1>r DEF Idle, Calls, Holders
    <2> QED
      BY <2>1 DEF Load, Idle, Calls, Holders
  <1>1. ASSUME NEW s \in Ids, Run(s) PROVE PageTypes'
    <2>1. UNCHANGED <<call, browser>>
      BY <1>1 DEF Run
    <2>2. stage' \in [Ids -> Stages] /\ rec' \in [Ids -> Rows]
      <3>1. CASE Follow(s)
        BY <3>1 DEF Follow, PageTypes, Stages, Working
      <3>2. CASE MarkStarting(s)
        <4>1. [NoRow EXCEPT !.status = "starting"] \in Rows
          BY DEF NoRow, Rows
        <4> QED
          BY <3>2, <4>1 DEF MarkStarting, PageTypes, Stages, Working
      <3>3. CASE GoLive(s)
        <4>1. [status |-> "live", web |-> s \in Web, ready |-> TRUE, extended |-> FALSE] \in Rows
          BY DEF Rows
        <4> QED
          BY <3>3, <4>1 DEF GoLive, PageTypes, Stages, Working
      <3>4. CASE EndRecord(s)
        <4>1. [rec[s] EXCEPT !.status = "ended"] \in Rows
          BY <1>r DEF Rows
        <4> QED
          BY <3>4, <4>1 DEF EndRecord, PageTypes, Stages, Working
      <3>5. CASE ExposePort(s)
        BY <3>5 DEF ExposePort, PageTypes, Stages, Working
      <3>6. CASE Announce(s)
        BY <3>6 DEF Announce, PageTypes, Stages, Working
      <3> QED
        BY <1>1, <3>1, <3>2, <3>3, <3>4, <3>5, <3>6 DEF Run
    <2> QED
      BY <2>1, <2>2 DEF PageTypes, browser
  <1>2. ASSUME NEW s \in Ids, Told(s) PROVE PageTypes'
    <2>1. stage' \in [Ids -> Stages]
      BY <1>2 DEF Told, EndTell, PageTypes, Stages, Working
    <2> QED
      BY <1>2, <2>1 DEF Told, EndTell, PageTypes, browser
  <1>3. ASSUME NEW s \in Ids, TerminateTell(s) PROVE PageTypes'
    BY <1>3 DEF TerminateTell, OnlyCall, PageTypes, browser
  <1>4. ASSUME NEW s \in Ids, HandleExtend(s) PROVE PageTypes'
    <2>1. [rec[s] EXCEPT !.extended = TRUE] \in Rows
      BY <1>r DEF Rows
    <2>2. rec' \in [Ids -> Rows]
      BY <1>4, <2>1 DEF HandleExtend, PageTypes
    <2> QED
      BY <1>4, <2>2 DEF HandleExtend, PageTypes, browser
  <1>5. ASSUME NEW s \in Ids, Extended(s) PROVE PageTypes'
    BY <1>5 DEF Extended, PageTypes, server, browser
  <1>6. ASSUME NEW v \in Visits, HandleGet(v) PROVE PageTypes'
    <2> DEFINE c == call[v]
    <2>1. c \in Calls /\ c.wanted \in Ids
      BY <1>6 DEF HandleGet, PageTypes, Calling
    <2>2. rec[c.wanted] \in Rows /\ c.wanted \in Holders
      BY <1>r, <2>1 DEF Holders
    <2>3. /\ [c EXCEPT !.pc = "ok", !.got = c.wanted, !.row = rec[c.wanted]] \in Calls
          /\ [c EXCEPT !.pc = "create"] \in Calls
          /\ [c EXCEPT !.pc = "error"] \in Calls
      BY <2>1, <2>2 DEF Calls
    <2>4. \E d \in Calls : Answer(v, d)
      BY <1>6, <2>3 DEF HandleGet
    <2> QED
      BY <1>6, <2>4, <1>c DEF HandleGet, OnlyCall, browser, server, PageTypes
  <1>7. ASSUME NEW v \in Visits, HandleBusy(v) PROVE PageTypes'
    <2> DEFINE c == call[v]
    <2>1. c \in Calls
      BY DEF PageTypes
    <2>2. [c EXCEPT !.pc = "sleep"] \in Calls /\ [c EXCEPT !.pc = "error"] \in Calls
      BY <2>1 DEF Calls
    <2>3. \E d \in Calls : Answer(v, d)
      BY <1>7, <2>2 DEF HandleBusy
    <2> QED
      BY <1>7, <2>3, <1>c DEF HandleBusy, OnlyCall, browser, server, PageTypes
  <1>8. ASSUME NEW v \in Visits, WakeUp(v) PROVE PageTypes'
    <2> DEFINE c == call[v]
    <2>1. c \in Calls
      BY DEF PageTypes
    <2> DEFINE d == [c EXCEPT !.pc = "create"]
    <2>2. d \in Calls /\ d.attempt = c.attempt
      BY <2>1 DEF Calls
    <2>3. [d EXCEPT !.attempt = d.attempt + 1] \in Calls
      <3> HIDE DEF d
      <3> QED
        BY <2>2 DEF Calls
    <2>4. [c EXCEPT !.pc = "create", !.attempt = @ + 1] \in Calls
      BY <2>1, <2>2, <2>3 DEF Calls
    <2> QED
      BY <1>8, <2>4, <1>c DEF WakeUp, OnlyCall, browser, server, PageTypes
  <1>9. ASSUME NEW v \in Visits, Terminate(v) PROVE PageTypes'
    <2>1. \A s \in Ids : [rec[s] EXCEPT !.status = "ended"] \in Rows
      BY <1>r DEF Rows
    <2>2. rec' \in [Ids -> Rows]
      BY <1>9, <1>r, <2>1 DEF Terminate
    <2> QED
      BY <1>9, <2>2 DEF Terminate, OnlyCall, browser, PageTypes
  <1>10. ASSUME NEW v \in Visits, HandleCreate(v) PROVE PageTypes'
    <2> DEFINE c == call[v]
    <2>1. PICK s \in Ids :
              /\ stage' = [stage EXCEPT ![s] = IF s \in Built THEN "replay" ELSE "follow"]
              /\ rec' = [rec EXCEPT ![s].status = IF s \in Built THEN "starting" ELSE "building"]
              /\ Answer(v, [c EXCEPT !.pc = "ok", !.got = s, !.row = rec'[s]])
      BY <1>10 DEF HandleCreate
    <2>2. stage' \in [Ids -> Stages]
      BY <2>1 DEF PageTypes, Stages, Working
    <2>3. \A l \in {"starting", "building"} : [rec[s] EXCEPT !.status = l] \in Rows
      BY <1>r DEF Rows
    <2>4. rec' \in [Ids -> Rows]
      BY <2>1, <2>3 DEF PageTypes
    <2>5. c \in Calls /\ rec'[s] \in Rows /\ s \in Holders
      BY <2>4 DEF PageTypes, Holders
    <2>6. [c EXCEPT !.pc = "ok", !.got = s, !.row = rec'[s]] \in Calls
      BY <2>5 DEF Calls
    <2> QED
      BY <1>10, <2>1, <2>2, <2>4, <2>6, <1>c DEF HandleCreate, OnlyCall, browser
  <1>11. CASE Obtain
    <2>1. call[visit].got \in Holders /\ visit \in Visits
      BY DEF PageTypes, Calls
    <2> QED
      BY <1>11, <2>1, <1>i DEF Obtain, PageTypes, server
  <1>12. CASE SetupFails
    BY <1>12, <1>i DEF SetupFails, PageTypes, server
  <1>13. ASSUME NEW u \in Holders, SetUp(u), UNCHANGED <<stage, rec>>,
                url' \in Holders, dropped' \subseteq Ids
         PROVE  PageTypes'
    <2>1. visit + 1 \in Visits
      BY <1>13, PageAssumption DEF SetUp, PageTypes, Visits
    <2>2. Load(u) \in Calls /\ None \in Holders
      BY <1>i DEF Holders
    <2> QED
      BY <1>13, <2>1, <2>2 DEF SetUp, PageTypes
  <1>14. CASE Restart
    <2>1. dropped' \subseteq Ids /\ None \in Holders
      BY <1>14 DEF Restart, PageTypes, Holders
    <2> QED
      BY <1>14, <2>1, <1>13 DEF Restart, server, PageTypes
  <1>15. CASE Return
    <2>1. PICK u \in Holders : SetUp(u) /\ url' = u
      BY <1>15 DEF Return, Holders, PageTypes
    <2> QED
      BY <1>15, <2>1, <1>13 DEF Return, server
  <1>16. CASE Stream \/ Drop
    BY <1>16 DEF Stream, Connect, Deliver, StreamCloses, Drop, OnlyStream, server, browser, PageTypes
  <1>17. CASE extend
    BY <1>17 DEF extend, server, browser, PageTypes
  <1>18. CASE Crash
    <2>1. rec' \in [Ids -> Rows]
      BY <1>18, <1>r DEF Crash, PageTypes
    <2>2. stage' \in [Ids -> Stages]
      BY <1>18 DEF Crash, PageTypes, Stages
    <2>3. \A v \in Visits : call[v] \in Calls /\ [call[v] EXCEPT !.pc = "error"] \in Calls
      BY DEF PageTypes, Calls
    <2>4. call' \in [Visits -> Calls]
      BY <1>18, <2>3 DEF Crash
    <2> QED
      BY <1>18, <2>1, <2>2, <2>4 DEF Crash, browser, PageTypes
  <1>19. CASE UNCHANGED vars
    BY <1>19 DEF vars, server, browser, PageTypes
  <1> QED
    BY <1>1, <1>2, <1>3, <1>4, <1>5, <1>6, <1>7, <1>8, <1>9, <1>10, <1>11, <1>12, <1>14, <1>15,
       <1>16, <1>17, <1>18, <1>19 DEF Next, Api

(* The log of each session stays about it.                                 *)
LEMMA LogsKept ==
    ASSUME PageTypes, Tagging, [Next]_vars
    PROVE  (DOMAIN hist = Ids /\ \A s \in Ids : hist[s] \in Seq(Tagged(s)))'
  <1>a. 1 \in Nat /\ Lines \in Nat
    BY PageAssumption
  <1>h. DOMAIN hist = Ids /\ \A s \in Ids : hist[s] \in Seq(Tagged(s))
    BY DEF Tagging
  <1>u. ASSUME UNCHANGED hist PROVE (DOMAIN hist = Ids /\ \A s \in Ids : hist[s] \in Seq(Tagged(s)))'
    BY <1>h, <1>u DEF Tagged, Ids
  <1>e. ASSUME NEW s \in Ids, NEW q \in Seq(Tagged(s)), Emit(s, q)
        PROVE  (DOMAIN hist = Ids /\ \A r \in Ids : hist[r] \in Seq(Tagged(r)))'
    BY <1>e, <1>h, EmitTagged
  <1>1. ASSUME NEW s \in Ids, Follow(s) PROVE (DOMAIN hist = Ids /\ \A r \in Ids : hist[r] \in Seq(Tagged(r)))'
    <2>1. PICK n \in {1, Lines} : Emit(s, <<Event("phase", s, "building")>> \o Log(s, n))
      BY <1>1 DEF Follow
    <2>2. <<Event("phase", s, "building")>> \o Log(s, n) \in Seq(Tagged(s))
      BY <1>a, Bursts
    <2> QED
      BY <2>1, <2>2, <1>e
  <1>2. ASSUME NEW s \in Ids, MarkStarting(s) PROVE (DOMAIN hist = Ids /\ \A r \in Ids : hist[r] \in Seq(Tagged(r)))'
    <2> DEFINE q == IF Len(hist[s]) <= 1 THEN Log(s, Lines) ELSE <<>>
    <2>1. q \in Seq(Tagged(s))
      BY <1>a, LogsAreTagged
    <2>2. Emit(s, q \o <<Event("phase", s, "starting")>>)
      BY <1>2 DEF MarkStarting
    <2>3. q \o <<Event("phase", s, "starting")>> \in Seq(Tagged(s))
      BY <2>1, Bursts
    <2> QED
      BY <2>2, <2>3, <1>e
  <1>3. ASSUME NEW s \in Ids, ExposePort(s) PROVE (DOMAIN hist = Ids /\ \A r \in Ids : hist[r] \in Seq(Tagged(r)))'
    <2> DEFINE q == IF s \in Web THEN <<Event("preview", s, "live")>> ELSE <<>>
    <2>1. q \in Seq(Tagged(s))
      <3>1. <<>> \in Seq(Tagged(s)) /\ <<Event("preview", s, "live")>> \in Seq(Tagged(s))
        BY EmptySeq, Bursts
      <3> QED
        BY <3>1
    <2>2. Emit(s, q)
      BY <1>3 DEF ExposePort
    <2> QED
      BY <2>1, <2>2, <1>e
  <1>13. ASSUME NEW s \in Ids, Announce(s) PROVE (DOMAIN hist = Ids /\ \A r \in Ids : hist[r] \in Seq(Tagged(r)))'
    BY <1>13, <1>e, Bursts DEF Announce
  <1>4. ASSUME NEW s \in Ids, Run(s) PROVE (DOMAIN hist = Ids /\ \A r \in Ids : hist[r] \in Seq(Tagged(r)))'
    <2>1. CASE EndRecord(s) \/ GoLive(s)
      BY <2>1, <1>u DEF EndRecord, GoLive
    <2> QED
      BY <1>4, <1>1, <1>2, <1>3, <1>13, <2>1 DEF Run
  <1>5. ASSUME NEW s \in Ids, Told(s) PROVE (DOMAIN hist = Ids /\ \A r \in Ids : hist[r] \in Seq(Tagged(r)))'
    BY <1>5, <1>e, Bursts DEF Told, EndTell
  <1>6. ASSUME NEW s \in Ids, TerminateTell(s) PROVE (DOMAIN hist = Ids /\ \A r \in Ids : hist[r] \in Seq(Tagged(r)))'
    BY <1>6, <1>e, <1>u, Bursts DEF TerminateTell
  <1>7. ASSUME NEW s \in Ids, HandleExtend(s) PROVE (DOMAIN hist = Ids /\ \A r \in Ids : hist[r] \in Seq(Tagged(r)))'
    BY <1>7, <1>e, <1>u, Bursts DEF HandleExtend
  <1>8. ASSUME NEW v \in Visits, Api(v) PROVE UNCHANGED hist
    BY <1>8 DEF Api, HandleGet, HandleBusy, WakeUp, Terminate, HandleCreate, server
  <1>9. CASE Obtain \/ SetupFails \/ Restart \/ Return \/ Stream \/ Drop \/ extend
    BY <1>9, <1>u DEF Obtain, SetupFails, Restart, Return, Stream, Connect, Deliver, StreamCloses,
                      Drop, OnlyStream, extend, server
  <1>10. CASE Crash
    BY <1>10 DEF Crash
  <1>11. CASE UNCHANGED vars
    BY <1>11, <1>u DEF vars, server
  <1>12. ASSUME NEW s \in Ids, Extended(s) PROVE UNCHANGED hist
    BY <1>12 DEF Extended, server
  <1> QED
    BY <1>4, <1>5, <1>6, <1>7, <1>8, <1>9, <1>10, <1>11, <1>12, <1>u DEF Next

(* What a stream is to bring is about its session.                         *)
LEMMA ScriptTagged ==
    ASSUME PageTypes, Tagging, Holding, es.st = "open"
    PROVE  es.of \in Ids /\ Script \in Seq(Tagged(es.of))
  <1>1. es.of \in Ids
    BY DEF Holding, PageTypes, Holders
  <1> QED
    BY <1>1 DEF Script, Tagging

(* reduce keeps the page of a session about it (reducer.ts:35-78).         *)
LEMMA Reduced ==
    ASSUME NEW s \in Ids, NEW e \in Tagged(s), NEW p,
           DOMAIN p = {"status", "logs", "preview", "ready", "expiry", "extended", "reason",
                       "connection"},
           p.logs \in Seq(Tagged(s)), {p.preview, p.reason} \subseteq {s, None}
    PROVE  LET q == reduce(p, e) IN
              /\ DOMAIN q = DOMAIN p
              /\ q.logs \in Seq(Tagged(s))
              /\ {q.preview, q.reason} \subseteq {s, None}
              /\ q.expiry = IF e.name = "ttl" THEN s ELSE p.expiry
  <1> DEFINE q == reduce(p, e)
  <1>0. e.of = s /\ e.name \in {"log", "phase", "preview", "terminal", "ttl", "ended"}
    BY DEF Tagged
  <1>1. CASE e.name = "log"
    <2> DEFINE ls == LastLines(p.logs, MaxLogLines - 1)
    <2>1. ls \in Seq(Tagged(s))
      <3> DEFINE n == Len(p.logs)   k == MaxLogLines - 1
                 from == IF n > k THEN n - k + 1 ELSE 1
      <3>1. n \in Nat /\ k \in Nat
        BY LenProperties, PageAssumption
      <3>2. from \in Int /\ from >= 1
        BY <3>1
      <3>3. \A i \in from .. n : p.logs[i] \in Tagged(s)
        BY <3>1, <3>2, ElementOfSeq
      <3>4. SubSeq(p.logs, from, n) \in Seq(Tagged(s))
        <4> HIDE DEF from, n
        <4> QED
          BY <3>1, <3>2, <3>3, SubSeqProperties
      <3> QED
        BY <3>4 DEF LastLines
    <2>2. Append(ls, e) \in Seq(Tagged(s))
      <3> HIDE DEF ls
      <3> QED
        BY <2>1, AppendProperties
    <2>3. q = [p EXCEPT !.logs = Append(ls, e)]
      BY <1>1 DEF reduce, AddLog
    <2> HIDE DEF q, ls
    <2>4. q.logs = Append(ls, e) /\ DOMAIN q = DOMAIN p
          /\ q.preview = p.preview /\ q.reason = p.reason /\ q.expiry = p.expiry
      BY <2>3
    <2> QED
      BY <2>2, <2>4, <1>1 DEF q
  <1>2. CASE e.name = "phase"
    BY <1>2 DEF reduce, reducePhase
  <1>3. CASE e.name = "preview"
    BY <1>0, <1>3 DEF reduce
  <1>4. CASE e.name = "terminal"
    BY <1>4 DEF reduce
  <1>5. CASE e.name = "ttl"
    BY <1>0, <1>5 DEF reduce
  <1>6. CASE e.name = "ended"
    BY <1>0, <1>6 DEF reduce
  <1> QED
    BY <1>0, <1>1, <1>2, <1>3, <1>4, <1>5, <1>6

(* A step of Run, of a handler, or of the visit's own calls leaves what is *)
(* shown and the stream alone.                                             *)
LEMMA OthersLeaveThePage ==
    ASSUME \/ \E s \in Ids : Run(s) \/ Told(s) \/ TerminateTell(s) \/ HandleExtend(s)
           \/ \E v \in Visits : Api(v)
           \/ UNCHANGED vars
    PROVE  UNCHANGED <<browser, page, es, misled>>
  <1>1. ASSUME NEW s \in Ids, Run(s) \/ Told(s) \/ TerminateTell(s) \/ HandleExtend(s)
        PROVE  UNCHANGED <<browser, page, es, misled>>
    BY <1>1 DEF Run, Told, TerminateTell, HandleExtend, OnlyCall
  <1>2. ASSUME NEW v \in Visits, Api(v)
        PROVE  UNCHANGED <<browser, page, es, misled>>
    BY <1>2 DEF Api, HandleGet, HandleBusy, WakeUp, Terminate, HandleCreate, OnlyCall
  <1>3. CASE UNCHANGED vars
    BY <1>3 DEF vars
  <1> QED
    BY <1>1, <1>2, <1>3

(* What a replay brings is about its session (server.go:240-241).          *)
LEMMA StoriesAreTagged ==
    ASSUME NEW s \in Ids, NEW q \in Story(s)
    PROVE  q \in Seq(Tagged(s))
  <1>1. PICK n \in {0, Lines} : q = Log(s, n) \o <<Event("ended", s, None)>>
    BY DEF Story
  <1>2. n \in Nat
    BY PageAssumption
  <1>3. Log(s, n) \in Seq(Tagged(s)) /\ <<Event("ended", s, None)>> \in Seq(Tagged(s))
    BY <1>2, LogsAreTagged, Bursts
  <1> QED
    BY <1>1, <1>3, ConcatProperties

(* An EventSource that is opened, or opened again, has read nothing.       *)
LEMMA Fresh ==
    ASSUME NEW s
    PROVE  LET c == ConnectTo(s) IN
              /\ DOMAIN c = {"of", "st", "script", "follows", "cursor"}
              /\ c.of = s /\ c.st = "connecting" /\ c.script = <<>> /\ c.cursor = 0
    BY DEF ConnectTo, Disconnected

PageRecord == DOMAIN page = {"status", "logs", "preview", "ready", "expiry", "extended", "reason",
                             "connection"}

StreamRecord == es.script \in Seq(Tagged(es.of)) /\ es.cursor \in Nat
           /\ DOMAIN es = {"of", "st", "script", "follows", "cursor"}

(* The stream stays of its session.                                        *)
LEMMA StreamKept ==
    ASSUME PageTypes, Tagging, Holding, [Next]_vars
    PROVE  StreamRecord'
  <1> USE DEF StreamRecord
  <1>0. StreamRecord /\ \A s : <<>> \in Seq(Tagged(s))
    BY EmptySeq DEF Tagging
  <1>1. CASE UNCHANGED es
    BY <1>0, <1>1
  <1>2. ASSUME NEW s, es' = ConnectTo(s)
        PROVE  StreamRecord'
    <2>1. es'.of = s /\ es'.script = <<>> /\ es'.cursor = 0
          /\ DOMAIN es' = {"of", "st", "script", "follows", "cursor"}
      BY <1>2, Fresh
    <2>2. <<>> \in Seq(Tagged(es'.of))
      BY EmptySeq
    <2> QED
      BY <2>1, <2>2
  <1>3. CASE es' = Disconnected
    BY <1>0, <1>3 DEF Disconnected
  <1>4. CASE Connect
    <2>1. es.of \in Ids
      BY <1>4 DEF Connect, Holding, PageTypes, Holders
    <2>2. ASSUME NEW q \in Seq(Tagged(es.of)),
                 \/ es' = [ConnectTo(es.of) EXCEPT !.st = "open", !.follows = TRUE] /\ q = <<>>
                 \/ es' = [ConnectTo(es.of) EXCEPT !.st = "open", !.script = q]
          PROVE  StreamRecord'
      <3>1. es'.of = es.of /\ es'.script = q /\ es'.cursor = 0
            /\ DOMAIN es' = {"of", "st", "script", "follows", "cursor"}
        <4> DEFINE c == ConnectTo(es.of)
        <4>1. /\ DOMAIN c = {"of", "st", "script", "follows", "cursor"}
              /\ c.of = es.of /\ c.script = <<>> /\ c.cursor = 0
          BY Fresh
        <4> HIDE DEF c
        <4>2. CASE es' = [c EXCEPT !.st = "open", !.follows = TRUE] /\ q = <<>>
          BY <4>1, <4>2
        <4>3. CASE es' = [c EXCEPT !.st = "open", !.script = q]
          BY <4>1, <4>3
        <4> QED
          BY <2>2, <4>2, <4>3 DEF c
      <3>2. Tagged(es'.of) = Tagged(es.of)
        BY <3>1
      <3> QED
        BY <3>1, <3>2
    <2>3. CASE es' = [es EXCEPT !.st = "failed"]
      <3>1. es'.of = es.of /\ es'.script = es.script /\ es'.cursor = es.cursor
            /\ DOMAIN es' = DOMAIN es
        BY <1>0, <2>3
      <3> QED
        BY <1>0, <3>1
    <2>4. CASE es' = [ConnectTo(es.of) EXCEPT !.st = "open", !.follows = TRUE]
      BY <1>0, <2>2, <2>4
    <2>5. CASE \E q \in Story(es.of) : es' = [ConnectTo(es.of) EXCEPT !.st = "open", !.script = q]
      BY <2>1, <2>2, <2>5, StoriesAreTagged
    <2> QED
      BY <1>4, <2>3, <2>4, <2>5 DEF Connect
  <1>5. CASE Deliver
    <2>1. CASE es' = [ConnectTo(es.of) EXCEPT !.st = "closed"]
      <3>1. es'.of = es.of /\ es'.script = <<>> /\ es'.cursor = 0
            /\ DOMAIN es' = {"of", "st", "script", "follows", "cursor"}
        BY <2>1, Fresh
      <3> QED
        BY <1>0, <3>1
    <2>2. CASE es' = [es EXCEPT !.cursor = es.cursor + 1]
      <3>1. es'.of = es.of /\ es'.script = es.script /\ es'.cursor = es.cursor + 1
            /\ DOMAIN es' = DOMAIN es
        BY <1>0, <2>2
      <3> QED
        BY <1>0, <3>1
    <2> QED
      BY <1>5, <2>1, <2>2 DEF Deliver
  <1>6. CASE StreamCloses \/ Drop \/ Crash
    BY <1>1, <1>2, <1>6 DEF StreamCloses, Drop, Crash, Broken
  <1>7. CASE Obtain
    BY <1>2, <1>7 DEF Obtain
  <1>8. CASE Restart \/ Return
    BY <1>3, <1>8 DEF Restart, Return, SetUp
  <1>9. ASSUME \/ SetupFails \/ extend
               \/ \E s \in Ids : Extended(s)
        PROVE  UNCHANGED es
    BY <1>9 DEF SetupFails, extend, Extended
  <1> QED
    BY <1>1, <1>4, <1>5, <1>6, <1>7, <1>8, <1>9, OthersLeaveThePage DEF Next, Stream

(* A session that was registered stays so.                                 *)
LEMMA RegisteredKept ==
    ASSUME PageTypes, Registered, [Next]_vars
    PROVE  Registered' /\ \A s \in Ids : stage[s] # "none" => stage'[s] # "none"
  <1> DEFINE Kept == Registered' /\ \A s \in Ids : stage[s] # "none" => stage'[s] # "none"
  <1>1. CASE UNCHANGED <<stage, rec>>
    BY <1>1 DEF Registered
  <1>2. ASSUME NEW s \in Ids, stage[s] # "none", stage'[s] # "none",
               \A r \in Ids \ {s} : stage'[r] = stage[r] /\ rec'[r] = rec[r]
        PROVE  Kept
    BY <1>2 DEF Registered
  <1>3. ASSUME NEW s \in Ids, Run(s) \/ Told(s)
        PROVE  Kept
    <2>1. CASE Follow(s)
      BY <1>2, <2>1 DEF Follow, PageTypes
    <2>2. CASE MarkStarting(s)
      BY <1>2, <2>2 DEF MarkStarting, PageTypes
    <2>3. CASE GoLive(s)
      BY <1>2, <2>3 DEF GoLive, PageTypes
    <2>4. CASE EndRecord(s)
      BY <1>2, <2>4 DEF EndRecord, PageTypes, Working
    <2>5. CASE EndTell(s)
      BY <1>2, <2>5 DEF EndTell, PageTypes
    <2>6. CASE ExposePort(s) \/ Announce(s)
      BY <1>2, <2>6 DEF ExposePort, Announce, PageTypes
    <2> QED
      BY <1>3, <2>1, <2>2, <2>3, <2>4, <2>5, <2>6 DEF Run, Told
  <1>4. ASSUME NEW s \in Ids, HandleExtend(s)
        PROVE  Kept
    <2>1. CASE rec' = [rec EXCEPT ![s].extended = TRUE]
      <3>1. \A r \in Ids : rec'[r].status = rec[r].status
        BY <2>1 DEF PageTypes, Rows
      <3> QED
        BY <1>4, <3>1 DEF HandleExtend, Registered
    <2> QED
      BY <1>1, <1>4, <2>1 DEF HandleExtend
  <1>5. ASSUME NEW v \in Visits, Terminate(v)
        PROVE  Kept
    <2>1. \A r \in Ids : rec'[r].status # "none" => rec[r].status # "none"
      BY <1>5 DEF Terminate, LiveRows
    <2> QED
      BY <1>5, <2>1 DEF Terminate, Registered
  <1>6. ASSUME NEW v \in Visits, HandleCreate(v)
        PROVE  Kept
    <2>1. PICK s \in Ids :
              /\ stage' = [stage EXCEPT ![s] = IF s \in Built THEN "replay" ELSE "follow"]
              /\ rec' = [rec EXCEPT ![s].status = IF s \in Built THEN "starting" ELSE "building"]
      BY <1>6 DEF HandleCreate
    <2> QED
      BY <2>1 DEF PageTypes, Registered
  <1>7. CASE Crash
    <2>1. \A r \in Ids : rec'[r].status # "none" => rec[r].status # "none"
      BY <1>7 DEF Crash, NoRow
    <2> QED
      BY <1>7, <2>1 DEF Crash, Registered
  <1>8. ASSUME NEW v \in Visits, HandleGet(v) \/ HandleBusy(v) \/ WakeUp(v)
        PROVE  UNCHANGED <<stage, rec>>
    BY <1>8 DEF HandleGet, HandleBusy, WakeUp, server
  <1>9. ASSUME NEW s \in Ids, TerminateTell(s) \/ Extended(s)
        PROVE  UNCHANGED <<stage, rec>>
    BY <1>9 DEF TerminateTell, Extended, server
  <1>10. ASSUME Obtain \/ SetupFails \/ Restart \/ Return \/ Stream \/ Drop \/ extend
                \/ UNCHANGED vars
         PROVE  UNCHANGED <<stage, rec>>
    BY <1>10 DEF Obtain, SetupFails, Restart, Return, Stream, Connect, Deliver, StreamCloses,
                 Drop, OnlyStream, extend, server, vars
  <1> QED
    BY <1>1, <1>3, <1>4, <1>5, <1>6, <1>7, <1>8, <1>9, <1>10 DEF Next, Api

(* A call that is answered is answered with a session that was registered. *)
LEMMA CallingKept ==
    ASSUME PageTypes, Registered, Calling, Holding, [Next]_vars
    PROVE  Calling'
  <1>a. \A s \in Ids : stage[s] # "none" => stage'[s] # "none"
    BY RegisteredKept
  <1>b. None \notin Ids /\ visit \in Visits /\ \A v \in Visits : call[v] \in Calls
    BY PageAssumption DEF Ids, PageTypes
  <1>c. ASSUME NEW v \in Visits, NEW c \in Calls, Answer(v, c),
               UNCHANGED <<visit, activeId, dropped>>,
               call[v].pc # "idle", c.pc # "get",
               c.pc = "ok" => /\ c.got \in Ids /\ stage'[c.got] # "none"
                              /\ v = visit => c.got \notin dropped
        PROVE  Calling'
    <2>1. call'[v] = c /\ \A w \in Visits : w # v => call'[w] = call[w]
      BY <1>c DEF Answer, PageTypes
    <2> QED
      BY <1>a, <1>b, <1>c, <2>1 DEF Calling
  <1>d. ASSUME UNCHANGED <<call, visit, activeId, dropped>>
        PROVE  Calling'
    BY <1>a, <1>d DEF Calling
  <1>1. ASSUME NEW v \in Visits, HandleGet(v)
        PROVE  Calling'
    <2> DEFINE c == call[v]
    <2>1. c \in Calls /\ c.pc = "get" /\ c.wanted \in Ids
      BY <1>1, <1>b DEF HandleGet, Calling
    <2>2. UNCHANGED <<visit, activeId, dropped, stage>>
      BY <1>1 DEF HandleGet, OnlyCall, browser, server
    <2>3. CASE rec[c.wanted].status # "none"
               /\ Answer(v, [c EXCEPT !.pc = "ok", !.got = c.wanted, !.row = rec[c.wanted]])
      <3>1. rec[c.wanted] \in Rows /\ c.wanted \in Holders
        BY <2>1 DEF PageTypes, Holders
      <3> DEFINE d == [c EXCEPT !.pc = "ok", !.got = c.wanted, !.row = rec[c.wanted]]
      <3>2. d \in Calls /\ d.pc = "ok" /\ d.got = c.wanted
        BY <2>1, <3>1 DEF Calls
      <3>3. stage'[c.wanted] # "none" /\ (v = visit => c.wanted \notin dropped)
        BY <2>1, <2>2, <2>3 DEF Registered, Calling
      <3> HIDE DEF d
      <3>4. Answer(v, d)
        BY <2>3 DEF d
      <3> QED
        BY <1>c, <2>1, <2>2, <3>2, <3>3, <3>4
    <2>4. CASE \E l \in {"create", "error"} : Answer(v, [c EXCEPT !.pc = l])
      <3>1. PICK l \in {"create", "error"} : Answer(v, [c EXCEPT !.pc = l])
        BY <2>4
      <3>2. [c EXCEPT !.pc = l] \in Calls /\ [c EXCEPT !.pc = l].pc = l
        BY <2>1 DEF Calls
      <3> QED
        BY <1>c, <2>1, <2>2, <3>1, <3>2
    <2> QED
      BY <1>1, <2>3, <2>4 DEF HandleGet
  <1>2. ASSUME NEW v \in Visits, HandleBusy(v)
        PROVE  Calling'
    <2> DEFINE c == call[v]
    <2>1. c \in Calls /\ c.pc = "create" /\ UNCHANGED <<visit, activeId, dropped>>
      BY <1>2, <1>b DEF HandleBusy, OnlyCall, browser
    <2>2. PICK l \in {"sleep", "error"} : Answer(v, [c EXCEPT !.pc = l])
      BY <1>2 DEF HandleBusy
    <2>3. [c EXCEPT !.pc = l] \in Calls /\ [c EXCEPT !.pc = l].pc = l
      BY <2>1 DEF Calls
    <2> QED
      BY <1>c, <2>1, <2>2, <2>3
  <1>3. ASSUME NEW v \in Visits, WakeUp(v)
        PROVE  Calling'
    <2> DEFINE c == call[v]   d == [c EXCEPT !.pc = "create", !.attempt = @ + 1]
    <2>1. c \in Calls /\ c.pc = "sleep" /\ UNCHANGED <<visit, activeId, dropped>>
      BY <1>3, <1>b DEF WakeUp, OnlyCall, browser
    <2>2. call' = [call EXCEPT ![v] = d]
      BY <1>3 DEF WakeUp, Answer
    <2>3. d.pc = "create"
      BY <2>1 DEF Calls
    <2> HIDE DEF d
    <2>4. call'[v] = d /\ \A w \in Visits : w # v => call'[w] = call[w]
      BY <2>2 DEF PageTypes
    <2> QED
      BY <1>a, <1>b, <2>1, <2>3, <2>4 DEF Calling
  <1>4. ASSUME NEW v \in Visits, Terminate(v)
        PROVE  Calling'
    BY <1>4, <1>d DEF Terminate, OnlyCall, browser
  <1>5. ASSUME NEW v \in Visits, HandleCreate(v)
        PROVE  Calling'
    <2> DEFINE c == call[v]
    <2>1. PICK s \in Ids :
              /\ stage[s] = "none"
              /\ stage' = [stage EXCEPT ![s] = IF s \in Built THEN "replay" ELSE "follow"]
              /\ rec' = [rec EXCEPT ![s].status = IF s \in Built THEN "starting" ELSE "building"]
              /\ Answer(v, [c EXCEPT !.pc = "ok", !.got = s, !.row = rec'[s]])
      BY <1>5 DEF HandleCreate
    <2>2. c \in Calls /\ c.pc = "create" /\ UNCHANGED <<visit, activeId, dropped>>
      BY <1>5, <1>b DEF HandleCreate, OnlyCall, browser
    <2>3. rec'[s] \in Rows /\ s \in Holders
      BY PageTypesKept DEF PageTypes, Holders
    <2> DEFINE d == [c EXCEPT !.pc = "ok", !.got = s, !.row = rec'[s]]
    <2>4. d \in Calls /\ d.pc = "ok" /\ d.got = s
      BY <2>2, <2>3 DEF Calls
    <2>5. stage'[s] # "none" /\ s \notin dropped
      BY <2>1 DEF PageTypes, Holding
    <2> HIDE DEF d
    <2>6. Answer(v, d)
      BY <2>1 DEF d
    <2> QED
      BY <1>c, <2>2, <2>4, <2>5, <2>6
  <1>6. CASE Obtain \/ SetupFails
    <2>1. call'[visit] = Idle /\ \A v \in Visits : v # visit => call'[v] = call[v]
      BY <1>6, <1>b DEF Obtain, SetupFails, PageTypes
    <2>2. UNCHANGED <<visit, dropped>> /\ Idle.pc = "idle"
      BY <1>6 DEF Obtain, SetupFails, Idle
    <2> QED
      BY <1>a, <1>b, <2>1, <2>2 DEF Calling
  <1>7. ASSUME NEW u \in Holders, SetUp(u), u # None => dropped' = {}
        PROVE  Calling'
    <2>1. visit' = visit + 1 /\ visit' \in Visits /\ activeId' = None
      BY <1>7, <1>b, PageAssumption DEF SetUp, Visits
    <2>2. call'[visit'] = Load(u) /\ \A v \in Visits : v # visit' => call'[v] = call[v]
      BY <1>7, <2>1 DEF SetUp, PageTypes
    <2>3. /\ Load(u).pc = IF u = None THEN "create" ELSE "get"
          /\ Load(u).wanted = u
      BY DEF Load, Idle
    <2> QED
      BY <1>7, <1>a, <1>b, <2>1, <2>2, <2>3 DEF Calling, Holders
  <1>8. CASE Restart
    BY <1>7, <1>8 DEF Restart, Holders
  <1>9. CASE Return
    BY <1>7, <1>9 DEF Return, Holders, PageTypes
  <1>10. CASE Crash
    <2>1. \A v \in Visits :
              IF call[v].pc \in {"get", "create"}
              THEN call'[v] = [call[v] EXCEPT !.pc = "error"] ELSE call'[v] = call[v]
      BY <1>10 DEF Crash
    <2>2. \A v \in Visits : \/ call'[v] = call[v]
                            \/ call'[v].pc = "error" /\ call[v].pc # "idle"
      BY <1>b, <2>1 DEF Calls
    <2>3. UNCHANGED <<visit, activeId, dropped>>
      BY <1>10 DEF Crash, browser
    <2> QED
      BY <1>a, <1>b, <2>2, <2>3 DEF Calling
  <1>11. CASE Stream \/ Drop \/ extend
    BY <1>11, <1>d DEF Stream, Connect, Deliver, StreamCloses, Drop, OnlyStream, extend, browser
  <1>12. ASSUME NEW s \in Ids, Run(s) \/ Told(s) \/ TerminateTell(s) \/ HandleExtend(s)
                                \/ Extended(s)
         PROVE  UNCHANGED <<call, visit, activeId, dropped>>
    BY <1>12 DEF Run, Told, TerminateTell, HandleExtend, Extended, OnlyCall, browser
  <1>13. CASE UNCHANGED vars
    BY <1>d, <1>13 DEF vars, browser
  <1> QED
    BY <1>d, <1>1, <1>2, <1>3, <1>4, <1>5, <1>6, <1>8, <1>9, <1>10, <1>11, <1>12, <1>13
       DEF Next, Api

(* The stream is of the session the page holds, which it did not drop.     *)
LEMMA HoldingKept ==
    ASSUME PageTypes, Tagging, Registered, Calling, Holding, [Next]_vars
    PROVE  Holding'
  <1>a. \A s \in Ids : stage[s] # "none" => stage'[s] # "none"
    BY RegisteredKept
  <1>b. None \notin Ids /\ visit \in Visits /\ activeId \in Holders /\ dropped \subseteq Ids
    BY PageAssumption DEF Ids, PageTypes
  <1>c. ASSUME UNCHANGED <<activeId, dropped>>,
               es'.of = es.of, activeId = None => es'.st = "none"
        PROVE  Holding'
    BY <1>a, <1>b, <1>c DEF Holding, Holders
  <1>1. CASE UNCHANGED <<browser, es>>
    BY <1>1, <1>c DEF browser, Holding
  <1>2. CASE Obtain
    <2>1. call[visit].got \in Ids /\ stage[call[visit].got] # "none"
          /\ call[visit].got \notin dropped
      BY <1>2, <1>b DEF Obtain, Calling
    <2>2. es'.of = call[visit].got
      BY <1>2, Fresh DEF Obtain
    <2>3. activeId' = call[visit].got /\ UNCHANGED <<dropped, stage>>
      BY <1>2 DEF Obtain, server
    <2> QED
      BY <1>b, <2>1, <2>2, <2>3 DEF Holding
  <1>3. CASE Restart \/ Return
    <2>1. activeId' = None /\ es' = Disconnected /\ UNCHANGED stage
      BY <1>3 DEF Restart, Return, SetUp, server
    <2>2. dropped' \subseteq dropped \cup ({activeId} \ {None})
      BY <1>3 DEF Restart, Return
    <2>3. es'.of = None /\ es'.st = "none"
      BY <2>1 DEF Disconnected
    <2> QED
      BY <1>b, <2>1, <2>2, <2>3 DEF Holding, Holders
  <1>4. CASE Stream \/ Drop \/ Crash
    <2>1. UNCHANGED <<activeId, dropped>>
      BY <1>4 DEF Stream, Connect, Deliver, StreamCloses, Drop, Crash, OnlyStream, browser
    <2>2. UNCHANGED es \/ es.st \in {"connecting", "open"}
      BY <1>4 DEF Stream, Connect, Deliver, StreamCloses, Drop, Crash
    <2>3. es'.of = es.of
      <3> DEFINE c == ConnectTo(es.of)
      <3>0. /\ c.of = es.of
            /\ {"of", "st", "script", "follows", "cursor"} = DOMAIN c
            /\ DOMAIN es = DOMAIN c
        BY Fresh DEF Tagging
      <3> HIDE DEF c
      <3>1. \/ \E f, q : es' \in {c, [c EXCEPT !.st = "open", !.follows = TRUE],
                                   [c EXCEPT !.st = "closed"],
                                   [c EXCEPT !.st = "open", !.script = q]}
            \/ es' \in {es, [es EXCEPT !.st = "failed"], [es EXCEPT !.cursor = @ + 1]}
        BY <1>4 DEF Stream, Connect, Deliver, StreamCloses, Drop, Crash, Broken, c
      <3> QED
        BY <3>0, <3>1
    <2> QED
      BY <1>b, <1>c, <2>1, <2>2, <2>3 DEF Holding
  <1>5. ASSUME \/ SetupFails \/ extend
               \/ \E s \in Ids : Extended(s)
        PROVE  UNCHANGED <<activeId, dropped, es>>
    BY <1>5 DEF SetupFails, extend, Extended, browser
  <1>6. UNCHANGED <<activeId, dropped, es>> => Holding'
    BY <1>c DEF Holding
  <1> QED
    BY <1>1, <1>2, <1>3, <1>4, <1>5, <1>6, OthersLeaveThePage DEF Next

(* What the page shows stays of the session it holds.                      *)
LEMMA ShowingKept ==
    ASSUME PageTypes, Tagging, Calling, Holding, Showing, [Next]_vars
    PROVE  Showing' /\ PageRecord'
  <1> USE DEF PageRecord
  <1>a. PageRecord /\ activeId \in Holders /\ None \notin Ids
    BY PageAssumption DEF Tagging, PageTypes, Ids
  <1>e. \A s : <<>> \in Seq(Tagged(s))
    BY EmptySeq
  <1>b. ASSUME UNCHANGED <<activeId, page, misled>>
        PROVE  Showing' /\ PageRecord'
    BY <1>a, <1>b DEF Showing
  <1>c. ASSUME UNCHANGED activeId, activeId # None, PageRecord',
               page'.logs \in Seq(Tagged(activeId)),
               {page'.preview, page'.reason} \subseteq {activeId, None},
               page'.expiry \in {activeId, None} \/ misled'
        PROVE  Showing' /\ PageRecord'
    BY <1>c DEF Showing
  <1>d. ASSUME UNCHANGED <<activeId, misled>>, es.st # "none",
               \/ page' = reduceOpen(page)
               \/ page' = reduceError(page)
        PROVE  Showing' /\ PageRecord'
    <2>0. activeId # None
      BY <1>d DEF Holding
    <2>1. CASE page' = reduceOpen(page)
      <3>1. PageRecord' /\ page'.logs = <<>> /\ page'.preview = page.preview
            /\ page'.reason = page.reason /\ page'.expiry = page.expiry
        BY <1>a, <2>1 DEF reduceOpen
      <3> QED
        BY <1>c, <1>d, <1>e, <2>0, <3>1 DEF Showing
    <2>2. CASE page' = reduceError(page)
      <3>1. PageRecord' /\ page'.logs = page.logs /\ page'.preview = page.preview
            /\ page'.reason = page.reason /\ page'.expiry = page.expiry
        BY <1>a, <2>2 DEF reduceError
      <3> QED
        BY <1>c, <1>d, <2>0, <3>1 DEF Showing
    <2> QED
      BY <1>d, <2>1, <2>2
  <1>1. CASE Obtain
    <2> DEFINE s == call[visit].got   row == call[visit].row
    <2>1. activeId = None /\ s \in Ids /\ activeId' = s /\ UNCHANGED misled
      BY <1>1, <1>a DEF Obtain, Calling, PageTypes
    <2>2. page' = reduceSession(page, s, row)
      BY <1>1 DEF Obtain
    <2>3. /\ PageRecord' /\ page'.logs = page.logs
          /\ page'.preview \in {s, page.preview} /\ page'.reason \in {s, page.reason}
          /\ page'.expiry \in {s, page.expiry}
      <3> HIDE DEF s, row
      <3> QED
        BY <1>a, <2>2 DEF reduceSession
    <2>4. page.logs = <<>> /\ page.preview = None /\ page.reason = None
          /\ (page.expiry = None \/ misled)
      BY <2>1 DEF Showing
    <2> HIDE DEF s
    <2> QED
      BY <1>a, <1>e, <2>1, <2>3, <2>4 DEF Showing
  <1>2. CASE Restart \/ Return
    <2>1. page' = initialState /\ activeId' = None
      BY <1>2 DEF Restart, Return, SetUp
    <2> QED
      BY <1>e, <2>1 DEF initialState, Showing
  <1>3. CASE Connect \/ StreamCloses \/ Drop
    BY <1>3, <1>d DEF Connect, StreamCloses, Drop, Broken, OnlyStream, browser
  <1>4. CASE Crash
    BY <1>4, <1>b, <1>d DEF Crash, Broken, browser
  <1>5. CASE Deliver
    <2> DEFINE e == Script[es.cursor + 1]   s == es.of
    <2>1. activeId = s /\ s \in Ids /\ Script \in Seq(Tagged(s))
      BY <1>5, ScriptTagged DEF Deliver, Holding
    <2>2. e \in Tagged(s)
      <3>1. es.cursor \in Nat /\ es.cursor < Len(Script) /\ Len(Script) \in Nat
        BY <1>5, <2>1, LenProperties DEF Deliver, Tagging
      <3>2. es.cursor + 1 \in 1 .. Len(Script)
        BY <3>1
      <3> QED
        BY <2>1, <3>2, ElementOfSeq
    <2>3. page' = reduce(page, e) /\ misled' = (misled /\ e.name # "ttl") /\ UNCHANGED activeId
      BY <1>5 DEF Deliver, OnlyStream, browser
    <2> HIDE DEF e
    <2>4. page.logs \in Seq(Tagged(s)) /\ {page.preview, page.reason} \subseteq {s, None}
      BY <2>1 DEF Showing
    <2>5. /\ PageRecord' /\ page'.logs \in Seq(Tagged(s))
          /\ {page'.preview, page'.reason} \subseteq {s, None}
          /\ page'.expiry = IF e.name = "ttl" THEN s ELSE page.expiry
      BY <1>a, <2>1, <2>2, <2>3, <2>4, Reduced
    <2>6. page'.expiry \in {s, None} \/ misled'
      BY <2>1, <2>3, <2>5 DEF Showing
    <2> QED
      BY <1>a, <1>c, <2>1, <2>3, <2>5, <2>6
  <1>6. ASSUME NEW s \in Ids, Extended(s)
        PROVE  Showing' /\ PageRecord'
    <2>1. page' = reduceExtended(page, s) /\ UNCHANGED activeId
          /\ misled' = (misled \/ s # activeId)
      BY <1>6 DEF Extended, browser
    <2>2. /\ PageRecord' /\ page'.logs = page.logs /\ page'.preview = page.preview
          /\ page'.reason = page.reason /\ page'.expiry = s
          /\ page'.status = page.status /\ page'.ready = page.ready
      BY <1>a, <2>1 DEF reduceExtended
    <2> QED
      BY <2>1, <2>2 DEF Showing
  <1>7. CASE SetupFails \/ extend
    BY <1>7, <1>b DEF SetupFails, extend, browser
  <1> QED
    BY <1>b, <1>1, <1>2, <1>3, <1>4, <1>5, <1>6, <1>7, OthersLeaveThePage
       DEF Next, Stream, browser

--------------------------------------------------------------------------------
PageInv == PageTypes /\ Tagging /\ Registered /\ Calling /\ Holding /\ Showing

(* They hold at first.                                                     *)
LEMMA PageStarts == Init => PageInv
  <1> SUFFICES ASSUME Init PROVE PageInv
    OBVIOUS
  <1> USE DEF Init
  <1>a. None \notin Ids /\ Retries \in Nat /\ 1 \in Visits
    BY PageAssumption DEF Ids, Visits
  <1>r. NoRow \in Rows
    BY DEF NoRow, Rows
  <1>e. \A s : <<>> \in Seq(Tagged(s))
    BY EmptySeq
  <1>c. Idle \in Calls /\ Load(None) \in Calls /\ Idle.pc = "idle" /\ Load(None).pc = "create"
    BY <1>r DEF Idle, Load, Calls, Holders
  <1>1. PageTypes
    BY <1>a, <1>r, <1>c DEF PageTypes, Stages, Holders
  <1>2. Tagging
    BY <1>e DEF Tagging, Disconnected, initialState
  <1>3. Registered
    BY DEF Registered, NoRow
  <1>4. Calling
    BY <1>a, <1>c DEF Calling
  <1>5. Holding
    BY DEF Holding, Disconnected
  <1>6. Showing
    BY <1>e DEF Showing, initialState
  <1> QED
    BY <1>1, <1>2, <1>3, <1>4, <1>5, <1>6 DEF PageInv

(* The records, the calls and what is shown are what they say they are, in *)
(* every behaviour (useSession.ts, reducer.ts).                            *)
THEOREM PageInvariant == Spec => []PageInv
  <1>1. ASSUME PageInv, [Next]_vars
        PROVE  PageInv'
    <2> USE <1>1 DEF PageInv
    <2>1. PageTypes'
      BY PageTypesKept
    <2>2. Tagging'
      BY LogsKept, StreamKept, ShowingKept DEF Tagging, StreamRecord, PageRecord
    <2>3. Registered' /\ Calling' /\ Holding'
      BY RegisteredKept, CallingKept, HoldingKept
    <2>4. Showing'
      BY ShowingKept
    <2> QED
      BY <2>1, <2>2, <2>3, <2>4
  <1> QED
    BY <1>1, PageStarts, PTL DEF Spec

(* Whatever answers and events are under way, the page shows nothing of    *)
(* another session than the one it holds (useSession.ts:32-33).            *)
THEOREM ShowsItsOwn == Spec => []OwnStory
  <1>1. PageInv => OwnStory
    <2> SUFFICES ASSUME PageInv PROVE OwnStory
      OBVIOUS
    <2>1. \A i \in DOMAIN page.logs : page.logs[i] \in Tagged(activeId)
      BY ElementOfSeq, LenProperties DEF PageInv, Showing
    <2>2. \A i \in DOMAIN page.logs : page.logs[i].of = activeId
      BY <2>1 DEF Tagged
    <2> QED
      BY <2>2 DEF PageInv, Showing, OwnStory
  <1> QED
    BY <1>1, PageInvariant, PTL

(* A restart never brings back a session it dropped (useSession.ts:62, 137)*)
THEOREM RestartsAreFresh == Spec => []RestartIsFresh
  <1>1. PageInv => RestartIsFresh
    <2>1. None \notin Ids
      BY PageAssumption DEF Ids
    <2> QED
      BY <2>1 DEF PageInv, PageTypes, Holding, RestartIsFresh
  <1> QED
    BY <1>1, PageInvariant, PTL

--------------------------------------------------------------------------------
(* CaughtUp. A log tells its lines in a row, and the extensions it tells   *)
(* are recorded (Histories); what a row, an answer or the page says of a   *)
(* session that m.live has, its log has told, but for what run is about to *)
(* tell (Backing, Grounded); a stream that has no more to read is of such  *)
(* a session, since the end of any other is still to come (Following); and *)
(* the page is the fold of the events that were read (Folded), whatever it *)
(* showed before the stream was opened.                                    *)

(* Which events a log has.                                                 *)
Has(h, n) == \E k \in DOMAIN h : h[k].name = n
Granted(h) == \E k \in DOMAIN h : h[k].name = "ttl" /\ h[k].val = TRUE

(* A log has its lines once each, in order and in a row.                   *)
Lined(h) ==
    \A k \in DOMAIN h : h[k].name = "log" =>
        \/ h[k].val = 1 /\ \A j \in 1 .. k - 1 : h[j].name # "log"
        \/ k > 1 /\ h[k - 1].name = "log" /\ h[k].val = h[k - 1].val + 1
Shape(h) ==
    /\ Lined(h)
    /\ \A k \in DOMAIN h : /\ h[k].name = "log" => h[k].val \in Nat \ {0}
                           /\ h[k].name = "terminal" => h[k].val = TRUE
                           /\ h[k].name = "ttl" => h[k].val \in BOOLEAN

(* What a session cannot have told before its run came to it, and what it  *)
(* has told by then. An extension that was told is in the record.          *)
Early(s) ==
    /\ stage[s] = "none" => rec[s] = NoRow /\ s \notin live /\ xcall[s] = "idle"
    /\ stage[s] \in {"none", "follow", "replay"} => ~Has(hist[s], "log")
    /\ stage[s] = "building" /\ Len(hist[s]) <= 1 => ~Has(hist[s], "log")
    /\ stage[s] \in {"none", "follow", "building", "replay", "starting", "exposed"} =>
           ~Has(hist[s], "ttl") /\ rec[s].status # "live"
    /\ stage[s] \in {"exposed", "announcing"} /\ s \in Web => Has(hist[s], "preview")
    /\ Granted(hist[s]) => rec[s].extended

Histories == live \subseteq Ids /\ \A s \in Ids : Shape(hist[s]) /\ Early(s)

(* What a row says of a session that is followed, its log has told, but    *)
(* for what run is about to tell.                                          *)
Backs(h, at, row) ==
    /\ row.web => Has(h, "preview")
    /\ row.ready => at = "announcing" \/ (Has(h, "terminal") /\ Has(h, "ttl"))
    /\ row.extended => Granted(h)

Backing ==
    /\ DOMAIN xcall = Ids
    /\ \A s \in live : Backs(hist[s], stage[s], rec[s]) /\ (xcall[s] = "granted" => Granted(hist[s]))
    /\ \A v \in Visits : call[v].pc = "ok" /\ call[v].got \in live =>
                            Backs(hist[call[v].got], stage[call[v].got], call[v].row)

(* So has it what the page shows.                                          *)
Grounded ==
    /\ activeId = None => misled \/ (page.expiry = None /\ ~page.extended)
    /\ activeId \in live =>
           /\ page.preview # None => Has(hist[activeId], "preview")
           /\ page.ready => Has(hist[activeId], "terminal") \/ stage[activeId] = "announcing"
           /\ misled \/ /\ page.expiry # None =>
                               Has(hist[activeId], "ttl") \/ stage[activeId] = "announcing"
                        /\ page.extended => Granted(hist[activeId])

(* A stream that is behind the end of a session that is gone has its end   *)
(* to come.                                                                *)
Following ==
    es.st = "open" =>
        IF es.follows
        THEN /\ es.cursor <= Len(hist[es.of])
             /\ es.of \notin live =>
                    \E k \in DOMAIN hist[es.of] : hist[es.of][k].name = "ended" /\ es.cursor < k
        ELSE es.of \notin live /\ \A k \in DOMAIN es.script : es.script[k].name \in {"log", "ended"}

(* The page is the fold of the first n events of h.                        *)
Before(h, n, names) == {k \in 1 .. n : h[k].name \in names}
Newest(h, n, names) == {k \in Before(h, n, names) : \A l \in Before(h, n, names) : l <= k}

FoldedLines(p, s, h, n) ==
    /\ Before(h, n, {"log"}) = {} => p.logs = <<>>
    /\ \A k \in Newest(h, n, {"log"}) : p.logs = LastLines(Log(s, h[k].val), MaxLogLines)
FoldedPhases(p, h, n) ==
    \A k \in Newest(h, n, {"phase", "preview"}) : p.status \in {h[k].val, "ended"}
FoldedRest(p, m, s, h, n) ==
    /\ Before(h, n, {"terminal"}) # {} => p.ready
    /\ Before(h, n, {"preview"}) # {} => p.preview # None \/ p.status = "ended"
    /\ m \/ Before(h, n, {"ttl"}) = {}
         \/ \E k \in Newest(h, n, {"ttl"}) : p.expiry = s /\ (h[k].val = TRUE => p.extended)

Folded ==
    es.st = "open" /\ es.follows =>
        /\ FoldedLines(page, es.of, hist[es.of], es.cursor)
        /\ FoldedPhases(page, hist[es.of], es.cursor)
        /\ FoldedRest(page, misled, es.of, hist[es.of], es.cursor)

(* What comes first stays first.                                           *)
Extends(h, g) == Len(h) <= Len(g) /\ \A k \in 1 .. Len(h) : g[k] = h[k]

(* The places of a concatenation.                                          *)
LEMMA Concats ==
    ASSUME NEW S, NEW h \in Seq(S), NEW q \in Seq(S)
    PROVE  /\ h \o q \in Seq(S) /\ Len(h) \in Nat /\ Len(q) \in Nat
           /\ Len(h \o q) = Len(h) + Len(q)
           /\ \A k \in 1 .. Len(h) : (h \o q)[k] = h[k]
           /\ \A k \in 1 .. Len(q) : (h \o q)[Len(h) + k] = q[k]
           /\ DOMAIN h = 1 .. Len(h) /\ DOMAIN q = 1 .. Len(q)
           /\ DOMAIN (h \o q) = 1 .. Len(h) + Len(q)
           /\ \A k \in Len(h) + 1 .. Len(h) + Len(q) : (h \o q)[k] = q[k - Len(h)]
  <1>1. Len(h) \in Nat /\ Len(q) \in Nat /\ DOMAIN h = 1 .. Len(h) /\ DOMAIN q = 1 .. Len(q)
    BY LenProperties
  <1> DEFINE c == h \o q
  <1>2. c \in Seq(S) /\ Len(c) = Len(h) + Len(q)
        /\ \A k \in 1 .. Len(c) : c[k] = IF k <= Len(h) THEN h[k] ELSE q[k - Len(h)]
    BY ConcatProperties
  <1>3. DOMAIN c = 1 .. Len(c)
    BY <1>2, LenProperties
  <1> HIDE DEF c
  <1>4. \A k \in 1 .. Len(h) : c[k] = h[k]
    BY ONLY <1>1, <1>2
  <1>5. \A k \in Len(h) + 1 .. Len(h) + Len(q) : c[k] = q[k - Len(h)]
    BY ONLY <1>1, <1>2
  <1>6. \A k \in 1 .. Len(q) : c[Len(h) + k] = q[k]
    <2> TAKE k \in 1 .. Len(q)
    <2>1. Len(h) + k \in Len(h) + 1 .. Len(h) + Len(q) /\ (Len(h) + k) - Len(h) = k
      BY ONLY <1>1
    <2> QED
      BY ONLY <1>5, <2>1
  <1> QED
    BY <1>1, <1>2, <1>3, <1>4, <1>5, <1>6 DEF c

(* An event that was told stays told.                                      *)
LEMMA HasGrows ==
    ASSUME NEW S, NEW h \in Seq(S), NEW g \in Seq(S), Extends(h, g)
    PROVE  /\ DOMAIN h \subseteq DOMAIN g /\ \A k \in DOMAIN h : g[k] = h[k]
           /\ \A n : Has(h, n) => Has(g, n)
           /\ Granted(h) => Granted(g)
           /\ \A r, at, to :
                  /\ Backs(h, at, r)
                  /\ at = "announcing" => to = "announcing" \/ (Has(g, "terminal") /\ Has(g, "ttl"))
                  => Backs(g, to, r)
  <1>1. DOMAIN h = 1 .. Len(h) /\ DOMAIN g = 1 .. Len(g) /\ Len(h) \in Nat /\ Len(g) \in Nat
    BY LenProperties
  <1>2. DOMAIN h \subseteq DOMAIN g /\ \A k \in DOMAIN h : g[k] = h[k]
    BY <1>1 DEF Extends
  <1>3. (\A n : Has(h, n) => Has(g, n)) /\ (Granted(h) => Granted(g))
    BY <1>2 DEF Has, Granted
  <1> QED
    BY <1>2, <1>3 DEF Backs

(* What a concatenation has, one of its parts has.                         *)
LEMMA HasConcat ==
    ASSUME NEW S, NEW h \in Seq(S), NEW q \in Seq(S)
    PROVE  /\ Extends(h, h \o q)
           /\ \A n : Has(h \o q, n) <=> Has(h, n) \/ Has(q, n)
           /\ Granted(h \o q) <=> Granted(h) \/ Granted(q)
  <1> DEFINE g == h \o q
  <1>1. /\ Len(h) \in Nat /\ Len(q) \in Nat /\ Len(g) = Len(h) + Len(q)
        /\ DOMAIN h = 1 .. Len(h) /\ DOMAIN q = 1 .. Len(q) /\ DOMAIN g = 1 .. Len(h) + Len(q)
        /\ \A k \in 1 .. Len(h) : g[k] = h[k]
        /\ \A k \in Len(h) + 1 .. Len(h) + Len(q) : g[k] = q[k - Len(h)]
        /\ \A k \in 1 .. Len(q) : g[Len(h) + k] = q[k]
    BY Concats
  <1> HIDE DEF g
  <1>2. Extends(h, g)
    BY <1>1 DEF Extends
  <1>3. \A k \in DOMAIN g : k \in DOMAIN h \/ (k \in Len(h) + 1 .. Len(h) + Len(q) /\ k - Len(h) \in DOMAIN q)
    BY <1>1
  <1>4. \A k \in DOMAIN g : (\E j \in DOMAIN h : h[j] = g[k]) \/ (\E j \in DOMAIN q : q[j] = g[k])
    BY <1>1, <1>3
  <1>5. \A k \in DOMAIN h : k \in DOMAIN g /\ g[k] = h[k]
    BY <1>1
  <1>6. \A k \in DOMAIN q : Len(h) + k \in DOMAIN g /\ g[Len(h) + k] = q[k]
    BY <1>1
  <1>7. \A n : Has(g, n) <=> Has(h, n) \/ Has(q, n)
    BY <1>4, <1>5, <1>6 DEF Has
  <1>8. Granted(g) <=> Granted(h) \/ Granted(q)
    BY <1>4, <1>5, <1>6 DEF Granted
  <1> QED
    BY <1>2, <1>7, <1>8 DEF g

(* Two parts that are well-formed make a whole that is, if only one has    *)
(* lines.                                                                  *)
LEMMA ShapeConcat ==
    ASSUME NEW S, NEW h \in Seq(S), NEW q \in Seq(S), Shape(h), Shape(q),
           ~Has(h, "log") \/ ~Has(q, "log")
    PROVE  Shape(h \o q)
  <1> DEFINE g == h \o q
             n == Len(h)
  <1>1. /\ n \in Nat /\ Len(q) \in Nat
        /\ DOMAIN h = 1 .. n /\ DOMAIN q = 1 .. Len(q) /\ DOMAIN g = 1 .. n + Len(q)
        /\ \A k \in 1 .. n : g[k] = h[k]
        /\ \A k \in n + 1 .. n + Len(q) : g[k] = q[k - n]
    BY Concats
  <1> HIDE DEF g, n
  <1>2. ASSUME NEW k \in DOMAIN g PROVE k \in 1 .. n \/ (k \in n + 1 .. n + Len(q) /\ k - n \in DOMAIN q)
    BY <1>1
  <1>3. Lined(g)
    <2> SUFFICES ASSUME NEW k \in DOMAIN g, g[k].name = "log"
                 PROVE  \/ g[k].val = 1 /\ \A j \in 1 .. k - 1 : g[j].name # "log"
                        \/ k > 1 /\ g[k - 1].name = "log" /\ g[k].val = g[k - 1].val + 1
      BY DEF Lined
    <2>1. CASE k \in 1 .. n
      <3>1. \/ h[k].val = 1 /\ \A j \in 1 .. k - 1 : h[j].name # "log"
            \/ k > 1 /\ h[k - 1].name = "log" /\ h[k].val = h[k - 1].val + 1
        BY <1>1, <2>1 DEF Shape, Lined
      <3>2. g[k] = h[k] /\ \A j \in 1 .. k - 1 : g[j] = h[j]
        BY <1>1, <2>1
      <3>3. k > 1 => g[k - 1] = h[k - 1]
        BY <1>1, <2>1
      <3> QED
        BY <3>1, <3>2, <3>3
    <2>2. CASE k \in n + 1 .. n + Len(q) /\ k - n \in DOMAIN q
      <3> DEFINE i == k - n
      <3>1. i \in 1 .. Len(q) /\ g[k] = q[i] /\ Has(q, "log")
        BY <1>1, <2>2 DEF Has
      <3>2. \/ q[i].val = 1 /\ \A j \in 1 .. i - 1 : q[j].name # "log"
            \/ i > 1 /\ q[i - 1].name = "log" /\ q[i].val = q[i - 1].val + 1
        BY <1>1, <3>1 DEF Shape, Lined
      <3>3. CASE q[i].val = 1 /\ \A j \in 1 .. i - 1 : q[j].name # "log"
        <4>1. ASSUME NEW j \in 1 .. k - 1 PROVE g[j].name # "log"
          <5>1. CASE j \in 1 .. n
            BY <1>1, <3>1, <5>1 DEF Has
          <5>2. CASE j > n
            <6>1. j \in n + 1 .. n + Len(q) /\ j - n \in 1 .. i - 1
              BY <1>1, <2>2, <5>2
            <6> QED
              BY <1>1, <3>3, <6>1
          <5> QED
            BY <1>1, <2>2, <5>1, <5>2
        <4> QED
          BY <3>1, <3>3, <4>1
      <3>4. CASE i > 1 /\ q[i - 1].name = "log" /\ q[i].val = q[i - 1].val + 1
        <4>1. k - 1 \in n + 1 .. n + Len(q) /\ (k - 1) - n = i - 1 /\ k > 1
          BY <1>1, <2>2, <3>4
        <4>2. g[k - 1] = q[i - 1]
          BY <1>1, <4>1
        <4> QED
          BY <3>1, <3>4, <4>1, <4>2
      <3> QED
        BY <3>2, <3>3, <3>4
    <2> QED
      BY <1>2, <2>1, <2>2
  <1>4. ASSUME NEW k \in DOMAIN g
        PROVE  /\ g[k].name = "log" => g[k].val \in Nat \ {0}
               /\ g[k].name = "terminal" => g[k].val = TRUE
               /\ g[k].name = "ttl" => g[k].val \in BOOLEAN
    BY <1>1, <1>2, <1>4 DEF Shape
  <1> QED
    BY <1>3, <1>4 DEF Shape, g

(* The lines of a build, as they are logged.                               *)
LEMMA ShapeOfLog ==
    ASSUME NEW s \in Ids, NEW n \in Nat
    PROVE  /\ Shape(Log(s, n)) /\ ~Has(Log(s, n), "ttl")
           /\ Len(Log(s, n)) = n /\ DOMAIN Log(s, n) = 1 .. n
           /\ \A i \in 1 .. n : Log(s, n)[i] = Event("log", s, i)
           /\ \A m : m # "log" => ~Has(Log(s, n), m)
  <1> DEFINE q == Log(s, n)
  <1>1. DOMAIN q = 1 .. n /\ \A i \in 1 .. n : q[i] = Event("log", s, i)
    BY DEF Log
  <1>2. \A i \in 1 .. n : Event("log", s, i).name = "log" /\ Event("log", s, i).val = i
    BY DEF Event
  <1>3. q \in Seq(Tagged(s))
    BY LogsAreTagged
  <1> HIDE DEF q
  <1>4. Len(q) = n
    BY <1>1, <1>3, LenProperties
  <1>5. \A i \in 1 .. n : q[i].name = "log" /\ q[i].val = i
    BY <1>1, <1>2
  <1>6. Lined(q)
    BY <1>1, <1>5 DEF Lined
  <1>7. Shape(q) /\ \A m : m # "log" => ~Has(q, m)
    BY <1>1, <1>5, <1>6 DEF Shape, Has
  <1> QED
    BY <1>1, <1>4, <1>7 DEF q

(* One event other than a line.                                            *)
LEMMA ShapeOfOne ==
    ASSUME NEW q, DOMAIN q = {1}, q[1].name \in {"phase", "preview", "ended", "ttl"},
           q[1].name = "ttl" => q[1].val \in BOOLEAN
    PROVE  /\ Shape(q) /\ ~Has(q, "log") /\ Has(q, q[1].name)
           /\ q[1].name # "ttl" => ~Has(q, "ttl")
           /\ q[1].name = "ttl" /\ q[1].val = TRUE => Granted(q)
  <1>1. Shape(q)
    <2>1. Lined(q)
      BY DEF Lined
    <2> QED
      BY <2>1 DEF Shape
  <1> QED
    BY <1>1 DEF Has, Granted

(* A sequence of one event.                                                *)
LEMMA OneEvent == ASSUME NEW S, NEW e \in S
                  PROVE  <<e>> \in Seq(S) /\ Len(<<e>>) = 1 /\ DOMAIN <<e>> = {1} /\ <<e>>[1] = e
  OBVIOUS

(* What Announce tells.                                                    *)
LEMMA ShapeOfLive ==
    ASSUME NEW s \in Ids
    PROVE  LET q == <<Event("terminal", s, TRUE), Event("ttl", s, FALSE), Event("phase", s, "live")>> IN
           /\ Shape(q) /\ ~Has(q, "log") /\ Has(q, "terminal") /\ Has(q, "ttl") /\ ~Granted(q)
           /\ q \in Seq(Tagged(s))
  <1> DEFINE q == <<Event("terminal", s, TRUE), Event("ttl", s, FALSE), Event("phase", s, "live")>>
  <1>1. /\ DOMAIN q = 1 .. 3
        /\ q[1] = Event("terminal", s, TRUE) /\ q[2] = Event("ttl", s, FALSE)
        /\ q[3] = Event("phase", s, "live")
    OBVIOUS
  <1>2. \A k \in 1 .. 3 : k = 1 \/ k = 2 \/ k = 3
    OBVIOUS
  <1> HIDE DEF q
  <1>3. /\ q[1].name = "terminal" /\ q[1].val = TRUE /\ q[2].name = "ttl" /\ q[2].val = FALSE
        /\ q[3].name = "phase"
    BY <1>1 DEF Event
  <1>4. Shape(q)
    <2>1. Lined(q)
      BY <1>1, <1>2, <1>3 DEF Lined
    <2>3. ASSUME NEW k \in DOMAIN q
          PROVE  /\ q[k].name = "log" => q[k].val \in Nat \ {0}
                 /\ q[k].name = "terminal" => q[k].val = TRUE
                 /\ q[k].name = "ttl" => q[k].val \in BOOLEAN
      BY <1>1, <1>2, <1>3
    <2> QED
      BY <2>1, <2>3 DEF Shape
  <1>5. Has(q, "terminal") /\ Has(q, "ttl")
    <2>1. 1 \in DOMAIN q /\ 2 \in DOMAIN q
      BY <1>1
    <2> QED
      BY <1>3, <2>1 DEF Has
  <1>6. ~Has(q, "log") /\ ~Granted(q)
    BY <1>1, <1>2, <1>3 DEF Has, Granted
  <1>7. q \in Seq(Tagged(s))
    BY Bursts DEF q
  <1> QED
    BY <1>4, <1>5, <1>6, <1>7 DEF q

(* What each step of run and of a handler tells (session.go's hub).        *)
LEMMA PhaseTells ==
    ASSUME NEW s \in Ids, NEW l \in {"building", "starting", "live"}
    PROVE  LET q == <<Event("phase", s, l)>> IN
           Shape(q) /\ ~Has(q, "log") /\ ~Has(q, "ttl")
  <1> DEFINE e == Event("phase", s, l)   q == <<e>>
  <1>1. e.name = "phase" /\ e \in Tagged(s)
    BY EventsAreTagged DEF Event
  <1> HIDE DEF e
  <1>2. DOMAIN q = {1} /\ q[1] = e
    BY <1>1, OneEvent
  <1> HIDE DEF q
  <1>3. Shape(q) /\ ~Has(q, "log") /\ ~Has(q, "ttl")
    BY <1>1, <1>2, ShapeOfOne
  <1> QED
    BY <1>3 DEF e, q

(* follow tells the phase and the lines so far.                            *)
LEMMA FollowTells ==
    ASSUME NEW s \in Ids, NEW n \in Nat
    PROVE  LET q == <<Event("phase", s, "building")>> \o Log(s, n) IN
           /\ q \in Seq(Tagged(s)) /\ Shape(q) /\ ~Has(q, "ttl")
           /\ Len(q) = n + 1 /\ (Has(q, "log") => n > 0)
  <1> DEFINE a == <<Event("phase", s, "building")>>   b == Log(s, n)   q == a \o b
  <1>1. a \in Seq(Tagged(s)) /\ b \in Seq(Tagged(s)) /\ q \in Seq(Tagged(s)) /\ Len(a) = 1
    <2>1. \A e \in Tagged(s) : <<e>> \in Seq(Tagged(s)) /\ Len(<<e>>) = 1
      OBVIOUS
    <2>2. a \in Seq(Tagged(s)) /\ Len(a) = 1
      BY <2>1, EventsAreTagged
    <2>3. b \in Seq(Tagged(s))
      BY LogsAreTagged
    <2> HIDE DEF a, b
    <2> QED
      BY <2>2, <2>3, ConcatProperties
  <1>2. Shape(a) /\ ~Has(a, "log") /\ ~Has(a, "ttl")
    BY PhaseTells
  <1>3. Shape(b) /\ ~Has(b, "ttl") /\ Len(b) = n /\ DOMAIN b = 1 .. n
    BY ShapeOfLog
  <1> HIDE DEF a, b, q
  <1>4. Shape(q)
    BY <1>1, <1>2, <1>3, ShapeConcat DEF q
  <1>5. ~Has(q, "ttl") /\ (Has(q, "log") => Has(b, "log"))
    BY <1>1, <1>2, <1>3, HasConcat DEF q
  <1>6. Has(b, "log") => n > 0
    BY <1>3 DEF Has
  <1>7. Len(q) = n + 1
    BY SMTT(30), <1>1, <1>3, ConcatProperties DEF q
  <1> QED
    BY <1>1, <1>4, <1>5, <1>6, <1>7 DEF q, a, b

(* The stored lines come with the phase, or not at all.                    *)
LEMMA MarkStartingTells ==
    ASSUME NEW s \in Ids, NEW b, b = Log(s, Lines) \/ b = <<>>
    PROVE  LET q == b \o <<Event("phase", s, "starting")>> IN
           /\ q \in Seq(Tagged(s)) /\ Shape(q) /\ ~Has(q, "ttl")
           /\ b = <<>> => ~Has(q, "log")
  <1> DEFINE a == <<Event("phase", s, "starting")>>   q == b \o a
  <1>1. b \in Seq(Tagged(s)) /\ Shape(b) /\ ~Has(b, "ttl") /\ (b = <<>> => ~Has(b, "log"))
    <2>1. Lines \in Nat
      BY PageAssumption
    <2>2. CASE b = Log(s, Lines)
      <3>1. Log(s, Lines) = <<>> => ~Has(Log(s, Lines), "log")
        <4>1. DOMAIN <<>> = {}
          OBVIOUS
        <4> QED
          BY <4>1 DEF Has
      <3> QED
        BY <2>1, <2>2, <3>1, ShapeOfLog, LogsAreTagged
    <2>3. CASE b = <<>>
      <3>1. DOMAIN b = {} /\ b \in Seq(Tagged(s))
        BY <2>3
      <3>2. Lined(b)
        BY <3>1 DEF Lined
      <3> QED
        BY <3>1, <3>2 DEF Shape, Has
    <2> QED
      BY <2>2, <2>3
  <1>2. Shape(a) /\ ~Has(a, "log") /\ ~Has(a, "ttl")
    BY PhaseTells
  <1>3. a \in Seq(Tagged(s)) /\ q \in Seq(Tagged(s))
    <2>1. \A e \in Tagged(s) : <<e>> \in Seq(Tagged(s))
      OBVIOUS
    <2>2. a \in Seq(Tagged(s))
      BY <2>1, EventsAreTagged
    <2> HIDE DEF a
    <2> QED
      BY <1>1, <2>2, ConcatProperties
  <1> HIDE DEF a, q
  <1>4. Shape(q)
    BY <1>1, <1>2, <1>3, ShapeConcat DEF q
  <1>5. ~Has(q, "ttl") /\ (Has(q, "log") => Has(b, "log"))
    BY <1>1, <1>2, <1>3, HasConcat DEF q
  <1> QED
    BY <1>1, <1>3, <1>4, <1>5 DEF q, a

(* A session whose port is exposed has told its preview.                   *)
LEMMA ExposeTells ==
    ASSUME NEW s \in Ids
    PROVE  LET q == IF s \in Web THEN <<Event("preview", s, "live")>> ELSE <<>> IN
           /\ q \in Seq(Tagged(s)) /\ Shape(q) /\ ~Has(q, "log") /\ ~Has(q, "ttl")
           /\ s \in Web => Has(q, "preview")
  <1> DEFINE q == IF s \in Web THEN <<Event("preview", s, "live")>> ELSE <<>>
  <1>1. CASE s \in Web
    <2> DEFINE e == Event("preview", s, "live")
    <2>1. e.name = "preview" /\ e \in Tagged(s)
      BY EventsAreTagged DEF Event
    <2>2. q = <<e>>
      BY <1>1
    <2> HIDE DEF e
    <2>3. q \in Seq(Tagged(s)) /\ DOMAIN q = {1} /\ q[1] = e
      BY <2>1, <2>2, OneEvent
    <2> HIDE DEF q
    <2>4. Shape(q) /\ ~Has(q, "log") /\ ~Has(q, "ttl") /\ Has(q, "preview")
      BY <2>1, <2>3, ShapeOfOne
    <2> QED
      BY <2>3, <2>4 DEF q
  <1>2. CASE s \notin Web
    <2>1. DOMAIN q = {} /\ q \in Seq(Tagged(s))
      BY <1>2
    <2> HIDE DEF q
    <2>2. Lined(q)
      BY <2>1 DEF Lined
    <2>3. Shape(q) /\ ~Has(q, "log") /\ ~Has(q, "ttl")
      BY <2>1, <2>2 DEF Shape, Has
    <2> QED
      BY <1>2, <2>1, <2>3 DEF q
  <1> QED
    BY <1>1, <1>2

(* An end tells no line and no expiry.                                     *)
LEMMA EndTells ==
    ASSUME NEW s \in Ids
    PROVE  LET q == <<Event("ended", s, None)>> IN
           /\ q \in Seq(Tagged(s)) /\ Shape(q) /\ ~Has(q, "log") /\ ~Has(q, "ttl")
           /\ Len(q) = 1 /\ q[1].name = "ended"
  <1> DEFINE e == Event("ended", s, None)   q == <<e>>
  <1>1. e.name = "ended" /\ e \in Tagged(s)
    BY EventsAreTagged DEF Event
  <1> HIDE DEF e
  <1>2. q \in Seq(Tagged(s)) /\ Len(q) = 1 /\ DOMAIN q = {1} /\ q[1] = e
    BY <1>1, OneEvent
  <1> HIDE DEF q
  <1>3. Shape(q) /\ ~Has(q, "log") /\ ~Has(q, "ttl")
    BY <1>1, <1>2, ShapeOfOne
  <1>4. q[1].name = "ended"
    BY <1>1, <1>2
  <1> QED
    BY <1>2, <1>3, <1>4 DEF e, q

(* An extension is told as one.                                            *)
LEMMA ExtendTells ==
    ASSUME NEW s \in Ids
    PROVE  LET q == <<Event("ttl", s, TRUE)>> IN
           q \in Seq(Tagged(s)) /\ Shape(q) /\ ~Has(q, "log") /\ Granted(q)
  <1> DEFINE e == Event("ttl", s, TRUE)   q == <<e>>
  <1>1. e.name = "ttl" /\ e.val = TRUE /\ e \in Tagged(s)
    BY EventsAreTagged DEF Event
  <1> HIDE DEF e
  <1>2. q \in Seq(Tagged(s)) /\ DOMAIN q = {1} /\ q[1] = e
    BY <1>1, OneEvent
  <1> HIDE DEF q
  <1>3. Shape(q) /\ ~Has(q, "log") /\ Granted(q)
    BY <1>1, <1>2, ShapeOfOne
  <1> QED
    BY <1>2, <1>3 DEF e, q

(* What a step adds to the log of a session, and to no other.              *)
LEMMA Emitted ==
    ASSUME Tagging, Histories, NEW s \in Ids, NEW q \in Seq(Tagged(s)), Emit(s, q), Shape(q),
           ~Has(hist[s], "log") \/ ~Has(q, "log")
    PROVE  /\ \A r \in Ids : Shape(hist'[r]) /\ Extends(hist[r], hist'[r])
           /\ \A r \in Ids : r # s => hist'[r] = hist[r]
           /\ hist'[s] = hist[s] \o q
           /\ Len(hist[s]) \in Nat /\ Len(q) \in Nat /\ Len(hist'[s]) = Len(hist[s]) + Len(q)
           /\ \A n : Has(hist'[s], n) <=> Has(hist[s], n) \/ Has(q, n)
           /\ Granted(hist'[s]) <=> Granted(hist[s]) \/ Granted(q)
           /\ \A k \in 1 .. Len(q) : Len(hist[s]) + k \in DOMAIN hist'[s]
                                     /\ hist'[s][Len(hist[s]) + k] = q[k]
  <1>1. /\ DOMAIN hist = Ids /\ \A r \in Ids : hist[r] \in Seq(Tagged(r))
        /\ \A r \in Ids : Shape(hist[r])
    BY DEF Tagging, Histories
  <1>2. hist'[s] = hist[s] \o q /\ \A r \in Ids : r # s => hist'[r] = hist[r]
    BY <1>1 DEF Emit
  <1>3. Shape(hist[s] \o q)
    BY <1>1, ShapeConcat
  <1>4. \A r \in Ids : Extends(hist[r], hist[r])
    <2> TAKE r \in Ids
    <2>1. Len(hist[r]) \in Nat
      BY <1>1, LenProperties
    <2> QED
      BY <2>1 DEF Extends
  <1>5. /\ Extends(hist[s], hist[s] \o q)
        /\ \A n : Has(hist[s] \o q, n) <=> Has(hist[s], n) \/ Has(q, n)
        /\ Granted(hist[s] \o q) <=> Granted(hist[s]) \/ Granted(q)
    BY <1>1, HasConcat
  <1>6. /\ Len(hist[s]) \in Nat /\ Len(q) \in Nat /\ Len(hist[s] \o q) = Len(hist[s]) + Len(q)
        /\ \A k \in 1 .. Len(q) : (hist[s] \o q)[Len(hist[s]) + k] = q[k]
        /\ DOMAIN (hist[s] \o q) = 1 .. Len(hist[s]) + Len(q)
    BY <1>1, Concats
  <1>7. \A k \in 1 .. Len(q) : Len(hist[s]) + k \in 1 .. Len(hist[s]) + Len(q)
    BY <1>6
  <1>8. \A r \in Ids : Shape(hist'[r]) /\ Extends(hist[r], hist'[r])
    BY <1>1, <1>2, <1>3, <1>4, <1>5
  <1>9. \A k \in 1 .. Len(q) : Len(hist[s]) + k \in DOMAIN hist'[s]
                               /\ hist'[s][Len(hist[s]) + k] = q[k]
    BY <1>2, <1>6, <1>7
  <1> QED
    BY <1>2, <1>5, <1>6, <1>8, <1>9

(* What a step that leaves the stage alone must leave alone.               *)
LEMMA EarlyKept ==
    ASSUME NEW r \in Ids, Early(r), stage'[r] = stage[r],
           Len(hist[r]) \in Nat, Len(hist'[r]) \in Nat, Len(hist[r]) <= Len(hist'[r]),
           Has(hist'[r], "log") => Has(hist[r], "log"),
           Has(hist'[r], "ttl") => Has(hist[r], "ttl") \/ rec[r].status = "live",
           Has(hist[r], "preview") => Has(hist'[r], "preview"),
           Granted(hist'[r]) => rec'[r].extended,
           rec'[r].status = "live" => rec[r].status = "live",
           stage[r] = "none" => rec'[r] = rec[r] /\ r \notin live' /\ xcall'[r] = "idle"
    PROVE  Early(r)'
  BY DEF Early

(* The logs of a step that is no restart of the server.                    *)
Grows ==
    /\ \A s \in Ids : Extends(hist[s], hist'[s])
    /\ \A s \in live' : s \in live \/ stage[s] = "none"
    /\ \A s \in live : s \in live' \/ \E k \in DOMAIN hist'[s] :
                                         hist'[s][k].name = "ended" /\ Len(hist[s]) < k
    /\ \A s \in live : stage[s] = "announcing" => stage'[s] = "announcing"
                           \/ (Has(hist'[s], "terminal") /\ Has(hist'[s], "ttl"))

(* A log without an expiry tells no extension.                             *)
LEMMA NoExtension == ASSUME NEW h, ~Has(h, "ttl") PROVE ~Granted(h)
  BY DEF Has, Granted

(* Logs stay in order, and only grow unless the server restarts.           *)
LEMMA HistoriesKept ==
    ASSUME PageTypes, Tagging, Registered, Holding, Histories, [Next]_vars
    PROVE  Histories' /\ (Grows \/ Crash)
  <1> DEFINE Kept == Histories' /\ (Grows \/ Crash)
  <1>a. /\ DOMAIN hist = Ids /\ \A r \in Ids : hist[r] \in Seq(Tagged(r)) /\ Len(hist[r]) \in Nat
        /\ \A r \in Ids : Shape(hist[r]) /\ Early(r)
        /\ live \subseteq Ids
    <2>1. \A r \in Ids : hist[r] \in Seq(Tagged(r))
      BY DEF Tagging
    <2>2. \A r \in Ids : Len(hist[r]) \in Nat
      BY <2>1, LenProperties
    <2> QED
      BY <2>1, <2>2 DEF Tagging, Histories
  <1>b. \A r \in Ids : Extends(hist[r], hist[r])
    BY <1>a DEF Extends
  <1>c. (DOMAIN hist = Ids /\ \A r \in Ids : hist[r] \in Seq(Tagged(r)))'
    BY LogsKept
  <1>d. \A r \in Ids : Len(hist'[r]) \in Nat
    BY <1>c, LenProperties
  (* A step that tells s something and leaves m.live alone.                *)
  <1>e. ASSUME NEW s \in Ids, \A r \in Ids : r # s => Early(r)', Early(s)',
               \A r \in Ids : Shape(hist'[r]) /\ Extends(hist[r], hist'[r]), UNCHANGED live,
               \A r \in Ids : r # s => stage'[r] = stage[r],
               stage[s] = "announcing" => stage'[s] = "announcing"
                   \/ (Has(hist'[s], "terminal") /\ Has(hist'[s], "ttl"))
        PROVE  Kept
    BY <1>a, <1>e DEF Histories, Grows
  (* The other sessions do not notice.                                     *)
  <1>f. ASSUME NEW s \in Ids, NEW r \in Ids, r # s, stage'[r] = stage[r], rec'[r] = rec[r],
               hist'[r] = hist[r], xcall'[r] = xcall[r], live' \subseteq live
        PROVE  Early(r)'
    BY <1>a, <1>f DEF Early
  (* Nor does any, if the server and the answers to extend stay.           *)
  <1>g. ASSUME UNCHANGED server, \A r \in Ids : stage[r] = "none" => xcall'[r] = "idle"
        PROVE  Kept
    <2>1. \A r \in Ids : Early(r)'
      BY <1>a, <1>g DEF Early, server
    <2> QED
      BY <1>a, <1>b, <1>g, <2>1 DEF Histories, Grows, server
  <1>1. ASSUME NEW s \in Ids, Follow(s), UNCHANGED xcall
        PROVE  Kept
    <2>1. PICK n \in {1, Lines} : Emit(s, <<Event("phase", s, "building")>> \o Log(s, n))
      BY <1>1 DEF Follow
    <2> DEFINE q == <<Event("phase", s, "building")>> \o Log(s, n)
    <2>2. n \in Nat
      BY PageAssumption
    <2>3. /\ q \in Seq(Tagged(s)) /\ Shape(q) /\ ~Has(q, "ttl")
          /\ Len(q) = n + 1 /\ (Has(q, "log") => n > 0)
      BY <2>2, FollowTells
    <2>4. stage[s] = "follow" /\ ~Has(hist[s], "log") /\ ~Has(hist[s], "ttl")
          /\ rec[s].status # "live"
      BY <1>1, <1>a DEF Follow, Early
    <2> HIDE DEF q
    <2>5. Emit(s, q)
      BY <2>1 DEF q
    <2>6. /\ \A r \in Ids : Shape(hist'[r]) /\ Extends(hist[r], hist'[r])
          /\ \A r \in Ids : r # s => hist'[r] = hist[r]
          /\ Len(hist'[s]) = Len(hist[s]) + Len(q)
          /\ \A m : Has(hist'[s], m) <=> Has(hist[s], m) \/ Has(q, m)
      BY <2>3, <2>4, <2>5, Emitted
    <2>7. stage' = [stage EXCEPT ![s] = "building"] /\ UNCHANGED <<rec, live>>
      BY <1>1 DEF Follow
    <2>8. Early(s)'
      <3>1. Len(hist'[s]) <= 1 => ~Has(q, "log")
        BY <1>a, <2>2, <2>3, <2>6
      <3>2. ~Granted(hist'[s])
        BY <2>3, <2>4, <2>6, NoExtension
      <3> QED
        BY <2>3, <2>4, <2>6, <2>7, <3>1, <3>2 DEF Early, PageTypes
    <2>9. \A r \in Ids : r # s => Early(r)'
      BY <1>1, <1>f, <2>6, <2>7 DEF PageTypes
    <2> QED
      BY <1>e, <2>4, <2>6, <2>7, <2>8, <2>9 DEF PageTypes
  <1>2. ASSUME NEW s \in Ids, MarkStarting(s), UNCHANGED xcall
        PROVE  Kept
    <2> DEFINE b == IF Len(hist[s]) <= 1 THEN Log(s, Lines) ELSE <<>>
               q == b \o <<Event("phase", s, "starting")>>
    <2>1. Emit(s, q)
      BY <1>2 DEF MarkStarting
    <2>2. /\ q \in Seq(Tagged(s)) /\ Shape(q) /\ ~Has(q, "ttl")
          /\ (b = <<>> => ~Has(q, "log"))
      BY MarkStartingTells
    <2>3. /\ stage[s] \in {"building", "replay"} /\ ~Has(hist[s], "ttl")
          /\ (Len(hist[s]) <= 1 => ~Has(hist[s], "log"))
          /\ stage' = [stage EXCEPT ![s] = "starting"] /\ UNCHANGED live
          /\ rec' = [rec EXCEPT ![s] = [NoRow EXCEPT !.status = "starting"]]
          /\ stage[s] = "replay" => ~Has(hist[s], "log")
      BY <1>2, <1>a DEF MarkStarting, Early
    <2>4. ~Has(hist[s], "log") \/ ~Has(q, "log")
      BY <2>2, <2>3
    <2> HIDE DEF q, b
    <2>5. /\ \A r \in Ids : Shape(hist'[r]) /\ Extends(hist[r], hist'[r])
          /\ \A r \in Ids : r # s => hist'[r] = hist[r]
          /\ \A m : Has(hist'[s], m) <=> Has(hist[s], m) \/ Has(q, m)
      BY <2>1, <2>2, <2>3, <2>4, Emitted
    <2>6. Early(s)'
      <3>1. rec'[s].status = "starting" /\ stage'[s] = "starting"
        BY <2>3 DEF PageTypes, NoRow
      <3>2. ~Granted(hist'[s])
        BY <2>2, <2>3, <2>5, NoExtension
      <3> QED
        BY <2>2, <2>3, <2>5, <3>1, <3>2 DEF Early
    <2>7. \A r \in Ids : r # s => Early(r)'
      BY <1>2, <1>f, <2>3, <2>5 DEF PageTypes
    <2> QED
      BY <1>e, <2>3, <2>5, <2>6, <2>7 DEF PageTypes
  <1>3. ASSUME NEW s \in Ids, ExposePort(s), UNCHANGED xcall
        PROVE  Kept
    <2> DEFINE q == IF s \in Web THEN <<Event("preview", s, "live")>> ELSE <<>>
    <2>1. Emit(s, q)
      BY <1>3 DEF ExposePort
    <2>2. /\ q \in Seq(Tagged(s)) /\ Shape(q) /\ ~Has(q, "log") /\ ~Has(q, "ttl")
          /\ (s \in Web => Has(q, "preview"))
      BY ExposeTells
    <2>3. /\ stage[s] = "starting" /\ ~Has(hist[s], "ttl") /\ rec[s].status # "live"
          /\ stage' = [stage EXCEPT ![s] = "exposed"] /\ UNCHANGED <<rec, live>>
      BY <1>3, <1>a DEF ExposePort, Early
    <2> HIDE DEF q
    <2>4. /\ \A r \in Ids : Shape(hist'[r]) /\ Extends(hist[r], hist'[r])
          /\ \A r \in Ids : r # s => hist'[r] = hist[r]
          /\ \A m : Has(hist'[s], m) <=> Has(hist[s], m) \/ Has(q, m)
      BY <2>1, <2>2, Emitted
    <2>5. Early(s)'
      <3>1. stage'[s] = "exposed"
        BY <2>3 DEF PageTypes
      <3>2. ~Has(hist'[s], "ttl") /\ ~Granted(hist'[s])
        BY <2>2, <2>3, <2>4, NoExtension
      <3> QED
        BY <2>2, <2>3, <2>4, <3>1, <3>2 DEF Early
    <2>6. \A r \in Ids : r # s => Early(r)'
      BY <1>3, <1>f, <2>3, <2>4 DEF PageTypes
    <2> QED
      BY <1>e, <2>3, <2>4, <2>5, <2>6 DEF PageTypes
  <1>24. ASSUME NEW s \in Ids, GoLive(s), UNCHANGED xcall
         PROVE  Kept
    <2>1. /\ stage[s] = "exposed" /\ ~Has(hist[s], "ttl") /\ (s \in Web => Has(hist[s], "preview"))
          /\ stage' = [stage EXCEPT ![s] = "announcing"] /\ UNCHANGED <<hist, live>>
      BY <1>24, <1>a DEF GoLive, Early
    <2>2. \A r \in Ids : r # s => rec'[r] = rec[r] /\ stage'[r] = stage[r]
      BY <1>24 DEF GoLive, PageTypes
    <2>3. Early(s)'
      <3>1. stage'[s] = "announcing"
        BY <2>1 DEF PageTypes
      <3>2. ~Granted(hist[s])
        BY <2>1, NoExtension
      <3> QED
        BY <2>1, <3>1, <3>2 DEF Early
    <2>4. \A r \in Ids : r # s => Early(r)'
      BY <1>24, <1>f, <2>1, <2>2
    <2> QED
      BY <1>a, <1>b, <1>e, <2>1, <2>2, <2>3, <2>4
  <1>25. ASSUME NEW s \in Ids, Announce(s), UNCHANGED xcall
         PROVE  Kept
    <2> DEFINE q == <<Event("terminal", s, TRUE), Event("ttl", s, FALSE), Event("phase", s, "live")>>
    <2>1. Emit(s, q)
      BY <1>25 DEF Announce
    <2>2. /\ q \in Seq(Tagged(s)) /\ Shape(q) /\ ~Has(q, "log") /\ ~Granted(q)
          /\ Has(q, "terminal") /\ Has(q, "ttl")
      BY ShapeOfLive
    <2>3. stage' = [stage EXCEPT ![s] = "live"] /\ UNCHANGED <<rec, live>>
      BY <1>25 DEF Announce
    <2> HIDE DEF q
    <2>4. /\ \A r \in Ids : Shape(hist'[r]) /\ Extends(hist[r], hist'[r])
          /\ \A r \in Ids : r # s => hist'[r] = hist[r]
          /\ Has(hist'[s], "terminal") /\ Has(hist'[s], "ttl")
          /\ Granted(hist'[s]) <=> Granted(hist[s])
      BY <2>1, <2>2, Emitted
    <2>5. Early(s)'
      <3>1. stage'[s] = "live"
        BY <2>3 DEF PageTypes
      <3>2. Granted(hist'[s]) => rec'[s].extended
        BY <1>a, <2>3, <2>4 DEF Early
      <3> QED
        BY <3>1, <3>2 DEF Early
    <2>6. \A r \in Ids : r # s => Early(r)'
      BY <1>25, <1>f, <2>3, <2>4 DEF PageTypes
    <2> QED
      BY <1>e, <2>3, <2>4, <2>5, <2>6 DEF PageTypes
  <1>4. ASSUME NEW s \in Ids, EndRecord(s), UNCHANGED xcall
        PROVE  Kept
    <2>1. /\ stage'[s] \in {"ending", "over"} /\ UNCHANGED <<hist, live>>
          /\ \A r \in Ids : r # s => stage'[r] = stage[r] /\ rec'[r] = rec[r]
          /\ stage[s] # "announcing"
      BY <1>4 DEF EndRecord, PageTypes, Working
    <2>4. rec'[s].extended = rec[s].extended
      BY <1>4 DEF EndRecord, PageTypes, Rows
    <2>2. Early(s)'
      BY <1>a, <2>1, <2>4 DEF Early
    <2>3. \A r \in Ids : r # s => Early(r)'
      BY <1>4, <1>f, <2>1
    <2> QED
      BY <1>a, <1>b, <1>e, <2>1, <2>2, <2>3
  (* Of a session that is told, and taken out of m.live.                   *)
  <1>5. ASSUME NEW s \in Ids, Emit(s, <<Event("ended", s, None)>>), live' = live \ {s},
               UNCHANGED <<xcall, rec>>, \A r \in Ids : r # s => stage'[r] = stage[r],
               stage'[s] \in {stage[s], "over"}, stage[s] = "announcing" => stage'[s] = stage[s]
        PROVE  Kept
    <2> DEFINE q == <<Event("ended", s, None)>>
    <2>1. /\ q \in Seq(Tagged(s)) /\ Shape(q) /\ ~Has(q, "log") /\ ~Has(q, "ttl")
          /\ Len(q) = 1 /\ q[1].name = "ended" /\ Emit(s, q)
      BY <1>5, EndTells
    <2> HIDE DEF q
    <2>2. /\ \A r \in Ids : Shape(hist'[r]) /\ Extends(hist[r], hist'[r])
          /\ \A r \in Ids : r # s => hist'[r] = hist[r]
          /\ Len(hist'[s]) = Len(hist[s]) + Len(q)
          /\ \A m : Has(hist'[s], m) <=> Has(hist[s], m) \/ Has(q, m)
          /\ Granted(hist'[s]) <=> Granted(hist[s]) \/ Granted(q)
          /\ \A k \in 1 .. Len(q) : Len(hist[s]) + k \in DOMAIN hist'[s]
                                    /\ hist'[s][Len(hist[s]) + k] = q[k]
      BY <2>1, Emitted
    <2>3. Len(hist[s]) + 1 \in DOMAIN hist'[s] /\ hist'[s][Len(hist[s]) + 1].name = "ended"
          /\ Len(hist[s]) < Len(hist[s]) + 1
      BY <1>a, <2>1, <2>2
    <2>4. Early(s)'
      <3>3. Granted(hist'[s]) => rec'[s].extended
        <4>1. ~Granted(q)
          BY <2>1, NoExtension
        <4> QED
          BY <1>5, <1>a, <2>2, <4>1 DEF Early
      <3>1. CASE stage'[s] = stage[s]
        <4>1. Has(hist'[s], "log") => Has(hist[s], "log")
          BY <2>1, <2>2
        <4>2. Has(hist'[s], "ttl") => Has(hist[s], "ttl")
          BY <2>1, <2>2
        <4>3. Len(hist[s]) <= Len(hist'[s])
          BY <1>a, <2>1, <2>2
        <4>4. stage[s] = "none" => xcall'[s] = "idle" /\ s \notin live'
          BY <1>5, <1>a DEF Early
        <4>5. Has(hist[s], "preview") => Has(hist'[s], "preview")
          BY <2>2
        <4> QED
          BY <1>5, <1>a, <1>d, <3>1, <3>3, <4>1, <4>2, <4>3, <4>4, <4>5, EarlyKept
      <3>2. CASE stage'[s] = "over"
        BY <3>2, <3>3 DEF Early
      <3> QED
        BY <1>5, <3>1, <3>2
    <2>5. \A r \in Ids : r # s => Early(r)'
      BY <1>5, <1>f, <2>2
    <2>6. Grows
      <3>1. \A r \in Ids : stage[r] = "announcing" => stage'[r] = "announcing"
        BY <1>5
      <3> QED
        BY <1>5, <1>a, <2>2, <2>3, <3>1 DEF Grows
    <2>7. Histories'
      BY <1>5, <1>a, <2>2, <2>4, <2>5 DEF Histories
    <2> QED
      BY <2>6, <2>7
  <1>6. ASSUME NEW s \in Ids, Told(s)
        PROVE  Kept
    <2>1. stage[s] = "ending" /\ stage'[s] = "over" /\ \A r \in Ids : r # s => stage'[r] = stage[r]
      BY <1>6 DEF Told, EndTell, PageTypes
    <2> QED
      BY <1>5, <1>6, <2>1 DEF Told, EndTell
  <1>7. ASSUME NEW s \in Ids, TerminateTell(s)
        PROVE  Kept
    <2>1. CASE s \in live
      BY <1>5, <1>7, <2>1 DEF TerminateTell, OnlyCall
    <2>2. CASE s \notin live
      <3>1. UNCHANGED <<stage, rec, hist, xcall>> /\ live' = live
        BY <1>7, <2>2 DEF TerminateTell, OnlyCall
      <3>2. \A r \in Ids : Early(r)'
        BY <1>a, <3>1 DEF Early
      <3> QED
        BY <1>a, <1>b, <3>1, <3>2 DEF Histories, Grows
    <2> QED
      BY <2>1, <2>2
  <1>8. ASSUME NEW s \in Ids, HandleExtend(s)
        PROVE  Kept
    <2>a. xcall[s] # "idle" /\ UNCHANGED <<stage, live>>
      BY <1>8 DEF HandleExtend
    <2>b. \A r \in Ids : r # s => xcall'[r] = xcall[r]
      <3>1. \E x : xcall' = [xcall EXCEPT ![s] = x]
        BY <1>8 DEF HandleExtend
      <3> QED
        BY <3>1 DEF PageTypes
    <2>1. xcall[s] # "idle" /\ stage[s] # "none" /\ UNCHANGED <<stage, live>>
          /\ \A r \in Ids : r # s => xcall'[r] = xcall[r]
      BY <1>a, <2>a, <2>b DEF Early
    <2>2. \A r \in Ids : stage[r] = "none" => xcall'[r] = "idle"
      BY <1>a, <2>1 DEF Early
    <2>3. CASE UNCHANGED <<rec, hist>>
      <3>1. \A r \in Ids : Early(r)'
        BY <1>a, <2>1, <2>2, <2>3 DEF Early
      <3> QED
        BY <1>a, <1>b, <2>1, <2>3, <3>1 DEF Histories, Grows
    <2>4. CASE /\ rec[s].status = "live" /\ rec' = [rec EXCEPT ![s].extended = TRUE]
               /\ IF s \in live THEN Emit(s, <<Event("ttl", s, TRUE)>>) ELSE UNCHANGED hist
      <3>1. rec'[s].status = "live" /\ \A r \in Ids : r # s => rec'[r] = rec[r]
        BY <2>4 DEF PageTypes, Rows
      <3>5. rec'[s].extended
        BY <2>4 DEF PageTypes, Rows
      <3>2. /\ \A r \in Ids : Shape(hist'[r]) /\ Extends(hist[r], hist'[r])
            /\ \A r \in Ids : r # s => hist'[r] = hist[r]
        <4> DEFINE q == <<Event("ttl", s, TRUE)>>
        <4>1. q \in Seq(Tagged(s)) /\ Shape(q) /\ ~Has(q, "log")
          BY ExtendTells
        <4>2. CASE Emit(s, q)
          <5> HIDE DEF q
          <5> QED
            BY <4>1, <4>2, Emitted
        <4>3. CASE UNCHANGED hist
          BY <1>a, <1>b, <4>3
        <4> QED
          BY <2>4, <4>2, <4>3
      <3>3. Early(s)'
        <4>1. stage[s] \notin {"none", "follow", "building", "replay", "starting", "exposed"}
          BY <1>a, <2>4 DEF Early
        <4>2. Has(hist[s], "preview") => Has(hist'[s], "preview")
          <5>1. hist[s] \in Seq(Tagged(s)) /\ hist'[s] \in Seq(Tagged(s))
            BY <1>a, <1>c
          <5> QED
            BY <3>2, <5>1, HasGrows
        <4> QED
          BY <1>a, <2>1, <3>5, <4>1, <4>2 DEF Early
      <3>4. \A r \in Ids : r # s => Early(r)'
        BY <1>f, <2>1, <3>1, <3>2
      <3> QED
        BY <1>e, <2>1, <3>2, <3>3, <3>4 DEF PageTypes
    <2> QED
      BY <1>8, <2>3, <2>4 DEF HandleExtend
  <1>9. ASSUME NEW v \in Visits, Terminate(v)
        PROVE  Kept
    <2>1. UNCHANGED <<stage, hist, live, xcall>>
      BY <1>9 DEF Terminate, OnlyCall
    <2>2. \A r \in Ids : \/ rec'[r] = rec[r]
                         \/ /\ rec[r].status \in {"building", "starting", "live"}
                            /\ rec'[r].status = "ended" /\ rec'[r].extended = rec[r].extended
      BY <1>9 DEF Terminate, LiveRows, PageTypes, Rows
    <2>3. \A r \in Ids : Early(r)'
      <3> TAKE r \in Ids
      <3>1. stage[r] = "none" => rec[r].status = "none"
        BY <1>a DEF Early, NoRow
      <3>2. stage[r] = "none" => rec'[r] = rec[r]
        BY <2>2, <3>1
      <3>3. rec'[r].status = "live" => rec[r].status = "live"
        BY <2>2
      <3>4. rec'[r].extended = rec[r].extended
        BY <2>2
      <3> QED
        BY <1>a, <2>1, <3>2, <3>3, <3>4 DEF Early
    <2> QED
      BY <1>a, <1>b, <2>1, <2>3 DEF Histories, Grows
  <1>10. ASSUME NEW v \in Visits, HandleCreate(v)
         PROVE  Kept
    <2>1. PICK s \in Ids :
              /\ stage[s] = "none"
              /\ stage' = [stage EXCEPT ![s] = IF s \in Built THEN "replay" ELSE "follow"]
              /\ rec' = [rec EXCEPT ![s].status = IF s \in Built THEN "starting" ELSE "building"]
              /\ live' = live \cup {s}
      BY <1>10 DEF HandleCreate
    <2>2. UNCHANGED <<hist, xcall>>
      BY <1>10 DEF HandleCreate, OnlyCall
    <2>3. Early(s)'
      <3>1. ~Has(hist[s], "log") /\ ~Has(hist[s], "ttl") /\ ~Granted(hist[s])
        BY <1>a, <2>1, NoExtension DEF Early
      <3>2. stage'[s] \in {"replay", "follow"} /\ rec'[s].status \in {"starting", "building"}
        BY <2>1 DEF PageTypes, Rows
      <3> QED
        BY <2>2, <3>1, <3>2 DEF Early
    <2>4. \A r \in Ids : r # s => Early(r)'
      BY <1>a, <2>1, <2>2 DEF Early, PageTypes
    <2>5. Grows
      <3>1. \A r \in Ids : stage[r] = "announcing" => stage'[r] = "announcing"
        BY <2>1 DEF PageTypes
      <3> QED
        BY <1>a, <1>b, <2>1, <2>2, <3>1 DEF Grows
    <2> QED
      BY <1>a, <2>1, <2>2, <2>3, <2>4, <2>5 DEF Histories
  <1>11. ASSUME Crash PROVE Kept
    <2>1. /\ live' = {} /\ \A r \in Ids : hist'[r] = <<>>
          /\ \A r \in Ids : stage'[r] = IF stage[r] = "none" THEN "none" ELSE "over"
          /\ \A r \in Ids : rec'[r] = NoRow \/ rec'[r] = rec[r]
          /\ \A r \in Ids : xcall'[r] = "idle" \/ xcall'[r] = xcall[r]
      BY <1>11 DEF Crash
    <2>2. DOMAIN <<>> = {}
      OBVIOUS
    <2>3. \A r \in Ids : ~Has(hist'[r], "log") /\ ~Has(hist'[r], "ttl") /\ ~Granted(hist'[r])
      BY <2>1, <2>2 DEF Has, Granted
    <2>4. \A r \in Ids : Shape(hist'[r])
      BY <2>1, <2>2 DEF Shape, Lined
    <2>5. \A r \in Ids : Early(r)'
      <3> TAKE r \in Ids
      <3>1. stage'[r] = "none" => rec'[r] = NoRow /\ r \notin live' /\ xcall'[r] = "idle"
        BY <1>a, <2>1 DEF Early
      <3>2. stage'[r] \in {"none", "over"} /\ NoRow.status = "none"
        BY <2>1 DEF NoRow
      <3> QED
        BY <2>3, <3>1, <3>2 DEF Early
    <2>6. Histories'
      BY <2>1, <2>4, <2>5 DEF Histories
    <2> QED
      BY <1>11, <2>6
  <1>12. ASSUME extend PROVE Kept
    <2>1. activeId \in Ids /\ stage[activeId] # "none"
      BY <1>12 DEF extend, Holding, PageTypes, Holders
    <2>2. \A r \in Ids : r # activeId => xcall'[r] = xcall[r]
      BY <1>12 DEF extend
    <2> QED
      BY <1>12, <1>a, <1>g, <2>1, <2>2 DEF extend, Early
  <1>13. ASSUME NEW s \in Ids, Extended(s)
         PROVE  Kept
    <2>1. \A r \in Ids : xcall'[r] = xcall[r] \/ xcall'[r] = "idle"
      BY <1>13 DEF Extended
    <2> QED
      BY <1>13, <1>a, <1>g, <2>1 DEF Extended, Early
  <1>14. ASSUME Return PROVE Kept
    <2>1. \A r \in Ids : xcall[r] = "idle" => xcall'[r] = "idle"
      BY <1>14 DEF Return
    <2> QED
      BY <1>14, <1>a, <1>g, <2>1 DEF Return, Early
  <1>15. ASSUME UNCHANGED <<server, xcall>> PROVE Kept
    BY <1>15, <1>a, <1>g DEF Early
  <1>16. ASSUME NEW v \in Visits, HandleGet(v) \/ HandleBusy(v) \/ WakeUp(v)
         PROVE  UNCHANGED <<server, xcall>>
    BY <1>16 DEF OnlyCall, HandleGet, HandleBusy, WakeUp
  <1>21. ASSUME Obtain \/ SetupFails \/ Restart PROVE Kept
    BY <1>15, <1>21 DEF Obtain, SetupFails, Restart
  <1>22. ASSUME Stream \/ Drop PROVE Kept
    BY <1>15, <1>22 DEF Stream, Connect, Deliver, StreamCloses, Drop, OnlyStream
  <1>23. ASSUME UNCHANGED vars PROVE Kept
    BY <1>15, <1>23 DEF vars
  <1> HIDE DEF Kept
  <1>17. ASSUME NEW s \in Ids, Run(s) PROVE Kept
    BY <1>17, <1>1, <1>2, <1>3, <1>4, <1>24, <1>25 DEF Run
  <1>18. ASSUME NEW s \in Ids, Run(s) \/ Told(s) \/ TerminateTell(s) \/ HandleExtend(s) \/ Extended(s)
         PROVE  Kept
    BY <1>6, <1>7, <1>8, <1>13, <1>17, <1>18
  <1>19. ASSUME NEW v \in Visits, Api(v) PROVE Kept
    <2>1. CASE HandleGet(v) \/ HandleBusy(v) \/ WakeUp(v)
      <3>1. UNCHANGED <<server, xcall>>
        BY <1>16, <2>1
      <3> QED
        BY <1>15, <3>1
    <2>2. CASE Terminate(v) \/ HandleCreate(v)
      BY <1>9, <1>10, <2>2
    <2> QED
      BY <1>19, <2>1, <2>2 DEF Api
  <1>20. Kept
    <2>1. CASE Next
      BY <1>11, <1>12, <1>14, <1>18, <1>19, <1>21, <1>22, <2>1 DEF Next
    <2> QED
      BY <1>23, <2>1
  <1> QED
    BY <1>20 DEF Kept

(* What is emitted has been told.                                          *)
LEMMA ToldBy ==
    ASSUME Tagging, NEW s \in Ids, NEW q \in Seq(Tagged(s)), Emit(s, q)
    PROVE  /\ \A n : Has(q, n) => Has(hist'[s], n)
           /\ Granted(q) => Granted(hist'[s])
  <1>1. hist[s] \in Seq(Tagged(s)) /\ hist'[s] = hist[s] \o q
    BY DEF Tagging, Emit
  <1> QED
    BY <1>1, HasConcat

(* Rows that say no more than others are backed by what backs those.       *)
LessThan(r, t) == (r.web => t.web) /\ (r.ready => t.ready) /\ (r.extended => t.extended)

(* There is an answer to extend for each session.                          *)
LEMMA AnswersKept ==
    ASSUME DOMAIN xcall = Ids, [Next]_vars
    PROVE  DOMAIN xcall' = Ids
  <1>1. ASSUME NEW s \in Ids, Run(s) \/ Told(s) \/ TerminateTell(s)
        PROVE  UNCHANGED xcall
    BY <1>1 DEF Run, Told, TerminateTell, OnlyCall
  <1>2. ASSUME NEW s \in Ids, HandleExtend(s) \/ Extended(s)
        PROVE  DOMAIN xcall' = Ids
    BY <1>2 DEF HandleExtend, Extended
  <1>3. ASSUME NEW v \in Visits, Api(v)
        PROVE  UNCHANGED xcall
    BY <1>3 DEF Api, HandleGet, HandleBusy, WakeUp, Terminate, HandleCreate, OnlyCall
  <1>4. Obtain \/ SetupFails \/ Restart => UNCHANGED xcall
    BY DEF Obtain, SetupFails, Restart
  <1>5. Stream \/ Drop => UNCHANGED xcall
    BY DEF Stream, Connect, Deliver, StreamCloses, Drop, OnlyStream
  <1>6. extend \/ Return \/ Crash => DOMAIN xcall' = Ids
    BY DEF extend, Return, Crash
  <1>7. UNCHANGED vars => UNCHANGED xcall
    BY DEF vars
  <1> QED
    BY <1>1, <1>2, <1>3, <1>4, <1>5, <1>6, <1>7 DEF Next

(* What a row says of a session in m.live stays told in its log.           *)
LEMMA BackingKept ==
    ASSUME PageTypes, Tagging, Calling, Histories, Backing, Tagging', Grows \/ Crash, [Next]_vars
    PROVE  Backing'
  <1> DEFINE RowsKept ==
                 \A s \in live' : \/ s \in live /\ LessThan(rec'[s], rec[s])
                                  \/ Backs(hist'[s], stage'[s], rec'[s])
             GrantsKept ==
                 \A s \in live' : xcall'[s] = "granted" =>
                     (s \in live /\ xcall[s] = "granted") \/ Granted(hist'[s])
             CallsKept ==
                 \A v \in Visits : call'[v].pc = "ok" =>
                     \/ call'[v] = call[v]
                     \/ call'[v].got \in live' =>
                            Backs(hist'[call'[v].got], stage'[call'[v].got], call'[v].row)
  <1>a. /\ \A s \in Ids : Early(s) /\ rec[s] \in Rows
        /\ \A v \in Visits : call[v] \in Calls
        /\ live \subseteq Ids
    BY DEF Histories, PageTypes
  <1>x. DOMAIN xcall' = Ids
    BY AnswersKept DEF Backing
  <1>b. ASSUME Grows, RowsKept, GrantsKept, CallsKept
        PROVE  Backing'
    <2>1. \A s \in live : \A r : Backs(hist[s], stage[s], r) => Backs(hist'[s], stage'[s], r)
      <3> TAKE s \in live
      <3>1. /\ hist[s] \in Seq(Tagged(s)) /\ hist'[s] \in Seq(Tagged(s)) /\ Extends(hist[s], hist'[s])
            /\ stage[s] = "announcing" => stage'[s] = "announcing"
                   \/ (Has(hist'[s], "terminal") /\ Has(hist'[s], "ttl"))
        BY <1>a, <1>b DEF Tagging, Grows
      <3> QED
        BY <3>1, HasGrows
    <2>2. \A s \in live : Granted(hist[s]) => Granted(hist'[s])
      <3> TAKE s \in live
      <3>1. hist[s] \in Seq(Tagged(s)) /\ hist'[s] \in Seq(Tagged(s)) /\ Extends(hist[s], hist'[s])
        BY <1>a, <1>b DEF Tagging, Grows
      <3> QED
        BY <3>1, HasGrows
    <2>3. ASSUME NEW s \in live' PROVE Backs(hist'[s], stage'[s], rec'[s])
      <3>1. CASE s \in live /\ LessThan(rec'[s], rec[s])
        <4>1. Backs(hist'[s], stage'[s], rec[s])
          BY <2>1, <3>1 DEF Backing
        <4> QED
          BY <3>1, <4>1 DEF Backs, LessThan
      <3> QED
        BY <1>b, <3>1
    <2>4. ASSUME NEW s \in live', xcall'[s] = "granted" PROVE Granted(hist'[s])
      BY <1>b, <2>2, <2>4 DEF Backing
    <2>5. ASSUME NEW v \in Visits, call'[v].pc = "ok", call'[v].got \in live'
          PROVE  Backs(hist'[call'[v].got], stage'[call'[v].got], call'[v].row)
      <3>1. CASE call'[v] = call[v]
        <4>1. call[v].got \in live
          BY <1>b, <2>5, <3>1 DEF Grows, Calling
        <4>2. Backs(hist[call[v].got], stage[call[v].got], call[v].row)
          BY <2>5, <3>1, <4>1 DEF Backing
        <4> QED
          BY <2>1, <3>1, <4>1, <4>2
      <3> QED
        BY <1>b, <2>5, <3>1
    <2> QED
      BY <1>x, <2>3, <2>4, <2>5 DEF Backing
  <1>c. \A r : LessThan(r, r)
    BY DEF LessThan
  <1> HIDE DEF RowsKept, GrantsKept, CallsKept
  (* A step that leaves a part alone.                                      *)
  <1>d. /\ UNCHANGED rec /\ live' \subseteq live => RowsKept
        /\ UNCHANGED xcall /\ live' \subseteq live => GrantsKept
        /\ UNCHANGED call => CallsKept
    BY <1>c DEF RowsKept, GrantsKept, CallsKept
  <1>1. ASSUME NEW s \in Ids, Run(s), Grows
        PROVE  Backing'
    <2>1. UNCHANGED <<call, xcall, live>>
      BY <1>1 DEF Run, Follow, MarkStarting, ExposePort, GoLive, Announce, EndRecord
    <2>2. RowsKept
      <3>1. CASE Follow(s) \/ ExposePort(s) \/ Announce(s)
        BY <1>d, <2>1, <3>1 DEF Follow, ExposePort, Announce
      <3>2. CASE MarkStarting(s)
        <4>1. \A r \in Ids : r # s => rec'[r] = rec[r]
          BY <3>2 DEF MarkStarting, PageTypes
        <4>2. ~rec'[s].web /\ ~rec'[s].ready /\ ~rec'[s].extended
          BY <3>2 DEF MarkStarting, PageTypes, NoRow
        <4>3. Backs(hist'[s], stage'[s], rec'[s])
          BY <4>2 DEF Backs
        <4> QED
          BY <1>a, <1>c, <2>1, <4>1, <4>3 DEF RowsKept
      <3>3. CASE GoLive(s)
        <4>1. \A r \in Ids : r # s => rec'[r] = rec[r]
          BY <3>3 DEF GoLive, PageTypes
        <4>2. (rec'[s].web <=> s \in Web) /\ ~rec'[s].extended
          BY <3>3 DEF GoLive, PageTypes
        <4>3. stage'[s] = "announcing" /\ hist' = hist /\ (s \in Web => Has(hist[s], "preview"))
          BY <1>a, <3>3 DEF GoLive, PageTypes, Early
        <4>4. Backs(hist'[s], stage'[s], rec'[s])
          BY <4>2, <4>3 DEF Backs
        <4> QED
          BY <1>a, <1>c, <2>1, <4>1, <4>4 DEF RowsKept
      <3>4. CASE EndRecord(s)
        <4>1. \A r \in Ids : LessThan(rec'[r], rec[r])
          <5>1. UNCHANGED rec \/ rec' = [rec EXCEPT ![s].status = "ended"]
            BY <3>4 DEF EndRecord
          <5> QED
            BY <1>a, <5>1 DEF PageTypes, Rows, LessThan
        <4> QED
          BY <1>a, <2>1, <4>1 DEF RowsKept
      <3> QED
        BY <1>1, <3>1, <3>2, <3>3, <3>4 DEF Run
    <2> QED
      BY <1>1, <1>b, <1>d, <2>1, <2>2
  <1>2. ASSUME NEW s \in Ids, Told(s) \/ TerminateTell(s), Grows
        PROVE  Backing'
    <2>1. UNCHANGED <<rec, call, xcall>> /\ live' \subseteq live
      BY <1>2 DEF Told, EndTell, TerminateTell, OnlyCall
    <2> QED
      BY <1>2, <1>b, <1>d, <2>1
  <1>3. ASSUME NEW s \in Ids, HandleExtend(s), Grows
        PROVE  Backing'
    <2>1. UNCHANGED <<call, live>>
      BY <1>3 DEF HandleExtend
    <2>2. \A r \in Ids : r # s => rec'[r] = rec[r] /\ xcall'[r] = xcall[r]
      <3>1. \E x : xcall' = [xcall EXCEPT ![s] = x]
        BY <1>3 DEF HandleExtend
      <3>2. UNCHANGED rec \/ rec' = [rec EXCEPT ![s].extended = TRUE]
        BY <1>3 DEF HandleExtend
      <3> QED
        BY <3>1, <3>2 DEF PageTypes
    <2>3. CASE UNCHANGED rec /\ xcall'[s] # "granted"
      BY <1>3, <1>a, <1>b, <1>d, <2>1, <2>2, <2>3 DEF GrantsKept
    <2>4. CASE rec' = [rec EXCEPT ![s].extended = TRUE] /\ (s \in live => Emit(s, <<Event("ttl", s, TRUE)>>))
      <3>1. s \in live => Granted(hist'[s])
        <4> DEFINE q == <<Event("ttl", s, TRUE)>>
        <4>1. q \in Seq(Tagged(s)) /\ Granted(q)
          BY ExtendTells
        <4>2. s \in live => Emit(s, q)
          BY <2>4
        <4> HIDE DEF q
        <4> QED
          BY <4>1, <4>2, ToldBy
      <3>2. s \in live => Backs(hist'[s], stage'[s], rec'[s])
        <4>1. rec'[s].web = rec[s].web /\ rec'[s].ready = rec[s].ready
          BY <1>a, <2>4 DEF PageTypes, Rows
        <4>2. s \in live => Backs(hist'[s], stage'[s], rec[s])
          <5> HAVE s \in live
          <5>1. /\ hist[s] \in Seq(Tagged(s)) /\ hist'[s] \in Seq(Tagged(s))
                /\ Extends(hist[s], hist'[s]) /\ stage' = stage
            BY <1>3 DEF Tagging, Grows, HandleExtend
          <5>2. Backs(hist[s], stage[s], rec[s])
            BY DEF Backing
          <5> QED
            BY <5>1, <5>2, HasGrows
        <4> QED
          BY <3>1, <4>1, <4>2 DEF Backs
      <3>3. RowsKept /\ GrantsKept
        BY <1>a, <1>c, <2>1, <2>2, <3>1, <3>2 DEF RowsKept, GrantsKept
      <3> QED
        BY <1>3, <1>b, <1>d, <2>1, <3>3
    <2> QED
      <3>1. \/ rec' = [rec EXCEPT ![s].extended = TRUE] /\ (s \in live => Emit(s, <<Event("ttl", s, TRUE)>>))
            \/ UNCHANGED rec /\ xcall' = [xcall EXCEPT ![s] = "idle"]
        BY <1>3 DEF HandleExtend
      <3>2. xcall' = [xcall EXCEPT ![s] = "idle"] => xcall'[s] = "idle"
        BY DEF Backing
      <3> QED
        BY <2>3, <2>4, <3>1, <3>2
  <1>4. ASSUME NEW v \in Visits, HandleGet(v) \/ HandleBusy(v) \/ WakeUp(v), Grows
        PROVE  Backing'
    <2>1. UNCHANGED <<stage, rec, hist, live, xcall>>
      BY <1>4 DEF HandleGet, HandleBusy, WakeUp, OnlyCall, server
    <2>2. CallsKept
      <3>1. \E c : Answer(v, c)
        BY <1>4 DEF HandleGet, HandleBusy, WakeUp
      <3>2. \A w \in Visits : w # v => call'[w] = call[w]
        BY <3>1 DEF Answer, PageTypes
      <3>3. CASE HandleBusy(v) \/ WakeUp(v)
        <4>1. call'[v].pc # "ok"
          BY <1>a, <3>3 DEF HandleBusy, WakeUp, Answer, PageTypes, Calls
        <4> QED
          BY <3>2, <4>1 DEF CallsKept
      <3>4. CASE HandleGet(v)
        <4>1. CASE Answer(v, [call[v] EXCEPT !.pc = "ok", !.got = call[v].wanted, !.row = rec[call[v].wanted]])
          <5>1. call'[v].got = call[v].wanted /\ call'[v].row = rec[call[v].wanted]
            BY <1>a, <4>1 DEF Answer, PageTypes, Calls
          <5>2. call'[v].got \in live' =>
                    Backs(hist'[call'[v].got], stage'[call'[v].got], call'[v].row)
            BY <2>1, <5>1 DEF Backing
          <5> QED
            BY <3>2, <5>2 DEF CallsKept
        <4>2. CASE Answer(v, [call[v] EXCEPT !.pc = "create"]) \/ Answer(v, [call[v] EXCEPT !.pc = "error"])
          <5>1. call'[v].pc # "ok"
            BY <1>a, <4>2 DEF Answer, PageTypes, Calls
          <5> QED
            BY <3>2, <5>1 DEF CallsKept
        <4> QED
          BY <3>4, <4>1, <4>2 DEF HandleGet
      <3> QED
        BY <1>4, <3>3, <3>4
    <2> QED
      BY <1>4, <1>b, <1>d, <2>1, <2>2
  <1>5. ASSUME NEW v \in Visits, Terminate(v), Grows
        PROVE  Backing'
    <2>1. UNCHANGED <<call, live, xcall>>
      BY <1>5 DEF Terminate, OnlyCall
    <2>2. \A r \in Ids : LessThan(rec'[r], rec[r])
      <3> TAKE r \in Ids
      <3>1. rec'[r] = rec[r] \/ rec'[r] = [rec[r] EXCEPT !.status = "ended"]
        BY <1>5 DEF Terminate
      <3> QED
        BY <1>a, <3>1 DEF Rows, LessThan
    <2>3. RowsKept
      BY <1>a, <2>1, <2>2 DEF RowsKept
    <2> QED
      BY <1>5, <1>b, <1>d, <2>1, <2>3
  <1>6. ASSUME NEW v \in Visits, HandleCreate(v), Grows
        PROVE  Backing'
    <2>1. PICK s \in Ids :
              /\ stage[s] = "none"
              /\ rec' = [rec EXCEPT ![s].status = IF s \in Built THEN "starting" ELSE "building"]
              /\ live' = live \cup {s}
              /\ Answer(v, [call[v] EXCEPT !.pc = "ok", !.got = s, !.row = rec'[s]])
      BY <1>6 DEF HandleCreate
    <2>2. xcall' = xcall
      BY <1>6 DEF HandleCreate, OnlyCall
    <2>3. rec[s] = NoRow /\ xcall[s] = "idle"
      BY <1>a, <2>1 DEF Early
    <2>4. ~rec'[s].web /\ ~rec'[s].ready /\ ~rec'[s].extended
      BY <2>1, <2>3 DEF PageTypes, NoRow
    <2>5. \A r \in Ids : r # s => rec'[r] = rec[r]
      BY <2>1 DEF PageTypes
    <2>6. \A h, at : Backs(h, at, rec'[s])
      BY <2>4 DEF Backs
    <2>7. RowsKept
      BY <1>a, <1>c, <2>1, <2>5, <2>6 DEF RowsKept
    <2>8. GrantsKept
      BY <2>1, <2>2, <2>3 DEF GrantsKept
    <2>9. CallsKept
      <3>1. \A w \in Visits : w # v => call'[w] = call[w]
        BY <2>1 DEF Answer, PageTypes
      <3>2. call'[v].got = s /\ call'[v].row = rec'[s]
        BY <1>a, <2>1 DEF Answer, PageTypes, Calls
      <3> QED
        BY <2>6, <3>1, <3>2 DEF CallsKept
    <2> QED
      BY <1>6, <1>b, <2>7, <2>8, <2>9
  <1>7. ASSUME Obtain \/ SetupFails \/ Restart \/ Return, Grows
        PROVE  Backing'
    <2>1. UNCHANGED <<rec, live>>
      BY <1>7 DEF Obtain, SetupFails, Restart, Return, server
    <2>2. \A v \in Visits : call'[v] = call[v] \/ call'[v].pc # "ok"
      <3>1. \A u : Load(u).pc # "ok"
        BY DEF Load, Idle
      <3>2. Idle.pc # "ok"
        BY DEF Idle
      <3>3. \E v, c : call' = [call EXCEPT ![v] = c] /\ c.pc # "ok"
        BY <1>7, <3>1, <3>2 DEF Obtain, SetupFails, Restart, Return, SetUp
      <3> QED
        BY <3>3 DEF PageTypes
    <2>3. \A s \in Ids : xcall'[s] = xcall[s] \/ xcall'[s] # "granted"
      BY <1>7 DEF Obtain, SetupFails, Restart, Return
    <2> QED
      BY <1>7, <1>a, <1>b, <1>d, <2>1, <2>2, <2>3 DEF GrantsKept, CallsKept
  <1>8. ASSUME Stream \/ Drop \/ UNCHANGED vars, Grows
        PROVE  Backing'
    <2>1. UNCHANGED <<rec, live, xcall, call>>
      BY <1>8 DEF Stream, Connect, Deliver, StreamCloses, Drop, OnlyStream, server, vars
    <2> QED
      BY <1>8, <1>b, <1>d, <2>1
  <1>9. ASSUME extend \/ \E s \in Ids : Extended(s), Grows
        PROVE  Backing'
    <2>1. UNCHANGED <<rec, live, call>>
      BY <1>9 DEF extend, Extended, server
    <2>2. PICK s, x : xcall' = [xcall EXCEPT ![s] = x] /\ x # "granted"
      BY <1>9 DEF extend, Extended
    <2>3. \A r \in Ids : xcall'[r] = xcall[r] \/ xcall'[r] # "granted"
      BY <2>2 DEF Backing
    <2> QED
      BY <1>9, <1>a, <1>b, <1>d, <2>1, <2>3 DEF GrantsKept
  <1>10. ASSUME Crash PROVE Backing'
    <2>1. live' = {} /\ DOMAIN xcall' = Ids
      BY <1>10 DEF Crash
    <2> QED
      BY <2>1 DEF Backing
  <1> QED
    <2>1. CASE \E s \in Ids : Run(s) \/ Told(s) \/ TerminateTell(s) \/ HandleExtend(s)
      BY <1>1, <1>2, <1>3, <1>10, <2>1
    <2>2. CASE \E v \in Visits : Api(v)
      BY <1>4, <1>5, <1>6, <1>10, <2>2 DEF Api
    <2>3. CASE Obtain \/ SetupFails \/ Restart \/ Return \/ Stream \/ Drop \/ UNCHANGED vars
      BY <1>7, <1>8, <1>10, <2>3
    <2>4. CASE extend \/ \E s \in Ids : Extended(s)
      BY <1>9, <1>10, <2>4
    <2> QED
      BY <1>10, <2>1, <2>2, <2>3, <2>4 DEF Next

(* The sequences of a step.                                                *)
LEMMA Longer ==
    ASSUME Tagging, Tagging', Grows, NEW s \in Ids
    PROVE  /\ Len(hist[s]) \in Nat /\ Len(hist'[s]) \in Nat /\ Len(hist[s]) <= Len(hist'[s])
           /\ DOMAIN hist[s] = 1 .. Len(hist[s]) /\ DOMAIN hist'[s] = 1 .. Len(hist'[s])
           /\ \A k \in 1 .. Len(hist[s]) : hist'[s][k] = hist[s][k]
           /\ \A n : Has(hist[s], n) => Has(hist'[s], n)
           /\ Granted(hist[s]) => Granted(hist'[s])
  <1>1. hist[s] \in Seq(Tagged(s)) /\ hist'[s] \in Seq(Tagged(s)) /\ Extends(hist[s], hist'[s])
    BY DEF Tagging, Grows
  <1>2. /\ Len(hist[s]) \in Nat /\ Len(hist'[s]) \in Nat
        /\ DOMAIN hist[s] = 1 .. Len(hist[s]) /\ DOMAIN hist'[s] = 1 .. Len(hist'[s])
    BY <1>1, LenProperties
  <1> QED
    BY <1>1, <1>2, HasGrows DEF Extends

(* The page's records.                                                     *)
LEMMA Connecting ==
    ASSUME NEW s
    PROVE  LET c == ConnectTo(s) IN
           /\ DOMAIN c = {"of", "st", "script", "follows", "cursor"}
           /\ c.of = s /\ c.st = "connecting" /\ c.script = <<>> /\ c.cursor = 0 /\ c.follows = FALSE
  BY DEF ConnectTo, Disconnected

(* What becomes of the stream of an event that is dispatched.              *)
LEMMA Delivered ==
    ASSUME PageTypes, Tagging, Holding, Deliver
    PROVE  /\ activeId = es.of /\ es.of \in Ids /\ es.st = "open"
           /\ Script \in Seq(Tagged(es.of)) /\ es.cursor \in Nat /\ Len(Script) \in Nat
           /\ es.cursor + 1 \in 1 .. Len(Script) /\ DOMAIN Script = 1 .. Len(Script)
           /\ Script[es.cursor + 1] \in Tagged(es.of)
           /\ page' = reduce(page, Script[es.cursor + 1])
           /\ misled' = (misled /\ Script[es.cursor + 1].name # "ttl")
           /\ UNCHANGED <<server, xcall, call, browser>>
           /\ Script[es.cursor + 1].name = "ended" => es'.st = "closed"
           /\ Script[es.cursor + 1].name # "ended" =>
                  /\ es'.st = "open" /\ es'.of = es.of /\ es'.follows = es.follows
                  /\ es'.script = es.script /\ es'.cursor = es.cursor + 1
  <1>1. /\ activeId = es.of /\ es.of \in Ids /\ es.st = "open"
        /\ Script \in Seq(Tagged(es.of)) /\ es.cursor \in Nat
    BY ScriptTagged DEF Deliver, Holding, Tagging
  <1>2. Len(Script) \in Nat /\ DOMAIN Script = 1 .. Len(Script)
    BY <1>1, LenProperties
  <1>3. es.cursor + 1 \in 1 .. Len(Script)
    BY <1>1, <1>2 DEF Deliver
  <1>4. Script[es.cursor + 1] \in Tagged(es.of)
    BY <1>1, <1>3, ElementOfSeq
  <1> DEFINE e == Script[es.cursor + 1]   c == ConnectTo(es.of)
  <1>5. /\ page' = reduce(page, e) /\ misled' = (misled /\ e.name # "ttl")
        /\ UNCHANGED <<server, xcall, call, browser>>
        /\ es' = IF e.name = "ended" THEN [c EXCEPT !.st = "closed"] ELSE [es EXCEPT !.cursor = @ + 1]
    BY DEF Deliver, OnlyStream
  <1>6. DOMAIN c = {"of", "st", "script", "follows", "cursor"}
    BY Connecting
  <1> HIDE DEF e, c
  <1>7. e.name = "ended" => es'.st = "closed"
    BY <1>5, <1>6
  <1>8. e.name # "ended" =>
            /\ es'.st = "open" /\ es'.of = es.of /\ es'.follows = es.follows
            /\ es'.script = es.script /\ es'.cursor = es.cursor + 1
    BY <1>1, <1>5 DEF Tagging
  <1> QED
    BY <1>1, <1>2, <1>3, <1>4, <1>5, <1>7, <1>8 DEF e

IsPage(p) == DOMAIN p = {"status", "logs", "preview", "ready", "expiry", "extended", "reason",
                         "connection"}

Reduces(s, e, p, q) ==
    /\ q.logs = IF e.name = "log" THEN AddLog(p.logs, e) ELSE p.logs
    /\ e.name \notin {"phase", "preview", "ended"} => q.status = p.status
    /\ e.name \in {"phase", "preview"} =>
           q.status = IF p.status = "ended" THEN "ended" ELSE e.val
    /\ e.name # "preview" => q.preview = p.preview
    /\ e.name = "preview" => q.preview = IF p.status = "ended" THEN p.preview ELSE s
    /\ e.name \notin {"terminal", "ended"} => q.ready = p.ready
    /\ e.name = "terminal" => q.ready = e.val
    /\ e.name = "ended" => q.ready = FALSE
    /\ e.name # "ttl" => q.expiry = p.expiry /\ q.extended = p.extended
    /\ e.name = "ttl" => q.expiry = s /\ q.extended = e.val

(* What reduce changes, and what it leaves alone (reducer.ts:65-126).      *)
LEMMA ReducedRest ==
    ASSUME NEW s \in Ids, NEW e \in Tagged(s), NEW p, IsPage(p)
    PROVE  Reduces(s, e, p, reduce(p, e))
  <1> USE DEF IsPage, Reduces
  <1>0. e.of = s /\ e.name \in {"log", "phase", "preview", "terminal", "ttl", "ended"}
    BY DEF Tagged
  <1>1. CASE e.name = "log"
    <2> DEFINE ls == AddLog(p.logs, e)
    <2>1. reduce(p, e) = [p EXCEPT !.logs = ls]
      BY <1>1 DEF reduce
    <2> HIDE DEF ls
    <2> QED
      BY <1>1, <2>1 DEF ls
  <1>2. CASE e.name = "phase"
    BY <1>2 DEF reduce, reducePhase
  <1>3. CASE e.name = "preview"
    BY <1>0, <1>3 DEF reduce
  <1>4. CASE e.name = "terminal"
    BY <1>4 DEF reduce
  <1>5. CASE e.name = "ttl"
    BY <1>0, <1>5 DEF reduce
  <1>6. CASE e.name = "ended"
    BY <1>0, <1>6 DEF reduce
  <1> QED
    BY <1>0, <1>1, <1>2, <1>3, <1>4, <1>5, <1>6

(* A stream that is open is of a session that was registered.              *)
LEMMA OpenOnes ==
    ASSUME PageTypes, Holding, Histories, Grows, es.st = "open"
    PROVE  es.of \in Ids /\ es.of = activeId /\ (es.of \in live' => es.of \in live)
  <1>1. es.of = activeId /\ activeId \in Ids /\ stage[activeId] # "none"
    BY DEF PageTypes, Holding, Holders
  <1> QED
    BY <1>1 DEF Grows

(* A stream is never ahead of its log, and has the end ahead of it.        *)
LEMMA FollowingKept ==
    ASSUME PageTypes, Tagging, Holding, Histories, Following, Tagging', Grows \/ Crash, [Next]_vars
    PROVE  Following'
  <1>1. ASSUME es'.st # "open" PROVE Following'
    BY <1>1 DEF Following
  <1>2. ASSUME UNCHANGED es, Grows PROVE Following'
    <2> SUFFICES ASSUME es.st = "open" PROVE Following'
      BY <1>1, <1>2
    <2>0. es.of \in Ids /\ (es.of \in live' => es.of \in live) /\ es.cursor \in Nat
      BY <1>2, OpenOnes DEF Tagging
    <2>1. CASE es.follows
      <3>1. /\ Len(hist[es.of]) \in Nat /\ Len(hist'[es.of]) \in Nat
            /\ Len(hist[es.of]) <= Len(hist'[es.of])
            /\ DOMAIN hist[es.of] = 1 .. Len(hist[es.of])
            /\ DOMAIN hist'[es.of] = 1 .. Len(hist'[es.of])
            /\ \A k \in 1 .. Len(hist[es.of]) : hist'[es.of][k] = hist[es.of][k]
        BY <1>2, <2>0, Longer
      <3>2. es.cursor <= Len(hist[es.of])
        BY <2>1 DEF Following
      <3>3. ASSUME es.of \notin live'
            PROVE  \E k \in DOMAIN hist'[es.of] : hist'[es.of][k].name = "ended" /\ es.cursor < k
        <4>1. CASE es.of \in live
          <5>1. PICK k \in DOMAIN hist'[es.of] :
                    hist'[es.of][k].name = "ended" /\ Len(hist[es.of]) < k
            BY <1>2, <3>3, <4>1 DEF Grows
          <5>2. es.cursor < k
            BY <2>0, <3>1, <3>2, <5>1
          <5> QED
            BY <5>1, <5>2
        <4>2. CASE es.of \notin live
          <5>1. PICK k \in DOMAIN hist[es.of] : hist[es.of][k].name = "ended" /\ es.cursor < k
            BY <2>1, <4>2 DEF Following
          <5>2. k \in DOMAIN hist'[es.of] /\ hist'[es.of][k] = hist[es.of][k]
            BY <3>1
          <5> QED
            BY <5>1, <5>2
        <4> QED
          BY <4>1, <4>2
      <3>4. es.cursor <= Len(hist'[es.of])
        BY <2>0, <3>1, <3>2
      <3> QED
        BY <1>2, <2>1, <3>3, <3>4 DEF Following
    <2>2. CASE ~es.follows
      BY <1>2, <2>0, <2>2 DEF Following
    <2> QED
      BY <2>1, <2>2
  <1>c. \A s : ConnectTo(s).st = "connecting" /\ Disconnected.st = "none"
    BY DEF ConnectTo, Disconnected
  <1>3. ASSUME Crash PROVE Following'
    BY <1>1, <1>3, <1>c DEF Crash, Broken
  <1>4. ASSUME Obtain \/ Restart \/ Return \/ StreamCloses \/ Drop PROVE Following'
    BY <1>1, <1>4, <1>c DEF Obtain, Restart, Return, SetUp, StreamCloses, Drop, Broken
  <1>5. ASSUME SetupFails \/ extend \/ \E s \in Ids : Extended(s)
        PROVE  UNCHANGED es
    BY <1>5 DEF SetupFails, extend, Extended
  <1>6. ASSUME Connect, Grows PROVE Following'
    <2> DEFINE c == ConnectTo(es.of)
    <2>0. /\ DOMAIN c = {"of", "st", "script", "follows", "cursor"}
          /\ c.of = es.of /\ c.cursor = 0 /\ c.script = <<>> /\ c.follows = FALSE
      BY Connecting
    <2>i. es.of \in Ids
      BY <1>6 DEF Connect, Holding, PageTypes, Holders
    <2>s. UNCHANGED <<hist, live>>
      BY <1>6 DEF Connect, OnlyStream, server
    <2>1. CASE es.of \in live /\ es' = [c EXCEPT !.st = "open", !.follows = TRUE]
      <3> HIDE DEF c
      <3>1. es'.of = es.of /\ es'.follows = TRUE /\ es'.cursor = 0
        BY <2>0, <2>1
      <3>2. Len(hist[es.of]) \in Nat
        BY <1>6, <2>i, Longer
      <3> QED
        BY <2>1, <2>s, <3>1, <3>2 DEF Following
    <2>2. ASSUME NEW q \in Story(es.of), es.of \notin live, es' = [c EXCEPT !.st = "open", !.script = q]
          PROVE  Following'
      <3>1. \A k \in DOMAIN q : q[k].name \in {"log", "ended"}
        <4>1. PICK n \in {0, Lines} : q = Log(es.of, n) \o <<Event("ended", es.of, None)>>
          BY <2>2 DEF Story
        <4>2. n \in Nat
          BY PageAssumption
        <4> DEFINE a == Log(es.of, n)   b == <<Event("ended", es.of, None)>>
        <4>3. a \in Seq(Tagged(es.of)) /\ \A k \in 1 .. Len(a) : a[k].name = "log"
          <5>1. Len(a) = n /\ \A k \in 1 .. n : a[k] = Event("log", es.of, k)
            BY <2>i, <4>2, ShapeOfLog
          <5>2. a \in Seq(Tagged(es.of))
            BY <2>i, <4>2, LogsAreTagged
          <5> HIDE DEF a
          <5> QED
            BY <5>1, <5>2 DEF Event
        <4>4. b \in Seq(Tagged(es.of)) /\ Len(b) = 1 /\ b[1].name = "ended"
          BY <2>i, EndTells
        <4> HIDE DEF a, b
        <4>5. /\ Len(a) \in Nat /\ DOMAIN (a \o b) = 1 .. Len(a) + Len(b)
              /\ \A k \in 1 .. Len(a) : (a \o b)[k] = a[k]
              /\ \A k \in Len(a) + 1 .. Len(a) + Len(b) : (a \o b)[k] = b[k - Len(a)]
          <5> DEFINE S == Tagged(es.of)
          <5>1. a \in Seq(S) /\ b \in Seq(S)
            BY <4>3, <4>4
          <5> HIDE DEF S
          <5> QED
            BY <5>1, Concats
        <4>6. q = a \o b
          BY <4>1 DEF a, b
        <4>7. ASSUME NEW k \in DOMAIN q PROVE q[k].name \in {"log", "ended"}
          <5>1. CASE k \in 1 .. Len(a)
            BY <4>3, <4>5, <4>6, <5>1
          <5>2. CASE k \in Len(a) + 1 .. Len(a) + Len(b)
            <6>1. k - Len(a) = 1
              BY <4>4, <4>5, <5>2
            <6> QED
              BY <4>4, <4>5, <4>6, <5>2, <6>1
          <5> QED
            BY <4>4, <4>5, <4>6, <5>1, <5>2
        <4> QED
          BY <4>7
      <3> HIDE DEF c
      <3>2. es'.of = es.of /\ es'.follows = FALSE /\ es'.script = q
        BY <2>0, <2>2
      <3> QED
        BY <2>2, <2>s, <3>1, <3>2 DEF Following
    <2>3. CASE es' = [es EXCEPT !.st = "failed"]
      <3>1. es'.st = "failed"
        BY <2>3 DEF Tagging
      <3> QED
        BY <1>1, <3>1
    <2> QED
      BY <1>6, <2>1, <2>2, <2>3 DEF Connect
  <1>7. ASSUME Deliver, Grows PROVE Following'
    <2> DEFINE e == Script[es.cursor + 1]
    <2>1. /\ es.of \in Ids /\ es.st = "open" /\ es.cursor \in Nat /\ Len(Script) \in Nat
          /\ es.cursor + 1 \in 1 .. Len(Script) /\ DOMAIN Script = 1 .. Len(Script)
          /\ UNCHANGED server
          /\ e.name = "ended" => es'.st = "closed"
          /\ e.name # "ended" =>
                  /\ es'.st = "open" /\ es'.of = es.of /\ es'.follows = es.follows
                  /\ es'.script = es.script /\ es'.cursor = es.cursor + 1
      BY <1>7, Delivered
    <2> HIDE DEF e
    <2>2. CASE e.name = "ended"
      BY <1>1, <2>1, <2>2
    <2>3. CASE e.name # "ended" /\ es.follows
      <3>1. Script = hist[es.of]
        BY <2>3 DEF Script
      <3>2. es.cursor + 1 <= Len(hist[es.of])
        BY <2>1, <3>1
      <3>3. ASSUME es.of \notin live
            PROVE  \E k \in DOMAIN hist[es.of] : hist[es.of][k].name = "ended" /\ es.cursor + 1 < k
        <4>1. PICK k \in DOMAIN hist[es.of] : hist[es.of][k].name = "ended" /\ es.cursor < k
          BY <2>1, <2>3, <3>3 DEF Following
        <4>2. k # es.cursor + 1
          BY <2>3, <3>1, <4>1 DEF e
        <4>3. k \in Nat
          BY <2>1, <3>1, <4>1
        <4>4. es.cursor + 1 < k
          BY <2>1, <4>1, <4>2, <4>3
        <4> QED
          BY <4>1, <4>4
      <3> QED
        BY <2>1, <2>3, <3>2, <3>3 DEF Following, server
    <2>4. CASE e.name # "ended" /\ ~es.follows
      BY <2>1, <2>4 DEF Following, server
    <2> QED
      BY <2>2, <2>3, <2>4
  <1> QED
    <2>1. CASE Next /\ ~Crash
      BY <1>2, <1>4, <1>5, <1>6, <1>7, <2>1, OthersLeaveThePage DEF Next, Stream
    <2>2. CASE UNCHANGED vars
      BY <1>2, <1>3, <2>2, OthersLeaveThePage
    <2> QED
      BY <1>3, <2>1, <2>2

(* What the page shows of a session in m.live stays told in its log.       *)
LEMMA GroundedKept ==
    ASSUME PageTypes, Tagging, Calling, Holding, Showing, Histories, Backing, Grounded, Following,
           Tagging', Histories', Grows \/ Crash, [Next]_vars
    PROVE  Grounded'
  <1>0. activeId \in Holders /\ None \notin Ids /\ live \subseteq Ids /\ live' \subseteq Ids
    BY PageAssumption DEF PageTypes, Histories, Ids
  (* A step after which the page shows no more.                            *)
  <1>1. ASSUME UNCHANGED <<activeId, misled>>, Grows,
               page'.preview = page.preview, page'.ready = page.ready,
               page'.expiry = page.expiry, page'.extended = page.extended
        PROVE  Grounded'
    <2>1. CASE activeId \in live'
      <3>1. activeId \in Ids /\ stage[activeId] # "none"
        BY <1>0, <2>1 DEF Holding
      <3>2. activeId \in live
        BY <1>1, <2>1, <3>1 DEF Grows
      <3>3. (\A n : Has(hist[activeId], n) => Has(hist'[activeId], n))
            /\ (Granted(hist[activeId]) => Granted(hist'[activeId]))
        BY <1>1, <3>1, Longer
      <3>4. stage[activeId] = "announcing" => stage'[activeId] = "announcing"
                \/ (Has(hist'[activeId], "terminal") /\ Has(hist'[activeId], "ttl"))
        BY <1>1, <3>2 DEF Grows
      <3> QED
        BY <1>0, <1>1, <3>1, <3>2, <3>3, <3>4 DEF Grounded
    <2>2. CASE activeId \notin live'
      BY <1>1, <2>2 DEF Grounded
    <2> QED
      BY <2>1, <2>2
  <1>2. ASSUME Crash PROVE Grounded'
    <2>1. live' = {} /\ UNCHANGED <<activeId, misled>>
      BY <1>2 DEF Crash, browser
    <2>2. page'.expiry = page.expiry /\ page'.extended = page.extended
      BY <1>2 DEF Crash, Broken, reduceError, Tagging
    <2> QED
      BY <2>1, <2>2 DEF Grounded
  <1>3. ASSUME Connect \/ StreamCloses \/ Drop, Grows PROVE Grounded'
    <2>1. UNCHANGED <<activeId, misled>>
      BY <1>3 DEF Connect, StreamCloses, Drop, OnlyStream, browser
    <2>2. page' = reduceOpen(page) \/ page' = reduceError(page)
      BY <1>3 DEF Connect, StreamCloses, Drop, Broken
    <2>3. /\ page'.preview = page.preview /\ page'.ready = page.ready
          /\ page'.expiry = page.expiry /\ page'.extended = page.extended
      BY <2>2 DEF reduceOpen, reduceError, Tagging
    <2> QED
      BY <1>1, <1>3, <2>1, <2>3
  <1>4. ASSUME Restart \/ Return PROVE Grounded'
    <2>1. activeId' = None /\ page' = initialState
      BY <1>4 DEF Restart, Return, SetUp
    <2>2. page'.expiry = None /\ page'.extended = FALSE
      BY <2>1 DEF initialState
    <2> QED
      BY <1>0, <2>1, <2>2 DEF Grounded
  <1>5. ASSUME Obtain PROVE Grounded'
    <2> DEFINE s == call[visit].got   row == call[visit].row
    <2>1. /\ activeId' = s /\ UNCHANGED <<stage, hist, live, misled>>
          /\ page' = reduceSession(page, s, row)
          /\ call[visit].pc = "ok" /\ visit \in Visits
      BY <1>5 DEF Obtain, server, PageTypes
    <2>2. activeId = None /\ s \in Ids
      BY <2>1 DEF Calling
    <2>3. page.preview = None /\ ~page.ready /\ (misled \/ (page.expiry = None /\ ~page.extended))
      BY <1>0, <2>2 DEF Showing, Grounded
    <2>4. s \in live => Backs(hist[s], stage[s], row)
      BY <2>1 DEF Backing
    <2> HIDE DEF s, row
    <2>5. /\ page'.preview = IF row.web THEN s ELSE page.preview
          /\ page'.ready = (row.ready \/ page.ready)
          /\ page'.expiry = IF row.ready THEN s ELSE page.expiry
          /\ page'.extended = (row.extended \/ page.extended)
      BY <2>1 DEF reduceSession, Tagging
    <2>6. s \in live =>
              /\ page'.preview # None => Has(hist[s], "preview")
              /\ page'.ready => Has(hist[s], "terminal") \/ stage[s] = "announcing"
              /\ misled \/ /\ page'.expiry # None => Has(hist[s], "ttl") \/ stage[s] = "announcing"
                           /\ page'.extended => Granted(hist[s])
      BY <2>3, <2>4, <2>5 DEF Backs
    <2> QED
      BY <1>0, <2>1, <2>2, <2>6 DEF Grounded
  <1>6. ASSUME Deliver PROVE Grounded'
    <2> DEFINE e == Script[es.cursor + 1]   s == es.of
    <2>1. /\ activeId = s /\ s \in Ids /\ es.st = "open"
          /\ es.cursor + 1 \in DOMAIN Script /\ e \in Tagged(s)
          /\ page' = reduce(page, e) /\ misled' = (misled /\ e.name # "ttl")
          /\ UNCHANGED <<activeId, stage, hist, live>>
      BY <1>6, Delivered DEF server, browser
    <2>2. /\ e.name # "preview" => page'.preview = page.preview
          /\ e.name \notin {"terminal", "ended"} => page'.ready = page.ready
          /\ e.name = "ended" => page'.ready = FALSE
          /\ e.name # "ttl" => page'.expiry = page.expiry /\ page'.extended = page.extended
          /\ e.name = "ttl" => page'.expiry = s /\ page'.extended = e.val
      <3>1. IsPage(page)
        BY DEF Tagging, IsPage
      <3>2. s \in Ids /\ e \in Tagged(s) /\ page' = reduce(page, e)
        BY <2>1
      <3> HIDE DEF e, s
      <3>3. Reduces(s, e, page, page')
        BY <3>1, <3>2, ReducedRest
      <3> QED
        BY <3>3 DEF Reduces
    <2>3. CASE s \in live
      <3>1. Script = hist[s] /\ es.cursor + 1 \in DOMAIN hist[s] /\ e = hist[s][es.cursor + 1]
        BY <2>1, <2>3 DEF Following, Script
      <3> HIDE DEF e
      <3>2. e.name = "preview" => Has(hist[s], "preview")
        BY <3>1 DEF Has
      <3>3. e.name = "terminal" => Has(hist[s], "terminal")
        BY <3>1 DEF Has
      <3>4. e.name = "ttl" => Has(hist[s], "ttl") /\ (e.val = TRUE => Granted(hist[s]))
                              /\ e.val \in BOOLEAN
        BY <2>1, <3>1 DEF Has, Granted, Histories, Shape
      <3>5. page'.preview # None => Has(hist[s], "preview")
        BY <2>1, <2>2, <2>3, <3>2 DEF Grounded
      <3>6. page'.ready => Has(hist[s], "terminal") \/ stage[s] = "announcing"
        BY <2>1, <2>2, <2>3, <3>3 DEF Grounded
      <3>7. misled' \/ /\ page'.expiry # None => Has(hist[s], "ttl") \/ stage[s] = "announcing"
                       /\ page'.extended => Granted(hist[s])
        <4>1. CASE e.name = "ttl"
          BY <2>2, <3>4, <4>1
        <4>2. CASE e.name # "ttl"
          BY <2>1, <2>2, <2>3, <4>2 DEF Grounded
        <4> QED
          BY <4>1, <4>2
      <3> QED
        BY <1>0, <2>1, <3>5, <3>6, <3>7 DEF Grounded
    <2>4. CASE s \notin live
      BY <1>0, <2>1, <2>4 DEF Grounded
    <2> QED
      BY <2>3, <2>4
  <1>7. ASSUME NEW s \in Ids, Extended(s) PROVE Grounded'
    <2>1. /\ xcall[s] = "granted" /\ page' = reduceExtended(page, s)
          /\ misled' = (misled \/ s # activeId) /\ UNCHANGED <<activeId, stage, hist, live>>
      BY <1>7 DEF Extended, server, browser
    <2>2. page'.preview = page.preview /\ page'.ready = page.ready
      BY <2>1 DEF reduceExtended, Tagging
    <2>3. CASE s = activeId /\ activeId \in live
      <3>1. Granted(hist[s]) /\ Has(hist[s], "ttl")
        BY <2>1, <2>3 DEF Backing, Granted, Has
      <3> QED
        BY <1>0, <2>1, <2>2, <2>3, <3>1 DEF Grounded
    <2>4. CASE s # activeId \/ activeId \notin live
      BY <1>0, <2>1, <2>2, <2>4 DEF Grounded
    <2> QED
      BY <2>3, <2>4
  <1>8. ASSUME SetupFails \/ extend PROVE UNCHANGED <<activeId, page, misled>>
    BY <1>8 DEF SetupFails, extend, browser
  <1>9. ASSUME UNCHANGED <<activeId, page, misled>>, Grows PROVE Grounded'
    BY <1>1, <1>9
  <1> QED
    <2>1. CASE Next /\ ~Crash
      BY <1>3, <1>4, <1>5, <1>6, <1>7, <1>8, <1>9, <2>1, OthersLeaveThePage DEF Next, Stream, browser
    <2>2. CASE UNCHANGED vars
      BY <1>2, <1>9, <2>2, OthersLeaveThePage DEF browser
    <2> QED
      BY <1>2, <2>1, <2>2

(* The last lines.                                                         *)
LEMMA LastOnes ==
    ASSUME NEW S, NEW q \in Seq(S), NEW n \in Nat
    PROVE  LET l == LastLines(q, n)
               m == IF Len(q) > n THEN n ELSE Len(q)
           IN  /\ l \in Seq(S) /\ Len(l) = m
               /\ \A i \in 1 .. m : l[i] = q[Len(q) - m + i]
  <1> DEFINE k == Len(q)
             from == IF k > n THEN k - n + 1 ELSE 1
             l == SubSeq(q, from, k)
             m == IF k > n THEN n ELSE k
  <1>1. k \in Nat
    BY LenProperties
  <1> HIDE DEF k
  <1>2. from \in Int /\ from >= 1 /\ m \in Nat /\ k - from + 1 = m /\ (from <= k <=> m > 0)
    BY <1>1
  <1>3. \A i \in from .. k : q[i] \in S
    <2> TAKE i \in from .. k
    <2>1. i \in 1 .. k
      BY <1>1, <1>2
    <2> QED
      BY <2>1, ElementOfSeq DEF k
  <1> HIDE DEF from, m
  <1>4. /\ l \in Seq(S) /\ Len(l) = (IF from <= k THEN k - from + 1 ELSE 0)
        /\ \A i \in 1 .. k - from + 1 : l[i] = q[from + i - 1]
    BY <1>1, <1>2, <1>3, SubSeqProperties
  <1> HIDE DEF l
  <1>5. Len(l) = m
    BY <1>1, <1>2, <1>4
  <1>6. ASSUME NEW i \in 1 .. m PROVE l[i] = q[k - m + i]
    <2>1. from + i - 1 = k - m + i
      BY <1>1, <1>2
    <2> QED
      BY <1>2, <1>4, <2>1
  <1> QED
    BY <1>4, <1>5, <1>6 DEF l, m, from, k, LastLines

(* One line more, of those that are kept (reducer.ts:81-86).               *)
LEMMA OneLineMore ==
    ASSUME NEW s \in Ids, NEW v \in Nat
    PROVE  AddLog(LastLines(Log(s, v), MaxLogLines), Event("log", s, v + 1))
           = LastLines(Log(s, v + 1), MaxLogLines)
  <1> DEFINE S == Tagged(s)   M == MaxLogLines
             a == Log(s, v)   b == Log(s, v + 1)   e == Event("log", s, v + 1)
             la == LastLines(a, M)   lb == LastLines(b, M)   c == LastLines(la, M - 1)
             n == IF v > M THEN M ELSE v
             m == IF v > M - 1 THEN M - 1 ELSE v
  <1>1. M \in Nat /\ M >= 1 /\ M - 1 \in Nat
    BY PageAssumption
  <1>2. a \in Seq(S) /\ b \in Seq(S) /\ e \in S
    <2>1. a \in Seq(S) /\ b \in Seq(S)
      BY LogsAreTagged
    <2>2. e \in S
      BY DEF Event, Tagged, Vals
    <2> QED
      BY <2>1, <2>2
  <1>3. /\ Len(a) = v /\ Len(b) = v + 1
        /\ \A i \in 1 .. v : a[i] = Event("log", s, i)
        /\ \A i \in 1 .. v + 1 : b[i] = Event("log", s, i)
    BY ShapeOfLog
  <1> HIDE DEF S, a, b, e, M
  <1>4. /\ la \in Seq(S) /\ Len(la) = n
        /\ \A i \in 1 .. n : la[i] = a[v - n + i]
    BY <1>1, <1>2, <1>3, LastOnes
  <1>5. /\ lb \in Seq(S) /\ Len(lb) = m + 1
        /\ \A i \in 1 .. m + 1 : lb[i] = b[v + 1 - (m + 1) + i]
    <2> DEFINE r == IF Len(b) > M THEN M ELSE Len(b)
    <2>1. /\ lb \in Seq(S) /\ Len(lb) = r
          /\ \A i \in 1 .. r : lb[i] = b[Len(b) - r + i]
      BY <1>1, <1>2, LastOnes
    <2> HIDE DEF lb
    <2>2. r = m + 1
      BY <1>1, <1>3
    <2> HIDE DEF r, m
    <2> QED
      BY <1>3, <2>1, <2>2
  <1> HIDE DEF la, lb
  <1>6. /\ c \in Seq(S) /\ Len(c) = m
        /\ \A i \in 1 .. m : c[i] = la[n - m + i]
    <2> DEFINE r == IF Len(la) > M - 1 THEN M - 1 ELSE Len(la)
    <2>1. /\ c \in Seq(S) /\ Len(c) = r
          /\ \A i \in 1 .. r : c[i] = la[Len(la) - r + i]
      BY <1>1, <1>4, LastOnes
    <2> HIDE DEF c
    <2>2. r = m
      BY <1>1, <1>4
    <2> HIDE DEF r, m
    <2> QED
      BY <1>4, <2>1, <2>2
  <1> HIDE DEF c
  <1>7. n \in Nat /\ m \in Nat /\ m <= n /\ n <= v
    BY <1>1
  <1> HIDE DEF n, m
  <1>8. \A i \in 1 .. m : c[i] = Event("log", s, v - m + i)
    <2> TAKE i \in 1 .. m
    <2>1. n - m + i \in 1 .. n /\ v - n + (n - m + i) = v - m + i /\ v - m + i \in 1 .. v
      BY <1>7
    <2> QED
      BY <1>3, <1>4, <1>6, <2>1
  <1>9. \A i \in 1 .. m + 1 : lb[i] = Event("log", s, v - m + i)
    <2> TAKE i \in 1 .. m + 1
    <2>1. v + 1 - (m + 1) + i = v - m + i /\ v - m + i \in 1 .. v + 1
      BY <1>7
    <2> QED
      BY <1>3, <1>5, <2>1
  <1>10. /\ Append(c, e) \in Seq(S) /\ Len(Append(c, e)) = m + 1
         /\ \A i \in 1 .. m : Append(c, e)[i] = c[i]
         /\ Append(c, e)[m + 1] = e
    BY <1>2, <1>6, AppendProperties
  <1>11. e = Event("log", s, v - m + (m + 1))
    <2>1. v - m + (m + 1) = v + 1
      BY <1>7
    <2> QED
      BY <2>1 DEF e
  <1>12. ASSUME NEW i \in 1 .. m + 1 PROVE Append(c, e)[i] = lb[i]
    <2>1. CASE i \in 1 .. m
      BY <1>8, <1>9, <1>10, <2>1
    <2>2. CASE i = m + 1
      BY <1>9, <1>10, <1>11, <2>2
    <2>3. i \in 1 .. m \/ i = m + 1
      BY ONLY <1>7, <1>12
    <2> QED
      BY <2>1, <2>2, <2>3
  <1>13. Append(c, e) = lb
    <2> DEFINE d == Append(c, e)
    <2>1. d \in Seq(S) /\ lb \in Seq(S) /\ Len(d) = Len(lb) /\ \A i \in 1 .. Len(d) : d[i] = lb[i]
      BY <1>5, <1>10, <1>12
    <2> HIDE DEF d
    <2>2. d = lb
      BY <2>1, SeqEqual
    <2> QED
      BY <2>2 DEF d
  <1> QED
    BY <1>13 DEF AddLog, c, la, lb, a, b, e, M

(* The newest events, with one more.                                       *)
LEMMA OneMore ==
    ASSUME NEW h, NEW n \in Nat, NEW names
    PROVE  /\ h[n + 1].name \in names =>
                  /\ Before(h, n + 1, names) = Before(h, n, names) \cup {n + 1}
                  /\ Newest(h, n + 1, names) = {n + 1}
           /\ h[n + 1].name \notin names =>
                  /\ Before(h, n + 1, names) = Before(h, n, names)
                  /\ Newest(h, n + 1, names) = Newest(h, n, names)
  <1>1. 1 .. n + 1 = (1 .. n) \cup {n + 1} /\ n + 1 \notin 1 .. n
    OBVIOUS
  <1>2. h[n + 1].name \in names => Before(h, n + 1, names) = Before(h, n, names) \cup {n + 1}
    BY <1>1 DEF Before
  <1>3. h[n + 1].name \notin names => Before(h, n + 1, names) = Before(h, n, names)
    BY <1>1 DEF Before
  <1>4. \A k \in Before(h, n, names) : k \in Nat /\ k < n + 1
    BY DEF Before
  <1>5. h[n + 1].name \in names => Newest(h, n + 1, names) = {n + 1}
    BY <1>2, <1>4 DEF Newest
  <1>6. h[n + 1].name \notin names => Newest(h, n + 1, names) = Newest(h, n, names)
    BY <1>3 DEF Newest
  <1> QED
    BY <1>2, <1>3, <1>5, <1>6

(* What is told later does not change them.                                *)
LEMMA SameBefore ==
    ASSUME NEW h, NEW g, NEW n \in Nat, \A k \in 1 .. n : g[k] = h[k]
    PROVE  /\ \A names : Before(g, n, names) = Before(h, n, names)
           /\ \A names : Newest(g, n, names) = Newest(h, n, names)
           /\ \A names : Before(h, n, names) \subseteq 1 .. n /\ Newest(h, n, names) \subseteq 1 .. n
  <1>1. \A names : Before(g, n, names) = Before(h, n, names)
    BY DEF Before
  <1>2. \A names : Newest(g, n, names) = Newest(h, n, names)
    BY <1>1 DEF Newest
  <1> QED
    BY <1>1, <1>2 DEF Before, Newest

FoldedOf(p, m, s, h, n) == FoldedLines(p, s, h, n) /\ FoldedPhases(p, h, n) /\ FoldedRest(p, m, s, h, n)

(* A longer log folds into the same page, up to where it was read.         *)
LEMMA FoldedSame ==
    ASSUME NEW p, NEW m, NEW s, NEW h, NEW g, NEW n \in Nat, \A k \in 1 .. n : g[k] = h[k],
           FoldedOf(p, m, s, h, n)
    PROVE  FoldedOf(p, m, s, g, n)
  <1>1. /\ \A names : Before(g, n, names) = Before(h, n, names)
        /\ \A names : Newest(g, n, names) = Newest(h, n, names)
        /\ \A names : Before(h, n, names) \subseteq 1 .. n /\ Newest(h, n, names) \subseteq 1 .. n
    BY SameBefore
  <1>2. FoldedLines(p, s, g, n)
    BY <1>1 DEF FoldedOf, FoldedLines
  <1>3. FoldedPhases(p, g, n)
    BY <1>1 DEF FoldedOf, FoldedPhases
  <1>4. FoldedRest(p, m, s, g, n)
    BY <1>1 DEF FoldedOf, FoldedRest
  <1> QED
    BY <1>2, <1>3, <1>4 DEF FoldedOf

(* One event more, folded into the page.                                   *)
LEMMA FoldedOneMore ==
    ASSUME NEW s \in Ids, NEW h \in Seq(Tagged(s)), Shape(h), NEW n \in Nat, n + 1 \in DOMAIN h,
           h[n + 1].name # "ended", NEW p, NEW q, NEW m, NEW m1,
           Reduces(s, h[n + 1], p, q), m1 <=> (m /\ h[n + 1].name # "ttl"),
           FoldedOf(p, m, s, h, n)
    PROVE  FoldedOf(q, m1, s, h, n + 1)
  <1> DEFINE e == h[n + 1]
  <1>0. e \in Tagged(s) /\ e.of = s
        /\ e.name \in {"log", "phase", "preview", "terminal", "ttl", "ended"}
    <2>1. e \in Tagged(s)
      BY ElementOfSeq, LenProperties
    <2> HIDE DEF e
    <2> QED
      BY <2>1 DEF Tagged
  <1>a. /\ Len(h) \in Nat /\ DOMAIN h = 1 .. Len(h) /\ n + 1 \in 1 .. Len(h)
    BY LenProperties
  <1>1. FoldedLines(q, s, h, n + 1)
    <2>1. CASE e.name # "log"
      <3>1. q.logs = p.logs
        BY <2>1 DEF Reduces
      <3>2. Before(h, n + 1, {"log"}) = Before(h, n, {"log"}) /\ Newest(h, n + 1, {"log"}) = Newest(h, n, {"log"})
        BY <2>1, OneMore
      <3> QED
        BY <3>1, <3>2 DEF FoldedOf, FoldedLines
    <2>2. CASE e.name = "log"
      <3>1. q.logs = AddLog(p.logs, e)
        BY <2>2 DEF Reduces
      <3>2. n + 1 \in Before(h, n + 1, {"log"}) /\ Newest(h, n + 1, {"log"}) = {n + 1}
        <4> DEFINE names == {"log"}
        <4>1. h[n + 1].name \in names
          BY <2>2
        <4> HIDE DEF names
        <4>2. Before(h, n + 1, names) = Before(h, n, names) \cup {n + 1}
              /\ Newest(h, n + 1, names) = {n + 1}
          BY <4>1, OneMore
        <4> QED
          BY <4>2 DEF names
      <3>3. ASSUME NEW v \in Nat, e.val = v + 1, p.logs = LastLines(Log(s, v), MaxLogLines)
            PROVE  q.logs = LastLines(Log(s, e.val), MaxLogLines)
        <4>1. e = Event("log", s, v + 1)
          BY <1>0, <2>2, <3>3 DEF Tagged, Event
        <4> QED
          BY <3>1, <3>3, <4>1, OneLineMore
      <3>4. q.logs = LastLines(Log(s, e.val), MaxLogLines)
        <4>1. CASE e.val = 1 /\ \A j \in 1 .. n : h[j].name # "log"
          <5>1. p.logs = <<>>
            <6>1. Before(h, n, {"log"}) = {}
              BY <4>1 DEF Before
            <6> QED
              BY <6>1 DEF FoldedOf, FoldedLines
          <5>2. LastLines(Log(s, 0), MaxLogLines) = <<>>
            <6> DEFINE a == Log(s, 0)   l == LastLines(a, MaxLogLines)
            <6>1. a \in Seq(Tagged(s)) /\ Len(a) = 0 /\ MaxLogLines \in Nat
              BY ShapeOfLog, LogsAreTagged, PageAssumption
            <6> DEFINE S == Tagged(s)   r == IF Len(a) > MaxLogLines THEN MaxLogLines ELSE Len(a)
            <6> HIDE DEF a, S
            <6>2. l \in Seq(S) /\ Len(l) = r
              BY <6>1, LastOnes DEF S
            <6> HIDE DEF l
            <6>4. r = 0
              BY <6>1
            <6>3. l = <<>>
              BY <6>2, <6>4, EmptySeq
            <6> QED
              BY <6>3 DEF a, l
          <5>3. e.val = 0 + 1
            BY <4>1
          <5> QED
            BY <3>3, <5>1, <5>2, <5>3
        <4>2. CASE n + 1 > 1 /\ h[n].name = "log" /\ e.val = h[n].val + 1
          <5>1. n \in 1 .. n /\ n \in DOMAIN h
            BY <1>a, <4>2
          <5>2. h[n].val \in Nat
            BY <4>2, <5>1 DEF Shape
          <5>3. n \in Newest(h, n, {"log"})
            BY <4>2, <5>1 DEF Newest, Before
          <5>4. p.logs = LastLines(Log(s, h[n].val), MaxLogLines)
            BY <5>3 DEF FoldedOf, FoldedLines
          <5> QED
            BY <3>3, <4>2, <5>2, <5>4
        <4>3. \/ e.val = 1 /\ \A j \in 1 .. (n + 1) - 1 : h[j].name # "log"
              \/ n + 1 > 1 /\ h[(n + 1) - 1].name = "log" /\ e.val = h[(n + 1) - 1].val + 1
          BY <2>2 DEF Shape, Lined
        <4>4. (n + 1) - 1 = n
          OBVIOUS
        <4> QED
          BY <4>1, <4>2, <4>3, <4>4
      <3> QED
        BY <3>2, <3>4 DEF FoldedLines
    <2> QED
      BY <2>1, <2>2
  <1>2. FoldedPhases(q, h, n + 1)
    <2>1. CASE e.name \notin {"phase", "preview"}
      <3>1. q.status = p.status
        BY <2>1 DEF Reduces
      <3>2. Newest(h, n + 1, {"phase", "preview"}) = Newest(h, n, {"phase", "preview"})
        BY <2>1, OneMore
      <3> QED
        BY <3>1, <3>2 DEF FoldedOf, FoldedPhases
    <2>2. CASE e.name \in {"phase", "preview"}
      <3>1. q.status \in {e.val, "ended"}
        BY <2>2 DEF Reduces
      <3>2. Newest(h, n + 1, {"phase", "preview"}) = {n + 1}
        <4> DEFINE names == {"phase", "preview"}
        <4>1. h[n + 1].name \in names
          BY <2>2
        <4> HIDE DEF names
        <4>2. Newest(h, n + 1, names) = {n + 1}
          BY <4>1, OneMore
        <4> QED
          BY <4>2 DEF names
      <3> QED
        BY <3>1, <3>2 DEF FoldedPhases
    <2> QED
      BY <2>1, <2>2
  <1>3. FoldedRest(q, m1, s, h, n + 1)
    <2>1. Before(h, n + 1, {"terminal"}) # {} => q.ready
      <3>1. CASE e.name = "terminal"
        <4>1. e.val = TRUE /\ q.ready = e.val
          BY <3>1 DEF Reduces, Shape
        <4> QED
          BY <4>1
      <3>2. CASE e.name # "terminal"
        <4>1. q.ready = p.ready
          BY <3>2 DEF Reduces
        <4>2. Before(h, n + 1, {"terminal"}) = Before(h, n, {"terminal"})
          BY <3>2, OneMore
        <4> QED
          BY <4>1, <4>2 DEF FoldedOf, FoldedRest
      <3> QED
        BY <3>1, <3>2
    <2>2. Before(h, n + 1, {"preview"}) # {} => q.preview # None \/ q.status = "ended"
      <3>1. CASE e.name = "preview"
        <4>1. s # None
          BY PageAssumption DEF Ids
        <4> QED
          BY <3>1, <4>1 DEF Reduces
      <3>2. CASE e.name # "preview"
        <4>1. q.preview = p.preview /\ (p.status = "ended" => q.status = "ended")
          BY <3>2 DEF Reduces
        <4>2. Before(h, n + 1, {"preview"}) = Before(h, n, {"preview"})
          BY <3>2, OneMore
        <4> QED
          BY <4>1, <4>2 DEF FoldedOf, FoldedRest
      <3> QED
        BY <3>1, <3>2
    <2>3. m1 \/ Before(h, n + 1, {"ttl"}) = {}
             \/ \E k \in Newest(h, n + 1, {"ttl"}) : q.expiry = s /\ (h[k].val = TRUE => q.extended)
      <3>1. CASE e.name = "ttl"
        <4> DEFINE names == {"ttl"}
        <4>1. h[n + 1].name \in names
          BY <3>1
        <4> HIDE DEF names
        <4>2. Newest(h, n + 1, names) = {n + 1}
          BY <4>1, OneMore
        <4>3. q.expiry = s /\ q.extended = e.val
          BY <3>1 DEF Reduces
        <4> QED
          BY <4>2, <4>3 DEF names
      <3>2. CASE e.name # "ttl"
        <4>1. q.expiry = p.expiry /\ q.extended = p.extended /\ (m1 <=> m)
          BY <3>2 DEF Reduces
        <4>2. /\ Before(h, n + 1, {"ttl"}) = Before(h, n, {"ttl"})
              /\ Newest(h, n + 1, {"ttl"}) = Newest(h, n, {"ttl"})
          BY <3>2, OneMore
        <4> QED
          BY <4>1, <4>2 DEF FoldedOf, FoldedRest
      <3> QED
        BY <3>1, <3>2
    <2> QED
      BY <2>1, <2>2, <2>3 DEF FoldedRest
  <1> QED
    BY <1>1, <1>2, <1>3 DEF FoldedOf

(* The page stays the fold of what its stream has brought.                 *)
LEMMA FoldedKept ==
    ASSUME PageTypes, Tagging, Holding, Histories, Following, Folded, Tagging', Grows \/ Crash,
           [Next]_vars
    PROVE  Folded'
  <1>1. ASSUME es'.st # "open" PROVE Folded'
    BY <1>1 DEF Folded
  <1>f. Folded <=> (es.st = "open" /\ es.follows =>
                        FoldedOf(page, misled, es.of, hist[es.of], es.cursor))
    BY DEF Folded, FoldedOf
  <1>g. ASSUME es'.st = "open" /\ es'.follows =>
                   FoldedOf(page', misled', es'.of, hist'[es'.of], es'.cursor)
        PROVE  Folded'
    BY <1>g DEF Folded, FoldedOf
  <1>2. ASSUME UNCHANGED <<page, es, misled>>, Grows PROVE Folded'
    <2> SUFFICES ASSUME es.st = "open", es.follows
                 PROVE  FoldedOf(page, misled, es.of, hist'[es.of], es.cursor)
      BY <1>2, <1>g
    <2>0. es.of \in Ids /\ es.cursor \in Nat
      BY <1>2, OpenOnes DEF Tagging
    <2>1. /\ Len(hist[es.of]) \in Nat /\ es.cursor <= Len(hist[es.of])
          /\ \A k \in 1 .. Len(hist[es.of]) : hist'[es.of][k] = hist[es.of][k]
      BY <1>2, <2>0, Longer DEF Following
    <2>2. \A k \in 1 .. es.cursor : hist'[es.of][k] = hist[es.of][k]
      BY <2>0, <2>1
    <2> QED
      BY <1>f, <2>0, <2>2, FoldedSame
  <1>c. \A s : ConnectTo(s).st = "connecting" /\ Disconnected.st = "none"
    BY DEF ConnectTo, Disconnected
  <1>3. ASSUME Crash PROVE Folded'
    BY <1>1, <1>3, <1>c DEF Crash, Broken
  <1>4. ASSUME Obtain \/ Restart \/ Return \/ StreamCloses \/ Drop PROVE Folded'
    BY <1>1, <1>4, <1>c DEF Obtain, Restart, Return, SetUp, StreamCloses, Drop, Broken
  <1>5. ASSUME SetupFails \/ extend PROVE UNCHANGED <<page, es, misled>>
    BY <1>5 DEF SetupFails, extend
  <1>6. ASSUME Connect PROVE Folded'
    <2> DEFINE c == ConnectTo(es.of)
    <2>0. /\ DOMAIN c = {"of", "st", "script", "follows", "cursor"}
          /\ c.of = es.of /\ c.cursor = 0 /\ c.script = <<>> /\ c.follows = FALSE
      BY Connecting
    <2>1. CASE es' = [c EXCEPT !.st = "open", !.follows = TRUE] /\ page' = reduceOpen(page)
      <3> HIDE DEF c
      <3>1. es'.cursor = 0
        BY <2>0, <2>1
      <3>2. page'.logs = <<>>
        BY <2>1 DEF reduceOpen, Tagging
      <3>3. \A h, names : Before(h, 0, names) = {} /\ Newest(h, 0, names) = {}
        BY DEF Before, Newest
      <3>4. \A h : FoldedOf(page', misled', es'.of, h, 0)
        BY <3>2, <3>3 DEF FoldedOf, FoldedLines, FoldedPhases, FoldedRest
      <3> QED
        BY <1>g, <3>1, <3>4
    <2>2. ASSUME NEW q, es' = [c EXCEPT !.st = "open", !.script = q] PROVE Folded'
      <3> HIDE DEF c
      <3>1. es'.follows = FALSE
        BY <2>0, <2>2
      <3> QED
        BY <1>g, <3>1
    <2>3. CASE es' = [es EXCEPT !.st = "failed"]
      <3>1. es'.st = "failed"
        BY <2>3 DEF Tagging
      <3> QED
        BY <1>1, <3>1
    <2> QED
      BY <1>6, <2>1, <2>2, <2>3 DEF Connect
  <1>7. ASSUME Deliver PROVE Folded'
    <2> DEFINE e == Script[es.cursor + 1]   s == es.of
    <2>1. /\ s \in Ids /\ es.st = "open" /\ es.cursor \in Nat /\ DOMAIN Script = 1 .. Len(Script)
          /\ es.cursor + 1 \in DOMAIN Script /\ Script \in Seq(Tagged(s)) /\ e \in Tagged(s)
          /\ page' = reduce(page, e) /\ misled' = (misled /\ e.name # "ttl")
          /\ UNCHANGED server
          /\ e.name = "ended" => es'.st = "closed"
          /\ e.name # "ended" =>
                  /\ es'.st = "open" /\ es'.of = s /\ es'.follows = es.follows
                  /\ es'.script = es.script /\ es'.cursor = es.cursor + 1
      BY <1>7, Delivered
    <2>2. CASE e.name = "ended"
      BY <1>1, <2>1, <2>2
    <2>3. CASE e.name # "ended" /\ es.follows
      <3> DEFINE h == hist[s]   n == es.cursor
      <3>1. Script = h
        BY <2>3 DEF Script
      <3>2. Reduces(s, h[n + 1], page, page')
        <4>1. IsPage(page)
          BY DEF Tagging, IsPage
        <4>2. s \in Ids /\ e \in Tagged(s) /\ page' = reduce(page, e) /\ e = h[n + 1]
          BY <2>1, <3>1
        <4> HIDE DEF e, s, h
        <4> QED
          BY <4>1, <4>2, ReducedRest
      <3>3. /\ s \in Ids /\ h \in Seq(Tagged(s)) /\ Shape(h) /\ n \in Nat /\ n + 1 \in DOMAIN h
            /\ h[n + 1].name # "ended" /\ (misled' <=> (misled /\ h[n + 1].name # "ttl"))
        BY <2>1, <2>3, <3>1 DEF Histories
      <3>4. FoldedOf(page, misled, s, h, n)
        BY <1>f, <2>1, <2>3
      <3>5. es'.of = s /\ es'.cursor = n + 1 /\ hist'[s] = h
        BY <2>1, <2>3 DEF server
      <3> HIDE DEF h, n, s, e
      <3>6. FoldedOf(page', misled', s, h, n + 1)
        BY <3>2, <3>3, <3>4, FoldedOneMore
      <3> QED
        BY <1>g, <3>5, <3>6
    <2>4. CASE e.name # "ended" /\ ~es.follows
      BY <1>g, <2>1, <2>4
    <2> QED
      BY <2>2, <2>3, <2>4
  <1>8. ASSUME NEW s \in Ids, Extended(s) PROVE Folded'
    <2>1. /\ page' = reduceExtended(page, s) /\ misled' = (misled \/ s # activeId)
          /\ UNCHANGED <<hist, es>>
      BY <1>8 DEF Extended, server
    <2>2. /\ page'.status = page.status /\ page'.logs = page.logs /\ page'.preview = page.preview
          /\ page'.ready = page.ready /\ page'.expiry = s /\ page'.extended = TRUE
      BY <2>1 DEF reduceExtended, Tagging
    <2> SUFFICES ASSUME es.st = "open", es.follows
                 PROVE  FoldedOf(page', misled', es.of, hist[es.of], es.cursor)
      BY <1>g, <2>1
    <2>3. FoldedOf(page, misled, es.of, hist[es.of], es.cursor)
      BY <1>f
    <2>4. es.of = activeId
      BY DEF Holding
    <2>5. FoldedLines(page', es.of, hist[es.of], es.cursor)
      BY <2>2, <2>3 DEF FoldedOf, FoldedLines
    <2>6. FoldedPhases(page', hist[es.of], es.cursor)
      BY <2>2, <2>3 DEF FoldedOf, FoldedPhases
    <2>7. FoldedRest(page', misled', es.of, hist[es.of], es.cursor)
      BY <2>1, <2>2, <2>3, <2>4 DEF FoldedOf, FoldedRest
    <2> QED
      BY <2>5, <2>6, <2>7 DEF FoldedOf
  <1> QED
    <2>1. CASE Next /\ ~Crash
      BY <1>2, <1>4, <1>5, <1>6, <1>7, <1>8, <2>1, OthersLeaveThePage DEF Next, Stream
    <2>2. CASE UNCHANGED vars
      BY <1>2, <1>3, <2>2, OthersLeaveThePage
    <2> QED
      BY <1>3, <2>1, <2>2

CaughtInv == PageInv /\ Histories /\ Backing /\ Grounded /\ Following /\ Folded

(* They hold at first.                                                     *)
LEMMA CaughtStarts == Init => Histories /\ Backing /\ Grounded /\ Following /\ Folded
  <1> SUFFICES ASSUME Init PROVE Histories /\ Backing /\ Grounded /\ Following /\ Folded
    OBVIOUS
  <1>0. /\ \A s \in Ids : hist[s] = <<>> /\ stage[s] = "none" /\ rec[s] = NoRow /\ xcall[s] = "idle"
        /\ live = {} /\ DOMAIN xcall = Ids /\ activeId = None /\ page = initialState
        /\ es = Disconnected
    BY DEF Init
  <1>1. Histories
    <2>1. DOMAIN <<>> = {}
      OBVIOUS
    <2>2. \A s \in Ids : Shape(hist[s])
      BY <1>0, <2>1 DEF Shape, Lined
    <2>3. \A s \in Ids : Early(s)
      <3> TAKE s \in Ids
      <3>1. ~Has(hist[s], "log") /\ ~Has(hist[s], "ttl") /\ ~Granted(hist[s])
        BY <1>0, <2>1 DEF Has, Granted
      <3>2. NoRow.status = "none"
        BY DEF NoRow
      <3> QED
        BY <1>0, <3>1, <3>2 DEF Early
    <2> QED
      BY <1>0, <2>2, <2>3 DEF Histories
  <1>2. Backing
    BY <1>0 DEF Backing
  <1>3. Grounded
    BY <1>0 DEF Grounded, initialState
  <1>4. Following /\ Folded
    BY <1>0 DEF Following, Folded, Disconnected
  <1> QED
    BY <1>1, <1>2, <1>3, <1>4

(* A page that has read all there is of a live stream shows what the       *)
(* history says, however often it was disconnected or set up in between,   *)
(* and of an extension what the record says, unless the history itself was *)
(* overtaken by it (server.go:240-241, session.go:293-295, reducer.ts).    *)
THEOREM ReconnectsCatchUp == Spec => []CaughtUp
  <1>1. ASSUME CaughtInv, PageInv', [Next]_vars
        PROVE  CaughtInv'
    <2> USE <1>1 DEF CaughtInv, PageInv
    <2>1. Histories' /\ (Grows \/ Crash)
      BY HistoriesKept
    <2>2. Backing'
      BY <2>1, BackingKept
    <2>3. Grounded'
      BY <2>1, GroundedKept
    <2>4. Following'
      BY <2>1, FollowingKept
    <2>5. Folded'
      BY <2>1, FoldedKept
    <2> QED
      BY <2>1, <2>2, <2>3, <2>4, <2>5
  <1>2. CaughtInv => CaughtUp
    <2> SUFFICES ASSUME CaughtInv, es.st = "open", es.follows, es.cursor = Len(Script)
                 PROVE  CaughtUp
      BY DEF CaughtUp
    <2> DEFINE h == hist[es.of]   n == Len(h)   s == es.of
    <2>1. /\ s \in Ids /\ s = activeId /\ h \in Seq(Tagged(s)) /\ n \in Nat /\ DOMAIN h = 1 .. n
          /\ Script = h /\ es.cursor = n /\ Shape(h)
      <3>1. s \in Ids /\ Script \in Seq(Tagged(s)) /\ s = activeId /\ Script = h
        BY ScriptTagged DEF CaughtInv, PageInv, Script, Holding
      <3> QED
        BY <3>1, LenProperties DEF CaughtInv, Histories
    <2>2. s \in live
      BY <2>1 DEF CaughtInv, Following
    <2>3. FoldedOf(page, misled, s, h, n)
      BY <2>1 DEF CaughtInv, Folded, FoldedOf
    <2> DEFINE ahead == stage[s] = "announcing"
    <2>4. /\ page.preview # None => Has(h, "preview")
          /\ page.ready => Has(h, "terminal") \/ ahead
          /\ misled \/ /\ page.expiry # None => Has(h, "ttl") \/ ahead
                       /\ page.extended => Granted(h)
          /\ Granted(h) <=> rec[s].extended
      <3>1. Early(s) /\ Backs(h, stage[s], rec[s]) /\ rec[s] \in Rows
        BY <2>1, <2>2 DEF CaughtInv, Histories, Backing, PageInv, PageTypes
      <3>2. Granted(h) <=> rec[s].extended
        BY <3>1 DEF Early, Backs, Rows, Granted
      <3> QED
        BY <2>1, <2>2, <3>2 DEF CaughtInv, Grounded
    <2> DEFINE At(names) == {k \in DOMAIN h : h[k].name \in names}
               Latest(names) == {k \in At(names) : \A l \in At(names) : l <= k}
    <2>5. (\A names : At(names) = Before(h, n, names)) /\ (\A names : Latest(names) = Newest(h, n, names))
      BY <2>1 DEF Before, Newest
    <2>6. \A m : Has(h, m) <=> At({m}) # {}
      BY DEF Has
    <2> HIDE DEF h, n, s, ahead
    <2>7. /\ At({"log"}) = {} => page.logs = <<>>
          /\ \A k \in Latest({"log"}) : page.logs = LastLines(Log(s, h[k].val), MaxLogLines)
      BY <2>3, <2>5 DEF FoldedOf, FoldedLines
    <2>8. \A k \in Latest({"phase", "preview"}) : page.status \in {h[k].val, "ended"}
      BY <2>3, <2>5 DEF FoldedOf, FoldedPhases
    <2>9. /\ page.ready => At({"terminal"}) # {} \/ ahead
          /\ At({"terminal"}) # {} => page.ready
          /\ page.preview # None => At({"preview"}) # {}
          /\ At({"preview"}) # {} => page.preview # None \/ page.status = "ended"
      BY <2>3, <2>4, <2>5, <2>6 DEF FoldedOf, FoldedRest
    <2>10. \/ misled
           \/ IF At({"ttl"}) = {} THEN page.expiry = None \/ ahead ELSE page.expiry = s
      BY <2>3, <2>4, <2>5, <2>6 DEF FoldedOf, FoldedRest
    <2>11. \/ misled \/ Overtaken(h)
           \/ /\ page.extended <=> \E k \in Latest({"ttl"}) : h[k].val
              /\ page.extended <=> rec[s].extended
      <3> SUFFICES ASSUME ~misled, ~Overtaken(h)
                   PROVE  /\ page.extended <=> \E k \in Latest({"ttl"}) : h[k].val
                          /\ page.extended <=> rec[s].extended
        OBVIOUS
      <3> DEFINE told == \E k \in Latest({"ttl"}) : h[k].val
      <3>1. told => Granted(h)
        <4>1. \A k \in Latest({"ttl"}) : k \in 1 .. n /\ h[k].name = "ttl" /\ h[k].val \in BOOLEAN
          BY <2>1, <2>5 DEF Newest, Before, Shape
        <4> QED
          BY <2>1, <4>1 DEF Granted
      <3>2. Granted(h) => told /\ page.extended
        <4> HAVE Granted(h)
        <4>1. PICK j \in 1 .. n : h[j].name = "ttl" /\ h[j].val = TRUE
          BY <2>1 DEF Granted
        <4>2. j \in Before(h, n, {"ttl"})
          BY <4>1 DEF Before
        <4>3. PICK k \in Newest(h, n, {"ttl"}) : page.expiry = s /\ (h[k].val = TRUE => page.extended)
          BY <2>3, <4>2 DEF FoldedOf, FoldedRest
        <4>4. k \in 1 .. n /\ h[k].name = "ttl" /\ j <= k
          BY <4>2, <4>3 DEF Newest, Before
        <4>5. h[k].val \in BOOLEAN
          BY <2>1, <4>4 DEF Shape
        <4>6. h[k].val = TRUE
          <5> SUFFICES ASSUME h[k].val = FALSE PROVE FALSE
            BY <4>5
          <5>1. j < k
            BY <2>1, <4>1, <4>4
          <5> QED
            BY <2>1, <4>1, <4>4, <5>1 DEF Overtaken
        <4> QED
          BY <2>5, <4>3, <4>6
      <3>3. page.extended => Granted(h)
        BY <2>4
      <3> HIDE DEF told
      <3>4. (page.extended <=> told) /\ (page.extended <=> rec[s].extended)
        BY <2>4, <3>1, <3>2, <3>3
      <3> QED
        BY <3>4 DEF told
    <2> QED
      BY <2>1, <2>7, <2>8, <2>9, <2>10, <2>11 DEF CaughtUp, s, ahead
  <1>3. Init => Histories /\ Backing /\ Grounded /\ Following /\ Folded
    BY CaughtStarts
  <1>4. PageInv /\ Histories /\ Backing /\ Grounded /\ Following /\ Folded <=> CaughtInv
    BY DEF CaughtInv
  <1> QED
    BY <1>1, <1>2, <1>3, <1>4, PageInvariant, PTL DEF Spec
================================================================================
