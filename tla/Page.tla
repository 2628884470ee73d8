---------------------------------- MODULE Page ----------------------------------
(***************************************************************************)
(* web/src/sse: the session page (useSession.ts) and what it shows         *)
(* (reducer.ts), against the API and the event streams of its sessions:    *)
(* create or load a session, retry while the server is busy, replay the    *)
(* whole history on every connection, extend, restart, come back.          *)
(*                                                                         *)
(* All sessions are of one device. Of a session the server side keeps what *)
(* a page can tell: its record, the log of events and whether m.live still *)
(* has it; Session.tla has the rest. Events that run emits in a row are    *)
(* one action, since a stream is read one event at a time. An event or a   *)
(* shown value is tagged with the session it is about. The effects that    *)
(* React runs after a dispatch belong to the action that dispatched.       *)
(***************************************************************************)
EXTENDS Integers, Sequences, SequencesExt

CONSTANTS
    MaxSessions,    \* bound: sessions created
    MaxVisits,      \* bound: times the page sets up (generation, mounts)
    Built,          \* sessions whose commit was built before
    Web,            \* sessions whose commit serves a preview
    Lines,          \* bound: log lines of a build
    MaxLogLines,    \* MAX_LOG_LINES
    Retries,        \* BUSY_RETRY_DELAYS_MS.length
    MaxFaults,      \* bound: restarts of the server and broken connections
    Stores,         \* which stores the server may have
    None

ASSUME PageAssumption ==
    /\ {MaxSessions, MaxVisits, MaxLogLines} \subseteq Nat \ {0}
    /\ {Lines, Retries, MaxFaults} \subseteq Nat
    /\ Stores \subseteq {"postgres", "memory"}
    /\ None \notin 1 .. MaxSessions

Ids == 1 .. MaxSessions
Visits == 1 .. MaxVisits

VARIABLES
    stage,      \* per session: where its run is
    rec,        \* per session: its row of the sessions table
    hist,       \* per session: the events of its log
    done,       \* sessions whose log is finished
    live,       \* keys of m.live
    dying,      \* sessions whose record terminate has ended and not told yet
    call,       \* per visit: its GET or POST of a session
    xcall,      \* per session: the page's extend request
    visit,      \* the visit under way; the calls of others are cancelled
    url,        \* the id in the page's address
    activeId,   \* activeId.current
    setup,      \* the hook's setup phase
    page,       \* SessionState
    es,         \* the EventSource
    dropped,    \* history: the sessions this page restarted away from
    misled,     \* history: an extend answer changed another session's page
    faults      \* restarts of the server and connections broken so far

server == <<stage, rec, hist, done, live, dying>>
browser == <<visit, url, activeId, setup, dropped>>
vars == <<server, call, xcall, browser, page, es, misled, faults>>

(* The stages at which run may turn to the end.                            *)
Working == {"follow", "building", "replay", "starting", "live"}

Event(name, s, val) == [name |-> name, of |-> s, val |-> val]
Log(s, n) == [i \in 1 .. n |-> Event("log", s, i)]

NoRow == [status |-> "none", web |-> FALSE, ready |-> FALSE, extended |-> FALSE]
LiveRows == {s \in Ids : rec[s].status \in {"building", "starting", "live"}}

initialState ==
    [status |-> "pending", logs |-> <<>>, preview |-> None, ready |-> FALSE,
     expiry |-> None, extended |-> FALSE, reason |-> None, connection |-> "idle"]

Disconnected == [of |-> None, st |-> "none", script |-> <<>>, follows |-> FALSE, cursor |-> 0]
ConnectTo(s) == [Disconnected EXCEPT !.of = s, !.st = "connecting"]

Idle == [pc |-> "idle", wanted |-> None, attempt |-> 0, got |-> None, row |-> NoRow]
Load(u) == [Idle EXCEPT !.pc = IF u = None THEN "create" ELSE "get", !.wanted = u]

Init ==
    /\ stage = [s \in Ids |-> "none"]
    /\ rec = [s \in Ids |-> NoRow]
    /\ hist = [s \in Ids |-> <<>>]
    /\ done = {} /\ live = {} /\ dying = {}
    /\ call = [v \in Visits |-> IF v = 1 THEN Load(None) ELSE Idle]
    /\ xcall = [s \in Ids |-> "idle"]
    /\ visit = 1 /\ url = None /\ activeId = None /\ setup = "creating"
    /\ page = initialState
    /\ es = Disconnected
    /\ dropped = {} /\ misled = FALSE
    /\ faults = 0

-------------------------------------------------------------------------------
(* Manager.run, as a listener hears it.                                    *)

Emit(s, evs) == hist' = [hist EXCEPT ![s] = @ \o evs]

(* follow tells a build that is not ready yet and forwards its log.        *)
Follow(s) ==
    /\ stage[s] = "follow"
    /\ \E n \in {1, Lines} : Emit(s, <<Event("phase", s, "building")>> \o Log(s, n))
    /\ stage' = [stage EXCEPT ![s] = "building"]
    /\ UNCHANGED <<rec, done, live, dying>>

(* The build is ready. A visitor who heard nothing of it gets its stored   *)
(* log. Records are written from run's own copy.                           *)
MarkStarting(s) ==
    /\ stage[s] \in {"building", "replay"}
    /\ Emit(s, (IF Len(hist[s]) <= 1 THEN Log(s, Lines) ELSE <<>>)
               \o <<Event("phase", s, "starting")>>)
    /\ rec' = [rec EXCEPT ![s] = [NoRow EXCEPT !.status = "starting"]]
    /\ stage' = [stage EXCEPT ![s] = "starting"]
    /\ UNCHANGED <<done, live, dying>>

(* The sandbox is up: its preview is told, the record goes live, and then  *)
(* the rest is told. An extension may be granted, and told, in between.    *)
ExposePort(s) ==
    /\ stage[s] = "starting"
    /\ Emit(s, IF s \in Web THEN <<Event("preview", s, "live")>> ELSE <<>>)
    /\ stage' = [stage EXCEPT ![s] = "exposed"]
    /\ UNCHANGED <<rec, done, live, dying>>

GoLive(s) ==
    /\ stage[s] = "exposed"
    /\ rec' = [rec EXCEPT ![s] =
                    [status |-> "live", web |-> s \in Web, ready |-> TRUE, extended |-> FALSE]]
    /\ stage' = [stage EXCEPT ![s] = "announcing"]
    /\ UNCHANGED <<hist, done, live, dying>>

Announce(s) ==
    /\ stage[s] = "announcing"
    /\ Emit(s, <<Event("terminal", s, TRUE), Event("ttl", s, FALSE), Event("phase", s, "live")>>)
    /\ stage' = [stage EXCEPT ![s] = "live"]
    /\ UNCHANGED <<rec, done, live, dying>>

(* end, called when the build or the restore fails and from the watch      *)
(* loop: a record that terminate ended is left to terminate to tell.       *)
EndRecord(s) ==
    /\ stage[s] \in Working
    /\ IF rec[s].status = "ended"
       THEN /\ done' = done \cup {s}
            /\ stage' = [stage EXCEPT ![s] = "over"]
            /\ UNCHANGED rec
       ELSE /\ rec' = [rec EXCEPT ![s].status = "ended"]
            /\ stage' = [stage EXCEPT ![s] = "ending"]
            /\ UNCHANGED done
    /\ UNCHANGED <<hist, live, dying>>

EndTell(s) ==
    /\ stage[s] = "ending"
    /\ Emit(s, <<Event("ended", s, None)>>)
    /\ done' = done \cup {s}
    /\ live' = live \ {s}
    /\ stage' = [stage EXCEPT ![s] = "over"]
    /\ UNCHANGED <<rec, dying>>

Run(s) ==
    /\ Follow(s) \/ MarkStarting(s) \/ ExposePort(s) \/ GoLive(s) \/ Announce(s) \/ EndRecord(s)
    /\ UNCHANGED <<call, xcall, browser, page, es, misled, faults>>

Told(s) ==
    /\ EndTell(s)
    /\ UNCHANGED <<call, xcall, browser, page, es, misled, faults>>

-------------------------------------------------------------------------------
(* The API, as request (client.ts) sees it.                                *)

Answer(v, c) == call' = [call EXCEPT ![v] = c]
OnlyCall == UNCHANGED <<xcall, browser, page, es, misled, faults>>

(* GET of the id in the address: the record, or 404 and a new session, or  *)
(* another error.                                                          *)
HandleGet(v) ==
    LET c == call[v] IN
    /\ c.pc = "get"
    /\ \/ /\ rec[c.wanted].status # "none"
          /\ Answer(v, [c EXCEPT !.pc = "ok", !.got = c.wanted, !.row = rec[c.wanted]])
       \/ /\ rec[c.wanted].status = "none"
          /\ Answer(v, [c EXCEPT !.pc = "create"])
       \/ Answer(v, [c EXCEPT !.pc = "error"])
    /\ UNCHANGED server /\ OnlyCall

(* POST, refused: request backs off while the code is busy and a slot of   *)
(* the schedule is left, and gives up on every other error.                *)
HandleBusy(v) ==
    LET c == call[v] IN
    /\ c.pc = "create"
    /\ \/ /\ c.attempt < Retries
          /\ Answer(v, [c EXCEPT !.pc = "sleep"])
       \/ Answer(v, [c EXCEPT !.pc = "error"])
    /\ UNCHANGED server /\ OnlyCall

(* A slip: the attempts are not counted.                                   *)
WakeUpUncounted(v) ==
    /\ call[v].pc = "sleep"
    /\ Answer(v, [call[v] EXCEPT !.pc = "create"])
    /\ UNCHANGED server /\ OnlyCall

WakeUp(v) ==
    /\ call[v].pc = "sleep"
    /\ Answer(v, [call[v] EXCEPT !.pc = "create", !.attempt = @ + 1])
    /\ UNCHANGED server /\ OnlyCall

(* POST, admitted: the device's live sessions are replaced first. The      *)
(* records go before the listeners are told.                               *)
Terminate(v) ==
    /\ call[v].pc = "create" /\ LiveRows # {}
    /\ rec' = [s \in Ids |-> IF s \in LiveRows THEN [rec[s] EXCEPT !.status = "ended"] ELSE rec[s]]
    /\ dying' = dying \cup LiveRows
    /\ UNCHANGED <<stage, hist, done, live, call>> /\ OnlyCall

TerminateTell(s) ==
    /\ s \in dying
    /\ dying' = dying \ {s}
    /\ live' = live \ {s}
    /\ IF s \in live
       THEN Emit(s, <<Event("ended", s, None)>>) /\ done' = done \cup {s}
       ELSE UNCHANGED <<hist, done>>
    /\ UNCHANGED <<stage, rec, call>> /\ OnlyCall

(* Its commit may be built already.                                        *)
HandleCreate(v) ==
    /\ call[v].pc = "create" /\ LiveRows = {} /\ dying = {}
    /\ \E s \in Ids :
        /\ stage[s] = "none" /\ \A t \in 1 .. s - 1 : stage[t] # "none"
        /\ stage' = [stage EXCEPT ![s] = IF s \in Built THEN "replay" ELSE "follow"]
        /\ rec' = [rec EXCEPT ![s].status = IF s \in Built THEN "starting" ELSE "building"]
        /\ live' = live \cup {s}
        /\ Answer(v, [call[v] EXCEPT !.pc = "ok", !.got = s, !.row = rec'[s]])
    /\ UNCHANGED <<hist, done, dying>> /\ OnlyCall

(* Manager.Extend: once, of a live session; listeners are told.            *)
HandleExtend(s) ==
    LET Hear(answer) == xcall' = [xcall EXCEPT ![s] = IF @ = "lost" THEN "idle" ELSE answer] IN
    /\ xcall[s] \in {"sent", "lost"}
    /\ \/ /\ rec[s].status = "live" /\ ~rec[s].extended
          /\ rec' = [rec EXCEPT ![s].extended = TRUE]
          /\ IF s \in live THEN Emit(s, <<Event("ttl", s, TRUE)>>) ELSE UNCHANGED hist
          /\ Hear("granted")
       \/ UNCHANGED <<rec, hist>> /\ Hear("idle")
    /\ UNCHANGED <<stage, done, live, dying, call, browser, page, es, misled, faults>>

-------------------------------------------------------------------------------
(* reducer.ts.                                                             *)

LastLines(lines, n) == SubSeq(lines, IF Len(lines) > n THEN Len(lines) - n + 1 ELSE 1, Len(lines))

AddLog(logs, e) == Append(LastLines(logs, MaxLogLines - 1), e)

reducePhase(p, e) == IF p.status = "ended" THEN p ELSE [p EXCEPT !.status = e.val]

(* What an event of the stream does. The "error" event and the messages    *)
(* and the build's status are left out.                                    *)
reduce(p, e) ==
    CASE e.name = "log"      -> [p EXCEPT !.logs = AddLog(@, e)]
      [] e.name = "phase"    -> reducePhase(p, e)
      [] e.name = "preview"  -> IF p.status = "ended" THEN p
                                ELSE [p EXCEPT !.status = e.val, !.preview = e.of]
      [] e.name = "terminal" -> [p EXCEPT !.ready = e.val]
      [] e.name = "ttl"      -> [p EXCEPT !.expiry = e.of, !.extended = e.val]
      [] e.name = "ended"    -> [p EXCEPT !.status = "ended", !.reason = e.of, !.ready = FALSE]

(* The REST snapshot of session s: fields it does not have keep theirs.    *)
reduceSession(p, s, row) ==
    [p EXCEPT !.status = row.status,
              !.preview = IF row.web THEN s ELSE @,
              !.ready = row.ready \/ @,
              !.expiry = IF row.ready THEN s ELSE @,
              !.extended = row.extended \/ @,
              !.reason = IF row.status = "ended" THEN s ELSE @]

reduceExtended(p, s) == [p EXCEPT !.expiry = s, !.extended = TRUE]

(* A slip: the lines of the last connection are kept.                      *)
reduceOpenKeeps(p) == [p EXCEPT !.connection = "open"]

(* The server replays the history on every connection.                     *)
reduceOpen(p) == [p EXCEPT !.connection = "open", !.logs = <<>>]
reduceError(p) == [p EXCEPT !.connection = "reconnecting"]

-------------------------------------------------------------------------------
(* useSession, flow 1: obtain a session.                                   *)

(* A slip: answers of a visit that is over are taken too.                  *)
ObtainAny ==
    \E v \in Visits :
        /\ call[v].pc = "ok"
        /\ activeId' = call[v].got /\ url' = call[v].got
        /\ page' = reduceSession(page, call[v].got, call[v].row)
        /\ setup' = "ready"
        /\ es' = ConnectTo(call[v].got)
        /\ call' = [call EXCEPT ![v] = Idle]
        /\ UNCHANGED <<server, xcall, visit, dropped, misled, faults>>

(* The answer of the visit under way; the others were cancelled. The id    *)
(* goes into the address, and the effect that this runs again finds that   *)
(* the page holds the session already.                                     *)
Obtain ==
    LET c == call[visit] IN
    /\ c.pc = "ok"
    /\ activeId' = c.got /\ url' = c.got
    /\ page' = reduceSession(page, c.got, c.row)
    /\ setup' = "ready"
    /\ es' = ConnectTo(c.got)
    /\ call' = [call EXCEPT ![visit] = Idle]
    /\ UNCHANGED <<server, xcall, visit, dropped, misled, faults>>

SetupFails ==
    /\ call[visit].pc = "error"
    /\ setup' = "failed"
    /\ call' = [call EXCEPT ![visit] = Idle]
    /\ UNCHANGED <<server, xcall, visit, url, activeId, dropped, page, es, misled, faults>>

(* A new setup, with an empty page.                                        *)
SetUp(wanted) ==
    /\ visit < MaxVisits
    /\ visit' = visit + 1
    /\ call' = [call EXCEPT ![visit + 1] = Load(wanted)]
    /\ activeId' = None /\ setup' = "creating"
    /\ page' = initialState
    /\ es' = Disconnected
    /\ misled' = FALSE

(* The page shows "The build failed" before it hears that the session is   *)
(* over; the build's status being left out, it may be so at any time.      *)
BuildMayHaveFailed == setup = "ready" /\ page.status \in {"building", "starting"}

(* A slip: the id in the address is loaded again.                          *)
RestartFromUrl ==
    /\ setup = "failed" \/ page.status = "ended" \/ BuildMayHaveFailed
    /\ SetUp(url)
    /\ dropped' = dropped \cup ({activeId} \ {None})
    /\ UNCHANGED <<server, xcall, url, faults>>

(* The visitor presses "Try again" or "Start again": the id in the address *)
(* is ignored. Answers to extend still reach this page.                    *)
Restart ==
    /\ setup = "failed" \/ page.status = "ended" \/ BuildMayHaveFailed
    /\ SetUp(None)
    /\ dropped' = dropped \cup ({activeId} \ {None})
    /\ UNCHANGED <<server, xcall, url, faults>>

(* The visitor leaves the page and comes back to it, or to a link without  *)
(* a session. What the old page asked for is still carried out, its        *)
(* answers reach nobody.                                                   *)
Return ==
    /\ \E u \in {url, None} : SetUp(u) /\ url' = u
    /\ dropped' = {}
    /\ xcall' = [s \in Ids |-> IF xcall[s] = "sent" THEN "lost" ELSE
                               IF xcall[s] = "granted" THEN "idle" ELSE xcall[s]]
    /\ UNCHANGED <<server, faults>>

-------------------------------------------------------------------------------
(* useSession, flow 2: the event stream.                                   *)

Script == IF es.follows THEN hist[es.of] ELSE es.script
OnlyStream == UNCHANGED <<server, call, xcall, browser>>

(* A slip: a session that its record does not call ended is not ended.     *)
StoryIfEnded(s) ==
    {Log(s, n) \o (IF rec[s].status = "ended" THEN <<Event("ended", s, None)>> ELSE <<>>) :
        n \in {0, Lines}}

(* What Subscribe replays of a session that m.live does not have: its      *)
(* build's stored log, and that it is over.                                *)
Story(s) == {Log(s, n) \o <<Event("ended", s, None)>> : n \in {0, Lines}}

(* Subscribe: the log of a session in m.live, else its story, else 404,    *)
(* after which a browser does not connect again.                           *)
Connect ==
    LET s == es.of IN
    /\ es.st = "connecting"
    /\ \/ /\ s \in live
          /\ es' = [ConnectTo(s) EXCEPT !.st = "open", !.follows = TRUE]
          /\ page' = reduceOpen(page)
       \/ /\ s \notin live /\ rec[s].status # "none"
          /\ \E story \in Story(s) :
                 es' = [ConnectTo(s) EXCEPT !.st = "open", !.script = story]
          /\ page' = reduceOpen(page)
       \/ /\ s \notin live /\ rec[s].status = "none"
          /\ es' = [es EXCEPT !.st = "failed"]
          /\ page' = reduceError(page)
    /\ UNCHANGED <<misled, faults>> /\ OnlyStream

(* An event is dispatched; after "ended" the page closes the EventSource.  *)
Deliver ==
    /\ es.st = "open" /\ es.cursor < Len(Script)
    /\ LET e == Script[es.cursor + 1] IN
        /\ page' = reduce(page, e)
        /\ es' = IF e.name = "ended" THEN [ConnectTo(es.of) EXCEPT !.st = "closed"]
                                      ELSE [es EXCEPT !.cursor = @ + 1]
        /\ misled' = (misled /\ e.name # "ttl")
    /\ UNCHANGED faults /\ OnlyStream

Broken ==
    /\ es' = ConnectTo(es.of)
    /\ page' = reduceError(page)

(* handleEvents returns when the log is finished and drained.              *)
StreamCloses ==
    /\ es.st = "open" /\ es.cursor = Len(Script)
    /\ es.follows => es.of \in done
    /\ Broken
    /\ UNCHANGED <<misled, faults>> /\ OnlyStream

Drop ==
    /\ es.st = "open" /\ faults < MaxFaults
    /\ faults' = faults + 1
    /\ Broken
    /\ UNCHANGED misled /\ OnlyStream

-------------------------------------------------------------------------------
(* The button is there while the page shows an expiry and no extension.    *)
extend ==
    /\ activeId # None /\ xcall[activeId] = "idle"
    /\ page.expiry # None /\ ~page.extended /\ page.status # "ended"
    /\ xcall' = [xcall EXCEPT ![activeId] = "sent"]
    /\ UNCHANGED <<server, call, browser, page, es, misled, faults>>

Extended(s) ==
    /\ xcall[s] = "granted"
    /\ xcall' = [xcall EXCEPT ![s] = "idle"]
    /\ page' = reduceExtended(page, s)
    /\ misled' = (misled \/ s # activeId)
    /\ UNCHANGED <<server, call, browser, es, faults>>

(* The server restarts. Requests under way fail, streams break, and a      *)
(* store in memory forgets the sessions.                                   *)
Crash ==
    /\ faults < MaxFaults
    /\ faults' = faults + 1
    /\ \E store \in Stores : rec' = IF store = "memory" THEN [s \in Ids |-> NoRow] ELSE rec
    /\ stage' = [s \in Ids |-> IF stage[s] = "none" THEN "none" ELSE "over"]
    /\ hist' = [s \in Ids |-> <<>>] /\ done' = {} /\ live' = {} /\ dying' = {}
    /\ call' = [v \in Visits |-> IF call[v].pc \in {"get", "create"}
                                 THEN [call[v] EXCEPT !.pc = "error"] ELSE call[v]]
    /\ xcall' = [s \in Ids |-> IF xcall[s] \in {"sent", "lost"} THEN "idle" ELSE xcall[s]]
    /\ IF es.st = "open" THEN Broken ELSE UNCHANGED <<es, page>>
    /\ UNCHANGED <<browser, misled>>

-------------------------------------------------------------------------------
Api(v) == HandleGet(v) \/ HandleBusy(v) \/ WakeUp(v) \/ Terminate(v) \/ HandleCreate(v)

Stream == Connect \/ Deliver \/ StreamCloses

Next ==
    \/ \E s \in Ids : Run(s) \/ Told(s) \/ TerminateTell(s) \/ HandleExtend(s) \/ Extended(s)
    \/ \E v \in Visits : Api(v)
    \/ Obtain \/ SetupFails \/ Restart \/ Return
    \/ Stream \/ Drop
    \/ extend \/ Crash

(* Handlers answer, an end that was recorded is told, the browser connects *)
(* and dispatches. A session need not get anywhere, and nobody has to      *)
(* press a button.                                                         *)
Fairness ==
    /\ \A v \in Visits : WF_vars(Api(v))
    /\ \A s \in Ids : WF_vars(TerminateTell(s)) /\ WF_vars(Told(s))
    /\ WF_vars(Obtain) /\ WF_vars(SetupFails)
    /\ WF_vars(Stream)

Spec == Init /\ [][Next]_vars

FairSpec == Spec /\ Fairness

-------------------------------------------------------------------------------
(* "restart drops the current session and creates a fresh one"             *)
(* (useSession.ts:32-33): whatever answers and events are under way, what  *)
(* the page shows is of the session it holds, and of none before it has    *)
(* one. The exception is the expiry, after an answer to extend came late.  *)
OwnStory ==
    /\ \A i \in DOMAIN page.logs : page.logs[i].of = activeId
    /\ {page.preview, page.reason} \subseteq {activeId, None}
    /\ page.expiry \in {activeId, None} \/ misled
    /\ activeId = None => page.status = "pending" /\ ~page.ready

(* An extension may be granted, and told, before run tells the expiry that *)
(* it wrote first (session.go:293-295): the last word of such a history is *)
(* that the session is not extended.                                       *)
Overtaken(h) ==
    \E k, l \in DOMAIN h : k < l /\ h[k].name = "ttl" /\ h[k].val /\ h[l].name = "ttl" /\ ~h[l].val

(* "the history is replayed on each connect so reconnects are safe"        *)
(* (server.go:240-241): a page that has read all there is of a live stream *)
(* shows what the history says, as if it had never been disconnected or    *)
(* loaded in between: the last lines (they are numbered) once each, the    *)
(* last status, preview, expiry and extension; and of the extension what   *)
(* the record says, unless the history was overtaken by one. A page loaded *)
(* between the write of the record and its events is ahead of the history  *)
(* with the terminal and the expiry. A page that was loaded when its       *)
(* session's row said ended, and its run had not noticed, shows no preview *)
(* that comes later (reducer.ts:97).                                       *)
CaughtUp ==
    es.st = "open" /\ es.follows /\ es.cursor = Len(Script) =>
        LET At(names) == {k \in DOMAIN Script : Script[k].name \in names}
            Latest(names) == {k \in At(names) : \A l \in At(names) : l <= k}
            ahead == stage[es.of] = "announcing"
        IN  /\ At({"log"}) = {} => page.logs = <<>>
            /\ \A k \in Latest({"log"}) :
                   page.logs = LastLines(Log(es.of, Script[k].val), MaxLogLines)
            /\ \A k \in Latest({"phase", "preview"}) : page.status \in {Script[k].val, "ended"}
            /\ page.preview # None => At({"preview"}) # {}
            /\ At({"preview"}) # {} => page.preview # None \/ page.status = "ended"
            /\ page.ready => At({"terminal"}) # {} \/ ahead
            /\ At({"terminal"}) # {} => page.ready
            /\ misled \/ IF At({"ttl"}) = {} THEN page.expiry = None \/ ahead ELSE page.expiry = es.of
            /\ \/ misled \/ Overtaken(Script)
               \/ /\ page.extended <=> \E k \in Latest({"ttl"}) : Script[k].val
                  /\ page.extended <=> rec[es.of].extended

(* A restart never brings back a session it dropped, whose id is in the    *)
(* address until the new one has an id (useSession.ts:62, 137).            *)
RestartIsFresh == activeId \notin dropped

(* "`busy` (503) responses are retried on the backoff schedule before      *)
(* surfacing" (client.ts:120-121): the page gets a session or says why not.*)
SetupSettles == setup = "creating" ~> setup # "creating"

(* Whoever ends a session, and whatever becomes of the server, the page    *)
(* that holds it says so, unless the browser gave up on its stream.        *)
EndIsShown ==
    \A s \in Ids :
        activeId = s /\ stage[s] = "over" ~>
            activeId # s \/ page.status = "ended" \/ es.st = "failed"

(* The page that says "Reconnecting to the build stream" (Session.tsx:119) *)
(* does reconnect, or says that the session ended.                         *)
ReconnectingConnects ==
    page.connection = "reconnecting" ~>
        page.connection # "reconnecting" \/ page.status = "ended"
================================================================================
