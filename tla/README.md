# A verification project for trylive

trylive opens any public repository as a running sandbox: a visitor names a
repository, the server builds its head commit once in a sandbox, snapshots it,
and gives every visitor a restore of that snapshot for a quarter of an hour.
This directory holds TLA+ models of the server's core, the TLC configurations
that check them on small instances, and machine-checked proofs about them. All
paths below are relative to the repository; line numbers refer to the commit
the modules were translated from.

## The system

| part | state | operations | talks to |
| --- | --- | --- | --- |
| `internal/fanout` | `Log[T]`: event history, done flag, registered subscribers; per subscription a goroutine, a wake channel of capacity 1 and an output channel of capacity 64 | Emit, Finish, Subscribe | its owner (builder or session) and its receivers |
| `internal/builder` | `runs` (live run per build, under `b.mu`), the semaphore `sem`; per run the build record it works on and its log | Ensure, start, execute, Subscribe; install repair loop; start-and-probe loop | store (builds), sandbox platform, fanout, LLM |
| `internal/session` | `live` (log per session, under `m.mu`); per session a `run` goroutine with its own copy of the record | Create, run, follow, rebuild, terminate, Extend, Subscribe, PTY, Get | store (sessions, builds), builder, sandbox platform, fanout |
| `internal/store` | builds, sessions and usage tables, in memory or in Postgres | whole-record create, update, read; counts and lists of live sessions; RecordVisit; IncrUsage | nobody |
| `internal/sandbox` | none (HTTP client of the platform; `fake.go` is the platform of the tests) | Create, Get, WaitReady, Pause, Delete, snapshots, Exec, PTY | the platform |
| `internal/httpapi` | metrics | REST handlers, SSE stream, websocket relay, badge | session manager, store |
| `internal/repo`, `internal/recipe` | none | parse a reference, resolve the head commit; detect, infer, repair a recipe | GitHub, LLM |
| `cmd/trylive` | none | wiring | all of them |
| `web/src` | reducer state of a session page; EventSource; the terminal and its websocket | start, events, extend, restart, retry when busy | httpapi |

How they interact. `session.Create` calls `builder.Ensure`, inserts a session
record and starts `run`. `run` follows the build through a fanout log, restores
a sandbox from the snapshot, marks the session live and polls the platform and
the table until it is over. Browsers follow the session through a second fanout
log. Nothing is shared between processes but the store and the platform, and
every update of the store writes a whole record from a copy taken earlier.

What is hard here:

- the fanout goroutine checks under the lock and sleeps after it, sends outside
  the lock, and may be cancelled in either place;
- the end of a build is five separate steps (record, finish the log,
  unregister, delete the sandbox, give back the slot), and callers join between
  any two of them;
- a build's recipe is changed under way by a model, its tools are checked on a
  PATH that its own commands change, and its port is found by looking again;
- builds fail in twelve places, by themselves, because the platform refuses or
  loses a sandbox, because time is up, or because the process dies, and the
  sandbox, the slot and the record must be right after each;
- four parties end or prolong a session (its own watch loop, a `Create` of the
  same device, `Extend`, the platform), each by writing a whole record;
- restarts keep the tables and the sandboxes and lose every goroutine;
- a page folds a REST snapshot, a replayed history and late answers to its
  requests into one state, over connections that break;
- a terminal has four ends (pane, relay, its two pumps, shell), each of which
  may go first, and the sockets of two sessions overlap in the browser;
- the commands that a build runs come from a maintainer, a rule or a model, and
  the model may replace them while they run;
- a request of a visitor may be cancelled, and a write of the table may fail,
  between any two steps of a replacement that has no transaction;
- what travels from the platform is cut where a read ended, may end anywhere,
  and its silence looks like an answer;
- two stores must be the same to callers that write back what they read minutes
  ago, while other calls count visits in the same rows;
- the head of a branch is resolved long before the branch is cloned.

What makes each part correct: readers of a log get all of it, in order, and
their end (fanout); one pipeline per commit, a bounded pool that never leaks,
outcomes that are recorded once, heard by everyone and can be restored from, a
recipe that is what was run and a port that is the app's (builder); commands
that were checked and fit the repository (recipe); limits on live
sessions, sessions that end in time and for good and whose listeners are told
(session); a page that shows the session it holds, all of it, and its end (web);
a terminal that carries both ways in order and ends with either side (httpapi,
web); waits that end and find what is ready, commands that count as done only
when they are (sandbox); stores that cannot be told apart, and migrations that
any number of servers may run (store); the repository that was named, no older
than its head was (repo). `PROJECT.json` lists the hazards behind
these, each at its line.

## The modules

| module | models | lines of the code |
| --- | --- | --- |
| `EventStream` | what package fanout promises, without locks or channels | `internal/fanout/fanout.go:1-3` and its doc comments |
| `Fanout` | `Log[T]` and its subscriptions; one action per critical section, send, wake-up, cancellation and deferred call | `internal/fanout/fanout.go` |
| `FanoutProofs` | theorems about `Fanout`, that it implements `EventStream`, and about `Story` | |
| `Phases` | the order of the phases and the ways each can fail | `internal/builder/builder.go:252-347` |
| `Builder` | Ensure, execute and its deferred calls, Subscribe, and the way `session.follow` reads the outcome; the builds table; the platform's sandboxes and snapshots | `internal/builder/builder.go` |
| `BuilderProofs` | theorems about `Builder` and `Visitors` | |
| `Pipeline` | the phases clone to start of one build from inside: recipe, tool checks, install and repair, probe | `internal/builder/builder.go:274-335`, `371-494`, `probe.go` |
| `PipelineProofs` | theorems about `Pipeline` | |
| `Visitors` | the restore loop and `rebuild` of several visitors, composed with `Builder` | `internal/session/session.go:195-274`, `363-376` |
| `Session` | Create, terminate, run, end and Extend; the sessions table; the visitor's sandbox; time | `internal/session/session.go` |
| `SessionProofs` | theorems about `Session` | |
| `Page` | the reducer and the session hook of the web client, request's retry when busy, and what the API and the event stream of a session tell them | `web/src/sse/reducer.ts`, `web/src/sse/useSession.ts`, `web/src/api/client.ts:110-151`, `internal/session/session.go:155-192`, `internal/httpapi/server.go:209-278` |
| `PageProofs` | theorems about `Page` | |
| `Terminal` | the pane and its socket, the terminal's handler, its relay with the two pumps, a shell | `web/src/terminal/Terminal.tsx:88-135`, `web/src/terminal/ptySocket.ts`, `internal/httpapi/pty.go`, `internal/session/session.go:474-489` |
| `Recipes` | the detectors, Detect, Validate, Infer and Repair, and one build's use of them | `internal/recipe/detectors.go`, `recipe.go:14-176`, `model.go:22-69`, `internal/builder/builder.go:286-301`, `406-446` |
| `Commits` | which commit a visitor gets: resolution in two requests, the key of a build, the clone of a branch that moves | `internal/repo/repo.go:107-134`, `internal/builder/builder.go:97-125`, `274-283` |
| `Refs` | what a visitor types: parseRepo of the landing page, Parse of the server | `internal/repo/repo.go:46-88`, `web/src/lib/repo.ts` |
| `RepoProofs` | theorems about `Recipes`, `Commits` and `Refs` | |
| `Waits` | WaitReady and WaitSnapshot | `internal/sandbox/http.go:89-114`, `197-217` |
| `Exec` | a command's stream of frames and its result | `internal/sandbox/http.go:231-274`, `437-481` |
| `SandboxProofs` | theorems about `Waits`, `Exec` and `Terminal` | |
| `Stores` | Memory and Postgres under the same calls | `internal/store/memory.go`, `postgres.go`, `store.go` |
| `StoresProofs` | theorems about `Stores` | |
| `Migrations` | several servers that migrate one database | `internal/store/postgres.go:26-91` |
| `Story` | Subscribe of a session that is not live, and the handler that forwards it | `internal/session/session.go:155-192`, `379-400`, `internal/httpapi/server.go:260-277` |
| `MCFanout` | what Subscribe of a session hands out: `Fanout` for one that is live, `Story` for one that is not | |
| `MCSandbox` | a sandbox through its client: `Waits`, then a command (`Exec`) or a terminal (`Terminal`) | |
| `MCRepo` | from what was typed to a commit: `Refs`, then `Commits` | |
| `MCStores` | from an empty database to the calls on it: `Migrations`, then `Stores` | |
| `MCBuilder`, `MCVisitors`, `MCSession`, `MCPipeline`, `MCRecipes` | instances of one module each (`Page` needs none: its constants are numbers and sets) | |

Where an instance joins modules, they follow one another or exclude each other
as they do in the code (a command runs in a sandbox that was waited for, calls
are made on a database that was migrated), and what they do not share stays as
it is while another one moves. The properties of each are checked in every state
of the whole.

### Fanout

`pc[s]` is the place of the goroutine of `Subscribe` (72-112): `scan` at the
lock (87), `send` at the first select (92), `wait` at the second (104),
`unregister` and `close` for the two deferred calls. `hold[s]` is the local
`ev`. The wake channel has capacity 1, so it is a Boolean. A receiver reads the
channel (`Receive`) and may cancel at any moment (`Cancel`); when both a send
and the cancelled context are ready the select picks either, as does the model.
`got` and `mark` are history variables: what a receiver read, and how long the
history was at the first Finish. Emit after Finish is allowed, as in the code.

### Builder

A commit is its build id (the table is unique on owner, repo and sha). A run is
one execute goroutine; it creates at most one sandbox and one snapshot, which
carry its name. `pc[r]` walks through the pipeline. `Fail` is the closure `fail`
at each of the places where a phase can fail, and `Settle`, `FinishLog`,
`Unregister`, `Cleanup` and `Release` are the steps that end a run, in the
code's order (the deferred calls run last). `sb[r]` is the local variable the
deferred delete uses. `mem[r]` holds the ids in `r.build` that the next
setStatus will write. The environment's misfortunes are named by the constant
`Misfortune`: a refused create, a Get that fails inside WaitReady, a delete that
fails (`DeleteFails`: its error is logged at 263 and the sandbox stays, `box`
"left"), the passing of buildTimeout, a restart. A store call made with a
context that is done fails, which is what Postgres does; the in-memory store
ignores its context.

### Pipeline

One build, from clone to the end of start. `phase` is `lg.phase`, `pc` the place
within it: `run` at its beginning, `next` and `repair` in the loop of install
(413, 436), `launch` and `look` in startAndProbe (454, 470). `cmds`, `i`,
`repairs` are install's locals (`i` from 1), `rcp` is execute's recipe and
`recorded` the copy in the build record (304), whose port is the hint. A command
is a value: `Program` is the program it starts, `Provides` what it puts on the
PATH. It may fail for any reason, but cannot exit 0 without its program. The call
of a check for a program may fail, which counts as present (381); or the check is
cut short, killed or without an exit frame at the end of its stream, and Exec
returns -1 and no error (http.go:252-272), which counts as missing. A look lists
some of `Sockets`: what ParseListening reads from either format is a set of
ports that listen, and reserved ports are dropped. Whether the deadline of the
probe has passed is any look's choice, and the look number `MaxLooks` is the
last. `ran`, `looks`, `unsure` (the call of a check failed) and `cut` (one was cut
short) are history variables.

`Builder` has the same phases as single steps that end well or badly. What it
takes from here is ImplementsPhases, in terms of the tables of `Phases` that
both modules use.

### Visitors

`Visitors` extends `Builder`: its visitors are Builder's callers, every action of
Builder except the caller's own is taken over as it is, and the restore loop is
added. `bld[c]` is the local copy of the build record that a session's goroutine
carries from Ensure or follow to the restore, the delete of the golden
(`Refused`) and the reset (`Requeue`, a whole-record write). The delete may fail,
and the record is reset all the same (session.go:369-371). A restore needs the
snapshot to be there, and may be refused for any other reason as well: the code
does not distinguish them. `seen = "ready"` is follow's early return.

### Session

A session is named by the call of Create that made it. `cpc` is the place of
Create, `rpc` that of run, `xpc` that of Extend. Every store call, platform call
and critical section of `m.mu` is an action, so that a whole-record write
(`MarkStarting`, `RecordBox`, `GoLive`, `ExtendWrite`, `TerminateRecord`) lands
on whatever the table says by then. `stale` remembers which of the listed
copies had a sandbox id. Time is in ticks, per session: `waited` before it goes
live, `lived` since, `left` until `expires_at`. A tick is longer than the poll
interval, so between two ticks every watch loop has run once.

Up to `Overlap` calls of Create are under way at once. The environment is
restricted by `Stress`. With none of its members, a device opens a new repo only
while its session is live or its process is gone, keeps its address, an Extend
under way when its session's record is ended fails (`CutShort`), a client waits
for the answer of its Create and every write of the sessions table succeeds.
Each member lifts one of these ("replace", "roam", "extend", "leave", "fail"). A
client that left (`gone`) makes every later call of its Create fail: a terminate
under way goes on with calls that fail (`TerminateLoses`), and Create gives up
at its next error (`CreateGivesUp`). A write that fails leaves the row as it
was, and run goes on from its own copy (`RunLoses`), as the code does. A delete
may fail under any `Stress`: terminate logs the error, and the watch loop drops
it at the expiry and ends the session over a sandbox that is up (session.go:317;
`box` "left"). `told` says whether "ended" was emitted before the log was
finished ("yes") or only after ("late"): run's end may finish the log of a
session that terminate has recorded and not yet told (200, 418). `excused` are
the sessions that ended or that a call set out to replace. One Extend of a
session is under way at a time: two that both read the record before either
wrote it are left out.

What the code guarantees without a stress, or in spite of it, is what the passing
runs check; what holds under all of them and any `Overlap` is what is proved
(`MCSessionRaces.cfg` checks it on an instance); what it loses with one of them
is under Findings.

### Page

`Page` joins the two ends of one device's sessions. Of a session the server side
keeps what a page can tell: its row (`rec`), the events of its log (`hist`), and
whether `m.live` has it. A call (`call`) is the POST or GET of one setup with
its retries, by number of the visit; only the answer of the visit under way is
taken (`cancelled` in flow 1), the others run on at the server. `Connect` is
`Subscribe` as it is called by handleEvents: a live session is followed from the
first event, another one is told from the tables, an unknown one is refused. A
session goes live in three steps, between which it may be extended or replaced:
its preview is told (`ExposePort`), the row is written (`GoLive`), the terminal,
the expiry and the phase are told (`Announce`; the three emits go to one log and
are one step). `Deliver` is the reducer on the next event; `reduce` and its
parts are reducer.ts by case. Effects that React runs after a dispatch belong to
the action that dispatched: when the id of a new session gets into the address,
the effect that runs again finds the session in `activeId` and does nothing.

An event or a shown value is tagged with the session it is about, which is how a
property can tell a value of another session from the page's own. `misled`
remembers that an answer to extend reached a page that had started another
session (useSession.ts:129); `dropped` are the sessions the page restarted away
from. "Try again" is offered when the build failed, too (Session.tsx:146-152);
the build's status is left out, so that this may be so while a session is
building or starting (`BuildMayHaveFailed`). By the HTML standard an EventSource
connects again after a stream that ends or breaks and not after an answer other
than 200.

### Terminal

A pane opens one socket for each session it shows (`Open`), when its effect
runs, and closes it in the effect's cleanup (`TearDown`). `ws[s]` is the readyState
of socket s; its events (`Opened`, `Message`, `SocketEnds`) arrive whether or not
the pane has gone on to the next session, which is how an older socket can
disturb a newer one. On the server `srv` is where the handler is (Manager.PTY,
the upgrade, `relay`, its deferred calls), `conns` the connections it has open,
`pump[w]` and `hold[w]` the place of a pump and the frame between its Read and
its Write, `errc` what is in the channel of capacity 2. Handlers share nothing,
so the module has one at a time and lets the next session wait for it; of the
sockets before it keeps what the browser still has to read. A read fails when
its side is gone and all it sent has been read, or when the relay has closed the
connection. `said`, `sent` and `heard` are history variables; `cut` remembers
that frames were lost to the network, to the end of the sandbox, or to input
after the shell's exit, and `late` that an older socket was closed after a newer
one was opened.

### Recipes

The detectors as functions of what the inspector reports (`repo`), and one
build's way through them: `RunDetect`, `Infer` when no detector matched,
`InstallFails` for each command that fails or is repaired, `Installed`. A
command is its sequence of words; which of them are assignments and which hold a
forbidden token are constants. Detect returns the first detector that matches, whose
recipe Validate may still refuse. `Pipeline` takes recipes as constants and is
about their execution; here the execution is only the index a repair cuts at.
The outcomes of the detectors were compared with the test vectors of
`internal/recipe/recipe_test.go`.

### Commits and Refs

In `Commits` the commits of one repository are numbered in the order they reach
its default branch. A visitor's call asks for the repository and for the commit
in two requests; the builder finds or makes the record of what it was told, and
its pipeline clones the branch, whatever it has come to by then. `Spelling` are
the names under which GitHub knows the repository.

In `Refs` an input is a prefix, a path of segments and a query or none, and a
segment is a sequence of the characters that the expressions tell apart (".git"
is "." and the letter "git"). `parseRepo` and `Parse` are the two functions;
`Submit` is the landing page, `SendAsIs` any other client and the address of a
session page. Upper case is told apart in the host only, where the page reads it
(repo.ts:20) and the server does not (repo.go:64, 69). Spaces around an input are
left out.

### Waits and Exec

`Waits` is the loop that WaitReady and WaitSnapshot share. The platform changes
the thing at any time (`Change`); `Read` is the moment it reads the phase it
answers with, `Arrive` the answer at the loop, so an answer may be out of date.
Time is in ticks; a call lasts at most `CallTimeout`, a sleep `Interval`.

In `Exec` the sandbox frames what it reads of a command's output (`Write`), and
the stream ends by an exit frame with a code or without, by an error frame, by
an end of file, or by a connection that breaks or goes silent (`Exit`, `Fail`).
`ReadFrame` collects one frame. A character is a value.

### Stores and Migrations

Each call of store.Store is a function of a database in each implementation
(`Mem…`, `Pg…`; one function where both come to the same text), and an action
applies it to both and compares what a caller can see. Callers keep the
records they read and write them back later, as the builder's run and the
sessions do. What a run logs is text or, since it is what commands print, "raw",
with bytes that are no text: Memory keeps that and Postgres refuses the whole
write. `raw` remembers the builds whose run had such a log. `usage_daily` has no
caller.

`Migrations` is OpenPostgres of several servers on one database: per migration a
check, the statements and the commit with the row that records it. Statements of
the same tables wait for each other's transaction. The table of the migrations
themselves is there: that two servers may create it at once (`CREATE TABLE IF NOT
EXISTS`, postgres.go:50, which one of them may then see fail) is left out; the
server that fails is started again.

### Story

The stored log is text (`StoredText`, as run.text makes it), `ReplayLog` turns it
back. The goroutine of Subscribe (`replay`) reads the build, sends the story on a
channel and closes it; the handler (`Forward`, `HandlerReturns`) reads from it
until it is closed or the client has left. Sessions in `m.live` are followed
through `Fanout`.

## What is checked

Passing runs (`tlc -config <cfg> <module>`):

| run | instance | states | properties |
| --- | --- | --- | --- |
| `MCFanout.cfg` | 2 subscribers, 2 event values, channels of capacity 1, 2 emits; logs of 0, 1, 3 and 4 lines with a channel of 3, 4 outcomes of the build | 185,914 | ImplementsStream, WholeStory, ReplayEnds |
| `MCBuilder.cfg` | 2 commits, 2 runs, 2 callers, pool of 1, one misfortune of any kind | 447,466 | ReadyIsRestorable, OrphansHaveACause, CallersActOnOutcomes, OutcomesAreFinal, EveryCallerHears |
| `MCVisitors.cfg` | 1 commit, 2 visitors, 4 runs, pool of 1, one restart or one delete that fails | 420,164 | OneRunPerBuild, ForgottenForACause, EveryVisitorHears |
| `MCSession.cfg` | 2 calls of Create, 2 devices behind 1 address, 1 session per device and per address, TTL 1, MaxTTL 2, waits up to 2 ticks, 1 restart, deletes that fail, clients that leave at any step; calls of Create one after the other | 481,638 | LimitsKept, PromiseKept, WatchedSandboxesGo, ExtendTakesNoTime, EverySessionCloses |
| `MCSessionLost.cfg` (`MCSession`) | 2 calls of Create by one device, which replaces a session that is being prepared, too; any write of the sessions table may fail; the platform reclaims | 496,634 | ListenersHear, EndedUnlessRaced |
| `MCPage.cfg` (`Page`) | 2 sessions, one of a commit that was built before and one that serves a preview, 2 setups of the page, 3 log lines of which the page keeps 2, 1 retry, 1 restart of the server or broken connection, either store | 515,149 | OwnStory, CaughtUp, RestartIsFresh, SetupSettles, EndIsShown |
| `MCPipeline.cfg` | 5 recipes, 3 repairs, 2 of them allowed, 7 commands, 4 sockets on 3 ports of which 1 is reserved, 3 looks; checks of tools fail or are cut short | 80,520 | RecipeIsWhatRan, MissingToolsAreReported, WebIsServing, EveryBuildSettles |
| `MCSandbox.cfg` | a timeout of 5 ticks, sleeps of 1, calls of up to 3; no output, and 5 characters cut anywhere; 2 sessions shown one after the other, 2 frames typed or resized beside the one on opening, 1 frame of output | 684,253 | WaitIsBounded, ReadyInTimeIsFound, SuccessIsWhole, BothWaysInOrder, ExitIsShown, StatusTellsCurrent, RelayEnds |
| `MCRecipes.cfg` | 10,862 repositories, 5 answers of the model to Infer and 5 to Repair, lists of at most 3 commands, 2 repairs | 388,969 | OnlyCheckedCommandsRun, StartFitsTheRepo |
| `MCRepo.cfg` | 2 accounts, 3 repositories, 11 prefixes, paths of up to 3 of 15 segments; 2 visitors, 2 spellings, 3 commits | 64,937 | RightRepository, VisitorsGetNoOlder |
| `MCStores.cfg` | 3 servers, 2 migrations, 2 crashes; 2 commits of one repository, 1 session, 2 callers, 3 records and visits, logs that are text or not | 639,324 | SameAnswers, AllComeUp |

Each takes from a few seconds to two and a half minutes with two workers. The
type invariants of `Fanout`, `Builder`, `Session`, `Pipeline`, `Commits`,
`Waits` and `Stores` are not among the properties because they are proved, as
are InOrder, CloseAfterDrain and NoLostWakeup of `Fanout`, which
ImplementsStream contains or rests on, PoolBound, OnePerDeviceUnlessRaced,
PromiseKeptWhileWatched, TerminalIsQuiet, ImplementsPhases, NoOlder,
VisitsCounted and OnlyNames.

Why the bounds are enough. Fanout: subscribers do not interact with each other
except through the log, so two show every interference of one with another; with
capacity 1 and two events a channel is full, a nudge coalesces, and an event
arrives in each place of the loop. Story: one story fits into the channel, one
only with a reader, one only with a reader that stays. Builder: two runs and two
callers let a run wait for the slot, a commit be rebuilt after a restart, and
two callers share a run or differ about it; one misfortune per behaviour reaches
each failing path. Visitors: each of two visitors starts at most two runs, so
four are enough for any order of their rebuilds and a restart. Session: two
sessions of one device replace each other, two of two devices compete for an
address; waits of 0 to 2 ticks put the cap of an extension before, at and after
the current expiry; a client that leaves during its second call leaves terminate
half way; a session that a device replaces while it is prepared is written back
to life, and its end is told late, in `MCSessionLost.cfg`. The first call is
always r1's and its device d1 (`InOrder`): calls and devices have no order of
their own. The global limit does not bind in this instance. Page: two setups are
what a restart and a late answer need, two sessions the old and the new one of a
page; three lines overflow the page's two; one fault comes at any moment of the
story. Pipeline: the recipes are one that starts nothing, one that serves, two
that provide the programs they use later, one whose program is missing; repairs
grow and shrink the list and name a missing program; three looks are one more
than the probe needs to make up its mind, and the ports are the hint, another
one and a reserved one. Sandbox: the timeout is a few intervals and a call
outlasts several, so an answer may come from before and after any tick and the
deadline; the output is in one to five frames; two sessions let an older
socket's events meet a newer pane, one frame of output and the exit can each be
on the way, held by a pump or read when something ends. Recipes: the
repositories are all combinations of what a detector tells apart in the Node
files, in the Python files and in the others, each against the detectors that
come before it; the lists reach their limit and the repairs theirs. Repo: three
commits let the branch move before the resolution, between its requests and
after it; two visitors share a record or miss it. Stores: one server more than
two that meet in a transaction; two callers hold copies of one record across
each other's writes and visits; every call meets a row that is there and one
that is not. Once a log was raw the instance opens no session (`Apart`), whose
rows have nothing to do with logs; with one build in place of two and sessions
beside raw logs TLC found the same (566,683 states).

Deadlock is not checked: each of these systems may come to rest (nobody
subscribes, builds or visits any more; a bound is reached).

### Fairness

Weak fairness of each goroutine and handler: a goroutine that can take a step
does. In `Fanout` a receiver that has not cancelled reads its channel, as
`session.follow` and `httpapi.handleEvents` do. In `Builder` each platform call
has a timeout, so a phase ends; the Go runtime serves senders on the semaphore
in the order they arrive. In `Session` time passes, so that polls and expiries
happen. In `Pipeline` a build goes on while it can: each call has a timeout. In
`Page` handlers answer, an end that was recorded is told, and the browser
connects and dispatches what arrives; a session need not get anywhere, so
EndIsShown starts from its end. In `Terminal` the handler, each pump and the
browser go on: dials, upgrades and closing handshakes have timeouts in the
libraries. `Waits`, `Exec`, `Recipes`, `Commits` and `Refs` have no liveness
property and need none. In `Migrations` a server that is down is started again:
the loop of `deploy/sandbox.sh:70-74`. In `Story` the two goroutines run.
`ReapedSpec` of `Session` adds that the platform deletes a sandbox in the end
(it was asked for an idle time and a lifetime, `session.go:245`) and answers in
the end whether it is there. Nobody is obliged to emit, finish, subscribe,
visit, extend, restart or reclaim.

## Findings

One run expects a violation: `MCSessionReplace.cfg` checks EndedIsFinal when a
device replaces a session that is still being prepared. `terminate`
(`session.go:402`, "Safe to call for a session already ending") ends the record,
and run, which holds its own copy, writes it back to life (`session.go:229`).
`PROJECT.json` has the details.

Each of the following configurations checks one property that a doc or a comment
states and the code does not keep, and reaches a violation; they show why a
passing property has the condition it has.

| configuration (module) | property | what happens |
| --- | --- | --- |
| `MCBuilderVanish.cfg` (`MCBuilder`) | NoOrphanBox | "Any failure from here on deletes the sandbox" (`builder.go:259`): WaitReady returns an empty sandbox on a Get error; the deferred delete deletes nothing (`builder.go:268`) |
| `MCBuilderTimeout.cfg` (`MCBuilder`) | OutcomeRecorded | "records the outcome" (`builder.go:205`): the outcome of a build that ran out of time is written with the expired context (`builder.go:218`) |
| `MCPipelineTools.cfg` (`MCPipeline`) | ProvidedToolsAreAwaited | "checked only when their command is about to run" (`builder.go:372-373`): the programs of all install commands must be there before the first one runs, those it would install included (`builder.go:309`) |
| `MCVisitorsStale.cfg` (`MCVisitors`) | ResetOnlyWhenLost | "queues the commit again after its snapshot was lost" (`session.go:363-364`): a second visitor's rebuild resets the record the first one's rebuild has just made ready (`session.go:371`) |
| `MCSessionRestart.cfg` (`MCSession`) | EverySessionEnds | "A session lasts 15 minutes of activity" (`README.md:49-50`): after a restart nobody ends the sessions in the table (`session.go:301`) |
| `MCSessionOverlap.cfg` (`MCSession`) | LimitsKept | "One live session per device" (`README.md:51`): calls that overlap are all counted before any is inserted (`session.go:109`) |
| `MCSessionTwo.cfg` (`MCSession`) | OnePerDevice | the same: a write that fails in terminate leaves the device two live sessions (`session.go:410`) |
| `MCSessionExtend.cfg` (`MCSession`) | PromiseKept | "a session never outlives its promise" (`session.go:299-300`): Extend writes a live copy over an ended record (`session.go:461`) |
| `MCPageRefused.cfg` (`Page`) | ReconnectingConnects | a reconnect answered with an error closes the EventSource for good, and the page goes on saying that it reconnects (`useSession.ts:108`) |
| `MCRepoMoved.cfg` (`MCRepo`) | SnapshotHoldsItsCommit | "turns a repository commit into a ready-to-restore snapshot" (`builder.go:1`): a push before the clone puts a later commit into the snapshot (`builder.go:275`) |
| `MCStoresRaw.cfg` (`MCStores`) | AlwaysAlike | "holds both implementations to the same behaviour" (`store_test.go:14`): a log with bytes that are no text is kept by Memory and refused by Postgres (`postgres.go:130`) |

`MCSessionRaces.cfg` (`MCSession`) passes: with everything that the environment may
do at once and two calls of Create at a time, it checks the inductive invariant of
`SessionProofs` and what is proved from it (4,332,385 states, some minutes).

Other places where the code and its words part, met on the way and without a
configuration:

- Extend says that "the expiry moves to the hard cap" (`session.go:439-440`,
  `README.md:49-50`, "extended once to 30"), but takes the sooner of the cap and
  now + TTL (456-459), so that right after going live it gives nothing;
- terminate says that listeners are told (`session.go:401`), but when run's end
  finishes the log first (200) a listener that has read everything is closed
  without the "ended" event (418, `fanout.go:28-29`) and learns of it when it
  connects again;
- "The golden that owned the snapshot is deleted if it still exists"
  (`session.go:364`), but if that delete fails the record is reset all the same
  (369, 371) and nothing names the golden any more;
- the expiry's delete may fail, and the session ends over a sandbox that is up
  (317);
- the expiry may be told after an extension was, the older one last (295), when
  Extend comes between the write and the event;
- a check of a tool that was killed, or whose stream ended without an exit
  frame, reports the tool as missing (`builder.go:381` with `http.go:252-272`);
- of the URLs of "any github.com URL" (`repo.ts:11-13`) the page refuses
  `www.github.com/…` without a scheme, `ssh://…`, and every name that begins
  with ".", "-" or "_" (`repo.ts:8`), such as owner/.github, and the server
  refuses a host in capitals (`repo.go:64`, 69);
- a create refused for capacity fails the commit for everybody, for good
  (`builder.go:253`, `client.go:23-25` asks callers to queue or retry);
- the live session is ended before the new one is admitted (`session.go:124`);
- after a long build the extension takes time away (`session.go:456`);
- a trylive.yaml that does not parse is passed over (`detectors.go:18-20`,
  against `recipe.go:63`);
- a packageManager field beats another manager's lockfile
  (`detectors.go:118-122`, against line 107);
- two spellings of a repository build one commit twice (`repo.go:86`);
- a line in two frames becomes two lines of the log (`builder.go:182`);
- an error of several lines comes back as several events (`session.go:382`);
- a server first heard at the last look, on another port than the hint, is given
  up (`builder.go:478-487`).

The passing runs check what the code does guarantee next to each:
OrphansHaveACause (a sandbox is left behind only if its delete failed, its id
was lost or time was up), CallersActOnOutcomes (unless the timeout kept the
outcome from being recorded), MissingToolsAreReported (unsupported means that a
program is missing or a check was cut short), ForgottenForACause (a golden is
forgotten only by a copy out of date, or when its delete failed),
ExtendTakesNoTime (the extension takes none away when the session went live
within MaxTTL - TTL), WatchedSandboxesGo (a sandbox goes, or its delete at the
expiry failed), EverySessionCloses and ListenersHear (the end is heard from the
log, or from the table if it was told late), EndedUnlessRaced (only a run that
still prepares its session, or an Extend at its write, brings a record back),
CaughtUp (but for the expiry of a session that was extended before its run told
the first one), EndIsShown (the page shows the end unless its reconnect was
refused), StatusTellsCurrent (closed means closed or a late close),
RightRepository (who names a repository gets it or one of the refusals above),
VisitorsGetNoOlder (the commit may be another, but never an older one),
SuccessIsWhole (an end without an exit code is never a success), SameAnswers
(the stores differ in the status and the log of a build whose log was raw, and
in the error that write gets), and PromiseKept and LimitsKept without the stress
that breaks them.

## Mutants

Next to an action there may be a second definition of the same shape: the action
with a slip a programmer could make (a subscriber that is not registered, a slot
given back on success only, a round of the watch loop that forgets the expiry, a
repair put behind the command that failed, a channel without the buffer its
second sender needs). They are not part of any specification. Each property of a
passing run was checked to fail when the slip replaces the action;
`PROJECT.json` pairs them.

## What is proved

TLAPS proves the following for every value of the constants; the check takes
from half a minute to four minutes per module (`tlapm FanoutProofs.tla`,
`tlapm BuilderProofs.tla`, `tlapm PipelineProofs.tla`, and so on).

`FanoutProofs` assumes `FanoutAssumption` only (the capacity of the channels is
positive, the bound on events a number): any set of subscribers and of events.
The inductive invariant `FanoutInv` adds to the safety properties what makes
them inductive: a goroutine is registered exactly while it is in its loop; it
holds an event exactly when it is about to send it; and one that left the loop
without being cancelled saw the log done with nothing left, so what it sent
reaches back over everything emitted before Finish (`mark`). NoLostWakeup is
needed itself: it is what makes going to sleep after the unlock harmless.

- `TypeCorrect`, `FanoutInvariant`
- `DeliveredInOrder`: InOrder
- `WakeupsAreNotLost`: NoLostWakeup
- `DrainedBeforeClose`: CloseAfterDrain
- `ImplementsEventStream`: `Fanout` implements `EventStream` under the mapping
  of Fanout.tla (initial states map to initial states, each step to a step or a
  stutter): the safety part of ImplementsStream

Of `Story`, `FanoutProofs` assumes `StoryAssumption` (logs are sequences) and,
in its theorem, `Restored`: what Subscribe parses from the stored text is the
log that was stored, in every state. It is a fact about text of any length,
which cannot be proved here and which TLC evaluates for each log of the
instance. `StoryInv` says that what the client heard, what is in the channel and
what the goroutine has left to send make up the story it began to tell (`Told`),
and where goroutine and handler are when (`Courses`): the handler ends with
everything heard unless it stopped because the client had left.

- `StoryIsWhole`: WholeStory

`BuilderProofs` assumes `BuilderAssumption` (a positive pool, finitely many
runs, None is none of the values it stands beside): any set of commits, runs and
callers, any misfortunes. The inductive invariant `BuilderInv` is a conjunction
of named parts at the end of Builder.tla, each with a lemma of its own:

- `Slots`: the slots in use are those of the runs between Acquire and Release;
- `InRuns`: a run is in b.runs from start until it is unregistered, hence no
  commit has two;
- `Holds`: the sandbox, snapshot and ids a run has at each place; in
  particular the deferred delete of a run deletes no sandbox but its own;
- `Wrote`: a record holds no outcome while its run works, and the run's outcome
  once it settled in time. Its induction needs InRuns (nobody else writes the
  record) and `KnownStep` (what is recorded is not rewritten);
- `Restorable`: only the run that made a golden writes a ready record with it;
- `Told`, `Follows`: a follower's build is under way, or has an outcome, or ran
  out of time. It is here that the order record, finish the log, unregister
  matters: each of them must leave the next caller something to go by.

The theorems:

- `TypeCorrect`, `BuilderInvariant`
- `OneBuildPerCommit`: OneRunPerBuild
- `PoolIsBounded`: PoolBound
- `ReadyStaysRestorable`: ReadyIsRestorable
- `OrphansAreExplained`: OrphansHaveACause, deletes that fail included
- `CallersHearOutcomes`: CallersActOnOutcomes
- `OutcomesStay`: OutcomesAreFinal
- `OneBuildWhenRebuilt`: OneRunPerBuild for `Visitors`. A visitor who resets a
  record breaks most of `BuilderInv`; what no reset can touch (`Tracked`: TypeOK,
  InRuns, a run past its work has an outcome, a caller has a commit) is inductive
  by itself, for any number of visitors and rebuilds
- `GoldensAreNotForgotten`: ForgottenForACause, for any number of visitors and
  rebuilds. A golden that a ready record loses was made after the copy that
  overwrites it was read (`Behind`), unless its delete was asked for and failed;
  what a run that still works will record has not been recorded (`Unsettled`),
  each record and copy names goldens that exist (`Named`), and a visitor's copy
  is of its own commit (`Copied`)

`SessionProofs` assumes `SessionAssumption` only (finitely many calls, limits and
times that are numbers, None is none of the values it stands beside): any devices
and addresses, any number of restarts, any `Overlap` of calls, and any `Stress`.
So the theorems are about all that the code meets: calls that overlap, a
session replaced while it is prepared, an Extend across its end, writes and deletes
that fail, clients that leave. They state what is left of a limit or a promise
then. `SessionInv`, at the end of Session.tla, consists of

- `Course`: a record, its run, its Create and its Extend keep step. In particular
  a session that is live, or that an Extend has read, is past the places at which
  run writes its record; and a record that ended is excused;
- `Calls`: the sessions a call terminates are among those it set out to replace;
- `Room`: the sessions of a device that are not excused, together with the calls
  that may still add one and list none, are at most PerDevice + Overlap - 1: a
  call that counted them found fewer than PerDevice, and since then only the other
  calls under way, Overlap - 1 at most, have added any;
- `Clock`: time lived and time left are no more than what is allowed; a live
  record that is watched has an expiry; and a session that was looked at since
  the last tick had not reached it.

`Onward` says what no step undoes, and `Rows`, from it, that sessions of a device
get more by an insert only, excused ones apart; each part then has a lemma with
one step per action.

- `SessionInvariant`
- `DeviceLimitHolds`: OnePerDeviceUnlessRaced. With calls one after the other
  (Overlap = 1) it is the limit per device, but for excused sessions
- `WatchedPromisesKept`: PromiseKeptWhileWatched
- `EndedStaysEndedUnlessRaced`: EndedUnlessRaced
- `ExtensionTakesNoTime`: ExtendTakesNoTime

LimitsKept and PromiseKept, which the first two of these weaken, are false of
`Session` in general (`MCSessionOverlap.cfg`, `MCSessionTwo.cfg`,
`MCSessionExtend.cfg`) and only model-checked where they hold. Of the limit per
address nothing is proved: byIP-- (session.go:126) counts down for a replaced
session whatever its address was.

`PipelineProofs` assumes `PipelineAssumption` (recipes are recipes, repairs are
not empty, ports are positive, None is no program): any recipes, repairs,
programs, sockets and reserved ports, any bound on repairs and looks.
`PipelineInv` adds to WebIsServing and TerminalIsQuiet:

- `Progress`: what ran is what the list has before install's index, and the list
  is the recipe's. A repair keeps it because what it puts in place begins with
  what was before the index (`RepairedList`);
- `Probing`: while it looks, the probe never heard the hint, and `settle` says
  that exactly one look heard something else. With `ChosenPort` (the hint if it
  listens, else the least port, 0 for none) it decides what each look may
  return (`OneLook`).

The theorems:

- `TypeCorrect`, `PipelineInvariant`
- `RecipeRecordsWhatRan`: RecipeIsWhatRan
- `PreviewIsServing`: WebIsServing
- `TerminalStaysQuiet`: TerminalIsQuiet
- `OnlyMissingToolsTurnAway`: MissingToolsAreReported. Unless a check was cut
  short, the tools a build was turned away for were looked up when it was
  (`ToolsChecked`, `ToolMissing`)
- `PhasesInOrder`: ImplementsPhases, by which `Builder` may take a phase for a
  step

Of `Recipes`, `RepoProofs` assumes `RecipesAssumption` (a trylive.yaml that
parses and the model's replies are recipes, its repairs are lists, the limits
are numbers) and `TargetsArePaths` (no word that names a port is the path of a
main package, which begins with "./cmd/", detectors.go:220): any repositories,
answers and words. `RecipesInv` says of a recipe with a name that all its
commands were checked, which is what Validate and Repair each establish for
their part of the list, and bounds its length; the lemmas before it show that
each detector returns a recipe, and that a list cut at the index and continued
with a checked list is checked and no longer than both (`RepairKeepsChecks`).

For StartFitsTheRepo, `Ruled` says that until a repair the recipe is what its
detector names of the repository. The rest is about the detectors: a search
returns a candidate that passes, or the default if none does (`FirstFound`), so a
script, target or entry file that is named is there; and of the words of a start
command and its environment only those of one port are a port's (`OnePortTold`,
then a lemma for each detector).

- `RecipesInvariant`
- `CommandsAreChecked`: OnlyCheckedCommandsRun
- `RulesFit`: StartFitsTheRepo

Of `Commits`, `RepoProofs` assumes that there is a commit to begin with: any
visitors, spellings and pushes. NoOlder is inductive with the types: the sha a
visitor carries lies between the head it asked at and the present one, a
record's commit is not ahead of the head, and what was cloned is not behind the
record's commit.

- `CommitsInvariant`: NoOlder
- `NobodyGetsOlder`: VisitorsGetNoOlder

`SandboxProofs` assumes of `Waits` that timeouts are numbers and that a call and
a sleep take time: any timeout and interval. `Pace` keeps each call and sleep
within its own limit and its beginning within the deadline; `Stale` says that an
answer that disagrees with a thing that is ready was read before it got ready.

- `WaitsInvariant`
- `WaitsAreBounded`: WaitIsBounded
- `ReadyIsFound`: ReadyInTimeIsFound

Of `Exec`, `SandboxProofs` assumes in its theorem that what commands write are
sequences, over any alphabet. `ExecInv` says that the output can be cut at
places `at[0] <= at[1] <= ...` such that what was collected ends at the first
and each frame on its way is the piece from one to the next; an exit code, on
its way or at the client, comes where the output is at its end. A step of the
client moves the places down by one, a loss forgets the last of them, a write
adds one.

- `SuccessesAreWhole`: SuccessIsWhole

`StoresProofs` assumes `StoresAssumption` only: any callers, records, logs and
calls. The rows of the two stores differ at most in the status and the log of a
build whose run had a raw log (`Twins`, `Equal`); the copies a caller holds from
them may differ in the counters as well (`Alike`), which neither store takes
from a copy; and the columns that UPDATE leaves alone are those no caller ever
changes. The last is why a whole-record write and an UPDATE of the mutable
columns come to the same. A refused write changes no counter (`Counted`).

- `StoresInvariant`
- `StoresConform`: SameAnswers
- `NoVisitIsLost`: VisitsCounted

Of `Refs`, OnlyNames needs no assumption, whatever the input. What Parse returns
passed the two expressions, and what is left of a name without its ".git" has
the characters of a name (`TrimmedName`). RightRepository rests on
`RefsAssumption`: of the input, what the page's parseRepo cuts off is at its
ends (`Trimmed`), so that both parsers find the same two segments (`ParsedRight`,
`PageReadsRight`); that the page does read it, in the forms and names it knows
(`PageReads`), so that who is refused is one of those RightRepository names
(`CapitalsAreRefused`); and what is passed on is what was parsed (`Passed`).

- `OnlyNamesAreResolved`: OnlyNames
- `NamedIsBuilt`: RightRepository

Of `Terminal`, `SandboxProofs` assumes `TerminalAssumption` (the bounds are
numbers): any sessions, frames typed and printed, and any network. `TerminalInv`
says of each direction that what arrived, what the second pump or the socket
holds and what is still to be read make up a beginning of what was sent, all of
it unless something was cut (BothWaysInOrder); that the socket of the session
that is shown is the pane's own, and older ones can change its status only after
they were closed late (StatusTellsCurrent); and that the exit of the shell is on
its way or shown (ExitIsShown).

- `TerminalInvariant`
- `FramesInOrder`: BothWaysInOrder
- `ExitsAreShown`: ExitIsShown
- `StatusIsCurrent`: StatusTellsCurrent

`PageProofs` assumes `PageAssumption` (the bounds are numbers, None is no
session): any number of sessions, setups, lines, retries and faults, either store.
The first invariant, `PageInv`, follows an id from the request to the page: an
event is about the session of its log (`Tagging`), an answer about one that was
registered (`Registered`, `Calling`), the stream is of the session the page holds
(`Holding`), and while a request is out the page holds none and is as it was at
first (`Showing`), so that an answer has nothing older to mix with.

- `PageInvariant`
- `ShowsItsOwn`: OwnStory
- `RestartsAreFresh`: RestartIsFresh

CaughtUp needs more, since a page may be loaded from a row, miss events and read
them again in any order of disconnects. `CaughtInv` adds

- `Histories`: a log has its lines once each, in order and in a row; what a session
  cannot have told before its run came to it (`Early`); and an extension that it
  told is in its record;
- `Backing`, `Grounded`: what a row, an answer or the page says of a session that
  `m.live` has, its log has told, but for the terminal and the expiry while run is
  between the write of its row and its events;
- `Following`: a stream is not ahead of its log, and if its session is gone the
  end is still to come, which is why a page that has no more to read is of a
  session that is there;
- `Folded`: the page is the fold of the events that were read since the stream
  was opened. It is the lines that make this hard: one line more, of those that
  are kept, is the end of the log with one line more (`OneLineMore`).

The theorem:

- `ReconnectsCatchUp`: CaughtUp

The proof found that CaughtUp was stated too strongly: a page that is loaded
while its session's row says ended, because terminate wrote it, and run has not
noticed, shows no preview although run goes on to tell one (the reducer ignores
it, reducer.ts:97). TLC finds this with four setups, not with two; the property
now allows for it.

The invariants were checked with TLC on the instances above before they were
proved. Every safety property of the passing runs is stated by a theorem, with
the hypotheses given above, except LimitsKept and PromiseKept; StoryIsWhole has
`Restored` for one, which is about texts of any length: an induction over data,
which TLC checks on the logs of its run.

Liveness (the fairness half of ImplementsStream, ReplayEnds, EveryCallerHears,
EveryVisitorHears, EverySessionCloses, WatchedSandboxesGo, ListenersHear,
SetupSettles, EndIsShown, EveryBuildSettles, RelayEnds, AllComeUp) is
model-checked only: the prover does not do liveness under fairness.

## What is not modelled

- Reads of the store succeed, and so do writes in `Builder` except with an
  expired context. In `Session` writes fail under "fail" and calls of a client
  that left under "leave". Deletes may fail in `Builder`, `Visitors` and `Session`.
- Two Extends of one session at once.
- `usage_daily`, which no code calls; reads that see the middle of another
  transaction (each call is one statement); SQL beyond the columns it writes.
- A command's stderr, which travels as its output does, the limit of 4 MB on a
  frame (a frame that does not decode stands for it), and file transfer.
- Moves in the browser's history between the addresses of two sessions, which
  leave the page mounted (`useSession.ts:57`), and how frames cut the lines of
  the log.
- The wiring in `cmd/trylive` and the shutdown of the HTTP server, which returns
  at once: to the models it is a crash between any two steps.
- What a command does besides programs and ports; the two formats a look is
  read from; what the model is asked, and how its reply is decoded.
- In `Recipes` a command's characters (its words are values), the values of env,
  and the inspector's limits on what it reads.
- Rebuilding a lost snapshot is one more wait for a build in `Session`; what it
  does to the builds table is in `Visitors`, where a visitor's session record is
  left out.
- In `Terminal` the limits on a frame's size, a Write that blocks because the
  shell does not read, and what xterm draws; the page goes on to the next
  session's terminal only when the handler of the last is over. Of the page,
  phase messages, the build's status and the error event.
- Upper case in references, but for the host, and spaces around them; HTTP
  encoding, metrics and the badge: pure or without state.
- The platform is known only from how the code uses it: deleting a sandbox
  deletes the snapshots it owns (`sandbox/fake.go`), a sandbox may go at any
  time, a create may be refused.

## Plan

1. Done: `EventStream`, `Fanout`, `Builder`, `Pipeline`, `Recipes`, `Commits`,
   `Refs`, `Waits`, `Exec` and `Stores` with their proofs; `Visitors`, with
   OneRunPerBuild proved; `Session` with all that the environment may do,
   proved; `Page`; `Terminal`; `Migrations`; `Story`; the instances that join
   them.
2. Done: `Terminal`, `Page`, `Story`, the goldens of `Visitors`, RightRepository,
   MissingToolsAreReported and StartFitsTheRepo, proved.
3. The extraction of JSON from a model's reply, next to `Recipes`.
