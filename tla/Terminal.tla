-------------------------------- MODULE Terminal --------------------------------
(***************************************************************************)
(* The terminal of a session: the pane of the page (Terminal.tsx) and its  *)
(* websocket (ptySocket.ts), the handler that dials the sandbox's terminal *)
(* (Manager.PTY) and relays frames both ways (pty.go), and a shell.        *)
(*                                                                         *)
(* The pane opens one socket per session it is shown. Sockets overlap in   *)
(* the browser; handlers share nothing, so there is one at a time here,    *)
(* and of an older one what it wrote and the browser has not read.         *)
(* Keystrokes and output frames count from 1, Resize is the control frame  *)
(* up, Exit the one down.                                                  *)
(***************************************************************************)
EXTENDS Integers, Sequences, SequencesExt

CONSTANTS
    MaxSessions,    \* bound: sessions shown one after the other
    MaxInput,       \* bound: frames the page sends to a session
    MaxOutput       \* bound: output frames of a session

ASSUME TerminalAssumption ==
    MaxSessions \in Nat /\ MaxInput \in Nat /\ MaxOutput \in Nat

Sockets == 1 .. MaxSessions
Resize == 0
Exit == 0
Ways == {"in", "out"}

VARIABLES
    connect,    \* the pane's connect
    sock,       \* the socket opened last; 0 before the first
    status,     \* the pane's status
    stdin,      \* not disableStdin
    screen,     \* the frames written since the last reset
    ws,         \* per socket: its readyState in the browser
    downward,   \* per socket: frames on their way to the browser
    upward,     \* of the last socket: frames on their way to the server
    srv,        \* where its handler is
    conns,      \* the connections the handler has open
    pump,       \* per way: where the pump is
    hold,       \* per way: the frame read and not written
    errc,       \* errors in the channel
    up, row,    \* its sandbox is up, its row says live
    shell,      \* none, running or gone
    out,        \* the shell's output on its way to the server
    sent, heard, \* history: frames sent by the page, read by the shell
    said,       \* history: all the output of the shell, Exit at its end
    cut,        \* history: broken by the network or the end of the sandbox,
                \* or by input after the exit
    late        \* history: an older socket was closed after a newer one was opened

pane == <<connect, sock, status, stdin, screen, late>>
wires == <<ws, downward, upward, sent>>
relay == <<srv, conns, pump, hold, errc>>
session == <<up, row, shell, out, said, heard>>
vars == <<pane, wires, relay, session, cut>>

Init ==
    /\ connect = FALSE /\ sock = 0 /\ status = "idle" /\ stdin = TRUE
    /\ screen = <<>> /\ late = FALSE
    /\ ws = [s \in Sockets |-> "none"] /\ downward = [s \in Sockets |-> <<>>]
    /\ upward = <<>> /\ sent = <<>>
    /\ srv = "none" /\ conns = {} /\ errc = 0
    /\ pump = [w \in Ways |-> "none"] /\ hold = [w \in Ways |-> 0]
    /\ up = FALSE /\ row = FALSE /\ shell = "none" /\ out = <<>>
    /\ said = <<>> /\ heard = <<>> /\ cut = FALSE

-------------------------------------------------------------------------------
(* The session and its shell. A session is live when the pane turns to it, *)
(* and may end from then on; its row matters until it is looked up.        *)

(* Its sandbox is deleted, the shell with it, and perhaps what it had said.*)
Reclaim ==
    /\ up /\ up' = FALSE
    /\ shell' = "gone"
    /\ \/ UNCHANGED <<out, cut>>
       \/ out' = <<>> /\ cut' = TRUE
    /\ UNCHANGED <<pane, wires, relay, row, said, heard>>

EndRow ==
    /\ row /\ ~up /\ srv = "lookup"
    /\ row' = FALSE
    /\ UNCHANGED <<pane, wires, relay, up, shell, out, said, heard, cut>>

Talks == shell = "running" /\ "pty" \in conns

Output ==
    /\ Talks /\ Len(said) < MaxOutput
    /\ said' = Append(said, Len(said) + 1)
    /\ out' = Append(out, Len(said) + 1)
    /\ UNCHANGED <<pane, wires, relay, up, row, shell, heard, cut>>

(* The process exits: the platform sends the exit frame and closes.        *)
ShellExits ==
    /\ Talks
    /\ shell' = "gone"
    /\ said' = Append(said, Exit)
    /\ out' = Append(out, Exit)
    /\ UNCHANGED <<pane, wires, relay, up, row, heard, cut>>

-------------------------------------------------------------------------------
(* The pane.                                                               *)

Over == srv \in {"none", "refused", "done"} /\ conns = {}
        /\ \A w \in Ways : pump[w] \in {"none", "ended"}

(* The socket of the next session, when the handler of the last is over.   *)
Dial ==
    /\ ~connect /\ sock < MaxSessions /\ Over
    /\ connect' = TRUE /\ sock' = sock + 1 /\ UNCHANGED late
    /\ ws' = [ws EXCEPT ![sock + 1] = "connecting"]
    /\ upward' = <<>> /\ sent' = <<>> /\ UNCHANGED downward
    /\ srv' = "lookup" /\ conns' = {} /\ errc' = 0
    /\ pump' = [w \in Ways |-> "none"] /\ hold' = [w \in Ways |-> 0]
    /\ up' = TRUE /\ row' = TRUE /\ shell' = "none" /\ out' = <<>>
    /\ said' = <<>> /\ heard' = <<>> /\ cut' = FALSE

(* A slip: the status of the session before is kept.                       *)
OpenQuietly == Dial /\ stdin' = TRUE /\ screen' = <<>> /\ UNCHANGED status

(* The effect when connect begins to hold.                                 *)
Open == Dial /\ status' = "connecting" /\ stdin' = TRUE /\ screen' = <<>>

(* A slip: the socket is left to itself.                                   *)
TearDownSilently ==
    /\ connect /\ connect' = FALSE
    /\ UNCHANGED <<sock, status, stdin, screen, late, wires, relay, session, cut>>

(* The effect's cleanup, when the session ended or the visitor left it.    *)
TearDown ==
    /\ connect /\ connect' = FALSE
    /\ ws' = [ws EXCEPT ![sock] = IF @ = "closed" THEN @ ELSE "closing"]
    /\ UNCHANGED <<sock, status, stdin, screen, late, downward, upward, sent,
                   relay, session, cut>>

Send(frame) ==
    /\ ws[sock] = "open"
    /\ upward' = IF srv = "done" THEN upward ELSE Append(upward, frame)
    /\ sent' = Append(sent, frame)

(* term.onData, and the fits that announce a size.                         *)
Type ==
    /\ connect /\ Len(sent) < MaxInput
    /\ \/ stdin /\ Send(Len(sent) + 1)
       \/ Send(Resize)
    /\ UNCHANGED <<pane, ws, downward, relay, session, cut>>

(* onopen, with the size.                                                  *)
Opened(s) ==
    /\ ws[s] = "connecting" /\ srv \in {"relay", "closePty", "closeBrowser", "done"}
    /\ ws' = [ws EXCEPT ![s] = "open"]
    /\ status' = "open"
    /\ upward' = IF srv = "done" THEN upward ELSE Append(upward, Resize)
    /\ sent' = Append(sent, Resize)
    /\ UNCHANGED <<connect, sock, stdin, screen, late, downward, relay, session, cut>>

(* onmessage. A browser drops what arrives at a socket that is closing.    *)
Message(s) ==
    /\ ws[s] # "connecting" /\ downward[s] # <<>>
    /\ downward' = [downward EXCEPT ![s] = Tail(@)]
    /\ IF ws[s] = "open"
       THEN /\ screen' = Append(screen, Head(downward[s]))
            /\ IF Head(downward[s]) = Exit
               THEN status' = "exited" /\ stdin' = FALSE
               ELSE UNCHANGED <<status, stdin>>
       ELSE UNCHANGED <<screen, status, stdin>>
    /\ UNCHANGED <<connect, sock, late, ws, upward, sent, relay, session, cut>>

(* onerror and onclose.                                                    *)
Closed(s) ==
    /\ ws' = [ws EXCEPT ![s] = "closed"]
    /\ status' = IF status = "exited" THEN status ELSE "closed"
    /\ late' = (late \/ s # sock)
    /\ UNCHANGED <<connect, sock, stdin, screen, sent, relay, session>>

(* The upgrade was refused; or the server closed the connection, after     *)
(* what it wrote; or the page did, and the browser is done with it.        *)
SocketEnds(s) ==
    /\ \/ ws[s] = "connecting" /\ srv = "refused"
       \/ ws[s] = "open" /\ downward[s] = <<>> /\ (srv = "done" \/ s # sock)
       \/ ws[s] = "closing"
    /\ Closed(s)
    /\ UNCHANGED <<downward, upward, cut>>

(* The connection breaks, and what is under way with it.                   *)
Break ==
    /\ connect /\ ws[sock] \in {"connecting", "open"}
    /\ Closed(sock)
    /\ upward' = <<>> /\ downward' = [downward EXCEPT ![sock] = <<>>]
    /\ cut' = TRUE

-------------------------------------------------------------------------------
(* The handler: Manager.PTY, then the upgrade, then relay.                 *)

Gone == ws[sock] \in {"closing", "closed"}
Handle(from, to) == srv = from /\ srv' = to

(* GetSession: the row must be live.                                       *)
Lookup ==
    /\ \/ row /\ Handle("lookup", "dial")
       \/ ~row /\ Handle("lookup", "refused")
    /\ UNCHANGED <<pane, wires, conns, pump, hold, errc, session, cut>>

(* Sandbox.Get and DialPTY; either may fail.                               *)
DialPTY ==
    /\ \/ up /\ Handle("dial", "accept") /\ conns' = {"pty"} /\ shell' = "running"
       \/ Handle("dial", "refused") /\ UNCHANGED <<conns, shell>>
    /\ UNCHANGED <<pane, wires, pump, hold, errc, up, row, out, said, heard, cut>>

(* The upgrade; it may fail when the browser is gone.                      *)
Accept ==
    /\ \/ /\ Handle("accept", "relay")
          /\ conns' = {"pty", "browser"}
          /\ pump' = [w \in Ways |-> "read"]
       \/ Handle("accept", "refused") /\ Gone /\ conns' = {} /\ UNCHANGED pump
    /\ UNCHANGED <<pane, wires, hold, errc, session, cut>>

Pumping(w, l) == pump[w] = l
Goto(w, l) == pump' = [pump EXCEPT ![w] = l]
Forget(w) == hold' = [hold EXCEPT ![w] = 0]

(* from.Read: a frame that arrived.                                        *)
ReadIn ==
    /\ Pumping("in", "read") /\ "browser" \in conns /\ upward # <<>>
    /\ hold' = [hold EXCEPT !["in"] = Head(upward)]
    /\ upward' = Tail(upward)
    /\ Goto("in", "write")
    /\ UNCHANGED <<pane, ws, sent, downward, srv, conns, errc, session, cut>>

ReadOut ==
    /\ Pumping("out", "read") /\ "pty" \in conns /\ out # <<>>
    /\ hold' = [hold EXCEPT !["out"] = Head(out)]
    /\ out' = Tail(out)
    /\ Goto("out", "write")
    /\ UNCHANGED <<pane, wires, srv, conns, errc, up, row, shell, said, heard, cut>>

(* A slip: a side that is gone is noticed before its last frames.          *)
ReadFailsEarly(w) ==
    /\ Pumping(w, "read")
    /\ \/ w = "in" /\ ("browser" \notin conns \/ Gone)
       \/ w = "out" /\ ("pty" \notin conns \/ shell = "gone")
    /\ Goto(w, "report")
    /\ UNCHANGED <<pane, wires, srv, conns, hold, errc, session, cut>>

(* from.Read fails: the side is gone and its frames are read, or the relay *)
(* has closed the connection.                                              *)
ReadFails(w) ==
    /\ Pumping(w, "read")
    /\ \/ w = "in" /\ ("browser" \notin conns \/ (Gone /\ upward = <<>>))
       \/ w = "out" /\ ("pty" \notin conns \/ (shell = "gone" /\ out = <<>>))
    /\ Goto(w, "report")
    /\ UNCHANGED <<pane, wires, srv, conns, hold, errc, session, cut>>

(* to.Write; what is written to a side that is going may be lost.          *)
WriteIn ==
    /\ Pumping("in", "write") /\ "pty" \in conns
    /\ heard' = IF shell = "running" THEN Append(heard, hold["in"]) ELSE heard
    /\ Goto("in", "read") /\ Forget("in")
    /\ UNCHANGED <<pane, wires, srv, conns, errc, up, row, shell, out, said, cut>>

WriteOut ==
    /\ Pumping("out", "write") /\ "browser" \in conns
    /\ downward' = IF Gone THEN downward
                           ELSE [downward EXCEPT ![sock] = Append(@, hold["out"])]
    /\ Goto("out", "read") /\ Forget("out")
    /\ UNCHANGED <<pane, ws, sent, upward, srv, conns, errc, session, cut>>

(* Input for a shell that is gone makes the relay close before it has read *)
(* what the shell said last.                                               *)
WriteInFails ==
    /\ Pumping("in", "write")
    /\ \/ "pty" \notin conns /\ UNCHANGED cut
       \/ "pty" \in conns /\ shell = "gone" /\ cut' = TRUE
    /\ Goto("in", "report") /\ Forget("in")
    /\ UNCHANGED <<pane, wires, srv, conns, errc, session>>

WriteOutFails ==
    /\ Pumping("out", "write") /\ ("browser" \notin conns \/ Gone)
    /\ Goto("out", "report") /\ Forget("out")
    /\ UNCHANGED <<pane, wires, srv, conns, errc, session, cut>>

(* A slip: an unbuffered channel, whose only reader reads once.            *)
ReportToReader(w) ==
    /\ Pumping(w, "report") /\ errc = 0 /\ srv = "relay"
    /\ errc' = errc + 1
    /\ Goto(w, "ended")
    /\ UNCHANGED <<pane, wires, srv, conns, hold, session, cut>>

(* errc <- err: a channel of capacity 2.                                   *)
Report(w) ==
    /\ Pumping(w, "report") /\ errc < 2
    /\ errc' = errc + 1
    /\ Goto(w, "ended")
    /\ UNCHANGED <<pane, wires, srv, conns, hold, session, cut>>

(* <-errc                                                                  *)
Relayed ==
    /\ errc > 0 /\ Handle("relay", "closePty")
    /\ errc' = errc - 1
    /\ UNCHANGED <<pane, wires, conns, pump, hold, session, cut>>

(* The deferred calls of relay. A Close waits a while for the other side.  *)
ClosePTY ==
    /\ Handle("closePty", "closeBrowser")
    /\ conns' = conns \ {"pty"} /\ out' = <<>>
    /\ UNCHANGED <<pane, wires, pump, hold, errc, up, row, shell, said, heard, cut>>

CloseBrowser ==
    /\ Handle("closeBrowser", "done")
    /\ conns' = conns \ {"browser"} /\ upward' = <<>>
    /\ UNCHANGED <<pane, ws, downward, sent, pump, hold, errc, session, cut>>

-------------------------------------------------------------------------------
Handler ==
    \/ Lookup \/ DialPTY \/ Accept \/ Relayed \/ ClosePTY \/ CloseBrowser

PumpIn == ReadIn \/ WriteIn \/ WriteInFails \/ ReadFails("in") \/ Report("in")
PumpOut == ReadOut \/ WriteOut \/ WriteOutFails \/ ReadFails("out") \/ Report("out")
Browser(s) == Opened(s) \/ Message(s) \/ SocketEnds(s)

Next ==
    \/ Open \/ TearDown \/ Type \/ Break
    \/ Reclaim \/ EndRow \/ Output \/ ShellExits
    \/ Handler \/ PumpIn \/ PumpOut
    \/ \E s \in Sockets : Browser(s)

Spec == Init /\ [][Next]_vars

(* The handler, its pumps and the browser go on while they can.            *)
Fairness ==
    /\ WF_vars(Handler) /\ WF_vars(PumpIn) /\ WF_vars(PumpOut)
    /\ \A s \in Sockets : WF_vars(Browser(s))

-------------------------------------------------------------------------------
(* The pane shows what the shell of its own session said, from the first   *)
(* frame on and in order, whatever older sockets still carry; and a shell  *)
(* hears what was typed into its own session, in order (pty.go:54-78,      *)
(* Terminal.tsx:103-135).                                                  *)
BothWaysInOrder == IsPrefix(screen, said) /\ IsPrefix(heard, sent)

(* When the socket of a shell that exited is closed, the pane shows all it *)
(* said and that it exited, unless the connection broke or input for the   *)
(* shell came after its exit: the relay reads one side to its end before   *)
(* it closes the other (pty.go:61-77, Terminal.tsx:38-42).                 *)
ExitIsShown ==
    /\ connect /\ ws[sock] = "closed" /\ ~cut
    /\ said # <<>> /\ Last(said) = Exit
    => screen = said /\ status = "exited"

(* What the pane says of its connection is about the socket it has: open   *)
(* only while that is open, exited only if its shell did, closed only if   *)
(* that is closed, unless an older socket's close came late                *)
(* (Terminal.tsx:107-124).                                                 *)
StatusTellsCurrent ==
    connect => /\ status = "open" => ws[sock] = "open"
               /\ status = "exited" => screen # <<>> /\ Last(screen) = Exit
               /\ status = "closed" => ws[sock] = "closed" \/ late

(* Whichever side goes, the handler ends: both connections are closed and  *)
(* neither pump is left behind (pty.go:54-78).                             *)
RelayEnds ==
    srv # "none" /\ (Gone \/ shell = "gone") ~> Over
================================================================================
