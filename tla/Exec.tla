---------------------------------- MODULE Exec ----------------------------------
(***************************************************************************)
(* One command in a sandbox (sandbox.HTTP.Exec): what it writes travels as *)
(* a stream of frames, cut wherever a read of the sandbox ended, and the   *)
(* stream may end in every way a connection can. The client collects the   *)
(* output and takes the exit code from the exit frame. Stderr travels like *)
(* stdout and is left out; characters are values.                          *)
(***************************************************************************)
EXTENDS Integers, Sequences, SequencesExt

CONSTANTS Outputs       \* what the commands write

VARIABLES
    output,     \* sandbox: what the command writes
    exits,      \* sandbox: the code it ends with, left alone
    wrote,      \* sandbox: how much of output is in frames
    stream,     \* sandbox: open, ended (cleanly), broken, silent
    frames,     \* on their way to the client
    stdout,     \* client: what was collected
    code,       \* client: res.ExitCode
    returned    \* client: what Exec returned: none, ok, error

sandbox == <<output, exits, wrote, stream>>
client == <<stdout, code, returned>>
execVars == <<sandbox, frames, client>>

NoCode == -1

(* A slip: a command is taken to have exited 0 until told otherwise.       *)
ExecInitZero ==
    /\ output \in Outputs
    /\ exits \in {0, 1}
    /\ wrote = 0
    /\ stream = "open"
    /\ frames = <<>>
    /\ stdout = <<>>
    /\ code = 0
    /\ returned = "none"

ExecInit ==
    /\ output \in Outputs
    /\ exits \in {0, 1}
    /\ wrote = 0
    /\ stream = "open"
    /\ frames = <<>>
    /\ stdout = <<>>
    /\ code = NoCode
    /\ returned = "none"

SendFrame(f) == frames' = Append(frames, f)

(* The sandbox frames what a read of the command's output returned.        *)
Write(n) ==
    /\ stream = "open"
    /\ wrote + n <= Len(output)
    /\ SendFrame([type |-> "stdout", data |-> SubSeq(output, wrote + 1, wrote + n), code |-> NoCode])
    /\ wrote' = wrote + n
    /\ UNCHANGED <<output, exits, stream, client>>

(* It exits, all written, or is killed at its timeout_ms: a command that   *)
(* was killed has no exit code.                                            *)
CommandExits ==
    /\ stream = "open"
    /\ stream' = "ended"
    /\ \/ wrote = Len(output) /\ SendFrame([type |-> "exit", data |-> <<>>, code |-> exits])
       \/ SendFrame([type |-> "exit", data |-> <<>>, code |-> NoCode])
    /\ UNCHANGED <<output, exits, wrote, client>>

(* The stream ends otherwise: by an error frame, by an end of file where   *)
(* sandboxd stopped, by a connection that breaks, or goes silent and loses *)
(* what it had not delivered.                                              *)
Fail ==
    /\ stream = "open"
    /\ \/ stream' = "ended" /\ SendFrame([type |-> "error", data |-> <<>>, code |-> NoCode])
       \/ stream' = "ended" /\ UNCHANGED frames
       \/ stream' \in {"broken", "silent"} /\ \E n \in 0..Len(frames) : frames' = SubSeq(frames, 1, n)
    /\ UNCHANGED <<output, exits, wrote, client>>

Returns(r) == returned' = r /\ UNCHANGED <<sandbox, frames, stdout, code>>

(* dataStream: no connection, or a status of 300 and up.                   *)
Refused == returned = "none" /\ stdout = <<>> /\ Returns("error")

(* readStream: the next frame, collected. An error frame ends   *)
(* it, a frame over 4 MB or one that does not decode as well.              *)
ReadFrame ==
    /\ returned = "none"
    /\ frames # <<>>
    /\ LET f == Head(frames) IN
          /\ stdout' = stdout \o f.data
          /\ code' = IF f.type = "exit" /\ f.code # NoCode THEN f.code ELSE code
          /\ returned' = IF f.type = "error" THEN "error" ELSE "none"
    /\ frames' = Tail(frames)
    /\ UNCHANGED sandbox

BadFrame == returned = "none" /\ frames # <<>> /\ Returns("error")

(* The end of the stream: clean, or an error of the connection.            *)
EndOfStream ==
    /\ returned = "none"
    /\ frames = <<>>
    /\ \/ stream = "ended" /\ Returns("ok")
       \/ stream = "broken" /\ Returns("error")

(* The build's ctx is done: the read of a silent connection fails too.     *)
Cancelled == returned = "none" /\ Returns("error")

ExecNext ==
    \/ \E n \in 1..Len(output) : Write(n)
    \/ CommandExits \/ Fail
    \/ Refused \/ ReadFrame \/ BadFrame \/ EndOfStream \/ Cancelled

ExecSpec == ExecInit /\ [][ExecNext]_execVars

-------------------------------------------------------------------------------
Succeeded == returned = "ok" /\ code = 0

(* A command counts as done only if it did exit with 0 and all it wrote is *)
(* here, in order, whatever became of the stream: the clone, each install  *)
(* step and the inspector, whose output is the manifest, go by that        *)
(* (http.go:252, builder.go:281, 397, 428).                                *)
SuccessIsWhole == Succeeded => exits = 0 /\ stdout = output
===============================================================================
