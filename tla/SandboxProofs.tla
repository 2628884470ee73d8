----------------------------- MODULE SandboxProofs -----------------------------
(***************************************************************************)
(* The client of a sandbox: how long it waits, what it takes for a         *)
(* success, and what passes through a terminal.                            *)
(*                                                                         *)
(* Waits for any timeout, interval and call timeout. The induction follows *)
(* the clock: each call and each sleep is within its own limit (Pace), and *)
(* an answer that contradicts the platform was overtaken by it (Stale).    *)
(*                                                                         *)
(* Exec for any commands: what a command wrote is whole wherever it is     *)
(* counted as done. The frames on the way to the client are consecutive    *)
(* pieces of the output: what was collected ends where the first of them   *)
(* begins, and an exit code comes after all of it, whatever is lost behind *)
(* it.                                                                     *)
(*                                                                         *)
(* Terminal for any number of sessions and frames. What is on the screen,  *)
(* on its way there and held by the relay is, in this order, what the      *)
(* shell said (Showing), as what the page sent is what the shell heard,    *)
(* what is held and what is on its way (Hearing). That the relay has read  *)
(* one side to its end before the other notices (Draining) makes the exit  *)
(* arrive; that there is one socket at a time (Opening) makes it the       *)
(* current session's.                                                      *)
(***************************************************************************)
EXTENDS Waits, Exec, Terminal, SequenceTheorems, TLAPS

(* A wait has a result exactly when it has returned, and an answer on the  *)
(* way only during a call.                                                 *)
Settled ==
    /\ result # "none" <=> pc = "returned"
    /\ answer # "none" => pc = "call"

Inductive == TypeOK /\ Pace /\ Stale /\ Settled

(* The wait begins with a call, at 0, with nothing read.                   *)
LEMMA InductiveInit == WaitsInit => Inductive /\ ReadyInTimeIsFound
  <1> SUFFICES ASSUME WaitsInit PROVE Inductive /\ ReadyInTimeIsFound
    OBVIOUS
  <1>1. TypeOK
    BY DEF WaitsInit, TypeOK, Phase
  <1>2. Pace
    BY WaitsAssumption DEF WaitsInit, Pace
  <1>3. Stale /\ Settled /\ ReadyInTimeIsFound
    BY DEF WaitsInit, Stale, Settled, ReadyInTimeIsFound
  <1> QED
    BY <1>1, <1>2, <1>3 DEF Inductive

(* Each step keeps the types, the pace and the order of reading and change *)
(* (http.go:93-113, 196-217).                                              *)
LEMMA InductiveStep == Inductive /\ [WaitsNext]_waitsVars => Inductive'
  <1> SUFFICES ASSUME Inductive, [WaitsNext]_waitsVars PROVE Inductive'
    OBVIOUS
  <1> USE WaitsAssumption DEF Inductive, TypeOK, Pace, Stale, Settled
  <1>1. ASSUME NEW p \in Phase, Change(p) PROVE Inductive'
    BY <1>1 DEF Change
  <1>2. CASE Read
    BY <1>2 DEF Read, Phase
  <1>3. CASE Arrive
    BY <1>3 DEF Arrive, Return
  <1>4. CASE CallFails
    BY <1>4 DEF CallFails, Return
  <1>5. CASE Wake
    BY <1>5 DEF Wake
  <1>6. CASE Interrupt
    BY <1>6 DEF Interrupt, Return
  <1>7. CASE Cancel
    BY <1>7 DEF Cancel
  <1>8. CASE Tick
    BY <1>8 DEF Tick
  <1>9. CASE UNCHANGED waitsVars
    BY <1>9 DEF waitsVars
  <1> QED
    BY <1>1, <1>2, <1>3, <1>4, <1>5, <1>6, <1>7, <1>8, <1>9 DEF WaitsNext

(* The wait is paced, always.                                              *)
THEOREM WaitsInvariant == WaitsSpec => []Inductive
  BY InductiveInit, InductiveStep, PTL DEF WaitsSpec

(* No wait lasts longer than its timeout, one interval and one call.       *)
THEOREM WaitsAreBounded == WaitsSpec => []WaitIsBounded
  <1>1. WaitsInit => WaitIsBounded
    BY WaitsAssumption DEF WaitsInit, WaitIsBounded, Bound
  <1>2. Inductive /\ WaitIsBounded /\ [WaitsNext]_waitsVars => WaitIsBounded'
    <2> SUFFICES ASSUME Inductive, WaitIsBounded, [WaitsNext]_waitsVars PROVE WaitIsBounded'
      OBVIOUS
    <2>1. CASE Tick
      BY <2>1, WaitsAssumption DEF Tick, Inductive, TypeOK, Pace, WaitIsBounded, Bound
    <2>2. CASE ~Tick
      BY <2>2 DEF WaitsNext, Change, Read, Arrive, CallFails, Wake, Interrupt, Cancel, waitsVars, WaitIsBounded, Bound
    <2> QED
      BY <2>1, <2>2
  <1> QED
    BY WaitsInvariant, <1>1, <1>2, PTL DEF WaitsSpec

(* What is ready a call before the deadline is over is found.              *)
THEOREM ReadyIsFound == WaitsSpec => []ReadyInTimeIsFound
  <1>1. Inductive /\ ReadyInTimeIsFound /\ [WaitsNext]_waitsVars => ReadyInTimeIsFound'
    <2> SUFFICES ASSUME Inductive, ReadyInTimeIsFound, [WaitsNext]_waitsVars, result' = "late", thing' = "ready"
                 PROVE  readyAt' + CallTimeout > Timeout
      BY DEF ReadyInTimeIsFound
    <2> USE WaitsAssumption DEF Inductive, TypeOK
    <2>1. CASE Arrive
      <3>1. CASE result = "late"
        BY <2>1, <3>1 DEF Arrive, ReadyInTimeIsFound
      <3>2. CASE result # "late"
        <4>1. answer = "pending" /\ now > Timeout /\ thing = "ready" /\ readyAt' = readyAt
          BY <2>1, <3>2 DEF Arrive, Return
        <4>2. since <= readyAt /\ now <= since + CallTimeout
          BY <2>1, <4>1 DEF Arrive, Pace, Stale
        <4> QED
          BY <4>1, <4>2
      <3> QED
        BY <3>1, <3>2
    <2>2. ASSUME NEW p \in Phase, Change(p) PROVE readyAt' + CallTimeout > Timeout
      BY <2>2 DEF Change, Settled
    <2>3. CASE CallFails \/ Interrupt
      BY <2>3 DEF CallFails, Interrupt, Return
    <2>4. CASE Read \/ Wake \/ Cancel \/ Tick \/ UNCHANGED waitsVars
      BY <2>4 DEF Read, Wake, Cancel, Tick, waitsVars, ReadyInTimeIsFound
    <2> QED
      BY <2>1, <2>2, <2>3, <2>4 DEF WaitsNext
  <1> QED
    BY InductiveInit, WaitsInvariant, <1>1, PTL DEF WaitsSpec

--------------------------------------------------------------------------------
Codes == {NoCode, 0, 1}
Frame(S) == [type : {"stdout", "exit", "error"}, data : Seq(S), code : Codes]
Cuts == [0 .. Len(frames) -> 0 .. Len(output)]

(* Where the pieces meet: at[0] is how far the client has come, at[i] where *)
(* the i-th frame on its way ends.                                         *)
Frames(at) ==
    \A i \in 1 .. Len(frames) :
        /\ at[i - 1] <= at[i]
        /\ frames[i].data = SubSeq(output, at[i - 1] + 1, at[i])
        /\ frames[i].code # NoCode => at[i] = Len(output) /\ frames[i].code = exits

Collected(at) ==
    /\ stdout = SubSeq(output, 1, at[0])
    /\ code # NoCode => at[0] = Len(output) /\ code = exits

Pieces(at) ==
    /\ Frames(at)
    /\ Collected(at)
    /\ stream = "open" => at[Len(frames)] = wrote

Typed(S) ==
    /\ output \in Seq(S)
    /\ exits \in {0, 1}
    /\ wrote \in 0 .. Len(output)
    /\ frames \in Seq(Frame(S))
    /\ code \in Codes

ExecInv(S) == Typed(S) /\ \E at \in Cuts : Pieces(at)

(* The command starts with nothing on the way and nothing collected.       *)
LEMMA ExecBegins ==
    ASSUME NEW S, Outputs \subseteq Seq(S), ExecInit
    PROVE  ExecInv(S)
  <1> USE DEF ExecInit
  <1>1. frames \in Seq(Frame(S)) /\ Len(frames) = 0
    BY EmptySeq
  <1>2. Typed(S)
    <2>1. output \in Seq(S) /\ Len(output) \in Nat
      BY LenProperties
    <2> QED
      BY <1>1, <2>1 DEF Typed, Codes
  <1> DEFINE at == [i \in 0 .. Len(frames) |-> 0]
  <1>3. at \in Cuts
    BY <1>1, <1>2, LenProperties DEF Typed, Cuts
  <1>4. SubSeq(output, 1, 0) = <<>>
    BY SubSeqEmpty
  <1>5. Pieces(at)
    BY <1>1, <1>4 DEF Pieces, Frames, Collected
  <1> QED
    BY <1>2, <1>3, <1>5 DEF ExecInv

(* A frame that continues the last one may follow it.                      *)
LEMMA FrameSent ==
    ASSUME NEW S, Typed(S), NEW at \in Cuts, Pieces(at), stream = "open",
           NEW f \in Frame(S), NEW n \in wrote .. Len(output), SendFrame(f),
           f.data = SubSeq(output, wrote + 1, n),
           f.code # NoCode => n = Len(output) /\ f.code = exits,
           UNCHANGED <<output, exits, client>>,
           wrote' = n,
           wrote' \in 0 .. Len(output)
    PROVE  ExecInv(S)'
  <1> PICK l \in Nat : l = Len(frames)
    BY LenProperties DEF Typed
  <1> DEFINE to == [i \in 0 .. l + 1 |-> IF i <= l THEN at[i] ELSE n]
  <1>1. /\ frames' \in Seq(Frame(S))
        /\ Len(frames') = l + 1
        /\ \A i \in 1 .. l : frames'[i] = frames[i]
        /\ frames'[l + 1] = f
    BY AppendProperties DEF SendFrame, Typed
  <1>2. l \in Nat /\ Len(output) \in Nat
    BY LenProperties DEF Typed
  <1>3. to \in Cuts'
    BY <1>1, <1>2 DEF Cuts, Typed
  <1>4. Frames(to)'
    <2> SUFFICES ASSUME NEW i \in 1 .. l + 1
                 PROVE  /\ to[i - 1] <= to[i]
                        /\ frames'[i].data = SubSeq(output, to[i - 1] + 1, to[i])
                        /\ frames'[i].code # NoCode => to[i] = Len(output) /\ frames'[i].code = exits
      BY <1>1 DEF Frames, client
    <2>1. CASE i \in 1 .. l
      BY <1>1, <1>2, <2>1 DEF Pieces, Frames
    <2>2. CASE i = l + 1
      <3>1. to[i - 1] = wrote /\ to[i] = n
        BY <1>2, <2>2 DEF Pieces
      <3>2. frames'[i] = f /\ wrote <= n
        BY <1>1, <2>2 DEF Typed
      <3> HIDE DEF to
      <3> QED
        BY <3>1, <3>2
    <2>3. i \in 1 .. l \/ i = l + 1
      OBVIOUS
    <2> HIDE DEF to
    <2> QED
      BY <2>1, <2>2, <2>3
  <1>5. Collected(to)'
    <2>1. to[0] = at[0]
      BY <1>2
    <2> QED
      BY <2>1 DEF Pieces, Collected, client
  <1>6. to[Len(frames')] = wrote'
    BY <1>1, <1>2
  <1> QED
    BY <1>1, <1>3, <1>4, <1>5, <1>6 DEF ExecInv, Pieces, Typed, client

(* What was on the way may be lost from any frame on, once the stream is   *)
(* not open any more.                                                      *)
LEMMA FramesLost ==
    ASSUME NEW S, Typed(S), NEW at \in Cuts, Pieces(at),
           NEW n \in 0 .. Len(frames), frames' = SubSeq(frames, 1, n),
           stream' # "open",
           UNCHANGED <<output, exits, wrote, client>>
    PROVE  ExecInv(S)'
  <1> DEFINE to == [i \in 0 .. n |-> at[i]]
  <1>1. Len(frames) \in Nat /\ \A i \in 1 .. Len(frames) : frames[i] \in Frame(S)
    BY LenProperties, ElementOfSeq DEF Typed
  <1>2. /\ frames' \in Seq(Frame(S))
        /\ Len(frames') = n
        /\ \A i \in 1 .. n : frames'[i] = frames[i]
    <2>1. \A i \in 1 .. n : frames[i] \in Frame(S)
      BY <1>1
    <2> QED
      BY <1>1, <2>1, SubSeqProperties
  <1>3. to \in Cuts'
    BY <1>1, <1>2 DEF Cuts
  <1>4. Frames(to)'
    BY <1>1, <1>2 DEF Pieces, Frames, client
  <1>5. Collected(to)'
    <2>1. to[0] = at[0]
      BY <1>1
    <2> QED
      BY <2>1 DEF Pieces, Collected, client
  <1> QED
    BY <1>2, <1>3, <1>4, <1>5 DEF ExecInv, Pieces, Typed, client

(* The client collects the next piece (http.go:437-481).                   *)
LEMMA FrameRead ==
    ASSUME NEW S, Typed(S), NEW at \in Cuts, Pieces(at), ReadFrame
    PROVE  ExecInv(S)'
  <1> PICK l \in Nat : l = Len(frames)
    BY LenProperties DEF Typed
  <1> PICK f : f = Head(frames)
    OBVIOUS
  <1> DEFINE to == [i \in 0 .. l - 1 |-> at[i + 1]]
  <1> USE DEF ReadFrame
  <1>1. /\ l \in Nat \ {0}
        /\ f = frames[1] /\ f \in Frame(S)
        /\ frames' \in Seq(Frame(S))
        /\ Len(frames') = l - 1
        /\ \A i \in 1 .. l - 1 : frames'[i] = frames[i + 1]
    BY EmptySeq, HeadTailProperties, LenProperties, ElementOfSeq DEF Typed
  <1>2. Len(output) \in Nat /\ UNCHANGED <<output, exits, wrote, stream>>
    BY LenProperties DEF Typed, sandbox
  <1>3. to \in Cuts'
    BY <1>1, <1>2 DEF Cuts
  <1>4. Frames(to)'
    <2> SUFFICES ASSUME NEW i \in 1 .. l - 1
                 PROVE  /\ to[i - 1] <= to[i]
                        /\ frames'[i].data = SubSeq(output, to[i - 1] + 1, to[i])
                        /\ frames'[i].code # NoCode => to[i] = Len(output) /\ frames'[i].code = exits
      BY <1>1, <1>2 DEF Frames
    <2>1. to[i - 1] = at[i] /\ to[i] = at[i + 1] /\ frames'[i] = frames[i + 1]
      BY <1>1
    <2>2. i + 1 \in 1 .. l /\ (i + 1) - 1 = i
      BY <1>1
    <2> QED
      BY <2>1, <2>2 DEF Pieces, Frames
  <1>5. /\ at[0] \in 0 .. Len(output) /\ at[1] \in at[0] .. Len(output) /\ to[0] = at[1]
        /\ f.data = SubSeq(output, at[0] + 1, at[1])
        /\ f.code # NoCode => at[1] = Len(output) /\ f.code = exits
    <2>1. 1 \in 1 .. l /\ 1 - 1 = 0
      BY <1>1
    <2>2. /\ at[0] <= at[1]
          /\ frames[1].data = SubSeq(output, at[0] + 1, at[1])
          /\ frames[1].code # NoCode => at[1] = Len(output) /\ frames[1].code = exits
      BY <2>1 DEF Pieces, Frames
    <2>3. at[0] \in 0 .. Len(output) /\ at[1] \in 0 .. Len(output) /\ to[0] = at[1]
      <3>1. 0 \in 0 .. Len(frames) /\ 1 \in 0 .. Len(frames) /\ 0 \in 0 .. l - 1
        BY <1>1
      <3>2. at[0] \in 0 .. Len(output) /\ at[1] \in 0 .. Len(output)
        BY <3>1 DEF Cuts
      <3> QED
        BY <3>1, <3>2
    <2> QED
      BY SMTT(30), <1>1, <1>2, <2>2, <2>3
  <1>6. stdout' = SubSeq(output, 1, at[1])
    <2>1. SubSeq(output, 1, at[0]) \o SubSeq(output, at[0] + 1, at[1]) = SubSeq(output, 1, at[1])
      <3>1. /\ output \in Seq(S) /\ 1 \in 1 .. Len(output) + 1
            /\ at[0] \in 1 - 1 .. Len(output) /\ at[1] \in at[0] .. Len(output)
        BY <1>2, <1>5 DEF Typed
      <3> QED
        BY <3>1, ConcatAdjacentSubSeq
    <2> QED
      BY <1>5, <2>1 DEF Pieces, Collected
  <1>7. code' # NoCode => at[1] = Len(output) /\ code' = exits
    BY <1>2, <1>5 DEF Pieces, Collected, NoCode
  <1>8. code' \in Codes
    BY <1>1 DEF Typed, Frame
  <1>9. stream = "open" => to[Len(frames')] = wrote
    BY <1>1 DEF Pieces
  <1> QED
    BY <1>1, <1>2, <1>3, <1>4, <1>5, <1>6, <1>7, <1>8, <1>9 DEF ExecInv, Pieces, Collected, Typed

(* Every step of the command, the connection and the client keeps the      *)
(* pieces together.                                                        *)
LEMMA ExecKept ==
    ASSUME NEW S, ExecInv(S), [ExecNext]_execVars
    PROVE  ExecInv(S)'
  <1>1. PICK at \in Cuts : Pieces(at)
    BY DEF ExecInv
  <1>2. Typed(S)
    BY DEF ExecInv
  <1>3. Len(frames) \in Nat /\ Len(output) \in Nat
    BY <1>2, LenProperties DEF Typed
  <1>4. ASSUME NEW k \in 1 .. Len(output), Write(k) PROVE ExecInv(S)'
    <2> DEFINE f == [type |-> "stdout", data |-> SubSeq(output, wrote + 1, wrote + k), code |-> NoCode]
    <2>1. wrote + k \in wrote .. Len(output) /\ wrote + k \in 0 .. Len(output)
      BY <1>2, <1>3, <1>4 DEF Typed, Write
    <2>2. f \in Frame(S)
      <3>1. \A i \in wrote + 1 .. wrote + k : output[i] \in S
        BY <1>2, <1>3, <2>1, ElementOfSeq DEF Typed
      <3>2. SubSeq(output, wrote + 1, wrote + k) \in Seq(S)
        BY <1>2, <1>3, <2>1, <3>1, SubSeqProperties DEF Typed
      <3> QED
        BY <3>2 DEF Frame, Codes
    <2>3. stream = "open" /\ SendFrame(f) /\ wrote' = wrote + k /\ UNCHANGED <<output, exits, client>>
      BY <1>4 DEF Write
    <2> QED
      BY <1>1, <1>2, <2>1, <2>2, <2>3, FrameSent
  <1>5. ASSUME NEW t \in {"exit", "error"}, NEW c \in Codes,
               c # NoCode => wrote = Len(output) /\ c = exits,
               stream = "open", SendFrame([type |-> t, data |-> <<>>, code |-> c]),
               UNCHANGED <<output, exits, wrote, client>>
        PROVE  ExecInv(S)'
    <2> DEFINE f == [type |-> t, data |-> <<>>, code |-> c]
    <2>1. f \in Frame(S)
      BY EmptySeq DEF Frame
    <2>2. SubSeq(output, wrote + 1, wrote) = <<>>
      BY <1>2, SubSeqEmpty DEF Typed
    <2>3. wrote \in wrote .. Len(output) /\ wrote \in 0 .. Len(output)
      BY <1>2, <1>3 DEF Typed
    <2>4. f.data = SubSeq(output, wrote + 1, wrote) /\ f.code = c
      BY <2>2
    <2> HIDE DEF f
    <2> QED
      BY <1>1, <1>2, <1>5, <2>1, <2>3, <2>4, FrameSent DEF f
  <1>6. CASE CommandExits
    <2>1. exits \in Codes /\ NoCode \in Codes
      BY <1>2 DEF Typed, Codes
    <2> QED
      BY <1>5, <1>6, <2>1 DEF CommandExits
  <1>7. ASSUME NEW n \in 0 .. Len(frames), frames' = SubSeq(frames, 1, n), stream' # "open",
               UNCHANGED <<output, exits, wrote, client>>
        PROVE  ExecInv(S)'
    BY <1>1, <1>2, <1>7, FramesLost
  <1>8. CASE Fail
    <2>1. UNCHANGED frames => frames' = SubSeq(frames, 1, Len(frames)) /\ Len(frames) \in 0 .. Len(frames)
      BY <1>2, <1>3, SubSeqFull DEF Typed
    <2>2. "error" \in {"exit", "error"} /\ NoCode \in Codes
      BY DEF Codes
    <2> QED
      BY <1>5, <1>7, <1>8, <2>1, <2>2 DEF Fail
  <1>9. CASE ReadFrame
    BY <1>1, <1>2, <1>9, FrameRead
  <1>10. CASE UNCHANGED <<sandbox, frames, stdout, code>>
    BY <1>1, <1>2, <1>10 DEF ExecInv, Typed, Pieces, Frames, Collected, Cuts, sandbox
  <1> QED
    BY <1>4, <1>6, <1>8, <1>9, <1>10
       DEF ExecNext, Refused, BadFrame, EndOfStream, Cancelled, Returns, execVars, client

(* "ok" with exit code 0 means that the command exited with 0 and that all *)
(* it wrote was collected, in order (http.go:252), whatever the commands   *)
(* write, however it is cut, and wherever the stream breaks.               *)
THEOREM SuccessesAreWhole ==
    ASSUME NEW S, Outputs \subseteq Seq(S)
    PROVE  ExecSpec => []SuccessIsWhole
  <1>1. ExecInit => ExecInv(S)
    BY ExecBegins
  <1>2. ExecInv(S) /\ [ExecNext]_execVars => ExecInv(S)'
    BY ExecKept
  <1>3. ExecInv(S) => SuccessIsWhole
    <2> SUFFICES ASSUME ExecInv(S), Succeeded PROVE exits = 0 /\ stdout = output
      BY DEF SuccessIsWhole
    <2>1. PICK at \in Cuts : Pieces(at)
      BY DEF ExecInv
    <2>2. at[0] = Len(output) /\ code = exits /\ stdout = SubSeq(output, 1, at[0])
      BY <2>1 DEF Pieces, Collected, Succeeded, NoCode
    <2> QED
      BY <2>2, SubSeqFull DEF Succeeded, ExecInv, Typed
  <1> QED
    BY <1>1, <1>2, <1>3, PTL DEF ExecSpec

--------------------------------------------------------------------------------
(* A sequence is a prefix of itself.                                       *)
LEMMA PrefixOfItself ==
    ASSUME NEW S, NEW s \in Seq(S)
    PROVE  IsPrefix(s, s)
  BY DEF IsPrefix

(* What a prefix begins with is a prefix.                                  *)
LEMMA PrefixOfConcat ==
    ASSUME NEW S, NEW s \in Seq(S), NEW t \in Seq(S), NEW u \in Seq(S), IsPrefix(s \o t, u)
    PROVE  IsPrefix(s, u)
  <1> DEFINE st == s \o t
  <1>1. /\ st \in Seq(S) /\ Len(st) = Len(s) + Len(t)
        /\ \A i \in 1 .. Len(s) : st[i] = s[i]
    BY ConcatProperties, LenProperties
  <1>2. Len(s) \in Nat /\ Len(t) \in Nat /\ Len(u) \in Nat /\ Len(st) \in Nat
    BY LenProperties, <1>1
  <1>3. Len(st) <= Len(u) /\ SubSeq(st, 1, Len(st)) = SubSeq(u, 1, Len(st))
    BY DEF IsPrefix
  <1> HIDE DEF st
  <1>4. \A i \in 1 .. Len(st) : st[i] \in S /\ u[i] \in S
    BY ElementOfSeq, <1>1, <1>2, <1>3
  <1>5. /\ \A i \in 1 .. Len(st) : SubSeq(st, 1, Len(st))[i] = st[i]
        /\ \A i \in 1 .. Len(st) : SubSeq(u, 1, Len(st))[i] = u[i]
    BY SubSeqProperties, <1>2, <1>4
  <1>6. \A i \in 1 .. Len(s) : s[i] = u[i] /\ s[i] \in S /\ u[i] \in S
    BY <1>1, <1>2, <1>3, <1>4, <1>5
  <1>7. /\ SubSeq(u, 1, Len(s)) \in Seq(S)
        /\ Len(SubSeq(u, 1, Len(s))) = Len(s)
        /\ \A i \in 1 .. Len(s) : SubSeq(u, 1, Len(s))[i] = u[i]
    BY SubSeqProperties, <1>2, <1>6
  <1>8. SubSeq(s, 1, Len(s)) = s
    BY SubSeqFull
  <1>9. s = SubSeq(u, 1, Len(s))
    BY SeqEqual, <1>6, <1>7
  <1> QED
    BY <1>1, <1>2, <1>3, <1>8, <1>9 DEF IsPrefix

(* A prefix stays one when the whole grows.                                *)
LEMMA PrefixOfAppend ==
    ASSUME NEW S, NEW s \in Seq(S), NEW t \in Seq(S), NEW e \in S, IsPrefix(s, t)
    PROVE  IsPrefix(s, Append(t, e))
  <1> DEFINE u == Append(t, e)
  <1>1. u \in Seq(S) /\ Len(u) = Len(t) + 1 /\ \A i \in 1 .. Len(t) : u[i] = t[i]
    BY AppendProperties
  <1>2. Len(s) \in Nat /\ Len(t) \in Nat /\ Len(s) <= Len(t)
    BY LenProperties DEF IsPrefix
  <1> HIDE DEF u
  <1>3. \A i \in 1 .. Len(s) : t[i] \in S /\ u[i] = t[i] /\ u[i] \in S
    BY ElementOfSeq, <1>1, <1>2
  <1>4. /\ SubSeq(t, 1, Len(s)) \in Seq(S) /\ SubSeq(u, 1, Len(s)) \in Seq(S)
        /\ Len(SubSeq(t, 1, Len(s))) = Len(s) /\ Len(SubSeq(u, 1, Len(s))) = Len(s)
        /\ \A i \in 1 .. Len(s) : SubSeq(t, 1, Len(s))[i] = SubSeq(u, 1, Len(s))[i]
    BY SubSeqProperties, <1>2, <1>3
  <1>5. SubSeq(t, 1, Len(s)) = SubSeq(u, 1, Len(s))
    BY SeqEqual, <1>4
  <1> QED
    BY <1>1, <1>2, <1>5 DEF IsPrefix, u

(* A prefix has the first elements of the whole.                           *)
LEMMA PrefixElements ==
    ASSUME NEW S, NEW s \in Seq(S), NEW t \in Seq(S), IsPrefix(s, t)
    PROVE  Len(s) <= Len(t) /\ \A i \in 1 .. Len(s) : s[i] = t[i]
  <1>1. Len(s) \in Nat /\ Len(t) \in Nat /\ Len(s) <= Len(t)
    BY LenProperties DEF IsPrefix
  <1>2. \A i \in 1 .. Len(s) : s[i] \in S /\ t[i] \in S
    BY ElementOfSeq, <1>1
  <1>3. \A i \in 1 .. Len(s) : SubSeq(s, 1, Len(s))[i] = s[i] /\ SubSeq(t, 1, Len(s))[i] = t[i]
    BY SubSeqProperties, <1>1, <1>2
  <1> QED
    BY <1>1, <1>3 DEF IsPrefix

(* A frame that moves from the head of a sequence to the end of the one    *)
(* before it leaves the whole as it was.                                   *)
LEMMA HeadMoves ==
    ASSUME NEW S, NEW s \in Seq(S), NEW t \in Seq(S), t # <<>>
    PROVE  /\ <<Head(t)>> \o Tail(t) = t
           /\ Append(s, Head(t)) \o Tail(t) = s \o t
  <1>1. Head(t) \in S /\ Tail(t) \in Seq(S) /\ Len(Tail(t)) = Len(t) - 1
        /\ \A i \in 1 .. Len(Tail(t)) : Tail(t)[i] = t[i + 1]
    BY HeadTailProperties
  <1>2. Len(t) \in Nat \ {0}
    BY EmptySeq
  <1>3. <<Head(t)>> \in Seq(S) /\ Len(<<Head(t)>>) = 1 /\ <<Head(t)>>[1] = Head(t) /\ Head(t) = t[1]
    BY <1>1
  <1> DEFINE h == <<Head(t)>>   r == Tail(t)
  <1>4. h \o r = t
    <2>1. /\ h \o r \in Seq(S) /\ Len(h \o r) = 1 + Len(r)
          /\ \A i \in 1 .. 1 + Len(r) : (h \o r)[i] = IF i <= 1 THEN h[1] ELSE r[i - 1]
      <3>1. h \in Seq(S) /\ r \in Seq(S) /\ Len(h) = 1
        BY <1>1, <1>3
      <3>2. /\ h \o r \in Seq(S) /\ Len(h \o r) = Len(h) + Len(r)
            /\ \A i \in 1 .. Len(h) + Len(r) : (h \o r)[i] = IF i <= Len(h) THEN h[i] ELSE r[i - Len(h)]
        BY <3>1, ConcatProperties
      <3> HIDE DEF h, r
      <3> QED
        BY <3>1, <3>2
    <2>2. Len(r) = Len(t) - 1 /\ \A i \in 1 .. Len(t) - 1 : r[i] = t[i + 1]
      BY <1>1
    <2>3. h[1] = t[1]
      BY <1>3
    <2> HIDE DEF h, r
    <2>4. \A i \in 1 .. Len(t) : (h \o r)[i] = t[i]
      BY <2>1, <2>2, <2>3, <1>2
    <2>5. Len(h \o r) = Len(t)
      BY <2>1, <2>2, <1>2
    <2> QED
      BY <2>1, <2>4, <2>5, SeqEqual
  <1>5. Append(s, Head(t)) = s \o h
    BY <1>1, AppendIsConcat
  <1>6. (s \o h) \o r = s \o (h \o r)
    BY <1>1, <1>3, ConcatAssociative
  <1> QED
    BY <1>4, <1>5, <1>6

(* A frame added to the second of two sequences comes last in both.        *)
LEMMA AppendMoves ==
    ASSUME NEW S, NEW s \in Seq(S), NEW t \in Seq(S), NEW e \in S
    PROVE  s \o Append(t, e) = Append(s \o t, e)
  <1>1. Append(t, e) = t \o <<e>> /\ <<e>> \in Seq(S)
    BY AppendIsConcat
  <1>2. s \o t \in Seq(S)
    BY ConcatProperties
  <1>3. Append(s \o t, e) = (s \o t) \o <<e>>
    BY <1>2, AppendIsConcat
  <1> QED
    BY <1>1, <1>3, ConcatAssociative

(* The library's associativity, of frames: one the provers find at once.   *)
LEMMA Associative ==
    ASSUME NEW a \in Seq(Nat), NEW b \in Seq(Nat), NEW c \in Seq(Nat)
    PROVE  (a \o b) \o c = a \o (b \o c)
  BY ConcatAssociative

(* Of sequences in a row, the last may be lost and a prefix is left.       *)
LEMMA DroppedEnd ==
    ASSUME NEW a \in Seq(Nat), NEW b \in Seq(Nat), NEW c \in Seq(Nat), NEW v \in Seq(Nat),
           IsPrefix(a \o (b \o c), v)
    PROVE  IsPrefix(a \o b, v)
  <1>1. a \o b \in Seq(Nat) /\ (a \o b) \o c = a \o (b \o c)
    BY ConcatProperties, Associative
  <1> QED
    BY <1>1, PrefixOfConcat

(* A frame read from a sequence is held before the rest of it; written, it *)
(* is at the end of the one before (pty.go:63-71).                         *)
LEMMA MovedOn ==
    ASSUME NEW a \in Seq(Nat), NEW b \in Seq(Nat), NEW e \in Nat
    PROVE  /\ b # <<>> => a \o (<<Head(b)>> \o Tail(b)) = a \o (<<>> \o b)
           /\ Append(a, e) \o (<<>> \o b) = a \o (<<e>> \o b)
  <1>1. <<>> \o b = b /\ <<e>> \in Seq(Nat)
    BY ConcatEmptySeq
  <1>2. b # <<>> => <<Head(b)>> \o Tail(b) = b
    BY HeadMoves
  <1>3. Append(a, e) = a \o <<e>>
    BY AppendIsConcat
  <1>4. (a \o <<e>>) \o b = a \o (<<e>> \o b)
    BY <1>1, Associative
  <1> QED
    BY <1>1, <1>2, <1>3, <1>4

(* The browser takes the next frame and the rest stays on its way          *)
(* (Terminal.tsx:107-121).                                                 *)
LEMMA TakenOver ==
    ASSUME NEW a \in Seq(Nat), NEW b \in Seq(Nat), NEW c \in Seq(Nat), b # <<>>
    PROVE  Append(a, Head(b)) \o (Tail(b) \o c) = a \o (b \o c)
  <1>1. Head(b) \in Nat /\ Tail(b) \in Seq(Nat)
    BY HeadTailProperties
  <1>2. Append(a, Head(b)) \in Seq(Nat)
    BY <1>1, AppendProperties
  <1>3. (Append(a, Head(b)) \o Tail(b)) \o c = Append(a, Head(b)) \o (Tail(b) \o c)
    BY <1>1, <1>2, Associative
  <1>4. (a \o b) \o c = a \o (b \o c)
    BY Associative
  <1> QED
    BY <1>3, <1>4, HeadMoves

(* DroppedEnd, one sequence further on.                                    *)
LEMMA EndLost ==
    ASSUME NEW a \in Seq(Nat), NEW b \in Seq(Nat), NEW c \in Seq(Nat), NEW d \in Seq(Nat),
           NEW v \in Seq(Nat), IsPrefix(a \o (b \o (c \o d)), v)
    PROVE  IsPrefix(a \o (b \o (c \o <<>>)), v)
  <1>1. c \o <<>> = c
    BY ConcatEmptySeq
  <1>2. b \o c \in Seq(Nat)
    BY ConcatProperties
  <1>3. (b \o c) \o d = b \o (c \o d)
    BY SMTT(30), Associative
  <1> QED
    BY <1>1, <1>2, <1>3, DroppedEnd

(* AppendMoves, one sequence further on.                                   *)
LEMMA AddedLast ==
    ASSUME NEW a \in Seq(Nat), NEW b \in Seq(Nat), NEW c \in Seq(Nat), NEW e \in Nat
    PROVE  a \o (b \o Append(c, e)) = Append(a \o (b \o c), e)
  <1> DEFINE bc == b \o c
  <1>1. bc \in Seq(Nat)
    BY ConcatProperties
  <1>2. b \o Append(c, e) = Append(bc, e)
    BY AppendMoves
  <1> HIDE DEF bc
  <1>3. a \o Append(bc, e) = Append(a \o bc, e)
    BY <1>1, AppendMoves
  <1> QED
    BY <1>2, <1>3 DEF bc

--------------------------------------------------------------------------------
(* The places of a pump, the handler before its relay, a pump that has no  *)
(* more to bring, a socket that is not given up, the frame a pump holds,   *)
(* and what is between the screen and the shell, the shell and the page.   *)
Moments == {"read", "write", "report", "ended"}
Early == srv \in {"none", "lookup", "dial", "accept", "refused"}
Past(w) == pump[w] \in {"report", "ended"}
Live == connect /\ ws[sock] \in {"connecting", "open"}
Held(w) == IF pump[w] = "write" THEN <<hold[w]>> ELSE <<>>
Carried == downward[sock] \o (Held("out") \o out)
Awaited == Held("in") \o upward

(* Every variable has its type.                                            *)
TerminalTypes ==
    /\ connect \in BOOLEAN /\ sock \in 0 .. MaxSessions
    /\ status \in {"idle", "connecting", "open", "exited", "closed"}
    /\ screen \in Seq(Nat) /\ late \in BOOLEAN /\ cut \in BOOLEAN
    /\ ws \in [Sockets -> {"none", "connecting", "open", "closing", "closed"}]
    /\ downward \in [Sockets -> Seq(Nat)]
    /\ upward \in Seq(Nat) /\ sent \in Seq(Nat) /\ heard \in Seq(Nat)
    /\ out \in Seq(Nat) /\ said \in Seq(Nat)
    /\ pump \in [Ways -> Moments \cup {"none"}] /\ hold \in [Ways -> Nat]
    /\ errc \in 0 .. 2
    /\ up \in BOOLEAN /\ row \in BOOLEAN /\ shell \in {"none", "running", "gone"}

(* The handler has the connections and the pumps of the place it is at.    *)
Handling ==
    /\ srv \in {"none", "lookup", "dial", "accept", "refused", "relay",
                "closePty", "closeBrowser", "done"}
    /\ conns \subseteq {"pty", "browser"}
    /\ "pty" \in conns <=> srv \in {"accept", "relay", "closePty"}
    /\ "browser" \in conns <=> srv \in {"relay", "closePty", "closeBrowser"}
    /\ \A w \in Ways : pump[w] = "none" <=> Early
    /\ Early => errc = 0
    /\ srv # "none" => sock # 0
    /\ srv \in {"lookup", "dial"} /\ up => shell = "none"
    /\ shell = "none" => Early /\ srv # "accept"

(* Each step of the pane, the browser, the handler, its pumps and the      *)
(* shell keeps the types.                                                  *)
LEMMA TypesKept ==
    ASSUME TerminalTypes, Handling, [Next]_vars
    PROVE  TerminalTypes'
  <1>a. Resize \in Nat /\ Exit \in Nat /\ Len(sent) + 1 \in Nat /\ Len(said) + 1 \in Nat
    BY LenProperties DEF TerminalTypes, Resize, Exit
  <1>b. srv # "none" => sock \in Sockets
    BY DEF Sockets, TerminalTypes, Handling
  <1>c. \A q \in Seq(Nat) : \A f \in Nat : Append(q, f) \in Seq(Nat)
    BY AppendProperties
  <1>d. \A q \in Seq(Nat) : q # <<>> => Head(q) \in Nat /\ Tail(q) \in Seq(Nat)
    BY HeadTailProperties
  <1>e. <<>> \in Seq(Nat)
    OBVIOUS
  <1> USE DEF TerminalTypes, Ways, Moments
  <1> USE DEF pane, wires, relay, session
  <1>1. CASE Open
    <2>1. ws' \in [Sockets -> {"none", "connecting", "open", "closing", "closed"}]
      BY <1>1 DEF Open, Dial
    <2> QED
      <3>1. /\ sock' \in 0 .. MaxSessions
            /\ pump' \in [Ways -> Moments \cup {"none"}] /\ hold' \in [Ways -> Nat]
        BY <1>1, TerminalAssumption DEF Open, Dial
      <3>2. /\ screen' \in Seq(Nat) /\ upward' \in Seq(Nat) /\ sent' \in Seq(Nat)
            /\ heard' \in Seq(Nat) /\ out' \in Seq(Nat) /\ said' \in Seq(Nat)
            /\ downward' \in [Sockets -> Seq(Nat)]
        BY <1>1, <1>e DEF Open, Dial
      <3>3. /\ connect' \in BOOLEAN /\ late' \in BOOLEAN /\ cut' \in BOOLEAN
            /\ up' \in BOOLEAN /\ row' \in BOOLEAN
        BY <1>1 DEF Open, Dial
      <3>4. status' = "connecting" /\ shell' = "none" /\ errc' = 0
        BY <1>1 DEF Open, Dial
      <3> QED
        BY SMTT(30), <2>1, <3>1, <3>2, <3>3, <3>4
  <1>2. CASE TearDown
    BY <1>2 DEF TearDown
  <1>3. CASE Type
    <2>1. PICK f \in Nat : Send(f)
      BY <1>3, <1>a DEF Type
    <2>2. upward' \in Seq(Nat) /\ sent' \in Seq(Nat)
      BY <2>1, <1>c DEF Send
    <2> QED
      BY <1>3, <2>2 DEF Type
  <1>4. CASE Break
    BY <1>4, <1>e DEF Break, Closed
  <1>5. CASE Reclaim \/ EndRow
    BY <1>5, <1>e DEF Reclaim, EndRow
  <1>6. CASE Output
    <2>1. said' \in Seq(Nat) /\ out' \in Seq(Nat)
      BY <1>6, <1>a, <1>c DEF Output
    <2> QED
      BY <1>6, <2>1 DEF Output
  <1>7. CASE ShellExits
    <2>1. said' \in Seq(Nat) /\ out' \in Seq(Nat)
      BY <1>7, <1>a, <1>c DEF ShellExits
    <2> QED
      BY <1>7, <2>1 DEF ShellExits
  <1>8. CASE Lookup \/ DialPTY \/ Accept
    BY <1>8 DEF Lookup, DialPTY, Accept, Handle
  <1>9. CASE Relayed
    BY <1>9 DEF Relayed
  <1>20. CASE ClosePTY \/ CloseBrowser
    BY ZenonT(30), <1>20, <1>e DEF ClosePTY, CloseBrowser
  <1>10. CASE ReadIn
    BY <1>10, <1>d DEF ReadIn, Goto
  <1>11. CASE ReadOut
    BY <1>11, <1>d DEF ReadOut, Goto
  <1>12. CASE WriteIn
    <2>1. heard' \in Seq(Nat)
      BY <1>12, <1>c DEF WriteIn
    <2> QED
      BY <1>12, <2>1 DEF WriteIn, Goto, Forget
  <1>13. CASE WriteOut
    <2>1. sock \in Sockets /\ hold["out"] \in Nat
      BY <1>13, <1>b DEF WriteOut, Pumping, Handling, Early
    <2>2. downward' \in [Sockets -> Seq(Nat)]
      BY <1>13, <2>1, <1>c DEF WriteOut
    <2> QED
      BY <1>13, <2>2 DEF WriteOut, Goto, Forget
  <1>14. CASE WriteInFails \/ WriteOutFails
    <2>1. pump' \in [Ways -> Moments \cup {"none"}] /\ hold' \in [Ways -> Nat]
      BY <1>14 DEF WriteInFails, WriteOutFails, Goto, Forget
    <2> QED
      <3>1. CASE WriteInFails
        BY <3>1, <2>1 DEF WriteInFails
      <3>2. CASE WriteOutFails
        BY <3>2, <2>1 DEF WriteOutFails
      <3> QED
        BY <1>14, <3>1, <3>2
  <1>15. ASSUME NEW w \in Ways, ReadFails(w) \/ Report(w) PROVE TerminalTypes'
    <2>1. pump' \in [Ways -> Moments \cup {"none"}] /\ errc' \in 0 .. 2
      BY SMTT(30), <1>15 DEF ReadFails, Report, Goto
    <2> QED
      BY SMTT(30), <1>15, <2>1 DEF ReadFails, Report
  <1>16. ASSUME NEW s \in Sockets, Opened(s) PROVE TerminalTypes'
    <2>1. upward' \in Seq(Nat) /\ sent' \in Seq(Nat)
      BY <1>16, <1>a, <1>c DEF Opened
    <2> QED
      BY <1>16, <2>1 DEF Opened
  <1>17. ASSUME NEW s \in Sockets, Message(s) PROVE TerminalTypes'
    <2>1. Head(downward[s]) \in Nat /\ Tail(downward[s]) \in Seq(Nat)
      BY <1>17, <1>d DEF Message
    <2>2. downward' \in [Sockets -> Seq(Nat)] /\ screen' \in Seq(Nat)
      BY <1>17, <2>1, <1>c DEF Message
    <2> QED
      BY <1>17, <2>2 DEF Message
  <1>18. ASSUME NEW s \in Sockets, SocketEnds(s) PROVE TerminalTypes'
    BY <1>18 DEF SocketEnds, Closed
  <1>19. CASE UNCHANGED vars
    BY <1>19 DEF vars
  <1> QED
    BY <1>1, <1>2, <1>3, <1>4, <1>5, <1>6, <1>7, <1>8, <1>9, <1>10, <1>11, <1>12, <1>13,
       <1>14, <1>15, <1>16, <1>17, <1>18, <1>19, <1>20 DEF Next, Browser, Handler, PumpIn, PumpOut

(* Each step keeps the handler in line with its connections and pumps      *)
(* (pty.go:54-78).                                                         *)
LEMMA HandlingKept ==
    ASSUME TerminalTypes, Handling, [Next]_vars
    PROVE  Handling'
  <1> USE DEF Handling, Early, Ways
  <1> USE DEF relay
  <1>t. sock \in 0 .. MaxSessions /\ pump \in [Ways -> Moments \cup {"none"}]
    BY DEF TerminalTypes
  <1>1. CASE Open
    BY <1>1, <1>t, TerminalAssumption DEF Open, Dial
  <1>2. CASE TearDown \/ Type
    BY <1>2 DEF TearDown, Type, session, pane
  <1>3. CASE Break
    BY <1>3 DEF Break, Closed, session
  <1>4. CASE Reclaim \/ EndRow
    <2>1. CASE Reclaim
      BY <2>1 DEF Reclaim, pane
    <2>2. CASE EndRow
      BY <2>2 DEF EndRow, pane
    <2> QED
      BY <1>4, <2>1, <2>2
  <1>5. CASE Output \/ ShellExits
    BY <1>5 DEF Output, ShellExits, Talks, pane
  <1>6. CASE Lookup
    BY <1>6, <1>t DEF Lookup, Handle, pane, session
  <1>7. CASE DialPTY
    BY <1>7, <1>t DEF DialPTY, Handle, pane
  <1>8. CASE Accept
    BY <1>8, <1>t DEF Accept, Handle, pane, session
  <1>9. CASE Relayed
    BY <1>9, <1>t DEF Relayed, Handle, pane, session
  <1>10. CASE ClosePTY
    BY <1>10, <1>t DEF ClosePTY, Handle, pane
  <1>11. CASE CloseBrowser
    BY <1>11, <1>t DEF CloseBrowser, Handle, pane, session
  <1>12. CASE ReadIn \/ WriteIn \/ WriteInFails
    BY <1>12, <1>t DEF ReadIn, WriteIn, WriteInFails, Goto, Pumping, pane, session
  <1>13. CASE ReadOut \/ WriteOut \/ WriteOutFails
    BY <1>13, <1>t DEF ReadOut, WriteOut, WriteOutFails, Goto, Pumping, pane, session
  <1>14. ASSUME NEW w \in Ways, ReadFails(w) \/ Report(w) PROVE Handling'
    BY <1>14, <1>t DEF ReadFails, Report, Goto, Pumping, pane, session
  <1>15. ASSUME NEW s \in Sockets, Browser(s) PROVE Handling'
    <2>1. CASE Opened(s)
      BY <2>1 DEF Opened, session
    <2>2. CASE Message(s)
      BY <2>2 DEF Message, session
    <2>3. CASE SocketEnds(s)
      BY <2>3 DEF SocketEnds, Closed, session
    <2> QED
      BY <1>15, <2>1, <2>2, <2>3 DEF Browser
  <1>16. CASE UNCHANGED vars
    BY <1>16 DEF vars, pane, session
  <1> QED
    BY <1>1, <1>2, <1>3, <1>4, <1>5, <1>6, <1>7, <1>8, <1>9, <1>10, <1>11, <1>12, <1>13,
       <1>14, <1>15, <1>16 DEF Next, Handler, PumpIn, PumpOut

(* The pane has one socket that is not closed, the last; the others are on *)
(* their way out.                                                          *)
Opening ==
    /\ connect => sock # 0 /\ ws[sock] \in {"connecting", "open", "closed"}
    /\ ~connect /\ sock # 0 => ws[sock] \in {"closing", "closed"}
    /\ \A s \in Sockets : /\ s < sock => ws[s] \in {"closing", "closed"}
                          /\ s > sock => ws[s] = "none" /\ downward[s] = <<>>
    /\ Live /\ Early => ws[sock] = "connecting"
    /\ Live /\ ws[sock] = "connecting" => screen = <<>>

(* The exit is the last a shell says, and what it said is on its way only  *)
(* while the terminal is connected.                                        *)
Saying ==
    /\ \A i \in 1 .. Len(said) : said[i] = Exit => i = Len(said) /\ shell = "gone"
    /\ srv \in {"none", "lookup", "dial"} => said = <<>> /\ out = <<>>
    /\ srv = "refused" /\ Live => said = <<>>
    /\ srv \in {"closeBrowser", "done"} => out = <<>>
    /\ Live /\ cut => shell = "gone"

(* Each step keeps the pane to one socket (Terminal.tsx:95-135).           *)
LEMMA OpeningKept ==
    ASSUME TerminalTypes, Handling, Opening, [Next]_vars
    PROVE  Opening'
  <1>t. /\ sock \in 0 .. MaxSessions /\ connect \in BOOLEAN
        /\ ws \in [Sockets -> {"none", "connecting", "open", "closing", "closed"}]
        /\ downward \in [Sockets -> Seq(Nat)]
        /\ sock # 0 => sock \in Sockets
        /\ Sockets = 1 .. MaxSessions
    BY DEF TerminalTypes, Sockets
  <1> USE DEF Opening, Live
  <1>1. CASE Open
    BY <1>1, <1>t, TerminalAssumption DEF Open, Dial
  <1>2. CASE TearDown
    BY <1>2, <1>t DEF TearDown, relay, Early
  <1>3. CASE Type \/ Reclaim \/ EndRow \/ Output \/ ShellExits
    BY <1>3 DEF Type, Reclaim, EndRow, Output, ShellExits, pane, wires, relay, Early
  <1>4. CASE Break
    BY <1>4, <1>t DEF Break, Closed, relay, Early
  <1>5. CASE Handler
    BY <1>5 DEF Handler, Lookup, DialPTY, Accept, Relayed, ClosePTY, CloseBrowser, Handle,
                pane, wires, Early
  <1>6. CASE PumpIn
    BY <1>6 DEF PumpIn, ReadIn, WriteIn, WriteInFails, ReadFails, Report, pane, wires, Early
  <1>7. CASE WriteOut
    <2>1. \A s \in Sockets : s > sock => downward'[s] = downward[s]
      BY <1>7, <1>t DEF WriteOut
    <2> QED
      BY <1>7, <2>1 DEF WriteOut, pane, Early
  <1>8. CASE ReadOut \/ WriteOutFails \/ ReadFails("out") \/ Report("out")
    BY <1>8 DEF ReadOut, WriteOutFails, ReadFails, Report, pane, wires, Early
  <1>9. ASSUME NEW s \in Sockets, Opened(s) PROVE Opening'
    <2>1. s = sock /\ Live /\ ~Early
      BY <1>9, <1>t DEF Opened, Early
    <2> QED
      BY <1>9, <2>1, <1>t DEF Opened, relay, Early
  <1>10. ASSUME NEW s \in Sockets, Message(s) PROVE Opening'
    <2>1. s <= sock
      BY <1>10, <1>t DEF Message
    <2>2. ws[s] = "open" => s = sock
      BY <1>10, <1>t, <2>1
    <2>3. \A r \in Sockets : r > sock => downward'[r] = downward[r]
      BY <1>10, <1>t, <2>1 DEF Message
    <2>4. ws[sock] = "connecting" => screen' = screen
      BY <1>10, <2>2 DEF Message
    <2> QED
      BY <1>10, <2>3, <2>4 DEF Message, relay, Early
  <1>11. ASSUME NEW s \in Sockets, SocketEnds(s) PROVE Opening'
    <2>1. s <= sock
      BY <1>11, <1>t DEF SocketEnds
    <2> QED
      BY <1>11, <2>1, <1>t DEF SocketEnds, Closed, relay, Early
  <1>12. CASE UNCHANGED vars
    BY <1>12 DEF vars, pane, wires, relay, Early
  <1> QED
    BY <1>1, <1>2, <1>3, <1>4, <1>5, <1>6, <1>7, <1>8, <1>9, <1>10, <1>11, <1>12
       DEF Next, Browser, PumpOut

(* Each step keeps the exit last and what is said connected.               *)
LEMMA SayingKept ==
    ASSUME TerminalTypes, Handling, Opening, Saying, [Next]_vars
    PROVE  Saying'
  <1>t. said \in Seq(Nat) /\ Len(said) \in Nat
    BY LenProperties DEF TerminalTypes
  <1> USE DEF Saying, Live
  <1>1. CASE Open
    BY <1>1 DEF Open, Dial
  <1>2. CASE TearDown
    BY <1>2 DEF TearDown, relay, session
  <1>3. CASE Type \/ EndRow
    BY <1>3 DEF Type, EndRow, pane, wires, relay, session
  <1>4. CASE Break
    <2>1. ws'[sock'] = "closed"
      BY <1>4 DEF Break, Closed, TerminalTypes, Opening, Sockets
    <2> QED
      BY <1>4, <2>1 DEF Break, Closed, relay, session
  <1>5. CASE Reclaim
    BY <1>5 DEF Reclaim, pane, wires, relay
  <1>6. CASE Output \/ ShellExits
    <2>1. PICK f \in Nat : said' = Append(said, f) /\ (f = Exit => shell' = "gone")
      BY <1>6, <1>t DEF Output, ShellExits, Exit
    <2>2. /\ Len(said') = Len(said) + 1
          /\ \A i \in 1 .. Len(said) : said'[i] = said[i]
          /\ said'[Len(said) + 1] = f
      BY <2>1, <1>t, AppendProperties
    <2>3. shell = "running" /\ "pty" \in conns
      BY <1>6 DEF Output, ShellExits, Talks
    <2>4. \A i \in 1 .. Len(said') : said'[i] = Exit => i = Len(said') /\ shell' = "gone"
      BY <2>1, <2>2, <2>3, <1>t
    <2>5. srv' = srv /\ srv \in {"accept", "relay", "closePty"}
      BY <1>6, <2>3 DEF Output, ShellExits, relay, Handling
    <2>6. ~(Live /\ cut)' 
      BY <1>6, <2>3 DEF Output, ShellExits, pane, wires
    <2> QED
      BY <2>4, <2>5, <2>6
  <1>7. CASE Lookup
    BY <1>7 DEF Lookup, Handle, pane, wires, session
  <1>8. CASE DialPTY
    BY <1>8 DEF DialPTY, Handle, pane, wires, Handling
  <1>9. CASE Accept
    BY <1>9 DEF Accept, Handle, Gone, pane, wires, session
  <1>10. CASE Relayed \/ CloseBrowser
    BY <1>10 DEF Relayed, CloseBrowser, Handle, pane, wires, session
  <1>11. CASE ClosePTY
    BY <1>11 DEF ClosePTY, Handle, pane, wires
  <1>12. CASE PumpIn
    BY <1>12 DEF PumpIn, ReadIn, WriteIn, WriteInFails, ReadFails, Report, pane, wires, session
  <1>13. CASE ReadOut
    BY <1>13 DEF ReadOut, Handling, pane, wires
  <1>14. CASE WriteOut \/ WriteOutFails \/ ReadFails("out") \/ Report("out")
    BY <1>14 DEF WriteOut, WriteOutFails, ReadFails, Report, pane, wires, session
  <1>15. ASSUME NEW s \in Sockets, Opened(s) PROVE Saying'
    BY <1>15 DEF Opened, relay, session, TerminalTypes, Opening, Sockets
  <1>16. ASSUME NEW s \in Sockets, Message(s) PROVE Saying'
    BY <1>16 DEF Message, relay, session
  <1>17. ASSUME NEW s \in Sockets, SocketEnds(s) PROVE Saying'
    <2>1. Live' => Live
      BY SMTT(30), <1>17 DEF SocketEnds, Closed, TerminalTypes
    <2> QED
      BY <1>17, <2>1 DEF SocketEnds, Closed, relay, session
  <1>18. CASE UNCHANGED vars
    BY <1>18 DEF vars, pane, wires, relay, session
  <1> QED
    BY <1>1, <1>2, <1>3, <1>4, <1>5, <1>6, <1>7, <1>8, <1>9, <1>10, <1>11, <1>12, <1>13,
       <1>14, <1>15, <1>16, <1>17, <1>18 DEF Next, Browser, Handler, PumpOut

(* While the connection holds, one side of the relay ends only after the   *)
(* shell is gone and all it said is read.                                  *)
Draining ==
    Live /\ ~cut =>
        /\ Past("in") \/ errc > 0 \/ srv \in {"closePty", "closeBrowser", "done"} => Past("out")
        /\ Past("out") => out = <<>> /\ shell = "gone"

(* What is on the screen, on its way to it and in the relay is what the    *)
(* shell said: the first of it always, all of it while the connection      *)
(* holds.                                                                  *)
Showing ==
    /\ IsPrefix(screen, said)
    /\ Live => IsPrefix(screen \o Carried, said)
    /\ Live /\ ~cut => screen \o Carried = said
    /\ connect /\ ws[sock] = "closed" /\ ~cut => srv \in {"refused", "done"} /\ screen = said

(* Each step of the relay keeps the order in which its sides end           *)
(* (pty.go:61-77).                                                         *)
LEMMA DrainingKept ==
    ASSUME TerminalTypes, Handling, Opening, Draining, [Next]_vars
    PROVE  Draining'
  <1>t. /\ pump \in [Ways -> Moments \cup {"none"}] /\ errc \in 0 .. 2
        /\ ws \in [Sockets -> {"none", "connecting", "open", "closing", "closed"}]
        /\ "in" \in Ways /\ "out" \in Ways /\ (connect => sock \in Sockets)
    BY DEF TerminalTypes, Ways, Sockets, Opening
  <1> SUFFICES ASSUME Live', ~cut'
               PROVE  /\ (Past("in") \/ errc > 0 \/ srv \in {"closePty", "closeBrowser", "done"} => Past("out"))'
                      /\ (Past("out") => out = <<>> /\ shell = "gone")'
    BY DEF Draining
  <1> USE DEF Live, Past
  <1>1. CASE Open
    BY <1>1 DEF Open, Dial, Ways
  <1>2. CASE TearDown
    BY <1>2 DEF TearDown
  <1>3. CASE Type \/ EndRow
    BY <1>3 DEF Type, EndRow, pane, wires, relay, session, Draining
  <1>4. CASE Break
    BY <1>4, <1>t DEF Break, Closed
  <1>5. CASE Reclaim
    BY <1>5 DEF Reclaim, pane, wires, relay, Draining
  <1>6. CASE Output \/ ShellExits
    BY <1>6 DEF Output, ShellExits, Talks, pane, wires, relay, Draining
  <1>7. CASE Lookup
    BY <1>7 DEF Lookup, Handle, pane, wires, session, Draining
  <1>8. CASE DialPTY
    BY <1>8, <1>t DEF DialPTY, Handle, pane, wires, Handling, Early
  <1>9. CASE Accept
    BY <1>9, <1>t DEF Accept, Handle, pane, wires, Handling, Early
  <1>10. CASE Relayed
    BY <1>10, <1>t DEF Relayed, Handle, pane, wires, session, Draining
  <1>11. CASE ClosePTY
    BY <1>11 DEF ClosePTY, Handle, pane, wires, Draining
  <1>12. CASE CloseBrowser
    BY <1>12 DEF CloseBrowser, Handle, pane, session, Draining
  <1>13. CASE ReadIn \/ WriteIn
    BY <1>13, <1>t DEF ReadIn, WriteIn, Goto, pane, wires, session, Draining
  <1>14. CASE WriteInFails
    <2>1. "pty" \notin conns /\ ~cut
      BY <1>14 DEF WriteInFails
    <2>2. srv \in {"closeBrowser", "done"} /\ Live
      BY <1>14, <2>1 DEF WriteInFails, Pumping, Handling, Early, pane, wires, Ways
    <2> QED
      BY <1>14, <1>t, <2>1, <2>2 DEF WriteInFails, Goto, pane, wires, session, Draining
  <1>15. CASE ReadFails("in")
    <2>1. Live /\ ~Gone /\ ~cut
      BY <1>15 DEF ReadFails, pane, wires, Gone
    <2>2. srv = "done"
      BY <1>15, <2>1 DEF ReadFails, Pumping, Handling, Early, Ways
    <2> QED
      BY <1>15, <1>t, <2>1, <2>2 DEF ReadFails, Goto, session, Draining
  <1>16. CASE ReadFails("out")
    <2>1. Live /\ ~cut /\ ~Past("out")
      BY <1>16 DEF ReadFails, Pumping, pane, wires
    <2>2. "pty" \in conns
      BY <1>16, <2>1 DEF ReadFails, Pumping, Handling, Early, Ways, Draining
    <2> QED
      BY <1>16, <1>t, <2>1, <2>2 DEF ReadFails, Goto, session, Draining
  <1>17. CASE ReadOut
    <2>1. Live /\ ~cut /\ ~Past("out")
      BY <1>17 DEF ReadOut, Pumping, pane, wires
    <2> QED
      BY <1>17, <1>t, <2>1 DEF ReadOut, Goto, Draining
  <1>18. CASE WriteOut
    <2>1. Live /\ ~cut /\ ~Past("out")
      BY <1>18 DEF WriteOut, Pumping, pane
    <2> QED
      BY <1>18, <1>t, <2>1 DEF WriteOut, Goto, Draining
  <1>19. CASE WriteOutFails
    <2>1. Live /\ ~cut /\ ~Past("out") /\ ~Gone
      BY <1>19 DEF WriteOutFails, Pumping, pane, wires, Gone
    <2>2. srv = "done"
      BY <1>19, <2>1 DEF WriteOutFails, Pumping, Handling, Early, Ways
    <2> QED
      BY <2>1, <2>2 DEF Draining
  <1>20. ASSUME NEW w \in Ways, Report(w)
         PROVE  /\ (Past("in") \/ errc > 0 \/ srv \in {"closePty", "closeBrowser", "done"} => Past("out"))'
                /\ (Past("out") => out = <<>> /\ shell = "gone")'
    <2>1. /\ Past("in")' <=> Past("in")
          /\ Past("out")' <=> Past("out")
          /\ Past(w)
      BY <1>20, <1>t DEF Report, Pumping, Goto
    <2>2. w = "in" \/ w = "out"
      BY DEF Ways
    <2> QED
      BY <1>20, <2>1, <2>2 DEF Report, pane, wires, session, Draining
  <1>21. ASSUME NEW s \in Sockets, Browser(s)
         PROVE  /\ (Past("in") \/ errc > 0 \/ srv \in {"closePty", "closeBrowser", "done"} => Past("out"))'
                /\ (Past("out") => out = <<>> /\ shell = "gone")'
    <2>1. Live /\ ~cut /\ UNCHANGED <<relay, session>>
      <3>1. UNCHANGED <<connect, sock, cut, relay, session>>
        BY <1>21 DEF Browser, Opened, Message, SocketEnds, Closed
      <3>2. ws[sock] \in {"connecting", "open"}
        <4>1. CASE Opened(s)
          BY <1>t, <4>1 DEF Opened
        <4>2. CASE Message(s)
          BY <4>2 DEF Message
        <4>3. CASE SocketEnds(s)
          BY <1>t, <4>3 DEF SocketEnds, Closed
        <4> QED
          BY <1>21, <4>1, <4>2, <4>3 DEF Browser
      <3> QED
        BY <3>1, <3>2
    <2> QED
      BY <2>1 DEF relay, session, Draining
  <1>22. CASE UNCHANGED vars
    BY <1>22 DEF vars, pane, wires, relay, session, Draining
  <1> QED
    BY <1>1, <1>2, <1>3, <1>4, <1>5, <1>6, <1>7, <1>8, <1>9, <1>10, <1>11, <1>12, <1>13, <1>14,
       <1>15, <1>16, <1>17, <1>18, <1>19, <1>20, <1>21, <1>22, <1>t
       DEF Next, Handler, PumpIn, PumpOut

(* Each step moves what the shell said towards the screen, and loses of it *)
(* only what the connection or the sandbox took with it.                   *)
LEMMA ShowingKept ==
    ASSUME TerminalTypes, Handling, Opening, Saying, Draining, Showing, [Next]_vars
    PROVE  Showing'
  <1> DEFINE d == downward[sock]
  <1>t. /\ pump \in [Ways -> Moments \cup {"none"}] /\ hold \in [Ways -> Nat]
        /\ ws \in [Sockets -> {"none", "connecting", "open", "closing", "closed"}]
        /\ downward \in [Sockets -> Seq(Nat)]
        /\ screen \in Seq(Nat) /\ said \in Seq(Nat) /\ out \in Seq(Nat)
        /\ "in" \in Ways /\ "out" \in Ways
        /\ (connect \/ srv # "none" => sock \in Sockets)
        /\ sock \in 0 .. MaxSessions /\ Sockets = 1 .. MaxSessions
    BY DEF TerminalTypes, Ways, Sockets, Opening, Handling
  <1>h. Held("out") \in Seq(Nat)
    BY <1>t DEF Held
  <1>e. <<>> \in Seq(Nat)
    OBVIOUS
  <1>f. \A q \in Seq(Nat) : <<>> \o q = q /\ q \o <<>> = q /\ IsPrefix(q, q)
    BY ConcatEmptySeq, PrefixOfItself
  <1>n. \A q, r \in Seq(Nat) : q \o r \in Seq(Nat)
    BY ConcatProperties
  <1>g. ASSUME Showing, UNCHANGED <<connect, ws, sock, screen, said, cut>>,
               srv \in {"refused", "done"} => srv' = srv,
               Live => UNCHANGED Carried
        PROVE  Showing'
    BY <1>g DEF Showing, Live
  <1>1. CASE Open
    <2>1. /\ screen' = <<>> /\ said' = <<>> /\ cut' = FALSE /\ connect' = TRUE
          /\ downward'[sock'] = <<>> /\ out' = <<>> /\ Held("out")' = <<>>
          /\ ws'[sock'] = "connecting"
      BY <1>1, <1>t, TerminalAssumption DEF Open, Dial, Opening, Held, Ways, Sockets, TerminalTypes
    <2>2. (screen \o Carried)' = <<>>
      BY <2>1, <1>e, <1>f DEF Carried
    <2> QED
      BY <2>1, <2>2, <1>e, <1>f DEF Showing, Live
  <1>2. CASE TearDown
    BY <1>2 DEF TearDown, session, Showing, Live
  <1>3. CASE Type \/ EndRow
    BY <1>3, <1>g DEF Type, EndRow, pane, wires, relay, session, Carried, Held
  <1>4. CASE Break
    BY <1>4, <1>t DEF Break, Closed, session, Showing, Live
  <1>5. CASE Reclaim
    <2>1. CASE UNCHANGED <<out, cut>>
      BY <1>5, <2>1, <1>g DEF Reclaim, pane, wires, relay, Carried, Held
    <2>2. CASE out' = <<>> /\ cut' = TRUE
      <3>1. Live => IsPrefix(screen \o Carried', said)
        <4> SUFFICES ASSUME Live PROVE IsPrefix(screen \o Carried', said)
          OBVIOUS
        <4>1. Carried' = d \o (Held("out") \o <<>>) /\ d \in Seq(Nat)
          BY <1>5, <2>2, <1>t DEF Reclaim, pane, wires, relay, Carried, Held, Live
        <4>2. IsPrefix(screen \o (d \o (Held("out") \o out)), said)
          BY DEF Showing, Carried
        <4> HIDE DEF d
        <4> QED
          BY <4>1, <4>2, <1>t, <1>h, EndLost
      <3> QED
        BY <1>5, <2>2, <3>1 DEF Reclaim, pane, wires, Showing, Live
    <2> QED
      BY <1>5, <2>1, <2>2 DEF Reclaim
  <1>6. CASE Output \/ ShellExits
    <2>1. PICK f \in Nat : said' = Append(said, f) /\ out' = Append(out, f)
      <3>1. Len(said) + 1 \in Nat /\ Exit \in Nat
        BY <1>t, LenProperties DEF Exit
      <3> QED
        BY <1>6, <3>1 DEF Output, ShellExits
    <2>2. /\ shell = "running" /\ "pty" \in conns
          /\ UNCHANGED <<connect, ws, sock, screen, cut, downward, pump, hold, srv>>
      BY <1>6 DEF Output, ShellExits, Talks, pane, wires, relay
    <2>3. IsPrefix(screen, said')
      BY <2>1, <1>t, PrefixOfAppend DEF Showing
    <2>4. Live => ~cut /\ (screen \o Carried)' = said'
      <3> SUFFICES ASSUME Live PROVE ~cut /\ (screen \o Carried)' = said'
        OBVIOUS
      <3>1. ~cut /\ screen \o (d \o (Held("out") \o out)) = said /\ d \in Seq(Nat)
        BY <2>2, <1>t DEF Saying, Showing, Carried, Live
      <3>2. screen \o (d \o (Held("out") \o Append(out, f)))
            = Append(screen \o (d \o (Held("out") \o out)), f)
        <4> DEFINE r == Held("out") \o out
        <4>1. d \in Seq(Nat) /\ r \in Seq(Nat)
          BY <3>1, <1>t, <1>h, <1>n
        <4>2. Held("out") \o Append(out, f) = Append(r, f)
          BY SMTT(30), <1>t, <1>h, AppendMoves
        <4> HIDE DEF d, r
        <4>3. screen \o (d \o Append(r, f)) = Append(screen \o (d \o r), f)
          BY ZenonT(30), <4>1, <1>t, AddedLast
        <4> QED
          BY <4>2, <4>3 DEF r
      <3> QED
        BY <3>1, <3>2, <2>1, <2>2 DEF Carried, Held
    <2>5. srv \notin {"refused", "done"}
      BY <2>2 DEF Handling
    <2>6. said' \in Seq(Nat)
      BY <2>1, <1>t, AppendProperties
    <2>7. Live' => Live /\ ~cut'
      BY <2>2, <2>4 DEF Live
    <2>8. ~((connect /\ ws[sock] = "closed" /\ ~cut)')
      BY <2>2, <2>5 DEF Showing
    <2> QED
      BY <2>3, <2>4, <2>6, <2>7, <2>8, <1>f, <2>2 DEF Showing
  <1>7. CASE Lookup \/ Relayed \/ CloseBrowser
    BY <1>7, <1>g DEF Lookup, Relayed, CloseBrowser, Handle, pane, wires, session, Carried, Held
  <1>8. CASE DialPTY
    BY <1>8, <1>g DEF DialPTY, Handle, pane, wires, Carried, Held
  <1>9. CASE Accept
    <2>1. Held("out")' = Held("out")
      BY <1>9, <1>t DEF Accept, Handle, Handling, Early, Held
    <2> QED
      BY <1>9, <2>1, <1>g DEF Accept, Handle, pane, wires, session, Carried
  <1>10. CASE ClosePTY
    <2>1. /\ UNCHANGED <<connect, ws, sock, screen, said, cut, downward, pump, hold>>
          /\ srv = "closePty" /\ out' = <<>>
      BY <1>10 DEF ClosePTY, Handle, pane, wires
    <2>2. CASE Live /\ cut
      <3>1. Carried' = d \o (Held("out") \o <<>>) /\ d \in Seq(Nat)
        BY <2>1, <2>2, <1>t DEF Carried, Held, Live
      <3>2. IsPrefix(screen \o (d \o (Held("out") \o out)), said)
        BY <2>2 DEF Showing, Carried
      <3>3. IsPrefix(screen \o Carried', said)
        <4> HIDE DEF d
        <4> QED
          BY <3>1, <3>2, <1>t, <1>h, EndLost
      <3> QED
        BY <2>1, <2>2, <3>3 DEF Showing, Live
    <2>3. CASE ~(Live /\ cut)
      <3>1. Live => out = <<>>
        BY <2>1, <2>3 DEF Draining
      <3> QED
        BY <1>g, <2>1, <3>1 DEF Carried, Held
    <2> QED
      BY <2>2, <2>3
  <1>11. CASE ReadIn \/ WriteIn \/ ReadFails("in") \/ Report("in")
    <2>1. Held("out")' = Held("out") /\ UNCHANGED <<downward, out>>
      BY <1>11, <1>t DEF ReadIn, WriteIn, ReadFails, Report, Goto, Forget, Held, wires, session
    <2> QED
      BY <1>11, <2>1, <1>g DEF ReadIn, WriteIn, ReadFails, Report, pane, wires, session, Carried
  <1>12. CASE WriteInFails
    <2>1. Held("out")' = Held("out") /\ UNCHANGED <<downward, out, sock>>
      BY <1>12, <1>t DEF WriteInFails, Goto, Forget, Held, wires, session, pane
    <2>2. Carried' = Carried
      BY <2>1 DEF Carried
    <2>3. cut' = cut \/ cut' = TRUE
      BY <1>12 DEF WriteInFails
    <2> QED
      BY <1>12, <2>2, <2>3 DEF WriteInFails, pane, wires, session, Showing, Live
  <1>13. CASE ReadOut
    <2>1. Held("out") = <<>> /\ Held("out")' = <<Head(out)>> /\ out # <<>> /\ out' = Tail(out)
      BY <1>13, <1>t DEF ReadOut, Pumping, Goto, Held
    <2>2. ASSUME Live PROVE UNCHANGED Carried
      <3>1. <<Head(out)>> \o Tail(out) = <<>> \o out
        BY <2>1, <1>t, <1>f, HeadMoves
      <3> QED
        BY <1>13, <2>1, <3>1 DEF ReadOut, Carried, pane, wires
    <2> QED
      BY <1>13, <2>2, <1>g DEF ReadOut, pane, wires
  <1>14. CASE WriteOut
    <2>1. /\ Held("out") = <<hold["out"]>> /\ Held("out")' = <<>>
          /\ UNCHANGED <<connect, sock, ws, screen, said, cut, srv, out>>
      BY <1>14, <1>t DEF WriteOut, Pumping, Goto, Forget, Held, pane, session
    <2>2. ASSUME Live PROVE UNCHANGED Carried
      <3>1. downward'[sock] = Append(d, hold["out"]) /\ d \in Seq(Nat) /\ hold["out"] \in Nat
        BY <1>14, <2>2, <1>t DEF WriteOut, Gone, Live
      <3>2. Append(d, hold["out"]) \o (<<>> \o out) = d \o (<<hold["out"]>> \o out)
        <4> HIDE DEF d
        <4> QED
          BY <3>1, <1>t, MovedOn
      <3> QED
        BY <2>1, <3>1, <3>2 DEF Carried
    <2> QED
      BY <2>1, <2>2, <1>g
  <1>15. CASE WriteOutFails
    <2>1. /\ UNCHANGED <<connect, sock, ws, screen, said, cut, srv, out, downward>>
          /\ pump["out"] = "write" /\ Held("out")' = <<>>
      BY <1>15, <1>t DEF WriteOutFails, Pumping, Goto, Forget, Held, pane, wires, session
    <2>2. CASE Live
      <3>1. srv = "done"
        BY <1>15, <2>1, <2>2 DEF WriteOutFails, Pumping, Gone, Live, Handling, Early, Ways
      <3>2. out = <<>> /\ cut
        BY <2>1, <2>2, <3>1 DEF Saying, Draining, Past
      <3>3. Carried' = d \o (<<>> \o <<>>) /\ d \in Seq(Nat)
        BY <2>1, <2>2, <3>2, <1>t DEF Carried, Live
      <3>4. Carried' = d /\ IsPrefix(screen \o (d \o Held("out")), said)
        BY <2>2, <3>2, <3>3, <1>e, <1>f, <1>h DEF Showing, Carried
      <3>5. IsPrefix(screen \o Carried', said)
        BY <3>3, <3>4, <1>t, <1>h, DroppedEnd
      <3> QED
        BY <2>1, <2>2, <3>2, <3>5 DEF Showing, Live
    <2>3. CASE ~Live
      BY <2>1, <2>3, <1>g
    <2> QED
      BY <2>2, <2>3
  <1>16. CASE ReadFails("out") \/ Report("out")
    <2>1. Held("out")' = Held("out") /\ UNCHANGED <<downward, out>>
      BY <1>16, <1>t DEF ReadFails, Report, Goto, Pumping, Held, wires, session
    <2> QED
      BY <1>16, <2>1, <1>g DEF ReadFails, Report, pane, wires, session, Carried
  <1>17. ASSUME NEW s \in Sockets, Opened(s) PROVE Showing'
    <2>1. s = sock /\ Live
      <3>1. ws[s] = "connecting" /\ ~(s < sock) /\ ~(s > sock)
        BY <1>17 DEF Opened, Opening
      <3>2. s = sock
        BY <3>1, <1>t
      <3> QED
        BY <3>1, <3>2, <1>t DEF Opening, Live
    <2>2. ws'[sock'] = "open" /\ Carried' = Carried
      BY <1>17, <2>1, <1>t DEF Opened, relay, session, Carried, Held
    <2> QED
      BY <1>17, <2>1, <2>2 DEF Opened, relay, session, Showing, Live
  <1>18. ASSUME NEW s \in Sockets, Message(s) PROVE Showing'
    <2>1. UNCHANGED <<connect, sock, ws, said, cut, srv, out>> /\ Held("out")' = Held("out")
      BY <1>18 DEF Message, relay, session, Held
    <2>2. CASE ws[s] = "open"
      <3>1. s = sock /\ Live /\ d \in Seq(Nat) /\ d # <<>>
        <4>1. ~(s < sock) /\ ~(s > sock) /\ downward[s] # <<>>
          BY <1>18, <2>2 DEF Message, Opening
        <4>2. s = sock
          BY <4>1, <1>t
        <4>3. connect
          BY <2>2, <4>2, <1>t DEF Opening, Sockets
        <4> QED
          BY <2>2, <4>1, <4>2, <4>3, <1>t DEF Live
      <3>2. screen' = Append(screen, Head(d)) /\ downward'[sock'] = Tail(d)
        BY <1>18, <2>1, <2>2, <3>1, <1>t DEF Message
      <3>3. Held("out") \o out \in Seq(Nat)
        BY <1>t, <1>h, <1>n
      <3>4. (screen \o Carried)' = screen \o Carried
        <4> DEFINE r == Held("out") \o out
        <4>1. Append(screen, Head(d)) \o (Tail(d) \o r) = screen \o (d \o r)
          <5>1. r \in Seq(Nat) /\ d \in Seq(Nat) /\ d # <<>>
            BY <3>1, <3>3
          <5> HIDE DEF d, r
          <5> QED
            BY ZenonT(30), <5>1, <1>t, TakenOver
        <4> QED
          BY <2>1, <3>2, <4>1 DEF Carried
      <3>5. Head(d) \in Nat /\ Tail(d) \in Seq(Nat)
        BY <3>1, HeadTailProperties
      <3>6. screen' \in Seq(Nat) /\ Carried' \in Seq(Nat)
        BY <2>1, <3>2, <3>3, <3>5, <1>t, <1>n, AppendProperties DEF Carried
      <3>7. IsPrefix(screen', said)
        BY <3>1, <3>4, <3>6, <1>t, PrefixOfConcat DEF Showing
      <3> QED
        BY <2>1, <2>2, <3>1, <3>4, <3>7 DEF Showing, Live
    <2>3. CASE ws[s] # "open"
      <3>1. screen' = screen
        BY <1>18, <2>3 DEF Message
      <3>2. ASSUME Live PROVE downward'[sock] = downward[sock]
        BY <1>18, <2>3, <3>2, <1>t DEF Message, Live
      <3> QED
        BY <2>1, <3>1, <3>2, <1>g DEF Carried
    <2> QED
      BY <2>2, <2>3
  <1>19. ASSUME NEW s \in Sockets, SocketEnds(s) PROVE Showing'
    <2>1. /\ UNCHANGED <<connect, sock, screen, said, cut, srv, out, downward>>
          /\ Held("out")' = Held("out") /\ Carried' = Carried
      BY <1>19 DEF SocketEnds, Closed, relay, session, Carried, Held
    <2>2. CASE s = sock
      <3>1. ws'[sock] = "closed"
        BY <1>19, <2>2, <1>t DEF SocketEnds, Closed
      <3>2. ASSUME connect, ~cut PROVE srv \in {"refused", "done"} /\ screen = said
        <4>1. CASE ws[sock] = "connecting" /\ srv = "refused"
          BY <3>2, <4>1 DEF Opening, Saying, Live
        <4>2. CASE ws[sock] = "open" /\ d = <<>> /\ srv = "done"
          <5>1. Live /\ pump["out"] \in {"report", "ended"} /\ out = <<>>
            BY <3>2, <4>2 DEF Live, Draining, Past
          <5>2. Carried = <<>>
            BY <4>2, <5>1, <1>e, <1>f DEF Carried, Held
          <5> QED
            BY <3>2, <4>2, <5>1, <5>2, <1>t, <1>f DEF Showing
        <4> QED
          BY <1>19, <2>2, <3>2, <4>1, <4>2 DEF SocketEnds, Opening
      <3> QED
        BY <2>1, <3>1, <3>2 DEF Showing, Live
    <2>3. CASE s # sock
      <3>1. Live' => Live
        BY <1>19, <2>1, <2>3, <1>t DEF SocketEnds, Closed, Live
      <3>2. connect => ws'[sock] = ws[sock]
        BY <1>19, <2>3, <1>t DEF SocketEnds, Closed
      <3> QED
        BY <2>1, <3>1, <3>2 DEF Showing
    <2> QED
      BY <2>2, <2>3
  <1>20. CASE UNCHANGED vars
    BY <1>20, <1>g DEF vars, pane, wires, relay, session, Carried, Held
  <1> QED
    BY <1>1, <1>2, <1>3, <1>4, <1>5, <1>6, <1>7, <1>8, <1>9, <1>10, <1>11, <1>12, <1>13, <1>14,
       <1>15, <1>16, <1>17, <1>18, <1>19, <1>20
       DEF Next, Handler, PumpIn, PumpOut, Browser

(* What the shell heard, what the relay holds for it and what is on its    *)
(* way is what the page sent: the first of it always; as long as there is  *)
(* a shell to hear it and a pump to bring it, all of it.                   *)
Hearing ==
    /\ IsPrefix(heard, sent)
    /\ Early => sent = <<>> /\ upward = <<>> /\ heard = <<>>
    /\ shell # "gone" /\ ~Past("in") =>
           /\ IsPrefix(heard \o Awaited, sent)
           /\ Live /\ srv # "done" => heard \o Awaited = sent

(* The status is about the last socket and its shell.                      *)
Telling ==
    /\ status = "exited" <=> screen # <<>> /\ Last(screen) = Exit
    /\ connect /\ status = "open" => ws[sock] = "open"
    /\ connect /\ status = "closed" => ws[sock] = "closed" \/ late

(* Each step moves what the page sent towards the shell.                   *)
LEMMA HearingKept ==
    ASSUME TerminalTypes, Handling, Opening, Hearing, [Next]_vars
    PROVE  Hearing'
  <1>t. /\ pump \in [Ways -> Moments \cup {"none"}] /\ hold \in [Ways -> Nat]
        /\ ws \in [Sockets -> {"none", "connecting", "open", "closing", "closed"}]
        /\ sent \in Seq(Nat) /\ heard \in Seq(Nat) /\ upward \in Seq(Nat)
        /\ "in" \in Ways /\ "out" \in Ways
        /\ (connect => sock \in Sockets)
        /\ sock \in 0 .. MaxSessions /\ Sockets = 1 .. MaxSessions
    BY DEF TerminalTypes, Ways, Sockets, Opening
  <1>h. Held("in") \in Seq(Nat)
    BY <1>t DEF Held
  <1>e. <<>> \in Seq(Nat)
    OBVIOUS
  <1>f. \A q \in Seq(Nat) : <<>> \o q = q /\ q \o <<>> = q /\ IsPrefix(q, q)
    BY ConcatEmptySeq, PrefixOfItself
  <1>n. \A q, r \in Seq(Nat) : q \o r \in Seq(Nat)
    BY ConcatProperties
  <1>g. ASSUME UNCHANGED <<heard, sent, upward>>,
               Early' => Early,
               shell' # "gone" /\ ~Past("in")' => shell # "gone" /\ ~Past("in") /\ UNCHANGED Held("in"),
               (Live /\ srv # "done")' => Live /\ srv # "done"
        PROVE  Hearing'
    BY <1>g DEF Hearing, Awaited
  (* Before the relay there is nothing.                                    *)
  <1>s. ASSUME UNCHANGED <<heard, sent, upward>>, Early, Held("in")' = <<>>
        PROVE  Hearing'
    <2>1. sent' = <<>> /\ upward' = <<>> /\ heard' = <<>>
      BY <1>s DEF Hearing
    <2>2. (heard \o Awaited)' = <<>>
      BY <1>s, <2>1, <1>e, <1>f DEF Awaited
    <2> QED
      BY <2>1, <2>2, <1>e, <1>f DEF Hearing
  (* The page sends a frame.                                               *)
  <1>p. ASSUME NEW f \in Nat, Live, ~Early, sent' = Append(sent, f),
               upward' = IF srv = "done" THEN upward ELSE Append(upward, f),
               UNCHANGED <<heard, srv, pump, hold, shell>>
        PROVE  Hearing'
    <2>1. IsPrefix(heard, sent')
      BY <1>p, <1>t, PrefixOfAppend DEF Hearing
    <2>2. Held("in")' = Held("in") /\ (Past("in")' <=> Past("in")) /\ ~Early'
      BY <1>p DEF Held, Past, Early
    <2>3. ASSUME shell # "gone", ~Past("in")
          PROVE  IsPrefix((heard \o Awaited)', sent') /\ (srv # "done" => (heard \o Awaited)' = sent')
      <3>1. CASE srv = "done"
        <4>1. (heard \o Awaited)' = heard \o Awaited /\ IsPrefix(heard \o Awaited, sent)
          BY <1>p, <2>2, <2>3, <3>1 DEF Hearing, Awaited
        <4>2. heard \o Awaited \in Seq(Nat)
          BY <1>t, <1>h, <1>n DEF Awaited
        <4> QED
          BY <3>1, <4>1, <4>2, <1>p, <1>t, PrefixOfAppend
      <3>2. CASE srv # "done"
        <4>1. heard \o (Held("in") \o upward) = sent
          BY <1>p, <2>3, <3>2 DEF Hearing, Awaited
        <4>2. (heard \o Awaited)' = heard \o (Held("in") \o Append(upward, f))
          BY <1>p, <2>2, <3>2 DEF Awaited
        <4>3. heard \o (Held("in") \o Append(upward, f)) = Append(heard \o (Held("in") \o upward), f)
          <5> DEFINE r == Held("in") \o upward
          <5>1. r \in Seq(Nat) /\ heard \in Seq(Nat) /\ f \in Nat
            BY <1>h, <1>t, <1>n, <1>p
          <5>2. Held("in") \o Append(upward, f) = Append(r, f)
            BY SMTT(30), <1>h, <1>t, <1>p, AppendMoves
          <5> HIDE DEF r
          <5>3. heard \o Append(r, f) = Append(heard \o r, f)
            BY ONLY <5>1, AppendMoves
          <5> QED
            BY <5>2, <5>3 DEF r
        <4>4. sent' \in Seq(Nat)
          BY <1>p, <1>t, AppendProperties
        <4> QED
          BY <4>1, <4>2, <4>3, <4>4, <1>p, <1>f
      <3> QED
        BY <3>1, <3>2
    <2> QED
      BY <1>p, <2>1, <2>2, <2>3 DEF Hearing
  (* The frames on their way are lost, and no more are sent.               *)
  <1>d. ASSUME upward' = <<>>, UNCHANGED <<heard, sent, pump, hold, shell>>,
               Early' => Early, ~(Live /\ srv # "done")'
        PROVE  Hearing'
    <2>1. Held("in")' = Held("in") /\ (Past("in")' <=> Past("in"))
      BY <1>d DEF Held, Past
    <2>2. ASSUME shell # "gone", ~Past("in") PROVE IsPrefix((heard \o Awaited)', sent)
      <3>1. (heard \o Awaited)' = heard \o Held("in")
        BY <1>d, <2>1, <1>h, <1>f DEF Awaited
      <3>2. IsPrefix(heard \o (Held("in") \o upward), sent)
        BY <2>2 DEF Hearing, Awaited
      <3> QED
        BY <3>1, <3>2, <1>t, <1>h, DroppedEnd
    <2> QED
      BY <1>d, <2>1, <2>2 DEF Hearing
  <1>1. CASE Open
    BY <1>1, <1>e, <1>f DEF Open, Dial, Hearing, Awaited, Held, Ways
  <1>2. CASE TearDown
    <2>1. UNCHANGED <<heard, sent, upward, srv, pump, hold, shell>> /\ connect' = FALSE
      BY <1>2 DEF TearDown, relay, session
    <2> QED
      BY <2>1, <1>g DEF Live, Early, Past, Held
  <1>3. CASE Type
    <2>1. PICK f \in Nat : Send(f)
      <3>1. Len(sent) + 1 \in Nat /\ Resize \in Nat
        BY <1>t, LenProperties DEF Resize
      <3> QED
        BY <1>3, <3>1 DEF Type
    <2>2. Live /\ ~Early
      BY <1>3, <2>1 DEF Type, Send, Live, Opening
    <2> QED
      BY <1>3, <2>1, <2>2, <1>p DEF Type, Send, relay, session
  <1>4. CASE Break
    <2>1. ~Live'
      BY <1>4, <1>t DEF Break, Closed, Live
    <2> QED
      BY <1>4, <2>1, <1>d DEF Break, Closed, relay, session, Early
  <1>5. CASE Reclaim \/ ShellExits
    <2>1. shell' = "gone" /\ UNCHANGED <<heard, sent, upward, connect, ws, sock, srv>>
      BY <1>5 DEF Reclaim, ShellExits, pane, wires, relay
    <2> QED
      BY <2>1, <1>g DEF Live, Early
  <1>6. CASE EndRow \/ Output
    BY <1>6, <1>g DEF EndRow, Output, pane, wires, relay, Live, Early, Past, Held
  <1>7. CASE Lookup
    <2>1. Early /\ UNCHANGED <<heard, sent, upward, pump, hold>>
      BY <1>7 DEF Lookup, Handle, Early, wires, session
    <2> QED
      BY <2>1, <1>s, <1>t DEF Held, Handling
  <1>8. CASE DialPTY
    <2>1. Early /\ UNCHANGED <<heard, sent, upward, pump, hold>>
      BY <1>8 DEF DialPTY, Handle, Early, wires
    <2> QED
      BY <2>1, <1>s, <1>t DEF Held, Handling
  <1>9. CASE Accept
    <2>1. Early /\ UNCHANGED <<heard, sent, upward, hold>> /\ pump'["in"] \in {"none", "read"}
      BY <1>9, <1>t DEF Accept, Handle, Early, wires, session, Handling
    <2> QED
      BY <2>1, <1>s DEF Held
  <1>10. CASE Relayed \/ ClosePTY
    BY <1>10, <1>g DEF Relayed, ClosePTY, Handle, pane, wires, session, Live, Early, Past, Held
  <1>11. CASE CloseBrowser
    BY <1>11, <1>d DEF CloseBrowser, Handle, session, Early
  <1>12. CASE ReadIn
    <2>1. /\ upward # <<>> /\ upward' = Tail(upward) /\ Held("in") = <<>>
          /\ Held("in")' = <<Head(upward)>> /\ ~Past("in")
          /\ UNCHANGED <<heard, sent, connect, ws, sock, srv, shell>>
      BY <1>12, <1>t DEF ReadIn, Pumping, Goto, Held, Past, pane, session
    <2>2. (heard \o Awaited)' = heard \o Awaited
      <3>1. <<Head(upward)>> \o Tail(upward) = <<>> \o upward
        BY <2>1, <1>t, <1>f, HeadMoves
      <3> QED
        BY <2>1, <3>1 DEF Awaited
    <2>3. ~Early /\ ~Early'
      BY <1>12, <2>1, <1>t DEF ReadIn, Pumping, Handling, Early
    <2> QED
      BY <2>1, <2>2, <2>3 DEF Hearing, Live
  <1>13. CASE WriteIn
    <2>1. /\ Held("in") = <<hold["in"]>> /\ Held("in")' = <<>> /\ hold["in"] \in Nat
          /\ heard' = (IF shell = "running" THEN Append(heard, hold["in"]) ELSE heard)
          /\ UNCHANGED <<upward, sent, connect, ws, sock, srv, shell>>
          /\ ~Past("in")
      BY <1>13, <1>t DEF WriteIn, Pumping, Goto, Forget, Held, Past, pane, wires
    <2>2. ~Early /\ ~Early' /\ shell # "none"
      BY <1>13, <2>1, <1>t DEF WriteIn, Pumping, Handling, Early
    <2>3. CASE shell = "running"
      <3>1. (heard \o Awaited)' = heard \o Awaited
        <4>1. Append(heard, hold["in"]) \o (<<>> \o upward) = heard \o (<<hold["in"]>> \o upward)
          BY <2>1, <1>t, MovedOn
        <4> QED
          BY <2>1, <2>3, <4>1 DEF Awaited
      <3>2. heard' \in Seq(Nat) /\ Awaited' \in Seq(Nat)
        BY <2>1, <2>3, <1>t, <1>e, <1>n, AppendProperties DEF Awaited
      <3>3. IsPrefix(heard', sent)
        BY <2>1, <2>3, <3>1, <3>2, <1>t, PrefixOfConcat DEF Hearing
      <3> QED
        BY <2>1, <2>2, <2>3, <3>1, <3>3 DEF Hearing, Live
    <2>4. CASE shell = "gone"
      BY <2>1, <2>2, <2>4 DEF Hearing
    <2> QED
      BY <2>2, <2>3, <2>4 DEF TerminalTypes
  <1>14. CASE WriteInFails \/ ReadFails("in") \/ Report("in")
    <2>1. Past("in")' /\ UNCHANGED <<heard, sent, upward, connect, ws, sock, srv>>
      BY <1>14, <1>t DEF WriteInFails, ReadFails, Report, Goto, Past, pane, wires, session
    <2> QED
      BY <2>1, <1>g DEF Live, Early
  <1>15. CASE PumpOut
    <2>1. /\ Held("in")' = Held("in") /\ (Past("in")' <=> Past("in"))
          /\ UNCHANGED <<heard, sent, upward, connect, ws, sock, srv, shell>>
      BY <1>15, <1>t DEF PumpOut, ReadOut, WriteOut, WriteOutFails, ReadFails, Report, Goto, Forget,
                         Held, Past, pane, wires, session
    <2> QED
      BY <2>1, <1>g DEF Live, Early
  <1>16. ASSUME NEW s \in Sockets, Opened(s) PROVE Hearing'
    <2>1. s = sock
      <3>1. ~(s < sock) /\ ~(s > sock)
        BY <1>16 DEF Opened, Opening
      <3> QED
        BY <3>1, <1>t
    <2>2. Live /\ ~Early /\ Resize \in Nat
      BY <1>16, <2>1, <1>t DEF Opened, Opening, Live, Early, Resize
    <2> QED
      BY <1>16, <2>2, <1>p DEF Opened, relay, session
  <1>17. ASSUME NEW s \in Sockets, Message(s) PROVE Hearing'
    BY <1>17, <1>g DEF Message, relay, session, Live, Early, Past, Held
  <1>18. ASSUME NEW s \in Sockets, SocketEnds(s) PROVE Hearing'
    <2>1. Live' => Live
      BY <1>18, <1>t DEF SocketEnds, Closed, Live
    <2> QED
      BY <1>18, <2>1, <1>g DEF SocketEnds, Closed, relay, session, Early, Past, Held
  <1>19. CASE UNCHANGED vars
    BY <1>19, <1>g DEF vars, pane, wires, relay, session, Live, Early, Past, Held
  <1> QED
    BY <1>1, <1>2, <1>3, <1>4, <1>5, <1>6, <1>7, <1>8, <1>9, <1>10, <1>11, <1>12, <1>13, <1>14,
       <1>15, <1>16, <1>17, <1>18, <1>19
       DEF Next, Handler, PumpIn, Browser

(* Each step keeps the status true (Terminal.tsx:103-124).                 *)
LEMMA TellingKept ==
    ASSUME TerminalTypes, Handling, Opening, Saying, Showing, Telling, [Next]_vars
    PROVE  Telling'
  <1>t. /\ ws \in [Sockets -> {"none", "connecting", "open", "closing", "closed"}]
        /\ downward \in [Sockets -> Seq(Nat)]
        /\ screen \in Seq(Nat) /\ said \in Seq(Nat) /\ out \in Seq(Nat)
        /\ pump \in [Ways -> Moments \cup {"none"}] /\ hold \in [Ways -> Nat] /\ "out" \in Ways
        /\ (connect => sock \in Sockets)
        /\ sock \in 0 .. MaxSessions /\ Sockets = 1 .. MaxSessions
    BY DEF TerminalTypes, Sockets, Opening, Ways
  <1>g. ASSUME UNCHANGED <<status, screen, sock, late>>,
               connect' => connect /\ UNCHANGED ws
        PROVE  Telling'
    BY <1>g DEF Telling
  <1>1. CASE Open
    BY <1>1 DEF Open, Dial, Telling
  <1>2. CASE TearDown
    BY <1>2, <1>g DEF TearDown
  <1>3. CASE Type \/ Reclaim \/ EndRow \/ Output \/ ShellExits
    BY <1>3, <1>g DEF Type, Reclaim, EndRow, Output, ShellExits, pane, wires
  <1>4. ASSUME NEW s \in Sockets, Closed(s), ws[s] # "none", ws[s] # "closed" PROVE Telling'
    <2>1. /\ ws'[s] = "closed" /\ \A r \in Sockets : r # s => ws'[r] = ws[r]
          /\ UNCHANGED <<connect, sock, screen>>
          /\ late' = (late \/ s # sock)
          /\ status' = IF status = "exited" THEN status ELSE "closed"
      BY <1>4, <1>t DEF Closed
    <2> QED
      BY <2>1, <1>t DEF Telling
  <1>5. CASE Break
    BY <1>4, <1>5, <1>t DEF Break
  <1>6. CASE Handler \/ PumpIn \/ PumpOut
    <2>1. UNCHANGED <<pane, ws>>
      BY <1>6 DEF Handler, Lookup, DialPTY, Accept, Relayed, ClosePTY, CloseBrowser, wires,
                  PumpIn, PumpOut, ReadIn, ReadOut, WriteIn, WriteOut, WriteInFails, WriteOutFails,
                  ReadFails, Report
    <2> QED
      BY <2>1, <1>g DEF pane
  <1>7. ASSUME NEW s \in Sockets, Opened(s) PROVE Telling'
    <2>1. s = sock
      <3>1. ~(s < sock) /\ ~(s > sock)
        BY <1>7 DEF Opened, Opening
      <3> QED
        BY <3>1, <1>t
    <2>2. screen = <<>>
      BY <1>7, <2>1, <1>t DEF Opened, Opening, Live
    <2> QED
      BY <1>7, <2>1, <2>2, <1>t DEF Opened, Telling
  <1>8. ASSUME NEW s \in Sockets, Message(s) PROVE Telling'
    <2>1. CASE ws[s] # "open"
      BY <1>8, <2>1, <1>g DEF Message
    <2>2. CASE ws[s] = "open"
      <3> DEFINE d == downward[s]
      <3>1. s = sock /\ d # <<>> /\ d \in Seq(Nat)
        <4>1. ~(s < sock) /\ ~(s > sock) /\ d # <<>>
          BY <1>8, <2>2 DEF Message, Opening
        <4>2. d \in Seq(Nat)
          BY <1>t
        <4>3. s = sock
          BY <4>1, <1>t
        <4> QED
          BY <4>1, <4>2, <4>3
      <3>2. Live
        BY <2>2, <3>1, <1>t DEF Opening, Live, Sockets
      <3>3. /\ screen' = Append(screen, Head(d))
            /\ (Head(d) = Exit => status' = "exited")
            /\ (Head(d) # Exit => status' = status)
            /\ UNCHANGED <<connect, sock, ws, late>>
        BY <1>8, <2>2 DEF Message
      <3>4. Head(d) \in Nat
        BY <3>1, HeadTailProperties
      <3>5. screen' # <<>> /\ Last(screen') = Head(d)
        <4> DEFINE h == Head(d)   more == Append(screen, h)
        <4>1. h \in Nat /\ screen \in Seq(Nat)
          BY <1>t, <3>4
        <4> HIDE DEF h
        <4>2. Len(more) = Len(screen) + 1 /\ more[Len(screen) + 1] = h /\ more # <<>>
          BY ONLY <4>1, AppendProperties
        <4> QED
          BY <3>3, <4>2 DEF Last, h
      <3>6. ASSUME status = "exited" PROVE FALSE
        <4>1. screen # <<>> /\ Last(screen) = Exit
          BY <3>6 DEF Telling
        <4>2. Len(screen) \in Nat \ {0} /\ Len(d) \in Nat \ {0}
          BY <4>1, <3>1, <1>t, EmptySeq
        <4> DEFINE r == Held("out") \o out
        <4>3. r \in Seq(Nat) /\ Len(r) \in Nat
          BY <1>t, ConcatProperties, LenProperties DEF Held
        <4>4. d \o r \in Seq(Nat) /\ Len(d \o r) = Len(d) + Len(r)
          <5> HIDE DEF d, r
          <5> QED
            BY <3>1, <4>3, ConcatProperties
        <4>5. Carried = d \o r
          BY <3>1 DEF Carried
        <4> DEFINE all == screen \o Carried
        <4>6. all \in Seq(Nat) /\ Len(all) = Len(screen) + Len(d) + Len(r)
          <5> HIDE DEF d, r
          <5>1. screen \o Carried \in Seq(Nat) /\ Len(screen \o Carried) = Len(screen) + Len(Carried)
            BY <4>4, <4>5, <1>t, ConcatProperties
          <5> QED
            BY <5>1, <4>2, <4>3, <4>4, <4>5
        <4>7. Len(all) <= Len(said) /\ Len(said) \in Nat
          BY <3>2, <1>t, LenProperties DEF Showing, IsPrefix
        <4>8. said[Len(screen)] = screen[Len(screen)]
          BY <4>2, <1>t, PrefixElements DEF Showing
        <4>9. Len(screen) \in 1 .. Len(said) /\ Len(screen) < Len(said)
          <5> HIDE DEF d, r, all
          <5> QED
            BY <4>2, <4>3, <4>6, <4>7
        <4> QED
          BY <4>1, <4>8, <4>9 DEF Saying, Last
      <3> QED
        BY <3>3, <3>5, <3>6 DEF Telling
    <2> QED
      BY <2>1, <2>2
  <1>9. ASSUME NEW s \in Sockets, SocketEnds(s) PROVE Telling'
    BY <1>4, <1>9 DEF SocketEnds
  <1>10. CASE UNCHANGED vars
    BY <1>10, <1>g DEF vars, pane, wires
  <1> QED
    BY <1>1, <1>2, <1>3, <1>5, <1>6, <1>7, <1>8, <1>9, <1>10 DEF Next, Browser

(* The whole of what a terminal keeps.                                     *)
TerminalInv ==
    /\ TerminalTypes /\ Handling /\ Opening /\ Saying
    /\ Draining /\ Showing /\ Hearing /\ Telling

(* Before the first session all of it holds.                               *)
LEMMA TerminalBegins == Init => TerminalInv
  <1> SUFFICES ASSUME Init PROVE TerminalInv
    OBVIOUS
  <1> USE DEF Init
  <1>1. TerminalTypes
    <2>1. /\ connect \in BOOLEAN /\ late \in BOOLEAN /\ cut \in BOOLEAN
          /\ up \in BOOLEAN /\ row \in BOOLEAN
      OBVIOUS
    <2>2. /\ sock \in 0 .. MaxSessions /\ errc \in 0 .. 2
          /\ status = "idle" /\ shell = "none"
      BY TerminalAssumption
    <2>3. /\ screen \in Seq(Nat) /\ upward \in Seq(Nat) /\ sent \in Seq(Nat)
          /\ heard \in Seq(Nat) /\ out \in Seq(Nat) /\ said \in Seq(Nat)
          /\ downward \in [Sockets -> Seq(Nat)]
      OBVIOUS
    <2>4. /\ ws \in [Sockets -> {"none", "connecting", "open", "closing", "closed"}]
          /\ pump \in [Ways -> Moments \cup {"none"}] /\ hold \in [Ways -> Nat]
      OBVIOUS
    <2> QED
      BY <2>1, <2>2, <2>3, <2>4 DEF TerminalTypes
  <1>2. Handling /\ Opening
    BY DEF Handling, Opening, Live, Early, Ways, Sockets
  <1>3. Saying /\ Draining
    BY DEF Saying, Draining, Live
  <1>4. Showing /\ Telling
    <2>1. <<>> \in Seq(Nat)
      OBVIOUS
    <2>2. IsPrefix(<<>>, <<>>)
      BY <2>1, PrefixOfItself
    <2> QED
      BY <2>2 DEF Showing, Telling, Live
  <1>5. Hearing
    <2>1. <<>> \in Seq(Nat)
      OBVIOUS
    <2>2. <<>> \o <<>> = <<>> /\ IsPrefix(<<>>, <<>>)
      BY <2>1, ConcatEmptySeq, PrefixOfItself
    <2> QED
      BY <2>2 DEF Hearing, Awaited, Held, Ways
  <1> QED
    BY <1>1, <1>2, <1>3, <1>4, <1>5 DEF TerminalInv

(* All of it holds, always.                                                *)
THEOREM TerminalInvariant == Spec => []TerminalInv
  <1>1. TerminalInv /\ [Next]_vars => TerminalInv'
    BY TypesKept, HandlingKept, OpeningKept, SayingKept, DrainingKept, ShowingKept, HearingKept,
       TellingKept DEF TerminalInv
  <1> QED
    BY TerminalBegins, <1>1, PTL DEF Spec

(* What is shown is the first of what was said, and what is heard the      *)
(* first of what was typed, for any number of sessions and frames.         *)
THEOREM FramesInOrder == Spec => []BothWaysInOrder
  <1>1. TerminalInv => BothWaysInOrder
    BY DEF TerminalInv, Showing, Hearing, BothWaysInOrder
  <1> QED
    BY TerminalInvariant, <1>1, PTL

(* A shell that exited while the connection held is shown to its end.      *)
THEOREM ExitsAreShown == Spec => []ExitIsShown
  <1>1. TerminalInv => ExitIsShown
    BY DEF TerminalInv, Showing, Telling, ExitIsShown
  <1> QED
    BY TerminalInvariant, <1>1, PTL

(* The status is about the socket the pane has.                            *)
THEOREM StatusIsCurrent == Spec => []StatusTellsCurrent
  <1>1. TerminalInv => StatusTellsCurrent
    BY DEF TerminalInv, Telling, StatusTellsCurrent
  <1> QED
    BY TerminalInvariant, <1>1, PTL
================================================================================
