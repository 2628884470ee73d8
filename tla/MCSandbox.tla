------------------------------- MODULE MCSandbox -------------------------------
(* A sandbox as the client sees it: it is waited for, with a timeout of a  *)
(* few intervals and calls that may take longer than one; then a build     *)
(* runs a command in it (one that says nothing, or one whose output comes  *)
(* in up to five pieces), or a visitor opens a terminal. Both need no more *)
(* of the wait than that it found the sandbox, so they start from a wait   *)
(* that found it at once.                                                  *)
EXTENDS Waits, Exec, Terminal

MCOutputs == {<<>>, <<"a", "b", "newline", "a", "b">>}

sandboxVars == <<waitsVars, execVars, vars>>

SandboxInit == WaitsInit /\ ExecInit /\ Init

AtOnce == result = "ok" /\ thing = "ready" /\ now = 0 /\ ~done

NoCommand == wrote = 0 /\ stream = "open" /\ returned = "none"
CommandTalks == output # <<>> \/ exits # 0
NoTerminal == sock = 0

SandboxNext ==
    \/ NoCommand /\ NoTerminal /\ WaitsNext /\ UNCHANGED <<execVars, vars>>
    \/ AtOnce /\ NoTerminal /\ ExecNext /\ UNCHANGED <<waitsVars, vars>>
    \/ AtOnce /\ NoCommand /\ ~CommandTalks /\ Next /\ UNCHANGED <<waitsVars, execVars>>

SandboxSpec == SandboxInit /\ [][SandboxNext]_sandboxVars /\ Fairness
================================================================================
