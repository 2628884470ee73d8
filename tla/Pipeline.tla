-------------------------------- MODULE Pipeline --------------------------------
(***************************************************************************)
(* One build inside its sandbox (internal/builder: execute from clone to   *)
(* start): the recipe, the check for missing tools, install with the       *)
(* model's repairs, and the probe for a listening port (probe.go). What    *)
(* surrounds it is in Builder.tla, which knows the phases only.            *)
(*                                                                         *)
(* A command is a value with the program it starts and the programs it     *)
(* puts on the PATH. A call to the platform may fail at any time, be it    *)
(* for the call's own reasons or because buildTimeout passed.              *)
(***************************************************************************)
EXTENDS Integers, Sequences, FiniteSets, SequencesExt, FiniteSetsExt, Phases

CONSTANTS
    Recipes,        \* what Detect or Infer may return
    Fixes,          \* lists of commands that Repair may return
    Program,        \* per command: the program it starts
    Provides,       \* per command: the programs it installs
    Image,          \* programs of the sandbox image
    Sockets,        \* bound: what a look may list
    ReservedPorts,  \* reservedPorts
    MaxRepairs,     \* 2 in install
    MaxLooks,       \* bound: looks before ProbeTimeout has passed
    None

Commands == DOMAIN Program
Recipe == [install : Seq(Commands), start : Commands \cup {None}, port : Nat]

ASSUME PipelineAssumption ==
    /\ MaxRepairs \in Nat /\ MaxLooks \in Nat \ {0}
    /\ Recipes \subseteq Recipe
    /\ Fixes \subseteq Seq(Commands) \ {<<>>}
    /\ DOMAIN Provides = Commands
    /\ \A s \in Sockets : s.port \in Nat \ {0} /\ s.listens \in BOOLEAN
    /\ None \notin Commands \cup {"failed", "unsupported"}

VARIABLES
    phase,      \* lg.phase
    pc,         \* the step of the phase
    verdict,    \* the status passed to fail
    llm,        \* b.LLM is there
    rcp,        \* execute's recipe
    recorded,   \* r.build.Recipe
    path,       \* the sandbox: programs on its PATH
    cmds, i,    \* install's list and index
    repairs,    \* install's counter
    kind, port, \* what startAndProbe returned
    settle,     \* startAndProbe's flag
    ran,        \* history: install commands that exited 0, in order
    unsure,     \* history: the call of a check for a tool failed
    cut,        \* history: a check for a tool was cut short
    looks       \* history: what the looks listed

vars == <<phase, pc, verdict, llm, rcp, recorded, path, cmds, i, repairs, kind,
          port, settle, ran, unsure, cut, looks>>
recipeVars == <<llm, rcp, recorded>>
installVars == <<path, cmds, i, repairs, ran>>
probeVars == <<kind, port, settle, looks>>
checkVars == <<unsure, cut>>

NoRecipe == [install |-> <<>>, start |-> None, port |-> 0]

Init ==
    /\ phase = "clone" /\ pc = "run" /\ verdict = None
    /\ llm \in BOOLEAN
    /\ rcp = NoRecipe /\ recorded = NoRecipe
    /\ path = Image
    /\ cmds = <<>> /\ i = 1 /\ repairs = 0 /\ ran = <<>>
    /\ kind = None /\ port = 0 /\ settle = FALSE /\ looks = <<>>
    /\ unsure = FALSE /\ cut = FALSE

At(p, l) == phase = p /\ pc = l /\ verdict = None
Goto(l) == pc' = l /\ UNCHANGED <<phase, verdict>>
NextPhase == phase' = After[phase] /\ pc' = "run" /\ UNCHANGED verdict
Fail(v) == verdict' = v /\ UNCHANGED <<phase, pc>>

-------------------------------------------------------------------------------
(* git clone exits 0, or not, or the call fails.                           *)
Clone ==
    /\ At("clone", "run")
    /\ NextPhase \/ Fail("failed")
    /\ UNCHANGED <<recipeVars, installVars, probeVars, checkVars>>

(* The inspector runs, a detector or else the model names a recipe.        *)
Detect ==
    /\ At("detect", "run")
    /\ \/ /\ NextPhase
          /\ rcp' \in Recipes
          /\ recorded' = rcp'
       \/ Fail("failed") /\ UNCHANGED <<rcp, recorded>>
       \/ Fail("unsupported") /\ UNCHANGED <<rcp, recorded>>
    /\ UNCHANGED <<llm, installVars, probeVars, checkVars>>

-------------------------------------------------------------------------------
(* missingTools of a list of commands. The calls of the checks in lost     *)
(* fail, and such a tool is taken as there. The checks in short are killed *)
(* or their streams end with no exit code: Exec then returns -1 without an *)
(* error, and the tool is taken as missing.                                *)

(* A slip: a check whose call fails finds nothing.                         *)
MissingOrLost(list, lost, short) ==
    {k \in DOMAIN list : k \in lost \cup short \/ Program[list[k]] \notin path}

Missing(list, lost, short) ==
    {k \in DOMAIN list \ lost : k \in short \/ Program[list[k]] \notin path}

CheckTools(list, OnSuccess) ==
    \E lost, short \in SUBSET DOMAIN list :
        /\ lost \cap short = {}
        /\ IF Missing(list, lost, short) # {} THEN Fail("unsupported") ELSE OnSuccess
        /\ unsure' = (unsure \/ lost # {})
        /\ cut' = (cut \/ short # {})

(* Before the first install command all of them are checked.               *)
InstallTools ==
    /\ At("install", "run")
    /\ CheckTools(rcp.install, Goto("next"))
    /\ cmds' = rcp.install /\ i' = 1
    /\ UNCHANGED <<recipeVars, path, repairs, ran, probeVars>>

(* A slip: repairs are not counted.                                        *)
RunCommandUncounted ==
    /\ At("install", "next") /\ i <= Len(cmds)
    /\ \/ /\ Program[cmds[i]] \in path
          /\ i' = i + 1
          /\ ran' = Append(ran, cmds[i])
          /\ path' = path \cup Provides[cmds[i]]
          /\ UNCHANGED <<phase, pc, verdict, repairs>>
       \/ /\ llm /\ repairs < MaxRepairs
          /\ Goto("repair")
          /\ UNCHANGED <<i, ran, path, repairs>>
       \/ /\ Fail("failed")
          /\ UNCHANGED <<i, ran, path, repairs>>
    /\ UNCHANGED <<recipeVars, cmds, probeVars, checkVars>>

(* The next command, while the time budget lasts.                          *)
RunCommand ==
    /\ At("install", "next") /\ i <= Len(cmds)
    /\ \/ /\ Program[cmds[i]] \in path
          /\ i' = i + 1
          /\ ran' = Append(ran, cmds[i])
          /\ path' = path \cup Provides[cmds[i]]
          /\ UNCHANGED <<phase, pc, verdict, repairs>>
       \/ /\ llm /\ repairs < MaxRepairs
          /\ Goto("repair")
          /\ repairs' = repairs + 1
          /\ UNCHANGED <<i, ran, path>>
       \/ /\ Fail("failed")
          /\ UNCHANGED <<i, ran, path, repairs>>
    /\ UNCHANGED <<recipeVars, cmds, probeVars, checkVars>>

(* A slip: the command that failed stays in the list.                      *)
RepairAfter ==
    /\ At("install", "repair")
    /\ \/ /\ Goto("next")
          /\ \E fixed \in Fixes : cmds' = SubSeq(cmds, 1, i) \o fixed
          /\ rcp' = [rcp EXCEPT !.install = cmds']
          /\ i' = i + 1
       \/ Fail("failed") /\ UNCHANGED <<cmds, rcp, i>>
    /\ UNCHANGED <<llm, recorded, path, repairs, ran, probeVars, checkVars>>

(* The model's list takes the place of the command that failed and of the  *)
(* rest.                                                                   *)
Repair ==
    /\ At("install", "repair")
    /\ \/ /\ Goto("next")
          /\ \E fixed \in Fixes : cmds' = SubSeq(cmds, 1, i - 1) \o fixed
          /\ rcp' = [rcp EXCEPT !.install = cmds']
       \/ Fail("failed") /\ UNCHANGED <<cmds, rcp>>
    /\ UNCHANGED <<llm, recorded, path, i, repairs, ran, probeVars, checkVars>>

Installed ==
    /\ At("install", "next") /\ i > Len(cmds)
    /\ NextPhase
    /\ UNCHANGED <<recipeVars, installVars, probeVars, checkVars>>

-------------------------------------------------------------------------------
(* execute takes what startAndProbe returns into the recipe.               *)
Return(k, p) ==
    /\ NextPhase
    /\ kind' = k /\ port' = p
    /\ rcp' = [rcp EXCEPT !.port = p]

(* Without a start command there is nothing to probe.                      *)
NoStart ==
    /\ At("start", "run") /\ rcp.start = None
    /\ Return("terminal", 0)
    /\ UNCHANGED <<llm, recorded, installVars, settle, looks, checkVars>>

StartTools ==
    /\ At("start", "run") /\ rcp.start # None
    /\ CheckTools(<<rcp.start>>, Goto("launch"))
    /\ UNCHANGED <<recipeVars, installVars, probeVars>>

Launch ==
    /\ At("start", "launch")
    /\ Goto("look") \/ Fail("failed")
    /\ UNCHANGED <<recipeVars, installVars, probeVars, checkVars>>

(* A slip: reserved ports are not dropped.                                 *)
ParseAll(out) == {s.port : s \in {t \in out : t.listens}}

(* The ports that listen, but those that are never the app's.              *)
ParseListening(out) == {s.port : s \in {t \in out : t.listens}} \ ReservedPorts

(* The hint if it listens, else the lowest port, 0 when nothing listens.   *)
ChoosePort(hint, listening) ==
    IF hint \in listening THEN hint ELSE IF listening = {} THEN 0 ELSE Min(listening)

(* A look lists some sockets. A port other than the hint is taken at the   *)
(* second look that has one. Otherwise the loop goes on, unless            *)
(* ProbeTimeout has passed.                                                *)
Look ==
    /\ At("start", "look") /\ Len(looks) < MaxLooks
    /\ \/ \E out \in SUBSET Sockets :
            LET p == ChoosePort(rcp.port, ParseListening(out))
            IN  /\ looks' = Append(looks, out)
                /\ IF p > 0 /\ (p = rcp.port \/ settle)
                   THEN Return("web", p) /\ UNCHANGED settle
                   ELSE /\ settle' = (settle \/ p > 0)
                        /\ \/ Return("terminal", 0)
                           \/ Len(looks') < MaxLooks /\ Goto("look") /\ UNCHANGED <<kind, port, rcp>>
       \/ Fail("failed") /\ UNCHANGED <<rcp, probeVars>>
    /\ UNCHANGED <<llm, recorded, installVars, checkVars>>

-------------------------------------------------------------------------------
Next ==
    \/ Clone \/ Detect
    \/ InstallTools \/ RunCommand \/ Repair \/ Installed
    \/ NoStart \/ StartTools \/ Launch \/ Look

Spec == Init /\ [][Next]_vars

(* execute goes on while it can: every call has a timeout.                 *)
FairSpec == Spec /\ WF_vars(Next)

-------------------------------------------------------------------------------
Built == phase = "snapshot"

Heard(k) == ParseListening(looks[k])

(* Every variable has its type; no more repairs than two are asked for.    *)
TypeOK ==
    /\ phase \in {"clone", "detect", "install", "start", "snapshot"}
    /\ pc \in {"run", "next", "repair", "launch", "look"}
    /\ verdict \in {None, "failed", "unsupported"}
    /\ {rcp, recorded} \subseteq Recipe
    /\ cmds \in Seq(Commands) /\ i \in 1 .. Len(cmds) + 1
    /\ repairs \in 0 .. MaxRepairs
    /\ kind \in {None, "web", "terminal"} /\ port \in Nat
    /\ {llm, settle, unsure, cut} \subseteq BOOLEAN
    /\ ran \in Seq(Commands) /\ looks \in Seq(SUBSET Sockets)

(* The recipe a build publishes as "how we ran it" (server.go:230) is what *)
(* was run: its install list is exactly the commands that exited 0, in     *)
(* their order, whatever was replaced on the way, and before that what has *)
(* run is its beginning.                                                   *)
RecipeIsWhatRan ==
    /\ Built => ran = rcp.install
    /\ phase = "install" => IsPrefix(ran, rcp.install)

(* README.md:38-40, "reported as unsupported for now rather than failing   *)
(* mid-install": a build is called unsupported only when the sandbox lacks *)
(* a program of its recipe, or a check was cut short, which Exec's -1      *)
(* makes the same (builder.go:381, http.go:252-272). A check whose call    *)
(* failed turns nothing away; only after one, or after a repair, is a      *)
(* command started without its program.                                    *)
MissingToolsAreReported ==
    /\ verdict = "unsupported" /\ phase \in {"install", "start"} /\ ~cut =>
            \E c \in (Range(rcp.install) \cup {rcp.start}) \ {None} : Program[c] \notin path
    /\ phase = "install" /\ pc = "next" /\ i <= Len(cmds) =>
            Program[cmds[i]] \in path \/ unsure \/ repairs > 0

(* "Dev servers often open helper ports before the page server; unless the *)
(* hinted port is already up, look once more before committing"            *)
(* (builder.go:476-477): the port of a preview listened at the last look,  *)
(* is not reserved, and is the hint unless the hint was not up at this     *)
(* look nor at an earlier one that already had something to offer.         *)
WebIsServing ==
    Built /\ kind = "web" =>
        /\ port \in Heard(Len(looks)) /\ port \notin ReservedPorts
        /\ port # recorded.port =>
              /\ \A k \in DOMAIN looks : recorded.port \notin Heard(k)
              /\ \E k \in 1 .. Len(looks) - 1 : Heard(k) # {}

(* A repo with a start command becomes a terminal only when no look heard  *)
(* the hint and at most one heard anything usable: "look once more before  *)
(* committing" does not lose a server that stays up.                       *)
TerminalIsQuiet ==
    Built /\ kind = "terminal" /\ rcp.start # None =>
        /\ \A k \in DOMAIN looks : recorded.port \notin Heard(k)
        /\ \A k, l \in DOMAIN looks : Heard(k) # {} /\ Heard(l) # {} => k = l

(* What Builder takes from this module: phases follow one another, and a   *)
(* phase that fails does so with one of its verdicts, once.                *)
ImplementsPhases ==
    [][\/ UNCHANGED <<phase, verdict>>
       \/ verdict = None /\ phase' = After[phase] /\ UNCHANGED verdict
       \/ verdict = None /\ verdict' \in Verdicts[phase] /\ UNCHANGED phase]_vars

(* Neither the repairs nor the probe go on for ever.                       *)
EveryBuildSettles == <>(Built \/ verdict # None)

(* "Programs installed by an earlier command (pip-provided servers) are    *)
(* checked only when their command is about to run" (builder.go:372-373):  *)
(* a build is not turned away for a program that an install command before *)
(* would have provided.                                                    *)
ProvidedToolsAreAwaited ==
    verdict = "unsupported" /\ phase = "install" /\ ~cut =>
        \E k \in DOMAIN rcp.install :
            /\ Program[rcp.install[k]] \notin path
            /\ \A j \in 1 .. k - 1 : Program[rcp.install[k]] \notin Provides[rcp.install[j]]

-------------------------------------------------------------------------------
(* The inductive invariant, see PipelineProofs.                            *)

Places == {<<"clone", "run">>, <<"detect", "run">>, <<"install", "run">>, <<"install", "next">>,
           <<"install", "repair">>, <<"start", "run">>, <<"start", "launch">>,
           <<"start", "look">>, <<"snapshot", "run">>}

(* What ran is what install's list has before its index, and the list is   *)
(* the recipe's.                                                           *)
Progress ==
    IF phase \in {"clone", "detect"} \/ <<phase, pc>> = <<"install", "run">>
    THEN ran = <<>> /\ i = 1
    ELSE /\ cmds = rcp.install
         /\ Len(ran) = i - 1 /\ \A k \in 1 .. Len(ran) : ran[k] = cmds[k]
         /\ pc = "repair" => i <= Len(cmds)
         /\ phase # "install" => i = Len(cmds) + 1

(* What the probe knows: it never heard the hint, and settle says that one *)
(* look heard something else.                                              *)
Probing ==
    /\ phase # "snapshot" => rcp.port = recorded.port
    /\ phase \in {"clone", "detect", "install"} \/ <<phase, pc>> = <<"start", "run">> => looks = <<>>
    /\ phase # "snapshot" =>
          /\ \A k \in DOMAIN looks : recorded.port \notin Heard(k)
          /\ settle => \E k \in DOMAIN looks : Heard(k) # {}
          /\ ~settle => \A k \in DOMAIN looks : Heard(k) = {}
          /\ \A k, l \in DOMAIN looks : Heard(k) # {} /\ Heard(l) # {} => k = l

PipelineInv ==
    /\ TypeOK
    /\ <<phase, pc>> \in Places
    /\ Progress
    /\ Probing
    /\ WebIsServing
    /\ TerminalIsQuiet
================================================================================
