----------------------------- MODULE PipelineProofs -----------------------------
(***************************************************************************)
(* Theorems about Pipeline, for every recipe and repair, every set of      *)
(* sockets and reserved ports, and every bound on repairs and looks.       *)
(***************************************************************************)
EXTENDS Pipeline, SequenceTheorems, WellFoundedInduction, TLAPS

-------------------------------------------------------------------------------
(* Facts about the data.                                                   *)

Below == {ss \in Nat \X Nat : ss[1] < ss[2]}

(* The order of the naturals is well-founded.                              *)
LEMMA BelowIsWellFounded == IsWellFoundedOn(Below, Nat)
BY NatLessThanWellFounded DEF OpToRel, Below

(* Min of a set of ports is its least element: what sort and [0] yield.    *)
LEMMA Least ==
    ASSUME NEW S \in SUBSET Nat, S # {}
    PROVE  Min(S) \in S /\ \A y \in S : Min(S) <= y
<1>1. \E x \in S : \A y \in S : ~(<<y, x>> \in Below)
    BY BelowIsWellFounded, WFMin
<1>2. PICK x \in S : \A y \in S : ~(<<y, x>> \in Below)
    BY <1>1
<1>3. ASSUME NEW y \in S PROVE x <= y
    <2>1. <<y, x>> \notin Below
        BY <1>2
    <2>2. x \in Nat /\ y \in Nat
        OBVIOUS
    <2>3. CASE y < x
        <3>1. <<y, x>> \in Below
            BY <2>2, <2>3 DEF Below
        <3> QED BY <3>1, <2>1
    <2> QED BY <2>2, <2>3
<1> QED BY <1>3 DEF Min

(* ChoosePort returns the hint if it listens, else some listening port,    *)
(* and 0 exactly when nothing listens.                                     *)
LEMMA ChosenPort ==
    ASSUME NEW hint \in Nat, NEW S \in SUBSET (Nat \ {0})
    PROVE  /\ ChoosePort(hint, S) \in Nat
           /\ ChoosePort(hint, S) > 0 => ChoosePort(hint, S) \in S
           /\ ~(ChoosePort(hint, S) > 0) => S = {}
           /\ hint \in S => ChoosePort(hint, S) = hint
<1>1. CASE S = {}
    BY <1>1 DEF ChoosePort
<1>2. CASE S # {}
    <2>0. Min(S) \in S
        BY <1>2, Least
    <2>a. \A x \in S : x \in Nat /\ x > 0
        OBVIOUS
    <2>1. Min(S) \in Nat /\ Min(S) > 0
        BY <2>0, <2>a
    <2>2. CASE hint \in S
        <3>1. ChoosePort(hint, S) = hint
            BY <2>2 DEF ChoosePort
        <3> QED BY <1>2, <2>2, <3>1
    <2>3. CASE hint \notin S
        <3>1. ChoosePort(hint, S) = Min(S)
            BY <1>2, <2>3 DEF ChoosePort
        <3> QED BY <1>2, <2>0, <2>1, <2>3, <3>1
    <2> QED BY <2>2, <2>3
<1> QED BY <1>1, <1>2

(* ParseListening yields ports, and none of the reserved ones.             *)
LEMMA ParsedPorts ==
    ASSUME NEW out \in SUBSET Sockets
    PROVE  /\ ParseListening(out) \in SUBSET (Nat \ {0})
           /\ ParseListening(out) \cap ReservedPorts = {}
BY PipelineAssumption DEF PipelineAssumption, ParseListening

(* The model's list in place of a command and the rest: what was before    *)
(* the command stays, and there is a next command.                         *)
LEMMA RepairedList ==
    ASSUME NEW S, NEW q \in Seq(S), NEW f \in Seq(S) \ {<<>>}, NEW n \in 1 .. Len(q) + 1
    PROVE  /\ SubSeq(q, 1, n - 1) \o f \in Seq(S)
           /\ Len(SubSeq(q, 1, n - 1) \o f) \in Nat
           /\ n <= Len(SubSeq(q, 1, n - 1) \o f)
           /\ \A k \in 1 .. n - 1 : (SubSeq(q, 1, n - 1) \o f)[k] = q[k]
<1> DEFINE p == SubSeq(q, 1, n - 1)
<1>1. Len(q) \in Nat /\ n \in Nat \ {0} /\ Len(f) \in Nat \ {0}
    BY LenProperties, EmptySeq
<1>2. \A k \in 1 .. n - 1 : q[k] \in S
    BY <1>1, ElementOfSeq
<1>3. /\ p \in Seq(S) /\ Len(p) = n - 1
      /\ \A k \in 1 .. n - 1 : p[k] = q[k]
    <2>1. 1 \in Int /\ n - 1 \in Int
        BY <1>1
    <2>2. /\ p \in Seq(S)
          /\ Len(p) = IF 1 <= n - 1 THEN (n - 1) - 1 + 1 ELSE 0
          /\ \A k \in 1 .. (n - 1) - 1 + 1 : p[k] = q[1 + k - 1]
        BY <1>2, <2>1, SubSeqProperties
    <2> QED BY <1>1, <2>2
<1>4. /\ p \o f \in Seq(S) /\ Len(p \o f) = Len(p) + Len(f)
      /\ \A k \in 1 .. Len(p) + Len(f) :
            (p \o f)[k] = IF k <= Len(p) THEN p[k] ELSE f[k - Len(p)]
    <2>1. f \in Seq(S)
        OBVIOUS
    <2> QED BY <1>3, <2>1, ConcatProperties
<1> QED BY <1>1, <1>3, <1>4

-------------------------------------------------------------------------------
(* The steps of a phase.                                                   *)

(* Where a step goes: on, to another place of the phase, or nowhere.       *)
LEMMA Moves ==
    ASSUME PipelineInv, Next
    PROVE  /\ <<phase, pc>>' \in Places
           /\ verdict = None
           /\ verdict' \in {None, "failed", "unsupported"}
<1> USE DEF PipelineInv, TypeOK, Places, At, Goto, NextPhase, Fail, After
<1>1. CASE Clone
    BY <1>1 DEF Clone
<1>2. CASE Detect
    BY <1>2 DEF Detect
<1>3. CASE InstallTools
    BY <1>3 DEF InstallTools, CheckTools
<1>4. CASE RunCommand
    BY <1>4 DEF RunCommand
<1>5. CASE Repair
    BY <1>5 DEF Repair
<1>6. CASE Installed
    BY <1>6 DEF Installed
<1>7. CASE NoStart
    BY <1>7 DEF NoStart, Return
<1>8. CASE StartTools
    BY <1>8 DEF StartTools, CheckTools
<1>9. CASE Launch
    BY <1>9 DEF Launch
<1>10. CASE Look
    BY <1>10 DEF Look, Return
<1> QED BY <1>1, <1>2, <1>3, <1>4, <1>5, <1>6, <1>7, <1>8, <1>9, <1>10 DEF Next

-------------------------------------------------------------------------------
(* Types.                                                                  *)

(* Initially every variable has its type.                                  *)
LEMMA InitType ==
    ASSUME Init
    PROVE  TypeOK
<1>1. NoRecipe \in Recipe
    BY PipelineAssumption, EmptySeq DEF NoRecipe, Recipe
<1>2. <<>> \in Seq(Commands) /\ Len(<<>>) = 0 /\ <<>> \in Seq(SUBSET Sockets)
    BY EmptySeq
<1>3. i \in 1 .. Len(cmds) + 1 /\ repairs \in 0 .. MaxRepairs
    BY <1>2, PipelineAssumption DEF Init, PipelineAssumption
<1>4. llm \in BOOLEAN /\ settle \in BOOLEAN /\ unsure \in BOOLEAN /\ cut \in BOOLEAN
    BY DEF Init
<1>5. /\ phase = "clone" /\ pc = "run" /\ verdict = None /\ kind = None /\ port = 0
      /\ rcp \in Recipe /\ recorded \in Recipe
      /\ cmds \in Seq(Commands) /\ ran \in Seq(Commands) /\ looks \in Seq(SUBSET Sockets)
    BY <1>1, <1>2 DEF Init
<1> QED BY <1>3, <1>4, <1>5 DEF TypeOK

(* A recipe stays one with another install list or another port.           *)
LEMMA RecipeFields ==
    ASSUME NEW r \in Recipe
    PROVE  /\ r.install \in Seq(Commands) /\ r.port \in Nat
           /\ \A q \in Seq(Commands) : [r EXCEPT !.install = q] \in Recipe
           /\ \A n \in Nat : [r EXCEPT !.port = n] \in Recipe
BY DEF Recipe

(* Every step keeps the types. Repair relies on RepairedList, a command    *)
(* that ran on the index being inside the list.                            *)
LEMMA StepType ==
    ASSUME PipelineInv, Next
    PROVE  TypeOK'
<1> USE DEF PipelineInv
<1>0. /\ phase' \in {"clone", "detect", "install", "start", "snapshot"}
      /\ pc' \in {"run", "next", "repair", "launch", "look"}
      /\ verdict' \in {None, "failed", "unsupported"}
    BY Moves DEF Places
<1>a. /\ Len(cmds) \in Nat /\ MaxRepairs \in Nat
      /\ i \in Nat /\ repairs \in Nat
    BY LenProperties, PipelineAssumption DEF TypeOK, PipelineAssumption
<1>1. CASE Clone
    BY <1>0, <1>1 DEF Clone, TypeOK, recipeVars, installVars, probeVars, checkVars
<1>2. CASE Detect
    <2>1. rcp' \in Recipe /\ recorded' \in Recipe
        BY <1>2, PipelineAssumption DEF Detect, TypeOK, PipelineAssumption
    <2> QED BY <1>0, <1>2, <2>1 DEF Detect, TypeOK, installVars, probeVars, checkVars
<1>3. CASE InstallTools
    <2>1. cmds' \in Seq(Commands) /\ i' = 1
        BY <1>3 DEF InstallTools, TypeOK, Recipe
    <2>2. i' \in 1 .. Len(cmds') + 1
        BY <2>1, LenProperties
    <2>3. unsure' \in BOOLEAN /\ cut' \in BOOLEAN
        BY <1>3 DEF InstallTools, CheckTools, TypeOK
    <2> QED BY <1>0, <1>3, <2>1, <2>2, <2>3 DEF InstallTools, TypeOK, recipeVars, probeVars
<1>4. CASE RunCommand
    <2>1. i \in 1 .. Len(cmds) /\ cmds[i] \in Commands
        BY <1>4, <1>a, ElementOfSeq DEF RunCommand, TypeOK
    <2>2. Append(ran, cmds[i]) \in Seq(Commands)
        BY <2>1, AppendProperties DEF TypeOK
    <2>3. ran' \in {ran, Append(ran, cmds[i])}
        BY <1>4 DEF RunCommand
    <2>4. ran' \in Seq(Commands)
        BY <2>2, <2>3 DEF TypeOK
    <2>5. i' \in 1 .. Len(cmds) + 1 /\ repairs' \in 0 .. MaxRepairs
        BY <1>4, <1>a, <2>1 DEF RunCommand, TypeOK
    <2> QED BY <1>0, <1>4, <2>4, <2>5 DEF RunCommand, TypeOK, recipeVars, probeVars, checkVars
<1>5. CASE Repair
    <2>1. CASE UNCHANGED <<cmds, rcp>>
        BY <1>0, <1>5, <2>1 DEF Repair, TypeOK, probeVars, checkVars
    <2>2. CASE /\ \E fixed \in Fixes : cmds' = SubSeq(cmds, 1, i - 1) \o fixed
               /\ rcp' = [rcp EXCEPT !.install = cmds']
        <3>1. PICK fixed \in Fixes : cmds' = SubSeq(cmds, 1, i - 1) \o fixed
            BY <2>2
        <3>2. fixed \in Seq(Commands) \ {<<>>}
            BY PipelineAssumption DEF PipelineAssumption
        <3>3. cmds' \in Seq(Commands) /\ Len(cmds') \in Nat /\ i <= Len(cmds')
            BY <3>1, <3>2, RepairedList DEF TypeOK
        <3>4. rcp' \in Recipe
            BY <2>2, <3>3, RecipeFields DEF TypeOK
        <3>5. i' = i /\ i' \in 1 .. Len(cmds') + 1
            BY <1>5, <1>a, <3>3 DEF Repair, TypeOK
        <3> QED BY <1>0, <1>5, <3>3, <3>4, <3>5 DEF Repair, TypeOK, probeVars, checkVars
    <2> QED BY <1>5, <2>1, <2>2 DEF Repair
<1>6. CASE Installed
    BY <1>0, <1>6 DEF Installed, TypeOK, recipeVars, installVars, probeVars, checkVars
<1>7. CASE NoStart
    <2>1. rcp' \in Recipe
        BY <1>7, RecipeFields DEF NoStart, Return, TypeOK
    <2>2. kind' = "terminal" /\ port' = 0
        BY <1>7 DEF NoStart, Return
    <2> QED BY <1>0, <1>7, <2>1, <2>2 DEF NoStart, TypeOK, installVars, checkVars
<1>8. CASE StartTools
    <2>1. unsure' \in BOOLEAN /\ cut' \in BOOLEAN
        BY <1>8 DEF StartTools, CheckTools, TypeOK
    <2> QED BY <1>0, <1>8, <2>1 DEF StartTools, TypeOK, recipeVars, installVars, probeVars
<1>9. CASE Launch
    BY <1>0, <1>9 DEF Launch, TypeOK, recipeVars, installVars, probeVars, checkVars
<1>10. CASE Look
    <2>1. CASE UNCHANGED <<rcp, probeVars>>
        BY <1>0, <1>10, <2>1 DEF Look, TypeOK, installVars, probeVars, checkVars
    <2>2. CASE \E out \in SUBSET Sockets :
                  LET p == ChoosePort(rcp.port, ParseListening(out))
                  IN  /\ looks' = Append(looks, out)
                      /\ \/ Return("web", p) /\ UNCHANGED settle
                         \/ /\ settle' = (settle \/ p > 0)
                            /\ Return("terminal", 0) \/ UNCHANGED <<kind, port, rcp>>
        <3>1. PICK out \in SUBSET Sockets :
                  LET p == ChoosePort(rcp.port, ParseListening(out))
                  IN  /\ looks' = Append(looks, out)
                      /\ \/ Return("web", p) /\ UNCHANGED settle
                         \/ /\ settle' = (settle \/ p > 0)
                            /\ Return("terminal", 0) \/ UNCHANGED <<kind, port, rcp>>
            BY <2>2
        <3> DEFINE p == ChoosePort(rcp.port, ParseListening(out))
        <3>2. p \in Nat
            BY ParsedPorts, ChosenPort, RecipeFields DEF TypeOK
        <3>3. looks' \in Seq(SUBSET Sockets)
            BY <3>1, AppendProperties DEF TypeOK
        <3>4. settle' \in BOOLEAN
            BY <3>1 DEF TypeOK
        <3>5. /\ kind' \in {None, "web", "terminal"} /\ port' \in Nat
              /\ rcp' \in Recipe
            <4>1. rcp \in Recipe /\ kind \in {None, "web", "terminal"} /\ port \in Nat
                BY DEF TypeOK
            <4>2. [rcp EXCEPT !.port = p] \in Recipe /\ [rcp EXCEPT !.port = 0] \in Recipe
                BY <4>1, <3>2, RecipeFields
            <4>3. \/ kind' = "web" /\ port' = p /\ rcp' = [rcp EXCEPT !.port = p]
                  \/ kind' = "terminal" /\ port' = 0 /\ rcp' = [rcp EXCEPT !.port = 0]
                  \/ UNCHANGED <<kind, port, rcp>>
                BY <3>1 DEF Return
            <4> QED BY <4>1, <4>2, <4>3, <3>2
        <3> QED BY <1>0, <1>10, <3>3, <3>4, <3>5 DEF Look, TypeOK, installVars, checkVars
    <2> QED BY <1>10, <2>1, <2>2 DEF Look
<1> QED BY <1>1, <1>2, <1>3, <1>4, <1>5, <1>6, <1>7, <1>8, <1>9, <1>10 DEF Next

-------------------------------------------------------------------------------
(* The inductive invariant.                                                *)

(* Every step keeps Progress. A repair replaces nothing that ran: what it  *)
(* keeps is the list before the index.                                     *)
LEMMA StepProgress ==
    ASSUME PipelineInv, Next
    PROVE  Progress'
<1> USE DEF PipelineInv, Places, At, Goto, NextPhase, Fail, After
<1>a. /\ Len(cmds) \in Nat /\ Len(ran) \in Nat /\ i \in Nat /\ i \in 1 .. Len(cmds) + 1
      /\ cmds \in Seq(Commands) /\ ran \in Seq(Commands)
    BY LenProperties DEF TypeOK
<1>1. CASE Clone
    BY <1>1 DEF Clone, Progress, installVars
<1>2. CASE Detect
    BY <1>2 DEF Detect, Progress, installVars
<1>3. CASE InstallTools
    <2>1. ran = <<>> /\ ran' = ran /\ i' = 1 /\ cmds' = rcp.install /\ rcp' = rcp
        BY <1>3 DEF InstallTools, Progress, recipeVars
    <2>2. Len(ran') = i' - 1 /\ \A k \in 1 .. Len(ran') : ran'[k] = cmds'[k]
        BY <2>1, EmptySeq
    <2>3. phase' = "install" /\ pc' \in {"run", "next"}
        BY <1>3 DEF InstallTools, CheckTools
    <2> QED BY <2>1, <2>2, <2>3 DEF Progress
<1>4. CASE RunCommand
    <2>1. /\ phase = "install" /\ pc = "next" /\ i <= Len(cmds)
          /\ cmds = rcp.install /\ Len(ran) = i - 1 /\ \A k \in 1 .. Len(ran) : ran[k] = cmds[k]
          /\ UNCHANGED <<cmds, rcp>> /\ phase' = "install"
        BY <1>4 DEF RunCommand, Progress, recipeVars
    <2>2. CASE i' = i + 1 /\ ran' = Append(ran, cmds[i]) /\ UNCHANGED pc
        <3>1. cmds[i] \in Commands
            BY <1>a, <2>1, ElementOfSeq
        <3>2. /\ Len(ran') = Len(ran) + 1 /\ ran'[Len(ran) + 1] = cmds[i]
              /\ \A k \in 1 .. Len(ran) : ran'[k] = ran[k]
            BY <1>a, <2>2, <3>1, AppendProperties
        <3>3. \A k \in 1 .. Len(ran') : ran'[k] = cmds[k]
            BY <1>a, <2>1, <3>2
        <3> QED BY <1>a, <2>1, <2>2, <3>2, <3>3 DEF Progress
    <2>3. CASE UNCHANGED <<i, ran>>
        <3>1. pc' \in {"next", "repair"}
            BY <1>4 DEF RunCommand
        <3> QED BY <2>1, <2>3, <3>1 DEF Progress
    <2> QED BY <1>4, <2>2, <2>3 DEF RunCommand
<1>5. CASE Repair
    <2>1. /\ phase = "install" /\ pc = "repair" /\ phase' = "install" /\ i <= Len(cmds)
          /\ cmds = rcp.install /\ Len(ran) = i - 1 /\ \A k \in 1 .. Len(ran) : ran[k] = cmds[k]
          /\ UNCHANGED <<i, ran>>
        BY <1>5 DEF Repair, Progress
    <2>2. CASE UNCHANGED <<cmds, rcp, pc>>
        BY <2>1, <2>2 DEF Progress
    <2>3. CASE /\ pc' = "next"
               /\ \E fixed \in Fixes : cmds' = SubSeq(cmds, 1, i - 1) \o fixed
               /\ rcp' = [rcp EXCEPT !.install = cmds']
        <3>1. PICK fixed \in Fixes : cmds' = SubSeq(cmds, 1, i - 1) \o fixed
            BY <2>3
        <3>2. fixed \in Seq(Commands) \ {<<>>}
            BY PipelineAssumption DEF PipelineAssumption
        <3>3. \A k \in 1 .. i - 1 : cmds'[k] = cmds[k]
            BY <1>a, <3>1, <3>2, RepairedList
        <3>4. rcp' = [rcp EXCEPT !.install = cmds'] /\ rcp \in Recipe
            BY <2>3 DEF TypeOK
        <3>5. rcp'.install = cmds'
            BY <3>4 DEF Recipe
        <3> QED BY <2>1, <2>3, <3>3, <3>5 DEF Progress
    <2> QED BY <1>5, <2>2, <2>3 DEF Repair
<1>6. CASE Installed
    <2>1. /\ phase = "install" /\ pc = "next" /\ i > Len(cmds) /\ phase' = "start" /\ pc' = "run"
          /\ UNCHANGED <<cmds, rcp, i, ran>>
        BY <1>6 DEF Installed, recipeVars, installVars
    <2> QED BY <1>a, <2>1 DEF Progress
<1>7. CASE NoStart
    <2>1. /\ phase = "start" /\ phase' = "snapshot" /\ pc' = "run"
          /\ UNCHANGED <<cmds, i, ran>> /\ rcp' = [rcp EXCEPT !.port = 0] /\ rcp \in Recipe
        BY <1>7 DEF NoStart, Return, installVars, TypeOK
    <2>2. rcp'.install = rcp.install
        BY <2>1 DEF Recipe
    <2> QED BY <2>1, <2>2 DEF Progress
<1>8. CASE StartTools
    <2>1. /\ phase = "start" /\ pc = "run" /\ phase' = "start" /\ pc' \in {"run", "launch"}
          /\ UNCHANGED <<cmds, rcp, i, ran>>
        BY <1>8 DEF StartTools, CheckTools, recipeVars, installVars
    <2> QED BY <2>1 DEF Progress
<1>9. CASE Launch
    <2>1. /\ phase = "start" /\ phase' = "start" /\ pc' \in {"launch", "look"}
          /\ UNCHANGED <<cmds, rcp, i, ran>>
        BY <1>9 DEF Launch, recipeVars, installVars
    <2> QED BY <2>1 DEF Progress
<1>10. CASE Look
    <2>1. /\ phase = "start" /\ phase' \in {"start", "snapshot"} /\ pc' \in {"run", "look"}
          /\ UNCHANGED <<cmds, i, ran>> /\ rcp \in Recipe
          /\ rcp' = rcp \/ \E n : rcp' = [rcp EXCEPT !.port = n]
        BY <1>10 DEF Look, Return, installVars, TypeOK
    <2>2. rcp'.install = rcp.install
        BY <2>1 DEF Recipe
    <2> QED BY <2>1, <2>2 DEF Progress
<1> QED BY <1>1, <1>2, <1>3, <1>4, <1>5, <1>6, <1>7, <1>8, <1>9, <1>10 DEF Next

(* What one more look adds to what the probe knows, and what it may return *)
(* for it.                                                                 *)
LEMMA OneLook ==
    ASSUME PipelineInv, phase = "start", pc = "look",
           NEW out \in SUBSET Sockets, looks' = Append(looks, out),
           NEW p, p = ChoosePort(rcp.port, ParseListening(out)), recorded' = recorded
    PROVE  /\ p > 0 /\ (p = rcp.port \/ settle) =>
                /\ p \in ParseListening(looks'[Len(looks')]) /\ p \notin ReservedPorts
                /\ p # recorded.port =>
                      /\ \A k \in DOMAIN looks' : recorded'.port \notin ParseListening(looks'[k])
                      /\ \E k \in 1 .. Len(looks') - 1 : ParseListening(looks'[k]) # {}
           /\ ~(p > 0 /\ (p = rcp.port \/ settle)) =>
                /\ \A k \in DOMAIN looks' : recorded'.port \notin ParseListening(looks'[k])
                /\ settle \/ p > 0 => \E k \in DOMAIN looks' : ParseListening(looks'[k]) # {}
                /\ ~(settle \/ p > 0) => \A k \in DOMAIN looks' : ParseListening(looks'[k]) = {}
                /\ \A k, l \in DOMAIN looks' : ParseListening(looks'[k]) # {} /\ ParseListening(looks'[l]) # {} => k = l
<1> DEFINE new == ParseListening(out)
           n == Len(looks)
<1>1. /\ n \in Nat /\ DOMAIN looks = 1 .. n
      /\ Len(looks') = n + 1 /\ DOMAIN looks' = 1 .. n + 1
      /\ looks'[n + 1] = out /\ \A k \in 1 .. n : looks'[k] = looks[k]
    BY LenProperties, AppendProperties DEF PipelineInv, TypeOK
<1>2. ParseListening(looks'[n + 1]) = new /\ \A k \in 1 .. n : ParseListening(looks'[k]) = ParseListening(looks[k])
    BY <1>1
<1>3. /\ rcp.port = recorded.port
      /\ \A k \in 1 .. n : recorded.port \notin ParseListening(looks[k])
      /\ settle => \E k \in 1 .. n : ParseListening(looks[k]) # {}
      /\ ~settle => \A k \in 1 .. n : ParseListening(looks[k]) = {}
      /\ \A k, l \in 1 .. n : ParseListening(looks[k]) # {} /\ ParseListening(looks[l]) # {} => k = l
    BY <1>1 DEF PipelineInv, Probing, Heard
<1>4. /\ rcp.port \in Nat /\ new \in SUBSET (Nat \ {0}) /\ new \cap ReservedPorts = {}
    BY ParsedPorts, RecipeFields DEF PipelineInv, TypeOK
<1>5. /\ p \in Nat
      /\ p > 0 => p \in new
      /\ ~(p > 0) => new = {}
      /\ rcp.port \in new => p = rcp.port
    BY <1>4, ChosenPort
<1>6. \A k \in 1 .. n + 1 : k \in 1 .. n \/ k = n + 1
    BY <1>1
<1>7. ASSUME p > 0, p = rcp.port \/ settle
      PROVE  /\ p \in ParseListening(looks'[Len(looks')]) /\ p \notin ReservedPorts
             /\ p # recorded.port =>
                   /\ \A k \in DOMAIN looks' : recorded'.port \notin ParseListening(looks'[k])
                   /\ \E k \in 1 .. Len(looks') - 1 : ParseListening(looks'[k]) # {}
    <2>1. p \in new
        BY <1>5, <1>7
    <2>2. ParseListening(looks'[Len(looks')]) = new
        BY <1>1, <1>2
    <2>3. ASSUME p # recorded.port
          PROVE  /\ \A k \in DOMAIN looks' : recorded'.port \notin ParseListening(looks'[k])
                 /\ \E k \in 1 .. Len(looks') - 1 : ParseListening(looks'[k]) # {}
        <3>1. recorded.port \notin new /\ settle
            BY <1>3, <1>5, <1>7, <2>3
        <3>2. \A k \in 1 .. n + 1 : recorded.port \notin ParseListening(looks'[k])
            BY <1>2, <1>3, <1>6, <3>1
        <3>3. \E k \in 1 .. n : ParseListening(looks'[k]) # {}
            BY <1>2, <1>3, <3>1
        <3>4. Len(looks') - 1 = n
            BY <1>1
        <3> QED BY <1>1, <3>2, <3>3, <3>4
    <2> QED BY <1>4, <2>1, <2>2, <2>3
<1>8. ASSUME ~(p > 0 /\ (p = rcp.port \/ settle))
      PROVE  /\ \A k \in DOMAIN looks' : recorded'.port \notin ParseListening(looks'[k])
             /\ settle \/ p > 0 => \E k \in DOMAIN looks' : ParseListening(looks'[k]) # {}
             /\ ~(settle \/ p > 0) => \A k \in DOMAIN looks' : ParseListening(looks'[k]) = {}
             /\ \A k, l \in DOMAIN looks' : ParseListening(looks'[k]) # {} /\ ParseListening(looks'[l]) # {} => k = l
    <2>1. recorded.port \notin new
        <3>1. ASSUME rcp.port \in new PROVE FALSE
            <4>1. p = rcp.port /\ p \in new /\ p > 0
                BY <1>4, <1>5, <3>1
            <4> QED BY <4>1, <1>8
        <3> QED BY <3>1, <1>3
    <2>2. \A k \in 1 .. n + 1 : recorded.port \notin ParseListening(looks'[k])
        BY <1>2, <1>3, <1>6, <2>1
    <2>3. CASE p > 0
        <3>1. ~settle /\ new # {}
            BY <1>5, <1>8, <2>3
        <3>2. \A k \in 1 .. n : ParseListening(looks'[k]) = {}
            BY <1>2, <1>3, <3>1
        <3>3. ParseListening(looks'[n + 1]) # {} /\ n + 1 \in 1 .. n + 1
            BY <1>1, <1>2, <3>1
        <3>4. \A k, l \in 1 .. n + 1 : ParseListening(looks'[k]) # {} /\ ParseListening(looks'[l]) # {} => k = l
            BY <1>6, <3>2
        <3> QED BY <1>1, <2>2, <2>3, <3>3, <3>4
    <2>4. CASE ~(p > 0)
        <3>1. ParseListening(looks'[n + 1]) = {}
            BY <1>2, <1>5, <2>4
        <3>2. settle => \E k \in 1 .. n + 1 : ParseListening(looks'[k]) # {}
            BY <1>1, <1>2, <1>3
        <3>3. ~settle => \A k \in 1 .. n + 1 : ParseListening(looks'[k]) = {}
            BY <1>2, <1>3, <1>6, <3>1
        <3>4. \A k, l \in 1 .. n + 1 : ParseListening(looks'[k]) # {} /\ ParseListening(looks'[l]) # {} => k = l
            BY <1>2, <1>3, <1>6, <3>1
        <3> QED BY <1>1, <2>2, <2>4, <3>2, <3>3, <3>4
    <2> QED BY <2>3, <2>4
<1> QED BY <1>7, <1>8

(* Every step keeps what the probe knows, and what it returns is justified *)
(* by it.                                                                  *)
LEMMA StepProbing ==
    ASSUME PipelineInv, TypeOK', Next
    PROVE  Probing' /\ WebIsServing' /\ TerminalIsQuiet'
<1> USE DEF PipelineInv, Places, At, Goto, NextPhase, Fail, After
<1>1. ASSUME UNCHANGED <<settle, looks>>, rcp'.port = recorded'.port,
             looks = <<>> \/ recorded' = recorded, phase # "snapshot", phase' # "snapshot",
             looks = <<>> \/ (phase' = "start" /\ pc' # "run")
      PROVE  Probing' /\ WebIsServing' /\ TerminalIsQuiet'
    <2>2. /\ settle => \E k \in DOMAIN looks : ParseListening(looks[k]) # {}
          /\ ~settle => \A k \in DOMAIN looks : ParseListening(looks[k]) = {}
          /\ \A k, l \in DOMAIN looks : ParseListening(looks[k]) # {} /\ ParseListening(looks[l]) # {} => k = l
          /\ \A k \in DOMAIN looks : recorded.port \notin ParseListening(looks[k])
        BY <1>1 DEF Probing, Heard
    <2>3. looks = <<>> => DOMAIN looks = {}
        BY EmptySeq
    <2>4. DOMAIN looks' = DOMAIN looks /\ settle' = settle
        BY <1>1
    <2>5. /\ \A k \in DOMAIN looks' : recorded'.port \notin ParseListening(looks'[k])
          /\ settle' => \E k \in DOMAIN looks' : ParseListening(looks'[k]) # {}
          /\ ~settle' => \A k \in DOMAIN looks' : ParseListening(looks'[k]) = {}
          /\ \A k, l \in DOMAIN looks' : ParseListening(looks'[k]) # {} /\ ParseListening(looks'[l]) # {} => k = l
        <3>1. CASE looks = <<>>
            BY <2>2, <2>3, <2>4, <3>1
        <3>2. CASE recorded' = recorded
            BY <1>1, <2>2, <2>4, <3>2
        <3> QED BY <1>1, <3>1, <3>2
    <2>6. Probing'
        BY <1>1, <2>5 DEF Probing, Heard
    <2> QED BY <1>1, <2>6 DEF WebIsServing, TerminalIsQuiet, Built
<1>2. /\ phase # "snapshot" => rcp.port = recorded.port
      /\ phase \in {"clone", "detect", "install"} \/ <<phase, pc>> = <<"start", "run">> => looks = <<>>
      /\ rcp \in Recipe
    BY DEF Probing, TypeOK
<1>3. CASE Clone
    BY <1>1, <1>2, <1>3 DEF Clone, recipeVars, probeVars
<1>4. CASE Detect
    BY <1>1, <1>2, <1>4 DEF Detect, probeVars
<1>5. CASE InstallTools
    BY <1>1, <1>2, <1>5 DEF InstallTools, CheckTools, recipeVars, probeVars
<1>6. CASE RunCommand
    BY <1>1, <1>2, <1>6 DEF RunCommand, recipeVars, probeVars
<1>7. CASE Repair
    <2>1. rcp'.port = rcp.port
        BY <1>2, <1>7 DEF Repair, Recipe
    <2> QED BY <1>1, <1>2, <1>7, <2>1 DEF Repair, probeVars
<1>8. CASE Installed
    BY <1>1, <1>2, <1>8 DEF Installed, recipeVars, probeVars
<1>9. CASE NoStart
    <2>1. rcp'.start = None
        BY <1>2, <1>9 DEF NoStart, Return, Recipe
    <2>2. phase' = "snapshot" /\ pc' = "run" /\ kind' = "terminal"
        BY <1>9 DEF NoStart, Return
    <2> QED BY <2>1, <2>2 DEF Probing, WebIsServing, TerminalIsQuiet
<1>10. CASE StartTools
    BY <1>1, <1>2, <1>10 DEF StartTools, CheckTools, recipeVars, probeVars
<1>11. CASE Launch
    BY <1>1, <1>2, <1>11 DEF Launch, recipeVars, probeVars
<1>12. CASE Look
    <2>1. phase = "start" /\ pc = "look" /\ recorded' = recorded
        BY <1>12 DEF Look
    <2>2. CASE Fail("failed") /\ UNCHANGED <<rcp, probeVars>>
        BY <1>1, <1>2, <2>1, <2>2 DEF probeVars
    <2>3. CASE \E out \in SUBSET Sockets :
                  LET p == ChoosePort(rcp.port, ParseListening(out))
                  IN  /\ looks' = Append(looks, out)
                      /\ IF p > 0 /\ (p = rcp.port \/ settle)
                         THEN Return("web", p) /\ UNCHANGED settle
                         ELSE /\ settle' = (settle \/ p > 0)
                              /\ \/ Return("terminal", 0)
                                 \/ Goto("look") /\ UNCHANGED <<kind, port, rcp>>
        <3>1. PICK out \in SUBSET Sockets :
                  LET p == ChoosePort(rcp.port, ParseListening(out))
                  IN  /\ looks' = Append(looks, out)
                      /\ IF p > 0 /\ (p = rcp.port \/ settle)
                         THEN Return("web", p) /\ UNCHANGED settle
                         ELSE /\ settle' = (settle \/ p > 0)
                              /\ \/ Return("terminal", 0)
                                 \/ Goto("look") /\ UNCHANGED <<kind, port, rcp>>
            BY <2>3
        <3> DEFINE p == ChoosePort(rcp.port, ParseListening(out))
        <3>2. /\ p > 0 /\ (p = rcp.port \/ settle) =>
                    /\ p \in ParseListening(looks'[Len(looks')]) /\ p \notin ReservedPorts
                    /\ p # recorded.port =>
                          /\ \A k \in DOMAIN looks' : recorded'.port \notin ParseListening(looks'[k])
                          /\ \E k \in 1 .. Len(looks') - 1 : ParseListening(looks'[k]) # {}
              /\ ~(p > 0 /\ (p = rcp.port \/ settle)) =>
                    /\ \A k \in DOMAIN looks' : recorded'.port \notin ParseListening(looks'[k])
                    /\ settle \/ p > 0 => \E k \in DOMAIN looks' : ParseListening(looks'[k]) # {}
                    /\ ~(settle \/ p > 0) => \A k \in DOMAIN looks' : ParseListening(looks'[k]) = {}
                    /\ \A k, l \in DOMAIN looks' : ParseListening(looks'[k]) # {} /\ ParseListening(looks'[l]) # {} => k = l
            BY <2>1, <3>1, OneLook
        <3>3. CASE p > 0 /\ (p = rcp.port \/ settle)
            <4>1. phase' = "snapshot" /\ pc' = "run" /\ kind' = "web" /\ port' = p
                BY <2>1, <3>1, <3>3 DEF Return
            <4>2. WebIsServing'
                BY <2>1, <3>2, <3>3, <4>1 DEF WebIsServing, Built, Heard
            <4> QED BY <4>1, <4>2 DEF Probing, TerminalIsQuiet
        <3>4. CASE ~(p > 0 /\ (p = rcp.port \/ settle))
            <4> DEFINE hintless == \A k \in DOMAIN looks' : recorded'.port \notin ParseListening(looks'[k])
                       once == \A k, l \in DOMAIN looks' : ParseListening(looks'[k]) # {} /\ ParseListening(looks'[l]) # {} => k = l
            <4>1. hintless /\ once
                BY <3>2, <3>4
            <4>2. /\ settle' = (settle \/ p > 0)
                  /\ Return("terminal", 0) \/ (Goto("look") /\ UNCHANGED <<kind, port, rcp>>)
                BY <3>1, <3>4
            <4>3. CASE Return("terminal", 0)
                <5>1. phase' = "snapshot" /\ pc' = "run" /\ kind' = "terminal"
                    BY <2>1, <4>3 DEF Return
                <5>2. TerminalIsQuiet'
                    BY <4>1, <5>1 DEF TerminalIsQuiet, Built, Heard
                <5> QED BY <5>1, <5>2 DEF Probing, WebIsServing
            <4>4. CASE Goto("look") /\ UNCHANGED <<kind, port, rcp>>
                <5>1. phase' = "start" /\ pc' = "look" /\ rcp'.port = recorded'.port
                    BY <1>2, <2>1, <4>4
                <5>2. /\ settle' => \E k \in DOMAIN looks' : ParseListening(looks'[k]) # {}
                      /\ ~settle' => \A k \in DOMAIN looks' : ParseListening(looks'[k]) = {}
                    BY <3>2, <3>4, <4>2
                <5>3. Probing'
                    BY <4>1, <5>1, <5>2 DEF Probing, Heard
                <5> QED BY <5>1, <5>3 DEF WebIsServing, TerminalIsQuiet, Built
            <4> QED BY <4>2, <4>3, <4>4
        <3> QED BY <3>3, <3>4
    <2> QED BY <1>12, <2>2, <2>3 DEF Look
<1> QED BY <1>3, <1>4, <1>5, <1>6, <1>7, <1>8, <1>9, <1>10, <1>11, <1>12 DEF Next

(* The invariant holds initially.                                          *)
LEMMA InitInv ==
    ASSUME Init
    PROVE  PipelineInv
<1>1. TypeOK
    BY InitType
<1>2. phase = "clone" /\ pc = "run" /\ verdict = None /\ ran = <<>> /\ i = 1
    BY DEF Init
<1>3. rcp.port = recorded.port /\ looks = <<>> /\ DOMAIN looks = {} /\ ~settle
    BY EmptySeq DEF Init
<1>4. Probing
    BY <1>3 DEF Probing
<1> QED BY <1>1, <1>2, <1>4 DEF PipelineInv, Places, Progress, WebIsServing, TerminalIsQuiet, Built

(* Every step keeps it.                                                    *)
LEMMA StepInv ==
    ASSUME PipelineInv, [Next]_vars
    PROVE  PipelineInv'
<1>1. CASE Next
    BY <1>1, Moves, StepType, StepProgress, StepProbing DEF PipelineInv
<1>2. CASE UNCHANGED vars
    BY ZenonT(30), <1>2 DEF vars, PipelineInv, TypeOK, Progress, Probing, WebIsServing, TerminalIsQuiet,
                Built, Heard
<1> QED BY <1>1, <1>2

(* The index of install is one past what ran, what ran is the beginning of *)
(* the recipe, and the probe knows at most one look that heard anything    *)
(* (builder.go:407-494).                                                   *)
THEOREM PipelineInvariant == Spec => []PipelineInv
<1>1. Init => PipelineInv
    BY InitInv
<1>2. PipelineInv /\ [Next]_vars => PipelineInv'
    BY StepInv
<1> QED BY <1>1, <1>2, PTL DEF Spec

-------------------------------------------------------------------------------
(* What a build may rely on.                                               *)

(* Every variable has its type in every reachable state; install asks for  *)
(* no more than MaxRepairs repairs (builder.go:411-437).                   *)
THEOREM TypeCorrect == Spec => []TypeOK
<1>1. PipelineInv => TypeOK
    BY DEF PipelineInv
<1> QED BY <1>1, PipelineInvariant, PTL

(* The published recipe is what was run: all of it when the build is       *)
(* there, its beginning before (builder.go:441 puts the repaired list into *)
(* the recipe, 330-335 return it).                                         *)
THEOREM RecipeRecordsWhatRan == Spec => []RecipeIsWhatRan
<1>1. ASSUME PipelineInv
      PROVE  RecipeIsWhatRan
    <2>1. /\ cmds \in Seq(Commands) /\ ran \in Seq(Commands) /\ rcp \in Recipe
          /\ i \in 1 .. Len(cmds) + 1
        BY <1>1 DEF PipelineInv, TypeOK
    <2>2. /\ rcp.install \in Seq(Commands)
          /\ Len(cmds) \in Nat /\ Len(ran) \in Nat /\ Len(rcp.install) \in Nat
        BY <2>1, RecipeFields, LenProperties
    <2>3. Built => ran = rcp.install
        <3>1. SUFFICES ASSUME Built
                       PROVE  ran = rcp.install
            OBVIOUS
        <3>2. /\ cmds = rcp.install /\ Len(ran) = i - 1 /\ i = Len(cmds) + 1
              /\ \A k \in 1 .. Len(ran) : ran[k] = cmds[k]
            BY <1>1, <3>1 DEF PipelineInv, Progress, Built
        <3>3. Len(ran) = Len(cmds)
            BY <2>2, <3>2
        <3> QED BY <2>1, <3>2, <3>3, SeqEqual
    <2>4. phase = "install" => IsPrefix(ran, rcp.install)
        <3>1. SUFFICES ASSUME phase = "install"
                       PROVE  IsPrefix(ran, rcp.install)
            OBVIOUS
        <3>2. CASE ran = <<>>
            <4>1. Len(<<>>) = 0
                OBVIOUS
            <4>2. SubSeq(<<>>, 1, 0) = <<>>
                OBVIOUS
            <4> QED BY <2>2, <3>2, <4>1, <4>2 DEF IsPrefix
        <3>3. CASE ran # <<>>
            <4>1. /\ cmds = rcp.install /\ Len(ran) = i - 1
                  /\ \A k \in 1 .. Len(ran) : ran[k] = cmds[k]
                BY <1>1, <3>1, <3>3 DEF PipelineInv, Progress
            <4>2. Len(ran) <= Len(cmds)
                BY <2>1, <2>2, <4>1
            <4> QED BY <2>1, <2>2, <4>1, <4>2 DEF IsPrefix
        <3> QED BY <3>2, <3>3
    <2> QED BY <2>3, <2>4 DEF RecipeIsWhatRan
<1> QED BY <1>1, PipelineInvariant, PTL

(* The port of a web preview listened at the last look and is never one of *)
(* the reserved ports (builder.go:467-490, probe.go:44-78).                *)
THEOREM PreviewIsServing == Spec => []WebIsServing
<1>1. PipelineInv => WebIsServing
    BY DEF PipelineInv
<1> QED BY <1>1, PipelineInvariant, PTL

(* A terminal for a repo that has a start command means that the hint was  *)
(* never heard, and anything else once at most (builder.go:474-490).       *)
THEOREM TerminalStaysQuiet == Spec => []TerminalIsQuiet
<1>1. PipelineInv => TerminalIsQuiet
    BY DEF PipelineInv
<1> QED BY <1>1, PipelineInvariant, PTL

(* A step stays in its phase, moves to the next, or fails once with a      *)
(* verdict of its phase: what Builder has as the execution's steps.        *)
THEOREM PhasesInOrder == Spec => ImplementsPhases
<1> DEFINE Move == \/ UNCHANGED <<phase, verdict>>
                   \/ verdict = None /\ phase' = After[phase] /\ UNCHANGED verdict
                   \/ verdict = None /\ verdict' \in Verdicts[phase] /\ UNCHANGED phase
<1>1. ASSUME PipelineInv, [Next]_vars
      PROVE  Move
    <2> USE DEF At, Goto, NextPhase, Fail, Verdicts
    <2>1. CASE UNCHANGED vars
        BY <2>1 DEF vars
    <2>2. CASE Clone
        BY <2>2 DEF Clone
    <2>3. CASE Detect
        BY <2>3 DEF Detect
    <2>4. CASE InstallTools
        BY <2>4 DEF InstallTools, CheckTools
    <2>5. CASE RunCommand
        BY <2>5 DEF RunCommand
    <2>6. CASE Repair
        BY <2>6 DEF Repair
    <2>7. CASE Installed
        BY <2>7 DEF Installed
    <2>8. CASE NoStart
        BY <2>8 DEF NoStart, Return
    <2>9. CASE StartTools
        BY <2>9 DEF StartTools, CheckTools
    <2>10. CASE Launch
        BY <2>10 DEF Launch
    <2>11. CASE Look
        BY <2>11 DEF Look, Return
    <2> QED BY <1>1, <2>1, <2>2, <2>3, <2>4, <2>5, <2>6, <2>7, <2>8, <2>9, <2>10, <2>11 DEF Next
<1>2. PipelineInv /\ [Next]_vars => [Move]_vars
    BY <1>1
<1> QED BY <1>2, PipelineInvariant, PTL DEF Spec, ImplementsPhases
-------------------------------------------------------------------------------
(* What the check for tools guarantees.                                    *)

(* Once the tools are checked and until a repair, the programs of install  *)
(* are there, or a check got no answer.                                    *)
ToolsChecked ==
    phase = "install" /\ pc \in {"next", "repair"} /\ repairs = 0 =>
        pc = "next" /\ (unsure \/ \A k \in DOMAIN cmds : Program[cmds[k]] \in path)

(* What a build that was turned away for its tools lacks, when every check *)
(* ran to its end.                                                         *)
ToolMissing ==
    verdict = "unsupported" /\ phase \in {"install", "start"} /\ ~cut =>
        \E c \in (Range(rcp.install) \cup {rcp.start}) \ {None} : Program[c] \notin path

(* Every step keeps what the check found, and a build is turned away only  *)
(* by a check.                                                             *)
LEMMA StepTools ==
    ASSUME PipelineInv, ToolsChecked, ToolMissing, [Next]_vars
    PROVE  ToolsChecked' /\ ToolMissing'
<1> USE PipelineAssumption DEF At, Goto, NextPhase, Fail, After
<1>1. /\ cmds \in Seq(Commands) /\ i \in 1 .. Len(cmds) + 1 /\ repairs \in Nat
      /\ rcp.install \in Seq(Commands) /\ rcp.start \in Commands \cup {None}
    BY RecipeFields DEF PipelineInv, TypeOK, Recipe
<1>2. ASSUME verdict = None, verdict' \in {None, "failed"} PROVE ToolMissing'
    BY <1>2 DEF ToolMissing
<1>3. ASSUME phase' # "install" \/ pc' \notin {"next", "repair"} PROVE ToolsChecked'
    BY <1>3 DEF ToolsChecked
<1>4. CASE UNCHANGED vars
    BY <1>4 DEF vars, ToolsChecked, ToolMissing
<1>5. CASE Clone \/ Launch
    <2>1. phase' # "install" \/ pc' \notin {"next", "repair"}
        BY <1>5 DEF Clone, Launch, PipelineInv, Places
    <2> QED BY <1>2, <1>3, <1>5, <2>1 DEF Clone, Launch
<1>6. CASE Detect
    <2>1. pc' = "run" /\ phase' \notin {"start"} /\ (phase' = "install" => verdict' = None)
        BY <1>6 DEF Detect
    <2> QED BY <1>3, <2>1 DEF ToolMissing
<1>7. CASE InstallTools
    <2>1. PICK lost \in SUBSET DOMAIN rcp.install, short \in SUBSET DOMAIN rcp.install :
              /\ lost \cap short = {}
              /\ IF Missing(rcp.install, lost, short) # {} THEN Fail("unsupported") ELSE Goto("next")
              /\ unsure' = (unsure \/ lost # {})
              /\ cut' = (cut \/ short # {})
        BY <1>7 DEF InstallTools, CheckTools
    <2>2. phase = "install" /\ pc = "run" /\ verdict = None /\ cmds' = rcp.install
          /\ UNCHANGED <<rcp, path, repairs>>
        BY <1>7 DEF InstallTools, recipeVars
    <2>3. CASE Missing(rcp.install, lost, short) # {}
        <3>0. CASE cut'
            BY <1>3, <2>1, <2>2, <2>3, <3>0 DEF ToolMissing
        <3>. SUFFICES ASSUME ~cut'
                      PROVE  ToolsChecked' /\ ToolMissing'
            BY <3>0
        <3>1. PICK k \in DOMAIN rcp.install : Program[rcp.install[k]] \notin path
            <4>1. short = {}
                BY <2>1
            <4> QED BY <2>3, <4>1 DEF Missing
        <3>2. rcp.install[k] \in Commands
            BY <1>1, <3>1, ElementOfSeq, LenProperties
        <3>3. rcp.install[k] \in Range(rcp.install) \ {None}
            BY <3>1, <3>2 DEF Range
        <3>4. phase' = phase /\ pc' = pc /\ verdict' = "unsupported"
            BY <2>1, <2>3
        <3> QED BY <1>3, <2>2, <3>1, <3>3, <3>4 DEF ToolMissing
    <2>4. CASE Missing(rcp.install, lost, short) = {}
        <3>1. \A k \in DOMAIN rcp.install \ lost : Program[rcp.install[k]] \in path
            BY <2>4 DEF Missing
        <3>2. phase' = "install" /\ pc' = "next" /\ verdict' = None
            BY <2>1, <2>2, <2>4
        <3>3. ToolsChecked'
            BY <2>1, <2>2, <3>1, <3>2 DEF ToolsChecked
        <3> QED BY <1>2, <2>2, <3>2, <3>3
    <2> QED BY <2>3, <2>4
<1>8. CASE RunCommand
    <2>1. phase = "install" /\ pc = "next" /\ verdict = None /\ UNCHANGED <<phase, cmds, unsure, cut>>
        BY <1>8 DEF RunCommand, checkVars
    <2>2. path \subseteq path' /\ repairs' \in {repairs, repairs + 1}
          /\ (pc' = "repair" => repairs' = repairs + 1)
          /\ verdict' \in {None, "failed"} /\ pc' \in {"next", "repair"}
        BY <1>1, <1>8, <2>1 DEF RunCommand
    <2>3. ToolsChecked'
        BY <1>1, <2>1, <2>2 DEF ToolsChecked
    <2> QED BY <1>2, <2>1, <2>2, <2>3
<1>9. CASE Repair
    <2>1. phase = "install" /\ pc = "repair" /\ UNCHANGED repairs
          /\ verdict = None /\ verdict' \in {None, "failed"}
        BY <1>9 DEF Repair
    <2> QED BY <1>2, <2>1 DEF ToolsChecked
<1>10. CASE Installed \/ NoStart \/ Look
    <2>1. /\ phase \in {"install", "start"} /\ verdict = None /\ verdict' \in {None, "failed"}
          /\ phase' # "install"
        BY <1>10 DEF Installed, NoStart, Look, Return
    <2> QED BY <1>2, <1>3, <2>1
<1>11. CASE StartTools
    <2>1. PICK lost \in SUBSET DOMAIN <<rcp.start>>, short \in SUBSET DOMAIN <<rcp.start>> :
              /\ cut' = (cut \/ short # {})
              /\ IF Missing(<<rcp.start>>, lost, short) # {} THEN Fail("unsupported") ELSE Goto("launch")
        BY <1>11 DEF StartTools, CheckTools
    <2>2. phase = "start" /\ phase' = "start" /\ rcp.start # None /\ verdict = None /\ UNCHANGED <<rcp, path>>
        BY <1>11, <2>1 DEF StartTools, recipeVars, installVars
    <2>3. Missing(<<rcp.start>>, lost, short) # {} /\ short = {} => Program[rcp.start] \notin path
        BY DEF Missing
    <2>5. short # {} => cut'
        BY <2>1
    <2>4. verdict' \in {None, "unsupported"} /\ (verdict' = "unsupported" => Missing(<<rcp.start>>, lost, short) # {})
        BY <2>1, <2>2
    <2> QED BY <1>3, <2>2, <2>3, <2>4, <2>5 DEF ToolMissing
<1> QED BY <1>4, <1>5, <1>6, <1>7, <1>8, <1>9, <1>10, <1>11 DEF Next

(* A build is called unsupported only when a program of its recipe is not  *)
(* there or a check was cut short, and no command starts without its       *)
(* program unless the call of a check failed or the model changed the list *)
(* (builder.go:370-405, http.go:252-272, README.md:38).                    *)
THEOREM OnlyMissingToolsTurnAway == Spec => []MissingToolsAreReported
<1>1. Init => ToolsChecked /\ ToolMissing
    BY DEF Init, ToolsChecked, ToolMissing
<1>2. ToolsChecked /\ ToolMissing /\ PipelineInv => MissingToolsAreReported
    <2> SUFFICES ASSUME ToolsChecked, ToolMissing, PipelineInv
                 PROVE  MissingToolsAreReported
        OBVIOUS
    <2>1. /\ cmds \in Seq(Commands) /\ i \in 1 .. Len(cmds) + 1 /\ repairs \in 0 .. MaxRepairs
          /\ DOMAIN cmds = 1 .. Len(cmds)
        BY LenProperties DEF PipelineInv, TypeOK
    <2>2. i <= Len(cmds) => i \in DOMAIN cmds
        BY <2>1
    <2>3. repairs = 0 \/ repairs > 0
        BY <2>1, PipelineAssumption
    <2> QED BY <2>2, <2>3 DEF ToolsChecked, ToolMissing, MissingToolsAreReported
<1>3. PipelineInv /\ ToolsChecked /\ ToolMissing /\ [Next]_vars => (ToolsChecked /\ ToolMissing)'
    BY StepTools
<1> QED BY <1>1, <1>2, <1>3, PipelineInvariant, PTL DEF Spec
================================================================================
