-------------------------------- MODULE Recipes --------------------------------
(***************************************************************************)
(* internal/recipe: from what the inspector reports about a repository to  *)
(* the commands a build runs. A detector or else the model names a recipe  *)
(* (builder.execute, 286-301), and the model may replace its install       *)
(* commands (builder.install, 413-444). Pipeline.tla runs them.            *)
(*                                                                         *)
(* A command is its sequence of words. A file of the repository is what    *)
(* the detectors tell apart in it; Python files go by their module's name. *)
(***************************************************************************)
EXTENDS Integers, Sequences, FiniteSets, SequencesExt, FiniteSetsExt

CONSTANTS
    Repos,          \* repositories
    Replies,        \* what the model may answer to Infer, None for no recipe
    Fixes,          \* what the model may answer to Repair
    Assignments,    \* words with a = that do not begin with a dash
    ForbiddenWords, \* words that contain one of forbiddenTokens
    MalformedKeys,  \* keys of env that Validate refuses
    MaxInstall,     \* 8 in Validate and in Repair
    MaxRepairs,     \* 2 in install
    Malformed,      \* a trylive.yaml that is none
    None            \* a file that is absent or blank; no recipe

IsList(s) == s \in Seq(ToSet(s))

IsRecipe(r) ==
    /\ r = [kind |-> r.kind, inside |-> r.inside, install |-> r.install, start |-> r.start,
            port |-> r.port, env |-> r.env]
    /\ IsList(r.install)

ASSUME RecipesAssumption ==
    /\ MaxInstall \in Nat \ {0} /\ MaxRepairs \in Nat /\ "" \notin Assignments
    /\ \A m \in Repos : m.yaml \in {None, Malformed} \/ IsRecipe(m.yaml)
    /\ \A r \in Replies \ {None} : IsRecipe(r)
    /\ \A fix \in Fixes : IsList(fix)

VARIABLES
    repo,       \* the clone
    llm,        \* b.LLM is there
    stage,      \* detect, infer, install, or the build's verdict
    detector,   \* rcp.Detector
    rcp,        \* execute's recipe
    i,          \* install's index into rcp.install
    repairs     \* install's counter

vars == <<repo, llm, stage, detector, rcp, i, repairs>>

-------------------------------------------------------------------------------
(* Commands.                                                               *)

allowedPrograms ==
    {"npm", "npx", "pnpm", "yarn", "bun", "bunx", "node", "deno",
     "pip", "pip3", "python", "python3", "poetry", "uv", "pipenv",
     "streamlit", "uvicorn", "gunicorn", "flask", "gradio",
     "go", "cargo", "make", "bundle", "ruby", "rails",
     "hugo", "jekyll", "mkdocs", "php", "composer", "dotnet", "corepack", "env", "true"}

(* The first word that is no assignment; "" if there is none.              *)
Program(c) ==
    LET words == {k \in DOMAIN c : c[k] \notin Assignments}
    IN  IF words = {} THEN "" ELSE c[Min(words)]

validateCommand(c) ==
    /\ c # <<>>
    /\ ToSet(c) \cap ForbiddenWords = {}
    /\ Program(c) \in allowedPrograms

Ports == 1 .. 65535

Validate(r) ==
    /\ r.kind \in {"web", "terminal"}
    /\ r.inside
    /\ Len(r.install) <= MaxInstall
    /\ \A c \in ToSet(r.install) : validateCommand(c)
    /\ r.kind = "web" => r.start # <<>> /\ r.port \in Ports
    /\ r.start # <<>> => validateCommand(r.start)
    /\ DOMAIN r.env \cap MalformedKeys = {}

(* inside: cwd is relative and has no "..".                                *)
Shell(install, env) ==
    [kind |-> "terminal", inside |-> TRUE, install |-> install, start |-> <<>>,
     port |-> 0, env |-> env]

Web(install, start, port, env) ==
    [kind |-> "web", inside |-> TRUE, install |-> install, start |-> start,
     port |-> port, env |-> env]

NoRecipe == Shell(<<>>, <<>>)

(* The ports that detectors name, in digits.                               *)
PortText(p) ==
    CASE p = 3000 -> "3000" [] p = 4200 -> "4200" [] p = 4321 -> "4321" [] p = 5000 -> "5000"
      [] p = 5173 -> "5173" [] p = 7860 -> "7860" [] p = 8000 -> "8000" [] p = 8080 -> "8080"
      [] p = 8501 -> "8501"

(* The first of the candidates that passes, or other.                      *)
First(candidates, Passes(_), other) ==
    LET k == SelectInSeq(candidates, Passes) IN IF k = 0 THEN other ELSE candidates[k]

-------------------------------------------------------------------------------
(* The detectors; None for no match.                                       *)

(* A file that is blank or that yaml does not parse is no match.           *)
detectTryliveYAML(m) ==
    IF m.yaml \in {None, Malformed} THEN None
    ELSE LET kind == IF m.yaml.kind # "" THEN m.yaml.kind
                     ELSE IF m.yaml.start # <<>> THEN "web" ELSE "terminal"
         IN  [m.yaml EXCEPT !.kind = kind,
                            !.port = IF kind = "web" /\ @ = 0 THEN 3000 ELSE @]

nodeFrameworks ==
    LET fw(dep, port) == [dep |-> dep, port |-> port, vite |-> FALSE]
        vt(dep, port) == [dep |-> dep, port |-> port, vite |-> TRUE]
    IN  <<fw("next", 3000), fw("nuxt", 3000), fw("@remix-run/dev", 3000), fw("gatsby", 8000),
          vt("astro", 4321), vt("@sveltejs/kit", 5173), fw("@angular/cli", 4200),
          fw("react-scripts", 3000), fw("@vue/cli-service", 8080), vt("vite", 5173),
          fw("express", 3000), fw("fastify", 3000), fw("koa", 3000), fw("hono", 3000),
          fw("@nestjs/core", 3000), fw("http-server", 8080), fw("serve", 3000)>>

Npx(pm) == <<"npx", "-y", pm>>

packageManager(m) ==
    CASE "pnpm-lock.yaml" \in m.lock \/ m.pkg.manager = "pnpm" ->
            [install |-> Npx("pnpm") \o <<"install">>, run |-> Npx("pnpm") \o <<"run">>, pass |-> <<>>]
      [] "yarn.lock" \in m.lock \/ m.pkg.manager = "yarn" ->
            [install |-> Npx("yarn") \o <<"install">>, run |-> Npx("yarn") \o <<"run">>, pass |-> <<>>]
      [] {"bun.lockb", "bun.lock"} \cap m.lock # {} \/ m.pkg.manager = "bun" ->
            [install |-> Npx("bun") \o <<"install">>, run |-> Npx("bun") \o <<"run">>, pass |-> <<"--">>]
      [] OTHER ->
            [install |-> <<"npm", "install", "--no-audit", "--no-fund">>, run |-> <<"npm", "run">>,
             pass |-> <<"--">>]

nodeFramework(m) ==
    First(nodeFrameworks, LAMBDA f : f.dep \in m.pkg.deps, [dep |-> "", port |-> 3000, vite |-> FALSE])

pickNodeScript(m) ==
    First(<<"dev", "start", "serve", "preview">>, LAMBDA s : s \in m.pkg.scripts, "")

nodeStart(m) ==
    Append(packageManager(m).run, pickNodeScript(m)) \o
    IF nodeFramework(m).vite
    THEN packageManager(m).pass \o <<"--host", "0.0.0.0", "--port", PortText(nodeFramework(m).port)>>
    ELSE <<>>

nodeEnv == [HOST |-> "0.0.0.0", CI |-> "true"]

(* package.json: a manager, a script, the port of a framework.             *)
detectNode(m) ==
    IF m.pkg = None THEN None
    ELSE IF pickNodeScript(m) = "" THEN Shell(<<packageManager(m).install>>, nodeEnv)
    ELSE Web(<<packageManager(m).install>>, nodeStart(m), nodeFramework(m).port,
             [HOST |-> "0.0.0.0", CI |-> "true", PORT |-> PortText(nodeFramework(m).port)])

pyFrameworks == <<"streamlit", "gradio", "django", "fastapi", "flask">>

(* A slip: the first preference, there or not.                             *)
pyEntryUnseen(m, dep) == "app"

pyEntry(m, dep) ==
    First(CASE dep = "streamlit" -> <<"streamlit_app", "app", "main", "Home">>
            [] dep = "gradio"    -> <<"app", "demo", "main">>
            [] dep = "fastapi"   -> <<"main", "app", "server", "api">>
            [] dep = "flask"     -> <<"app", "main", "server", "wsgi", "run">>
            [] dep = "django"    -> <<"manage">>,
          LAMBDA f : f \in m.files, "")

pyStart(dep, entry) ==
    CASE dep = "streamlit" -> <<"streamlit", "run", entry, "--server.address", "0.0.0.0",
                                "--server.port", "8501", "--server.headless", "true">>
      [] dep = "gradio"    -> <<"python3", entry>>
      [] dep = "django"    -> <<"python3", "manage", "runserver", "0.0.0.0:8000">>
      [] dep = "fastapi"   -> <<"uvicorn", entry, "--host", "0.0.0.0", "--port", "8000">>
      [] dep = "flask"     -> <<"flask", "--app", entry, "run", "--host", "0.0.0.0", "--port", "5000">>

pyPort(dep) ==
    CASE dep = "streamlit" -> 8501 [] dep = "gradio" -> 7860 [] dep = "flask" -> 5000
      [] dep \in {"django", "fastapi"} -> 8000

pyEnv(dep) ==
    CASE dep = "gradio" -> [PYTHONUNBUFFERED |-> "1", GRADIO_SERVER_NAME |-> "0.0.0.0",
                            GRADIO_SERVER_PORT |-> "7860"]
      [] dep = "django" -> [PYTHONUNBUFFERED |-> "1", ALLOWED_HOSTS |-> "*",
                            DJANGO_ALLOWED_HOSTS |-> "*"]
      [] OTHER -> [PYTHONUNBUFFERED |-> "1"]

(* The first framework among the dependencies that has an entry file;      *)
(* django goes without.                                                    *)
pythonRecipe(m, deps, install) ==
    LET dep == First(pyFrameworks,
                     LAMBDA d : d \in deps /\ (pyEntry(m, d) # "" \/ d = "django"), "")
        migrate == <<"python3", "manage", "migrate", "--noinput">>
    IN  IF dep = "" THEN Shell(<<install>>, pyEnv(""))
        ELSE Web(IF dep = "django" THEN <<install, migrate>> ELSE <<install>>,
                 pyStart(dep, pyEntry(m, dep)), pyPort(dep), pyEnv(dep))

detectPyProject(m) ==
    IF m.pyproject = None THEN None
    ELSE pythonRecipe(m, m.pyproject, <<"pip", "install", "-e", ".">>)

detectRequirements(m) ==
    IF m.requirements = None THEN None
    ELSE pythonRecipe(m, m.requirements, <<"pip", "install", "-r", "requirements.txt">>)

Listen8080 == [PORT |-> "8080", HOST |-> "0.0.0.0"]
On8080(install, start) == Web(install, start, 8080, Listen8080)

detectGo(m) ==
    IF ~m.gomod THEN None
    ELSE Web(<<<<"go", "mod", "download">>>>,
             <<"go", "run", IF "main.go" \notin m.files /\ m.cmds # <<>> THEN m.cmds[1] ELSE ".">>,
             8080, [PORT |-> "8080", HOST |-> "0.0.0.0", ADDR |-> ":8080"])

detectCargo(m) ==
    IF ~m.cargo THEN None
    ELSE On8080(<<<<"cargo", "build">>>>, <<"cargo", "run">>)

(* The web process, if Validate would take it.                             *)
detectProcfile(m) ==
    LET start == [k \in DOMAIN m.procfile |-> IF m.procfile[k] = "$PORT" THEN "8080" ELSE m.procfile[k]]
    IN  IF validateCommand(start) THEN On8080(<<>>, start) ELSE None

makeTarget(m) == First(<<"dev", "serve", "run", "start">>, LAMBDA t : t \in m.targets, "")

detectMakefile(m) ==
    IF makeTarget(m) = "" THEN None ELSE On8080(<<>>, <<"make", makeTarget(m)>>)

detectStatic(m) ==
    IF ~m.index THEN None
    ELSE Web(<<>>, <<"python3", "-m", "http.server", "8080", "--bind", "0.0.0.0">>, 8080, <<>>)

detectors ==
    <<"trylive.yaml", "package.json", "pyproject.toml", "requirements.txt", "go.mod",
      "Cargo.toml", "Procfile", "Makefile", "index.html">>

Try(d, m) ==
    CASE d = "trylive.yaml"     -> detectTryliveYAML(m)
      [] d = "package.json"     -> detectNode(m)
      [] d = "pyproject.toml"   -> detectPyProject(m)
      [] d = "requirements.txt" -> detectRequirements(m)
      [] d = "go.mod"           -> detectGo(m)
      [] d = "Cargo.toml"       -> detectCargo(m)
      [] d = "Procfile"         -> detectProcfile(m)
      [] d = "Makefile"         -> detectMakefile(m)
      [] d = "index.html"       -> detectStatic(m)

(* The first detector that matches, if any does; its recipe may be invalid.*)
Detect(m) ==
    {k \in DOMAIN detectors :
        /\ Try(detectors[k], m) # None
        /\ \A n \in 1 .. k - 1 : Try(detectors[n], m) = None}

-------------------------------------------------------------------------------
(* One build: detect and install, as far as they are about its recipe.     *)

Init ==
    /\ repo \in Repos /\ llm \in BOOLEAN
    /\ stage = "detect" /\ detector = None /\ rcp = NoRecipe
    /\ i = 1 /\ repairs = 0

Name(d, r) ==
    /\ detector' = d
    /\ IF Validate(r) THEN rcp' = r /\ stage' = "install"
                      ELSE UNCHANGED rcp /\ stage' = "unsupported"

RunDetect ==
    /\ stage = "detect"
    /\ \/ \E k \in Detect(repo) : Name(detectors[k], Try(detectors[k], repo))
       \/ Detect(repo) = {} /\ stage' = "infer" /\ UNCHANGED <<detector, rcp>>
    /\ UNCHANGED <<repo, llm, i, repairs>>

(* A slip: the model is believed.                                          *)
InferUnchecked ==
    /\ stage = "infer"
    /\ IF ~llm THEN stage' = "unsupported" /\ UNCHANGED <<detector, rcp>>
       ELSE \E r \in Replies \ {None} : detector' = "model" /\ rcp' = r /\ stage' = "install"
    /\ UNCHANGED <<repo, llm, i, repairs>>

(* Infer. Without a model, or with a reply that is no recipe, the          *)
(* repository is unsupported.                                              *)
Infer ==
    /\ stage = "infer"
    /\ \/ llm /\ \E r \in Replies \ {None} : Name("model", r)
       \/ (~llm \/ None \in Replies) /\ stage' = "unsupported" /\ UNCHANGED <<detector, rcp>>
    /\ UNCHANGED <<repo, llm, i, repairs>>

(* Repair's answer to a reply; None is an error.                           *)
Repaired(fix) ==
    IF /\ Len(fix) \in 1 .. MaxInstall
       /\ \A c \in ToSet(fix) : validateCommand(c)
    THEN fix ELSE None

(* The commands before the k-th exit 0. With the k-th the installation     *)
(* fails, for lack of time or a repair for example, or it is repaired.     *)
InstallFails ==
    /\ stage = "install"
    /\ \E k \in i .. Len(rcp.install) :
        /\ i' = k
        /\ \/ stage' = "failed" /\ UNCHANGED <<rcp, repairs>>
           \/ /\ llm /\ repairs < MaxRepairs
              /\ repairs' = repairs + 1
              /\ \E fix \in Fixes :
                  IF Repaired(fix) = None THEN stage' = "failed" /\ UNCHANGED rcp
                  ELSE /\ rcp' = [rcp EXCEPT !.install = SubSeq(@, 1, k - 1) \o fix]
                       /\ UNCHANGED stage
    /\ UNCHANGED <<repo, llm, detector>>

Installed ==
    /\ stage = "install" /\ stage' = "start" /\ i' = Len(rcp.install) + 1
    /\ UNCHANGED <<repo, llm, detector, rcp, repairs>>

Next == RunDetect \/ Infer \/ InstallFails \/ Installed

Spec == Init /\ [][Next]_vars

-------------------------------------------------------------------------------
RuleBased == {"package.json", "pyproject.toml", "requirements.txt", "go.mod", "Cargo.toml",
              "Makefile", "index.html"}
Named == stage \in {"install", "start"}
Fresh == Named /\ repairs = 0

(* Whatever named the recipe and however often the model replaced its      *)
(* commands, each command that can run starts an allowed program and has   *)
(* no shell operator, and repairs lengthen the list by less than a list    *)
(* each (recipe.go:97-176, model.go:44-69, builder.go:436-443).            *)
OnlyCheckedCommandsRun ==
    Named => /\ \A c \in ToSet(rcp.install) \cup ({rcp.start} \ {<<>>}) :
                    Program(c) \in allowedPrograms /\ ToSet(c) \cap ForbiddenWords = {}
             /\ Len(rcp.install) <= MaxInstall + repairs * (MaxInstall - 1)

(* The ports that detectors name, and the words that tell an app one of    *)
(* them.                                                                   *)
AppPorts == {3000, 4200, 4321, 5000, 5173, 7860, 8000, 8080, 8501}

PortWords(p) ==
    CASE p = 3000 -> {"3000", ":3000", "0.0.0.0:3000"} [] p = 4200 -> {"4200", ":4200", "0.0.0.0:4200"}
      [] p = 4321 -> {"4321", ":4321", "0.0.0.0:4321"} [] p = 5000 -> {"5000", ":5000", "0.0.0.0:5000"}
      [] p = 5173 -> {"5173", ":5173", "0.0.0.0:5173"} [] p = 7860 -> {"7860", ":7860", "0.0.0.0:7860"}
      [] p = 8000 -> {"8000", ":8000", "0.0.0.0:8000"} [] p = 8080 -> {"8080", ":8080", "0.0.0.0:8080"}
      [] p = 8501 -> {"8501", ":8501", "0.0.0.0:8501"}

(* A main package is named by its path, "./cmd/<name>".                    *)
ASSUME TargetsArePaths ==
    \A m \in Repos : m.cmds # <<>> => \A p \in AppPorts : m.cmds[1] \notin PortWords(p)

(* The ports a recipe tells its app.                                       *)
PortsTold(r) ==
    LET words == ToSet(r.start) \cup {r.env[k] : k \in DOMAIN r.env}
    IN  {p \in AppPorts : PortWords(p) \cap words # {}}

(* A rule's start command runs what the repository has: a script of        *)
(* package.json, a target of the Makefile, an entry file, except that      *)
(* django is believed to have one. And the app is told the one port that   *)
(* the probe looks for first (detectors.go:72-93, 165-223, 258-276).       *)
StartFitsTheRepo ==
    Fresh /\ detector \in RuleBased /\ rcp.kind = "web" =>
        /\ PortsTold(rcp) = {rcp.port}
        /\ detector = "package.json" => ToSet(rcp.start) \cap repo.pkg.scripts # {}
        /\ detector = "Makefile" => ToSet(rcp.start) \cap repo.targets # {}
        /\ detector \in {"pyproject.toml", "requirements.txt"} =>
               ToSet(rcp.start) \cap (repo.files \cup {"manage"}) # {}
================================================================================
