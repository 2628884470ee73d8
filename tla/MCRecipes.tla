------------------------------- MODULE MCRecipes -------------------------------
EXTENDS Recipes

Bare == [yaml |-> None, pkg |-> None, lock |-> {}, pyproject |-> None, requirements |-> None,
         files |-> {}, gomod |-> FALSE, cmds |-> <<>>, cargo |-> FALSE, procfile |-> <<>>,
         targets |-> {}, index |-> FALSE]

Package(deps, scripts, manager) == [deps |-> deps, scripts |-> scripts, manager |-> manager]

NodeRepos ==
    {[Bare EXCEPT !.pkg = Package(d, s, m), !.lock = l] :
        d \in SUBSET {"next", "astro", "vite", "express"}, s \in SUBSET {"dev", "start", "test"},
        m \in {"", "npm", "pnpm", "bun"}, l \in SUBSET {"pnpm-lock.yaml", "yarn.lock", "bun.lock"}}

PythonRepos ==
    {[Bare EXCEPT !.pyproject = p, !.requirements = r, !.files = f] :
        p \in {None} \cup SUBSET {"streamlit", "gradio", "django", "fastapi", "flask"},
        r \in {None, {}, {"flask", "fastapi"}}, f \in SUBSET {"app", "main", "server", "manage"}}

Words(kind, install, start, port) ==
    [Web(install, start, port, <<>>) EXCEPT !.kind = kind]

MCYaml ==
    {Words("", <<<<"npm", "install">>>>, <<"CI=true", "npm", "start">>, 4000),
     Words("", <<<<"pip", "install", "poetry">>>>, <<>>, 0),
     Words("", <<>>, <<"npm", "start", "|", "sh">>, 0),
     [Words("web", <<>>, <<>>, 80) EXCEPT !.inside = FALSE]}

OtherRepos ==
    {[Bare EXCEPT !.yaml = y, !.gomod = g, !.files = f, !.cmds = c, !.cargo = r, !.procfile = p,
                  !.targets = t, !.index = x, !.pkg = j] :
        y \in {None, Malformed} \cup MCYaml, g \in BOOLEAN, f \in {{}, {"main.go"}},
        c \in {<<>>, <<"./cmd/server", "./cmd/tool">>, <<"./cmd/evaluator">>}, r \in BOOLEAN,
        p \in {<<>>, <<"gunicorn", "app:app", "--bind", "$PORT">>, <<"bash", "run.sh">>},
        t \in {{}, {"build"}, {"build", "serve", "run"}}, x \in BOOLEAN,
        j \in {None, Package({}, {"test"}, "")}}

MCRepos == NodeRepos \cup PythonRepos \cup OtherRepos

MCReplies ==
    {None, Words("web", <<<<"npm", "install">>, <<"npm", "test">>, <<"npm", "ci">>>>, <<"npm", "start">>, 3000),
     Words("web", <<>>, <<"curl", "x">>, 80), Words("docker", <<>>, <<>>, 0),
     Words("web", <<>>, <<"PORT=80", "CI=true">>, 80)}

MCFixes ==
    {<<>>, <<<<"npm", "ci">>>>, <<<<"pip", "install", "x">>, <<"npm", "ci">>, <<"true">>>>,
     <<<<"sudo", "apt">>>>, <<<<"npm", "ci">>, <<"npm", "ci">>, <<"npm", "ci">>, <<"npm", "ci">>>>}

MCAssignments == {"CI=true", "PORT=80"}
MCForbidden == {"|", "curl", "sudo", "./cmd/evaluator"}
================================================================================
