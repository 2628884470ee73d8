--------------------------------- MODULE MCRepo ---------------------------------
(* From what a visitor types to the commit in its sandbox. One text is     *)
(* read, of many that mean a repository or do not: accounts and names as   *)
(* GitHub has them (one of the latter is ".git" in the middle, one starts  *)
(* with a dot), the segment between two slashes, dots, dots before ".git", *)
(* a space. When it was the slug of the repository at hand, two visitors   *)
(* go on with it, under three commits and two spellings.                   *)
EXTENDS Commits, Refs

CONSTANTS v1, v2, lower, mixed

MCVisitor == {v1, v2}
MCSpelling == {lower, mixed}
MCOwners == {<<"a">>, <<"a", "-", "a">>}
MCNames == {<<"a">>, <<"a", ".", "git", "_">>, <<".", "git", "a">>}
MCOthers == {<<>>, <<".">>, <<".", ".">>, <<".", ".", "git">>, <<".", ".", ".", "git">>,
             <<"a", " ">>, <<"a", "-">>}

Home == Ref(<<"a">>, <<"a">>)

repoVars == <<commitsVars, refsVars>>

(* The spelling matters to those who go on only.                           *)
RepoInit ==
    /\ CommitsInit /\ RefsInit
    /\ input = Slug(Home) \/ \A v \in Visitor : wants[v] = lower

RepoNext ==
    \/ RefsNext /\ UNCHANGED commitsVars
    \/ input = Slug(Home) /\ resolved = Home /\ CommitsNext /\ UNCHANGED refsVars

RepoSpec == RepoInit /\ [][RepoNext]_repoVars
===============================================================================
