----------------------------------- MODULE Refs -----------------------------------
(***************************************************************************)
(* What a visitor types and which repository it stands for. The landing    *)
(* page reads it with parseRepo (web/src/lib/repo.ts) and sends the slug;  *)
(* the server reads what it is sent, by the page or by any other client,   *)
(* with repo.Parse (internal/repo). An input is a prefix, segments between *)
(* slashes, and a query or none; a segment is a sequence of letters ("a",  *)
(* or "git") and the characters that the two tell apart. Capitals are told *)
(* apart in the host only.                                                 *)
(***************************************************************************)
EXTENDS Integers, Sequences, SequencesExt, FiniteSetsExt

CONSTANTS
    Owners, Names,  \* accounts and repositories of GitHub
    Others,         \* segments that are neither
    Nothing

Letters == {"a", "git"}
GoodOwner(s) ==
    s \in Seq(Letters \cup {"-"}) \ {<<>>} /\ {s[1], s[Len(s)]} \subseteq Letters
InName(s) == s \in Seq(Letters \cup {"-", ".", "_"}) \ {<<>>}
DotGit == <<".", "git">>

ASSUME RefsAssumption ==
    /\ \A o \in Owners : GoodOwner(o)
    /\ \A n \in Names : InName(n) /\ ~IsSuffix(DotGit, n) /\ n \notin {<<".">>, <<".", ".">>}

Ref(o, n) == [owner |-> o, name |-> n]
NoRef == Ref(<<>>, <<>>)
Slug(r) == [prefix |-> "", path |-> <<r.owner, r.name>>, query |-> FALSE]

(* GitHub's host, behind a scheme or alone, as the server reads it; in     *)
(* capitals, which it does not; and what the page does not read.           *)
Hosted == {"https://github.com/", "http://www.github.com/", "ssh://git@github.com/",
           "github.com/", "www.github.com/", "git@github.com:"}
Capitals == {"https://GitHub.com/", "GitHub.com/"}
Unread == {"ssh://git@github.com/", "www.github.com/"}
AllPrefixes == Hosted \cup Capitals \cup {"", "https://gitlab.com/", "git@gitlab.com:"}

Segments == Owners \cup Names \cup {n \o DotGit : n \in Names} \cup Others

Paths == (UNION {[1 .. k -> Segments] : k \in 1 .. 2}) \cup
         {<<o, n, t>> : o \in Owners, n \in Segments, t \in Others \cup {<<>>}}

Inputs == [prefix : AllPrefixes, path : Paths, query : BOOLEAN]

TrimGit(s) == IF IsSuffix(DotGit, s) THEN SubSeq(s, 1, Len(s) - 2) ELSE s

(* Where a path has segments that are not empty.                           *)
Full(p) == {k \in DOMAIN p : p[k] # <<>>}

(* strings.Trim(u.Path, "/")                                               *)
TrimSlashes(p) ==
    IF Full(p) = {} THEN << <<>> >> ELSE SubSeq(p, Min(Full(p)), Max(Full(p)))

-------------------------------------------------------------------------------
(* internal/repo: what is left when the host is off.                       *)

ParseSlug(p) ==
    IF Len(p) = 2 /\ GoodOwner(p[1]) /\ InName(p[2])
       /\ TrimGit(p[2]) \notin {<<>>, <<".">>, <<".", ".">>}
    THEN Ref(p[1], TrimGit(p[2])) ELSE NoRef

(* A slip: a path behind the repository is no repository.                  *)
ParseExactly(in) ==
    IF in.prefix \in Hosted
    THEN LET parts == TrimSlashes(in.path) IN
         IF Len(parts) # 2 THEN NoRef ELSE ParseSlug(<<parts[1], TrimGit(parts[2])>>)
    ELSE IF in.prefix = "" /\ ~in.query THEN ParseSlug(in.path) ELSE NoRef

Parse(in) ==
    IF in.prefix \in Hosted
    THEN LET parts == TrimSlashes(in.path) IN
         IF Len(parts) < 2 THEN NoRef ELSE ParseSlug(<<parts[1], TrimGit(parts[2])>>)
    ELSE IF in.prefix = "" /\ ~in.query THEN ParseSlug(in.path) ELSE NoRef

-------------------------------------------------------------------------------
(* web/src/lib/repo.ts                                                     *)

Segment(s) == InName(s) /\ s[1] \in Letters

(* A host without a scheme that parseRepo does not know is a segment.      *)
Www == <<"a", ".", "a", ".", "a">>

parseRepo(in) ==
    LET known == in.prefix \in (Hosted \cup Capitals) \ Unread
        path == IF in.prefix = "www.github.com/" THEN <<Www>> \o in.path ELSE in.path
        i == Min(Full(path))
        j == Min(Full(path) \ {i})
    IN IF /\ known \/ in.prefix \in {"", "www.github.com/"}
          /\ Full(path) # {} /\ Full(path) # {i}
          /\ Segment(path[i]) /\ Segment(TrimGit(path[j]))
          /\ known \/ Full(path) = {i, j}
       THEN Ref(path[i], TrimGit(path[j])) ELSE NoRef

-------------------------------------------------------------------------------
VARIABLES
    input,      \* what was typed
    sent,       \* the body of POST /v1/sessions, Nothing before that
    shown,      \* the page says that this is no repository
    resolved    \* what Create goes on with, NoRef if it refuses

refsVars == <<input, sent, shown, resolved>>

RefsInit ==
    /\ input \in Inputs
    /\ sent = Nothing /\ shown = FALSE /\ resolved = Nothing

(* Landing.submit.                                                         *)
Submit ==
    /\ sent = Nothing /\ ~shown
    /\ IF parseRepo(input) = NoRef
       THEN shown' = TRUE /\ UNCHANGED sent
       ELSE sent' = Slug(parseRepo(input)) /\ UNCHANGED shown
    /\ UNCHANGED <<input, resolved>>

(* A client of the API sends what it was given, and so does the address    *)
(* /gh/:owner/:repo of a page.                                             *)
SendAsIs ==
    /\ sent = Nothing /\ ~shown
    /\ sent' = input
    /\ UNCHANGED <<input, shown, resolved>>

(* Manager.Create.                                                         *)
Create ==
    /\ sent # Nothing /\ resolved = Nothing
    /\ resolved' = Parse(sent)
    /\ UNCHANGED <<input, sent, shown>>

RefsNext == Submit \/ SendAsIs \/ Create

RefsSpec == RefsInit /\ [][RefsNext]_refsVars

-------------------------------------------------------------------------------
(* The inputs that name repository n of o: its slug, and GitHub's URLs of  *)
(* it, with ".git", slashes and paths behind it.                           *)
Means(in, o, n) ==
    LET p == TrimSlashes(in.path) IN
    /\ \/ in.prefix \in Hosted \cup Capitals
       \/ in.prefix = "" /\ ~in.query /\ Len(in.path) = 2
    /\ Len(p) >= 2 /\ p[1] = o /\ p[2] \in {n, n \o DotGit}

(* "Parse accepts "owner/repo", "github.com/owner/repo", full https URLs   *)
(* with or without .git and trailing paths, and                            *)
(* git@github.com:owner/repo.git" (repo.go:54-55), and the page "a bare    *)
(* owner/repo slug or any github.com URL (with or without scheme, .git,    *)
(* trailing slash, or /tree/<branch>/... suffix)" (repo.ts:11-13). Who     *)
(* names a repository gets that one. The server refuses only a host in     *)
(* capitals that it is sent as it is (repo.go:64, 69); the page only the   *)
(* two forms it does not read (repo.ts:20, 27) and a name that begins with *)
(* ".", "-" or "_", which GitHub has (repo.ts:8).                          *)
RightRepository ==
    \A o \in Owners, n \in Names : Means(input, o, n) =>
        /\ resolved # Nothing =>
              \/ resolved = Ref(o, n)
              \/ resolved = NoRef /\ sent.prefix \in Capitals
        /\ shown => input.prefix \in Unread \/ n[1] \notin Letters

(* What goes into GitHub's URLs, the names of sandboxes and the clone is   *)
(* an account and a name, no path out of it, whoever sent what             *)
(* (repo.go:78-86, 117).                                                   *)
OnlyNames ==
    resolved \notin {Nothing, NoRef} =>
        GoodOwner(resolved.owner) /\ InName(resolved.name)
        /\ resolved.name \notin {<<".">>, <<".", ".">>}
===============================================================================
