------------------------------- MODULE Commits -------------------------------
(***************************************************************************)
(* Which commit a visitor gets. internal/repo resolves a reference to the  *)
(* head of the default branch in two requests, the builder keys a build by *)
(* owner, repository and sha, and some time later clones the branch, which *)
(* may have moved on. One repository, whose commits are numbered in the    *)
(* order they reach its default branch; it may be spelled in several ways. *)
(* Builder and Visitors have the builds themselves in detail.              *)
(***************************************************************************)
EXTENDS Naturals

CONSTANTS
    Visitor,
    Spelling,   \* the owner/name pairs that GitHub takes for this repository
    MaxHead     \* bound: commits pushed

ASSUME CommitsAssumption == MaxHead \in Nat \ {0}

VARIABLES
    head,       \* GitHub: the default branch's head
    pc,         \* per visitor: the place of its Create, then of its session
    wants,      \* per visitor: the reference it gave
    asked,      \* per visitor: the head when it asked
    sha,        \* per visitor: info.SHA
    got,        \* per visitor: the commit in its sandbox
    status,     \* builds table, by reference and sha
    tree,       \* per build: the commit in its build sandbox, then in its snapshot
    run         \* per build: the place of its pipeline

visitorVars == <<pc, wants, asked, sha, got>>
buildVars == <<status, tree, run>>
commitsVars == <<head, visitorVars, buildVars>>

Commit == 1 .. MaxHead

Build == Spelling \X Commit

CommitsInit ==
    /\ head = 1
    /\ pc = [v \in Visitor |-> "idle"]
    /\ wants \in [Visitor -> Spelling]
    /\ asked = [v \in Visitor |-> 0]
    /\ sha = [v \in Visitor |-> 0]
    /\ got = [v \in Visitor |-> 0]
    /\ status = [b \in Build |-> "none"]
    /\ tree = [b \in Build |-> 0]
    /\ run = [b \in Build |-> "none"]

To(v, l) == pc' = [pc EXCEPT ![v] = l]

Push ==
    /\ head < MaxHead
    /\ head' = head + 1
    /\ UNCHANGED <<visitorVars, buildVars>>

Ask(v) ==
    /\ pc[v] = "idle"
    /\ asked' = [asked EXCEPT ![v] = head]
    /\ To(v, "repository")
    /\ UNCHANGED <<head, wants, sha, got, buildVars>>

(* A request to GitHub that fails, for any of the reasons get and Resolve  *)
(* tell apart, ends Create.                                                *)
Refuse(v) ==
    /\ pc[v] \in {"repository", "commit"}
    /\ To(v, "refused")
    /\ UNCHANGED <<head, wants, asked, sha, got, buildVars>>

ResolveRepository(v) ==
    /\ pc[v] = "repository"
    /\ To(v, "commit")
    /\ UNCHANGED <<head, wants, asked, sha, got, buildVars>>

ResolveCommit(v) ==
    /\ pc[v] = "commit"
    /\ sha' = [sha EXCEPT ![v] = head]
    /\ To(v, "ensure")
    /\ UNCHANGED <<head, wants, asked, got, buildVars>>

(* A slip: the repository's latest build will do (LatestBuild).            *)
BuildOfLatest(v) ==
    LET known == {c \in Commit : status[<<wants[v], c>>] # "none"}
    IN  <<wants[v], IF known = {} THEN sha[v] ELSE CHOOSE c \in known : \A d \in known : d <= c>>

(* GetBuildBySHA.                                                          *)
BuildOf(v) == <<wants[v], sha[v]>>

(* Ensure: a commit without a record gets one, and a pipeline. The visitor *)
(* carries the record's sha from here on.                                  *)
Ensure(v) ==
    /\ pc[v] = "ensure"
    /\ IF status[BuildOf(v)] = "none"
       THEN /\ status' = [status EXCEPT ![BuildOf(v)] = "queued"]
            /\ run' = [run EXCEPT ![BuildOf(v)] = "queued"]
       ELSE UNCHANGED <<status, run>>
    /\ sha' = [sha EXCEPT ![v] = BuildOf(v)[2]]
    /\ To(v, "joined")
    /\ UNCHANGED <<head, wants, asked, got, tree>>

(* git clone --depth 1 --branch, whenever a slot is free and the sandbox   *)
(* is ready.                                                               *)
Clone(b) ==
    /\ run[b] = "queued"
    /\ tree' = [tree EXCEPT ![b] = head]
    /\ run' = [run EXCEPT ![b] = "cloned"]
    /\ UNCHANGED <<head, visitorVars, status>>

Succeed(b) ==
    /\ run[b] = "cloned"
    /\ status' = [status EXCEPT ![b] = "ready"]
    /\ run' = [run EXCEPT ![b] = "none"]
    /\ UNCHANGED <<head, visitorVars, tree>>

Fail(b) ==
    /\ run[b] # "none"
    /\ status' = [status EXCEPT ![b] = "failed"]
    /\ run' = [run EXCEPT ![b] = "none"]
    /\ UNCHANGED <<head, visitorVars, tree>>

Restore(v) ==
    /\ pc[v] = "joined"
    /\ sha[v] \in Commit /\ status[<<wants[v], sha[v]>>] = "ready"
    /\ got' = [got EXCEPT ![v] = tree[<<wants[v], sha[v]>>]]
    /\ To(v, "visiting")
    /\ UNCHANGED <<head, wants, asked, sha, buildVars>>

(* The snapshot is lost: the same record is built again, by the same info. *)
Rebuild(v) ==
    /\ pc[v] = "joined"
    /\ sha[v] \in Commit /\ status[<<wants[v], sha[v]>>] = "ready"
    /\ status' = [status EXCEPT ![<<wants[v], sha[v]>>] = "queued"]
    /\ run' = [run EXCEPT ![<<wants[v], sha[v]>>] = "queued"]
    /\ UNCHANGED <<head, visitorVars, tree>>

CommitsNext ==
    \/ Push
    \/ \E v \in Visitor :
          \/ Ask(v) \/ Refuse(v) \/ ResolveRepository(v) \/ ResolveCommit(v)
          \/ Ensure(v) \/ Restore(v) \/ Rebuild(v)
    \/ \E b \in Build : Clone(b) \/ Succeed(b) \/ Fail(b)

CommitsSpec == CommitsInit /\ [][CommitsNext]_commitsVars

-------------------------------------------------------------------------------
TypeOK ==
    /\ head \in Commit
    /\ pc \in [Visitor -> {"idle", "repository", "commit", "refused", "ensure", "joined", "visiting"}]
    /\ wants \in [Visitor -> Spelling]
    /\ {asked, sha, got} \subseteq [Visitor -> 0 .. MaxHead]
    /\ status \in [Build -> {"none", "queued", "ready", "failed"}]
    /\ tree \in [Build -> 0 .. MaxHead]
    /\ run \in [Build -> {"none", "queued", "cloned"}]

(* What makes the next one inductive: a visitor looks for a commit no      *)
(* older than the head it asked at, and a tree is no older than the commit *)
(* its build is recorded for.                                              *)
NoOlder ==
    /\ \A v \in Visitor : asked[v] <= head
    /\ \A v \in Visitor : pc[v] \in {"ensure", "joined", "visiting"} => asked[v] <= sha[v] /\ sha[v] <= head
    /\ \A b \in Build : status[b] # "none" => b[2] <= head
    /\ \A b \in Build : run[b] = "cloned" \/ status[b] = "ready" => b[2] <= tree[b]
    /\ \A b \in Build : run[b] # "none" => status[b] = "queued"

(* Nobody is shown an older state of the repository than its head when     *)
(* they asked, however long ago the build they join was begun, and however *)
(* often its snapshot was lost (repo.go:109-130, builder.go:102-124).      *)
VisitorsGetNoOlder ==
    \A v \in Visitor : pc[v] = "visiting" => asked[v] <= got[v]

(* "Package builder turns a repository commit into a ready-to-restore      *)
(* snapshot" (builder.go:1): a ready record's snapshot holds the commit    *)
(* the record is about, and not what the branch had come to by then.       *)
SnapshotHoldsItsCommit ==
    \A b \in Build : status[b] = "ready" => tree[b] = b[2]
===============================================================================
