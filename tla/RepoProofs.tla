------------------------------- MODULE RepoProofs -------------------------------
(***************************************************************************)
(* From what is typed to the commands that run.                            *)
(*                                                                         *)
(* Refs: whatever is typed, sent or linked, and whoever sends it, what the *)
(* server resolves is an account and a name. Nothing is assumed of the     *)
(* input: the two tests of Parse, and that ".git" comes off before the     *)
(* last of them, are all the proof goes by. And an input that names a      *)
(* repository, in any of the ways that Parse's comment lists, resolves to  *)
(* that one, also through the page's own reader. The state machine is      *)
(* short, and Passed says all of it; the proof is about the two readers,   *)
(* which count segments in different ways.                                 *)
(*                                                                         *)
(* Commits, for any visitors, spellings and number of pushes: nobody is    *)
(* shown an older commit than the head they asked at. What makes it an     *)
(* induction is NoOlder: the sha a visitor carries lies between that head  *)
(* and the present one, and a tree is cloned at or after the commit its    *)
(* record is for.                                                          *)
(*                                                                         *)
(* Recipes, for every set of repositories and every answer of the model,   *)
(* and any limits on commands and repairs: only checked commands run; and  *)
(* a rule's start command runs what the repository has, on the port that   *)
(* the probe looks for.                                                    *)
(***************************************************************************)
EXTENDS Commits, Refs, Recipes, SequenceTheorems, WellFoundedInduction, TLAPS

-------------------------------------------------------------------------------
(* Refs.                                                                   *)

(* What is left of a name without its ".git" has a name's characters.      *)
LEMMA TrimmedName ==
    ASSUME NEW s, InName(s), TrimGit(s) # <<>>
    PROVE  InName(TrimGit(s))
<1> DEFINE C == Letters \cup {"-", ".", "_"}
<1>1. s \in Seq(C)
    BY DEF InName
<1>2. CASE ~IsSuffix(DotGit, s)
    BY <1>2 DEF TrimGit
<1>3. CASE IsSuffix(DotGit, s)
    <2>1. TrimGit(s) = SubSeq(s, 1, Len(s) - 2)
        BY <1>3 DEF TrimGit
    <2> HIDE DEF C
    <2>2. SubSeq(s, 1, Len(s) - 2) \in Seq(C)
        BY <1>1, SubSeqProperties
    <2>3. QED
        BY <2>1, <2>2 DEF InName, C
<1>4. QED
    BY <1>2, <1>3

(* ParseSlug refuses, or returns an account and a name.                    *)
LEMMA SlugIsNames ==
    ASSUME NEW p, ParseSlug(p) # NoRef
    PROVE  LET r == ParseSlug(p) IN
           /\ GoodOwner(r.owner)
           /\ InName(r.name)
           /\ r.name \notin {<<".">>, <<".", ".">>}
<1>1. /\ GoodOwner(p[1]) /\ InName(p[2])
      /\ TrimGit(p[2]) \notin {<<>>, <<".">>, <<".", ".">>}
      /\ ParseSlug(p) = Ref(p[1], TrimGit(p[2]))
    BY DEF ParseSlug
<1>2. InName(TrimGit(p[2]))
    BY <1>1, TrimmedName
<1>3. QED
    BY <1>1, <1>2 DEF Ref

(* Whatever is sent, Parse has it from ParseSlug.                          *)
LEMMA ParseIsNames ==
    ASSUME NEW in, Parse(in) # NoRef
    PROVE  LET r == Parse(in) IN
           /\ GoodOwner(r.owner)
           /\ InName(r.name)
           /\ r.name \notin {<<".">>, <<".", ".">>}
<1>1. PICK p : Parse(in) = ParseSlug(p)
    BY DEF Parse
<1>2. QED
    BY <1>1, SlugIsNames

(* OnlyNames (repo.go:78-86) holds for any accounts, repositories and      *)
(* other segments, of whatever length and content.                         *)
THEOREM OnlyNamesAreResolved == RefsSpec => []OnlyNames
<1>1. RefsInit => OnlyNames
    BY DEF RefsInit, OnlyNames
<1>2. OnlyNames /\ [RefsNext]_refsVars => OnlyNames'
    <2> SUFFICES ASSUME OnlyNames, [RefsNext]_refsVars PROVE OnlyNames'
        OBVIOUS
    <2>1. CASE UNCHANGED resolved
        BY <2>1 DEF OnlyNames
    <2>2. CASE Create
        <3>1. resolved' = Parse(sent)
            BY <2>2 DEF Create
        <3>2. QED
            BY <3>1, ParseIsNames DEF OnlyNames
    <2>3. QED
        BY <2>1, <2>2 DEF RefsNext, Submit, SendAsIs, refsVars
<1>3. QED
    BY <1>1, <1>2, PTL DEF RefsSpec

(* A name with ".git" behind it loses it, and only that (repo.go:76,       *)
(* repo.ts:38).                                                            *)
LEMMA GitIsTrimmed ==
    ASSUME NEW n \in Names
    PROVE  /\ InName(n) /\ InName(n \o DotGit) /\ n # <<>>
           /\ TrimGit(n) = n /\ TrimGit(n \o DotGit) = n
<1> DEFINE C == Letters \cup {"-", ".", "_"}
           t == n \o DotGit
<1>1. n \in Seq(C) /\ n # <<>> /\ InName(n) /\ ~IsSuffix(DotGit, n)
    BY RefsAssumption DEF InName
<1>2. DotGit \in Seq(C) /\ Len(DotGit) = 2 /\ DotGit[1] = "." /\ DotGit[2] = "git"
    BY DEF DotGit, Letters
<1>2a. DotGit[1] \in C /\ DotGit[2] \in C /\ C # {}
    BY <1>2 DEF Letters
<1> HIDE DEF C
<1>3. /\ t \in Seq(C) /\ Len(t) = Len(n) + 2 /\ Len(n) \in Nat
      /\ \A k \in 1 .. Len(n) : t[k] = n[k]
      /\ t[Len(n) + 1] = "." /\ t[Len(n) + 2] = "git"
    <2>1. Len(n) \in Nat
        BY <1>1, LenProperties
    <2>2. t \in Seq(C) /\ Len(t) = Len(n) + 2
        <3>1. t \in Seq(C) /\ Len(t) = Len(n) + Len(DotGit)
            BY <1>1, <1>2, ConcatProperties
        <3> QED BY ONLY <1>2, <3>1
    <2>3. \A k \in 1 .. Len(n) : t[k] = n[k]
        BY <1>1, <1>2, <2>1, ConcatProperties
    <2>4. \A k \in Len(n) + 1 .. Len(n) + 2 : t[k] = DotGit[k - Len(n)]
        BY <1>1, <1>2, <2>1, ConcatProperties
    <2> HIDE DEF t
    <2>5. t[Len(n) + 1] = DotGit[1] /\ t[Len(n) + 2] = DotGit[2]
        <3>1. Len(n) + 1 \in Len(n) + 1 .. Len(n) + 2 /\ (Len(n) + 1) - Len(n) = 1
            BY <2>1
        <3>2. Len(n) + 2 \in Len(n) + 1 .. Len(n) + 2 /\ (Len(n) + 2) - Len(n) = 2
            BY <2>1
        <3> QED BY <2>4, <3>1, <3>2
    <2> QED BY <1>2, <2>1, <2>2, <2>3, <2>5
<1> HIDE DEF t
<1>4. t # <<>>
    BY <1>3
<1>5. InName(t)
    BY <1>3, <1>4 DEF InName, C
<1>6. IsSuffix(DotGit, t)
    <2> DEFINE f == Reverse(DotGit)
               g == Reverse(t)
    <2>1. f = [k \in 1 .. 2 |-> DotGit[(2 - k) + 1]]
        BY <1>2 DEF Reverse
    <2>2. g = [k \in 1 .. Len(t) |-> t[(Len(t) - k) + 1]]
        BY DEF Reverse
    <2>3. f \in Seq(C) /\ g \in Seq(C) /\ Len(f) = 2 /\ Len(g) = Len(t)
        <3>1. \A k \in 1 .. 2 : DotGit[(2 - k) + 1] \in C
            <4>1. (2 - 1) + 1 = 2 /\ (2 - 2) + 1 = 1
                OBVIOUS
            <4>2. \A k \in 1 .. 2 : k = 1 \/ k = 2
                OBVIOUS
            <4> QED BY <1>2a, <4>1, <4>2
        <3>2. \A k \in 1 .. Len(t) : t[(Len(t) - k) + 1] \in C
            BY <1>3, ElementOfSeq
        <3>3. f \in [1 .. 2 -> C] /\ g \in [1 .. Len(t) -> C] /\ Len(t) \in Nat
            BY <1>3, <2>1, <2>2, <3>1, <3>2
        <3>4. f \in Seq(C) /\ g \in Seq(C)
            <4> HIDE DEF f, g
            <4>1. \A m \in Nat : \A s : s \in [1 .. m -> C] => s \in Seq(C)
                BY SeqDef
            <4> QED BY <3>3, <4>1
        <3> QED BY <3>3, <3>4, LenProperties
    <2>4. f[1] = "git" /\ f[2] = "." /\ g[1] = "git" /\ g[2] = "."
        BY <1>2, <1>3, <2>1, <2>2
    <2> HIDE DEF f, g
    <2>5. SubSeq(f, 1, 2) = SubSeq(g, 1, 2)
        <3>1. /\ SubSeq(f, 1, 2) = [k \in 1 .. 2 |-> f[k]]
              /\ SubSeq(g, 1, 2) = [k \in 1 .. 2 |-> g[k]]
            BY <1>3, <2>3
        <3>2. \A k \in 1 .. 2 : f[k] = g[k]
            BY <2>4
        <3> QED BY <3>1, <3>2
    <2> QED BY <1>3, <2>3, <2>5 DEF IsSuffix, IsPrefix, f, g
<1>7. SubSeq(t, 1, Len(t) - 2) = n
    <2>1. SubSeq(t, 1, Len(n)) \in Seq(C) /\ Len(SubSeq(t, 1, Len(n))) = Len(n)
          /\ \A k \in 1 .. Len(n) : SubSeq(t, 1, Len(n))[k] = t[k]
        BY <1>3
    <2>2. SubSeq(t, 1, Len(n)) = n
        BY <1>1, <1>3, <2>1, SeqEqual
    <2>3. Len(t) - 2 = Len(n)
        BY <1>3
    <2> QED BY <2>2, <2>3
<1> QED BY <1>1, <1>5, <1>6, <1>7 DEF TrimGit, t

(* The first and the last of a few places.                                 *)
LEMMA FirstAndLast ==
    ASSUME NEW S \in SUBSET (1 .. 4), S # {}
    PROVE  /\ Min(S) \in S /\ \A k \in S : Min(S) <= k
           /\ Max(S) \in S /\ \A k \in S : k <= Max(S)
<1>0. 1 \in S \/ 2 \in S \/ 3 \in S \/ 4 \in S
    <2>1. PICK k : k \in S
        OBVIOUS
    <2>2. k = 1 \/ k = 2 \/ k = 3 \/ k = 4
        BY <2>1
    <2> QED BY <2>1, <2>2
<1>1. \E k \in S : \A l \in S : k <= l
    <2>1. CASE 1 \in S
        BY <2>1
    <2>2. CASE 1 \notin S /\ 2 \in S
        BY <2>2
    <2>3. CASE 1 \notin S /\ 2 \notin S /\ 3 \in S
        BY <2>3
    <2>4. CASE 1 \notin S /\ 2 \notin S /\ 3 \notin S /\ 4 \in S
        BY <2>4
    <2> QED BY <1>0, <2>1, <2>2, <2>3, <2>4
<1>2. \E k \in S : \A l \in S : k >= l
    <2>1. CASE 4 \in S
        BY <2>1
    <2>2. CASE 4 \notin S /\ 3 \in S
        BY <2>2
    <2>3. CASE 4 \notin S /\ 3 \notin S /\ 2 \in S
        BY <2>3
    <2>4. CASE 4 \notin S /\ 3 \notin S /\ 2 \notin S /\ 1 \in S
        BY <2>4
    <2> QED BY <1>0, <2>1, <2>2, <2>3, <2>4
<1>3. Min(S) \in S /\ \A l \in S : Min(S) <= l
    BY <1>1 DEF Min
<1>4. Max(S) \in S /\ \A l \in S : Max(S) >= l
    BY <1>2 DEF Max
<1> QED BY <1>3, <1>4

(* A segment, or the nothing between two slashes.                         *)
Texts == Segments \cup {<<>>}

(* The paths that are typed are short.                                     *)
LEMMA PathsAreShort ==
    ASSUME NEW p \in Paths
    PROVE  p \in Seq(Texts) /\ Len(p) \in 1 .. 3 /\ DOMAIN p = 1 .. Len(p)
<1>1. CASE \E k \in 1 .. 2 : p \in [1 .. k -> Segments]
    <2>1. PICK k \in 1 .. 2 : p \in [1 .. k -> Segments]
        BY <1>1
    <2>2. p \in [1 .. k -> Texts] /\ k \in Nat
        BY <2>1 DEF Texts
    <2>3. p \in Seq(Texts)
        BY <2>2, SeqDef
    <2> QED BY <2>2, <2>3, LenProperties
<1>2. CASE \E o \in Owners, n \in Segments, t \in Others \cup {<<>>} : p = <<o, n, t>>
    <2>1. PICK o \in Owners, n \in Segments, t \in Others \cup {<<>>} : p = <<o, n, t>>
        BY <1>2
    <2>2. o \in Texts /\ n \in Texts /\ t \in Texts
        BY DEF Texts, Segments
    <2> QED BY <2>1, <2>2
<1> QED BY <1>1, <1>2 DEF Paths

(* What is between the outer slashes begins with the first segment that is *)
(* not empty, and goes on with the one behind it.                          *)
LEMMA Trimmed ==
    ASSUME NEW p \in Paths, Len(TrimSlashes(p)) >= 2,
           TrimSlashes(p)[2] # <<>>
    PROVE  LET s == Min(Full(p)) IN
           /\ Full(p) \subseteq 1 .. Len(p) /\ {s, s + 1} \subseteq Full(p)
           /\ Min(Full(p) \ {s}) = s + 1
           /\ p[s] = TrimSlashes(p)[1] /\ p[s + 1] = TrimSlashes(p)[2]
<1> DEFINE s == Min(Full(p))
           l == Max(Full(p))
           q == TrimSlashes(p)
<1>1. p \in Seq(Texts) /\ Len(p) \in 1 .. 3 /\ DOMAIN p = 1 .. Len(p) /\ Full(p) \subseteq 1 .. Len(p)
    BY PathsAreShort DEF Full
<1>2. Full(p) # {}
    <2>1. Len(<< <<>> >>) = 1
        OBVIOUS
    <2> QED BY <2>1 DEF TrimSlashes
<1>3. /\ s \in Full(p) /\ l \in Full(p)
      /\ \A k \in Full(p) : s <= k /\ k <= l
    BY <1>1, <1>2, FirstAndLast
<1>4. q = SubSeq(p, s, l)
    BY <1>2 DEF TrimSlashes
<1> HIDE DEF s, l, q
<1>5. s \in 1 .. Len(p) /\ l \in 1 .. Len(p) /\ s <= l /\ Len(p) \in Nat
    BY <1>1, <1>3
<1>6. Len(q) = l - s + 1 /\ \A k \in 1 .. Len(q) : q[k] = p[s + k - 1]
    <2>1. \A k \in s .. l : p[k] \in Texts
        BY <1>1, <1>5, ElementOfSeq
    <2>2. Len(SubSeq(p, s, l)) = l - s + 1
          /\ \A k \in 1 .. (l - s + 1) : SubSeq(p, s, l)[k] = p[s + k - 1]
        BY <1>5, <2>1, SubSeqProperties
    <2> QED BY <1>4, <2>2
<1>7. q[1] = p[s] /\ q[2] = p[s + 1] /\ s + 1 <= l
    <2>1. Len(q) >= 2
        BY DEF q
    <2> QED BY <1>5, <1>6, <2>1
<1>8. s + 1 \in Full(p)
    BY <1>1, <1>5, <1>7 DEF Full, q
<1>9. Min(Full(p) \ {s}) = s + 1
    <2>1. Full(p) \ {s} \in SUBSET (1 .. 4) /\ s + 1 \in Full(p) \ {s}
        BY <1>1, <1>5, <1>8
    <2>2. \A k \in Full(p) \ {s} : s + 1 <= k
        BY <1>1, <1>3, <1>5
    <2>3. Min(Full(p) \ {s}) \in Full(p) \ {s} /\ Min(Full(p) \ {s}) <= s + 1
        BY <2>1, FirstAndLast
    <2>4. Min(Full(p) \ {s}) \in 1 .. Len(p)
        BY <1>1, <2>3
    <2> QED BY <1>5, <2>2, <2>3, <2>4
<1> QED BY <1>1, <1>3, <1>7, <1>8, <1>9 DEF s, q

(* An account and a name of GitHub are what ParseSlug takes them for.      *)
LEMMA SlugOfNames ==
    ASSUME NEW o \in Owners, NEW n \in Names, NEW m \in {n, n \o DotGit}
    PROVE  ParseSlug(<<o, m>>) = Ref(o, n) /\ o # <<>> /\ GoodOwner(o)
<1>1. GoodOwner(o) /\ o # <<>>
    BY RefsAssumption DEF GoodOwner
<1>2. InName(m) /\ TrimGit(m) = n /\ n \notin {<<>>, <<".">>, <<".", ".">>}
    BY GitIsTrimmed, RefsAssumption
<1>3. Len(<<o, m>>) = 2 /\ <<o, m>>[1] = o /\ <<o, m>>[2] = m
    OBVIOUS
<1> QED BY <1>1, <1>2, <1>3 DEF ParseSlug

(* The server reads a text that means a repository as that repository, but *)
(* for a host in capitals (repo.go:54-89).                                 *)
LEMMA ParsedRight ==
    ASSUME NEW in \in Inputs, NEW o \in Owners, NEW n \in Names, Means(in, o, n),
           in.prefix \notin Capitals
    PROVE  Parse(in) = Ref(o, n)
<1> DEFINE p == TrimSlashes(in.path)
<1>1. Len(p) >= 2 /\ p[1] = o /\ p[2] \in {n, n \o DotGit}
    BY DEF Means
<1>2. TrimGit(p[2]) = n /\ p[2] # <<>>
    <2>1. n # <<>> /\ n \o DotGit # <<>>
        BY GitIsTrimmed DEF InName
    <2> QED BY <1>1, <2>1, GitIsTrimmed
<1>3. CASE in.prefix \in Hosted
    <2>1. Parse(in) = ParseSlug(<<p[1], TrimGit(p[2])>>)
        BY <1>1, <1>3 DEF Parse
    <2> QED BY <1>1, <1>2, <2>1, SlugOfNames
<1>4. CASE in.prefix \notin Hosted
    <2>1. in.prefix = "" /\ ~in.query /\ Len(in.path) = 2 /\ in.path \in Paths
        BY <1>4 DEF Means, Inputs
    <2>2. Parse(in) = ParseSlug(in.path)
        BY <1>4, <2>1 DEF Parse
    <2> DEFINE s == Min(Full(in.path))
    <2>3. /\ {s, s + 1} \subseteq 1 .. 2 /\ in.path[s] = o /\ in.path[s + 1] = p[2]
        BY <1>1, <1>2, <2>1, Trimmed
    <2>4. s = 1
        BY <2>3
    <2>5. in.path[1] = o /\ in.path[2] = p[2]
        BY <2>3, <2>4
    <2>6. in.path = <<o, p[2]>>
        <3>1. in.path \in Seq(Texts)
            BY <2>1, PathsAreShort
        <3>2. in.path[1] \in Texts /\ in.path[2] \in Texts
            <4>1. 1 \in 1 .. 2 /\ 2 \in 1 .. 2
                OBVIOUS
            <4>2. Len(in.path) = 2
                BY <2>1
            <4>3. 1 \in 1 .. Len(in.path) /\ 2 \in 1 .. Len(in.path)
                BY ONLY <4>1, <4>2
            <4> QED BY ONLY <3>1, <4>3, ElementOfSeq
        <3>3. <<o, p[2]>> \in Seq(Texts) /\ Len(<<o, p[2]>>) = 2
              /\ <<o, p[2]>>[1] = o /\ <<o, p[2]>>[2] = p[2]
            BY <2>5, <3>2
        <3>4. \A k \in 1 .. 2 : k = 1 \/ k = 2
            OBVIOUS
        <3>5. \A k \in 1 .. 2 : in.path[k] = <<o, p[2]>>[k]
            BY <2>5, <3>3, <3>4
        <3> QED BY ONLY <2>1, <3>1, <3>3, <3>5, SeqEqual
    <2> QED BY <1>1, <2>2, <2>6, SlugOfNames
<1> QED BY <1>3, <1>4

(* With its host in capitals it reads none.                                *)
LEMMA CapitalsAreRefused ==
    ASSUME NEW in, in.prefix \in Capitals
    PROVE  Parse(in) = NoRef
BY DEF Parse, Capitals, Hosted

(* The page reads it so too, or says that it is none (repo.ts:15-43).      *)
LEMMA PageReadsRight ==
    ASSUME NEW in \in Inputs, NEW o \in Owners, NEW n \in Names, Means(in, o, n),
           parseRepo(in) # NoRef
    PROVE  parseRepo(in) = Ref(o, n)
<1> DEFINE p == TrimSlashes(in.path)
           s == Min(Full(in.path))
<1>1. Len(p) >= 2 /\ p[1] = o /\ p[2] \in {n, n \o DotGit} /\ in.path \in Paths
    BY DEF Means, Inputs
<1>2. TrimGit(p[2]) = n /\ p[2] # <<>> /\ o # <<>>
    <2>1. n # <<>> /\ n \o DotGit # <<>>
        BY GitIsTrimmed DEF InName
    <2> QED BY <1>1, <2>1, GitIsTrimmed, SlugOfNames
<1>3. /\ Full(in.path) \subseteq 1 .. Len(in.path) /\ {s, s + 1} \subseteq Full(in.path)
      /\ Min(Full(in.path) \ {s}) = s + 1
      /\ in.path[s] = o /\ in.path[s + 1] = p[2]
    BY <1>1, <1>2, Trimmed
<1>4. CASE in.prefix # "www.github.com/"
    <2>1. parseRepo(in) = Ref(in.path[s], TrimGit(in.path[Min(Full(in.path) \ {s})]))
        BY <1>4 DEF parseRepo
    <2> HIDE DEF s
    <2> QED BY <1>2, <1>3, <2>1
(* The host is a segment of its own: three are no slug.                    *)
<1>5. CASE in.prefix = "www.github.com/"
    <2> DEFINE path == <<Www>> \o in.path
               k == Min(Full(path))
               j == Min(Full(path) \ {k})
    <2>1. in.path \in Seq(Texts) /\ Len(in.path) \in 1 .. 3
        BY <1>1, PathsAreShort
    <2>2. Www # <<>>
        BY DEF Www
    <2>3. /\ Len(path) = Len(in.path) + 1 /\ path[1] = Www
          /\ \A m \in 1 .. Len(in.path) : path[m + 1] = in.path[m]
          /\ DOMAIN path = 1 .. Len(in.path) + 1
        <3>1. <<Www>> \in Seq(Texts \cup {Www}) /\ in.path \in Seq(Texts \cup {Www})
              /\ Len(<<Www>>) = 1 /\ <<Www>>[1] = Www
            BY <2>1, SeqMonotonic
        <3> QED BY <2>1, <3>1, ConcatProperties, LenProperties
    <2>4. s \in 1 .. 3 /\ {1, s + 1, s + 2} \subseteq Full(path)
        <3>1. s \in 1 .. Len(in.path) /\ s + 1 \in 1 .. Len(in.path)
            BY <1>3
        <3>2. path[s + 1] # <<>> /\ path[(s + 1) + 1] # <<>>
            BY <1>2, <1>3, <2>3, <3>1
        <3> HIDE DEF path, s
        <3>3. s \in 1 .. 3 /\ {1, s + 1, s + 2} \subseteq DOMAIN path
            BY <2>1, <2>3, <3>1
        <3>4. (s + 1) + 1 = s + 2
            BY <3>3
        <3>5. path[1] # <<>> /\ path[s + 1] # <<>> /\ path[s + 2] # <<>>
            BY <2>2, <2>3, <3>2, <3>4
        <3> QED BY <3>3, <3>5 DEF Full
    <2>5. parseRepo(in) # NoRef => Full(path) = {k, j}
        BY <1>5 DEF parseRepo, Unread
    <2> HIDE DEF k, j, path, s
    <2>6. s + 1 # 1 /\ s + 2 # 1 /\ s + 1 # s + 2
        BY <2>4
    <2> QED BY <2>4, <2>5, <2>6
<1> QED BY <1>4, <1>5

(* And it does read it, unless the form or the name is one it does not     *)
(* know (repo.ts:8, 20-27).                                                *)
LEMMA PageReads ==
    ASSUME NEW in \in Inputs, NEW o \in Owners, NEW n \in Names, Means(in, o, n),
           in.prefix \notin Unread, n[1] \in Letters
    PROVE  parseRepo(in) # NoRef
<1> DEFINE p == TrimSlashes(in.path)
           s == Min(Full(in.path))
           j == Min(Full(in.path) \ {s})
           known == in.prefix \in (Hosted \cup Capitals) \ Unread
<1>1. Len(p) >= 2 /\ p[1] = o /\ p[2] \in {n, n \o DotGit} /\ in.path \in Paths
    BY DEF Means, Inputs
<1>2. TrimGit(p[2]) = n /\ p[2] # <<>> /\ o # <<>>
    <2>1. n # <<>> /\ n \o DotGit # <<>>
        BY GitIsTrimmed DEF InName
    <2> QED BY <1>1, <2>1, GitIsTrimmed, SlugOfNames
<1>3. /\ Full(in.path) \subseteq 1 .. Len(in.path) /\ {s, s + 1} \subseteq Full(in.path)
      /\ j = s + 1
      /\ in.path[s] = o /\ in.path[s + 1] = p[2]
    BY <1>1, <1>2, Trimmed
<1>4. Len(in.path) \in 1 .. 3
    BY <1>1, PathsAreShort
<1>5. Segment(o) /\ Segment(n)
    <2>1. o \in Seq(Letters \cup {"-"}) /\ o # <<>> /\ o[1] \in Letters
        BY RefsAssumption DEF GoodOwner
    <2>2. Letters \cup {"-"} \subseteq Letters \cup {"-", ".", "_"}
        OBVIOUS
    <2>3. o \in Seq(Letters \cup {"-", ".", "_"})
        BY <2>1, <2>2, SeqMonotonic
    <2> QED BY <2>1, <2>3, GitIsTrimmed DEF Segment, InName
<1>6. in.prefix # "www.github.com/"
    BY DEF Unread
<1>7. known \/ (in.prefix = "" /\ Len(in.path) = 2)
    BY DEF Means
<1>8. known \/ Full(in.path) = {s, j}
    <2>1. CASE Len(in.path) = 2
        <3> HIDE DEF s, j
        <3> QED BY <1>3, <1>4, <2>1
    <2> QED BY <1>7, <2>1
<1>9. Full(in.path) # {} /\ Full(in.path) # {s}
    <2> HIDE DEF s, j
    <2> QED BY <1>3, <1>4
<1>10. Segment(in.path[s]) /\ Segment(TrimGit(in.path[j]))
    <2> HIDE DEF s, j
    <2> QED BY <1>2, <1>3, <1>5
<1>11. parseRepo(in) = Ref(in.path[s], TrimGit(in.path[j]))
    BY <1>6, <1>7, <1>8, <1>9, <1>10 DEF parseRepo
<1>12. Ref(o, n) # NoRef
    BY <1>2 DEF Ref, NoRef
<1> HIDE DEF s, j
<1> QED BY <1>2, <1>3, <1>11, <1>12

(* The slug that the page sends reads as what the page has read.           *)
Passed ==
    /\ input \in Inputs
    /\ sent \in {Nothing, input} \/ (parseRepo(input) # NoRef /\ sent = Slug(parseRepo(input)))
    /\ resolved # Nothing => sent # Nothing /\ resolved = Parse(sent)
    /\ shown => parseRepo(input) = NoRef

(* What is built is the repository that was named, for any accounts and    *)
(* names of GitHub's, and whatever else is typed; who is refused has sent  *)
(* the host in capitals, or typed one of the two forms or a name that the  *)
(* page does not take (repo.go:54-89, repo.ts:8-43).                       *)
THEOREM NamedIsBuilt == RefsSpec => []RightRepository
<1>1. RefsInit => Passed
    BY DEF RefsInit, Passed
<1>2. Passed /\ [RefsNext]_refsVars => Passed'
    BY DEF Passed, RefsNext, Submit, SendAsIs, Create, refsVars
<1>3. Passed => RightRepository
    <2> SUFFICES ASSUME Passed, NEW o \in Owners, NEW n \in Names, Means(input, o, n)
                 PROVE  /\ resolved # Nothing =>
                              \/ resolved = Ref(o, n)
                              \/ resolved = NoRef /\ sent.prefix \in Capitals
                        /\ shown => input.prefix \in Unread \/ n[1] \notin Letters
        BY DEF RightRepository
    <2> DEFINE Right == \/ resolved = Ref(o, n)
                        \/ resolved = NoRef /\ sent.prefix \in Capitals
    <2>1. ASSUME resolved # Nothing, sent = input PROVE Right
        <3>1. resolved = Parse(input) /\ input \in Inputs
            BY <2>1 DEF Passed
        <3> QED BY <2>1, <3>1, ParsedRight, CapitalsAreRefused
    <2>2. ASSUME resolved # Nothing, parseRepo(input) # NoRef, sent = Slug(parseRepo(input)) PROVE Right
        <3>1. sent = Slug(Ref(o, n))
            BY <2>2, PageReadsRight DEF Passed
        <3>2. Parse(sent) = ParseSlug(<<o, n>>)
            BY <3>1 DEF Slug, Ref, Parse, Hosted
        <3> QED BY <2>2, <3>2, SlugOfNames DEF Passed
    <2>3. shown => input.prefix \in Unread \/ n[1] \notin Letters
        BY PageReads DEF Passed
    <2> QED BY <2>1, <2>2, <2>3 DEF Passed
<1> QED BY <1>1, <1>2, <1>3, PTL DEF RefsSpec

-------------------------------------------------------------------------------
(* Commits.                                                                *)

(* Every variable has its type, and NoOlder: the inductive invariant.      *)
Inductive == TypeOK /\ NoOlder

(* The numbers of commits are natural numbers.                             *)
LEMMA CommitsAreNumbers ==
    /\ MaxHead \in Nat /\ MaxHead >= 1
    /\ \A c \in Commit : c \in Nat /\ c >= 1 /\ c \in 0 .. MaxHead
    /\ 0 \in 0 .. MaxHead /\ \A n \in 0 .. MaxHead : n \in Nat
    /\ 1 \in Commit
  BY CommitsAssumption DEF Commit

(* The initial states satisfy it: nothing has been asked, recorded, begun. *)
LEMMA CommitsBegin == CommitsInit => Inductive
  BY CommitsAreNumbers DEF CommitsInit, Inductive, TypeOK, NoOlder, Build

(* The types are kept by every step.                                       *)
LEMMA TypesKept == TypeOK /\ NoOlder /\ [CommitsNext]_commitsVars => TypeOK'
  <1> SUFFICES ASSUME TypeOK, NoOlder, [CommitsNext]_commitsVars PROVE TypeOK'
    OBVIOUS
  <1> USE CommitsAreNumbers
  <1>1. CASE Push
    BY <1>1, CommitsAssumption DEF TypeOK, Push, visitorVars, buildVars, Commit
  <1>2. ASSUME NEW v \in Visitor, Ask(v) \/ Refuse(v) \/ ResolveRepository(v) PROVE TypeOK'
    BY <1>2 DEF TypeOK, Ask, Refuse, ResolveRepository, To, buildVars
  <1>3. ASSUME NEW v \in Visitor, ResolveCommit(v) PROVE TypeOK'
    BY <1>3 DEF TypeOK, ResolveCommit, To, buildVars
  <1>4. ASSUME NEW v \in Visitor, Ensure(v) PROVE TypeOK'
    <2>1. BuildOf(v)[2] = sha[v]
      BY DEF BuildOf
    <2>2. sha' = [sha EXCEPT ![v] = sha[v]] /\ sha[v] \in 0 .. MaxHead
      BY <1>4, <2>1 DEF Ensure, TypeOK
    <2> QED
      BY <1>4, <2>2 DEF TypeOK, Ensure, To
  <1>5. ASSUME NEW v \in Visitor, Restore(v) PROVE TypeOK'
    <2>1. <<wants[v], sha[v]>> \in Build
      BY <1>5 DEF Restore, TypeOK, Build
    <2> QED
      BY <1>5, <2>1 DEF TypeOK, Restore, To, buildVars
  <1>6. ASSUME NEW v \in Visitor, Rebuild(v) PROVE TypeOK'
    BY <1>6 DEF TypeOK, Rebuild, visitorVars
  <1>7. ASSUME NEW b \in Build, Clone(b) \/ Succeed(b) \/ Fail(b) PROVE TypeOK'
    BY <1>7 DEF TypeOK, Clone, Succeed, Fail, visitorVars
  <1>8. CASE UNCHANGED commitsVars
    BY <1>8 DEF commitsVars, visitorVars, buildVars, TypeOK
  <1> QED
    BY <1>1, <1>2, <1>3, <1>4, <1>5, <1>6, <1>7, <1>8 DEF CommitsNext

(* So is the order of the commits: the head only moves on, and a sha or a  *)
(* tree is taken from it.                                                  *)
LEMMA OrderKept == TypeOK /\ NoOlder /\ [CommitsNext]_commitsVars => NoOlder'
  <1> SUFFICES ASSUME TypeOK, NoOlder, [CommitsNext]_commitsVars PROVE NoOlder'
    OBVIOUS
  <1> USE CommitsAreNumbers
  <1>1. CASE Push
    BY <1>1 DEF TypeOK, NoOlder, Push, visitorVars, buildVars, Build
  <1>2. ASSUME NEW v \in Visitor, Ask(v) \/ Refuse(v) \/ ResolveRepository(v) PROVE NoOlder'
    BY <1>2 DEF TypeOK, NoOlder, Ask, Refuse, ResolveRepository, To, buildVars
  <1>3. ASSUME NEW v \in Visitor, ResolveCommit(v) PROVE NoOlder'
    BY <1>3 DEF TypeOK, NoOlder, ResolveCommit, To, buildVars
  <1>4. ASSUME NEW v \in Visitor, Ensure(v) PROVE NoOlder'
    <2>1. BuildOf(v)[2] = sha[v] /\ asked[v] <= sha[v] /\ sha[v] <= head
      BY <1>4 DEF BuildOf, Ensure, NoOlder
    <2>2. sha' = [sha EXCEPT ![v] = sha[v]] /\ sha' = sha
      BY <1>4, <2>1 DEF Ensure, TypeOK
    <2>3. \A u \in Visitor : pc'[u] \in {"ensure", "joined", "visiting"} => pc[u] \in {"ensure", "joined", "visiting"}
      BY <1>4 DEF Ensure, To, TypeOK
    <2>4. \A b \in Build : status'[b] # status[b] \/ run'[b] # run[b] =>
                b = BuildOf(v) /\ status'[b] = "queued" /\ run'[b] = "queued"
      BY <1>4 DEF Ensure, TypeOK
    <2>5. tree' = tree /\ head' = head /\ asked' = asked
      BY <1>4 DEF Ensure
    <2> QED
      BY <2>1, <2>2, <2>3, <2>4, <2>5 DEF NoOlder
  <1>5. ASSUME NEW v \in Visitor, Restore(v) PROVE NoOlder'
    BY <1>5 DEF TypeOK, NoOlder, Restore, To, buildVars
  <1>6. ASSUME NEW v \in Visitor, Rebuild(v) PROVE NoOlder'
    BY <1>6 DEF TypeOK, NoOlder, Rebuild, visitorVars
  <1>7. ASSUME NEW b \in Build, Clone(b) PROVE NoOlder'
    BY <1>7 DEF TypeOK, NoOlder, Clone, visitorVars
  <1>8. ASSUME NEW b \in Build, Succeed(b) \/ Fail(b) PROVE NoOlder'
    BY <1>8 DEF TypeOK, NoOlder, Succeed, Fail, visitorVars
  <1>9. CASE UNCHANGED commitsVars
    BY <1>9 DEF commitsVars, visitorVars, buildVars, NoOlder
  <1> QED
    BY <1>1, <1>2, <1>3, <1>4, <1>5, <1>6, <1>7, <1>8, <1>9 DEF CommitsNext

(* A restore gives a tree no older than the sha carried (repo.go:129,      *)
(* builder.go:275): what the history variable got holds while visiting.    *)
LEMMA GotKept == TypeOK /\ NoOlder /\ VisitorsGetNoOlder /\ [CommitsNext]_commitsVars => VisitorsGetNoOlder'
  <1> SUFFICES ASSUME TypeOK, NoOlder, VisitorsGetNoOlder, [CommitsNext]_commitsVars PROVE VisitorsGetNoOlder'
    OBVIOUS
  <1> USE CommitsAreNumbers
  <1>1. CASE Push
    BY <1>1 DEF VisitorsGetNoOlder, Push, visitorVars
  <1>2. ASSUME NEW v \in Visitor,
               Ask(v) \/ Refuse(v) \/ ResolveRepository(v) \/ ResolveCommit(v) \/ Ensure(v) \/ Rebuild(v)
        PROVE VisitorsGetNoOlder'
    BY <1>2 DEF TypeOK, VisitorsGetNoOlder, Ask, Refuse, ResolveRepository, ResolveCommit, Ensure, Rebuild, To, visitorVars
  <1>3. ASSUME NEW v \in Visitor, Restore(v) PROVE VisitorsGetNoOlder'
    <2> DEFINE b == <<wants[v], sha[v]>>
    <2>1. b \in Build /\ status[b] = "ready" /\ tree[b] \in Nat /\ sha[v] \in Nat /\ asked[v] \in Nat
      BY <1>3 DEF Restore, TypeOK, Build
    <2>2. asked[v] <= sha[v] /\ sha[v] <= tree[b]
      BY <1>3, <2>1 DEF Restore, NoOlder
    <2>3. asked[v] <= tree[b]
      BY <2>1, <2>2
    <2> QED
      BY <1>3, <2>3 DEF Restore, To, TypeOK, VisitorsGetNoOlder
  <1>4. ASSUME NEW b \in Build, Clone(b) \/ Succeed(b) \/ Fail(b) PROVE VisitorsGetNoOlder'
    BY <1>4 DEF Clone, Succeed, Fail, visitorVars, VisitorsGetNoOlder
  <1>5. CASE UNCHANGED commitsVars
    BY <1>5 DEF commitsVars, visitorVars, VisitorsGetNoOlder
  <1> QED
    BY <1>1, <1>2, <1>3, <1>4, <1>5 DEF CommitsNext

(* Every behaviour keeps the types and the order of the commits.           *)
THEOREM CommitsInvariant == CommitsSpec => []Inductive
  <1>1. Inductive /\ [CommitsNext]_commitsVars => Inductive'
    BY TypesKept, OrderKept DEF Inductive
  <1> QED
    BY CommitsBegin, <1>1, PTL DEF CommitsSpec

(* Nobody is shown an older commit than the head they asked at, whoever    *)
(* asks, however they spell it and however often it is built.              *)
THEOREM NobodyGetsOlder == CommitsSpec => []VisitorsGetNoOlder
  <1>1. CommitsInit => VisitorsGetNoOlder
    BY DEF CommitsInit, VisitorsGetNoOlder
  <1>2. Inductive /\ VisitorsGetNoOlder /\ [CommitsNext]_commitsVars => VisitorsGetNoOlder'
    BY GotKept DEF Inductive
  <1> QED
    BY CommitsInvariant, <1>1, <1>2, PTL DEF CommitsSpec

-------------------------------------------------------------------------------
(* Recipes. Lists first.                                                   *)

LEMMA ListFromSeq ==
    ASSUME NEW S, NEW s \in Seq(S)
    PROVE  IsList(s)
BY DEF IsList, ToSet

LEMMA ListFacts ==
    ASSUME NEW s, IsList(s)
    PROVE  /\ s \in Seq(ToSet(s))
           /\ Len(s) \in Nat /\ DOMAIN s = 1 .. Len(s)
           /\ \A n \in 1 .. Len(s) : s[n] \in ToSet(s)
BY DEF IsList, ToSet

LEMMA ShortLists ==
    ASSUME NEW a, NEW b
    PROVE  IsList(<<>>) /\ IsList(<<a>>) /\ IsList(<<a, b>>)
<1>1. <<>> \in Seq({}) /\ <<a>> \in Seq({a}) /\ <<a, b>> \in Seq({a, b})
    OBVIOUS
<1> QED BY <1>1, ListFromSeq

(* What a detector returns is a recipe.                                    *)

LEMMA ShellIsRecipe ==
    ASSUME NEW install, IsList(install), NEW env
    PROVE  IsRecipe(Shell(install, env))
BY DEF IsRecipe, Shell

LEMMA WebIsRecipe ==
    ASSUME NEW install, IsList(install), NEW start, NEW port, NEW env
    PROVE  IsRecipe(Web(install, start, port, env))
BY DEF IsRecipe, Web

LEMMA NodeIsRecipe ==
    ASSUME NEW m, detectNode(m) # None
    PROVE  IsRecipe(detectNode(m))
<1> DEFINE install == <<packageManager(m).install>>
           env == [HOST |-> "0.0.0.0", CI |-> "true", PORT |-> PortText(nodeFramework(m).port)]
<1>1. \/ detectNode(m) = Shell(install, nodeEnv)
      \/ detectNode(m) = Web(install, nodeStart(m), nodeFramework(m).port, env)
    BY DEF detectNode
<1>2. IsList(install)
    BY ShortLists
<1> HIDE DEF install, env
<1> QED BY <1>1, <1>2, ShellIsRecipe, WebIsRecipe

LEMMA PythonIsRecipe ==
    ASSUME NEW m, NEW deps, NEW install
    PROVE  IsRecipe(pythonRecipe(m, deps, install))
<1> DEFINE migrate == <<"python3", "manage", "migrate", "--noinput">>
<1>1. PICK env, start, port, env2 :
        pythonRecipe(m, deps, install) \in {Shell(<<install>>, env),
            Web(<<install>>, start, port, env2), Web(<<install, migrate>>, start, port, env2)}
    BY DEF pythonRecipe
<1> HIDE DEF migrate
<1> QED BY <1>1, ShortLists, ShellIsRecipe, WebIsRecipe

LEMMA On8080IsRecipe ==
    ASSUME NEW install, IsList(install), NEW start
    PROVE  IsRecipe(On8080(install, start))
<1> DEFINE port == 8080
<1>1. On8080(install, start) = Web(install, start, port, Listen8080)
    BY DEF On8080
<1> HIDE DEF port
<1> QED BY <1>1, WebIsRecipe

LEMMA GoIsRecipe ==
    ASSUME NEW m, detectGo(m) # None
    PROVE  IsRecipe(detectGo(m))
<1> DEFINE download == <<"go", "mod", "download">>
           start == <<"go", "run", IF "main.go" \notin m.files /\ m.cmds # <<>> THEN m.cmds[1] ELSE ".">>
           env == [PORT |-> "8080", HOST |-> "0.0.0.0", ADDR |-> ":8080"]
           port == 8080
<1>1. detectGo(m) = Web(<<download>>, start, port, env)
    BY DEF detectGo
<1> HIDE DEF download, start, env, port
<1> QED BY <1>1, ShortLists, WebIsRecipe

LEMMA CargoIsRecipe ==
    ASSUME NEW m, detectCargo(m) # None
    PROVE  IsRecipe(detectCargo(m))
<1> DEFINE build == <<"cargo", "build">>
           start == <<"cargo", "run">>
<1>1. detectCargo(m) = On8080(<<build>>, start)
    BY DEF detectCargo
<1> HIDE DEF build, start
<1> QED BY <1>1, ShortLists, On8080IsRecipe

LEMMA ProcfileIsRecipe ==
    ASSUME NEW m, detectProcfile(m) # None
    PROVE  IsRecipe(detectProcfile(m))
<1> DEFINE start == [k \in DOMAIN m.procfile |->
                        IF m.procfile[k] = "$PORT" THEN "8080" ELSE m.procfile[k]]
<1>1. detectProcfile(m) = On8080(<<>>, start)
    BY DEF detectProcfile
<1> HIDE DEF start
<1> QED BY <1>1, ShortLists, On8080IsRecipe

LEMMA MakefileIsRecipe ==
    ASSUME NEW m, detectMakefile(m) # None
    PROVE  IsRecipe(detectMakefile(m))
BY ShortLists, On8080IsRecipe DEF detectMakefile

LEMMA StaticIsRecipe ==
    ASSUME NEW m, detectStatic(m) # None
    PROVE  IsRecipe(detectStatic(m))
<1> DEFINE start == <<"python3", "-m", "http.server", "8080", "--bind", "0.0.0.0">>
           port == 8080
<1>1. detectStatic(m) = Web(<<>>, start, port, <<>>)
    BY DEF detectStatic
<1> HIDE DEF start, port
<1> QED BY <1>1, ShortLists, WebIsRecipe

LEMMA TryIsRecipe ==
    ASSUME NEW m \in Repos, NEW k \in DOMAIN detectors, Try(detectors[k], m) # None
    PROVE  IsRecipe(Try(detectors[k], m))
<1>1. CASE detectors[k] = "trylive.yaml"
    <2>1. Try(detectors[k], m) = detectTryliveYAML(m) /\ m.yaml \notin {None, Malformed}
        BY <1>1 DEF Try, detectTryliveYAML
    <2>2. IsRecipe(m.yaml)
        BY <2>1, RecipesAssumption
    <2> QED BY <2>1, <2>2 DEF detectTryliveYAML, IsRecipe
<1>2. CASE detectors[k] = "package.json"
    BY <1>2, NodeIsRecipe DEF Try
<1>3. CASE detectors[k] = "pyproject.toml"
    BY <1>3, PythonIsRecipe DEF Try, detectPyProject
<1>4. CASE detectors[k] = "requirements.txt"
    BY <1>4, PythonIsRecipe DEF Try, detectRequirements
<1>5. CASE detectors[k] = "go.mod"
    BY <1>5, GoIsRecipe DEF Try
<1>6. CASE detectors[k] = "Cargo.toml"
    BY <1>6, CargoIsRecipe DEF Try
<1>7. CASE detectors[k] = "Procfile"
    BY <1>7, ProcfileIsRecipe DEF Try
<1>8. CASE detectors[k] = "Makefile"
    BY <1>8, MakefileIsRecipe DEF Try
<1>9. CASE detectors[k] = "index.html"
    BY <1>9, StaticIsRecipe DEF Try
<1> QED BY <1>1, <1>2, <1>3, <1>4, <1>5, <1>6, <1>7, <1>8, <1>9 DEF detectors

-------------------------------------------------------------------------------
(* A list that keeps its head and takes new commands that were checked is  *)
(* checked, and no longer than both.                                       *)
LEMMA RepairKeepsChecks ==
    ASSUME NEW list, IsList(list), NEW fix, IsList(fix), NEW k \in 1 .. Len(list),
           \A c \in ToSet(list) : validateCommand(c),
           \A c \in ToSet(fix) : validateCommand(c)
    PROVE  LET new == SubSeq(list, 1, k - 1) \o fix
           IN  /\ IsList(new)
               /\ Len(new) = k - 1 + Len(fix)
               /\ \A c \in ToSet(new) : validateCommand(c)
<1> DEFINE S == ToSet(list) \cup ToSet(fix)
           kept == SubSeq(list, 1, k - 1)
           new == kept \o fix
<1>0. list \in Seq(S) /\ fix \in Seq(S) /\ Len(list) \in Nat /\ k \in Nat
    BY ListFacts
<1>1. /\ kept \in Seq(S) /\ Len(kept) = k - 1
      /\ \A n \in 1 .. k - 1 : kept[n] = list[n]
    BY <1>0, SubSeqProperties
<1>2. /\ new \in Seq(S) /\ Len(new) = k - 1 + Len(fix)
      /\ \A n \in 1 .. Len(new) : new[n] = IF n <= k - 1 THEN kept[n] ELSE fix[n - (k - 1)]
    BY <1>0, <1>1, ConcatProperties
<1>3. ASSUME NEW n \in 1 .. Len(new) PROVE validateCommand(new[n])
    <2>1. CASE n <= k - 1
        <3>1. new[n] = list[n] /\ n \in 1 .. Len(list)
            BY <1>0, <1>1, <1>2, <2>1
        <3>2. list[n] \in ToSet(list)
            BY <3>1, ListFacts
        <3> QED BY <3>1, <3>2
    <2>2. CASE n > k - 1
        <3>1. new[n] = fix[n - (k - 1)] /\ n - (k - 1) \in 1 .. Len(fix)
            BY <1>0, <1>2, <2>2
        <3>2. fix[n - (k - 1)] \in ToSet(fix)
            BY <3>1, ListFacts
        <3> QED BY <3>1, <3>2
    <2> QED BY <2>1, <2>2
<1>4. \A c \in ToSet(new) : \E n \in 1 .. Len(new) : c = new[n]
    BY <1>2 DEF ToSet
<1>5. IsList(new)
    BY <1>2, ListFromSeq
<1> HIDE DEF new
<1>6. \A c \in ToSet(new) : validateCommand(c)
    BY <1>3, <1>4
<1> QED BY <1>2, <1>5, <1>6 DEF new

-------------------------------------------------------------------------------
(* Every command of a recipe with a name was checked, by Validate or by    *)
(* Repair, and a repair comes after at least one command that was there.   *)
Stages == {"detect", "infer", "install", "start", "failed", "unsupported"}

RecipesInv ==
    /\ stage \in Stages
    /\ i \in Nat \ {0} /\ repairs \in Nat
    /\ IsRecipe(rcp)
    /\ stage \in {"detect", "infer"} => i = 1 /\ repairs = 0
    /\ Named => /\ \A c \in ToSet(rcp.install) : validateCommand(c)
                /\ rcp.start # <<>> => validateCommand(rcp.start)
                /\ Len(rcp.install) <= MaxInstall + repairs * (MaxInstall - 1)

LEMMA MaxInstallIsPositive == MaxInstall \in Nat \ {0}
BY RecipesAssumption

LEMMA NameKeepsInv ==
    ASSUME NEW d, NEW r, IsRecipe(r), RecipesInv, Name(d, r),
           stage \in {"detect", "infer"}, UNCHANGED <<i, repairs>>
    PROVE  RecipesInv'
<1>1. i = 1 /\ repairs = 0
    BY DEF RecipesInv
<1>2. CASE Validate(r)
    <2>1. rcp' = r /\ stage' = "install"
        BY <1>2 DEF Name
    <2>2. /\ \A c \in ToSet(r.install) : validateCommand(c)
          /\ r.start # <<>> => validateCommand(r.start)
          /\ Len(r.install) <= MaxInstall
        BY <1>2 DEF Validate
    <2>3. MaxInstall + 0 * (MaxInstall - 1) = MaxInstall
        BY MaxInstallIsPositive
    <2> QED BY <1>1, <2>1, <2>2, <2>3 DEF RecipesInv, Stages, Named
<1>3. CASE ~Validate(r)
    BY <1>1, <1>3 DEF Name, RecipesInv, Stages, Named
<1> QED BY <1>2, <1>3

LEMMA DetectKeepsInv ==
    ASSUME RecipesInv, repo \in Repos, RunDetect
    PROVE  RecipesInv'
<1>1. ASSUME NEW k \in Detect(repo), Name(detectors[k], Try(detectors[k], repo))
      PROVE  RecipesInv'
    <2>1. IsRecipe(Try(detectors[k], repo))
        BY <1>1, TryIsRecipe DEF Detect
    <2> QED BY <1>1, <2>1, NameKeepsInv DEF RunDetect
<1>2. CASE stage' = "infer" /\ UNCHANGED <<detector, rcp>>
    BY <1>2 DEF RunDetect, RecipesInv, Stages, Named
<1> QED BY <1>1, <1>2 DEF RunDetect

LEMMA InferKeepsInv ==
    ASSUME RecipesInv, Infer
    PROVE  RecipesInv'
<1>1. ASSUME NEW r \in Replies \ {None}, Name("model", r)
      PROVE  RecipesInv'
    <2>1. IsRecipe(r)
        BY <1>1, RecipesAssumption
    <2> QED BY <1>1, <2>1, NameKeepsInv DEF Infer
<1>2. CASE stage' = "unsupported" /\ UNCHANGED <<detector, rcp>>
    BY <1>2 DEF Infer, RecipesInv, Stages, Named
<1> QED BY <1>1, <1>2 DEF Infer

LEMMA RepairKeepsInv ==
    ASSUME RecipesInv, InstallFails
    PROVE  RecipesInv'
<1>1. PICK k \in i .. Len(rcp.install) :
        /\ i' = k
        /\ \/ stage' = "failed" /\ UNCHANGED <<rcp, repairs>>
           \/ /\ llm /\ repairs < MaxRepairs
              /\ repairs' = repairs + 1
              /\ \E fix \in Fixes :
                  IF Repaired(fix) = None THEN stage' = "failed" /\ UNCHANGED rcp
                  ELSE /\ rcp' = [rcp EXCEPT !.install = SubSeq(@, 1, k - 1) \o fix]
                       /\ UNCHANGED stage
    BY DEF InstallFails
<1>2. /\ i \in Nat \ {0} /\ repairs \in Nat /\ IsRecipe(rcp) /\ stage = "install"
      /\ \A c \in ToSet(rcp.install) : validateCommand(c)
      /\ rcp.start # <<>> => validateCommand(rcp.start)
      /\ Len(rcp.install) <= MaxInstall + repairs * (MaxInstall - 1)
    BY DEF RecipesInv, InstallFails, Named
<1>3. IsList(rcp.install) /\ Len(rcp.install) \in Nat
    BY <1>2, ListFacts DEF IsRecipe
<1>4. k \in 1 .. Len(rcp.install) /\ i' \in Nat \ {0}
    BY <1>1, <1>2, <1>3
<1>5. CASE stage' = "failed" /\ UNCHANGED rcp /\ repairs' \in Nat
    BY <1>2, <1>4, <1>5 DEF RecipesInv, Stages, Named
<1>6. ASSUME NEW fix \in Fixes, Repaired(fix) # None, stage' = "install", repairs' = repairs + 1,
             rcp' = [rcp EXCEPT !.install = SubSeq(@, 1, k - 1) \o fix]
      PROVE  RecipesInv'
    <2> DEFINE new == SubSeq(rcp.install, 1, k - 1) \o fix
    <2>1. /\ IsList(fix) /\ Len(fix) \in 1 .. MaxInstall
          /\ \A c \in ToSet(fix) : validateCommand(c)
        BY <1>6, RecipesAssumption DEF Repaired
    <2>2. /\ IsList(new) /\ Len(new) = k - 1 + Len(fix)
          /\ \A c \in ToSet(new) : validateCommand(c)
        BY <1>2, <1>3, <1>4, <2>1, RepairKeepsChecks
    <2>3. rcp'.install = new /\ rcp'.start = rcp.start /\ IsRecipe(rcp')
        BY <1>2, <1>6, <2>2 DEF IsRecipe
    <2>4. Len(new) <= MaxInstall + (repairs + 1) * (MaxInstall - 1)
        <3>1. (repairs + 1) * (MaxInstall - 1) = repairs * (MaxInstall - 1) + (MaxInstall - 1)
            BY <1>2, MaxInstallIsPositive
        <3>2. repairs * (MaxInstall - 1) \in Int
            BY <1>2, MaxInstallIsPositive
        <3> HIDE DEF new
        <3> QED BY <1>2, <1>3, <1>4, <2>1, <2>2, <3>1, <3>2, MaxInstallIsPositive
    <2> HIDE DEF new
    <2>5. /\ repairs' \in Nat
          /\ Len(rcp'.install) <= MaxInstall + repairs' * (MaxInstall - 1)
        <3>1. repairs' = repairs + 1 /\ Len(rcp'.install) = Len(new)
            BY <1>6, <2>3
        <3>2. repairs' \in Nat
            BY <1>2, <3>1
        <3> QED BY <2>4, <3>1, <3>2
    <2>6. /\ \A c \in ToSet(rcp'.install) : validateCommand(c)
          /\ rcp'.start # <<>> => validateCommand(rcp'.start)
        BY <1>2, <2>2, <2>3
    <2> QED BY <1>4, <1>6, <2>3, <2>5, <2>6 DEF RecipesInv, Stages, Named
<1>7. CASE repairs' = repairs + 1 /\ \E fix \in Fixes :
               IF Repaired(fix) = None THEN stage' = "failed" /\ UNCHANGED rcp
               ELSE /\ rcp' = [rcp EXCEPT !.install = SubSeq(@, 1, k - 1) \o fix]
                    /\ UNCHANGED stage
    <2>1. PICK fix \in Fixes :
               IF Repaired(fix) = None THEN stage' = "failed" /\ UNCHANGED rcp
               ELSE /\ rcp' = [rcp EXCEPT !.install = SubSeq(@, 1, k - 1) \o fix]
                    /\ UNCHANGED stage
        BY <1>7
    <2>2. CASE Repaired(fix) = None
        BY <1>2, <1>5, <1>7, <2>1, <2>2
    <2>3. CASE Repaired(fix) # None
        BY <1>2, <1>6, <1>7, <2>1, <2>3
    <2> QED BY <2>2, <2>3
<1> QED BY <1>1, <1>2, <1>5, <1>7

-------------------------------------------------------------------------------
(* The invariant holds in every reachable state.                           *)
THEOREM RecipesInvariant == Spec => [](RecipesInv /\ repo \in Repos)
<1>1. Init => RecipesInv /\ repo \in Repos
    <2>1. IsRecipe(NoRecipe)
        BY ShellIsRecipe, ShortLists DEF NoRecipe
    <2> QED BY <2>1 DEF Init, RecipesInv, Stages, Named
<1>2. RecipesInv /\ repo \in Repos /\ [Next]_vars => (RecipesInv /\ repo \in Repos)'
    <2> SUFFICES ASSUME RecipesInv, repo \in Repos, [Next]_vars
                 PROVE  (RecipesInv /\ repo \in Repos)'
        OBVIOUS
    <2>1. repo' = repo
        BY DEF Next, vars, RunDetect, Infer, InstallFails, Installed
    <2>2. CASE RunDetect
        BY <2>1, <2>2, DetectKeepsInv
    <2>3. CASE Infer
        BY <2>1, <2>3, InferKeepsInv
    <2>4. CASE InstallFails
        BY <2>1, <2>4, RepairKeepsInv
    <2>5. CASE Installed
        <3>1. Len(rcp.install) + 1 \in Nat \ {0}
            BY ListFacts DEF RecipesInv, IsRecipe
        <3> QED BY <2>1, <2>5, <3>1 DEF Installed, RecipesInv, Stages, Named
    <2>6. CASE UNCHANGED vars
        BY <2>1, <2>6 DEF vars, RecipesInv, Stages, Named
    <2> QED BY <2>2, <2>3, <2>4, <2>5, <2>6 DEF Next
<1> QED BY <1>1, <1>2, PTL DEF Spec

(* Whatever named the recipe and however often the model replaced its      *)
(* commands, each command that can run was checked                         *)
(* (recipe.go:150-176, builder.go:292-301, 436-443).                       *)
THEOREM CommandsAreChecked == Spec => []OnlyCheckedCommandsRun
<1>1. RecipesInv => OnlyCheckedCommandsRun
    <2> SUFFICES ASSUME RecipesInv, Named PROVE OnlyCheckedCommandsRun
        BY DEF OnlyCheckedCommandsRun
    <2>1. \A c \in ToSet(rcp.install) \cup ({rcp.start} \ {<<>>}) : validateCommand(c)
        BY DEF RecipesInv
    <2> QED BY <2>1 DEF OnlyCheckedCommandsRun, validateCommand, RecipesInv
<1> QED BY <1>1, RecipesInvariant, PTL

-------------------------------------------------------------------------------
(* The recipe of a rule fits the repository.                               *)

(* The least element of a set of positions, and so the first that passes.  *)
Below == {ss \in Nat \X Nat : ss[1] < ss[2]}

LEMMA LeastPosition ==
    ASSUME NEW I \in SUBSET Nat, I # {}
    PROVE  Min(I) \in I
<1>1. IsWellFoundedOn(Below, Nat)
    BY NatLessThanWellFounded DEF OpToRel, Below
<1>2. PICK x \in I : \A y \in I : ~(<<y, x>> \in Below)
    <2>1. \E x \in I : \A y \in I : ~(<<y, x>> \in Below)
        BY <1>1, WFMin
    <2> QED BY <2>1
<1>3. ASSUME NEW y \in I PROVE x <= y
    <2>1. x \in Nat /\ y \in Nat
        OBVIOUS
    <2>2. <<y, x>> \notin Below
        BY <1>2
    <2>3. CASE y < x
        BY <2>1, <2>2, <2>3 DEF Below
    <2> QED BY <2>1, <2>3
<1> QED BY <1>3 DEF Min

(* What First finds is at one of the positions that pass.                  *)
LEMMA FirstFound ==
    ASSUME NEW q, NEW S, q \in Seq(S), NEW X,
           NEW k, k = IF {j \in 1 .. Len(q) : q[j] \in X} # {}
                      THEN Min({j \in 1 .. Len(q) : q[j] \in X}) ELSE 0
    PROVE  k = 0 \/ (k \in 1 .. Len(q) /\ k # 0 /\ q[k] \in X /\ q[k] \in S)
<1> DEFINE I == {j \in 1 .. Len(q) : q[j] \in X}
<1>1. CASE I # {}
    <2>1. I \in SUBSET Nat
        OBVIOUS
    <2>2. Min(I) \in I
        BY <1>1, <2>1, LeastPosition
    <2> QED BY <1>1, <2>2
<1> QED BY <1>1

(* The script that is picked is one of package.json.                       *)
LEMMA PickedScript ==
    ASSUME NEW m
    PROVE  \/ pickNodeScript(m) = ""
           \/ pickNodeScript(m) \in m.pkg.scripts \cap {"dev", "start", "serve", "preview"}
<1> DEFINE q == <<"dev", "start", "serve", "preview">>
           S == {"dev", "start", "serve", "preview"}
           I == {j \in 1 .. Len(q) : q[j] \in m.pkg.scripts}
           k == IF I # {} THEN Min(I) ELSE 0
<1>1. pickNodeScript(m) = IF k = 0 THEN "" ELSE q[k]
    BY DEF pickNodeScript, First, SelectInSeq
<1>2. q \in Seq(S)
    OBVIOUS
<1> HIDE DEF q, S
<1>3. k = 0 \/ (q[k] \in m.pkg.scripts /\ q[k] \in S)
    BY <1>2, FirstFound
<1> HIDE DEF k
<1> QED BY <1>1, <1>3 DEF S

(* The port of a framework is one of those that are told apart.            *)
NodePorts == {3000, 4200, 4321, 5173, 8000, 8080}

LEMMA FrameworkTable ==
    /\ Len(nodeFrameworks) = 17
    /\ \A k \in 1 .. 17 : nodeFrameworks[k].port \in NodePorts
<1>1. Len(nodeFrameworks) = 17
    BY DEF nodeFrameworks
<1>2. ASSUME NEW k \in 1 .. 17 PROVE nodeFrameworks[k].port \in NodePorts
    BY DEF nodeFrameworks, NodePorts
<1> QED BY <1>1, <1>2

LEMMA FrameworkPort ==
    ASSUME NEW m
    PROVE  nodeFramework(m).port \in NodePorts
<1> DEFINE other == [dep |-> "", port |-> 3000, vite |-> FALSE]
           I == {j \in 1 .. Len(nodeFrameworks) : nodeFrameworks[j].dep \in m.pkg.deps}
           k == IF I # {} THEN Min(I) ELSE 0
<1>1. nodeFramework(m) = IF k = 0 THEN other ELSE nodeFrameworks[k]
    BY DEF nodeFramework, First, SelectInSeq
<1>2. I \in SUBSET (1 .. 17)
    BY FrameworkTable
<1>3. k = 0 \/ k \in 1 .. 17
    <2>1. CASE I # {}
        <3>1. I \in SUBSET Nat
            BY <1>2
        <3>2. Min(I) \in I
            BY <2>1, <3>1, LeastPosition
        <3> QED BY <1>2, <2>1, <3>2
    <2> QED BY <2>1
<1>4. other.port = 3000
    OBVIOUS
<1> HIDE DEF k, I, other
<1> QED BY <1>1, <1>3, <1>4, FrameworkTable DEF NodePorts

(* A word that tells no app its port.                                      *)
IsPlain(w) == \A p \in AppPorts : w \notin PortWords(p)

LEMMA PlainWords ==
    \A w \in {"dev", "start", "serve", "preview", "run", "true", "1", "*", "0.0.0.0", "npx", "-y",
               "pnpm", "yarn", "bun", "npm", "--", "--host", "--port", "cargo", "make", "go", ".",
               "python3", "-m", "http.server", "--bind", "streamlit", "--server.address",
               "--server.port", "--server.headless", "manage", "runserver", "uvicorn", "flask",
               "--app", "streamlit_app", "app", "main", "Home", "demo", "server", "api", "wsgi"} : IsPlain(w)
BY DEF IsPlain, AppPorts, PortWords

LEMMA PortsApart ==
    ASSUME NEW p \in AppPorts, NEW q \in AppPorts, p # q
    PROVE  PortWords(p) \cap PortWords(q) = {}
BY DEF AppPorts, PortWords

(* If all words that tell a port tell this one, it is the one that is told.*)
LEMMA OnePortTold ==
    ASSUME NEW r, NEW p \in AppPorts, NEW words,
           words = ToSet(r.start) \cup {r.env[k] : k \in DOMAIN r.env},
           NEW w \in words, w \in PortWords(p),
           \A v \in words : IsPlain(v) \/ v \in PortWords(p)
    PROVE  PortsTold(r) = {p}
<1>1. \A q \in AppPorts : PortWords(q) \cap words # {} <=> q = p
    BY PortsApart DEF IsPlain
<1> QED BY <1>1 DEF PortsTold

(* The words of commands that are put together.                            *)
LEMMA WordsOfTwo ==
    ASSUME NEW S, NEW s \in Seq(S), NEW t \in Seq(S)
    PROVE  ToSet(s \o t) = ToSet(s) \cup ToSet(t) /\ s \o t \in Seq(S)
<1> DEFINE u == s \o t
<1>1. /\ u \in Seq(S) /\ Len(u) = Len(s) + Len(t) /\ Len(s) \in Nat /\ Len(t) \in Nat
      /\ DOMAIN s = 1 .. Len(s) /\ DOMAIN t = 1 .. Len(t) /\ DOMAIN u = 1 .. Len(u)
      /\ \A k \in 1 .. Len(s) + Len(t) : u[k] = IF k <= Len(s) THEN s[k] ELSE t[k - Len(s)]
    <2>1. u \in Seq(S) /\ Len(u) = Len(s) + Len(t)
          /\ \A k \in 1 .. Len(s) + Len(t) : u[k] = IF k <= Len(s) THEN s[k] ELSE t[k - Len(s)]
        BY ConcatProperties
    <2> HIDE DEF u
    <2>2. /\ Len(s) \in Nat /\ Len(t) \in Nat /\ DOMAIN s = 1 .. Len(s) /\ DOMAIN t = 1 .. Len(t)
        BY LenProperties
    <2>3. DOMAIN u = 1 .. Len(u)
        BY ONLY <2>1, LenProperties
    <2> QED BY ONLY <2>1, <2>2, <2>3
<1> HIDE DEF u
<1>2. \A k \in 1 .. Len(s) : u[k] = s[k] /\ k \in 1 .. Len(u)
    BY <1>1
<1>3. \A k \in 1 .. Len(t) : u[k + Len(s)] = t[k] /\ k + Len(s) \in 1 .. Len(u)
    BY <1>1
<1>4. \A k \in 1 .. Len(u) : \/ k \in 1 .. Len(s) /\ u[k] = s[k]
                             \/ k - Len(s) \in 1 .. Len(t) /\ u[k] = t[k - Len(s)]
    BY <1>1
<1>5. ToSet(u) = ToSet(s) \cup ToSet(t)
    <2>1. ASSUME NEW w \in ToSet(u) PROVE w \in ToSet(s) \cup ToSet(t)
        <3>1. PICK k \in 1 .. Len(u) : w = u[k]
            BY <1>1 DEF ToSet
        <3>2. CASE k \in 1 .. Len(s) /\ u[k] = s[k]
            <4>1. w = s[k] /\ k \in DOMAIN s
                BY <1>1, <3>1, <3>2
            <4> QED BY <4>1 DEF ToSet
        <3>3. CASE k - Len(s) \in 1 .. Len(t) /\ u[k] = t[k - Len(s)]
            <4> DEFINE l == k - Len(s)
            <4>1. w = t[l] /\ l \in DOMAIN t
                BY <1>1, <3>1, <3>3
            <4> HIDE DEF l
            <4> QED BY <4>1 DEF ToSet
        <3> QED BY <1>4, <3>2, <3>3
    <2>2. ASSUME NEW w \in ToSet(s) PROVE w \in ToSet(u)
        BY <1>1, <1>2 DEF ToSet
    <2>3. ASSUME NEW w \in ToSet(t) PROVE w \in ToSet(u)
        BY <1>1, <1>3 DEF ToSet
    <2> QED BY <2>1, <2>2, <2>3
<1> QED BY <1>1, <1>5 DEF u

LEMMA WordsOfList ==
    /\ \A a : ToSet(<<a>>) = {a}
    /\ \A a, b : ToSet(<<a, b>>) = {a, b}
    /\ \A a, b, c : ToSet(<<a, b, c>>) = {a, b, c}
    /\ \A a, b, c, d : ToSet(<<a, b, c, d>>) = {a, b, c, d}
BY DEF ToSet

(* What a start command and an environment tell an app.                    *)
EnvWords(env) == {env[k] : k \in DOMAIN env}

LEMMA WebTells ==
    ASSUME NEW install, NEW start, NEW env, NEW p \in AppPorts,
           \A v \in ToSet(start) \cup EnvWords(env) : IsPlain(v) \/ v \in PortWords(p),
           \E v \in ToSet(start) \cup EnvWords(env) : v \in PortWords(p)
    PROVE  PortsTold(Web(install, start, p, env)) = {Web(install, start, p, env).port}
<1> DEFINE r == Web(install, start, p, env)
           words == ToSet(start) \cup EnvWords(env)
<1>1. r.start = start /\ r.env = env /\ r.port = p
    BY DEF Web
<1>2. words = ToSet(r.start) \cup {r.env[k] : k \in DOMAIN r.env}
    BY <1>1 DEF EnvWords
<1>3. PICK v \in words : v \in PortWords(p)
    OBVIOUS
<1>4. \A w \in words : IsPlain(w) \/ w \in PortWords(p)
    OBVIOUS
<1> HIDE DEF r, words
<1>5. PortsTold(r) = {p}
    BY <1>2, <1>3, <1>4, OnePortTold
<1> QED BY <1>1, <1>5 DEF r

LEMMA On8080Tells ==
    ASSUME NEW install, NEW start, \A w \in ToSet(start) : IsPlain(w)
    PROVE  PortsTold(On8080(install, start)) = {On8080(install, start).port}
<1> DEFINE p == 8080
<1>1. On8080(install, start) = Web(install, start, p, Listen8080)
    BY DEF On8080
<1>2. EnvWords(Listen8080) = {"8080", "0.0.0.0"}
    BY DEF EnvWords, Listen8080
<1>3. p \in AppPorts /\ "8080" \in PortWords(p)
    BY DEF AppPorts, PortWords
<1>4. IsPlain("0.0.0.0")
    BY PlainWords
<1> HIDE DEF p
<1> QED BY <1>1, <1>2, <1>3, <1>4, WebTells

LEMMA CargoTells ==
    ASSUME NEW m, detectCargo(m) # None
    PROVE  PortsTold(detectCargo(m)) = {detectCargo(m).port}
<1> DEFINE install == <<<<"cargo", "build">>>>
           start == <<"cargo", "run">>
<1>1. detectCargo(m) = On8080(install, start)
    BY DEF detectCargo
<1>2. ToSet(start) = {"cargo", "run"}
    BY WordsOfList
<1> HIDE DEF install, start
<1>3. \A w \in ToSet(start) : IsPlain(w)
    BY <1>2, PlainWords
<1> QED BY <1>1, <1>3, On8080Tells

(* The target that is picked is one of the Makefile.                       *)
LEMMA PickedTarget ==
    ASSUME NEW m
    PROVE  \/ makeTarget(m) = ""
           \/ makeTarget(m) \in m.targets \cap {"dev", "serve", "run", "start"}
<1> DEFINE q == <<"dev", "serve", "run", "start">>
           S == {"dev", "serve", "run", "start"}
           I == {j \in 1 .. Len(q) : q[j] \in m.targets}
           k == IF I # {} THEN Min(I) ELSE 0
<1>1. makeTarget(m) = IF k = 0 THEN "" ELSE q[k]
    BY DEF makeTarget, First, SelectInSeq
<1>2. q \in Seq(S)
    OBVIOUS
<1> HIDE DEF q, S
<1>3. k = 0 \/ (q[k] \in m.targets /\ q[k] \in S)
    BY <1>2, FirstFound
<1> HIDE DEF k
<1> QED BY <1>1, <1>3 DEF S

LEMMA MakefileTells ==
    ASSUME NEW m, detectMakefile(m) # None
    PROVE  /\ PortsTold(detectMakefile(m)) = {detectMakefile(m).port}
           /\ ToSet(detectMakefile(m).start) \cap m.targets # {}
<1> DEFINE t == makeTarget(m)
           start == <<"make", t>>
<1>1. detectMakefile(m) = On8080(<<>>, start) /\ t # ""
    BY DEF detectMakefile
<1>2. t \in m.targets /\ t \in {"dev", "serve", "run", "start"}
    BY <1>1, PickedTarget
<1>3. ToSet(start) = {"make", t}
    BY WordsOfList
<1> HIDE DEF t, start
<1>4. \A w \in ToSet(start) : IsPlain(w)
    BY <1>2, <1>3, PlainWords
<1>5. On8080(<<>>, start).start = start
    BY DEF On8080, Web
<1> QED BY <1>1, <1>2, <1>3, <1>4, <1>5, On8080Tells

LEMMA GoTells ==
    ASSUME NEW m \in Repos, detectGo(m) # None
    PROVE  PortsTold(detectGo(m)) = {detectGo(m).port}
<1> DEFINE install == <<<<"go", "mod", "download">>>>
           target == IF "main.go" \notin m.files /\ m.cmds # <<>> THEN m.cmds[1] ELSE "."
           start == <<"go", "run", target>>
           env == [PORT |-> "8080", HOST |-> "0.0.0.0", ADDR |-> ":8080"]
           p == 8080
<1>1. detectGo(m) = Web(install, start, p, env)
    BY DEF detectGo
<1>2. IsPlain(target)
    BY TargetsArePaths, PlainWords DEF IsPlain
<1>3. EnvWords(env) = {"8080", "0.0.0.0", ":8080"}
    BY DEF EnvWords
<1>4. p \in AppPorts /\ "8080" \in PortWords(p) /\ ":8080" \in PortWords(p)
    BY DEF AppPorts, PortWords
<1> HIDE DEF target
<1>5. ToSet(start) = {"go", "run", target}
    BY ONLY WordsOfList
<1>6. IsPlain("go") /\ IsPlain("run") /\ IsPlain("0.0.0.0")
    BY PlainWords
<1> HIDE DEF p, env, start, install
<1> QED BY <1>1, <1>2, <1>3, <1>4, <1>5, <1>6, WebTells

LEMMA StaticTells ==
    ASSUME NEW m, detectStatic(m) # None
    PROVE  PortsTold(detectStatic(m)) = {detectStatic(m).port}
<1> DEFINE start == <<"python3", "-m", "http.server", "8080", "--bind", "0.0.0.0">>
           p == 8080
<1>1. detectStatic(m) = Web(<<>>, start, p, <<>>)
    BY DEF detectStatic
<1>2. EnvWords(<<>>) = {}
    BY DEF EnvWords
<1>3. p \in AppPorts /\ "8080" \in PortWords(p)
    BY DEF AppPorts, PortWords
<1>4. ToSet(start) = {"python3", "-m", "http.server", "8080", "--bind", "0.0.0.0"}
    BY DEF ToSet
<1>5. \A w \in {"python3", "-m", "http.server", "--bind", "0.0.0.0"} : IsPlain(w)
    BY PlainWords
<1> HIDE DEF p, start
<1> QED BY <1>1, <1>2, <1>3, <1>4, <1>5, WebTells

(* A start command of package.json: the script, and words that the         *)
(* package manager or a Vite server is given.                              *)
LEMMA ManagersRun ==
    ASSUME NEW m
    PROVE  /\ \/ packageManager(m).run = <<"npm", "run">>
              \/ \E pm \in {"pnpm", "yarn", "bun"} : packageManager(m).run = <<"npx", "-y", pm>> \o <<"run">>
           /\ packageManager(m).pass = <<>> \/ packageManager(m).pass = <<"--">>
BY DEF packageManager, Npx

LEMMA NodeWords ==
    ASSUME NEW m
    PROVE  LET told == <<"--host", "0.0.0.0", "--port", PortText(nodeFramework(m).port)>>
           IN  /\ pickNodeScript(m) \in ToSet(nodeStart(m))
               /\ \A w \in ToSet(nodeStart(m)) :
                     w \in {"npm", "run", "npx", "-y", "pnpm", "yarn", "bun", "--", pickNodeScript(m)} \cup ToSet(told)
<1> DEFINE prefix == packageManager(m).run
           pass == packageManager(m).pass
           script == pickNodeScript(m)
           told == <<"--host", "0.0.0.0", "--port", PortText(nodeFramework(m).port)>>
           Plain == {"npm", "run", "npx", "-y", "pnpm", "yarn", "bun", "--"}
           S == Plain \cup {script} \cup ToSet(told)
           tail == IF nodeFramework(m).vite THEN pass \o told ELSE <<>>
<1>1. prefix \in Seq(S)
    <2>1. CASE prefix = <<"npm", "run">>
        BY <2>1
    <2>2. CASE \E pm \in {"pnpm", "yarn", "bun"} : prefix = <<"npx", "-y", pm>> \o <<"run">>
        <3>1. PICK pm \in {"pnpm", "yarn", "bun"} : prefix = <<"npx", "-y", pm>> \o <<"run">>
            BY <2>2
        <3>2. <<"npx", "-y", pm>> \in Seq(S) /\ <<"run">> \in Seq(S)
            OBVIOUS
        <3> HIDE DEF S, prefix
        <3> QED BY <3>1, <3>2, WordsOfTwo
    <2> HIDE DEF prefix, S
    <2> QED BY <2>1, <2>2, ManagersRun DEF prefix
<1>2. pass \in Seq(S)
    <2>1. <<>> \in Seq(S) /\ <<"--">> \in Seq(S)
        OBVIOUS
    <2>2. pass = <<>> \/ pass = <<"--">>
        BY ManagersRun
    <2> QED BY ONLY <2>1, <2>2
<1>3. told \in Seq(ToSet(told))
    BY ONLY DEF ToSet
<1>4. told \in Seq(S)
    BY <1>3, SeqMonotonic
<1>5. tail \in Seq(S)
    <2>1. <<>> \in Seq(S)
        OBVIOUS
    <2> HIDE DEF S, pass, told
    <2> QED BY <1>2, <1>4, <2>1, WordsOfTwo
<1>6. nodeStart(m) = Append(prefix, script) \o tail
    BY DEF nodeStart
<1>7. Append(prefix, script) = prefix \o <<script>> /\ <<script>> \in Seq(S) /\ ToSet(<<script>>) = {script}
    <2>1. <<script>> \in Seq(S)
        OBVIOUS
    <2>2. script \in S
        OBVIOUS
    <2> HIDE DEF S, prefix, script
    <2>3. Append(prefix, script) = prefix \o <<script>>
        BY <1>1, <2>2, AppendIsConcat
    <2> QED BY <2>1, <2>3, WordsOfList
<1> HIDE DEF S, prefix, script, tail, told, Plain
<1>8. /\ Append(prefix, script) \in Seq(S) /\ script \in ToSet(Append(prefix, script))
    <2> DEFINE one == <<script>>
    <2>1. one \in Seq(S) /\ script \in ToSet(one) /\ Append(prefix, script) = prefix \o one
        BY <1>7
    <2> HIDE DEF one
    <2>2. prefix \o one \in Seq(S) /\ ToSet(prefix \o one) = ToSet(prefix) \cup ToSet(one)
        BY ONLY <1>1, <2>1, WordsOfTwo
    <2> QED BY ONLY <2>1, <2>2
<1>9. nodeStart(m) \in Seq(S) /\ script \in ToSet(nodeStart(m))
    <2> DEFINE front == Append(prefix, script)
    <2>1. front \in Seq(S) /\ script \in ToSet(front) /\ nodeStart(m) = front \o tail
        BY <1>6, <1>8
    <2> HIDE DEF front
    <2>2. front \o tail \in Seq(S) /\ ToSet(front \o tail) = ToSet(front) \cup ToSet(tail)
        BY ONLY <1>5, <2>1, WordsOfTwo
    <2> QED BY ONLY <2>1, <2>2
<1>10. \A w \in ToSet(nodeStart(m)) : w \in S
    BY <1>9 DEF ToSet
<1> QED BY <1>9, <1>10 DEF S, script, told, Plain

LEMMA NodeTells ==
    ASSUME NEW m, detectNode(m) # None, detectNode(m).kind = "web"
    PROVE  /\ PortsTold(detectNode(m)) = {detectNode(m).port}
           /\ ToSet(detectNode(m).start) \cap m.pkg.scripts # {}
<1> DEFINE install == <<packageManager(m).install>>
           p == nodeFramework(m).port
           env == [HOST |-> "0.0.0.0", CI |-> "true", PORT |-> PortText(p)]
           told == <<"--host", "0.0.0.0", "--port", PortText(p)>>
           start == nodeStart(m)
           script == pickNodeScript(m)
<1>1. /\ script # ""
      /\ detectNode(m) = Web(install, start, p, env)
    BY DEF detectNode, Shell
<1>2. script \in m.pkg.scripts /\ script \in {"dev", "start", "serve", "preview"}
    BY <1>1, PickedScript
<1>3. p \in AppPorts /\ PortText(p) \in PortWords(p)
    BY FrameworkPort DEF NodePorts, AppPorts, PortText, PortWords
<1>4. EnvWords(env) = {"0.0.0.0", "true", PortText(p)}
    BY DEF EnvWords
<1>5. ToSet(told) = {"--host", "0.0.0.0", "--port", PortText(p)}
    BY ONLY WordsOfList
<1>6. /\ script \in ToSet(start)
      /\ \A w \in ToSet(start) :
            w \in {"npm", "run", "npx", "-y", "pnpm", "yarn", "bun", "--", script} \cup ToSet(told)
    BY NodeWords
<1> HIDE DEF p, env, told, start, script, install
<1>7. \A w \in {"npm", "run", "npx", "-y", "pnpm", "yarn", "bun", "--", script, "--host", "--port",
                "0.0.0.0", "true"} : IsPlain(w)
    BY <1>2, PlainWords
<1>8. PortText(p) \in ToSet(start) \cup EnvWords(env)
    BY <1>4
<1>9. \A w \in ToSet(start) \cup EnvWords(env) : IsPlain(w) \/ w \in PortWords(p)
    BY <1>3, <1>4, <1>5, <1>6, <1>7
<1>10. PortsTold(Web(install, start, p, env)) = {Web(install, start, p, env).port}
    BY <1>3, <1>8, <1>9, WebTells
<1>11. Web(install, start, p, env).start = start
    BY DEF Web
<1> QED BY <1>1, <1>2, <1>6, <1>10, <1>11

(* The Python files that are preferred.                                    *)
PyWords ==
    {"streamlit_app", "app", "main", "Home", "demo", "server", "api", "wsgi", "run", "manage"}

(* The entry file that is picked is one of the repository.                 *)
LEMMA PickedEntry ==
    ASSUME NEW m, NEW dep \in ToSet(pyFrameworks)
    PROVE  pyEntry(m, dep) = "" \/ pyEntry(m, dep) \in m.files \cap PyWords
<1> DEFINE q == CASE dep = "streamlit" -> <<"streamlit_app", "app", "main", "Home">>
                  [] dep = "gradio"    -> <<"app", "demo", "main">>
                  [] dep = "fastapi"   -> <<"main", "app", "server", "api">>
                  [] dep = "flask"     -> <<"app", "main", "server", "wsgi", "run">>
                  [] dep = "django"    -> <<"manage">>
           I == {j \in 1 .. Len(q) : q[j] \in m.files}
           k == IF I # {} THEN Min(I) ELSE 0
<1>1. pyEntry(m, dep) = IF k = 0 THEN "" ELSE q[k]
    BY DEF pyEntry, First, SelectInSeq
<1>2. dep \in {"streamlit", "gradio", "django", "fastapi", "flask"}
    BY DEF ToSet, pyFrameworks
<1>3. q \in Seq(PyWords)
    <2>1. /\ <<"streamlit_app", "app", "main", "Home">> \in Seq(PyWords)
          /\ <<"app", "demo", "main">> \in Seq(PyWords)
          /\ <<"main", "app", "server", "api">> \in Seq(PyWords)
          /\ <<"app", "main", "server", "wsgi", "run">> \in Seq(PyWords)
          /\ <<"manage">> \in Seq(PyWords)
        BY DEF PyWords
    <2> QED BY <1>2, <2>1
<1> HIDE DEF q
<1>4. k = 0 \/ (q[k] \in m.files /\ q[k] \in PyWords)
    BY <1>3, FirstFound
<1> HIDE DEF k
<1> QED BY <1>1, <1>4

(* The framework that is picked has one, or is django.                     *)
Dep(m, deps) ==
    First(pyFrameworks, LAMBDA d : d \in deps /\ (pyEntry(m, d) # "" \/ d = "django"), "")

LEMMA PickedFramework ==
    ASSUME NEW m, NEW deps
    PROVE  \/ Dep(m, deps) = ""
           \/ /\ Dep(m, deps) \in ToSet(pyFrameworks)
              /\ pyEntry(m, Dep(m, deps)) # "" \/ Dep(m, deps) = "django"
<1> DEFINE F == {"streamlit", "gradio", "django", "fastapi", "flask"}
           X == {d \in F : d \in deps /\ (pyEntry(m, d) # "" \/ d = "django")}
           I == {j \in 1 .. Len(pyFrameworks) : pyFrameworks[j] \in X}
           k == IF I # {} THEN Min(I) ELSE 0
<1>1. pyFrameworks \in Seq(F) /\ ToSet(pyFrameworks) = F
    BY DEF pyFrameworks, ToSet
<1>2. I = {j \in 1 .. Len(pyFrameworks) :
              pyFrameworks[j] \in deps /\ (pyEntry(m, pyFrameworks[j]) # "" \/ pyFrameworks[j] = "django")}
    <2>1. \A j \in 1 .. Len(pyFrameworks) : pyFrameworks[j] \in F
        BY <1>1, ElementOfSeq
    <2> HIDE DEF F
    <2> QED BY <2>1
<1>3. Dep(m, deps) = IF k = 0 THEN "" ELSE pyFrameworks[k]
    <2> HIDE DEF I, X
    <2> QED BY <1>2 DEF Dep, First, SelectInSeq
<1>4. k = 0 \/ (pyFrameworks[k] \in X /\ pyFrameworks[k] \in F)
    <2> HIDE DEF X, F
    <2> QED BY <1>1, FirstFound
<1> HIDE DEF k
<1> QED BY <1>1, <1>3, <1>4

(* The start command of each framework: its entry, one port at most, and   *)
(* words that are none.                                                    *)
LEMMA PythonStarts ==
    ASSUME NEW dep \in ToSet(pyFrameworks), NEW entry,
           IsPlain(entry) \/ dep = "django"
    PROVE  LET words == ToSet(pyStart(dep, entry)) \cup EnvWords(pyEnv(dep))
           IN  /\ pyPort(dep) \in AppPorts
               /\ \A w \in words : IsPlain(w) \/ w \in PortWords(pyPort(dep))
               /\ \E w \in words : w \in PortWords(pyPort(dep))
               /\ (IF dep = "django" THEN "manage" ELSE entry) \in ToSet(pyStart(dep, entry))
<1>1. dep \in {"streamlit", "gradio", "django", "fastapi", "flask"}
    BY DEF ToSet, pyFrameworks
<1>2. \A w \in {"run", "true", "1", "*", "0.0.0.0", "python3", "streamlit", "--server.address",
                "--server.port", "--server.headless", "manage", "runserver", "uvicorn", "--host",
                "--port", "flask", "--app"} : IsPlain(w)
    BY PlainWords
<1>3. CASE dep = "streamlit"
    <2>1. ToSet(pyStart(dep, entry)) = {"streamlit", "run", entry, "--server.address", "0.0.0.0",
                                        "--server.port", "8501", "--server.headless", "true"}
        BY <1>3 DEF pyStart, ToSet
    <2>2. EnvWords(pyEnv(dep)) = {"1"}
        BY <1>3 DEF pyEnv, EnvWords
    <2>3. pyPort(dep) \in AppPorts /\ "8501" \in PortWords(pyPort(dep))
        BY <1>3 DEF pyPort, AppPorts, PortWords
    <2> QED BY <1>2, <1>3, <2>1, <2>2, <2>3
<1>4. CASE dep = "gradio"
    <2>1. ToSet(pyStart(dep, entry)) = {"python3", entry}
        BY <1>4 DEF pyStart, ToSet
    <2>2. EnvWords(pyEnv(dep)) = {"1", "0.0.0.0", "7860"}
        BY <1>4 DEF pyEnv, EnvWords
    <2>3. pyPort(dep) \in AppPorts /\ "7860" \in PortWords(pyPort(dep))
        BY <1>4 DEF pyPort, AppPorts, PortWords
    <2> QED BY <1>2, <1>4, <2>1, <2>2, <2>3
<1>5. CASE dep = "django"
    <2>1. ToSet(pyStart(dep, entry)) = {"python3", "manage", "runserver", "0.0.0.0:8000"}
        BY <1>5 DEF pyStart, ToSet
    <2>2. EnvWords(pyEnv(dep)) = {"1", "*"}
        BY <1>5 DEF pyEnv, EnvWords
    <2>3. pyPort(dep) \in AppPorts /\ "0.0.0.0:8000" \in PortWords(pyPort(dep))
        BY <1>5 DEF pyPort, AppPorts, PortWords
    <2> QED BY <1>2, <1>5, <2>1, <2>2, <2>3
<1>6. CASE dep = "fastapi"
    <2>1. ToSet(pyStart(dep, entry)) = {"uvicorn", entry, "--host", "0.0.0.0", "--port", "8000"}
        BY <1>6 DEF pyStart, ToSet
    <2>2. EnvWords(pyEnv(dep)) = {"1"}
        BY <1>6 DEF pyEnv, EnvWords
    <2>3. pyPort(dep) \in AppPorts /\ "8000" \in PortWords(pyPort(dep))
        BY <1>6 DEF pyPort, AppPorts, PortWords
    <2> QED BY <1>2, <1>6, <2>1, <2>2, <2>3
<1>7. CASE dep = "flask"
    <2>1. ToSet(pyStart(dep, entry)) = {"flask", "--app", entry, "run", "--host", "0.0.0.0",
                                        "--port", "5000"}
        BY <1>7 DEF pyStart, ToSet
    <2>2. EnvWords(pyEnv(dep)) = {"1"}
        BY <1>7 DEF pyEnv, EnvWords
    <2>3. pyPort(dep) \in AppPorts /\ "5000" \in PortWords(pyPort(dep))
        BY <1>7 DEF pyPort, AppPorts, PortWords
    <2> QED BY <1>2, <1>7, <2>1, <2>2, <2>3
<1> QED BY <1>1, <1>3, <1>4, <1>5, <1>6, <1>7

LEMMA PythonTells ==
    ASSUME NEW m, NEW deps, NEW install, pythonRecipe(m, deps, install).kind = "web"
    PROVE  /\ PortsTold(pythonRecipe(m, deps, install)) = {pythonRecipe(m, deps, install).port}
           /\ ToSet(pythonRecipe(m, deps, install).start) \cap (m.files \cup {"manage"}) # {}
<1> DEFINE d == Dep(m, deps)
           entry == pyEntry(m, d)
           start == pyStart(d, entry)
           p == pyPort(d)
           env == pyEnv(d)
           list == IF d = "django" THEN <<install, <<"python3", "manage", "migrate", "--noinput">>>>
                   ELSE <<install>>
<1>1. /\ d # ""
      /\ pythonRecipe(m, deps, install) = Web(list, start, p, env)
    BY DEF pythonRecipe, Shell, Dep
<1> HIDE DEF list, d
<1>2. d \in ToSet(pyFrameworks) /\ (entry # "" \/ d = "django")
    BY <1>1, PickedFramework DEF d
<1>3. entry = "" \/ entry \in m.files \cap PyWords
    BY <1>2, PickedEntry
<1>4. IsPlain(entry) \/ d = "django"
    <2>1. \A w \in PyWords : IsPlain(w)
        BY PlainWords DEF PyWords
    <2> QED BY <1>2, <1>3, <2>1
<1>5. /\ p \in AppPorts
      /\ \A w \in ToSet(start) \cup EnvWords(env) : IsPlain(w) \/ w \in PortWords(p)
      /\ \E w \in ToSet(start) \cup EnvWords(env) : w \in PortWords(p)
      /\ (IF d = "django" THEN "manage" ELSE entry) \in ToSet(start)
    <2> HIDE DEF entry
    <2> QED BY <1>2, <1>4, PythonStarts
<1> HIDE DEF p, env, start, entry
<1>6. PortsTold(Web(list, start, p, env)) = {Web(list, start, p, env).port}
    BY <1>5, WebTells
<1>7. Web(list, start, p, env).start = start
    BY DEF Web
<1>8. ToSet(start) \cap (m.files \cup {"manage"}) # {}
    BY <1>2, <1>3, <1>5
<1> QED BY <1>1, <1>6, <1>7, <1>8

(* What a rule named is what it names of the repository, until a repair.   *)
Ruled ==
    Fresh /\ detector \in RuleBased => rcp = Try(detector, repo) /\ rcp # None

LEMMA RuledStep == RecipesInv /\ repo \in Repos /\ Ruled /\ [Next]_vars => Ruled'
<1> SUFFICES ASSUME RecipesInv, repo \in Repos, Ruled, [Next]_vars,
                    Fresh', (detector \in RuleBased)'
             PROVE  (rcp = Try(detector, repo) /\ rcp # None)'
    BY DEF Ruled
<1>1. repo' = repo
    BY DEF Next, vars, RunDetect, Infer, InstallFails, Installed
<1>2. CASE RunDetect
    <2>1. PICK k \in Detect(repo) : Name(detectors[k], Try(detectors[k], repo))
        BY <1>2 DEF RunDetect, Fresh, Named
    <2>2. detector' = detectors[k] /\ rcp' = Try(detectors[k], repo)
        BY <2>1 DEF Name, Fresh, Named
    <2>3. Try(detectors[k], repo) # None
        BY DEF Detect
    <2> QED BY ONLY <1>1, <2>2, <2>3
<1>3. CASE Infer
    <2>1. PICK r \in Replies \ {None} : Name("model", r)
        BY <1>3 DEF Infer, Fresh, Named
    <2>2. detector' = "model"
        BY <2>1 DEF Name
    <2> QED BY <2>2 DEF RuleBased
<1>4. CASE InstallFails
    <2>1. repairs \in Nat
        BY DEF RecipesInv
    <2>2. stage' = "failed" \/ repairs' = repairs + 1
        BY <1>4 DEF InstallFails
    <2> QED BY <2>1, <2>2 DEF Fresh, Named
<1>5. CASE Installed
    <2>1. UNCHANGED <<repo, detector, rcp>> /\ Fresh
        BY <1>5 DEF Installed, Fresh, Named
    <2> QED BY ONLY <2>1, (detector \in RuleBased)', Ruled DEF Ruled
<1>6. CASE UNCHANGED vars
    <2>1. UNCHANGED <<repo, detector, rcp>> /\ Fresh
        BY <1>6 DEF vars, Fresh, Named
    <2> QED BY ONLY <2>1, (detector \in RuleBased)', Ruled DEF Ruled
<1> QED BY <1>2, <1>3, <1>4, <1>5, <1>6 DEF Next

(* A rule's start command names what the repository has, and its recipe    *)
(* tells the app the port that is looked for, for any repository           *)
(* (detectors.go:72-93, 165-223, 258-276).                                 *)
THEOREM RulesFit == Spec => []StartFitsTheRepo
<1>1. Init => Ruled
    BY DEF Init, Ruled, Fresh, Named
<1>2. RecipesInv /\ repo \in Repos /\ Ruled => StartFitsTheRepo
    <2> SUFFICES ASSUME repo \in Repos, rcp = Try(detector, repo), rcp # None,
                        detector \in RuleBased, rcp.kind = "web"
                 PROVE  /\ PortsTold(rcp) = {rcp.port}
                        /\ detector = "package.json" => ToSet(rcp.start) \cap repo.pkg.scripts # {}
                        /\ detector = "Makefile" => ToSet(rcp.start) \cap repo.targets # {}
                        /\ detector \in {"pyproject.toml", "requirements.txt"} =>
                               ToSet(rcp.start) \cap (repo.files \cup {"manage"}) # {}
        BY DEF Ruled, StartFitsTheRepo
    <2>1. CASE detector = "package.json"
        BY <2>1, NodeTells DEF Try
    <2>2. CASE detector = "pyproject.toml"
        BY <2>2, PythonTells DEF Try, detectPyProject
    <2>3. CASE detector = "requirements.txt"
        BY <2>3, PythonTells DEF Try, detectRequirements
    <2>4. CASE detector = "go.mod"
        BY <2>4, GoTells DEF Try
    <2>5. CASE detector = "Cargo.toml"
        BY <2>5, CargoTells DEF Try
    <2>6. CASE detector = "Makefile"
        BY <2>6, MakefileTells DEF Try
    <2>7. CASE detector = "index.html"
        BY <2>7, StaticTells DEF Try
    <2> QED BY <2>1, <2>2, <2>3, <2>4, <2>5, <2>6, <2>7 DEF RuleBased
<1> QED BY <1>1, <1>2, RuledStep, RecipesInvariant, PTL DEF Spec
================================================================================
