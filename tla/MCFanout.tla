------------------------------- MODULE MCFanout -------------------------------
(* What Subscribe of a session hands out. A session that runs is followed  *)
(* by its Log: two subscribers, three events, channels of one slot, so     *)
(* that a send blocks, a nudge coalesces with a pending one, and events    *)
(* are emitted before, between and after Subscribe and Finish. Of a session*)
(* that this process never ran, whose Log is as it was made, the story is  *)
(* told from the tables: logs whose story fits into the channel and logs   *)
(* whose story does not, with lines that look as if they had a phase of    *)
(* their own.                                                              *)
EXTENDS Fanout, Story

CONSTANTS s1, s2, a, b

MCSubscribers == {s1, s2}
MCEvent == {a, b}

Line(p, t) == [phase |-> p, text |-> t]

MCLogs ==
    {<<>>,
     <<Line("clone", <<"a">>)>>,
     <<Line("sandbox", <<"a">>), Line("install", <<"[", "a", "] ", "b">>), Line("app", <<"a", "] ">>)>>,
     <<Line("sandbox", <<"a">>), Line("clone", <<"[", "a">>), Line("detect", <<"b">>), Line("app", <<"a">>)>>}

streamVars == <<vars, storyVars>>

Followed == request = "asked" /\ log = <<>> /\ build = "ready" /\ reason = ""

NeverRun == events = <<>> /\ ~done /\ subs = {} /\ \A s \in Subscribers : pc[s] = "idle"

StreamsInit == Init /\ StoryInit

StreamsNext ==
    \/ Followed /\ Next /\ UNCHANGED storyVars
    \/ NeverRun /\ StoryNext /\ UNCHANGED vars

StreamsSpec == StreamsInit /\ [][StreamsNext]_streamVars /\ Fairness /\ StoryFairness
===============================================================================
