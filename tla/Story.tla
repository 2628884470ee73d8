---------------------------------- MODULE Story ----------------------------------
(***************************************************************************)
(* A client that asks for the events of a session that is not live: the    *)
(* build's log was stored as text, is turned back into events and sent on  *)
(* a channel by a goroutine that does not watch the request, while the     *)
(* handler forwards what is in the channel until it is closed or the       *)
(* client leaves. A text is a sequence of characters, of which "newline",  *)
(* "[" and "] " are told apart.                                            *)
(***************************************************************************)
EXTENDS Integers, Sequences, SequencesExt

CONSTANTS
    Logs,       \* what builds logged: sequences of [phase, text]
    Capacity    \* of the channel (256)

ASSUME StoryAssumption == \A l \in Logs : Len(l) \in Nat /\ DOMAIN l = 1 .. Len(l)

VARIABLES
    log,        \* the build's log events, as they were live
    build,      \* its status in the table
    reason,     \* why the session ended, "" if nobody wrote it
    replay,     \* the goroutine: none, reading, sending, done
    read,       \* it could read the build
    story,      \* what it has left to send
    channel,    \* ch
    request,    \* asked, streaming, left (by the client), returned, refused
    stayed,     \* the client did not leave
    heard       \* events written to the client

record == <<log, build, reason>>
storyVars == <<record, replay, read, story, channel, request, stayed, heard>>

StoryInit ==
    /\ log \in Logs
    /\ build \in {"building", "ready", "unsupported", "failed"}
    /\ reason \in {"", "expired"}
    /\ replay = "none" /\ read = FALSE
    /\ story = <<>> /\ channel = <<>> /\ heard = <<>>
    /\ request = "asked" /\ stayed = TRUE

(* run.text: each event on a line of its own, its phase in front.          *)
StoredText ==
    FlattenSeq([i \in DOMAIN log |->
                   <<"[", log[i].phase, "] ">> \o log[i].text \o <<"newline">>])

StoredLines ==
    LET t == StoredText
        cuts == <<0>> \o SelectSeq([i \in DOMAIN t |-> i], LAMBDA i : t[i] = "newline")
    IN SelectSeq([k \in 1..Len(cuts) - 1 |-> SubSeq(t, cuts[k] + 1, cuts[k + 1] - 1)],
                 LAMBDA l : l # <<>>)

(* The phase a line starts with, up to the first "] ".                     *)
SplitPhase(line) ==
    LET ends == {i \in 2..Len(line) : line[i] = "] "} IN
    IF line[1] = "[" /\ ends # {}
    THEN LET i == CHOOSE i \in ends : \A j \in ends : i <= j IN
         [phase |-> SubSeq(line, 2, i - 1), text |-> SubSeq(line, i + 1, Len(line))]
    ELSE [phase |-> <<>>, text |-> line]

LogEvent(e) == [name |-> "log", what |-> e]
ErrorEvent(c) == [name |-> "error", what |-> c]
EndedEvent(r) == [name |-> "ended", what |-> r]

ReplayLog ==
    LET lines == StoredLines IN [i \in DOMAIN lines |-> LogEvent(SplitPhase(lines[i]))]

Outcome ==
    CASE build = "unsupported" -> <<ErrorEvent("unsupported")>>
      [] build = "failed" -> <<ErrorEvent("infra_error")>>
      [] OTHER -> <<>>

Ending == <<EndedEvent(IF reason = "" THEN "server restarted" ELSE reason)>>

(* Subscribe: the record is read and the goroutine started, or the request *)
(* is answered with an error.                                              *)
SubscribeStory ==
    /\ request = "asked"
    /\ \/ request' = "streaming" /\ replay' = "reading"
       \/ request' = "refused" /\ UNCHANGED replay
    /\ UNCHANGED <<record, read, story, channel, stayed, heard>>

(* GetBuild may fail, if only because the client is gone: then the ending  *)
(* is all there is.                                                        *)
ReadBuild ==
    /\ replay = "reading"
    /\ replay' = "sending"
    /\ \/ read' = TRUE /\ story' = ReplayLog \o Outcome \o Ending
       \/ read' = FALSE /\ story' = Ending
    /\ UNCHANGED <<record, channel, request, stayed, heard>>

(* A slip: a channel of no more than one event.                            *)
RoomForOne == channel = <<>>

Room == Len(channel) < Capacity

(* A slip: what does not fit is dropped.                                   *)
SendOrDrop ==
    /\ replay = "sending"
    /\ story # <<>>
    /\ channel' = IF Room THEN Append(channel, Head(story)) ELSE channel
    /\ story' = Tail(story)
    /\ UNCHANGED <<record, replay, read, request, stayed, heard>>

SendStory ==
    /\ replay = "sending"
    /\ story # <<>>
    /\ Room
    /\ channel' = Append(channel, Head(story))
    /\ story' = Tail(story)
    /\ UNCHANGED <<record, replay, read, request, stayed, heard>>

CloseStory ==
    /\ replay = "sending"
    /\ story = <<>>
    /\ replay' = "done"
    /\ UNCHANGED <<record, read, story, channel, request, stayed, heard>>

(* handleEvents: the next event. Its select may choose one though the      *)
(* client is gone.                                                         *)
Forward ==
    /\ request \in {"streaming", "left"}
    /\ channel # <<>>
    /\ heard' = Append(heard, Head(channel))
    /\ channel' = Tail(channel)
    /\ UNCHANGED <<record, replay, read, story, request, stayed>>

ClientLeaves ==
    /\ request = "streaming"
    /\ request' = "left"
    /\ stayed' = FALSE
    /\ UNCHANGED <<record, replay, read, story, channel, heard>>

(* The channel is closed and empty, or the client is gone.                 *)
HandlerReturns ==
    /\ \/ request = "left"
       \/ request = "streaming" /\ replay = "done" /\ channel = <<>>
    /\ request' = "returned"
    /\ UNCHANGED <<record, replay, read, story, channel, stayed, heard>>

StoryNext ==
    \/ SubscribeStory \/ ReadBuild \/ SendStory \/ CloseStory
    \/ Forward \/ ClientLeaves \/ HandlerReturns

StorySpec == StoryInit /\ [][StoryNext]_storyVars

(* Both goroutines run; nobody has to leave.                               *)
StoryFairness ==
    /\ WF_storyVars(ReadBuild) /\ WF_storyVars(SendStory) /\ WF_storyVars(CloseStory)
    /\ WF_storyVars(Forward) /\ WF_storyVars(HandlerReturns)

-------------------------------------------------------------------------------
LiveLog == [i \in DOMAIN log |-> LogEvent([phase |-> <<log[i].phase>>, text |-> log[i].text])]

(* Who stayed to the end of the stream was told why the session ended,     *)
(* last and once, and before it, if the build could be read, the log as    *)
(* those who were there heard it and its outcome, none of it lost to a     *)
(* full channel (session.go:172-189, server.go:261-270).                   *)
WholeStory ==
    request = "returned" /\ stayed =>
        heard = (IF read THEN LiveLog \o Outcome ELSE <<>>) \o Ending

(* A client that leaves leaves the goroutine behind; it still comes to its *)
(* end if its story fits into the channel, whoever left and when. That is  *)
(* all that bounds those goroutines: a longer one blocks for ever          *)
(* (session.go:159, 177).                                                  *)
ReplayEnds == (replay = "sending" /\ Len(channel) + Len(story) <= Capacity) ~> (replay = "done")
===============================================================================
