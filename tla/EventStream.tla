----------------------------- MODULE EventStream -----------------------------
(***************************************************************************)
(* What package fanout promises its callers, stated without locks,         *)
(* goroutines, wake-ups or channel capacities (fanout.go:1-3): a history   *)
(* that only grows; readers that may join at any time and are shown the    *)
(* history from its start, in order; and a reader that is shut only after  *)
(* it left, or after it was shown everything published before the end.     *)
(* Fanout is shown to implement this module.                               *)
(***************************************************************************)
EXTENDS Naturals, Sequences

CONSTANTS Subscribers, Event

VARIABLES
    history,    \* everything published
    over,       \* the stream has been ended
    mark,       \* Len(history) when it was first ended
    shown,      \* per reader: what it was shown
    phase,      \* per reader: "out", "in" or "shut"
    left        \* per reader: it asked to leave

svars == <<history, over, mark, shown, phase, left>>

StreamInit ==
    /\ history = <<>>
    /\ over = FALSE
    /\ mark = 0
    /\ shown = [s \in Subscribers |-> <<>>]
    /\ phase = [s \in Subscribers |-> "out"]
    /\ left = [s \in Subscribers |-> FALSE]

Publish(e) ==
    /\ history' = Append(history, e)
    /\ UNCHANGED <<over, mark, shown, phase, left>>

End ==
    /\ ~over
    /\ over' = TRUE
    /\ mark' = Len(history)
    /\ UNCHANGED <<history, shown, phase, left>>

Join(s) ==
    /\ phase[s] = "out"
    /\ phase' = [phase EXCEPT ![s] = "in"]
    /\ UNCHANGED <<history, over, mark, shown, left>>

Leave(s) ==
    /\ phase[s] # "out"
    /\ ~left[s]
    /\ left' = [left EXCEPT ![s] = TRUE]
    /\ UNCHANGED <<history, over, mark, shown, phase>>

Show(s) ==
    /\ phase[s] = "in"
    /\ Len(shown[s]) < Len(history)
    /\ shown' = [shown EXCEPT ![s] = Append(@, history[Len(@) + 1])]
    /\ UNCHANGED <<history, over, mark, phase, left>>

Shut(s) ==
    /\ phase[s] = "in"
    /\ left[s] \/ (over /\ Len(shown[s]) >= mark)
    /\ phase' = [phase EXCEPT ![s] = "shut"]
    /\ UNCHANGED <<history, over, mark, shown, left>>

StreamNext ==
    \/ \E e \in Event : Publish(e)
    \/ End
    \/ \E s \in Subscribers : Join(s) \/ Leave(s) \/ Show(s) \/ Shut(s)

(* A reader that stays is eventually shown what there is, and is shut once *)
(* the stream is over; a reader that left is shut.                         *)
StreamFairness ==
    \A s \in Subscribers : WF_svars(Show(s)) /\ WF_svars(Shut(s))

StreamSafe == StreamInit /\ [][StreamNext]_svars

StreamSpec == StreamSafe /\ StreamFairness

==============================================================================
