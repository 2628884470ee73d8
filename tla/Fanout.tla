-------------------------------- MODULE Fanout --------------------------------
(***************************************************************************)
(* internal/fanout: Log[T], an append-only event history with subscribers. *)
(*                                                                         *)
(* Every critical section of l.mu is one action. A subscription is the     *)
(* goroutine Subscribe starts: it scans the history under the lock, sends  *)
(* what it found on its own buffered channel, and waits on its wake channel *)
(* (capacity 1, so a Boolean) when there is nothing to send. Its receiver  *)
(* is the environment: it takes from the channel, and it may cancel the    *)
(* context at any moment.                                                  *)
(*                                                                         *)
(* A definition that calls itself a slip is a mutated form of the action   *)
(* below it: what the properties rule out.                                 *)
(***************************************************************************)
EXTENDS Naturals, Sequences

CONSTANTS
    Subscribers,    \* the calls of Subscribe
    Event,          \* what is emitted
    OutCap,         \* capacity of a subscriber's channel (64 in the code)
    MaxEvents       \* bound: calls of Emit in one behaviour

ASSUME FanoutAssumption ==
    /\ OutCap \in Nat \ {0}
    /\ MaxEvents \in Nat

VARIABLES
    events,     \* l.events
    done,       \* l.done
    subs,       \* l.subs: the registered subscribers
    wake,       \* per subscriber: a nudge is pending in its wake channel
    pc,         \* per subscriber: where its goroutine is
    cursor,     \* per subscriber: events taken from the history
    hold,       \* per subscriber: the event taken and not yet sent (0 or 1)
    out,        \* per subscriber: contents of its channel
    cancelled,  \* per subscriber: its ctx is done
    got,        \* history: what its receiver has read
    mark        \* history: Len(events) at the first Finish

vars == <<events, done, subs, wake, pc, cursor, hold, out, cancelled, got, mark>>

Locations == {"idle", "scan", "send", "wait", "unregister", "close", "closed"}

Init ==
    /\ events = <<>>
    /\ done = FALSE
    /\ subs = {}
    /\ wake = [s \in Subscribers |-> FALSE]
    /\ pc = [s \in Subscribers |-> "idle"]
    /\ cursor = [s \in Subscribers |-> 0]
    /\ hold = [s \in Subscribers |-> <<>>]
    /\ out = [s \in Subscribers |-> <<>>]
    /\ cancelled = [s \in Subscribers |-> FALSE]
    /\ got = [s \in Subscribers |-> <<>>]
    /\ mark = 0

Goto(s, l) == pc' = [pc EXCEPT ![s] = l]

-------------------------------------------------------------------------------
(* The log's owner.                                                        *)

WakeAll == wake' = [s \in Subscribers |-> wake[s] \/ s \in subs]

Emit(e) ==
    /\ Len(events) < MaxEvents
    /\ events' = Append(events, e)
    /\ WakeAll
    /\ UNCHANGED <<done, subs, pc, cursor, hold, out, cancelled, got, mark>>

Finish ==
    /\ done' = TRUE
    /\ mark' = IF done THEN mark ELSE Len(events)
    /\ WakeAll
    /\ UNCHANGED <<events, subs, pc, cursor, hold, out, cancelled, got>>

-------------------------------------------------------------------------------
(* A subscription's goroutine.                                             *)

Subscribe(s) ==
    /\ pc[s] = "idle"
    /\ subs' = subs \cup {s}
    /\ Goto(s, "scan")
    /\ UNCHANGED <<events, done, wake, cursor, hold, out, cancelled, got, mark>>

ScanTake(s) ==
    /\ pc[s] = "scan"
    /\ cursor[s] < Len(events)
    /\ hold' = [hold EXCEPT ![s] = <<events[cursor[s] + 1]>>]
    /\ cursor' = [cursor EXCEPT ![s] = @ + 1]
    /\ Goto(s, "send")
    /\ UNCHANGED <<events, done, subs, wake, out, cancelled, got, mark>>

ScanEmpty(s) ==
    /\ pc[s] = "scan"
    /\ cursor[s] >= Len(events)
    /\ Goto(s, IF done THEN "unregister" ELSE "wait")
    /\ UNCHANGED <<events, done, subs, wake, cursor, hold, out, cancelled, got, mark>>

Send(s) ==
    /\ pc[s] = "send"
    /\ Len(out[s]) < OutCap
    /\ out' = [out EXCEPT ![s] = @ \o hold[s]]
    /\ hold' = [hold EXCEPT ![s] = <<>>]
    /\ Goto(s, "scan")
    /\ UNCHANGED <<events, done, subs, wake, cursor, cancelled, got, mark>>

Wake(s) ==
    /\ pc[s] = "wait"
    /\ wake[s]
    /\ wake' = [wake EXCEPT ![s] = FALSE]
    /\ Goto(s, "scan")
    /\ UNCHANGED <<events, done, subs, cursor, hold, out, cancelled, got, mark>>

(* A slip: a send does not watch the context.                              *)
QuitOnlyWhileWaiting(s) ==
    /\ pc[s] = "wait"
    /\ cancelled[s]
    /\ Goto(s, "unregister")
    /\ UNCHANGED <<events, done, subs, wake, cursor, hold, out, cancelled, got, mark>>

Quit(s) ==
    /\ pc[s] \in {"send", "wait"}
    /\ cancelled[s]
    /\ Goto(s, "unregister")
    /\ UNCHANGED <<events, done, subs, wake, cursor, hold, out, cancelled, got, mark>>

Unregister(s) ==
    /\ pc[s] = "unregister"
    /\ subs' = subs \ {s}
    /\ Goto(s, "close")
    /\ UNCHANGED <<events, done, wake, cursor, hold, out, cancelled, got, mark>>

Close(s) ==
    /\ pc[s] = "close"
    /\ Goto(s, "closed")
    /\ UNCHANGED <<events, done, subs, wake, cursor, hold, out, cancelled, got, mark>>

-------------------------------------------------------------------------------
(* The receiver: session.follow ranges over the channel until it closes;   *)
(* httpapi.handleEvents reads until its request's context is done.         *)

Receive(s) ==
    /\ out[s] # <<>>
    /\ got' = [got EXCEPT ![s] = Append(@, Head(out[s]))]
    /\ out' = [out EXCEPT ![s] = Tail(@)]
    /\ UNCHANGED <<events, done, subs, wake, pc, cursor, hold, cancelled, mark>>

Cancel(s) ==
    /\ pc[s] # "idle"
    /\ ~cancelled[s]
    /\ cancelled' = [cancelled EXCEPT ![s] = TRUE]
    /\ UNCHANGED <<events, done, subs, wake, pc, cursor, hold, out, got, mark>>

-------------------------------------------------------------------------------
Goroutine(s) ==
    \/ ScanTake(s)
    \/ ScanEmpty(s)
    \/ Send(s)
    \/ Wake(s)
    \/ Quit(s)
    \/ Unregister(s)
    \/ Close(s)

Next ==
    \/ \E e \in Event : Emit(e)
    \/ Finish
    \/ \E s \in Subscribers :
        \/ Subscribe(s)
        \/ Goroutine(s)
        \/ Receive(s)
        \/ Cancel(s)

(* A goroutine that can run does; a receiver that has not cancelled reads. *)
(* Nobody has to emit, finish, subscribe or cancel.                        *)
Fairness ==
    \A s \in Subscribers :
        /\ WF_vars(Goroutine(s))
        /\ WF_vars(~cancelled[s] /\ Receive(s))

Spec == Init /\ [][Next]_vars

FairSpec == Spec /\ Fairness

-------------------------------------------------------------------------------
(* Every variable has its type, and no channel exceeds its capacity.       *)
TypeOK ==
    /\ events \in Seq(Event)
    /\ done \in BOOLEAN
    /\ subs \subseteq Subscribers
    /\ wake \in [Subscribers -> BOOLEAN]
    /\ pc \in [Subscribers -> Locations]
    /\ cursor \in [Subscribers -> Nat]
    /\ hold \in [Subscribers -> Seq(Event)]
    /\ out \in [Subscribers -> Seq(Event)]
    /\ cancelled \in [Subscribers -> BOOLEAN]
    /\ got \in [Subscribers -> Seq(Event)]
    /\ mark \in Nat
    /\ \A s \in Subscribers : Len(hold[s]) <= 1 /\ Len(out[s]) <= OutCap

(* "late joiners replay from the start, everyone sees events in order"     *)
(* (fanout.go:2-3): what was read, what is in the channel and what the     *)
(* goroutine holds are together the first cursor[s] events, so no event is *)
(* skipped, repeated or reordered, whenever the subscriber joined.         *)
Flow(s) ==
    /\ cursor[s] <= Len(events)
    /\ got[s] \o out[s] \o hold[s] = SubSeq(events, 1, cursor[s])

InOrder == \A s \in Subscribers : Flow(s)

(* No lost wake-up (the check under the lock at 87-100 against the         *)
(* coalescing send of wakeAll at 61-68): a goroutine blocked with no nudge *)
(* pending has taken every event, and the log is not finished.             *)
NoLostWakeup ==
    \A s \in Subscribers :
        pc[s] = "wait" /\ ~wake[s] => cursor[s] = Len(events) /\ ~done

(* "subscribers close after draining" (fanout.go:37): a subscriber that    *)
(* did not cancel sees its channel end only after it was sent every event  *)
(* emitted before Finish; it can take an ended channel for a full story.   *)
CloseAfterDrain ==
    \A s \in Subscribers :
        pc[s] \in {"close", "closed"} /\ ~cancelled[s] =>
            done /\ Len(got[s] \o out[s]) >= mark

(* The inductive strengthening of the three invariants above: who is in    *)
(* l.subs, when a goroutine holds an event, and what a goroutine knows     *)
(* once it leaves its loop.                                                *)
Registered(s) == s \in subs <=> pc[s] \in {"scan", "send", "wait", "unregister"}

HoldsOnlyToSend(s) ==
    /\ pc[s] \in {"idle", "scan", "wait"} => hold[s] = <<>>
    /\ pc[s] = "send" => Len(hold[s]) = 1

LeftLoop(s) ==
    pc[s] \in {"unregister", "close", "closed"} /\ ~cancelled[s] =>
        done /\ hold[s] = <<>> /\ cursor[s] >= mark

FanoutInv ==
    /\ TypeOK
    /\ InOrder
    /\ NoLostWakeup
    /\ mark <= Len(events)
    /\ \A s \in Subscribers : Registered(s) /\ HoldsOnlyToSend(s) /\ LeftLoop(s)

(* The log does what its package comment promises (see EventStream): what  *)
(* a reader was shown is what was sent on its channel.                     *)
Stream ==
    INSTANCE EventStream WITH
        history <- events,
        over <- done,
        shown <- [s \in Subscribers |-> got[s] \o out[s]],
        phase <- [s \in Subscribers |->
                    CASE pc[s] = "idle" -> "out"
                      [] pc[s] = "closed" -> "shut"
                      [] OTHER -> "in"],
        left <- cancelled

(* Fanout implements EventStream, its liveness included.                   *)
ImplementsStream == Stream!StreamSpec
===============================================================================
