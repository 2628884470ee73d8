----------------------------- MODULE FanoutProofs -----------------------------
(***************************************************************************)
(* Theorems about Fanout, for every set of subscribers and events, every   *)
(* channel capacity and every bound on the number of events; and, at the   *)
(* end, about Story, for any logs and a channel of any capacity.           *)
(***************************************************************************)
EXTENDS Fanout, Story, SequenceTheorems, TLAPS

-------------------------------------------------------------------------------
(* Facts about sequences.                                                  *)

(* Appending to a sequence leaves its prefixes alone: Emit changes nothing  *)
(* of what a subscriber has already taken.                                 *)
LEMMA PrefixOfAppend ==
    ASSUME NEW S, NEW q \in Seq(S), NEW e \in S, NEW n \in 0 .. Len(q)
    PROVE  SubSeq(Append(q, e), 1, n) = SubSeq(q, 1, n)
<1>1. CASE n = 0
    BY <1>1, SubSeqEmpty
<1>2. CASE n # 0
    <2>1. Append(q, e) = q \o <<e>>
        BY AppendIsConcat
    <2>2. <<e>> \in Seq(S) /\ Len(q) \in Nat
        BY LenProperties
    <2>3. 1 \in 1 .. Len(q) /\ n \in 1 .. Len(q)
        BY <1>2, <2>2
    <2> QED BY <2>1, <2>2, <2>3, SubSeqOfConcat1
<1> QED BY <1>1, <1>2

(* Taking the event after a prefix extends the prefix by it (ScanTake).    *)
LEMMA TakeNext ==
    ASSUME NEW S, NEW q \in Seq(S), NEW n \in Nat, n < Len(q)
    PROVE  SubSeq(q, 1, n + 1) = SubSeq(q, 1, n) \o <<q[n + 1]>>
<1>1. Len(q) \in Nat
    BY LenProperties
<1>2. 1 \in 1 .. Len(q) /\ n + 1 \in 1 .. Len(q)
    BY <1>1
<1>3. (n + 1) - 1 = n
    OBVIOUS
<1> QED BY <1>2, <1>3, SubSeqRecursiveSecond

(* Moving the head of a queue to the end of what was read leaves their     *)
(* concatenation alone (Receive).                                          *)
LEMMA MoveHead ==
    ASSUME NEW S, NEW g \in Seq(S), NEW o \in Seq(S), o # <<>>
    PROVE  Append(g, Head(o)) \o Tail(o) = g \o o
<1>1. /\ Head(o) \in S
      /\ Tail(o) \in Seq(S)
    BY HeadTailProperties
<1>2. Append(g, Head(o)) = g \o <<Head(o)>>
    BY <1>1, AppendIsConcat
<1>3. <<Head(o)>> \in Seq(S)
    BY <1>1
<1>4. (g \o <<Head(o)>>) \o Tail(o) = g \o (<<Head(o)>> \o Tail(o))
    BY <1>1, <1>3, ConcatAssociative
<1>5. <<Head(o)>> \o Tail(o) = o
    <2>1. Len(o) \in Nat \ {0}
        BY EmptySeq
    <2>2. SubSeq(o, 1, Len(o)) = <<o[1]>> \o SubSeq(o, 1 + 1, Len(o))
        <3>1. 1 \in 1 .. Len(o) /\ Len(o) \in 1 .. Len(o)
            BY <2>1
        <3> QED BY <3>1, SubSeqRecursiveFirst
    <2>3. Head(o) = o[1]
        BY <2>1
    <2>4. Tail(o) = SubSeq(o, 2, Len(o))
        BY TailIsSubSeq
    <2> QED BY <2>2, <2>3, <2>4, SubSeqFull
<1> QED BY <1>2, <1>4, <1>5

-------------------------------------------------------------------------------
(* Type correctness.                                                       *)

THEOREM TypeCorrect == Spec => []TypeOK
<1>1. Init => TypeOK
    <2> SUFFICES ASSUME Init PROVE TypeOK
        OBVIOUS
    <2>1. <<>> \in Seq(Event) /\ Len(<<>>) = 0
        BY EmptySeq
    <2>2. \A s \in Subscribers : hold[s] = <<>> /\ out[s] = <<>>
        BY DEF Init
    <2>3. ASSUME NEW s \in Subscribers PROVE Len(hold[s]) <= 1 /\ Len(out[s]) <= OutCap
        <3>1. Len(hold[s]) = 0 /\ Len(out[s]) = 0
            BY <2>1, <2>2, Zenon
        <3> QED BY <3>1, FanoutAssumption
    <2> QED BY <2>1, <2>3 DEF Init, TypeOK, Locations
<1>2. TypeOK /\ [Next]_vars => TypeOK'
    <2> SUFFICES ASSUME TypeOK, [Next]_vars
                 PROVE  TypeOK'
        OBVIOUS
    <2> USE FanoutAssumption
    <2>1. ASSUME NEW e \in Event, Emit(e) PROVE TypeOK'
        BY <2>1, AppendProperties DEF TypeOK, Emit, WakeAll
    <2>2. CASE Finish
        BY <2>2, LenProperties DEF TypeOK, Finish, WakeAll
    <2>3. ASSUME NEW s \in Subscribers, Subscribe(s) PROVE TypeOK'
        BY <2>3 DEF TypeOK, Subscribe, Goto, Locations
    <2>4. ASSUME NEW s \in Subscribers, ScanTake(s) PROVE TypeOK'
        <3>1. events[cursor[s] + 1] \in Event
            <4>1. cursor[s] + 1 \in 1 .. Len(events)
                BY <2>4, LenProperties DEF TypeOK, ScanTake
            <4> QED BY <4>1, ElementOfSeq DEF TypeOK
        <3> DEFINE h == <<events[cursor[s] + 1]>>
        <3>2. h \in Seq(Event) /\ Len(h) = 1
            BY <3>1
        <3> HIDE DEF h
        <3>3. hold' = [hold EXCEPT ![s] = h]
            BY <2>4 DEF ScanTake, h
        <3>4. hold' \in [Subscribers -> Seq(Event)]
            BY <3>2, <3>3 DEF TypeOK
        <3>5. \A t \in Subscribers : hold'[t] = IF t = s THEN h ELSE hold[t]
            BY <3>3 DEF TypeOK
        <3>6. ASSUME NEW t \in Subscribers PROVE Len(hold'[t]) <= 1
            <4>1. CASE t = s
                <5>1. Len(hold'[t]) = 1
                    BY <4>1, <3>2, <3>5, Zenon
                <5> QED BY <5>1
            <4>2. CASE t # s
                BY <4>2, <3>5 DEF TypeOK
            <4> QED BY <4>1, <4>2
        <3> QED BY <2>4, <3>4, <3>6 DEF TypeOK, ScanTake, Goto, Locations
    <2>5. ASSUME NEW s \in Subscribers, ScanEmpty(s) PROVE TypeOK'
        BY <2>5 DEF TypeOK, ScanEmpty, Goto, Locations
    <2>6. ASSUME NEW s \in Subscribers, Send(s) PROVE TypeOK'
        <3> DEFINE o == out[s] \o hold[s]
        <3>1. o \in Seq(Event) /\ Len(o) = Len(out[s]) + Len(hold[s])
            BY ConcatProperties DEF TypeOK
        <3>2. Len(o) <= OutCap
            BY <2>6, <3>1, LenProperties DEF TypeOK, Send
        <3> HIDE DEF o
        <3>3. out' = [out EXCEPT ![s] = o]
            BY <2>6 DEF Send, o
        <3>4. /\ out' \in [Subscribers -> Seq(Event)]
              /\ \A t \in Subscribers : Len(out'[t]) <= OutCap
            BY <3>1, <3>2, <3>3 DEF TypeOK
        <3>5. /\ hold' \in [Subscribers -> Seq(Event)]
              /\ \A t \in Subscribers : Len(hold'[t]) <= 1
            BY <2>6, EmptySeq DEF TypeOK, Send
        <3> QED BY <2>6, <3>4, <3>5 DEF TypeOK, Send, Goto, Locations
    <2>7. ASSUME NEW s \in Subscribers, Wake(s) PROVE TypeOK'
        BY <2>7 DEF TypeOK, Wake, Goto, Locations
    <2>8. ASSUME NEW s \in Subscribers, Quit(s) PROVE TypeOK'
        BY <2>8 DEF TypeOK, Quit, Goto, Locations
    <2>9. ASSUME NEW s \in Subscribers, Unregister(s) PROVE TypeOK'
        BY <2>9 DEF TypeOK, Unregister, Goto, Locations
    <2>10. ASSUME NEW s \in Subscribers, Close(s) PROVE TypeOK'
        BY <2>10 DEF TypeOK, Close, Goto, Locations
    <2>11. ASSUME NEW s \in Subscribers, Receive(s) PROVE TypeOK'
        <3> DEFINE g == Append(got[s], Head(out[s]))
                   o == Tail(out[s])
        <3>1. /\ g \in Seq(Event)
              /\ o \in Seq(Event)
              /\ Len(o) <= OutCap
            BY <2>11, HeadTailProperties, AppendProperties, LenProperties DEF TypeOK, Receive
        <3> HIDE DEF g, o
        <3>2. got' = [got EXCEPT ![s] = g] /\ out' = [out EXCEPT ![s] = o]
            BY <2>11 DEF Receive, g, o
        <3>3. /\ got' \in [Subscribers -> Seq(Event)]
              /\ out' \in [Subscribers -> Seq(Event)]
              /\ \A t \in Subscribers : Len(out'[t]) <= OutCap
            BY <3>1, <3>2 DEF TypeOK
        <3> QED BY <2>11, <3>3 DEF TypeOK, Receive
    <2>12. ASSUME NEW s \in Subscribers, Cancel(s) PROVE TypeOK'
        BY <2>12 DEF TypeOK, Cancel
    <2>13. CASE UNCHANGED vars
        BY <2>13 DEF TypeOK, vars
    <2> QED BY <2>1, <2>2, <2>3, <2>4, <2>5, <2>6, <2>7, <2>8, <2>9, <2>10, <2>11, <2>12, <2>13
            DEF Next, Goroutine
<1> QED BY <1>1, <1>2, PTL DEF Spec

-------------------------------------------------------------------------------
(* The inductive invariant.                                                *)

(* One step keeps every subscriber's Flow: only ScanTake, Send, Receive    *)
(* and Emit touch what it relates.                                         *)
LEMMA FlowStep ==
    ASSUME TypeOK, InOrder, [Next]_vars,
           \A s \in Subscribers : HoldsOnlyToSend(s)
    PROVE  InOrder'
<1> USE DEF InOrder
<1> DEFINE Same(s) == /\ cursor'[s] = cursor[s]
                      /\ got'[s] = got[s]
                      /\ out'[s] = out[s]
                      /\ hold'[s] = hold[s]
<1>t. ASSUME NEW s \in Subscribers
      PROVE  /\ events \in Seq(Event) /\ got[s] \in Seq(Event) /\ out[s] \in Seq(Event)
             /\ hold[s] \in Seq(Event) /\ cursor[s] \in Nat /\ Len(events) \in Nat
             /\ cursor[s] <= Len(events)
             /\ got[s] \o out[s] \o hold[s] = SubSeq(events, 1, cursor[s])
    BY LenProperties DEF TypeOK, Flow
<1>same. ASSUME events' = events, NEW s \in Subscribers, Same(s)
         PROVE  Flow(s)'
    BY <1>same, <1>t DEF Flow
<1>1. ASSUME NEW e \in Event, Emit(e) PROVE InOrder'
    <2> SUFFICES ASSUME NEW s \in Subscribers PROVE Flow(s)'
        OBVIOUS
    <2>1. Same(s) /\ events' = Append(events, e)
        BY <1>1 DEF Emit
    <2>2. cursor[s] \in 0 .. Len(events) /\ Len(events) \in Nat
        BY LenProperties DEF TypeOK, Flow
    <2>3. Len(Append(events, e)) = Len(events) + 1
        BY AppendProperties DEF TypeOK
    <2>4. SubSeq(Append(events, e), 1, cursor[s]) = SubSeq(events, 1, cursor[s])
        BY <2>2, PrefixOfAppend DEF TypeOK
    <2>5. cursor[s] <= Len(Append(events, e))
        BY <2>2, <2>3
    <2> QED BY <2>1, <2>4, <2>5 DEF Flow
<1>2. ASSUME NEW s \in Subscribers, ScanTake(s) PROVE InOrder'
    <2>0. /\ got[s] \in Seq(Event) /\ out[s] \in Seq(Event) /\ hold[s] \in Seq(Event)
          /\ got[s] \o out[s] \in Seq(Event)
        BY ConcatProperties DEF TypeOK
    <2> DEFINE e == events[cursor[s] + 1]
    <2>1. e \in Event /\ cursor[s] < Len(events)
        <3>1. cursor[s] + 1 \in 1 .. Len(events)
            BY <1>2, LenProperties DEF ScanTake, TypeOK
        <3> QED BY <1>2, <3>1, ElementOfSeq DEF ScanTake, TypeOK
    <2>2. SubSeq(events, 1, cursor[s] + 1) = SubSeq(events, 1, cursor[s]) \o <<e>>
        BY <2>1, TakeNext DEF TypeOK
    <2>3. hold[s] = <<>>
        BY <1>2 DEF ScanTake, HoldsOnlyToSend
    <2>4. (got[s] \o out[s]) \o <<>> = got[s] \o out[s]
        BY <2>0, ConcatEmptySeq
    <2>5. /\ events' = events /\ cursor'[s] = cursor[s] + 1
          /\ got'[s] = got[s] /\ out'[s] = out[s] /\ hold'[s] = <<e>>
        BY <1>2 DEF ScanTake, TypeOK
    <2> HIDE DEF e
    <2>6. (got[s] \o out[s]) \o <<e>> = SubSeq(events, 1, cursor[s] + 1)
        BY <1>t, <2>2, <2>3, <2>4, Zenon
    <2>7. Flow(s)'
        <3>1. cursor[s] + 1 <= Len(events)
            <4>1. cursor[s] \in Nat /\ Len(events) \in Nat
                BY LenProperties DEF TypeOK
            <4> QED BY <2>1, <4>1
        <3> QED BY <2>5, <2>6, <3>1 DEF Flow
    <2>8. ASSUME NEW r \in Subscribers, r # s PROVE Flow(r)'
        <3>1. Same(r)
            BY <1>2, <2>8 DEF ScanTake, TypeOK
        <3> QED BY <2>5, <3>1, <1>same
    <2> QED BY <2>7, <2>8
<1>3. ASSUME NEW s \in Subscribers, Send(s) PROVE InOrder'
    <2>0. /\ got[s] \in Seq(Event) /\ out[s] \in Seq(Event) /\ hold[s] \in Seq(Event)
          /\ got[s] \o out[s] \in Seq(Event)
        BY ConcatProperties DEF TypeOK
    <2>1. /\ events' = events /\ cursor'[s] = cursor[s]
          /\ got'[s] = got[s] /\ out'[s] = out[s] \o hold[s] /\ hold'[s] = <<>>
        BY <1>3 DEF Send, TypeOK
    <2>2. out[s] \o hold[s] \in Seq(Event) /\ got[s] \o (out[s] \o hold[s]) \in Seq(Event)
        BY <2>0, ConcatProperties
    <2>3. (got[s] \o (out[s] \o hold[s])) \o <<>> = got[s] \o (out[s] \o hold[s])
        BY <2>2, ConcatEmptySeq
    <2>4. (got[s] \o out[s]) \o hold[s] = got[s] \o (out[s] \o hold[s])
        <3>1. \A g, o, h \in Seq(Event) : (g \o o) \o h = g \o (o \o h)
            BY SMTT(30), ConcatAssociative
        <3> QED BY <2>0, <3>1, Zenon
    <2>5. Flow(s)'
        BY <1>t, <2>1, <2>3, <2>4 DEF Flow
    <2>6. ASSUME NEW r \in Subscribers, r # s PROVE Flow(r)'
        <3>1. Same(r)
            BY <1>3, <2>6 DEF Send, TypeOK
        <3> QED BY <2>1, <3>1, <1>same
    <2> QED BY <2>5, <2>6
<1>4. ASSUME NEW s \in Subscribers, Receive(s) PROVE InOrder'
    <2>1. /\ events' = events /\ cursor'[s] = cursor[s] /\ hold'[s] = hold[s]
          /\ got'[s] = Append(got[s], Head(out[s])) /\ out'[s] = Tail(out[s])
        BY <1>4 DEF Receive, TypeOK
    <2>2. Append(got[s], Head(out[s])) \o Tail(out[s]) = got[s] \o out[s]
        BY <1>4, <1>t, MoveHead DEF Receive
    <2>3. Flow(s)'
        BY <1>t, <2>1, <2>2 DEF Flow
    <2>4. ASSUME NEW r \in Subscribers, r # s PROVE Flow(r)'
        <3>1. Same(r)
            BY <1>4, <2>4 DEF Receive, TypeOK
        <3> QED BY <2>1, <3>1, <1>same
    <2> QED BY <2>3, <2>4
<1>5. ASSUME events' = events, UNCHANGED <<cursor, hold, out, got>> PROVE InOrder'
    BY <1>5, <1>same
<1>6. CASE Finish \/ UNCHANGED vars
    BY <1>6, <1>5 DEF Finish, vars
<1>7. ASSUME NEW s \in Subscribers,
             \/ Subscribe(s) \/ ScanEmpty(s) \/ Wake(s) \/ Quit(s)
             \/ Unregister(s) \/ Close(s) \/ Cancel(s)
      PROVE  InOrder'
    BY <1>7, <1>5 DEF Subscribe, ScanEmpty, Wake, Quit, Unregister, Close, Cancel
<1> QED BY <1>1, <1>2, <1>3, <1>4, <1>6, <1>7 DEF Next, Goroutine

(* One step keeps the rest of the strengthening.                           *)
LEMMA ControlStep ==
    ASSUME FanoutInv, [Next]_vars, TypeOK'
    PROVE  /\ NoLostWakeup'
           /\ (mark <= Len(events))'
           /\ \A s \in Subscribers : Registered(s)' /\ HoldsOnlyToSend(s)' /\ LeftLoop(s)'
<1> USE DEF NoLostWakeup, Registered, HoldsOnlyToSend, LeftLoop
<1>t. Len(events) \in Nat
    BY LenProperties DEF FanoutInv, TypeOK
<1>1. ASSUME NEW e \in Event, Emit(e)
      PROVE  /\ NoLostWakeup'
             /\ (mark <= Len(events))'
             /\ \A s \in Subscribers : Registered(s)' /\ HoldsOnlyToSend(s)' /\ LeftLoop(s)'
    <2>1. Len(events') = Len(events) + 1
        BY <1>1, AppendProperties DEF Emit, FanoutInv, TypeOK
    <2>2. NoLostWakeup'
        <3> SUFFICES ASSUME NEW s \in Subscribers, pc'[s] = "wait" PROVE wake'[s]
            OBVIOUS
        <3>1. s \in subs
            BY <1>1 DEF Emit, FanoutInv
        <3> QED BY <1>1, <3>1 DEF Emit, WakeAll
    <2>3. (mark <= Len(events))'
        BY <1>1, <1>t, <2>1 DEF Emit, FanoutInv, TypeOK
    <2>4. \A s \in Subscribers : Registered(s)' /\ HoldsOnlyToSend(s)' /\ LeftLoop(s)'
        <3>1. UNCHANGED <<done, subs, pc, cursor, hold, cancelled, mark>>
            BY <1>1 DEF Emit
        <3> QED BY <3>1 DEF FanoutInv
    <2> QED BY <2>2, <2>3, <2>4
<1>2. CASE Finish
    <2>1. NoLostWakeup'
        BY <1>2 DEF Finish, WakeAll, FanoutInv, TypeOK
    <2>2. (mark <= Len(events))'
        BY <1>2, <1>t DEF Finish, FanoutInv, TypeOK
    <2>3. \A s \in Subscribers : Registered(s)' /\ HoldsOnlyToSend(s)'
        BY <1>2 DEF Finish, FanoutInv, TypeOK
    <2>4. \A s \in Subscribers : LeftLoop(s)'
        BY <1>2 DEF Finish, FanoutInv, TypeOK
    <2> QED BY <2>1, <2>2, <2>3, <2>4
<1>3. ASSUME NEW s \in Subscribers, Goroutine(s) \/ Subscribe(s) \/ Receive(s) \/ Cancel(s)
      PROVE  /\ NoLostWakeup'
             /\ (mark <= Len(events))'
             /\ \A r \in Subscribers : Registered(r)' /\ HoldsOnlyToSend(r)' /\ LeftLoop(r)'
    <2>1. CASE Subscribe(s)
        BY <2>1 DEF Subscribe, Goto, FanoutInv, TypeOK, Locations
    <2>2. CASE ScanTake(s)
        <3>1. /\ pc[s] = "scan" /\ cursor[s] < Len(events)
              /\ pc' = [pc EXCEPT ![s] = "send"] /\ cursor' = [cursor EXCEPT ![s] = @ + 1]
              /\ \A r \in Subscribers : r # s => hold'[r] = hold[r]
              /\ UNCHANGED <<events, done, subs, wake, out, cancelled, got, mark>>
            BY <2>2 DEF ScanTake, Goto, FanoutInv, TypeOK
        <3>2. Len(hold'[s]) = 1
            <4>1. hold'[s] = <<events[cursor[s] + 1]>>
                BY <2>2 DEF ScanTake, FanoutInv, TypeOK
            <4> QED BY <4>1
        <3> QED BY <3>1, <3>2, <1>t DEF FanoutInv, TypeOK
    <2>3. CASE ScanEmpty(s)
        <3>1. cursor[s] = Len(events)
            BY <2>3, <1>t DEF ScanEmpty, FanoutInv, InOrder, Flow, TypeOK
        <3> QED BY <2>3, <3>1, <1>t DEF ScanEmpty, Goto, FanoutInv, TypeOK
    <2>4. CASE Send(s)
        <3>1. /\ pc[s] = "send" /\ pc' = [pc EXCEPT ![s] = "scan"]
              /\ hold' = [hold EXCEPT ![s] = <<>>]
              /\ UNCHANGED <<events, done, subs, wake, cursor, cancelled, got, mark>>
            BY <2>4 DEF Send, Goto
        <3> QED BY <3>1 DEF FanoutInv, TypeOK
    <2>5. CASE Wake(s)
        BY <2>5 DEF Wake, Goto, FanoutInv, TypeOK
    <2>6. CASE Quit(s)
        BY <2>6 DEF Quit, Goto, FanoutInv, TypeOK
    <2>7. CASE Unregister(s)
        BY <2>7 DEF Unregister, Goto, FanoutInv, TypeOK
    <2>8. CASE Close(s)
        BY <2>8 DEF Close, Goto, FanoutInv, TypeOK
    <2>9. CASE Receive(s)
        <3>1. UNCHANGED <<events, done, subs, wake, pc, cursor, hold, cancelled, mark>>
            BY <2>9 DEF Receive
        <3> QED BY <3>1 DEF FanoutInv, TypeOK
    <2>10. CASE Cancel(s)
        BY <2>10 DEF Cancel, FanoutInv, TypeOK
    <2> QED BY <1>3, <2>1, <2>2, <2>3, <2>4, <2>5, <2>6, <2>7, <2>8, <2>9, <2>10 DEF Goroutine
<1>4. CASE UNCHANGED vars
    BY <1>4 DEF vars, FanoutInv, TypeOK
<1> QED BY <1>1, <1>2, <1>3, <1>4 DEF Next

(* FanoutInv is an invariant.                                              *)
THEOREM FanoutInvariant == Spec => []FanoutInv
<1>1. Init /\ TypeOK => FanoutInv
    <2> SUFFICES ASSUME Init, TypeOK PROVE FanoutInv
        OBVIOUS
    <2>1. SubSeq(events, 1, 0) = <<>>
        BY SubSeqEmpty
    <2>2. <<>> \o <<>> \o <<>> = <<>>
        BY EmptySeq, ConcatEmptySeq
    <2>3. InOrder
        <3> SUFFICES ASSUME NEW s \in Subscribers PROVE Flow(s)
            BY DEF InOrder
        <3>1. /\ events = <<>> /\ cursor[s] = 0
              /\ got[s] = <<>> /\ out[s] = <<>> /\ hold[s] = <<>>
            BY DEF Init
        <3>2. got[s] \o out[s] \o hold[s] = SubSeq(events, 1, cursor[s])
            BY <3>1, <2>1, <2>2, Zenon
        <3>3. Len(events) = 0
            BY <3>1, EmptySeq
        <3> QED BY <3>1, <3>2, <3>3 DEF Flow
    <2>4. mark <= Len(events)
        BY EmptySeq DEF Init
    <2> QED BY <2>3, <2>4 DEF Init, FanoutInv, NoLostWakeup, Registered, HoldsOnlyToSend, LeftLoop
<1>2. FanoutInv /\ TypeOK' /\ [Next]_vars => FanoutInv'
    BY FlowStep, ControlStep DEF FanoutInv
<1> QED BY <1>1, <1>2, TypeCorrect, PTL DEF Spec

(* Events reach every subscriber in order and from the first one.          *)
THEOREM DeliveredInOrder == Spec => []InOrder
BY FanoutInvariant, PTL DEF FanoutInv

(* No goroutine sleeps on an event, or on the end of the log.              *)
THEOREM WakeupsAreNotLost == Spec => []NoLostWakeup
BY FanoutInvariant, PTL DEF FanoutInv

(* An ended channel means that everything emitted before Finish was sent.  *)
THEOREM DrainedBeforeClose == Spec => []CloseAfterDrain
<1>1. FanoutInv => CloseAfterDrain
    <2> SUFFICES ASSUME FanoutInv, NEW s \in Subscribers,
                        pc[s] \in {"close", "closed"}, ~cancelled[s]
                 PROVE  done /\ Len(got[s] \o out[s]) >= mark
        BY DEF CloseAfterDrain
    <2>1. done /\ hold[s] = <<>> /\ cursor[s] >= mark
        BY DEF FanoutInv, LeftLoop
    <2>2. got[s] \o out[s] \in Seq(Event)
        BY ConcatProperties DEF FanoutInv, TypeOK
    <2>3. got[s] \o out[s] = SubSeq(events, 1, cursor[s])
        <3>1. (got[s] \o out[s]) \o <<>> = got[s] \o out[s]
            BY <2>2, ConcatEmptySeq
        <3> QED BY <2>1, <3>1 DEF FanoutInv, InOrder, Flow
    <2>4. Len(SubSeq(events, 1, cursor[s])) = cursor[s]
        <3>1. cursor[s] \in Nat /\ cursor[s] <= Len(events) /\ Len(events) \in Nat
            BY LenProperties DEF FanoutInv, TypeOK, InOrder, Flow
        <3>2. \A i \in 1 .. cursor[s] : events[i] \in Event
            BY <3>1, ElementOfSeq DEF FanoutInv, TypeOK
        <3> QED BY <3>1, <3>2, SubSeqProperties
    <2> QED BY <2>1, <2>3, <2>4
<1> QED BY <1>1, FanoutInvariant, PTL

-------------------------------------------------------------------------------
(* The refinement of EventStream.                                          *)

(* What Send puts on the channel is the event that follows those already   *)
(* sent, and a channel closes unasked only when everything before Finish   *)
(* was sent: the two guards of EventStream.                                *)
LEMMA SentSoFar ==
    ASSUME FanoutInv, NEW s \in Subscribers
    PROVE  /\ got[s] \o out[s] \in Seq(Event)
           /\ hold[s] = <<>> => Len(got[s] \o out[s]) = cursor[s]
           /\ Len(hold[s]) = 1 =>
                /\ Len(got[s] \o out[s]) + 1 = cursor[s]
                /\ hold[s][1] = events[Len(got[s] \o out[s]) + 1]
<1> DEFINE g == got[s] \o out[s]
<1>1. /\ events \in Seq(Event) /\ got[s] \in Seq(Event) /\ out[s] \in Seq(Event)
      /\ hold[s] \in Seq(Event) /\ cursor[s] \in Nat /\ cursor[s] <= Len(events)
      /\ g \o hold[s] = SubSeq(events, 1, cursor[s])
    BY DEF FanoutInv, TypeOK, InOrder, Flow
<1>2. g \in Seq(Event)
    BY <1>1, ConcatProperties
<1> HIDE DEF g
<1>3. Len(events) \in Nat /\ Len(g) \in Nat /\ Len(hold[s]) \in Nat
    BY <1>1, <1>2, LenProperties
<1>4. \A i \in 1 .. cursor[s] : events[i] \in Event
    BY <1>1, <1>3, ElementOfSeq
<1>5. /\ Len(SubSeq(events, 1, cursor[s])) = cursor[s]
      /\ \A i \in 1 .. cursor[s] : SubSeq(events, 1, cursor[s])[i] = events[i]
    BY <1>1, <1>4, SubSeqProperties
<1>6. /\ Len(g \o hold[s]) = Len(g) + Len(hold[s])
      /\ \A i \in 1 .. Len(g) + Len(hold[s]) :
            (g \o hold[s])[i] = IF i <= Len(g) THEN g[i] ELSE hold[s][i - Len(g)]
    BY <1>1, <1>2, ConcatProperties
<1>7. Len(g) + Len(hold[s]) = cursor[s]
    BY <1>1, <1>5, <1>6
<1>8. ASSUME hold[s] = <<>> PROVE Len(g) = cursor[s]
    <2>1. Len(hold[s]) = 0
        BY <1>8, EmptySeq
    <2> QED BY <2>1, <1>3, <1>7
<1>9. ASSUME Len(hold[s]) = 1
      PROVE  Len(g) + 1 = cursor[s] /\ hold[s][1] = events[Len(g) + 1]
    <2>1. Len(g) + 1 = cursor[s] /\ Len(g) + 1 \in 1 .. cursor[s]
        BY <1>9, <1>3, <1>7
    <2>2. (g \o hold[s])[Len(g) + 1] = hold[s][1]
        <3>1. Len(g) + 1 \in 1 .. Len(g) + Len(hold[s]) /\ ~(Len(g) + 1 <= Len(g))
            BY <1>9, <1>3
        <3>2. (Len(g) + 1) - Len(g) = 1
            BY <1>3
        <3> QED BY <1>6, <3>1, <3>2
    <2>3. (g \o hold[s])[Len(g) + 1] = events[Len(g) + 1]
        BY <1>1, <1>5, <2>1
    <2> QED BY <2>1, <2>2, <2>3
<1> QED BY <1>2, <1>8, <1>9 DEF g

(* Every step of the goroutines and of the log's owner is a step of the    *)
(* abstract stream or leaves it unchanged.                                 *)
LEMMA StreamStep ==
    ASSUME FanoutInv, FanoutInv', [Next]_vars
    PROVE  [Stream!StreamNext]_(Stream!svars)
<1> DEFINE shown == [s \in Subscribers |-> got[s] \o out[s]]
           phase == [s \in Subscribers |->
                        CASE pc[s] = "idle" -> "out"
                          [] pc[s] = "closed" -> "shut"
                          [] OTHER -> "in"]
<1> USE DEF Stream!StreamNext, Stream!svars
<1>1. ASSUME NEW e \in Event, Emit(e) PROVE Stream!Publish(e)
    BY <1>1 DEF Emit, Stream!Publish
<1>2. CASE Finish
    <2>1. shown' = shown /\ phase' = phase
        BY <1>2 DEF Finish
    <2>2. CASE done
        BY <1>2, <2>1, <2>2 DEF Finish
    <2>3. CASE ~done
        BY <1>2, <2>1, <2>3 DEF Finish, Stream!End
    <2> QED BY <2>2, <2>3
<1>3. ASSUME NEW s \in Subscribers, Subscribe(s) PROVE Stream!Join(s)
    <2>1. shown' = shown
        BY <1>3 DEF Subscribe
    <2>2. phase[s] = "out" /\ phase' = [phase EXCEPT ![s] = "in"]
        BY <1>3 DEF Subscribe, Goto, FanoutInv, TypeOK
    <2> QED BY <1>3, <2>1, <2>2 DEF Subscribe, Stream!Join
<1>4. ASSUME NEW s \in Subscribers, ScanTake(s) \/ ScanEmpty(s) \/ Wake(s) \/ Quit(s) \/ Unregister(s)
      PROVE  UNCHANGED Stream!svars
    <2>1. /\ shown' = shown
          /\ UNCHANGED <<events, done, mark, cancelled>>
        BY <1>4 DEF ScanTake, ScanEmpty, Wake, Quit, Unregister
    <2>2. phase' = phase
        <3>1. /\ pc[s] # "idle" /\ pc[s] # "closed" /\ pc'[s] # "idle" /\ pc'[s] # "closed"
              /\ \A r \in Subscribers : r # s => pc'[r] = pc[r]
            BY <1>4 DEF ScanTake, ScanEmpty, Wake, Quit, Unregister, Goto, FanoutInv, TypeOK
        <3> QED BY <3>1
    <2> QED BY <2>1, <2>2
<1>5. ASSUME NEW s \in Subscribers, Send(s) PROVE Stream!Show(s)
    <2>1. pc[s] = "send" /\ Len(hold[s]) = 1
        BY <1>5 DEF Send, FanoutInv, HoldsOnlyToSend
    <2>2. phase[s] = "in" /\ phase' = phase
        BY <1>5 DEF Send, Goto, FanoutInv, TypeOK
    <2>3. /\ Len(shown[s]) < Len(events)
          /\ hold[s][1] = events[Len(shown[s]) + 1]
        <3>1. /\ Len(shown[s]) + 1 = cursor[s]
              /\ hold[s][1] = events[Len(shown[s]) + 1]
            BY <2>1, SentSoFar
        <3>2. cursor[s] <= Len(events) /\ cursor[s] \in Nat /\ Len(events) \in Nat
            BY LenProperties DEF FanoutInv, TypeOK, InOrder, Flow
        <3>3. Len(shown[s]) \in Nat
            BY SentSoFar, LenProperties
        <3> HIDE DEF shown
        <3> QED BY <3>1, <3>2, <3>3
    <2>4. got[s] \o (out[s] \o hold[s]) = Append(shown[s], events[Len(shown[s]) + 1])
        <3>1. /\ got[s] \in Seq(Event) /\ out[s] \in Seq(Event) /\ hold[s] \in Seq(Event)
              /\ shown[s] \in Seq(Event)
            BY SentSoFar DEF FanoutInv, TypeOK
        <3>2. hold[s] = <<hold[s][1]>> /\ hold[s][1] \in Event
            <4>1. hold[s][1] \in Event
                <5>1. 1 \in 1 .. Len(hold[s])
                    BY <2>1
                <5> QED BY <3>1, <5>1, ElementOfSeq
            <4>2. /\ <<hold[s][1]>> \in Seq(Event)
                  /\ Len(<<hold[s][1]>>) = 1
                  /\ <<hold[s][1]>>[1] = hold[s][1]
                BY <4>1
            <4> QED BY <2>1, <3>1, <4>1, <4>2, SeqEqual
        <3>3. \A g, o, h \in Seq(Event) : (g \o o) \o h = g \o (o \o h)
            BY ConcatAssociative
        <3>4. (got[s] \o out[s]) \o hold[s] = got[s] \o (out[s] \o hold[s])
            BY ZenonT(30), <3>1, <3>3
        <3>5. \A g \in Seq(Event), e \in Event : Append(g, e) = g \o <<e>>
            BY AppendIsConcat
        <3>6. Append(shown[s], hold[s][1]) = shown[s] \o <<hold[s][1]>>
            BY <3>1, <3>2, <3>5, Zenon
        <3>7. shown[s] \o hold[s] = got[s] \o (out[s] \o hold[s])
            BY <3>4
        <3> HIDE DEF shown
        <3> QED BY <2>3, <3>2, <3>6, <3>7, Zenon
    <2>5. shown' = [shown EXCEPT ![s] = Append(shown[s], events[Len(shown[s]) + 1])]
        <3>1. /\ got' = got
              /\ out'[s] = out[s] \o hold[s]
              /\ \A r \in Subscribers : r # s => out'[r] = out[r]
            BY <1>5 DEF Send, FanoutInv, TypeOK
        <3>2. ASSUME NEW r \in Subscribers
              PROVE  shown'[r] = [shown EXCEPT ![s] = Append(shown[s], events[Len(shown[s]) + 1])][r]
            <4>1. CASE r = s
                BY <4>1, <3>1, <2>4
            <4>2. CASE r # s
                BY <4>2, <3>1
            <4> QED BY <4>1, <4>2
        <3> QED BY <3>2
    <2>6. UNCHANGED <<events, done, mark, cancelled>>
        BY <1>5 DEF Send
    <2> QED BY <2>2, <2>3, <2>5, <2>6 DEF Stream!Show
<1>6. ASSUME NEW s \in Subscribers, Close(s) PROVE Stream!Shut(s)
    <2>1. shown' = shown
        BY <1>6 DEF Close
    <2>2. phase[s] = "in" /\ phase' = [phase EXCEPT ![s] = "shut"]
        BY <1>6 DEF Close, Goto, FanoutInv, TypeOK
    <2>3. cancelled[s] \/ (done /\ Len(shown[s]) >= mark)
        <3>1. CASE ~cancelled[s]
            <4>1. done /\ hold[s] = <<>> /\ cursor[s] >= mark
                BY <1>6, <3>1 DEF Close, FanoutInv, LeftLoop
            <4>2. Len(shown[s]) = cursor[s]
                BY <4>1, SentSoFar
            <4> HIDE DEF shown
            <4> QED BY <4>1, <4>2
        <3> QED BY <3>1
    <2> QED BY <1>6, <2>1, <2>2, <2>3 DEF Close, Stream!Shut
<1>7. ASSUME NEW s \in Subscribers, Receive(s) PROVE UNCHANGED Stream!svars
    <2>1. Append(got[s], Head(out[s])) \o Tail(out[s]) = got[s] \o out[s]
        <3>1. got[s] \in Seq(Event) /\ out[s] \in Seq(Event) /\ out[s] # <<>>
            BY <1>7 DEF Receive, FanoutInv, TypeOK
        <3> QED BY <3>1, MoveHead
    <2>2. /\ got'[s] = Append(got[s], Head(out[s])) /\ out'[s] = Tail(out[s])
          /\ \A r \in Subscribers : r # s => got'[r] = got[r] /\ out'[r] = out[r]
        BY <1>7 DEF Receive, FanoutInv, TypeOK
    <2>3. \A r \in Subscribers : got'[r] \o out'[r] = got[r] \o out[r]
        BY <2>1, <2>2, Zenon
    <2>4. shown' = shown
        BY <2>3
    <2>5. phase' = phase /\ UNCHANGED <<events, done, mark, cancelled>>
        BY <1>7 DEF Receive
    <2> QED BY <2>4, <2>5
<1>8. ASSUME NEW s \in Subscribers, Cancel(s) PROVE Stream!Leave(s)
    <2>1. shown' = shown /\ phase' = phase
        BY <1>8 DEF Cancel
    <2>2. phase[s] # "out"
        BY <1>8 DEF Cancel, FanoutInv, TypeOK
    <2> QED BY <1>8, <2>1, <2>2 DEF Cancel, Stream!Leave
<1>9. CASE UNCHANGED vars
    BY <1>9 DEF vars
<1> QED BY <1>1, <1>2, <1>3, <1>4, <1>5, <1>6, <1>7, <1>8, <1>9 DEF Next, Goroutine

(* Fanout implements the safety part of EventStream.                       *)
THEOREM ImplementsEventStream == Spec => Stream!StreamSafe
<1>1. Init => Stream!StreamInit
    <2> SUFFICES ASSUME Init PROVE Stream!StreamInit
        OBVIOUS
    <2>1. <<>> \o <<>> = <<>>
        BY EmptySeq, ConcatEmptySeq
    <2>2. \A s \in Subscribers : got[s] \o out[s] = <<>>
        BY <2>1 DEF Init
    <2> QED BY <2>2 DEF Init, Stream!StreamInit
<1>2. FanoutInv /\ FanoutInv' /\ [Next]_vars => [Stream!StreamNext]_(Stream!svars)
    BY StreamStep
<1> QED BY <1>1, <1>2, FanoutInvariant, PTL DEF Spec, Stream!StreamSafe

-------------------------------------------------------------------------------
(* Story: what is told of a session that is not live.                      *)

(* What the client should hear, and what it consists of.                   *)
Whole == (IF read THEN LiveLog \o Outcome ELSE <<>>) \o Ending

Telling ==
    {LiveLog[i] : i \in DOMAIN log}
        \cup {ErrorEvent("unsupported"), ErrorEvent("infra_error")}
        \cup {EndedEvent("server restarted"), EndedEvent(reason)}

(* What was heard, is in the channel and is left to send is the whole      *)
(* story, from the read of the build on, and nothing before it.            *)
Told ==
    IF replay \in {"none", "reading"}
    THEN heard = <<>> /\ channel = <<>> /\ story = <<>>
    ELSE heard \o (channel \o story) = Whole

(* The handler returns to a client that stayed only when the goroutine is  *)
(* done and the channel is empty, and no goroutine is started twice.       *)
Courses ==
    /\ request = "asked" => replay = "none"
    /\ request = "left" => ~stayed
    /\ replay = "done" => story = <<>>
    /\ request = "returned" /\ stayed => replay = "done" /\ channel = <<>>

StoryInv ==
    /\ log \in Logs /\ read \in BOOLEAN
    /\ heard \in Seq(Telling) /\ channel \in Seq(Telling) /\ story \in Seq(Telling)
    /\ Told /\ Courses

(* The stored text gives back the log that was live (session.go:190-224):  *)
(* a fact about strings, which the run checks on the logs it has.          *)
Restored == ReplayLog = LiveLog

(* A sequence of one of them, and of none.                                 *)
LEMMA OneOrNone == ASSUME NEW S, NEW e \in S PROVE <<e>> \in Seq(S) /\ <<>> \in Seq(S)
  OBVIOUS

(* The parts of a story are sequences of what is told.                     *)
LEMMA TellingParts ==
    ASSUME log \in Logs
    PROVE  LiveLog \in Seq(Telling) /\ Outcome \in Seq(Telling) /\ Ending \in Seq(Telling)
<1>1. LiveLog \in Seq(Telling)
    <2>1. Len(log) \in Nat /\ DOMAIN log = 1 .. Len(log)
        BY StoryAssumption
    <2>2. LiveLog = [i \in DOMAIN log |-> LiveLog[i]]
        BY DEF LiveLog
    <2>3. \A i \in DOMAIN log : LiveLog[i] \in Telling
        BY DEF Telling
    <2> HIDE DEF LiveLog
    <2>4. LiveLog \in [1 .. Len(log) -> Telling]
        BY <2>1, <2>2, <2>3
    <2> QED BY <2>1, <2>4, SeqDef
<1>2. Outcome \in Seq(Telling)
    <2>1. ErrorEvent("unsupported") \in Telling /\ ErrorEvent("infra_error") \in Telling
        BY DEF Telling
    <2>2. Outcome \in {<<>>, <<ErrorEvent("unsupported")>>, <<ErrorEvent("infra_error")>>}
        BY DEF Outcome
    <2>3. /\ <<ErrorEvent("unsupported")>> \in Seq(Telling)
          /\ <<ErrorEvent("infra_error")>> \in Seq(Telling) /\ <<>> \in Seq(Telling)
        BY ONLY <2>1, OneOrNone
    <2> QED BY ONLY <2>2, <2>3
<1>3. Ending \in Seq(Telling)
    <2>1. EndedEvent("server restarted") \in Telling /\ EndedEvent(reason) \in Telling
        BY DEF Telling
    <2>2. Ending \in {<<EndedEvent("server restarted")>>, <<EndedEvent(reason)>>}
        BY DEF Ending
    <2>3. /\ <<EndedEvent("server restarted")>> \in Seq(Telling)
          /\ <<EndedEvent(reason)>> \in Seq(Telling)
        BY ONLY <2>1, OneOrNone
    <2> QED BY ONLY <2>2, <2>3
<1> QED BY <1>1, <1>2, <1>3

(* The next event goes from what is left to send into the channel.         *)
LEMMA StorySent ==
    ASSUME NEW S, NEW c \in Seq(S), NEW o \in Seq(S), o # <<>>,
           NEW d, NEW r, d = Append(c, Head(o)), r = Tail(o)
    PROVE  d \in Seq(S) /\ r \in Seq(S) /\ d \o r = c \o o
<1>1. Head(o) \in S /\ Tail(o) \in Seq(S)
    BY HeadTailProperties
<1>2. Append(c, Head(o)) \in Seq(S)
    BY <1>1, AppendProperties
<1>3. Append(c, Head(o)) \o Tail(o) = c \o o
    BY MoveHead
<1> QED BY <1>1, <1>2, <1>3

(* And from the channel to the client.                                     *)
LEMMA StoryForwarded ==
    ASSUME NEW S, NEW h \in Seq(S), NEW c \in Seq(S), NEW o \in Seq(S), c # <<>>
    PROVE  /\ Append(h, Head(c)) \in Seq(S) /\ Tail(c) \in Seq(S)
           /\ Append(h, Head(c)) \o (Tail(c) \o o) = h \o (c \o o)
<1>1. Head(c) \in S /\ Tail(c) \in Seq(S)
    BY HeadTailProperties
<1> DEFINE g == Append(h, Head(c))
           t == Tail(c)
<1>2. g \in Seq(S)
    BY <1>1, AppendProperties
<1>3. g \o t = h \o c
    BY MoveHead
<1> HIDE DEF g, t
<1>4. g \o (t \o o) = (g \o t) \o o
    BY SMTT(30), <1>1, <1>2, ConcatAssociative DEF t
<1>5. h \o (c \o o) = (h \o c) \o o
    BY SMTT(30), ConcatAssociative
<1>6. g \o (t \o o) = h \o (c \o o)
    BY ONLY <1>3, <1>4, <1>5
<1> QED BY <1>1, <1>2, <1>6 DEF g, t

(* An asked request has neither told nor heard anything.                   *)
LEMMA StoryBegins == StoryInit => StoryInv
<1> SUFFICES ASSUME StoryInit PROVE StoryInv
    OBVIOUS
<1>1. EndedEvent(reason) \in Telling
    BY DEF Telling
<1>2. <<>> \in Seq(Telling)
    BY ONLY <1>1, OneOrNone
<1>3. heard \in Seq(Telling) /\ channel \in Seq(Telling) /\ story \in Seq(Telling)
    BY <1>2 DEF StoryInit
<1>4. log \in Logs /\ read \in BOOLEAN /\ Told /\ Courses
    BY DEF StoryInit, Told, Courses
<1> QED BY <1>3, <1>4 DEF StoryInv

(* Every step of the goroutine, the handler and the client keeps it.       *)
LEMMA StoryStep == StoryInv /\ Restored /\ [StoryNext]_storyVars => StoryInv'
<1> SUFFICES ASSUME StoryInv, Restored, [StoryNext]_storyVars PROVE StoryInv'
    OBVIOUS
<1>1. UNCHANGED record
    BY DEF StoryNext, storyVars, SubscribeStory, ReadBuild, SendStory, CloseStory,
           Forward, ClientLeaves, HandlerReturns
<1>2. /\ LiveLog' = LiveLog /\ Outcome' = Outcome /\ Ending' = Ending
      /\ Telling' = Telling /\ (log \in Logs)'
    BY <1>1 DEF record, LiveLog, Outcome, Ending, Telling, StoryInv
<1>3. LiveLog \in Seq(Telling) /\ Outcome \in Seq(Telling) /\ Ending \in Seq(Telling)
    BY TellingParts DEF StoryInv
<1>4. CASE UNCHANGED <<replay, read, story, channel, heard>> /\ Courses'
    BY <1>2, <1>4 DEF StoryInv, Told, Whole
<1>5. CASE SubscribeStory
    <2>1. Courses' /\ replay' \in {"none", "reading"} /\ replay \in {"none", "reading"}
        BY <1>5 DEF SubscribeStory, StoryInv, Courses
    <2>2. UNCHANGED <<read, story, channel, heard>>
        BY <1>5 DEF SubscribeStory
    <2> QED BY <1>2, <2>1, <2>2 DEF StoryInv, Told
<1>6. CASE ReadBuild
    <2>1. heard = <<>> /\ channel = <<>> /\ UNCHANGED <<heard, channel, request, stayed>>
          /\ replay' = "sending"
        BY <1>6 DEF ReadBuild, StoryInv, Told
    <2>2. read' \in BOOLEAN
        BY <1>6 DEF ReadBuild
    <2>3. Courses'
        BY <1>6, <2>1 DEF ReadBuild, StoryInv, Courses
    <2>4. story' = Whole' /\ story' \in Seq(Telling)
        <3>1. CASE read' = TRUE /\ story' = ReplayLog \o Outcome \o Ending
            <4>1. story' = (LiveLog \o Outcome) \o Ending
                BY <3>1 DEF Restored
            <4>2. Whole' = (LiveLog \o Outcome) \o Ending
                BY <1>2, <3>1 DEF Whole
            <4>3. LiveLog \o Outcome \in Seq(Telling)
                BY <1>3, ConcatProperties
            <4>4. (LiveLog \o Outcome) \o Ending \in Seq(Telling)
                BY <1>3, <4>3, ConcatProperties
            <4> QED BY <4>1, <4>2, <4>4
        <3>2. CASE read' = FALSE /\ story' = Ending
            <4>1. <<>> \o Ending = Ending
                BY <1>3, ConcatEmptySeq
            <4>2. Whole' = <<>> \o Ending
                BY <1>2, <3>2 DEF Whole
            <4> QED BY <1>3, <3>2, <4>1, <4>2
        <3> QED BY <1>6, <3>1, <3>2 DEF ReadBuild
    <2>5. <<>> \o (<<>> \o story') = story'
        BY <2>4, ConcatEmptySeq
    <2>6. Told'
        BY <2>1, <2>4, <2>5 DEF Told
    <2> QED BY <1>2, <2>1, <2>2, <2>3, <2>4, <2>6 DEF StoryInv
<1>7. CASE SendStory
    <2>1. /\ replay = "sending" /\ story # <<>>
          /\ channel' = Append(channel, Head(story)) /\ story' = Tail(story)
          /\ UNCHANGED <<replay, read, request, stayed, heard>>
        BY <1>7 DEF SendStory
    <2>2. /\ channel' \in Seq(Telling) /\ story' \in Seq(Telling)
          /\ heard' \o (channel' \o story') = heard \o (channel \o story)
        <3>1. heard \in Seq(Telling) /\ channel \in Seq(Telling) /\ story \in Seq(Telling)
            BY DEF StoryInv
        <3>2. /\ story # <<>> /\ channel' = Append(channel, Head(story))
              /\ story' = Tail(story)
            BY <2>1
        <3>3. channel' \in Seq(Telling) /\ story' \in Seq(Telling)
            BY ONLY <3>1, <3>2, StorySent
        <3>4. channel' \o story' = channel \o story
            BY ONLY <3>1, <3>2, StorySent
        <3> QED BY ONLY <2>1, <3>3, <3>4
    <2>3. Told'
        BY <1>2, <2>1, <2>2 DEF StoryInv, Told, Whole
    <2>4. Courses'
        BY <2>1 DEF StoryInv, Courses
    <2> QED BY <1>2, <2>1, <2>2, <2>3, <2>4 DEF StoryInv
<1>8. CASE CloseStory
    <2>1. /\ replay = "sending" /\ replay' = "done" /\ story = <<>>
          /\ UNCHANGED <<read, story, channel, request, stayed, heard>>
        BY <1>8 DEF CloseStory
    <2>2. Told'
        BY <1>2, <2>1 DEF StoryInv, Told, Whole
    <2>3. Courses'
        BY <2>1 DEF StoryInv, Courses
    <2> QED BY <1>2, <2>1, <2>2, <2>3 DEF StoryInv
<1>9. CASE Forward
    <2>1. /\ channel # <<>> /\ request \in {"streaming", "left"}
          /\ heard' = Append(heard, Head(channel)) /\ channel' = Tail(channel)
          /\ UNCHANGED <<replay, read, story, request, stayed>>
        BY <1>9 DEF Forward
    <2>2. /\ heard' \in Seq(Telling) /\ channel' \in Seq(Telling)
          /\ heard' \o (channel' \o story') = heard \o (channel \o story)
        BY SMTT(30), <2>1, StoryForwarded DEF StoryInv
    <2>3. Told'
        BY <1>2, <2>1, <2>2 DEF StoryInv, Told, Whole
    <2>4. Courses'
        BY <2>1 DEF StoryInv, Courses
    <2> QED BY <1>2, <2>1, <2>2, <2>3, <2>4 DEF StoryInv
<1>10. CASE ClientLeaves
    <2>1. Courses'
        BY <1>10 DEF ClientLeaves, StoryInv, Courses
    <2> QED BY <1>4, <1>10, <2>1 DEF ClientLeaves
<1>11. CASE HandlerReturns
    <2>1. Courses'
        BY <1>11 DEF HandlerReturns, StoryInv, Courses
    <2> QED BY <1>4, <1>11, <2>1 DEF HandlerReturns
<1>12. CASE UNCHANGED storyVars
    <2>1. Courses'
        BY <1>12 DEF storyVars, StoryInv, Courses
    <2> QED BY <1>4, <1>12, <2>1 DEF storyVars
<1> QED BY <1>5, <1>6, <1>7, <1>8, <1>9, <1>10, <1>11, <1>12 DEF StoryNext

(* Whoever stays hears all of it, and then why the session ended, for any  *)
(* logs and a channel of any size (session.go:172-189, server.go:261-270), *)
(* if the stored text gives back the log.                                  *)
THEOREM StoryIsWhole == StorySpec /\ []Restored => []WholeStory
<1>1. StoryInv => WholeStory
    <2> SUFFICES ASSUME StoryInv, request = "returned", stayed PROVE heard = Whole
        BY DEF WholeStory, Whole
    <2>1. replay = "done" /\ channel = <<>> /\ story = <<>> /\ heard \in Seq(Telling)
        BY DEF StoryInv, Courses
    <2>2. heard \o (<<>> \o <<>>) = Whole
        BY <2>1 DEF StoryInv, Told
    <2>3. <<>> \o <<>> = <<>>
        OBVIOUS
    <2>4. heard \o <<>> = heard
        BY <2>1, ConcatEmptySeq
    <2> QED BY <2>2, <2>3, <2>4
<1> QED BY <1>1, StoryBegins, StoryStep, PTL DEF StorySpec
===============================================================================
