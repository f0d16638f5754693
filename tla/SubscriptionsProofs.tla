------------------------ MODULE SubscriptionsProofs ------------------------
(* Theorems about Subscriptions, for any number of subscriptions, streams   *)
(* and notes.                                                               *)
EXTENDS Subscriptions, SequenceTheorems, TLAPS

USE SubscriptionsAssumption

\* The popping of k notes off an inbox keeps a sequence of numbers.
LEMMA PopTypes ==
    ASSUME NEW q \in Seq(Nat), NEW d \in Seq(Nat), NEW k \in 0..Len(q)
    PROVE  /\ SubSeq(q, k + 1, Len(q)) \in Seq(Nat)
           /\ d \o SubSeq(q, 1, k) \in Seq(Nat)
           /\ k = 0 => SubSeq(q, k + 1, Len(q)) = q
  <1>1. SubSeq(q, k + 1, Len(q)) \in Seq(Nat)
    BY SubSeqProperties
  <1>2. SubSeq(q, 1, k) \in Seq(Nat)
    BY SubSeqProperties
  <1>3. k = 0 => SubSeq(q, k + 1, Len(q)) = q
    BY SubSeqFull
  <1> QED
    BY <1>1, <1>2, <1>3, ConcatProperties

\* Type correctness: every variable keeps to its type.
THEOREM TypeCorrect == Spec => []TypeOK
  <1>1. Init => TypeOK
    BY DEF Init, TypeOK, Open, Resting, Polling, Dropping
  <1>2. TypeOK /\ [Next]_vars => TypeOK'
    <2> SUFFICES ASSUME TypeOK, [Next]_vars PROVE TypeOK'
      OBVIOUS
    <2> USE DEF TypeOK, Open, Resting, Polling, Dropping, cVars, mapVars, streamVars
    <2>1. ASSUME NEW s \in Subs, Subscribe(s) PROVE TypeOK'
      BY <2>1 DEF Subscribe
    <2>2. ASSUME NEW s \in Subs, Unsubscribe(s) PROVE TypeOK'
      BY <2>2 DEF Unsubscribe, CUnsubscribe
    <2>3. ASSUME NEW s \in Subs, UnsubscribeMark(s) PROVE TypeOK'
      BY <2>3 DEF UnsubscribeMark, MarkDoneIfPresent
    <2>4. ASSUME NEW M \in SUBSET live, WriterBegin(M) PROVE TypeOK'
      BY <2>4 DEF WriterBegin
    <2>5. ASSUME NEW s \in Subs, PushNote(s) PROVE TypeOK'
      BY <2>5, SMTT(30) DEF PushNote
    <2>6. CASE Callback
      BY <2>6 DEF Callback
    <2>7. CASE CallbackReturn
      BY <2>7 DEF CallbackReturn
    <2>8. CASE WriterEnd
      BY <2>8 DEF WriterEnd
    <2>9. ASSUME NEW t \in Streams, Create(t) PROVE TypeOK'
      BY <2>9, SMTT(30) DEF Create, NewStream
    <2>10. ASSUME NEW t \in Streams, PollStart(t) PROVE TypeOK'
      BY <2>10 DEF PollStart
    <2>11. ASSUME NEW t \in Streams, NEW next \in {"store", "parked"},
                  PollForNotes(t, next)
           PROVE  TypeOK'
      <3> DEFINE q == inbox[sub[t]]
                 k == IF max[t] < Len(q) THEN max[t] ELSE Len(q)
      <3>1. q \in Seq(Nat) /\ delivered[sub[t]] \in Seq(Nat) /\ k \in 0..Len(q)
        OBVIOUS
      <3>2. /\ SubSeq(q, k + 1, Len(q)) \in Seq(Nat)
            /\ delivered[sub[t]] \o SubSeq(q, 1, k) \in Seq(Nat)
        BY <3>1, PopTypes
      <3> QED
        BY <2>11, <3>2 DEF PollForNotes
    <2>12. ASSUME NEW t \in Streams, FirstPoll(t) PROVE TypeOK'
      BY <2>11, <2>12 DEF FirstPoll
    <2>13. ASSUME NEW t \in Streams, StoreWaker(t) PROVE TypeOK'
      BY <2>13 DEF StoreWaker
    <2>14. ASSUME NEW t \in Streams, SecondPoll(t) PROVE TypeOK'
      BY <2>11, <2>14 DEF SecondPoll
    <2>15. ASSUME NEW t \in Streams, DropRemove(t) PROVE TypeOK'
      BY <2>15 DEF DropRemove
    <2>16. ASSUME NEW t \in Streams, DropUnsubscribe(t) PROVE TypeOK'
      BY <2>16 DEF DropUnsubscribe, CUnsubscribe
    <2>17. ASSUME NEW t \in Streams, DropMark(t) PROVE TypeOK'
      BY <2>17 DEF DropMark, MarkDoneIfPresent
    <2>18. CASE UNCHANGED vars
      BY <2>18 DEF vars
    <2> QED
      BY <2>1, <2>2, <2>3, <2>4, <2>5, <2>6, <2>7, <2>8, <2>9, <2>10, <2>12,
         <2>13, <2>14, <2>15, <2>16, <2>17, <2>18
         DEF Next, Writer, Application, Stream
  <1> QED
    BY <1>1, <1>2, PTL DEF Spec

-----------------------------------------------------------------------------
\* What a poll does to the four variables it touches, without sequences' detail.
LEMMA PollEffect ==
    ASSUME TypeOK, NEW t \in Streams, NEW next, PollForNotes(t, next)
    PROVE  /\ \A s \in Subs \ {sub[t]} : inbox'[s] = inbox[s] /\ delivered'[s] = delivered[s]
           /\ inbox[sub[t]] = <<>> =>
                /\ inbox' = inbox
                /\ delivered' = delivered
                /\ pc' = [pc EXCEPT ![t] = next]
           /\ \/ pc' = [pc EXCEPT ![t] = "idle"]
              \/ pc' = [pc EXCEPT ![t] = next] /\ (max[t] = 0 \/ inbox'[sub[t]] = <<>>)
           /\ UNCHANGED <<subscribed, live, fed, wpc, todo, cur, mapVars,
                          unsubbing, sub, max, onDrop, notified>>
  <1> DEFINE s == sub[t]
             q == inbox[s]
             k == IF max[t] < Len(q) THEN max[t] ELSE Len(q)
  <1>1. s \in Subs /\ q \in Seq(Nat) /\ delivered[s] \in Seq(Nat) /\ k \in 0..Len(q)
    BY DEF TypeOK
  <1>2. q = <<>> => k = 0 /\ SubSeq(q, k + 1, Len(q)) = q /\ delivered[s] \o SubSeq(q, 1, k) = delivered[s]
    <2> SUFFICES ASSUME q = <<>> PROVE k = 0 /\ SubSeq(q, k + 1, Len(q)) = q
                                     /\ delivered[s] \o SubSeq(q, 1, k) = delivered[s]
      OBVIOUS
    <2>1. k = 0
      BY <1>1
    <2>2. SubSeq(q, k + 1, Len(q)) = q
      BY <1>1, <2>1, PopTypes
    <2>3. SubSeq(q, 1, k) = <<>>
      BY <2>1, SubSeqEmpty
    <2> QED
      BY <1>1, <2>1, <2>2, <2>3, ConcatEmptySeq
  <1>3. k = 0 => max[t] = 0 \/ q = <<>>
    BY <1>1, EmptySeq DEF TypeOK
  <1>4. k = 0 => SubSeq(q, k + 1, Len(q)) = q
    BY <1>1, PopTypes
  <1>5. /\ inbox' = [inbox EXCEPT ![s] = SubSeq(q, k + 1, Len(q))]
        /\ delivered' = [delivered EXCEPT ![s] = delivered[s] \o SubSeq(q, 1, k)]
        /\ pc' = [pc EXCEPT ![t] = IF k > 0 THEN "idle" ELSE next]
        /\ UNCHANGED <<subscribed, live, fed, wpc, todo, cur, mapVars,
                       unsubbing, sub, max, onDrop, notified>>
    BY DEF PollForNotes
  <1> HIDE DEF k
  <1>6. \A r \in Subs \ {s} : inbox'[r] = inbox[r] /\ delivered'[r] = delivered[r]
    BY <1>5 DEF TypeOK
  <1>7. q = <<>> => /\ inbox' = inbox
                    /\ delivered' = delivered
                    /\ pc' = [pc EXCEPT ![t] = next]
    BY <1>1, <1>2, <1>5 DEF TypeOK
  <1>8. \/ pc' = [pc EXCEPT ![t] = "idle"]
        \/ pc' = [pc EXCEPT ![t] = next] /\ (max[t] = 0 \/ inbox'[s] = <<>>)
    <2>1. CASE k > 0
      BY <1>5, <2>1
    <2>2. CASE k = 0
      BY <1>3, <1>5, <1>7, <2>2
    <2> QED
      BY <1>1, <2>1, <2>2
  <1> QED
    BY <1>5, <1>6, <1>7, <1>8

\* SafeInv is inductive relative to the types.
LEMMA SafeInvStep == TypeOK /\ SafeInv /\ [Next]_vars => SafeInv'
  <1> SUFFICES ASSUME TypeOK, SafeInv, [Next]_vars PROVE SafeInv'
    OBVIOUS
  <1> USE DEF TypeOK, SafeInv, NoOrphanEntry, Open, Resting, Polling, Dropping,
              cVars, mapVars, streamVars
  <1>1. ASSUME NEW s \in Subs, Subscribe(s) PROVE SafeInv'
    BY <1>1 DEF Subscribe
  <1>2. ASSUME NEW s \in Subs, Unsubscribe(s) PROVE SafeInv'
    BY <1>2 DEF Unsubscribe, CUnsubscribe, MonitorFree
  <1>3. ASSUME NEW s \in Subs, UnsubscribeMark(s) PROVE SafeInv'
    BY <1>3 DEF UnsubscribeMark, MarkDoneIfPresent
  <1>4. ASSUME NEW M \in SUBSET live, WriterBegin(M) PROVE SafeInv'
    BY <1>4 DEF WriterBegin
  <1>5. ASSUME NEW s \in Subs, PushNote(s) PROVE SafeInv'
    BY <1>5 DEF PushNote
  <1>6. CASE Callback
    BY <1>6 DEF Callback
  <1>7. CASE CallbackReturn
    BY <1>7 DEF CallbackReturn
  <1>8. CASE WriterEnd
    BY <1>8 DEF WriterEnd
  <1>9. ASSUME NEW t \in Streams, Create(t) PROVE SafeInv'
    <2>1. NoOrphanEntry'
      <3> SUFFICES ASSUME NEW s \in entries
                   PROVE  \E u \in Streams : pc'[u] \in Open /\ sub'[u] = s
        BY <1>9 DEF Create, NewStream
      <3>1. PICK u \in Streams : pc[u] \in Open /\ sub[u] = s
        OBVIOUS
      <3>2. u # t
        BY <1>9, <3>1 DEF Create, NewStream
      <3> QED
        BY <1>9, <3>1, <3>2 DEF Create, NewStream
    <2> HIDE DEF NoOrphanEntry
    <2> QED
      BY <2>1, <1>9 DEF Create, NewStream
  <1>10. ASSUME NEW t \in Streams, PollStart(t) PROVE SafeInv'
    BY <1>10 DEF PollStart
  <1>11. ASSUME NEW t \in Streams, FirstPoll(t) PROVE SafeInv'
    <2>1. pc[t] = "first" /\ PollForNotes(t, "store")
      BY <1>11 DEF FirstPoll
    <2>2. /\ \/ pc' = [pc EXCEPT ![t] = "idle"]
             \/ pc' = [pc EXCEPT ![t] = "store"]
          /\ UNCHANGED <<subscribed, live, fed, wpc, todo, cur, entries, done,
                         waker, unsubbing, sub>>
          /\ \A s \in Subs \ {sub[t]} : inbox'[s] = inbox[s] /\ delivered'[s] = delivered[s]
          /\ inbox[sub[t]] = <<>> => inbox' = inbox /\ delivered' = delivered
      BY <2>1, PollEffect DEF mapVars
    <2>3. NoOrphanEntry'
      <3> SUFFICES ASSUME NEW s \in entries
                   PROVE  \E u \in Streams : pc'[u] \in Open /\ sub[u] = s
        BY <2>2
      <3>1. PICK u \in Streams : pc[u] \in Open /\ sub[u] = s
        OBVIOUS
      <3> QED
        BY <2>2, <3>1, SMTT(30)
    <2>4. \A s \in Subs \ live' : inbox'[s] = <<>>
      BY <2>2
    <2>5. \A s \in Subs \ subscribed' : fed'[s] = 0 /\ delivered'[s] = <<>>
      BY <2>2
    <2> HIDE DEF NoOrphanEntry
    <2> QED
      BY <2>1, <2>2, <2>3, <2>4, <2>5, SMTT(30)
  <1>12. ASSUME NEW t \in Streams, StoreWaker(t) PROVE SafeInv'
    BY <1>12 DEF StoreWaker
  <1>13. ASSUME NEW t \in Streams, SecondPoll(t) PROVE SafeInv'
    <2>1. pc[t] = "second" /\ PollForNotes(t, "parked")
      BY <1>13 DEF SecondPoll
    <2>2. /\ \/ pc' = [pc EXCEPT ![t] = "idle"]
             \/ pc' = [pc EXCEPT ![t] = "parked"]
          /\ UNCHANGED <<subscribed, live, fed, wpc, todo, cur, entries, done,
                         waker, unsubbing, sub>>
          /\ \A s \in Subs \ {sub[t]} : inbox'[s] = inbox[s] /\ delivered'[s] = delivered[s]
          /\ inbox[sub[t]] = <<>> => inbox' = inbox /\ delivered' = delivered
      BY <2>1, PollEffect DEF mapVars
    <2>3. NoOrphanEntry'
      <3> SUFFICES ASSUME NEW s \in entries
                   PROVE  \E u \in Streams : pc'[u] \in Open /\ sub[u] = s
        BY <2>2
      <3>1. PICK u \in Streams : pc[u] \in Open /\ sub[u] = s
        OBVIOUS
      <3> QED
        BY <2>2, <3>1
    <2>4. \A s \in Subs \ live' : inbox'[s] = <<>>
      BY <2>2
    <2>5. \A s \in Subs \ subscribed' : fed'[s] = 0 /\ delivered'[s] = <<>>
      BY <2>2
    <2> HIDE DEF NoOrphanEntry
    <2> QED
      BY <2>1, <2>2, <2>3, <2>4, <2>5, SMTT(30)
  <1>14. ASSUME NEW t \in Streams, DropRemove(t) PROVE SafeInv'
    BY <1>14 DEF DropRemove
  <1>15. ASSUME NEW t \in Streams, DropUnsubscribe(t) PROVE SafeInv'
    <2>1. NoOrphanEntry'
      BY <1>15 DEF DropUnsubscribe, CUnsubscribe, MonitorFree
    <2> HIDE DEF NoOrphanEntry
    <2> QED
      BY <2>1, <1>15 DEF DropUnsubscribe, CUnsubscribe, MonitorFree
  <1>16. ASSUME NEW t \in Streams, DropMark(t) PROVE SafeInv'
    <2>1. NoOrphanEntry'
      BY <1>16 DEF DropMark, MarkDoneIfPresent
    <2> HIDE DEF NoOrphanEntry
    <2> QED
      BY <2>1, <1>16 DEF DropMark, MarkDoneIfPresent
  <1>17. CASE UNCHANGED vars
    BY <1>17 DEF vars
  <1> QED
    BY <1>1, <1>2, <1>3, <1>4, <1>5, <1>6, <1>7, <1>8, <1>9, <1>10, <1>11,
       <1>12, <1>13, <1>14, <1>15, <1>16, <1>17
       DEF Next, Writer, Application, Stream

\* What a closed subscription looks like is invariant, shared or not.
LEMMA SafeInvariant == Spec => [](TypeOK /\ SafeInv)
  <1>1. Init => SafeInv
    BY DEF Init, SafeInv, NoOrphanEntry, Open, Resting, Polling, Dropping
  <1> QED
    BY <1>1, TypeCorrect, SafeInvStep, PTL DEF Spec

\* A stream ends only after its subscription was given up, for every number
\* of streams and subscriptions, shared or not.
THEOREM EndIsNoFalseAlarm == Spec => []EndedOnlyIfUnsubscribed
  <1>1. SafeInv => EndedOnlyIfUnsubscribed
    BY DEF SafeInv, EndedOnlyIfUnsubscribed
  <1> QED
    BY <1>1, SafeInvariant, PTL

\* The map never keeps an entry that no stream will remove.
THEOREM NoEntryLeaks == Spec => []NoOrphanEntry
  <1>1. SafeInv => NoOrphanEntry
    BY DEF SafeInv
  <1> QED
    BY <1>1, SafeInvariant, PTL

-----------------------------------------------------------------------------
\* WakeInv is inductive relative to the two invariants above when no two
\* streams share a subscription.
LEMMA WakeInvStep ==
    ASSUME ~SharedSubs
    PROVE  TypeOK /\ SafeInv /\ WakeInv /\ [Next]_vars => WakeInv'
  <1> SUFFICES ASSUME TypeOK, SafeInv, WakeInv, [Next]_vars PROVE WakeInv'
    OBVIOUS
  <1> USE DEF TypeOK, WakeInv, NoLostWakeup, Active, Open, Resting, Polling,
              Dropping, cVars, mapVars, streamVars
  <1>1. ASSUME NEW s \in Subs, Subscribe(s) PROVE WakeInv'
    BY <1>1 DEF Subscribe
  <1>2. ASSUME NEW s \in Subs, Unsubscribe(s) PROVE WakeInv'
    BY <1>2 DEF Unsubscribe, CUnsubscribe, MonitorFree
  <1>3. ASSUME NEW s \in Subs, UnsubscribeMark(s) PROVE WakeInv'
    BY <1>3 DEF UnsubscribeMark, MarkDoneIfPresent
  <1>4. ASSUME NEW M \in SUBSET live, WriterBegin(M) PROVE WakeInv'
    BY <1>4 DEF WriterBegin
  <1>5. ASSUME NEW s \in Subs, PushNote(s) PROVE WakeInv'
    BY <1>5 DEF PushNote
  <1>6. CASE Callback
    BY <1>6 DEF Callback
  <1>7. CASE CallbackReturn
    BY <1>7 DEF CallbackReturn
  <1>8. CASE WriterEnd
    BY <1>8 DEF WriterEnd
  <1>9. ASSUME NEW t \in Streams, Create(t) PROVE WakeInv'
    <2>1. PICK s \in Subs, m \in PerAwait, flag \in OnDropChoices : NewStream(t, s, m, flag)
      BY <1>9 DEF Create
    <2>2. /\ pc[t] = "none"
          /\ \A u \in Active : sub[u] # s
          /\ pc' = [pc EXCEPT ![t] = "idle"]
          /\ sub' = [sub EXCEPT ![t] = s]
          /\ max' = [max EXCEPT ![t] = m]
          /\ UNCHANGED <<inbox, wpc, cur, entries, done, waker, notified>>
      BY <2>1 DEF NewStream
    <2>3. \A u, v \in Active' : sub'[u] = sub'[v] => u = v
      BY <2>2
    <2> HIDE DEF Active
    <2> QED
      BY <2>2, <2>3
  <1>10. ASSUME NEW t \in Streams, PollStart(t) PROVE WakeInv'
    BY <1>10 DEF PollStart
  <1>11. ASSUME NEW t \in Streams, FirstPoll(t) PROVE WakeInv'
    <2>1. pc[t] = "first" /\ PollForNotes(t, "store")
      BY <1>11 DEF FirstPoll
    <2>2. /\ \/ pc' = [pc EXCEPT ![t] = "idle"]
             \/ pc' = [pc EXCEPT ![t] = "store"] /\ (max[t] = 0 \/ inbox'[sub[t]] = <<>>)
          /\ UNCHANGED <<wpc, cur, entries, done, waker, sub, max, notified>>
          /\ \A s \in Subs \ {sub[t]} : inbox'[s] = inbox[s]
      BY <2>1, PollEffect DEF mapVars
    <2>3. Active' = Active
      BY <2>1, <2>2
    <2>4. \A u \in Active : u # t => inbox'[sub[u]] = inbox[sub[u]]
      BY <2>1, <2>2
    <2>5. NoLostWakeup'
      BY <2>1, <2>2, <2>4
    <2> HIDE DEF NoLostWakeup, Active
    <2> QED
      BY <2>1, <2>2, <2>3, <2>5
  <1>12. ASSUME NEW t \in Streams, StoreWaker(t) PROVE WakeInv'
    BY <1>12 DEF StoreWaker
  <1>13. ASSUME NEW t \in Streams, SecondPoll(t) PROVE WakeInv'
    <2>1. pc[t] = "second" /\ PollForNotes(t, "parked")
      BY <1>13 DEF SecondPoll
    <2>2. /\ \/ pc' = [pc EXCEPT ![t] = "idle"]
             \/ pc' = [pc EXCEPT ![t] = "parked"] /\ (max[t] = 0 \/ inbox'[sub[t]] = <<>>)
          /\ UNCHANGED <<wpc, cur, entries, done, waker, sub, max, notified>>
          /\ \A s \in Subs \ {sub[t]} : inbox'[s] = inbox[s]
      BY <2>1, PollEffect DEF mapVars
    <2>3. Active' = Active
      BY <2>1, <2>2
    <2>4. \A u \in Active : u # t => inbox'[sub[u]] = inbox[sub[u]]
      BY <2>1, <2>2
    <2>5. NoLostWakeup'
      BY <2>1, <2>2, <2>4
    <2> HIDE DEF NoLostWakeup, Active
    <2> QED
      BY <2>1, <2>2, <2>3, <2>5
  <1>14. ASSUME NEW t \in Streams, DropRemove(t) PROVE WakeInv'
    BY <1>14 DEF DropRemove
  <1>15. ASSUME NEW t \in Streams, DropUnsubscribe(t) PROVE WakeInv'
    BY <1>15 DEF DropUnsubscribe, CUnsubscribe, MonitorFree
  <1>16. ASSUME NEW t \in Streams, DropMark(t) PROVE WakeInv'
    BY <1>16 DEF DropMark, MarkDoneIfPresent
  <1>17. CASE UNCHANGED vars
    BY <1>17 DEF vars
  <1> QED
    BY <1>1, <1>2, <1>3, <1>4, <1>5, <1>6, <1>7, <1>8, <1>9, <1>10, <1>11,
       <1>12, <1>13, <1>14, <1>15, <1>16, <1>17
       DEF Next, Writer, Application, Stream

LEMMA WakeInvariant ==
    ASSUME ~SharedSubs
    PROVE  Spec => [](TypeOK /\ SafeInv /\ WakeInv)
  <1>1. Init => WakeInv
    BY DEF Init, WakeInv, NoLostWakeup, Active, Open, Resting, Polling, Dropping
  <1>2. TypeOK /\ SafeInv /\ WakeInv /\ [Next]_vars => WakeInv'
    BY WakeInvStep
  <1> QED
    BY <1>1, <1>2, SafeInvariant, PTL DEF Spec

\* No stream sleeps over a full inbox unless the writer is about to wake it.
THEOREM NoWakeupIsLost ==
    ASSUME ~SharedSubs
    PROVE  Spec => []NoLostWakeup
  <1>1. WakeInv => NoLostWakeup
    BY DEF WakeInv
  <1> QED
    BY <1>1, WakeInvariant, PTL

\* Once a stream returned None it does nothing else until it is dropped.
THEOREM EndIsFinal ==
    ASSUME ~SharedSubs
    PROVE  Spec => EndedIsFinal
  <1>1. ASSUME TypeOK, WakeInv, [Next]_vars, NEW t \in Streams, pc[t] = "ended"
        PROVE  pc'[t] \in {"ended", "dropUnsub"}
    <2> USE <1>1 DEF TypeOK, Resting
    <2>1. done[sub[t]] /\ sub[t] \in entries
      BY DEF WakeInv
    <2>2. ASSUME NEW s \in Subs, Application(s) PROVE pc' = pc
      BY <2>2 DEF Application, Subscribe, Unsubscribe, UnsubscribeMark, streamVars
    <2>3. CASE Writer
      BY <2>3 DEF Writer, WriterBegin, PushNote, Callback, CallbackReturn,
                  WriterEnd, streamVars
    <2>4. ASSUME NEW u \in Streams, Stream(u)
          PROVE  pc'[t] \in {"ended", "dropUnsub"}
      BY <2>1, <2>4, ZenonT(40) DEF Stream, Create, NewStream, PollStart, FirstPoll, StoreWaker,
           SecondPoll, PollForNotes, DropRemove, DropUnsubscribe, DropMark
    <2>5. CASE UNCHANGED vars
      BY <2>5 DEF vars, streamVars
    <2> QED
      BY <2>2, <2>3, <2>4, <2>5 DEF Next
  <1>2. TypeOK /\ WakeInv /\ [Next]_vars =>
          [\A t \in Streams : pc[t] = "ended" => pc'[t] \in {"ended", "dropUnsub"}]_vars
    BY <1>1
  <1> QED
    BY <1>2, WakeInvariant, PTL DEF Spec, EndedIsFinal

-----------------------------------------------------------------------------
\* Moving k notes from the front of an inbox that continues what was delivered
\* keeps both in the order of the feed.
LEMMA PopOrder ==
    ASSUME NEW q \in Seq(Nat), NEW d \in Seq(Nat), NEW k \in 0..Len(q),
           \A i \in 1..Len(d) : d[i] = i,
           \A i \in 1..Len(q) : q[i] = Len(d) + i
    PROVE  LET q2 == SubSeq(q, k + 1, Len(q))
               d2 == d \o SubSeq(q, 1, k)
           IN  /\ Len(d2) = Len(d) + k /\ Len(q2) = Len(q) - k
               /\ \A i \in 1..Len(d2) : d2[i] = i
               /\ \A i \in 1..Len(q2) : q2[i] = Len(d2) + i
  <1> DEFINE h == SubSeq(q, 1, k)
             q2 == SubSeq(q, k + 1, Len(q))
             d2 == d \o h
  <1>1. /\ h \in Seq(Nat) /\ Len(h) = k
        /\ \A i \in 1..k : h[i] = q[i]
    <2>1. \A i \in 1..k : q[i] \in Nat
      OBVIOUS
    <2> QED
      BY <2>1, SubSeqProperties
  <1>2. /\ Len(q2) = Len(q) - k
        /\ \A i \in 1..Len(q) - k : q2[i] = q[k + i]
    <2>1. \A i \in k + 1..Len(q) : q[i] \in Nat
      OBVIOUS
    <2>2. /\ Len(q2) = IF k + 1 <= Len(q) THEN Len(q) - (k + 1) + 1 ELSE 0
          /\ \A i \in 1..Len(q) - (k + 1) + 1 : q2[i] = q[k + 1 + i - 1]
      BY <2>1, SubSeqProperties
    <2> QED
      BY <2>2
  <1>3. /\ Len(d2) = Len(d) + k
        /\ \A i \in 1..Len(d) + k :
             d2[i] = IF i <= Len(d) THEN d[i] ELSE h[i - Len(d)]
    BY <1>1, ConcatProperties
  <1> HIDE DEF h, q2, d2
  <1>4. \A i \in 1..Len(d2) : d2[i] = i
    <2> TAKE i \in 1..Len(d2)
    <2>1. CASE i <= Len(d)
      BY <1>3, <2>1
    <2>2. CASE i > Len(d)
      <3>1. i - Len(d) \in 1..k /\ i - Len(d) \in 1..Len(q)
        BY <1>3, <2>2
      <3> QED
        <4>1. h[i - Len(d)] = Len(d) + (i - Len(d))
          BY <1>1, <3>1
        <4> QED
          BY <1>3, <2>2, <4>1
    <2> QED
      BY <1>3, <2>1, <2>2
  <1>5. \A i \in 1..Len(q2) : q2[i] = Len(d2) + i
    BY <1>2, <1>3
  <1> QED
    BY <1>2, <1>3, <1>4, <1>5 DEF h, q2, d2

\* How many notes a poll takes, and that it keeps the order of the feed.
LEMMA PollKeepsOrder ==
    ASSUME TypeOK, SafeInv, InOrderNoLoss,
           NEW t \in Streams, NEW next, PollForNotes(t, next)
    PROVE  /\ InOrderNoLoss'
           /\ \/ delivered' = delivered /\ pc' = [pc EXCEPT ![t] = next]
              \/ /\ sub[t] \in live /\ pc' = [pc EXCEPT ![t] = "idle"]
                 /\ Len(delivered[sub[t]]) < Len(delivered'[sub[t]])
                 /\ Len(delivered'[sub[t]]) \in Nat
                 /\ Len(delivered'[sub[t]]) <= fed[sub[t]]
                 /\ Len(delivered'[sub[t]]) <= Len(delivered[sub[t]]) + max[t]
                 /\ delivered' = [delivered EXCEPT ![sub[t]] =
                                    [i \in 1..Len(delivered'[sub[t]]) |-> i]]
  <1> DEFINE s == sub[t]
             q == inbox[s]
             d == delivered[s]
             k == IF max[t] < Len(q) THEN max[t] ELSE Len(q)
             q2 == SubSeq(q, k + 1, Len(q))
             d2 == d \o SubSeq(q, 1, k)
  <1>1. /\ s \in Subs /\ q \in Seq(Nat) /\ d \in Seq(Nat) /\ k \in 0..Len(q)
        /\ max[t] \in Nat /\ k <= max[t] /\ fed[s] \in Nat
    BY DEF TypeOK
  <1>2. /\ inbox' = [inbox EXCEPT ![s] = q2]
        /\ delivered' = [delivered EXCEPT ![s] = d2]
        /\ pc' = [pc EXCEPT ![t] = IF k > 0 THEN "idle" ELSE next]
        /\ live' = live /\ fed' = fed
    BY DEF PollForNotes
  <1>3. s \notin live => q = <<>>
    BY <1>1 DEF SafeInv
  <1>0. Len(d) \in Nat /\ Len(q) \in Nat
    BY <1>1, LenProperties
  <1>4. CASE q = <<>>
    <2>1. delivered' = delivered /\ inbox' = inbox /\ pc' = [pc EXCEPT ![t] = next]
      BY <1>4, PollEffect
    <2> QED
      BY <1>2, <2>1 DEF InOrderNoLoss
  <1>5. CASE q # <<>>
    <2>1. s \in live
      BY <1>3, <1>5
    <2>2. /\ \A i \in 1..Len(d) : d[i] = i
          /\ \A i \in 1..Len(q) : q[i] = Len(d) + i
          /\ Len(d) + Len(q) = fed[s]
      BY <1>1, <2>1 DEF InOrderNoLoss
    <2> HIDE DEF q, d, k
    <2>3. /\ q2 \in Seq(Nat) /\ d2 \in Seq(Nat)
          /\ k = 0 => q2 = q
      BY <1>1, PopTypes
    <2>4. /\ Len(d2) = Len(d) + k /\ Len(q2) = Len(q) - k
          /\ \A i \in 1..Len(d2) : d2[i] = i
          /\ \A i \in 1..Len(q2) : q2[i] = Len(d2) + i
      BY <1>1, <2>2, PopOrder, ZenonT(40)
    <2>5. inbox'[s] = q2 /\ delivered'[s] = d2
      BY <1>1, <1>2 DEF TypeOK
    <2>6. \A r \in Subs : r # s => inbox'[r] = inbox[r] /\ delivered'[r] = delivered[r]
      BY <1>2 DEF TypeOK
    <2> HIDE DEF q2, d2
    <2>7. Len(d2) + Len(q2) = fed[s]
      BY <1>0, <1>1, <2>2, <2>4
    <2>8. InOrderNoLoss'
      <3> SUFFICES ASSUME NEW r \in Subs
                   PROVE  /\ \A i \in 1..Len(delivered'[r]) : delivered'[r][i] = i
                          /\ r \in live => /\ Len(delivered'[r]) + Len(inbox'[r]) = fed[r]
                                           /\ \A i \in 1..Len(inbox'[r]) :
                                                inbox'[r][i] = Len(delivered'[r]) + i
        BY <1>2 DEF InOrderNoLoss
      <3>1. CASE r = s
        BY <2>4, <2>5, <2>7, <3>1
      <3>2. CASE r # s
        BY <2>6, <3>2 DEF InOrderNoLoss
      <3> QED
        BY <3>1, <3>2
    <2>9. CASE k = 0
      <3>1. d2 = d
        <4>1. d2 \in Seq(Nat) /\ d \in Seq(Nat) /\ Len(d2) = Len(d)
          BY <1>0, <1>1, <2>3, <2>4, <2>9
        <4>2. \A i \in 1..Len(d2) : d2[i] = d[i]
          BY <2>2, <2>4, <4>1
        <4> QED
          BY <4>1, <4>2, SeqEqual
      <3> QED
        BY <1>2, <2>8, <2>9, <3>1 DEF TypeOK, d
    <2>10. CASE k > 0
      <3>1. d2 = [i \in 1..Len(d2) |-> i]
        BY <2>3, <2>4, LenProperties
      <3>2. Len(d) < Len(d2) /\ Len(d2) \in Nat /\ Len(d2) <= fed[s] /\ Len(d2) <= Len(d) + max[t]
        BY <1>0, <1>1, <2>2, <2>4, <2>10
      <3> QED
        BY <1>1, <1>2, <2>1, <2>5, <2>8, <2>10, <3>1, <3>2 DEF d
    <2> QED
      BY <1>1, <2>9, <2>10
  <1> QED
    BY <1>4, <1>5

LEMMA InOrderStep == TypeOK /\ SafeInv /\ InOrderNoLoss /\ [Next]_vars => InOrderNoLoss'
  <1> SUFFICES ASSUME TypeOK, SafeInv, InOrderNoLoss, [Next]_vars
               PROVE  InOrderNoLoss'
    OBVIOUS
  <1>1. ASSUME NEW t \in Streams, FirstPoll(t) \/ SecondPoll(t)
        PROVE  InOrderNoLoss'
    BY <1>1, PollKeepsOrder DEF FirstPoll, SecondPoll
  <1>2. ASSUME NEW s \in Subs, PushNote(s) PROVE InOrderNoLoss'
    <2>1. s \in live
      BY <1>2 DEF PushNote, SafeInv
    <2>2. /\ fed' = [fed EXCEPT ![s] = @ + 1]
          /\ inbox' = [inbox EXCEPT ![s] = Append(@, fed[s] + 1)]
          /\ live' = live /\ delivered' = delivered
      BY <1>2 DEF PushNote, streamVars
    <2>3. inbox[s] \in Seq(Nat) /\ fed[s] + 1 \in Nat
      BY DEF TypeOK
    <2>4. /\ Len(inbox'[s]) = Len(inbox[s]) + 1
          /\ \A i \in 1..Len(inbox[s]) : inbox'[s][i] = inbox[s][i]
          /\ inbox'[s][Len(inbox[s]) + 1] = fed[s] + 1
      BY <2>2, <2>3, AppendProperties DEF TypeOK
    <2>5. Len(inbox[s]) \in Nat /\ Len(delivered[s]) \in Nat /\ fed[s] \in Nat
      BY DEF TypeOK
    <2> SUFFICES ASSUME NEW r \in Subs
                 PROVE  /\ \A i \in 1..Len(delivered'[r]) : delivered'[r][i] = i
                        /\ r \in live' => /\ Len(delivered'[r]) + Len(inbox'[r]) = fed'[r]
                                          /\ \A i \in 1..Len(inbox'[r]) :
                                               inbox'[r][i] = Len(delivered'[r]) + i
      BY DEF InOrderNoLoss
    <2>6. CASE r = s
      <3>1. /\ Len(delivered[s]) + Len(inbox[s]) = fed[s]
            /\ \A i \in 1..Len(inbox[s]) : inbox[s][i] = Len(delivered[s]) + i
            /\ fed'[s] = fed[s] + 1
        BY <2>1, <2>2 DEF InOrderNoLoss, TypeOK
      <3> DEFINE a == Len(delivered[s])
                 b == Len(inbox[s])
                 c == fed[s]
                 e == inbox'[s]
      <3>6. /\ a \in Nat /\ b \in Nat /\ c \in Nat /\ a + b = c
            /\ Len(e) = b + 1 /\ fed'[s] = c + 1
            /\ e[b + 1] = c + 1
            /\ \A i \in 1..b : e[i] = a + i
        BY <2>4, <2>5, <3>1
      <3> HIDE DEF a, b, c, e
      <3>7. a + Len(e) = fed'[s]
        BY <3>6
      <3>3. \A i \in 1..Len(e) : e[i] = a + i
        BY <3>6
      <3>4. \A i \in 1..Len(delivered[s]) : delivered[s][i] = i
        BY DEF InOrderNoLoss
      <3> QED
        BY <2>2, <2>6, <3>3, <3>4, <3>7 DEF a, e
    <2>7. CASE r # s
      BY <2>2, <2>7 DEF InOrderNoLoss, TypeOK
    <2> QED
      BY <2>6, <2>7
  <1>3. ASSUME NEW s \in Subs, CUnsubscribe(s), delivered' = delivered
        PROVE  InOrderNoLoss'
    BY <1>3 DEF CUnsubscribe, InOrderNoLoss, TypeOK
  <1>4. ASSUME NEW s \in Subs, Subscribe(s) PROVE InOrderNoLoss'
    BY <1>4 DEF Subscribe, InOrderNoLoss, TypeOK, SafeInv, streamVars
  <1>5. CASE UNCHANGED <<live, fed, inbox, delivered>>
    BY <1>5 DEF InOrderNoLoss
  <1>6. ASSUME NEW t \in Streams, Stream(t) PROVE InOrderNoLoss'
    BY <1>1, <1>3, <1>5, <1>6
       DEF Stream, Create, NewStream, PollStart, StoreWaker, DropRemove,
           DropUnsubscribe, DropMark, cVars, TypeOK
  <1>7. ASSUME NEW s \in Subs, Application(s) PROVE InOrderNoLoss'
    BY <1>3, <1>4, <1>5, <1>7
       DEF Application, Unsubscribe, UnsubscribeMark, cVars, streamVars
  <1>8. CASE Writer
    BY <1>2, <1>5, <1>8
       DEF Writer, WriterBegin, Callback, CallbackReturn, WriterEnd, streamVars
  <1> QED
    BY <1>5, <1>6, <1>7, <1>8 DEF Next, vars, cVars, streamVars

\* The consumers of a subscription receive its feed in order, each note once,
\* none skipped, for every interleaving, shared or not.
THEOREM FeedOrder == Spec => []InOrderNoLoss
  <1>1. Init => InOrderNoLoss
    <2>1. Len(<<>>) = 0
      BY EmptySeq
    <2> SUFFICES ASSUME Init, NEW s \in Subs
                 PROVE  s \notin live /\ \A i \in 1..Len(delivered[s]) : delivered[s][i] = i
      BY DEF InOrderNoLoss
    <2>2. Len(delivered[s]) = 0 /\ s \notin live
      BY <2>1 DEF Init
    <2> QED
      BY <2>2
  <1> QED
    BY <1>1, SafeInvariant, InOrderStep, PTL DEF Spec

-----------------------------------------------------------------------------
\* The refinement mapping, and what an update of one pc does to it.
phase == [t \in Streams |-> PhaseOf(pc[t])]

LEMMA PhaseUpdate ==
    ASSUME TypeOK, NEW t \in Streams, NEW p, pc' = [pc EXCEPT ![t] = p]
    PROVE  /\ phase' = [phase EXCEPT ![t] = PhaseOf(p)]
           /\ PhaseOf(p) = PhaseOf(pc[t]) => phase' = phase
  BY DEF TypeOK, phase

LEMMA PhaseValues ==
    /\ PhaseOf("none") = "none" /\ PhaseOf("idle") = "resting"
    /\ PhaseOf("ended") = "ended"
    /\ \A p \in {"first", "store", "second", "parked"} : PhaseOf(p) = "waiting"
    /\ \A p \in {"dropUnsub", "dropMark", "dropped"} : PhaseOf(p) = "gone"
  BY DEF PhaseOf, Polling

\* The abstract action a poll implements: a delivery, or none.
LEMMA PollRefines ==
    ASSUME TypeOK, SafeInv, InOrderNoLoss, NEW t \in Streams,
           NEW next \in {"store", "parked"},
           PhaseOf(pc[t]) = "waiting", PollForNotes(t, next)
    PROVE  Feed!DeliverSome(t) \/ UNCHANGED Feed!feedVars
  <1>1. UNCHANGED <<subscribed, live, fed, sub, max>>
    BY DEF PollForNotes
  <1>2. CASE delivered' = delivered /\ pc' = [pc EXCEPT ![t] = next]
    <2>0. PhaseOf(next) = PhaseOf(pc[t])
      BY PhaseValues
    <2>1. phase' = phase
      BY <1>2, <2>0, PhaseUpdate
    <2> QED
      BY <1>1, <1>2, <2>1 DEF Feed!feedVars, phase
  <1>3. CASE /\ sub[t] \in live /\ pc' = [pc EXCEPT ![t] = "idle"]
             /\ Len(delivered[sub[t]]) < Len(delivered'[sub[t]])
             /\ Len(delivered'[sub[t]]) \in Nat
             /\ Len(delivered'[sub[t]]) <= fed[sub[t]]
             /\ Len(delivered'[sub[t]]) <= Len(delivered[sub[t]]) + max[t]
             /\ delivered' = [delivered EXCEPT ![sub[t]] =
                                [i \in 1..Len(delivered'[sub[t]]) |-> i]]
    <2> DEFINE n == Len(delivered'[sub[t]])
    <2>0. PhaseOf("idle") = "resting"
      BY PhaseValues
    <2>1. phase' = [phase EXCEPT ![t] = "resting"]
      <3>1. phase' = [phase EXCEPT ![t] = PhaseOf("idle")]
        BY <1>3, PhaseUpdate
      <3> QED
        BY <2>0, <3>1
    <2>2. phase[t] = "waiting"
      BY DEF phase
    <2>3. n \in 1..fed[sub[t]]
      <3>1. fed[sub[t]] \in Nat /\ Len(delivered[sub[t]]) \in Nat
        BY DEF TypeOK
      <3> QED
        BY <1>3, <3>1
    <2>4. Feed!Deliver(t, n)
      BY <1>1, <1>3, <2>1, <2>2 DEF Feed!Deliver, phase
    <2> QED
      BY <2>3, <2>4 DEF Feed!DeliverSome
  <1> QED
    BY <1>2, <1>3, PollKeepsOrder

\* Every step of the streams, the map and the writer is a step of NoteFeed or
\* changes nothing NoteFeed sees.
LEMMA StepRefines ==
    ASSUME ~SharedSubs
    PROVE  TypeOK /\ SafeInv /\ WakeInv /\ InOrderNoLoss /\ [Next]_vars
             => [Feed!FeedNext]_(Feed!feedVars)
  <1> SUFFICES ASSUME TypeOK, SafeInv, WakeInv, InOrderNoLoss, [Next]_vars
               PROVE  Feed!FeedNext \/ UNCHANGED Feed!feedVars
    OBVIOUS
  <1> USE DEF TypeOK, cVars, mapVars, streamVars
  <1>1. CASE UNCHANGED <<subscribed, live, fed, delivered, pc, sub, max>>
    BY <1>1 DEF Feed!feedVars
  <1>2. ASSUME NEW s \in Subs, Subscribe(s) PROVE Feed!FeedNext
    <2>1. Feed!OpenSub(s)
      BY <1>2 DEF Subscribe, Feed!OpenSub
    <2> QED
      BY <2>1 DEF Feed!FeedNext
  <1>3. ASSUME NEW s \in Subs, s \in subscribed, CUnsubscribe(s),
               UNCHANGED <<delivered, sub, max>>, phase' = phase
        PROVE  Feed!FeedNext
    <2>1. Feed!CloseSub(s)
      BY <1>3 DEF CUnsubscribe, Feed!CloseSub, phase
    <2> QED
      BY <2>1 DEF Feed!FeedNext
  <1>4. ASSUME NEW s \in Subs, PushNote(s) PROVE Feed!FeedNext
    <2>1. s \in live
      BY <1>4 DEF PushNote, SafeInv
    <2>2. Feed!Feed(s)
      BY <1>4, <2>1 DEF PushNote, Feed!Feed
    <2> QED
      BY <2>2 DEF Feed!FeedNext
  <1>5. ASSUME NEW t \in Streams, Create(t) PROVE Feed!FeedNext
    <2>1. PICK s \in Subs, m \in PerAwait, flag \in OnDropChoices : NewStream(t, s, m, flag)
      BY <1>5 DEF Create
    <2>2. phase[t] = "none" /\ phase' = [phase EXCEPT ![t] = "resting"]
      <3>1. pc[t] = "none" /\ pc' = [pc EXCEPT ![t] = "idle"]
        BY <2>1 DEF NewStream
      <3>2. phase' = [phase EXCEPT ![t] = PhaseOf("idle")]
        BY <3>1, PhaseUpdate
      <3> QED
        BY <3>1, <3>2, PhaseValues DEF phase
    <2>3. \A u \in Feed!Attached : sub[u] # s
      <3> SUFFICES ASSUME NEW u \in Feed!Attached PROVE sub[u] # s
        OBVIOUS
      <3>1. u \in Streams /\ PhaseOf(pc[u]) \in {"resting", "waiting", "ended"}
        BY DEF Feed!Attached
      <3>2. pc[u] \notin {"none", "dropUnsub", "dropMark", "dropped"}
        BY <3>1, PhaseValues
      <3>3. u \in Active
        BY <3>1, <3>2 DEF Active, Open, Dropping
      <3> QED
        BY <2>1, <3>3 DEF NewStream
    <2>4. Feed!Attach(t, s, m)
      BY <2>1, <2>2, <2>3 DEF NewStream, Feed!Attach, phase
    <2> QED
      BY <2>4 DEF Feed!FeedNext
  <1>6. ASSUME NEW t \in Streams, PollStart(t)
        PROVE  Feed!FeedNext \/ UNCHANGED Feed!feedVars
    <2>1. UNCHANGED <<subscribed, live, fed, delivered, sub, max>>
      BY <1>6 DEF PollStart
    <2>2. CASE pc' = [pc EXCEPT ![t] = "ended"]
      <3>1. done[sub[t]]
        <4>1. pc'[t] = "ended" /\ pc'[t] \in {"ended", "first"}
          BY <2>2
        <4> QED
          BY <1>6, <4>1 DEF PollStart
      <3>2. sub[t] \notin live
        BY <3>1 DEF SafeInv
      <3>3. phase' = [phase EXCEPT ![t] = "ended"]
        <4>1. PhaseOf("ended") = "ended"
          BY PhaseValues
        <4>2. phase' = [phase EXCEPT ![t] = PhaseOf("ended")]
          BY <2>2, PhaseUpdate
        <4> QED
          BY <4>1, <4>2
      <3>4. phase[t] \in {"resting", "waiting", "ended"}
        BY <1>6, PhaseValues DEF PollStart, Resting, phase
      <3>5. CASE phase[t] = "ended"
        <4>1. phase' = phase
          BY <3>3, <3>5 DEF phase
        <4> QED
          BY <2>1, <4>1 DEF Feed!feedVars, phase
      <3>6. CASE phase[t] # "ended"
        <4>1. Feed!End(t)
          BY <2>1, <3>2, <3>3, <3>4, <3>6 DEF Feed!End, phase
        <4> QED
          BY <4>1 DEF Feed!FeedNext
      <3> QED
        BY <3>5, <3>6
    <2>3. CASE pc' = [pc EXCEPT ![t] = "first"]
      <3>1. pc[t] \in {"idle", "parked"}
        <4>1. pc[t] \in {"idle", "parked", "ended"}
          BY <1>6 DEF PollStart, Resting
        <4>2. pc[t] # "ended"
          <5> SUFFICES ASSUME pc[t] = "ended" PROVE FALSE
            OBVIOUS
          <5>1. done[sub[t]] /\ sub[t] \in entries
            BY DEF WakeInv
          <5>2. pc'[t] = "ended" /\ pc'[t] = "first"
            BY <1>6, <2>3, <5>1 DEF PollStart
          <5> QED
            BY <5>2
        <4> QED
          BY <4>1, <4>2
      <3>2. PhaseOf("first") = "waiting"
        BY PhaseValues
      <3>3. phase' = [phase EXCEPT ![t] = PhaseOf("first")]
        BY <2>3, PhaseUpdate
      <3>4. CASE pc[t] = "idle"
        <4>1. phase[t] = "resting"
          BY <3>4, PhaseValues DEF phase
        <4>2. Feed!Wait(t)
          BY <2>1, <3>2, <3>3, <4>1 DEF Feed!Wait, phase
        <4> QED
          BY <4>2 DEF Feed!FeedNext
      <3>5. CASE pc[t] = "parked"
        <4>1. phase' = phase
          <5>1. PhaseOf("first") = PhaseOf(pc[t])
            BY <3>5, PhaseValues
          <5> QED
            BY <2>3, <5>1, PhaseUpdate
        <4> QED
          BY <2>1, <4>1 DEF Feed!feedVars, phase
      <3> QED
        BY <3>1, <3>4, <3>5
    <2> QED
      BY <1>6, <2>2, <2>3 DEF PollStart
  <1>7. ASSUME NEW t \in Streams, FirstPoll(t) \/ SecondPoll(t)
        PROVE  Feed!FeedNext \/ UNCHANGED Feed!feedVars
    <2>1. Feed!DeliverSome(t) \/ UNCHANGED Feed!feedVars
      <3>1. CASE FirstPoll(t)
        <4>1. PhaseOf(pc[t]) = "waiting" /\ PollForNotes(t, "store")
          BY <3>1, PhaseValues DEF FirstPoll
        <4> QED
          BY <4>1, PollRefines
      <3>2. CASE SecondPoll(t)
        <4>1. PhaseOf(pc[t]) = "waiting" /\ PollForNotes(t, "parked")
          BY <3>2, PhaseValues DEF SecondPoll
        <4> QED
          BY <4>1, PollRefines
      <3> QED
        BY <1>7, <3>1, <3>2
    <2> QED
      BY <2>1 DEF Feed!FeedNext
  <1>8. ASSUME NEW t \in Streams, StoreWaker(t)
        PROVE  Feed!FeedNext \/ UNCHANGED Feed!feedVars
    <2>1. /\ pc[t] = "store"
          /\ pc' = [pc EXCEPT ![t] = IF done[sub[t]] THEN "ended" ELSE "second"]
          /\ UNCHANGED <<subscribed, live, fed, delivered, sub, max>>
      BY <1>8 DEF StoreWaker
    <2>2. CASE done[sub[t]]
      <3>1. sub[t] \notin live
        BY <2>2 DEF SafeInv
      <3>2. phase[t] = "waiting" /\ phase' = [phase EXCEPT ![t] = "ended"]
        <4>1. pc' = [pc EXCEPT ![t] = "ended"]
          BY <2>1, <2>2
        <4>2. phase' = [phase EXCEPT ![t] = PhaseOf("ended")]
          BY <4>1, PhaseUpdate
        <4> QED
          BY <2>1, <4>2, PhaseValues DEF phase
      <3>3. Feed!End(t)
        BY <2>1, <3>1, <3>2 DEF Feed!End, phase
      <3> QED
        BY <3>3 DEF Feed!FeedNext
    <2>3. CASE ~done[sub[t]]
      <3>1. pc' = [pc EXCEPT ![t] = "second"] /\ PhaseOf("second") = PhaseOf(pc[t])
        BY <2>1, <2>3, PhaseValues
      <3>2. phase' = phase
        BY <3>1, PhaseUpdate
      <3> QED
        BY <2>1, <3>2 DEF Feed!feedVars, phase
    <2> QED
      BY <2>2, <2>3
  <1>9. ASSUME NEW t \in Streams, DropRemove(t) PROVE Feed!FeedNext
    <2>1. phase[t] \in {"resting", "waiting", "ended"}
      BY <1>9, PhaseValues DEF DropRemove, Resting, phase
    <2>2. phase' = [phase EXCEPT ![t] = "gone"]
      <3>1. pc' = [pc EXCEPT ![t] = "dropUnsub"] /\ PhaseOf("dropUnsub") = "gone"
        BY <1>9, PhaseValues DEF DropRemove
      <3> QED
        BY <3>1, PhaseUpdate
    <2>3. Feed!Leave(t)
      BY <1>9, <2>1, <2>2 DEF DropRemove, Feed!Leave, Feed!Attached, phase
    <2> QED
      BY <2>3 DEF Feed!FeedNext
  <1>10. ASSUME NEW t \in Streams, DropUnsubscribe(t) PROVE Feed!FeedNext
    <2>1. phase' = phase
      <3>1. /\ pc' = [pc EXCEPT ![t] = "dropMark"]
            /\ PhaseOf("dropMark") = PhaseOf(pc[t])
        BY <1>10, PhaseValues DEF DropUnsubscribe
      <3> QED
        BY <3>1, PhaseUpdate
    <2>2. sub[t] \in subscribed
      BY <1>10 DEF DropUnsubscribe, SafeInv, Dropping
    <2> QED
      BY <1>3, <1>10, <2>1, <2>2 DEF DropUnsubscribe
  <1>11. ASSUME NEW t \in Streams, DropMark(t) PROVE UNCHANGED Feed!feedVars
    <2>1. phase' = phase
      <3>1. /\ pc' = [pc EXCEPT ![t] = "dropped"]
            /\ PhaseOf("dropped") = PhaseOf(pc[t])
        BY <1>11, PhaseValues DEF DropMark
      <3> QED
        BY <3>1, PhaseUpdate
    <2> QED
      BY <1>11, <2>1 DEF DropMark, Feed!feedVars, phase
  <1>12. ASSUME NEW t \in Streams, Stream(t)
         PROVE  Feed!FeedNext \/ UNCHANGED Feed!feedVars
    BY <1>5, <1>6, <1>7, <1>8, <1>9, <1>10, <1>11, <1>12 DEF Stream
  <1>13. ASSUME NEW s \in Subs, Application(s)
         PROVE  Feed!FeedNext \/ UNCHANGED Feed!feedVars
    <2>1. CASE Unsubscribe(s)
      BY <1>3, <2>1 DEF Unsubscribe, phase
    <2>2. CASE UnsubscribeMark(s)
      BY <1>1, <2>2 DEF UnsubscribeMark
    <2> QED
      BY <1>2, <1>13, <2>1, <2>2 DEF Application
  <1>14. CASE Writer
    BY <1>1, <1>4, <1>14
       DEF Writer, WriterBegin, Callback, CallbackReturn, WriterEnd
  <1> QED
    BY <1>1, <1>12, <1>13, <1>14 DEF Next, vars

\* Without its fairness, NoteFeed is implemented for every number of
\* subscriptions, streams and notes: a stream's answers are stretches of the
\* feed, no longer than it asked for, and its end means a closed subscription.
THEOREM RefinesFeed ==
    ASSUME ~SharedSubs
    PROVE  Spec => Feed!FeedSafe
  <1>1. Init => Feed!FeedInit
    <2> SUFFICES ASSUME Init PROVE Feed!FeedInit
      OBVIOUS
    <2>1. [t \in Streams |-> PhaseOf(pc[t])] = [t \in Streams |-> "none"]
      BY PhaseValues DEF Init
    <2> QED
      BY <2>1 DEF Init, Feed!FeedInit
  <1>2. TypeOK /\ SafeInv /\ WakeInv /\ InOrderNoLoss /\ [Next]_vars
          => [Feed!FeedNext]_(Feed!feedVars)
    BY StepRefines
  <1> QED
    BY <1>1, <1>2, WakeInvariant, FeedOrder, PTL DEF Spec, Feed!FeedSafe
=============================================================================
