--------------------------- MODULE Subscriptions ---------------------------
(***************************************************************************)
(* The subscription machinery of nostrdb-rs: subscription handles, async   *)
(* SubscriptionStreams (future.rs), the shared SubMap and the ingest       *)
(* callback that wakes streams (ndb.rs), over nostrdb's C monitor.         *)
(*                                                                         *)
(* Threads: nostrdb's writer thread (it pushes matching notes and calls    *)
(* back into Rust), one task per stream, and application threads that      *)
(* subscribe and unsubscribe.  Two mutexes: the C monitor's and the Rust   *)
(* mutex around the SubMap.  One action is one critical section.  Of the   *)
(* two holders that keep a mutex across steps, the writer holds the        *)
(* monitor from WriterBegin to WriterEnd, and the SubMap mutex while the   *)
(* application's own callback runs.                                        *)
(***************************************************************************)
EXTENDS Naturals, Sequences

CONSTANTS
    Subs,                 \* subscription ids (the C side never reuses one)
    Streams,              \* SubscriptionStreams the application may create
    PerAwait,             \* values given to notes_per_await
    MaxNotes,             \* bound: notes pushed to one subscription
    OnDropChoices,        \* values given to unsubscribe_on_drop
    SharedSubs,           \* may two streams of one subscription coexist?
    PollTakesMonitorLock, \* does ndb_poll_for_notes lock the C monitor?
    NoWaker               \* the None of Option<Waker>

ASSUME SubscriptionsAssumption ==
    /\ PerAwait \subseteq Nat
    /\ OnDropChoices \subseteq BOOLEAN
    /\ MaxNotes \in Nat
    /\ SharedSubs \in BOOLEAN
    /\ PollTakesMonitorLock \in BOOLEAN
    /\ NoWaker \notin Streams

VARIABLES
    \* the C monitor
    subscribed,  \* ids handed out so far
    live,        \* ids the monitor still knows
    fed,         \* fed[s]: how many notes have matched s; note i is the i-th
    inbox,       \* inbox[s]: notes pushed and not yet polled
    wpc,         \* where the writer thread is
    todo,        \* matching subscriptions of this write not yet notified
    cur,         \* the subscription being notified
    \* the SubMap, guarded by the Rust mutex
    entries,     \* its keys
    done,        \* SubscriptionState::done
    waker,       \* SubscriptionState::waker
    \* the application
    unsubbing,   \* Ndb::unsubscribe calls between their two critical sections
    pc,          \* where each stream is in its life
    sub,         \* sub_id of each stream
    max,         \* max_notes of each stream
    onDrop,      \* unsubscribe_on_drop of each stream
    notified,    \* has the stream's task been woken since its last poll?
    delivered    \* history: delivered[s] is what the streams of s returned

cVars == <<subscribed, live, fed, inbox, wpc, todo, cur>>
mapVars == <<entries, done, waker>>
streamVars == <<pc, sub, max, onDrop, notified, delivered>>
vars == <<cVars, mapVars, unsubbing, streamVars>>

Resting == {"idle", "parked", "ended"}
Polling == {"first", "store", "second"}
Dropping == {"dropUnsub", "dropMark"}
Open == Resting \cup Polling
\* the streams that hold a sub_id and may still use it
Active == {t \in Streams : pc[t] \in Open \cup Dropping}

MonitorFree == wpc = "idle"
MapFree == wpc # "callback"

Init ==
    /\ subscribed = {} /\ live = {}
    /\ fed = [s \in Subs |-> 0]
    /\ inbox = [s \in Subs |-> <<>>]
    /\ wpc = "idle" /\ todo = {} /\ cur \in Subs
    /\ entries = {}
    /\ done = [s \in Subs |-> FALSE]
    /\ waker = [s \in Subs |-> NoWaker]
    /\ unsubbing = {}
    /\ pc = [t \in Streams |-> "none"]
    /\ sub \in {[t \in Streams |-> s] : s \in Subs}
    /\ max = [t \in Streams |-> 0]
    /\ onDrop = [t \in Streams |-> TRUE]
    /\ notified = [t \in Streams |-> FALSE]
    /\ delivered = [s \in Subs |-> <<>>]

-----------------------------------------------------------------------------
(* Handles: Ndb::subscribe and Ndb::unsubscribe                            *)

\* ndb_subscribe returned a fresh id.
Subscribe(s) ==
    /\ MonitorFree
    /\ s \notin subscribed
    /\ subscribed' = subscribed \cup {s}
    /\ live' = live \cup {s}
    /\ UNCHANGED <<fed, inbox, wpc, todo, cur, mapVars, unsubbing, streamVars>>

\* ndb_unsubscribe: the monitor forgets s and destroys its inbox; an id it
\* does not know changes nothing (the caller gets an error later).
CUnsubscribe(s) ==
    /\ MonitorFree
    /\ live' = live \ {s}
    /\ inbox' = [inbox EXCEPT ![s] = <<>>]
    /\ UNCHANGED <<subscribed, fed, wpc, todo, cur>>

\* Mutant: or_insert instead of Entry::Occupied.
MarkDoneInserting(s) ==
    /\ MapFree
    /\ entries' = entries \cup {s}
    /\ done' = [done EXCEPT ![s] = TRUE]
    /\ UNCHANGED waker

\* The second half of Ndb::unsubscribe: mark the map's entry done, if any.
\* A stored waker is left alone.
MarkDoneIfPresent(s) ==
    /\ MapFree
    /\ done' = [done EXCEPT ![s] = s \in entries]
    /\ UNCHANGED <<entries, waker>>

\* Mutant: the entry is marked done before the monitor is told.
UnsubscribeMarksFirst(s) ==
    /\ s \in subscribed
    /\ MarkDoneIfPresent(s)
    /\ unsubbing' = unsubbing \cup {s}
    /\ UNCHANGED <<cVars, streamVars>>

Unsubscribe(s) ==
    /\ s \in subscribed
    /\ CUnsubscribe(s)
    /\ unsubbing' = unsubbing \cup {s}
    /\ UNCHANGED <<mapVars, streamVars>>

UnsubscribeMark(s) ==
    /\ s \in unsubbing
    /\ MarkDoneIfPresent(s)
    /\ unsubbing' = unsubbing \ {s}
    /\ UNCHANGED <<cVars, streamVars>>

-----------------------------------------------------------------------------
(* nostrdb's writer thread (C), and the callback Ndb::new registers        *)

\* A write matched the subscriptions M; the monitor is locked until
\* WriterEnd.
WriterBegin(M) ==
    /\ wpc = "idle"
    /\ M # {} /\ \A s \in M : fed[s] < MaxNotes
    /\ wpc' = "notify"
    /\ todo' = M
    /\ UNCHANGED <<subscribed, live, fed, inbox, cur, mapVars, unsubbing,
                   streamVars>>

\* One matching note is queued; a batch queues several before the callback.
PushNote(s) ==
    /\ \/ wpc = "notify" /\ s \in todo
       \/ wpc = "pushed" /\ s = cur
    /\ fed[s] < MaxNotes
    /\ fed' = [fed EXCEPT ![s] = @ + 1]
    /\ inbox' = [inbox EXCEPT ![s] = Append(@, fed[s] + 1)]
    /\ wpc' = "pushed"
    /\ todo' = todo \ {s}
    /\ cur' = s
    /\ UNCHANGED <<subscribed, live, mapVars, unsubbing, streamVars>>

\* The callback locks the map, takes the waker of cur and wakes it.  The
\* lock is kept while the previous callback runs.
Callback ==
    /\ wpc = "pushed"
    /\ wpc' = "callback"
    /\ waker' = [waker EXCEPT ![cur] = NoWaker]
    /\ notified' = [t \in Streams |-> notified[t] \/ waker[cur] = t]
    /\ UNCHANGED <<subscribed, live, fed, inbox, todo, cur, entries, done,
                   unsubbing, pc, sub, max, onDrop, delivered>>

\* Mutant: the map is never unlocked.
CallbackKeepsLock == wpc = "callback" /\ UNCHANGED vars

\* The previous callback has returned; the map is unlocked.
CallbackReturn ==
    /\ wpc = "callback"
    /\ wpc' = "notify"
    /\ UNCHANGED <<subscribed, live, fed, inbox, todo, cur, mapVars, unsubbing,
                   streamVars>>

WriterEnd ==
    /\ wpc = "notify" /\ todo = {}
    /\ wpc' = "idle"
    /\ UNCHANGED <<subscribed, live, fed, inbox, todo, cur, mapVars, unsubbing,
                   streamVars>>

-----------------------------------------------------------------------------
(* SubscriptionStream: creation and poll_next                              *)

\* SubscriptionStream::new, notes_per_await and unsubscribe_on_drop.
NewStream(t, s, m, flag) ==
    /\ pc[t] = "none"
    /\ s \in subscribed
    /\ SharedSubs \/ \A u \in Active : sub[u] # s
    /\ pc' = [pc EXCEPT ![t] = "idle"]
    /\ sub' = [sub EXCEPT ![t] = s]
    /\ max' = [max EXCEPT ![t] = m]
    /\ onDrop' = [onDrop EXCEPT ![t] = flag]
    /\ UNCHANGED <<cVars, mapVars, unsubbing, notified, delivered>>

\* Mutant: poll_next does not look at done.
PollStartUnchecked(t) ==
    /\ pc[t] \in Resting
    /\ MapFree
    /\ notified' = [notified EXCEPT ![t] = FALSE]
    /\ pc' = [pc EXCEPT ![t] = "first"]
    /\ UNCHANGED <<cVars, mapVars, unsubbing, sub, max, onDrop, delivered>>

\* The task polls: because the consumer awaits the next item, because the
\* waker fired, or for a reason of its own (a join or select it is part of).
\* The first critical section of poll_next: is the subscription done?
PollStart(t) ==
    /\ pc[t] \in Resting
    /\ MapFree
    /\ notified' = [notified EXCEPT ![t] = FALSE]
    /\ pc' = [pc EXCEPT ![t] = IF sub[t] \in entries /\ done[sub[t]]
                                 THEN "ended" ELSE "first"]
    /\ UNCHANGED <<cVars, mapVars, unsubbing, sub, max, onDrop, delivered>>

\* Mutant: one note more is popped than the returned vector is told of.
PollForNotesShort(t, next) ==
    LET s == sub[t]
        k == IF max[t] < Len(inbox[s]) THEN max[t] ELSE Len(inbox[s])
    IN  /\ PollTakesMonitorLock => MonitorFree
        /\ inbox' = [inbox EXCEPT ![s] = SubSeq(@, k + 2, Len(@))]
        /\ delivered' = [delivered EXCEPT ![s] = @ \o SubSeq(inbox[s], 1, k)]
        /\ pc' = [pc EXCEPT ![t] = IF k > 0 THEN "idle" ELSE next]
        /\ UNCHANGED <<subscribed, live, fed, wpc, todo, cur, mapVars,
                       unsubbing, sub, max, onDrop, notified>>

\* Ndb::poll_for_notes, outside the map's lock: up to max_notes are popped
\* and returned to the consumer; otherwise poll_next goes on at next.
PollForNotes(t, next) ==
    LET s == sub[t]
        k == IF max[t] < Len(inbox[s]) THEN max[t] ELSE Len(inbox[s])
    IN  /\ PollTakesMonitorLock => MonitorFree
        /\ inbox' = [inbox EXCEPT ![s] = SubSeq(@, k + 1, Len(@))]
        /\ delivered' = [delivered EXCEPT ![s] = @ \o SubSeq(inbox[s], 1, k)]
        /\ pc' = [pc EXCEPT ![t] = IF k > 0 THEN "idle" ELSE next]
        /\ UNCHANGED <<subscribed, live, fed, wpc, todo, cur, mapVars,
                       unsubbing, sub, max, onDrop, notified>>

FirstPoll(t) == pc[t] = "first" /\ PollForNotes(t, "store")

\* The second critical section: create the entry if absent, store the waker.
StoreWaker(t) ==
    LET s == sub[t]
    IN  /\ pc[t] = "store"
        /\ MapFree
        /\ entries' = entries \cup {s}
        /\ pc' = [pc EXCEPT ![t] = IF done[s] THEN "ended" ELSE "second"]
        /\ waker' = [waker EXCEPT ![s] = IF done[s] THEN @ ELSE t]
        /\ UNCHANGED <<cVars, done, unsubbing, sub, max, onDrop, notified,
                       delivered>>

\* Mutant: poll_next returns Pending without polling again.
SecondPollSkipped(t) ==
    /\ pc[t] = "second"
    /\ pc' = [pc EXCEPT ![t] = "parked"]
    /\ UNCHANGED <<cVars, mapVars, unsubbing, sub, max, onDrop, notified,
                   delivered>>

SecondPoll(t) == pc[t] = "second" /\ PollForNotes(t, "parked")

-----------------------------------------------------------------------------
(* Drop for SubscriptionStream                                             *)

\* Mutant: the entry goes, a clone of its waker is kept.
DropRemoveKeepingWaker(t) ==
    /\ pc[t] \in Resting
    /\ MapFree
    /\ entries' = entries \ {sub[t]}
    /\ done' = [done EXCEPT ![sub[t]] = FALSE]
    /\ pc' = [pc EXCEPT ![t] = "dropUnsub"]
    /\ UNCHANGED <<cVars, waker, unsubbing, sub, max, onDrop, notified,
                   delivered>>

DropRemove(t) ==
    /\ pc[t] \in Resting
    /\ MapFree
    /\ entries' = entries \ {sub[t]}
    /\ done' = [done EXCEPT ![sub[t]] = FALSE]
    /\ waker' = [waker EXCEPT ![sub[t]] = NoWaker]
    /\ pc' = [pc EXCEPT ![t] = "dropUnsub"]
    /\ UNCHANGED <<cVars, unsubbing, sub, max, onDrop, notified, delivered>>

\* ndb.unsubscribe(sub_id), whatever onDrop says.
DropUnsubscribe(t) ==
    /\ pc[t] = "dropUnsub"
    /\ CUnsubscribe(sub[t])
    /\ pc' = [pc EXCEPT ![t] = "dropMark"]
    /\ UNCHANGED <<mapVars, unsubbing, sub, max, onDrop, notified, delivered>>

DropMark(t) ==
    /\ pc[t] = "dropMark"
    /\ MarkDoneIfPresent(sub[t])
    /\ pc' = [pc EXCEPT ![t] = "dropped"]
    /\ UNCHANGED <<cVars, unsubbing, sub, max, onDrop, notified, delivered>>

-----------------------------------------------------------------------------
Writer ==
    \/ \E M \in SUBSET live : WriterBegin(M)
    \/ \E s \in Subs : PushNote(s)
    \/ Callback
    \/ CallbackReturn
    \/ WriterEnd

Application(s) ==
    \/ Subscribe(s)
    \/ Unsubscribe(s)
    \/ UnsubscribeMark(s)

Create(t) ==
    \E s \in Subs, m \in PerAwait, flag \in OnDropChoices : NewStream(t, s, m, flag)

Stream(t) ==
    \/ Create(t)
    \/ PollStart(t)
    \/ FirstPoll(t)
    \/ StoreWaker(t)
    \/ SecondPoll(t)
    \/ DropRemove(t)
    \/ DropUnsubscribe(t)
    \/ DropMark(t)

Next ==
    \/ Writer
    \/ \E s \in Subs : Application(s)
    \/ \E t \in Streams : Stream(t)

Spec == Init /\ [][Next]_vars

(***************************************************************************)
(* Threads that are inside a call get to finish it, the executor polls a   *)
(* task whose waker fired, and the writer finishes the write it started.   *)
(* Nothing else is fair: the application need not subscribe, await or      *)
(* drop, and no note need ever be written.  Weak fairness suffices for the *)
(* steps that need a mutex because the writer locks it only for the        *)
(* finitely many writes MaxNotes allows.                                   *)
(***************************************************************************)
Fairness ==
    /\ WF_vars(\E s \in Subs : wpc = "notify" /\ PushNote(s))
    /\ WF_vars(Callback)
    /\ WF_vars(CallbackReturn)
    /\ WF_vars(WriterEnd)
    /\ \A s \in Subs : WF_vars(UnsubscribeMark(s))
    /\ \A t \in Streams :
        /\ WF_vars(notified[t] /\ pc[t] = "parked" /\ PollStart(t))
        /\ WF_vars(FirstPoll(t))
        /\ WF_vars(StoreWaker(t))
        /\ WF_vars(SecondPoll(t))
        /\ WF_vars(DropUnsubscribe(t))
        /\ WF_vars(DropMark(t))

FairSpec == Spec /\ Fairness

-----------------------------------------------------------------------------
(* Properties                                                              *)

\* Every variable keeps to its type, and an id without an entry has neither a
\* done mark nor a waker.
TypeOK ==
    /\ subscribed \subseteq Subs /\ live \subseteq subscribed
    /\ fed \in [Subs -> Nat]
    /\ inbox \in [Subs -> Seq(Nat)]
    /\ wpc \in {"idle", "notify", "pushed", "callback"}
    /\ todo \subseteq Subs /\ cur \in Subs
    /\ entries \subseteq Subs
    /\ done \in [Subs -> BOOLEAN]
    /\ waker \in [Subs -> Streams \cup {NoWaker}]
    /\ unsubbing \subseteq Subs
    /\ pc \in [Streams -> Open \cup Dropping \cup {"none", "dropped"}]
    /\ sub \in [Streams -> Subs]
    /\ max \in [Streams -> Nat]
    /\ onDrop \in [Streams -> BOOLEAN]
    /\ notified \in [Streams -> BOOLEAN]
    /\ delivered \in [Subs -> Seq(Nat)]
    /\ \A s \in Subs \ entries : ~done[s] /\ waker[s] = NoWaker

\* "This second poll catches that case" (future.rs): a task that sleeps on a
\* stream with notes waiting, and has not been woken, is one the writer is
\* about to wake.  No arrival of a note between the polls of poll_next and
\* the storing of the waker may leave a stream asleep over a full inbox.
NoLostWakeup ==
    \A t \in Streams :
        /\ pc[t] = "parked"
        /\ ~notified[t]
        /\ max[t] > 0
        /\ inbox[sub[t]] # <<>>
        => waker[sub[t]] = t /\ wpc = "pushed" /\ cur = sub[t]

\* Across however many polls, wakeups and streams a subscription goes through,
\* its consumers receive the matching notes in the order of the feed, each
\* once, none skipped: what they have is a prefix, and while the subscription
\* lives the rest is still in its inbox.
InOrderNoLoss ==
    \A s \in Subs :
        /\ \A i \in 1..Len(delivered[s]) : delivered[s][i] = i
        /\ s \in live => /\ Len(delivered[s]) + Len(inbox[s]) = fed[s]
                         /\ \A i \in 1..Len(inbox[s]) :
                              inbox[s][i] = Len(delivered[s]) + i

\* poll_next returns None only for a subscription that the monitor has
\* forgotten: the end of a stream is never a false alarm.
EndedOnlyIfUnsubscribed ==
    \A t \in Streams : pc[t] = "ended" => sub[t] \notin live

\* "Ensure subscription state is removed after stream is dropped" (ndb.rs
\* tests): whatever unsubscribe calls race with the drop, the map keeps an
\* entry only for a subscription that some stream can still poll.
NoOrphanEntry ==
    \A s \in entries : \E t \in Streams : pc[t] \in Open /\ sub[t] = s

\* The end of a stream is final: once it returned None, polling it again can
\* neither return notes nor sleep; only dropping it moves on.
EndedIsFinal ==
    [][\A t \in Streams : pc[t] = "ended" => pc'[t] \in {"ended", "dropUnsub"}]_vars

\* Every call returns: no thread inside poll_next, a drop or an unsubscribe,
\* and no write in progress, is stuck for ever behind the two mutexes.
EveryCallReturns ==
    /\ wpc # "idle" ~> wpc = "idle"
    /\ \A s \in Subs : s \in unsubbing ~> s \notin unsubbing
    /\ \A t \in Streams :
        pc[t] \in Polling \cup Dropping ~> pc[t] \notin Polling \cup Dropping

\* The implemented specification: a stream waits from the start of a poll
\* until one of its polls returns.
PhaseOf(p) ==
    CASE p = "none" -> "none"
      [] p = "idle" -> "resting"
      [] p = "ended" -> "ended"
      [] p \in Polling \cup {"parked"} -> "waiting"
      [] OTHER -> "gone"

Feed == INSTANCE NoteFeed WITH
            known <- subscribed, open <- live, got <- delivered,
            of <- sub, phase <- [t \in Streams |-> PhaseOf(pc[t])]

\* The streams, polls, wakers and callbacks implement the promise of NoteFeed,
\* its fairness included: a stream that waits on a live subscription whose
\* feed is ahead of its consumer is served unless it is dropped or the
\* subscription goes.
ImplementsFeed == Feed!FeedSpec

-----------------------------------------------------------------------------
(* Inductive invariants, for the proofs                                    *)

\* Holds whether or not streams share a subscription: who may still know an
\* id, what a closed subscription looks like, and what done means.
SafeInv ==
    /\ \A t \in Streams : pc[t] \in Open \cup Dropping => sub[t] \in subscribed
    /\ unsubbing \subseteq subscribed \ live
    /\ \A s \in Subs : done[s] => s \in subscribed \ live
    /\ \A t \in Streams : pc[t] \in {"ended", "dropMark"} => sub[t] \notin live
    /\ wpc # "idle" => todo \subseteq live
    /\ wpc = "pushed" => cur \in live
    /\ \A s \in Subs \ live : inbox[s] = <<>>
    /\ \A s \in Subs \ subscribed : fed[s] = 0 /\ delivered[s] = <<>>
    /\ NoOrphanEntry

\* Holds when no two streams that are still in use share a subscription: the
\* waker in an entry is the one of the only stream it can be for.
WakeInv ==
    /\ \A t, u \in Active : sub[t] = sub[u] => t = u
    /\ \A t \in Streams :
        pc[t] \in {"second", "parked"} /\ ~notified[t] => waker[sub[t]] = t
    /\ NoLostWakeup
    /\ \A t \in Streams :
        pc[t] = "ended" => done[sub[t]] /\ sub[t] \in entries

-----------------------------------------------------------------------------
(* Claims of the repository that the code does not keep                    *)

\* "ensure that unsubscribing kills the stream" (the tests of ndb.rs and
\* metadata.rs): a consumer in next() sees the end, whether it was awaiting when
\* unsubscribe was called or calls next() after it.
UnsubscribeKillsStream ==
    \A t \in Streams :
        pc[t] \in Polling \cup {"parked"} /\ sub[t] \in subscribed \ live
            ~> pc[t] \notin Polling \cup {"parked"}
=============================================================================
