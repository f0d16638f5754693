---------------------------- MODULE WaitForNotes ----------------------------
(***************************************************************************)
(* Ndb::wait_for_notes and Ndb::wait_for_all_notes: async functions that   *)
(* make a stream of their own for a subscription id, await it, and drop it *)
(* (which unsubscribes the id) before they return.  What the stream does   *)
(* is NoteFeed, which Subscriptions implements.                            *)
(***************************************************************************)
EXTENDS NoteFeed

CONSTANT MaxFeed   \* bound: notes that match one subscription

ASSUME WaitForNotesAssumption == PerAwait \subseteq Nat /\ MaxFeed \in Nat

VARIABLES
    kind,      \* "any" for wait_for_notes, "all" for wait_for_all_notes
    call,      \* none, running, dropping (its stream) or returned
    outcome,   \* none, ok, err or cancelled
    collected  \* the notes a call has, and returns if it returns Ok

callVars == <<kind, call, outcome, collected>>
waitVars == <<feedVars, callVars>>

WaitInit ==
    /\ FeedInit
    /\ kind = [t \in Streams |-> "any"]
    /\ call = [t \in Streams |-> "none"]
    /\ outcome = [t \in Streams |-> "none"]
    /\ collected = [t \in Streams |-> <<>>]

\* The call's first poll makes the stream; max is max_notes or num_notes.
Start(t, s, m, k) ==
    /\ Attach(t, s, m)
    /\ call' = [call EXCEPT ![t] = "running"]
    /\ kind' = [kind EXCEPT ![t] = k]
    /\ UNCHANGED <<outcome, collected>>

\* Mutant: the loop compares with <=.
WantsOneMore(t) ==
    IF kind[t] = "all" THEN Len(collected[t]) <= max[t] ELSE collected[t] = <<>>

\* Mutant: the loop awaits while it has nothing.
WantsFirstOnly(t) == collected[t] = <<>>

\* Does the call have to await the stream (again)?
WantsMore(t) ==
    IF kind[t] = "all" THEN Len(collected[t]) < max[t] ELSE collected[t] = <<>>

AwaitNext(t) ==
    /\ call[t] = "running" /\ WantsMore(t)
    /\ Wait(t)
    /\ UNCHANGED callVars

\* Mutant: the notes of the last await replace those before.
ReceiveOverwriting(t) ==
    LET s == of[t]
    IN  /\ DeliverSome(t)
        /\ collected' = [collected EXCEPT ![t] =
                            SubSeq(got'[s], Len(got[s]) + 1, Len(got'[s]))]
        /\ UNCHANGED <<kind, call, outcome>>

\* stream.next() answered Some(notes).
Receive(t) ==
    LET s == of[t]
    IN  /\ DeliverSome(t)
        /\ collected' = [collected EXCEPT ![t] =
                            @ \o SubSeq(got'[s], Len(got[s]) + 1, Len(got'[s]))]
        /\ UNCHANGED <<kind, call, outcome>>

\* stream.next() answered None.
ReceiveNone(t) ==
    /\ call[t] = "running" /\ WantsMore(t)
    /\ End(t)
    /\ UNCHANGED callVars

\* The call is over and its stream goes out of scope.
Finish(t, o) ==
    /\ call[t] = "running"
    /\ Leave(t)
    /\ call' = [call EXCEPT ![t] = "dropping"]
    /\ outcome' = [outcome EXCEPT ![t] = o]
    /\ UNCHANGED <<kind, collected>>

ReturnOk(t) == phase[t] = "resting" /\ ~WantsMore(t) /\ Finish(t, "ok")

\* wait_for_all_notes gives up here the notes it has collected.
ReturnErr(t) == phase[t] = "ended" /\ Finish(t, "err")

\* The caller drops the future while it is suspended (a timeout, a select).
Cancel(t) == phase[t] = "waiting" /\ Finish(t, "cancelled")

\* The drop of the stream ends by unsubscribing.
DropStream(t) ==
    /\ call[t] = "dropping"
    /\ CloseSub(of[t])
    /\ call' = [call EXCEPT ![t] = "returned"]
    /\ UNCHANGED <<kind, outcome, collected>>

Environment ==
    /\ \E s \in Subs :
        OpenSub(s) \/ CloseSub(s) \/ (fed[s] < MaxFeed /\ Feed(s))
    /\ UNCHANGED callVars

Call(t) ==
    \/ \E s \in Subs, m \in PerAwait, k \in {"any", "all"} : Start(t, s, m, k)
    \/ AwaitNext(t)
    \/ Receive(t)
    \/ ReceiveNone(t)
    \/ ReturnOk(t)
    \/ ReturnErr(t)
    \/ Cancel(t)
    \/ DropStream(t)

WaitNext == Environment \/ \E t \in Streams : Call(t)

WaitSpec == WaitInit /\ [][WaitNext]_waitVars

\* An async function runs on until it suspends; a suspended one is served as
\* NoteFeed promises.  Nobody has to start, cancel or unsubscribe.
WaitFairness ==
    \A t \in Streams :
        /\ WF_waitVars(AwaitNext(t))
        /\ WF_waitVars(Receive(t))
        /\ WF_waitVars(ReturnOk(t))
        /\ WF_waitVars(ReturnErr(t))
        /\ WF_waitVars(DropStream(t))

FairWaitSpec == WaitSpec /\ WaitFairness

-----------------------------------------------------------------------------
\* Every variable keeps to its type, and a call has an outcome exactly when
\* it is over.
WaitTypeOK ==
    /\ known \subseteq Subs /\ open \subseteq known
    /\ fed \in [Subs -> 0..MaxFeed]
    /\ \A s \in Subs : got[s] \in Seq(Nat)
    /\ phase \in [Streams -> {"none", "resting", "waiting", "ended", "gone"}]
    /\ kind \in [Streams -> {"any", "all"}]
    /\ call \in [Streams -> {"none", "running", "dropping", "returned"}]
    /\ outcome \in [Streams -> {"none", "ok", "err", "cancelled"}]
    /\ \A t \in Streams : collected[t] \in Seq(Nat)
    /\ \A t \in Streams :
        call[t] \in {"dropping", "returned"} <=> outcome[t] # "none"

\* The calls on a subscription share out what its streams returned: each note
\* went to exactly one call, and each call has an unbroken stretch of the feed,
\* in order, however many calls waited one after another.
EachNoteToOneCall ==
    \A s \in Subs :
        /\ \A i \in 1..Len(got[s]) :
            \E t \in Streams :
                {u \in Streams : /\ of[u] = s
                                 /\ \E j \in 1..Len(collected[u]) : collected[u][j] = i} = {t}
        /\ \A t \in Streams :
            \A j \in 1..(Len(collected[t]) - 1) :
                collected[t][j + 1] = collected[t][j] + 1

\* "this function keeps awaiting until the target count is reached" (ndb.rs):
\* Ok from wait_for_all_notes means at least num_notes notes, and from
\* wait_for_notes at least one and at most max_notes.  How far the former may
\* overshoot (see OkMeansExactly): every await asks for num_notes again, so by
\* num_notes - 1 at most, however its notes were cut into batches.
OkMeansEnough ==
    \A t \in Streams :
        outcome[t] = "ok" =>
            IF kind[t] = "all"
            THEN Len(collected[t]) \in {max[t]} \cup (max[t]..(2 * max[t] - 1))
            ELSE Len(collected[t]) \in 1..max[t]

\* "accumulates notes from the subscription stream until exactly `num_notes`
\* have been collected" (ndb.rs 601-602).  A batch that comes after the first
\* and has more than what is missing is returned whole.
OkMeansExactly ==
    \A t \in Streams :
        outcome[t] = "ok" /\ kind[t] = "all" => Len(collected[t]) = max[t]

\* A call whose notes are there returns, unless its subscription is closed
\* under it.
WaitReturns ==
    \A t \in Streams :
        (/\ call[t] = "running"
         /\ fed[of[t]] - Len(got[of[t]]) >=
              IF kind[t] = "all" THEN max[t] - Len(collected[t]) ELSE 1
         /\ max[t] > 0)
            ~> (call[t] = "returned" \/ of[t] \notin open)
-----------------------------------------------------------------------------
(* Inductive invariant, for the proofs                                     *)

\* A call runs while its stream is attached, alone on its subscription; what a
\* stream returned is numbered from 1.
CallInv ==
    /\ fed \in [Subs -> 0..MaxFeed] /\ of \in [Streams -> Subs] /\ max \in [Streams -> Nat]
    /\ got \in [Subs -> Seq(Nat)] /\ collected \in [Streams -> Seq(Nat)]
    /\ \A t \in Streams :
        /\ call[t] = "running" <=> t \in Attached
        /\ call[t] = "none" <=> phase[t] = "none"
        /\ call[t] = "none" => collected[t] = <<>>
    /\ \A t, u \in Attached : of[t] = of[u] => t = u
    /\ \A s \in Subs :
        Len(got[s]) <= fed[s] /\ \A i \in 1..Len(got[s]) : got[s][i] = i

\* A call has a stretch of what its subscription's streams returned, the last
\* one while it runs; the stretches are disjoint and leave no gap.
ShareInv ==
    /\ \A t \in Streams : \A j \in 1..Len(collected[t]) :
        /\ collected[t][j] = collected[t][1] + j - 1
        /\ collected[t][j] \in 1..Len(got[of[t]])
    /\ \A t \in Attached : collected[t] # <<>> =>
        collected[t][Len(collected[t])] = Len(got[of[t]])
    /\ \A s \in Subs : \A i \in 1..Len(got[s]) :
        \E t \in Streams : of[t] = s /\ \E j \in 1..Len(collected[t]) : collected[t][j] = i
    /\ \A t, u \in Streams : \A j \in 1..Len(collected[t]), k \in 1..Len(collected[u]) :
        of[t] = of[u] /\ collected[t][j] = collected[u][k] => t = u

\* A call awaits only while it wants more, and so overshoots by one batch.
EnoughInv ==
    \A t \in Streams :
        /\ phase[t] = "waiting" => WantsMore(t)
        /\ outcome[t] = "ok" => ~WantsMore(t)
        /\ collected[t] = <<>> \/ Len(collected[t]) <=
                IF kind[t] = "all" THEN 2 * max[t] - 1 ELSE max[t]
=============================================================================
