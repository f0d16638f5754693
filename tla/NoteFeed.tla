------------------------------ MODULE NoteFeed ------------------------------
(***************************************************************************)
(* What a nostrdb-rs subscription promises its consumer, with no polls,    *)
(* wakers, locks or callbacks: notes that match a subscription form a      *)
(* feed; a stream that waits receives the next stretch of the feed, at     *)
(* most max notes of it; a stream ends only when its subscription has been *)
(* closed, and then for good.  A subscription has one stream at a time.    *)
(* Subscriptions implements this.                                          *)
(***************************************************************************)
EXTENDS Naturals, Sequences

CONSTANTS Subs, Streams, PerAwait

VARIABLES
    known,   \* subscription ids handed out
    open,    \* those not closed
    fed,     \* fed[s]: notes that have matched s, numbered from 1
    got,     \* got[s]: the notes the streams of s have returned
    phase,   \* phase[t]: none, resting, waiting, ended or gone
    of,      \* the subscription of a stream
    max      \* the most notes a stream takes at once

feedVars == <<known, open, fed, got, phase, of, max>>

\* The streams a consumer still has in its hands.
Attached == {t \in Streams : phase[t] \in {"resting", "waiting", "ended"}}

FeedInit ==
    /\ known = {} /\ open = {}
    /\ fed = [s \in Subs |-> 0]
    /\ got = [s \in Subs |-> <<>>]
    /\ phase = [t \in Streams |-> "none"]
    /\ of \in [Streams -> Subs]
    /\ max = [t \in Streams |-> 0]

OpenSub(s) ==
    /\ s \notin known
    /\ known' = known \cup {s}
    /\ open' = open \cup {s}
    /\ UNCHANGED <<fed, got, phase, of, max>>

CloseSub(s) ==
    /\ s \in known
    /\ open' = open \ {s}
    /\ UNCHANGED <<known, fed, got, phase, of, max>>

Feed(s) ==
    /\ s \in open
    /\ fed' = [fed EXCEPT ![s] = @ + 1]
    /\ UNCHANGED <<known, open, got, phase, of, max>>

Attach(t, s, m) ==
    /\ phase[t] = "none"
    /\ s \in known
    /\ \A u \in Attached : of[u] # s
    /\ phase' = [phase EXCEPT ![t] = "resting"]
    /\ of' = [of EXCEPT ![t] = s]
    /\ max' = [max EXCEPT ![t] = m]
    /\ UNCHANGED <<known, open, fed, got>>

Wait(t) ==
    /\ phase[t] = "resting"
    /\ phase' = [phase EXCEPT ![t] = "waiting"]
    /\ UNCHANGED <<known, open, fed, got, of, max>>

\* The consumer now has the first n notes of the feed, and had fewer.
Deliver(t, n) ==
    LET s == of[t]
    IN  /\ phase[t] = "waiting"
        /\ s \in open
        /\ n > Len(got[s]) /\ n <= fed[s] /\ n <= Len(got[s]) + max[t]
        /\ got' = [got EXCEPT ![s] = [i \in 1..n |-> i]]
        /\ phase' = [phase EXCEPT ![t] = "resting"]
        /\ UNCHANGED <<known, open, fed, of, max>>

End(t) ==
    /\ phase[t] \in {"resting", "waiting"}
    /\ of[t] \notin open
    /\ phase' = [phase EXCEPT ![t] = "ended"]
    /\ UNCHANGED <<known, open, fed, got, of, max>>

Leave(t) ==
    /\ t \in Attached
    /\ phase' = [phase EXCEPT ![t] = "gone"]
    /\ UNCHANGED <<known, open, fed, got, of, max>>

DeliverSome(t) == \E n \in 1..fed[of[t]] : Deliver(t, n)

FeedNext ==
    \/ \E s \in Subs : OpenSub(s) \/ CloseSub(s) \/ Feed(s)
    \/ \E t \in Streams, s \in Subs, m \in PerAwait : Attach(t, s, m)
    \/ \E t \in Streams : Wait(t) \/ DeliverSome(t) \/ End(t) \/ Leave(t)

FeedSafe == FeedInit /\ [][FeedNext]_feedVars

\* A stream that waits on an open subscription gets the notes there are for it.
FeedSpec == FeedSafe /\ \A t \in Streams : WF_feedVars(DeliverSome(t))
=============================================================================
