------------------------- MODULE WaitForNotesProofs -------------------------
(***************************************************************************)
(* Theorems about WaitForNotes, for any number of calls, subscriptions and *)
(* notes, and for any batch sizes.                                         *)
(***************************************************************************)
EXTENDS WaitForNotes, SequenceTheorems, TLAPS

USE WaitForNotesAssumption

Inv == WaitTypeOK /\ CallInv

\* The notes from old + 1 to n.
Batch(old, n) == SubSeq([i \in 1..n |-> i], old + 1, n)

LEMMA BatchProperties ==
    ASSUME NEW n \in Nat, NEW old \in Nat, old < n
    PROVE  /\ Batch(old, n) \in Seq(Nat)
           /\ Len(Batch(old, n)) = n - old
           /\ \A k \in 1..(n - old) : Batch(old, n)[k] = old + k
  <1> DEFINE f == [i \in 1..n |-> i]
             b == SubSeq(f, old + 1, n)
  <1>1. \A i \in (old + 1)..n : f[i] \in Nat /\ f[i] = i
    OBVIOUS
  <1> HIDE DEF f
  <1>2. b \in Seq(Nat) /\ Len(b) = n - old /\ \A k \in 1..(n - old) : b[k] = f[old + k]
    BY <1>1, SubSeqProperties
  <1>3. \A k \in 1..(n - old) : b[k] = old + k
    BY <1>1, <1>2
  <1>4. b = Batch(old, n)
    BY DEF Batch, f
  <1> HIDE DEF b
  <1>5. QED
    BY <1>2, <1>3, <1>4

\* A call that had c gets the batch b.
LEMMA Extended ==
    ASSUME NEW c \in Seq(Nat), NEW b \in Seq(Nat), NEW n \in Nat, NEW old \in Nat,
           old < n, Len(b) = n - old, \A k \in 1..(n - old) : b[k] = old + k
    PROVE  /\ c \o b \in Seq(Nat)
           /\ Len(c \o b) = Len(c) + n - old
           /\ \A j \in 1..Len(c) : (c \o b)[j] = c[j]
           /\ \A j \in (Len(c) + 1)..(Len(c) + n - old) : (c \o b)[j] = old + j - Len(c)
  <1>1. /\ c \o b \in Seq(Nat) /\ Len(c \o b) = Len(c) + Len(b)
        /\ \A j \in 1..(Len(c) + Len(b)) :
            (c \o b)[j] = IF j <= Len(c) THEN c[j] ELSE b[j - Len(c)]
    BY ConcatProperties
  <1>2. Len(c) \in Nat
    OBVIOUS
  <1>3. Len(c \o b) = Len(c) + n - old
    BY <1>1, <1>2
  <1>4. \A j \in 1..Len(c) : (c \o b)[j] = c[j]
    BY <1>1, <1>2
  <1>5. \A j \in (Len(c) + 1)..(Len(c) + n - old) : (c \o b)[j] = old + j - Len(c)
    BY <1>1, <1>2, SMTT(30)
  <1>6. QED
    BY <1>1, <1>3, <1>4, <1>5

\* What a call and its subscription have after an await that returned notes.
Grown(t, n) ==
    LET s == of[t]
        old == Len(got[s])
        had == Len(collected[t])
    IN  /\ old < n /\ n <= fed[s] /\ n <= old + max[t]
        /\ got' \in [Subs -> Seq(Nat)] /\ Len(got'[s]) = n
        /\ \A u \in Subs \ {s} : got'[u] = got[u]
        /\ \A i \in 1..n : got'[s][i] = i
        /\ collected' \in [Streams -> Seq(Nat)]
        /\ Len(collected'[t]) = had + n - old
        /\ \A u \in Streams \ {t} : collected'[u] = collected[u]
        /\ \A j \in 1..had : collected'[t][j] = collected[t][j]
        /\ \A j \in (had + 1)..(had + n - old) : collected'[t][j] = old + j - had

LEMMA Received ==
    ASSUME Inv, NEW t \in Streams, Receive(t)
    PROVE  \E n \in Nat : Grown(t, n)
  <1> DEFINE s == of[t]
             old == Len(got[s])
             batch == SubSeq(got'[s], old + 1, Len(got'[s]))
  <1>1. PICK n \in 1..fed[s] : Deliver(t, n)
    BY DEF Receive, DeliverSome
  <1>2. /\ s \in Subs /\ old \in Nat /\ n \in Nat
        /\ got \in [Subs -> Seq(Nat)] /\ collected \in [Streams -> Seq(Nat)]
    BY DEF Inv, CallInv
  <1>3. /\ old < n /\ n <= fed[s] /\ n <= old + max[t]
        /\ got' = [got EXCEPT ![s] = [i \in 1..n |-> i]]
    BY <1>1 DEF Deliver
  <1>4. [i \in 1..n |-> i] \in Seq(Nat) /\ Len([i \in 1..n |-> i]) = n
    BY <1>2
  <1>5. got'[s] = [i \in 1..n |-> i] /\ got' \in [Subs -> Seq(Nat)]
    BY <1>2, <1>3, <1>4
  <1>6. collected' = [collected EXCEPT ![t] = collected[t] \o Batch(old, n)]
    BY <1>4, <1>5 DEF Receive, Batch
  <1>7. PICK b \in Seq(Nat) :
            /\ b = Batch(old, n) /\ Len(b) = n - old
            /\ \A k \in 1..(n - old) : b[k] = old + k
    BY <1>2, <1>3, BatchProperties
  <1>8. PICK c \in Seq(Nat) : c = collected[t]
    BY <1>2
  <1>9. PICK o \in Nat : o = old
    BY <1>2
  <1>10. o < n /\ Len(b) = n - o /\ \A k \in 1..(n - o) : b[k] = o + k
    BY <1>3, <1>7, <1>9
  <1> HIDE DEF old, s
  <1>11. /\ c \o b \in Seq(Nat)
         /\ Len(c \o b) = Len(c) + n - o
         /\ \A j \in 1..Len(c) : (c \o b)[j] = c[j]
         /\ \A j \in (Len(c) + 1)..(Len(c) + n - o) : (c \o b)[j] = o + j - Len(c)
    BY <1>2, <1>10, Extended, ZenonT(40)
  <1>12. /\ collected'[t] = c \o b /\ collected' \in [Streams -> Seq(Nat)]
         /\ \A u \in Streams \ {t} : collected'[u] = collected[u]
    BY <1>2, <1>6, <1>7, <1>8, <1>11
  <1>13. /\ Len(collected'[t]) = Len(collected[t]) + n - old
         /\ \A j \in 1..Len(collected[t]) : collected'[t][j] = collected[t][j]
         /\ \A j \in (Len(collected[t]) + 1)..(Len(collected[t]) + n - old) :
                collected'[t][j] = old + j - Len(collected[t])
    BY <1>8, <1>9, <1>11, <1>12
  <1>14. /\ \A u \in Subs \ {s} : got'[u] = got[u]
         /\ \A i \in 1..n : got'[s][i] = i
         /\ Len(got'[s]) = n
    BY <1>2, <1>3, <1>4, <1>5 DEF s
  <1>15. Grown(t, n)
    BY <1>3, <1>5, <1>12, <1>13, <1>14 DEF Grown, old, s
  <1>16. QED
    BY <1>2, <1>15

-----------------------------------------------------------------------------
(* WaitTypeOK and CallInv are inductive                                    *)

LEMMA InvInit == WaitInit => Inv
  BY DEF WaitInit, FeedInit, Inv, WaitTypeOK, CallInv, Attached

LEMMA InvStart ==
    ASSUME Inv, NEW t \in Streams, NEW s \in Subs, NEW m \in PerAwait,
           NEW k \in {"any", "all"}, Start(t, s, m, k)
    PROVE  Inv'
  <1> USE DEF Start, Attach, Attached, Inv, WaitTypeOK, CallInv
  <1>1. WaitTypeOK'
    OBVIOUS
  <1>2. CallInv'
    BY SMTT(30)
  <1>3. QED
    BY <1>1, <1>2

\* What the steps of a running call that move no notes leave alone.
LEMMA InvQuiet ==
    ASSUME Inv, NEW t \in Streams,
           AwaitNext(t) \/ ReceiveNone(t) \/ DropStream(t)
    PROVE  Inv'
  <1> USE DEF AwaitNext, Wait, ReceiveNone, End, DropStream, CloseSub, Attached,
              callVars, Inv, WaitTypeOK, CallInv
  <1>1. WaitTypeOK'
    <2>1. CASE AwaitNext(t)
      BY <2>1
    <2>2. CASE ReceiveNone(t)
      BY <2>2
    <2>3. CASE DropStream(t)
      BY <2>3
    <2>4. QED
      BY <2>1, <2>2, <2>3
  <1>2. CASE AwaitNext(t)
    BY <1>1, <1>2
  <1>3. CASE ReceiveNone(t)
    BY <1>1, <1>3, SMTT(30)
  <1>4. CASE DropStream(t)
    BY <1>1, <1>4
  <1>5. QED
    BY <1>2, <1>3, <1>4

LEMMA InvFinish ==
    ASSUME Inv, NEW t \in Streams, NEW o \in {"ok", "err", "cancelled"}, Finish(t, o)
    PROVE  Inv'
  <1> USE DEF Finish, Leave, Attached, Inv, WaitTypeOK, CallInv
  <1>1. WaitTypeOK'
    OBVIOUS
  <1>2. CallInv'
    OBVIOUS
  <1>3. QED
    BY <1>1, <1>2

LEMMA InvEnvironment ==
    ASSUME Inv, Environment
    PROVE  Inv'
  <1>1. PICK s \in Subs : OpenSub(s) \/ CloseSub(s) \/ (fed[s] < MaxFeed /\ Feed(s))
    BY DEF Environment
  <1>2. UNCHANGED <<got, phase, of, max, kind, call, outcome, collected>>
    BY <1>1 DEF OpenSub, CloseSub, Feed, Environment, callVars
  <1>3. known' \subseteq Subs /\ open' \subseteq known'
    BY <1>1 DEF OpenSub, CloseSub, Feed, Inv, WaitTypeOK
  <1>4. fed' \in [Subs -> 0..MaxFeed] /\ \A x \in Subs : fed[x] <= fed'[x]
    <2>1. CASE fed' = fed
      BY <2>1 DEF Inv, CallInv
    <2>2. CASE fed[s] < MaxFeed /\ fed' = [fed EXCEPT ![s] = @ + 1]
      BY <2>2 DEF Inv, CallInv
    <2>3. QED
      BY <1>1, <2>1, <2>2 DEF OpenSub, CloseSub, Feed
  <1>5. WaitTypeOK'
    BY <1>2, <1>3, <1>4 DEF Inv, WaitTypeOK
  <1>6. \A x \in Subs : Len(got[x]) \in Nat /\ Len(got[x]) <= fed'[x]
    BY <1>4 DEF Inv, CallInv
  <1>7. CallInv'
    BY <1>2, <1>4, <1>6 DEF Inv, CallInv, Attached
  <1>8. QED
    BY <1>5, <1>7 DEF Inv

LEMMA InvReceive ==
    ASSUME Inv, NEW t \in Streams, Receive(t)
    PROVE  Inv'
  <1>1. PICK n \in Nat : Grown(t, n)
    BY Received
  <1>2. /\ phase' = [phase EXCEPT ![t] = "resting"] /\ phase[t] = "waiting"
        /\ UNCHANGED <<known, open, fed, of, max, kind, call, outcome>>
    BY DEF Receive, DeliverSome, Deliver
  <1>3. WaitTypeOK'
    BY <1>1, <1>2, SMTT(30) DEF Grown, Inv, WaitTypeOK, CallInv
  <1>4. /\ of[t] \in Subs
        /\ got' \in [Subs -> Seq(Nat)] /\ collected' \in [Streams -> Seq(Nat)]
        /\ Attached' = Attached /\ t \in Attached
    BY <1>1, <1>2 DEF Grown, Inv, WaitTypeOK, CallInv, Attached
  <1>5. \A u \in Streams : call[u] = "none" => collected'[u] = <<>>
    BY <1>1, <1>4 DEF Grown, Inv, CallInv
  <1>6. \A x \in Subs : Len(got'[x]) <= fed[x] /\ \A i \in 1..Len(got'[x]) : got'[x][i] = i
    BY <1>1, <1>4 DEF Grown, Inv, CallInv
  <1>7. \A u \in Streams : call[u] = "none" <=> phase'[u] = "none"
    BY <1>2 DEF Inv, WaitTypeOK, CallInv
  <1>8. CallInv'
    BY <1>2, <1>4, <1>5, <1>6, <1>7 DEF Inv, CallInv
  <1>9. QED
    BY <1>3, <1>8 DEF Inv

LEMMA InvNext == Inv /\ [WaitNext]_waitVars => Inv'
  <1> SUFFICES ASSUME Inv, [WaitNext]_waitVars PROVE Inv'
    OBVIOUS
  <1>1. CASE UNCHANGED waitVars
    BY <1>1 DEF waitVars, feedVars, callVars, Inv, WaitTypeOK, CallInv, Attached
  <1>2. CASE Environment
    BY <1>2, InvEnvironment
  <1>3. ASSUME NEW t \in Streams, Call(t) PROVE Inv'
    <2>1. CASE \E s \in Subs, m \in PerAwait, k \in {"any", "all"} : Start(t, s, m, k)
      BY <2>1, InvStart
    <2>2. CASE AwaitNext(t) \/ ReceiveNone(t) \/ DropStream(t)
      BY <2>2, InvQuiet
    <2>3. CASE Receive(t)
      BY <2>3, InvReceive
    <2>4. CASE ReturnOk(t) \/ ReturnErr(t) \/ Cancel(t)
      BY <2>4, InvFinish DEF ReturnOk, ReturnErr, Cancel
    <2>5. QED
      BY <1>3, <2>1, <2>2, <2>3, <2>4 DEF Call
  <1>4. QED
    BY <1>1, <1>2, <1>3 DEF WaitNext

-----------------------------------------------------------------------------
(* ShareInv is inductive with them                                         *)

LEMMA ShareReceive ==
    ASSUME Inv, ShareInv, NEW t \in Streams, Receive(t)
    PROVE  ShareInv'
  <1>1. PICK n \in Nat : Grown(t, n)
    BY Received
  <1>a. got[of[t]] \in Seq(Nat) /\ collected[t] \in Seq(Nat)
    BY DEF Inv, CallInv
  <1>b. Len(got[of[t]]) \in Nat /\ Len(collected[t]) \in Nat
    BY <1>a
  <1>2. PICK old \in Nat : old = Len(got[of[t]])
    BY <1>b
  <1>3. PICK had \in Nat : had = Len(collected[t])
    BY <1>b
  <1>c. \A u \in Streams : \A j \in 1..Len(collected[u]) :
            /\ collected[u][j] = collected[u][1] + j - 1
            /\ collected[u][j] \in 1..Len(got[of[u]])
    BY DEF ShareInv
  <1>d. \A u, v \in Streams : \A j \in 1..Len(collected[u]), k \in 1..Len(collected[v]) :
            of[u] = of[v] /\ collected[u][j] = collected[v][k] => u = v
    BY DEF ShareInv
  <1>4. /\ phase[t] = "waiting" /\ phase' = [phase EXCEPT ![t] = "resting"] /\ of' = of
        /\ Attached' = Attached /\ t \in Attached /\ of[t] \in Subs
    BY DEF Receive, DeliverSome, Deliver, Attached, Inv, WaitTypeOK, CallInv
  <1>5. /\ old < n /\ Len(got'[of[t]]) = n
        /\ \A u \in Subs \ {of[t]} : got'[u] = got[u]
        /\ Len(collected'[t]) = had + n - old
        /\ \A u \in Streams \ {t} : collected'[u] = collected[u]
        /\ \A j \in 1..had : collected'[t][j] = collected[t][j]
        /\ \A j \in (had + 1)..(had + n - old) : collected'[t][j] = old + j - had
    BY <1>1, <1>2, <1>3 DEF Grown
  <1>6. had > 0 => collected[t][had] = old /\ collected[t][1] + had - 1 = old
                   /\ collected[t][1] \in Nat
    <2>1. had > 0 => collected[t] # <<>> /\ had \in 1..Len(collected[t]) /\ 1 \in 1..had
      BY <1>3
    <2>2. had > 0 => collected[t][1] \in Nat
      BY <2>1, <1>3 DEF Inv, CallInv
    <2>3. QED
      <3>1. had > 0 => collected[t][had] = old
        BY <2>1, <1>2, <1>3, <1>4 DEF ShareInv
      <3>2. had > 0 => collected[t][had] = collected[t][1] + had - 1
        BY <2>1, <1>c
      <3>3. QED
        BY <2>2, <3>1, <3>2
  <1>7. \A x \in Subs : /\ Len(got[x]) \in Nat /\ Len(got'[x]) \in Nat
                         /\ Len(got[x]) <= Len(got'[x])
    <2>1. TAKE x \in Subs
    <2>2. CASE x = of[t]
      BY <2>2, <1>2, <1>5
    <2>3. CASE x # of[t]
      BY <2>3, <1>5 DEF Inv, CallInv
    <2>4. QED
      BY <2>2, <2>3
  <1>8. \A u \in Streams : of[u] \in Subs
    BY DEF Inv, CallInv
  <1>9. ASSUME NEW u \in Streams, NEW j \in 1..Len(collected'[u])
        PROVE  /\ collected'[u][j] = collected'[u][1] + j - 1
               /\ collected'[u][j] \in 1..Len(got'[of[u]])
    <2>r. \A x \in Subs : 1..Len(got[x]) \subseteq 1..Len(got'[x])
      BY <1>7
    <2>1. CASE u # t
      <3>1. collected'[u] = collected[u] /\ j \in 1..Len(collected[u])
        BY <2>1, <1>5, <1>9
      <3>2. collected[u][j] \in 1..Len(got[of[u]]) /\ collected[u][j] = collected[u][1] + j - 1
        BY <3>1, <1>c
      <3>3. QED
        BY <3>1, <3>2, <2>r, <1>8
    <2>2. CASE u = t /\ j <= had
      <3>1. j \in 1..had /\ 1 \in 1..had
        BY <2>2, <1>5, <1>9
      <3>2. collected'[u][j] = collected[u][j] /\ collected'[u][1] = collected[u][1]
        BY <3>1, <2>2, <1>5
      <3>3. collected[u][j] \in 1..Len(got[of[u]]) /\ collected[u][j] = collected[u][1] + j - 1
        BY <3>1, <2>2, <1>3, <1>c
      <3>4. QED
        BY <3>2, <3>3, <2>r, <1>8
    <2>3. CASE u = t /\ j > had
      <3>1. j \in (had + 1)..(had + n - old) /\ collected'[t][j] = old + j - had
        BY <2>3, <1>5, <1>9
      <3>2. had = 0 => collected'[t][1] = old + 1
        BY <1>5
      <3>3. had > 0 => collected'[t][1] = collected[t][1]
        BY <1>5
      <3>4. collected'[t][j] \in 1..n
        BY <3>1, <1>5
      <3>5. collected'[t][j] = collected'[t][1] + j - 1
        BY <3>1, <3>2, <3>3, <1>6
      <3>6. QED
        BY <2>3, <3>4, <3>5, <1>5
    <2>4. QED
      BY <2>1, <2>2, <2>3, <1>5, <1>9
  <1>10. ASSUME NEW u \in Attached, collected'[u] # <<>>
         PROVE  collected'[u][Len(collected'[u])] = Len(got'[of[u]])
    <2>1. CASE u = t
      BY <2>1, <1>5
    <2>2. CASE u # t
      <3>1. of[u] # of[t] /\ of[u] \in Subs
        BY <2>2, <1>4, <1>8 DEF Inv, CallInv, Attached
      <3>2. QED
        BY <2>2, <3>1, <1>5, <1>10 DEF ShareInv, Attached
    <2>3. QED
      BY <2>1, <2>2
  <1>11. ASSUME NEW x \in Subs, NEW i \in 1..Len(got'[x])
         PROVE  \E u \in Streams : of[u] = x /\ \E j \in 1..Len(collected'[u]) : collected'[u][j] = i
    <2>1. CASE i <= Len(got[x])
      <3>1. PICK u \in Streams : of[u] = x /\ \E j \in 1..Len(collected[u]) : collected[u][j] = i
        BY <2>1, <1>7, <1>11 DEF ShareInv
      <3>2. PICK j \in 1..Len(collected[u]) : collected[u][j] = i
        BY <3>1
      <3>3. j \in 1..Len(collected'[u]) /\ collected'[u][j] = i
        BY <3>2, <1>3, <1>5, SMTT(30)
      <3>4. QED
        BY <3>1, <3>3
    <2>2. CASE i > Len(got[x])
      <3>1. x = of[t]
        BY <2>2, <1>5, <1>7, <1>11
      <3>2. /\ i \in (old + 1)..n /\ i - old + had \in (had + 1)..(had + n - old)
            /\ i - old + had \in 1..Len(collected'[t])
        <4>1. i \in Nat /\ i > old /\ i <= n
          BY <2>2, <3>1, <1>2, <1>5, <1>11
        <4>2. QED
          BY <4>1, <1>5
      <3>3. collected'[t][i - old + had] = i
        BY <3>2, <1>5
      <3>4. QED
        BY <3>1, <3>2, <3>3
    <2>3. QED
      BY <2>1, <2>2, <1>7, <1>11
  <1>12. ASSUME NEW u \in Streams, NEW j \in 1..Len(collected'[t]),
                NEW k \in 1..Len(collected'[u]),
                of[u] = of[t], collected'[t][j] = collected'[u][k]
         PROVE  u = t
    <2>1. SUFFICES ASSUME u # t PROVE FALSE
      OBVIOUS
    <2>2. k \in 1..Len(collected[u]) /\ collected'[u][k] = collected[u][k]
      BY <2>1, <1>5, <1>12
    <2>3. CASE j <= had
      BY <2>1, <2>2, <2>3, <1>3, <1>5, <1>12 DEF ShareInv
    <2>4. CASE j > had
      <3>j. j \in Nat /\ j > had /\ j <= had + n - old
        BY <2>4, <1>5, <1>12
      <3>b. collected'[t][j] = old + j - had
        BY <3>j, <1>5
      <3>1. collected'[t][j] > old
        BY <3>j, <3>b
      <3>2. collected[u][k] <= old
        BY <2>2, <1>2, <1>12 DEF ShareInv
      <3>3. QED
        BY <2>2, <3>1, <3>2, <1>2, <1>12, SMTT(20) DEF ShareInv
    <2>5. QED
      BY <2>3, <2>4, <1>5, <1>12
  <1>13. ASSUME NEW u \in Streams, NEW v \in Streams, NEW j \in 1..Len(collected'[u]),
                NEW k \in 1..Len(collected'[v]),
                of[u] = of[v], collected'[u][j] = collected'[v][k]
         PROVE  u = v
    <2>1. CASE u = t \/ v = t
      BY <2>1, <1>12, <1>13
    <2>2. CASE u # t /\ v # t
      <3>1. collected'[u] = collected[u] /\ collected'[v] = collected[v]
        BY <2>2, <1>5
      <3>2. QED
        BY <3>1, <1>13, <1>d
    <2>3. QED
      BY <2>1, <2>2
  <1>14. QED
    BY <1>4, <1>9, <1>10, <1>11, <1>13 DEF ShareInv

\* Every other step moves no note, and attaches only a call that has none.
LEMMA ShareOther ==
    ASSUME Inv, ShareInv, UNCHANGED <<got, collected>>,
           \A t \in Streams : of'[t] = of[t] \/ collected[t] = <<>>,
           \A t \in Attached' : t \in Attached \/ collected[t] = <<>>
    PROVE  ShareInv'
  <1>1. \A t \in Streams : \A j \in 1..Len(collected[t]) : of'[t] = of[t]
    OBVIOUS
  <1>2. got' = got /\ collected' = collected
    OBVIOUS
  <1>3. \A t \in Streams : \A j \in 1..Len(collected[t]) :
            /\ collected[t][j] = collected[t][1] + j - 1
            /\ collected[t][j] \in 1..Len(got[of'[t]])
    BY <1>1 DEF ShareInv
  <1>4. \A t \in Attached' : collected[t] # <<>> =>
            collected[t][Len(collected[t])] = Len(got[of'[t]])
    BY DEF ShareInv, Attached
  <1>5. \A s \in Subs : \A i \in 1..Len(got[s]) :
            \E t \in Streams : of'[t] = s /\ \E j \in 1..Len(collected[t]) : collected[t][j] = i
    <2>1. TAKE s \in Subs
    <2>5. TAKE i \in 1..Len(got[s])
    <2>2. PICK t \in Streams : of[t] = s /\ \E j \in 1..Len(collected[t]) : collected[t][j] = i
      BY ZenonT(40) DEF ShareInv
    <2>3. of'[t] = s
      BY <2>2, <1>1
    <2>4. QED
      BY <2>2, <2>3
  <1>6. \A t, u \in Streams : \A j \in 1..Len(collected[t]), k \in 1..Len(collected[u]) :
            of'[t] = of'[u] /\ collected[t][j] = collected[u][k] => t = u
    BY <1>1 DEF ShareInv
  <1>7. QED
    <2>1. \A t \in Streams : \A j \in 1..Len(collected'[t]) :
            /\ collected'[t][j] = collected'[t][1] + j - 1
            /\ collected'[t][j] \in 1..Len(got'[of'[t]])
      BY <1>2, <1>3
    <2>2. \A t \in Attached' : collected'[t] # <<>> =>
            collected'[t][Len(collected'[t])] = Len(got'[of'[t]])
      BY <1>2, <1>4
    <2>3. \A s \in Subs : \A i \in 1..Len(got'[s]) :
            \E t \in Streams : of'[t] = s /\ \E j \in 1..Len(collected'[t]) : collected'[t][j] = i
      BY <1>2, <1>5
    <2>4. \A t, u \in Streams : \A j \in 1..Len(collected'[t]), k \in 1..Len(collected'[u]) :
            of'[t] = of'[u] /\ collected'[t][j] = collected'[u][k] => t = u
      BY <1>2, <1>6
    <2>5. QED
      BY <2>1, <2>2, <2>3, <2>4, Zenon DEF ShareInv

LEMMA ShareNext == Inv /\ ShareInv /\ [WaitNext]_waitVars => ShareInv'
  <1> SUFFICES ASSUME Inv, ShareInv, [WaitNext]_waitVars PROVE ShareInv'
    OBVIOUS
  <1>1. CASE \E t \in Streams : Receive(t)
    BY <1>1, ShareReceive
  <1>2. CASE ~\E t \in Streams : Receive(t)
    <2> DEFINE Quiet == /\ UNCHANGED <<got, collected>>
                        /\ \A t \in Streams : of'[t] = of[t] \/ collected[t] = <<>>
                        /\ \A t \in Attached' : t \in Attached \/ collected[t] = <<>>
    <2>1. Quiet
      <3>1. CASE UNCHANGED waitVars \/ Environment
        BY <3>1 DEF waitVars, feedVars, callVars, Attached, Environment, OpenSub, CloseSub, Feed
      <3>2. ASSUME NEW t \in Streams, NEW s \in Subs, NEW m \in PerAwait,
                   NEW k \in {"any", "all"}, Start(t, s, m, k)
            PROVE  Quiet
        BY <3>2 DEF Start, Attach, Attached, Inv, WaitTypeOK, CallInv
      <3>3. ASSUME NEW t \in Streams,
                   AwaitNext(t) \/ ReceiveNone(t) \/ DropStream(t)
                     \/ \E o \in {"ok", "err", "cancelled"} : Finish(t, o)
            PROVE  Quiet
        <4> USE DEF Attached, Inv, WaitTypeOK
        <4>1. CASE AwaitNext(t)
          BY <4>1 DEF AwaitNext, Wait, callVars
        <4>2. CASE ReceiveNone(t)
          BY <4>2 DEF ReceiveNone, End, callVars
        <4>3. CASE DropStream(t)
          BY <4>3 DEF DropStream, CloseSub
        <4>4. CASE \E o \in {"ok", "err", "cancelled"} : Finish(t, o)
          BY <4>4 DEF Finish, Leave
        <4>5. QED
          BY <3>3, <4>1, <4>2, <4>3, <4>4
      <3> HIDE DEF Quiet
      <3>4. ASSUME NEW t \in Streams, Call(t)
            PROVE  Quiet
        BY <1>2, <3>2, <3>3, <3>4 DEF Call, ReturnOk, ReturnErr, Cancel
      <3>5. QED
        BY <3>1, <3>4 DEF WaitNext
    <2>2. QED
      BY <2>1, ShareOther
  <1>3. QED
    BY <1>1, <1>2

-----------------------------------------------------------------------------
(* EnoughInv is inductive with WaitTypeOK and CallInv                      *)

LEMMA EnoughReceive ==
    ASSUME Inv, EnoughInv, NEW t \in Streams, Receive(t)
    PROVE  EnoughInv'
  <1>1. PICK n \in Nat : Grown(t, n)
    BY Received
  <1>2. /\ phase[t] = "waiting" /\ phase' = [phase EXCEPT ![t] = "resting"]
        /\ UNCHANGED <<max, kind, call, outcome>>
    BY DEF Receive, DeliverSome, Deliver
  <1>3. /\ got[of[t]] \in Seq(Nat) /\ collected[t] \in Seq(Nat)
        /\ collected'[t] \in Seq(Nat) /\ max[t] \in Nat
    BY <1>1 DEF Grown, Inv, CallInv
  <1>4. PICK old \in Nat : old = Len(got[of[t]])
    BY <1>3
  <1>5. PICK had \in Nat : had = Len(collected[t])
    BY <1>3
  <1>6. /\ n <= old + max[t] /\ Len(collected'[t]) = had + n - old
        /\ \A u \in Streams \ {t} : collected'[u] = collected[u]
    BY <1>1, <1>4, <1>5 DEF Grown
  <1>7. IF kind[t] = "all" THEN had < max[t] ELSE had = 0
    BY <1>2, <1>3, <1>5 DEF EnoughInv, WantsMore
  <1>8. Len(collected'[t]) <= IF kind[t] = "all" THEN 2 * max[t] - 1 ELSE max[t]
    BY <1>3, <1>6, <1>7
  <1>9. outcome[t] = "none"
    BY <1>2 DEF Inv, WaitTypeOK, CallInv, Attached
  <1>10. \A u \in Streams \ {t} : phase'[u] = phase[u]
    BY <1>2
  <1>11. phase'[t] = "resting"
    BY <1>2 DEF Inv, WaitTypeOK
  <1>12. QED
    BY <1>2, <1>6, <1>8, <1>9, <1>10, <1>11 DEF EnoughInv, WantsMore

LEMMA EnoughNext == Inv /\ EnoughInv /\ [WaitNext]_waitVars => EnoughInv'
  <1> SUFFICES ASSUME Inv, EnoughInv, [WaitNext]_waitVars PROVE EnoughInv'
    OBVIOUS
  <1>1. CASE UNCHANGED waitVars \/ Environment
    BY <1>1 DEF waitVars, feedVars, callVars, Environment, OpenSub, CloseSub, Feed,
                EnoughInv, WantsMore
  <1>2. ASSUME NEW t \in Streams, NEW s \in Subs, NEW m \in PerAwait,
               NEW k \in {"any", "all"}, Start(t, s, m, k)
        PROVE  EnoughInv'
    <2>1. collected[t] = <<>> /\ outcome[t] = "none"
      BY <1>2 DEF Start, Attach, Inv, WaitTypeOK, CallInv
    <2>2. phase' = [phase EXCEPT ![t] = "resting"] /\ UNCHANGED <<collected, outcome>>
      BY <1>2 DEF Start, Attach
    <2>3. \A u \in Streams \ {t} : max'[u] = max[u] /\ kind'[u] = kind[u]
      BY <1>2 DEF Start, Attach
    <2>4. phase'[t] = "resting" /\ \A u \in Streams \ {t} : phase'[u] = phase[u]
      BY <2>2 DEF Inv, WaitTypeOK
    <2>5. QED
      BY <2>1, <2>2, <2>3, <2>4 DEF EnoughInv, WantsMore
  <1>3. ASSUME NEW t \in Streams, AwaitNext(t) PROVE EnoughInv'
    BY <1>3 DEF AwaitNext, Wait, callVars, Inv, WaitTypeOK, EnoughInv, WantsMore
  <1>4. ASSUME NEW t \in Streams, ReceiveNone(t) \/ DropStream(t) PROVE EnoughInv'
    BY <1>4 DEF ReceiveNone, End, DropStream, CloseSub, callVars, Inv, WaitTypeOK,
                EnoughInv, WantsMore
  <1>5. ASSUME NEW t \in Streams, ReturnOk(t) \/ ReturnErr(t) \/ Cancel(t) PROVE EnoughInv'
    BY <1>5 DEF ReturnOk, ReturnErr, Cancel, Finish, Leave, Inv, WaitTypeOK, EnoughInv, WantsMore
  <1>6. ASSUME NEW t \in Streams, Call(t) PROVE EnoughInv'
    BY <1>2, <1>3, <1>4, <1>5, <1>6, EnoughReceive DEF Call
  <1>7. QED
    BY <1>1, <1>6 DEF WaitNext

-----------------------------------------------------------------------------
\* The variables of the wait functions keep to their types, and a call has an
\* outcome exactly when it is over (ndb.rs, wait_for_notes and
\* wait_for_all_notes).
THEOREM WaitTypeCorrect == WaitSpec => []WaitTypeOK
  <1>1. Inv => WaitTypeOK
    BY DEF Inv
  <1>2. QED
    BY <1>1, InvInit, InvNext, PTL DEF WaitSpec

\* However many calls wait on a subscription one after another, each note its
\* streams returned went to exactly one of them, and each call has an unbroken
\* stretch of the feed (ndb.rs, the streams the calls make and drop).
THEOREM NotesAreShared == WaitSpec => []EachNoteToOneCall
  <1>1. WaitInit => ShareInv
    BY DEF WaitInit, FeedInit, ShareInv, Attached
  <1>2. Inv /\ ShareInv => EachNoteToOneCall
    <2>1. SUFFICES ASSUME Inv, ShareInv PROVE EachNoteToOneCall
      OBVIOUS
    <2>2. ASSUME NEW s \in Subs, NEW i \in 1..Len(got[s])
          PROVE  \E t \in Streams :
                    {u \in Streams : /\ of[u] = s
                                     /\ \E j \in 1..Len(collected[u]) : collected[u][j] = i} = {t}
      <3>1. PICK t \in Streams : of[t] = s /\ \E j \in 1..Len(collected[t]) : collected[t][j] = i
        BY <2>1, <2>2 DEF ShareInv
      <3>2. \A u \in Streams :
                of[u] = s /\ (\E j \in 1..Len(collected[u]) : collected[u][j] = i) => u = t
        BY <2>1, <3>1 DEF ShareInv
      <3>3. QED
        BY <3>1, <3>2
    <2>3. ASSUME NEW t \in Streams, NEW j \in 1..(Len(collected[t]) - 1)
          PROVE  collected[t][j + 1] = collected[t][j] + 1
      <3>1. collected[t] \in Seq(Nat)
        BY <2>1 DEF Inv, CallInv
      <3>2. Len(collected[t]) \in Nat
        BY <3>1
      <3>3. /\ 1 \in 1..Len(collected[t]) /\ j \in 1..Len(collected[t])
            /\ j + 1 \in 1..Len(collected[t]) /\ j \in Nat
        BY <3>2, <2>3
      <3>4. collected[t][1] \in Nat
        BY <3>1, <3>3
      <3>5. /\ collected[t][j] = collected[t][1] + j - 1
            /\ collected[t][j + 1] = collected[t][1] + (j + 1) - 1
        BY <2>1, <3>3 DEF ShareInv
      <3>6. QED
        BY <3>3, <3>4, <3>5
    <2>4. QED
      BY <2>2, <2>3 DEF EachNoteToOneCall
  <1>3. QED
    BY <1>1, <1>2, InvInit, InvNext, ShareNext, PTL DEF WaitSpec

\* Ok from wait_for_all_notes means num_notes notes at least and fewer than
\* twice as many, and Ok from wait_for_notes one at least and max_notes at most
\* (ndb.rs, the loops of both).
THEOREM EnoughIsReturned == WaitSpec => []OkMeansEnough
  <1>1. WaitInit => EnoughInv
    BY DEF WaitInit, FeedInit, EnoughInv
  <1>2. Inv /\ EnoughInv => OkMeansEnough
    <2>1. SUFFICES ASSUME Inv, EnoughInv, NEW t \in Streams, outcome[t] = "ok"
                   PROVE  IF kind[t] = "all"
                          THEN Len(collected[t]) \in {max[t]} \cup (max[t]..(2 * max[t] - 1))
                          ELSE Len(collected[t]) \in 1..max[t]
      BY DEF OkMeansEnough
    <2>2. collected[t] \in Seq(Nat) /\ max[t] \in Nat
      BY <2>1 DEF Inv, CallInv
    <2>3. PICK c \in Nat : c = Len(collected[t]) /\ (c = 0 <=> collected[t] = <<>>)
      BY <2>2
    <2>4. /\ IF kind[t] = "all" THEN ~(c < max[t]) ELSE c # 0
          /\ c = 0 \/ c <= IF kind[t] = "all" THEN 2 * max[t] - 1 ELSE max[t]
      BY <2>1, <2>3 DEF EnoughInv, WantsMore
    <2>5. QED
      BY <2>2, <2>3, <2>4
  <1>3. QED
    BY <1>1, <1>2, InvInit, InvNext, EnoughNext, PTL DEF WaitSpec

=============================================================================
