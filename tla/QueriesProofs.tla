--------------------------- MODULE QueriesProofs ---------------------------
(* Theorems about Queries: what every read answers.                        *)
EXTENDS Queries, TLAPS, WellFoundedInduction

-----------------------------------------------------------------------------
(* Induction.  The library's induction theorems take an operator; a set of *)
(* numbers closed under + 1 does as well, by the least one outside it.     *)

Below == {p \in Nat \X Nat : p[1] < p[2]}

LEMMA BelowWellFounded == IsWellFoundedOn(Below, Nat)
  BY NatLessThanWellFounded DEF OpToRel, Below

LEMMA SetInduction ==
    ASSUME NEW T, T \subseteq Nat, 0 \in T, \A n \in T : n + 1 \in T
    PROVE  T = Nat
<1>1. SUFFICES ASSUME Nat \ T # {} PROVE FALSE
  OBVIOUS
<1>2. PICK m \in Nat \ T : \A k \in Nat \ T : ~ (<<k, m>> \in Below)
  <2>1. Nat \ T \subseteq Nat
    OBVIOUS
  <2>2. QED
    BY <1>1, <2>1, BelowWellFounded, WFMin
<1>3. m # 0 /\ m - 1 \in Nat
  OBVIOUS
<1>4. <<m - 1, m>> \in Below
  BY <1>3 DEF Below
<1>5. m - 1 \in T
  BY <1>2, <1>3, <1>4
<1>6. QED
  BY <1>3, <1>5

-----------------------------------------------------------------------------
(* Kept                                                                    *)

KeptStep(s, S, kept, n) ==
    IF s[n] \in S THEN Append(kept, s[n]) ELSE kept

\* A function on 0..m that satisfies the equations of Kept as far as m.
KeptUpTo(s, S, m, A, f) ==
    /\ f \in [0..m -> Seq(A)]
    /\ f[0] = <<>>
    /\ \A n \in 1..m : f[n] = KeptStep(s, S, f[n - 1], n)

LEMMA KeptExists ==
    ASSUME NEW A, NEW s \in Seq(A), NEW S, NEW m \in 0..Len(s)
    PROVE  \E f : KeptUpTo(s, S, m, A, f)
<1> DEFINE T == {n \in Nat : n <= Len(s) => \E f : KeptUpTo(s, S, n, A, f)}
<1>1. T \subseteq Nat
  OBVIOUS
<1>2. 0 \in T
  <2>1. KeptUpTo(s, S, 0, A, [n \in 0..0 |-> <<>>])
    BY DEF KeptUpTo
  <2>2. QED
    BY <2>1
<1>3. ASSUME NEW n \in T PROVE n + 1 \in T
  <2>1. SUFFICES ASSUME n + 1 <= Len(s) PROVE \E f : KeptUpTo(s, S, n + 1, A, f)
    BY <1>3
  <2>2. n \in Nat /\ n <= Len(s) /\ Len(s) \in Nat
    BY <1>3, <2>1
  <2>3. PICK f : KeptUpTo(s, S, n, A, f)
    BY <1>3, <2>2
  <2> DEFINE g == [i \in 0..(n + 1) |-> IF i = n + 1 THEN KeptStep(s, S, f[n], n + 1) ELSE f[i]]
  <2>4. s[n + 1] \in A /\ f[n] \in Seq(A)
    BY <2>1, <2>2, <2>3 DEF KeptUpTo
  <2>5. KeptStep(s, S, f[n], n + 1) \in Seq(A)
    BY <2>4 DEF KeptStep
  <2>6. g \in [0..(n + 1) -> Seq(A)]
    BY <2>2, <2>3, <2>5 DEF KeptUpTo
  <2>7. g[0] = <<>>
    BY <2>2, <2>3 DEF KeptUpTo
  <2>8. ASSUME NEW i \in 1..(n + 1) PROVE g[i] = KeptStep(s, S, g[i - 1], i)
    <3>1. CASE i = n + 1
      BY <3>1, <2>2 DEF KeptStep
    <3>2. CASE i # n + 1
      <4>1. i \in 1..n /\ i - 1 \in 0..n
        BY <3>2, <2>2
      <4>2. g[i] = f[i] /\ g[i - 1] = f[i - 1]
        BY <4>1, <2>2
      <4>3. QED
        BY <4>1, <4>2, <2>3 DEF KeptUpTo
    <3>3. QED
      BY <3>1, <3>2
  <2>9. KeptUpTo(s, S, n + 1, A, g)
    BY <2>6, <2>7, <2>8 DEF KeptUpTo
  <2>10. QED
    BY <2>9
<1>4. T = Nat
  <2> HIDE DEF T
  <2>1. QED
    BY <1>1, <1>2, <1>3, SetInduction
<1>5. m \in T
  BY <1>4
<1>6. QED
  BY <1>5

\* The equations of Kept, and its type.
LEMMA KeptDef ==
    ASSUME NEW A, NEW s \in Seq(A), NEW S
    PROVE  KeptUpTo(s, S, Len(s), A, Kept(s, S))
<1> DEFINE F(f) == [n \in 0..Len(s) |->
                      IF n = 0 THEN <<>>
                      ELSE IF s[n] \in S THEN Append(f[n - 1], s[n]) ELSE f[n - 1]]
<1>1. Kept(s, S) = CHOOSE f : f = F(f)
  BY DEF Kept
<1>2. PICK f : KeptUpTo(s, S, Len(s), A, f)
  <2>1. Len(s) \in 0..Len(s)
    OBVIOUS
  <2>2. QED
    BY <2>1, KeptExists
<1>3. f = F(f)
  <2>1. f \in [0..Len(s) -> Seq(A)]
    BY <1>2 DEF KeptUpTo
  <2>2. ASSUME NEW n \in 0..Len(s) PROVE f[n] = F(f)[n]
    <3>1. CASE n = 0
      BY <3>1, <1>2 DEF KeptUpTo
    <3>2. CASE n # 0
      <4>1. n \in 1..Len(s)
        BY <3>2
      <4>2. QED
        BY <4>1, <1>2 DEF KeptUpTo, KeptStep
    <3>3. QED
      BY <3>1, <3>2
  <2>3. QED
    BY <2>1, <2>2
<1> HIDE DEF F
<1>4. Kept(s, S) = F(Kept(s, S))
  BY <1>1, <1>3
<1> DEFINE K == Kept(s, S)
<1>5. \A n \in 0..Len(s) : K[n] = f[n]
  <2> DEFINE T == {n \in Nat : n <= Len(s) => K[n] = f[n]}
  <2>1. 0 \in T
    BY <1>4, <1>2 DEF F, KeptUpTo
  <2>2. ASSUME NEW n \in T PROVE n + 1 \in T
    <3>1. SUFFICES ASSUME n + 1 <= Len(s) PROVE K[n + 1] = f[n + 1]
      BY <2>2
    <3>2. n + 1 \in 1..Len(s) /\ n + 1 \in 0..Len(s) /\ n + 1 # 0 /\ (n + 1) - 1 = n /\ n <= Len(s)
      BY <2>2, <3>1
    <3>3. K[n] = f[n]
      BY <2>2, <3>2
    <3>4. K[n + 1] = KeptStep(s, S, K[n], n + 1)
      BY <1>4, <3>2 DEF F, KeptStep
    <3>5. f[n + 1] = KeptStep(s, S, f[n], n + 1)
      BY <1>2, <3>2 DEF KeptUpTo
    <3>6. QED
      BY <3>3, <3>4, <3>5
  <2>3. T \subseteq Nat
    OBVIOUS
  <2>4. T = Nat
    <3> HIDE DEF T
    <3>1. QED
      BY <2>1, <2>2, <2>3, SetInduction
  <2>5. QED
    BY <2>4
<1>6. K = f
  <2>1. K = [n \in 0..Len(s) |-> K[n]]
    BY <1>4 DEF F
  <2>2. f = [n \in 0..Len(s) |-> f[n]]
    BY <1>2 DEF KeptUpTo
  <2>3. QED
    BY <2>1, <2>2, <1>5
<1>7. QED
  BY <1>6, <1>2

\* No more is kept than was there.
LEMMA KeptIsShort ==
    ASSUME NEW A, NEW s \in Seq(A), NEW S, NEW m \in 0..Len(s)
    PROVE  Kept(s, S)[m] \in Seq(A) /\ Len(Kept(s, S)[m]) <= m
<1> DEFINE K == Kept(s, S)
<1>1. KeptUpTo(s, S, Len(s), A, K)
  BY KeptDef
<1> DEFINE T == {n \in Nat : n <= Len(s) => Len(K[n]) <= n}
<1>2. 0 \in T
  BY <1>1 DEF KeptUpTo
<1>3. ASSUME NEW n \in T PROVE n + 1 \in T
  <2>1. SUFFICES ASSUME n + 1 <= Len(s) PROVE Len(K[n + 1]) <= n + 1
    BY <1>3
  <2>2. n \in 0..Len(s) /\ n + 1 \in 1..Len(s) /\ (n + 1) - 1 = n
    BY <1>3, <2>1
  <2>3. K[n] \in Seq(A) /\ Len(K[n]) <= n /\ s[n + 1] \in A
    BY <1>1, <1>3, <2>2 DEF KeptUpTo
  <2>4. K[n + 1] = KeptStep(s, S, K[n], n + 1)
    BY <1>1, <2>2 DEF KeptUpTo
  <2> HIDE DEF K
  <2>5. QED
    BY <2>2, <2>3, <2>4 DEF KeptStep
<1>4. T \subseteq Nat
  OBVIOUS
<1>5. T = Nat
  <2> HIDE DEF T
  <2>1. QED
    BY <1>2, <1>3, <1>4, SetInduction
<1>6. m \in T
  BY <1>5
<1>7. QED
  BY <1>1, <1>6 DEF KeptUpTo

LEMMA MatchingIsShort ==
    ASSUME NEW s \in Seq(Notes), NEW c
    PROVE  Matching(s, c) \in Seq(Notes) /\ Len(Matching(s, c)) <= Len(s)
  BY KeptIsShort DEF Matching

\* The least of a set, and of two numbers.
LEMMA LeastIs ==
    ASSUME NEW S, S \subseteq Nat, NEW m \in S, \A i \in S : m <= i
    PROVE  Min(S) = m
<1>1. Min(S) \in S /\ \A i \in S : Min(S) <= i
  BY DEF Min
<1>2. Min(S) <= m /\ m <= Min(S)
  BY <1>1
<1>3. Min(S) \in Nat /\ m \in Nat
  BY <1>1
<1>4. QED
  BY <1>2, <1>3

LEMMA LeastOfTwo ==
    ASSUME NEW a \in Nat, NEW b \in Nat
    PROVE  Min({a, b}) = IF a <= b THEN a ELSE b
<1>1. CASE a <= b
  BY <1>1, LeastIs
<1>2. CASE ~ (a <= b)
  BY <1>2, LeastIs
<1>3. QED
  BY <1>1, <1>2

-----------------------------------------------------------------------------
(* The inductive invariant                                                 *)

\* A visit of found that handed over p notes: none before the p-th decides
\* it, the p-th does iff the visitor stopped, and the accumulator has what the
\* first p notes say.
VisitState(c, found, acc, p, stop) ==
    /\ p \in 0..Len(found)
    /\ \A i \in Decisive(c, found) : i >= p
    /\ p \in Decisive(c, found) <=> stop
    /\ acc = <<acc[1]>> /\ stop \in BOOLEAN
    /\ c.op = "count" => acc[1] = p
    /\ c.op = "all" => (stop => acc[1] = FALSE) /\ (~ stop => acc[1] = TRUE)
    /\ c.op = "any" => (stop => acc[1] = TRUE) /\ (~ stop => acc[1] = FALSE)
    /\ c.op = "find_map" => acc[1] = IF stop THEN <<found[p]>> ELSE <<>>

\* A search that looked at p hits, the first one and as many more as limit allows.
SearchState(c, found, acc, p) ==
    /\ p \in 1..Len(found) /\ p <= c.limit + 1
    /\ acc = Kept(found, c.sat)[p]

\* A read in progress: what it has collected, how far it is, and the cursor.
Progress(c, found, acc, p, stop, open) ==
    /\ c \in Calls /\ c.op \in Visits \cup {"query", "search"}
    /\ c.op \in Visits => VisitState(c, found, acc, p, stop)
    /\ c.op = "query" => acc = <<>> /\ p = 0
    /\ c.op = "search" => SearchState(c, found, acc, p)
    /\ c.op \notin Visits => stop = FALSE
    /\ open = (c.op = "search")

\* a is the answer the snapshot s has for the call it answers.
RightAnswer(a, s) ==
    /\ a.ok = Reference(a.of, Matching(s, a.of))
    /\ a.of.op \in Visits =>
           a.at = IF Decisive(a.of, Matching(s, a.of)) = {} THEN Len(Matching(s, a.of))
                  ELSE Min(Decisive(a.of, Matching(s, a.of)))

Idle(t) ==
    /\ call[t] = <<>> /\ accum[t] = <<>> /\ pos[t] = 0
    /\ stopped[t] = FALSE /\ cursor[t] = FALSE

Reading(t) ==
    /\ txn[t] # <<>> /\ call[t] # <<>> /\ call[t] = <<call[t][1]>> /\ answer[t] = <<>>
    /\ Progress(call[t][1], Matching(txn[t][1], call[t][1]),
                accum[t], pos[t], stopped[t], cursor[t])

Answered(t) ==
    answer[t] # <<>> => /\ txn[t] # <<>> /\ answer[t] = <<answer[t][1]>>
                        /\ RightAnswer(answer[t][1], txn[t][1])

\* A snapshot is no longer than the database, which only grows.
Snapshot(t) ==
    txn[t] # <<>> => /\ txn[t] = <<txn[t][1]>> /\ txn[t][1] \in Seq(Notes)
                     /\ Len(txn[t][1]) <= Len(db)

ReaderInv(t) == Snapshot(t) /\ (Idle(t) \/ Reading(t)) /\ Answered(t)

ByThread ==
    /\ txn = [t \in Threads |-> txn[t]]
    /\ call = [t \in Threads |-> call[t]]
    /\ accum = [t \in Threads |-> accum[t]]
    /\ pos = [t \in Threads |-> pos[t]]
    /\ stopped = [t \in Threads |-> stopped[t]]
    /\ cursor = [t \in Threads |-> cursor[t]]
    /\ answer = [t \in Threads |-> answer[t]]

QueriesInv == db \in Seq(Notes) /\ ByThread /\ \A t \in Threads : ReaderInv(t)

-----------------------------------------------------------------------------
(* The steps of a read, apart from the state                               *)

LEMMA FirstVisitState ==
    ASSUME NEW c, c.op \in Visits, NEW found \in Seq(Notes)
    PROVE  VisitState(c, found, <<Start(c.op)>>, 0, FALSE)
<1>1. Decisive(c, found) \subseteq 1..Len(found)
  BY DEF Decisive
<1>2. \A i \in Decisive(c, found) : i >= 0 /\ i # 0
  BY <1>1
<1>3. c.op = "count" => Start(c.op) = 0
  BY DEF Start
<1>4. c.op = "all" => Start(c.op) = TRUE
  BY DEF Start
<1>5. c.op = "any" => Start(c.op) = FALSE
  BY DEF Start
<1>6. c.op = "find_map" => Start(c.op) = <<>>
  BY DEF Start
<1>7. QED
  BY <1>2, <1>3, <1>4, <1>5, <1>6 DEF VisitState

\* One call of the visitor keeps VisitState.
LEMMA NextVisitState ==
    ASSUME NEW c, c.op \in Visits, NEW found \in Seq(Notes), NEW acc, NEW p,
           VisitState(c, found, acc, p, FALSE), p < Len(found),
           NEW f, f = Fold(c, acc[1], found[p + 1])
    PROVE  VisitState(c, found, <<f.acc>>, p + 1, f.stop)
<1>1. p \in Nat /\ p + 1 \in 1..Len(found) /\ p + 1 \in 0..Len(found)
  BY DEF VisitState
<1>2. \A i \in Decisive(c, found) : i >= p + 1
  <2>1. \A i \in Decisive(c, found) : i \in Nat /\ i >= p /\ i # p
    BY DEF VisitState, Decisive
  <2>2. QED
    BY <2>1, <1>1
<1>3. CASE c.op = "count"
  <2>1. f = [stop |-> FALSE, acc |-> p + 1]
    BY <1>3 DEF Fold, Continue, VisitState
  <2>2. p + 1 \notin Decisive(c, found)
    BY <1>3 DEF Decisive
  <2>3. QED
    BY <1>1, <1>2, <1>3, <2>1, <2>2 DEF VisitState
<1>4. CASE c.op = "all"
  <2>1. f = IF found[p + 1] \notin c.sat THEN [stop |-> TRUE, acc |-> FALSE]
            ELSE [stop |-> FALSE, acc |-> TRUE]
    BY <1>4 DEF Fold, Continue, Break, VisitState
  <2>2. p + 1 \in Decisive(c, found) <=> found[p + 1] \notin c.sat
    BY <1>1, <1>4 DEF Decisive
  <2>3. CASE found[p + 1] \in c.sat
    BY <1>1, <1>2, <1>4, <2>1, <2>2, <2>3 DEF VisitState
  <2>4. CASE found[p + 1] \notin c.sat
    BY <1>1, <1>2, <1>4, <2>1, <2>2, <2>4 DEF VisitState
  <2>5. QED
    BY <2>3, <2>4
<1>5. CASE c.op = "any"
  <2>1. f = IF found[p + 1] \in c.sat THEN [stop |-> TRUE, acc |-> TRUE]
            ELSE [stop |-> FALSE, acc |-> FALSE]
    BY <1>5 DEF Fold, Continue, Break
  <2>2. p + 1 \in Decisive(c, found) <=> found[p + 1] \in c.sat
    BY <1>1, <1>5 DEF Decisive
  <2>3. QED
    BY <1>1, <1>2, <1>5, <2>1, <2>2 DEF VisitState
<1>6. CASE c.op = "find_map"
  <2>1. f = IF found[p + 1] \in c.sat THEN [stop |-> TRUE, acc |-> <<found[p + 1]>>]
            ELSE [stop |-> FALSE, acc |-> <<>>]
    BY <1>6 DEF Fold, Continue, Break
  <2>2. p + 1 \in Decisive(c, found) <=> found[p + 1] \in c.sat
    BY <1>1, <1>6 DEF Decisive
  <2>3. QED
    BY <1>1, <1>2, <1>6, <2>1, <2>2 DEF VisitState
<1>7. QED
  BY <1>3, <1>4, <1>5, <1>6 DEF Visits

\* A visit that ends returns the answer defined on all of found, after the
\* first decisive note.
LEMMA LastVisitState ==
    ASSUME NEW c, c.op \in Visits, NEW found \in Seq(Notes), NEW acc, NEW p, NEW stop,
           VisitState(c, found, acc, p, stop), stop \/ p = Len(found)
    PROVE  /\ acc[1] = Reference(c, found)
           /\ p = IF Decisive(c, found) = {} THEN Len(found) ELSE Min(Decisive(c, found))
<1>1. p \in Nat /\ Decisive(c, found) \subseteq 1..Len(found) /\ Decisive(c, found) \subseteq Nat
  BY DEF VisitState, Decisive
<1>2. CASE p \in Decisive(c, found)
  <2>1. Min(Decisive(c, found)) = p /\ stop
    BY <1>1, <1>2, LeastIs DEF VisitState
  <2>2. p \in 1..Len(found) /\ c.op # "count"
    BY <1>2 DEF Decisive
  <2>3. acc[1] = Reference(c, found)
    <3>1. CASE c.op = "all"
      <4>1. found[p] \notin c.sat /\ found[p] \in ToSet(found)
        BY <1>2, <2>2, <3>1 DEF Decisive, ToSet
      <4>2. QED
        BY <3>1, <2>1, <4>1 DEF VisitState, Reference
    <3>2. CASE c.op = "any"
      <4>1. found[p] \in c.sat /\ found[p] \in ToSet(found)
        BY <1>2, <2>2, <3>2 DEF Decisive, ToSet
      <4>2. QED
        BY <3>2, <2>1, <4>1 DEF VisitState, Reference
    <3>3. CASE c.op = "find_map"
      BY <3>3, <2>1, <1>2 DEF VisitState, Reference
    <3>4. QED
      BY <2>2, <3>1, <3>2, <3>3 DEF Visits
  <2>4. QED
    BY <1>2, <2>1, <2>3
<1>3. CASE p \notin Decisive(c, found)
  <2>1. ~ stop /\ p = Len(found)
    BY <1>3 DEF VisitState
  <2>2. Decisive(c, found) = {}
    <3>1. \A i \in Decisive(c, found) : i <= p /\ i >= p /\ i # p
      BY <1>1, <1>3, <2>1 DEF VisitState
    <3>2. QED
      BY <1>1, <3>1
  <2>3. acc[1] = Reference(c, found)
    <3>1. CASE c.op = "count"
      BY <3>1, <2>1 DEF VisitState, Reference
    <3>2. CASE c.op = "all"
      <4>1. ToSet(found) \subseteq c.sat
        BY <3>2, <2>2 DEF Decisive, ToSet
      <4>2. QED
        BY <3>2, <2>1, <4>1 DEF VisitState, Reference
    <3>3. CASE c.op = "any"
      <4>1. ToSet(found) \cap c.sat = {}
        BY <3>3, <2>2 DEF Decisive, ToSet
      <4>2. QED
        BY <3>3, <2>1, <4>1 DEF VisitState, Reference
    <3>4. CASE c.op = "find_map"
      BY <3>4, <2>1, <2>2 DEF VisitState, Reference
    <3>5. QED
      BY <3>1, <3>2, <3>3, <3>4 DEF Visits
  <2>4. QED
    BY <2>1, <2>2, <2>3
<1>4. QED
  BY <1>2, <1>3

LEMMA FirstSearchState ==
    ASSUME NEW c, c.limit \in Nat, NEW found \in Seq(Notes), found # <<>>
    PROVE  SearchState(c, found, AddKey(c, <<>>, found[1]), 1)
<1>1. Len(found) \in Nat /\ 1 \in 1..Len(found)
  OBVIOUS
<1>2. Kept(found, c.sat)[1] = KeptStep(found, c.sat, <<>>, 1)
  BY <1>1, KeptDef DEF KeptUpTo
<1>3. QED
  BY <1>1, <1>2 DEF SearchState, AddKey, KeptStep

LEMMA NextSearchState ==
    ASSUME NEW c, c.limit \in Nat, NEW found \in Seq(Notes), NEW acc, NEW p,
           SearchState(c, found, acc, p), p < c.limit + 1, p < Len(found)
    PROVE  SearchState(c, found, AddKey(c, acc, found[p + 1]), p + 1)
<1>1. p \in Nat /\ p + 1 \in 1..Len(found) /\ (p + 1) - 1 = p
  BY DEF SearchState
<1>2. Kept(found, c.sat)[p + 1] = KeptStep(found, c.sat, Kept(found, c.sat)[p], p + 1)
  BY <1>1, KeptDef DEF KeptUpTo
<1>3. QED
  BY <1>1, <1>2 DEF SearchState, AddKey, KeptStep

LEMMA LastSearchState ==
    ASSUME NEW c, c.op = "search", c.limit \in Nat, NEW found \in Seq(Notes), NEW acc, NEW p,
           SearchState(c, found, acc, p), ~ (p < c.limit + 1) \/ p = Len(found)
    PROVE  acc = Reference(c, found)
<1>1. p \in Nat /\ Len(found) \in Nat /\ c.limit + 1 \in Nat /\ p <= Len(found) /\ p <= c.limit + 1
  BY DEF SearchState
<1>2. Min({c.limit + 1, Len(found)}) = p
  BY <1>1, LeastOfTwo
<1>3. Reference(c, found) = Kept(found, c.sat)[p]
  BY <1>2 DEF Reference
<1>4. QED
  BY <1>3 DEF SearchState

-----------------------------------------------------------------------------
(* The steps of a thread                                                   *)

\* What a step of t leaves alone.
Others(t) ==
    \A u \in Threads \ {t} :
        /\ txn'[u] = txn[u] /\ call'[u] = call[u] /\ accum'[u] = accum[u] /\ pos'[u] = pos[u]
        /\ stopped'[u] = stopped[u] /\ cursor'[u] = cursor[u] /\ answer'[u] = answer[u]

\* A step of t is right when it is right for t.
LEMMA OneReader ==
    ASSUME QueriesInv, NEW t \in Threads, db' = db, ByThread', Others(t), ReaderInv(t)'
    PROVE  QueriesInv'
<1>1. ASSUME NEW u \in Threads, u # t PROVE ReaderInv(u)'
  <2>1. ReaderInv(u)
    BY DEF QueriesInv
  <2>2. /\ txn'[u] = txn[u] /\ call'[u] = call[u] /\ accum'[u] = accum[u] /\ pos'[u] = pos[u]
        /\ stopped'[u] = stopped[u] /\ cursor'[u] = cursor[u] /\ answer'[u] = answer[u]
    BY <1>1 DEF Others
  <2>3. QED
    BY <2>1, <2>2 DEF ReaderInv, Snapshot, Idle, Reading, Answered
<1>2. QED
  BY <1>1 DEF QueriesInv

LEMMA StoreKeeps == ASSUME QueriesInv, NEW n \in Notes, Store(n) PROVE QueriesInv'
<1>1. db' \in Seq(Notes) /\ Len(db) <= Len(db') /\ Len(db) \in Nat
  BY DEF Store, QueriesInv
<1>2. UNCHANGED <<txn, call, accum, pos, stopped, cursor, answer>>
  BY DEF Store
<1>3. ASSUME NEW t \in Threads PROVE ReaderInv(t)'
  <2>1. ReaderInv(t)
    BY DEF QueriesInv
  <2>2. Snapshot(t)'
    <3>1. txn[t] # <<>> => Len(txn[t][1]) \in Nat
      BY <2>1 DEF ReaderInv, Snapshot
    <3>2. QED
      BY <1>1, <1>2, <2>1, <3>1 DEF ReaderInv, Snapshot
  <2>3. Idle(t)' \/ Reading(t)'
    BY <1>2, <2>1 DEF ReaderInv, Idle, Reading
  <2>4. Answered(t)'
    BY <1>2, <2>1 DEF ReaderInv, Answered
  <2>5. QED
    BY <2>2, <2>3, <2>4 DEF ReaderInv
<1>4. ByThread'
  BY <1>2 DEF ByThread, QueriesInv
<1>5. QED
  BY <1>1, <1>3, <1>4 DEF QueriesInv

LEMMA BeginTxnKeeps == ASSUME QueriesInv, NEW t \in Threads, BeginTxn(t) PROVE QueriesInv'
<1>1. /\ db' = db /\ db \in Seq(Notes) /\ txn[t] = <<>> /\ txn'[t] = <<db>>
      /\ UNCHANGED <<call, accum, pos, stopped, cursor, answer>>
  BY DEF BeginTxn, QueriesInv, ByThread
<1>2. ByThread' /\ Others(t)
  BY DEF BeginTxn, QueriesInv, ByThread, Others
<1>3. ReaderInv(t)
  BY DEF QueriesInv
<1>4. Snapshot(t)'
  BY <1>1 DEF Snapshot
<1>5. Idle(t)'
  BY <1>1, <1>3 DEF ReaderInv, Idle, Reading
<1>6. Answered(t)'
  BY <1>1, <1>3 DEF ReaderInv, Answered
<1>7. ReaderInv(t)'
  BY <1>4, <1>5, <1>6 DEF ReaderInv
<1>8. QED
  BY <1>1, <1>2, <1>7, OneReader

LEMMA EndTxnKeeps == ASSUME QueriesInv, NEW t \in Threads, EndTxn(t) PROVE QueriesInv'
<1>1. /\ db' = db /\ call[t] = <<>> /\ txn'[t] = <<>> /\ answer'[t] = <<>>
      /\ UNCHANGED <<call, accum, pos, stopped, cursor>>
  BY DEF EndTxn, QueriesInv, ByThread
<1>2. ByThread' /\ Others(t)
  BY DEF EndTxn, QueriesInv, ByThread, Others
<1>3. ReaderInv(t)
  BY DEF QueriesInv
<1>4. Snapshot(t)' /\ Answered(t)'
  BY <1>1 DEF Snapshot, Answered
<1>5. Idle(t)'
  BY <1>1, <1>3 DEF ReaderInv, Idle, Reading
<1>6. ReaderInv(t)'
  BY <1>4, <1>5 DEF ReaderInv
<1>7. QED
  BY <1>1, <1>2, <1>6, OneReader

\* A thread in a transaction and out of a read begins one: the read is in
\* progress from then on, if Progress holds of its beginning.
LEMMA BegunKeeps ==
    ASSUME QueriesInv, NEW t \in Threads, NEW c,
           txn[t] # <<>>, call[t] = <<>>, call'[t] = <<c>>, answer'[t] = <<>>,
           UNCHANGED <<db, txn>>, ByThread', Others(t),
           Progress(c, Matching(txn[t][1], c), accum'[t], pos'[t], stopped'[t], cursor'[t])
    PROVE  QueriesInv'
<1>1. ReaderInv(t)
  BY DEF QueriesInv
<1>2. Snapshot(t)' /\ Answered(t)'
  BY <1>1 DEF ReaderInv, Snapshot, Answered
<1>3. Reading(t)'
  BY DEF Reading
<1>4. ReaderInv(t)'
  BY <1>2, <1>3 DEF ReaderInv
<1>5. QED
  BY <1>4, OneReader

LEMMA BeginCallKeeps ==
    ASSUME QueriesInv, NEW t \in Threads, NEW c \in Calls, NEW acc,
           BeginCall(t, c, acc, FALSE),
           c.op \in Visits => acc = <<Start(c.op)>>,
           c.op = "query" => acc = <<>>,
           c.op \in Visits \cup {"query"}
    PROVE  QueriesInv'
<1>1. /\ txn[t] # <<>> /\ call[t] = <<>> /\ call'[t] = <<c>> /\ answer'[t] = <<>>
      /\ accum'[t] = acc /\ cursor'[t] = FALSE /\ UNCHANGED <<db, txn, pos, stopped>>
  BY DEF BeginCall, QueriesInv, ByThread
<1>2. ByThread' /\ Others(t)
  BY DEF BeginCall, QueriesInv, ByThread, Others
<1>3. Idle(t) /\ Matching(txn[t][1], c) \in Seq(Notes)
  <2>1. ReaderInv(t)
    BY DEF QueriesInv
  <2>2. txn[t][1] \in Seq(Notes)
    BY <1>1, <2>1 DEF ReaderInv, Snapshot
  <2>3. QED
    BY <1>1, <2>1, <2>2, MatchingIsShort DEF ReaderInv, Reading
<1>4. c.op # "search" /\ (c.op = "query" => c.op \notin Visits)
  BY DEF Visits
<1>5. Progress(c, Matching(txn[t][1], c), acc, 0, FALSE, FALSE)
  BY <1>3, <1>4, FirstVisitState DEF Progress
<1>6. pos'[t] = 0 /\ stopped'[t] = FALSE
  BY <1>1, <1>3 DEF Idle
<1>7. QED
  BY <1>1, <1>2, <1>5, <1>6, BegunKeeps

LEMMA BeginSearchKeeps ==
    ASSUME QueriesInv, NEW t \in Threads, NEW c \in Calls, BeginSearch(t, c)
    PROVE  QueriesInv'
<1>1. /\ txn[t] # <<>> /\ call[t] = <<>> /\ call'[t] = <<c>> /\ answer'[t] = <<>>
      /\ accum'[t] = AddKey(c, <<>>, Hits(t, c)[1]) /\ pos'[t] = 1 /\ cursor'[t] = TRUE
      /\ UNCHANGED <<db, txn, stopped>> /\ c.op = "search" /\ Hits(t, c) # <<>>
  BY DEF BeginSearch, QueriesInv, ByThread
<1>2. ByThread' /\ Others(t)
  BY DEF BeginSearch, QueriesInv, ByThread, Others
<1>3. Idle(t) /\ Hits(t, c) \in Seq(Notes)
  <2>1. ReaderInv(t)
    BY DEF QueriesInv
  <2>2. txn[t][1] \in Seq(Notes)
    BY <1>1, <2>1 DEF ReaderInv, Snapshot
  <2>3. QED
    BY <1>1, <2>1, <2>2, MatchingIsShort DEF ReaderInv, Reading, Hits
<1>4. c.op \notin Visits /\ c.op # "query" /\ c.limit \in Nat
  BY <1>1, LimitsAssumption DEF Visits, Calls, LimitsAssumption
<1>5. stopped'[t] = FALSE
  BY <1>1, <1>3 DEF Idle
<1>6. Progress(c, Hits(t, c), accum'[t], pos'[t], stopped'[t], cursor'[t])
  BY <1>1, <1>3, <1>4, <1>5, FirstSearchState DEF Progress
<1>7. QED
  BY <1>1, <1>2, <1>6, BegunKeeps DEF Hits

\* What is known of a thread with a read in progress.
LEMMA InTheMiddle ==
    ASSUME QueriesInv, NEW t \in Threads, call[t] # <<>>
    PROVE  /\ Snapshot(t) /\ Reading(t)
           /\ call[t][1] \in Calls /\ call[t][1].limit \in Nat
           /\ Found(t) \in Seq(Notes)
           /\ Progress(call[t][1], Found(t), accum[t], pos[t], stopped[t], cursor[t])
<1>1. ReaderInv(t)
  BY DEF QueriesInv
<1>2. Snapshot(t) /\ Reading(t)
  BY <1>1 DEF ReaderInv, Idle
<1>3. txn[t][1] \in Seq(Notes)
  BY <1>2 DEF Snapshot, Reading
<1>4. Found(t) \in Seq(Notes)
  BY <1>3, MatchingIsShort DEF Found
<1>5. Progress(call[t][1], Found(t), accum[t], pos[t], stopped[t], cursor[t])
  BY <1>2 DEF Reading, Found
<1>6. call[t][1] \in Calls /\ call[t][1].limit \in Nat
  BY <1>5, LimitsAssumption DEF Progress, Calls, LimitsAssumption
<1>7. QED
  BY <1>2, <1>4, <1>5, <1>6

\* A read that goes on, with Progress kept.
LEMMA WentOnKeeps ==
    ASSUME QueriesInv, NEW t \in Threads, call[t] # <<>>,
           UNCHANGED <<db, txn, call, answer>>, ByThread', Others(t),
           Progress(call[t][1], Found(t), accum'[t], pos'[t], stopped'[t], cursor'[t])
    PROVE  QueriesInv'
<1>1. Snapshot(t) /\ Reading(t)
  BY InTheMiddle
<1>2. Snapshot(t)' /\ Reading(t)'
  BY <1>1 DEF Snapshot, Reading, Found
<1>3. Answered(t)'
  BY <1>2 DEF Reading, Answered
<1>4. QED
  BY <1>2, <1>3, OneReader DEF ReaderInv

LEMMA VisitKeeps == ASSUME QueriesInv, NEW t \in Threads, Visit(t) PROVE QueriesInv'
<1> DEFINE c == call[t][1]
           f == Fold(c, accum[t][1], Found(t)[pos[t] + 1])
<1>1. /\ call[t] # <<>> /\ c.op \in Visits /\ stopped[t] = FALSE /\ pos[t] < Len(Found(t))
      /\ accum'[t] = <<f.acc>> /\ stopped'[t] = f.stop /\ pos'[t] = pos[t] + 1
      /\ UNCHANGED <<db, txn, call, cursor, answer>>
  <2>1. call[t] # <<>> => stopped[t] \in BOOLEAN
    BY InTheMiddle DEF Progress, VisitState
  <2>2. QED
    BY <2>1 DEF Visit, QueriesInv, ByThread
<1>2. ByThread' /\ Others(t)
  BY DEF Visit, QueriesInv, ByThread, Others
<1>3. Progress(c, Found(t), accum[t], pos[t], FALSE, cursor[t]) /\ Found(t) \in Seq(Notes)
  BY <1>1, InTheMiddle
<1>4. VisitState(c, Found(t), <<f.acc>>, pos[t] + 1, f.stop)
  BY <1>1, <1>3, NextVisitState DEF Progress
<1>5. c.op # "query" /\ c.op # "search"
  BY <1>1 DEF Visits
<1>6. Progress(c, Found(t), <<f.acc>>, pos[t] + 1, f.stop, cursor[t])
  BY <1>1, <1>3, <1>4, <1>5 DEF Progress
<1>7. QED
  <2> HIDE DEF f
  <2>1. QED
    BY <1>1, <1>2, <1>6, WentOnKeeps

LEMMA SearchNextKeeps == ASSUME QueriesInv, NEW t \in Threads, SearchNext(t) PROVE QueriesInv'
<1> DEFINE c == call[t][1]
           more == AddKey(c, accum[t], Found(t)[pos[t] + 1])
<1>1. /\ call[t] # <<>> /\ cursor[t] /\ pos[t] < c.limit + 1 /\ pos[t] < Len(Found(t))
      /\ accum'[t] = more /\ pos'[t] = pos[t] + 1
      /\ UNCHANGED <<db, txn, call, stopped, cursor, answer>>
  BY DEF SearchNext, Remaining, QueriesInv, ByThread
<1>2. ByThread' /\ Others(t)
  BY DEF SearchNext, QueriesInv, ByThread, Others
<1>3. /\ Progress(c, Found(t), accum[t], pos[t], stopped[t], cursor[t])
      /\ Found(t) \in Seq(Notes) /\ c.limit \in Nat
  BY <1>1, InTheMiddle
<1>4. c.op = "search" /\ c.op \notin Visits /\ c.op # "query"
  BY <1>1, <1>3 DEF Progress, Visits
<1>5. SearchState(c, Found(t), more, pos[t] + 1)
  BY <1>1, <1>3, <1>4, NextSearchState DEF Progress
<1>6. Progress(c, Found(t), more, pos[t] + 1, stopped[t], cursor[t])
  BY <1>3, <1>4, <1>5 DEF Progress
<1>7. QED
  <2> HIDE DEF more
  <2>1. QED
    BY <1>1, <1>2, <1>6, WentOnKeeps

LEMMA ReadErrKeeps == ASSUME QueriesInv, NEW t \in Threads, ReadErr(t) PROVE QueriesInv'
<1>1. /\ call[t] # <<>> /\ call[t][1].op # "search"
      /\ call'[t] = <<>> /\ accum'[t] = <<>> /\ pos'[t] = 0 /\ stopped'[t] = FALSE
      /\ UNCHANGED <<db, txn, cursor, answer>>
  BY DEF ReadErr, QueriesInv, ByThread
<1>2. ByThread' /\ Others(t)
  BY DEF ReadErr, QueriesInv, ByThread, Others
<1>3. Snapshot(t) /\ Reading(t) /\ cursor[t] = FALSE
  BY <1>1, InTheMiddle DEF Progress
<1>4. Snapshot(t)' /\ Idle(t)' /\ Answered(t)'
  BY <1>1, <1>3 DEF Snapshot, Idle, Reading, Answered
<1>5. QED
  BY <1>1, <1>2, <1>4, OneReader DEF ReaderInv

\* A read that returns the right answer, its cursor closed.
LEMMA ReturnKeeps ==
    ASSUME QueriesInv, NEW t \in Threads, call[t] # <<>>, NEW result, Return(t, result),
           cursor' = cursor \/ cursor' = [cursor EXCEPT ![t] = FALSE], cursor'[t] = FALSE,
           RightAnswer([of |-> call[t][1], ok |-> result, at |-> pos[t]], txn[t][1])
    PROVE  QueriesInv'
<1> DEFINE a == [of |-> call[t][1], ok |-> result, at |-> pos[t]]
<1>1. /\ call'[t] = <<>> /\ accum'[t] = <<>> /\ pos'[t] = 0 /\ stopped'[t] = FALSE
      /\ answer'[t] = <<a>> /\ UNCHANGED <<db, txn>>
  BY DEF Return, QueriesInv, ByThread
<1>2. ByThread' /\ Others(t)
  BY DEF Return, QueriesInv, ByThread, Others
<1>3. Snapshot(t) /\ txn[t] # <<>>
  BY InTheMiddle DEF Reading
<1>4. Snapshot(t)' /\ Idle(t)'
  BY <1>1, <1>3 DEF Snapshot, Idle
<1>5. Answered(t)'
  <2> HIDE DEF a
  <2>1. RightAnswer(a, txn[t][1])
    BY DEF a
  <2>2. QED
    BY <1>1, <1>3, <2>1 DEF Answered
<1>6. QED
  BY <1>1, <1>2, <1>4, <1>5, OneReader DEF ReaderInv

LEMMA VisitOkKeeps == ASSUME QueriesInv, NEW t \in Threads, VisitOk(t) PROVE QueriesInv'
<1> DEFINE c == call[t][1]
<1>1. /\ call[t] # <<>> /\ c.op \in Visits /\ Return(t, accum[t][1]) /\ cursor' = cursor
      /\ stopped[t] \/ pos[t] = Len(Found(t))
  BY DEF VisitOk
<1>2. Progress(c, Found(t), accum[t], pos[t], stopped[t], cursor[t]) /\ Found(t) \in Seq(Notes)
  BY <1>1, InTheMiddle
<1>3. cursor[t] = FALSE
  BY <1>1, <1>2 DEF Progress, Visits
<1>4. /\ accum[t][1] = Reference(c, Found(t))
      /\ pos[t] = IF Decisive(c, Found(t)) = {} THEN Len(Found(t)) ELSE Min(Decisive(c, Found(t)))
  BY <1>1, <1>2, LastVisitState DEF Progress
<1>5. RightAnswer([of |-> c, ok |-> accum[t][1], at |-> pos[t]], txn[t][1])
  BY <1>4 DEF RightAnswer, Found
<1>6. QED
  BY <1>1, <1>3, <1>5, ReturnKeeps

LEMMA QueryOkKeeps == ASSUME QueriesInv, NEW t \in Threads, QueryOk(t) PROVE QueriesInv'
<1> DEFINE c == call[t][1]
           result == SubSeq(Found(t), 1, Min({c.limit, Len(Found(t))}))
<1>1. call[t] # <<>> /\ c.op = "query" /\ Return(t, result) /\ cursor' = cursor
  BY DEF QueryOk
<1>2. cursor[t] = FALSE
  BY <1>1, InTheMiddle DEF Progress
<1>3. c.op \notin Visits
  BY <1>1 DEF Visits
<1>4. result = Reference(c, Found(t))
  BY <1>1 DEF Reference
<1>5. RightAnswer([of |-> c, ok |-> result, at |-> pos[t]], txn[t][1])
  <2> HIDE DEF result
  <2>1. QED
    BY <1>3, <1>4 DEF RightAnswer, Found
<1>6. QED
  BY <1>1, <1>2, <1>5, ReturnKeeps

LEMMA SearchOkKeeps == ASSUME QueriesInv, NEW t \in Threads, SearchOk(t) PROVE QueriesInv'
<1> DEFINE c == call[t][1]
<1>1. /\ call[t] # <<>> /\ c.op = "search" /\ Return(t, accum[t])
      /\ cursor' = [cursor EXCEPT ![t] = FALSE]
      /\ ~ (pos[t] < c.limit + 1) \/ pos[t] = Len(Found(t))
  BY DEF SearchOk, Remaining
<1>2. cursor'[t] = FALSE
  BY <1>1 DEF QueriesInv, ByThread
<1>3. /\ Progress(c, Found(t), accum[t], pos[t], stopped[t], cursor[t])
      /\ Found(t) \in Seq(Notes) /\ c.limit \in Nat
  BY <1>1, InTheMiddle
<1>4. accum[t] = Reference(c, Found(t))
  BY <1>1, <1>3, LastSearchState DEF Progress
<1>5. c.op \notin Visits
  BY <1>1 DEF Visits
<1>6. RightAnswer([of |-> c, ok |-> accum[t], at |-> pos[t]], txn[t][1])
  BY <1>4, <1>5 DEF RightAnswer, Found
<1>7. QED
  BY <1>1, <1>2, <1>6, ReturnKeeps

\* A read that is one call: a lookup, or a search that finds nothing.
LEMMA AtOnceKeeps ==
    ASSUME QueriesInv, NEW t \in Threads, NEW a, txn[t] # <<>>, call[t] = <<>>,
           answer' = [answer EXCEPT ![t] = <<a>>],
           UNCHANGED <<db, txn, call, accum, pos, stopped, cursor>>,
           RightAnswer(a, txn[t][1])
    PROVE  QueriesInv'
<1>1. answer'[t] = <<a>>
  BY DEF QueriesInv, ByThread
<1>2. ByThread' /\ Others(t)
  BY DEF QueriesInv, ByThread, Others
<1>3. Snapshot(t) /\ Idle(t)
  BY DEF QueriesInv, ReaderInv, Reading
<1>4. Snapshot(t)' /\ Idle(t)' /\ Answered(t)'
  BY <1>1, <1>3 DEF Snapshot, Idle, Answered
<1>5. QED
  BY <1>2, <1>4, OneReader DEF ReaderInv

LEMMA SearchEmptyKeeps ==
    ASSUME QueriesInv, NEW t \in Threads, NEW c \in Calls, SearchEmpty(t, c)
    PROVE  QueriesInv'
<1> DEFINE a == [of |-> c, ok |-> <<>>, at |-> 0]
<1>1. c.op = "search" /\ txn[t] # <<>> /\ call[t] = <<>> /\ Matching(txn[t][1], c) = <<>>
  BY DEF SearchEmpty, Hits
<1>2. c.limit \in Nat /\ c.op \notin Visits
  BY <1>1, LimitsAssumption DEF LimitsAssumption, Calls, Visits
<1>3. Reference(c, <<>>) = <<>>
  <2>1. Min({c.limit + 1, 0}) = 0
    BY <1>2, LeastOfTwo
  <2>2. Kept(<<>>, c.sat)[0] = <<>>
    <3>1. <<>> \in Seq(Notes) /\ Len(<<>>) = 0
      OBVIOUS
    <3>2. KeptUpTo(<<>>, c.sat, 0, Notes, Kept(<<>>, c.sat))
      BY <3>1, KeptDef
    <3>3. QED
      BY <3>2 DEF KeptUpTo
  <2>3. Reference(c, <<>>) = Kept(<<>>, c.sat)[Min({c.limit + 1, 0})]
    BY <1>1 DEF Reference
  <2>4. QED
    BY <2>1, <2>2, <2>3
<1>4. RightAnswer(a, txn[t][1])
  BY <1>1, <1>2, <1>3 DEF RightAnswer
<1>5. QED
  <2> HIDE DEF a
  <2>1. answer' = [answer EXCEPT ![t] = <<a>>]
    BY DEF SearchEmpty, a
  <2>2. UNCHANGED <<db, txn, call, accum, pos, stopped, cursor>>
    BY DEF SearchEmpty
  <2>3. QED
    BY <1>1, <1>4, <2>1, <2>2, AtOnceKeeps

LEMMA GetKeeps ==
    ASSUME QueriesInv, NEW t \in Threads, NEW c \in Calls, Get(t, c)
    PROVE  QueriesInv'
<1> DEFINE a == [of |-> c, ok |-> Hits(t, c), at |-> 0]
<1>1. c.op = "get" /\ c.op \notin Visits /\ txn[t] # <<>> /\ call[t] = <<>>
  BY DEF Get, Visits
<1>2. Reference(c, Hits(t, c)) = Hits(t, c)
  BY <1>1 DEF Reference
<1>3. RightAnswer(a, txn[t][1])
  BY <1>1, <1>2 DEF RightAnswer, Hits
<1>4. QED
  <2> HIDE DEF a
  <2>1. answer' = [answer EXCEPT ![t] = <<a>>]
    BY DEF Get, a
  <2>2. UNCHANGED <<db, txn, call, accum, pos, stopped, cursor>>
    BY DEF Get
  <2>3. QED
    BY <1>1, <1>3, <2>1, <2>2, AtOnceKeeps

-----------------------------------------------------------------------------
(* The theorems                                                            *)

\* Whatever is stored and read in between, every read in progress is at a
\* prefix of what its snapshot has for it, and every answer is the right one.
THEOREM QueriesInvariant == Spec => []QueriesInv
<1>1. Init => QueriesInv
  BY DEF Init, QueriesInv, ByThread, ReaderInv, Snapshot, Idle, Answered
<1>2. QueriesInv /\ [Next]_vars => QueriesInv'
  <2> SUFFICES ASSUME QueriesInv, [Next]_vars PROVE QueriesInv'
    OBVIOUS
  <2>1. ASSUME NEW n \in Notes, Store(n) PROVE QueriesInv'
    BY <2>1, StoreKeeps
  <2>2. ASSUME NEW t \in Threads, Reader(t) PROVE QueriesInv'
    <3>1. ASSUME NEW c \in Calls, BeginVisit(t, c) PROVE QueriesInv'
      <4>1. c.op \in Visits /\ c.op # "query" /\ BeginCall(t, c, <<Start(c.op)>>, FALSE)
        BY <3>1 DEF BeginVisit, Visits
      <4>2. QED
        BY <4>1, BeginCallKeeps
    <3>2. ASSUME NEW c \in Calls, BeginQuery(t, c) PROVE QueriesInv'
      <4>1. c.op \notin Visits /\ c.op = "query" /\ BeginCall(t, c, <<>>, FALSE)
        BY <3>2 DEF BeginQuery, Visits
      <4>2. QED
        BY <4>1, BeginCallKeeps
    <3>3. ASSUME NEW c \in Calls, BeginSearch(t, c) \/ SearchEmpty(t, c) \/ Get(t, c)
          PROVE QueriesInv'
      BY <3>3, BeginSearchKeeps, SearchEmptyKeeps, GetKeeps
    <3>4. QED
      BY <2>2, <3>1, <3>2, <3>3, BeginTxnKeeps, EndTxnKeeps, VisitKeeps, VisitOkKeeps,
         ReadErrKeeps, QueryOkKeeps, SearchNextKeeps, SearchOkKeeps DEF Reader
  <2>3. CASE UNCHANGED vars
    BY <2>3 DEF vars, QueriesInv, ByThread, ReaderInv, Snapshot, Idle, Reading, Answered
  <2>4. QED
    BY <2>1, <2>2, <2>3 DEF Next
<1>3. QED
  BY <1>1, <1>2, PTL DEF Spec

\* Every Ok of count, all, any, find_map, query, search_profile and the
\* lookups is what the documentation promises for the snapshot of the
\* transaction, for any number of readers and notes.
THEOREM AnswersAreRightAlways == Spec => []AnswersAreRight
<1>1. QueriesInv => AnswersAreRight
  <2> SUFFICES ASSUME QueriesInv, NEW t \in Threads, NEW a \in ToSet(answer[t])
               PROVE a.ok = Reference(a.of, Matching(txn[t][1], a.of))
    BY DEF AnswersAreRight
  <2>1. Answered(t)
    BY DEF QueriesInv, ReaderInv
  <2>2. answer[t] # <<>>
    BY DEF ToSet
  <2>3. RightAnswer(a, txn[t][1])
    BY <2>1, <2>2 DEF Answered, ToSet
  <2>4. QED
    BY <2>3 DEF RightAnswer
<1>2. QED
  BY <1>1, QueriesInvariant, PTL

\* all, any and find_map call their closure up to the first note that decides
\* them and never after it, count on every note.
THEOREM ShortCircuitsAlways == Spec => []ShortCircuits
<1>1. QueriesInv => ShortCircuits
  <2> SUFFICES ASSUME QueriesInv, NEW t \in Threads, NEW a \in ToSet(answer[t]),
                      a.of.op \in Visits
               PROVE a.at = IF Decisive(a.of, Matching(txn[t][1], a.of)) = {}
                            THEN Len(Matching(txn[t][1], a.of))
                            ELSE Min(Decisive(a.of, Matching(txn[t][1], a.of)))
    BY DEF ShortCircuits
  <2>1. Answered(t)
    BY DEF QueriesInv, ReaderInv
  <2>2. answer[t] # <<>>
    BY DEF ToSet
  <2>3. RightAnswer(a, txn[t][1])
    BY <2>1, <2>2 DEF Answered, ToSet
  <2>4. QED
    BY <2>3 DEF RightAnswer
<1>2. QED
  BY <1>1, QueriesInvariant, PTL

\* The search cursor is open only during the search that opened it, so that it
\* is closed on every way out, before the transaction can end.
THEOREM CursorInCallAlways == Spec => []CursorInCall
<1>1. QueriesInv => CursorInCall
  BY DEF QueriesInv, ReaderInv, Idle, Reading, Progress, CursorInCall
<1>2. QED
  BY <1>1, QueriesInvariant, PTL

LEMMA LenOfOption ==
    ASSUME NEW o, NEW v, o = <<>> \/ o = <<v>>
    PROVE  Len(o) <= 1 /\ (o = <<v>> => Len(o) = 1)
<1>1. Len(<<>>) = 0 /\ Len(<<v>>) = 1
  OBVIOUS
<1>2. QED
  BY <1>1

\* The visitors' expect("accumulator missing") never fires, and no read is in
\* progress out of a transaction.
THEOREM QueryTypes == Spec => []QueryTypeOK
<1>1. QueriesInv => QueryTypeOK
  <2> SUFFICES ASSUME QueriesInv, NEW t \in Threads
               PROVE  /\ Len(txn[t]) <= 1 /\ Len(call[t]) <= 1
                      /\ call[t] # <<>> => txn[t] # <<>>
                      /\ pos[t] \in 0..Len(db)
                      /\ stopped[t] \in BOOLEAN /\ cursor[t] \in BOOLEAN
                      /\ call[t] # <<>> /\ call[t][1].op \in Visits => Len(accum[t]) = 1
    BY DEF QueriesInv, QueryTypeOK
  <2>1. Snapshot(t) /\ (Idle(t) \/ Reading(t)) /\ Len(db) \in Nat
    BY DEF QueriesInv, ReaderInv
  <2>2. Len(txn[t]) <= 1
    <3>1. txn[t] = <<>> \/ txn[t] = <<txn[t][1]>>
      BY <2>1 DEF Snapshot
    <3>2. QED
      BY <3>1, LenOfOption
  <2>3. CASE Idle(t)
    <3>1. call[t] = <<>>
      BY <2>3 DEF Idle
    <3>2. Len(call[t]) <= 1
      BY <3>1, LenOfOption
    <3>3. pos[t] = 0 /\ stopped[t] \in BOOLEAN /\ cursor[t] \in BOOLEAN
      BY <2>3 DEF Idle
    <3>4. pos[t] \in 0..Len(db)
      BY <2>1, <3>3
    <3>5. QED
      BY <2>2, <3>1, <3>2, <3>3, <3>4
  <2>4. CASE Reading(t)
    <3> DEFINE c == call[t][1]
    <3>1. call[t] = <<c>> /\ txn[t] # <<>>
      BY <2>4 DEF Reading
    <3>2. /\ Progress(c, Found(t), accum[t], pos[t], stopped[t], cursor[t])
          /\ Found(t) \in Seq(Notes) /\ Len(Found(t)) <= Len(txn[t][1])
          /\ txn[t][1] \in Seq(Notes) /\ Len(txn[t][1]) <= Len(db)
      BY <2>1, <2>4, MatchingIsShort DEF Snapshot, Reading, Found
    <3>3. stopped[t] \in BOOLEAN /\ cursor[t] \in BOOLEAN
      BY <3>2 DEF Progress, VisitState
    <3>4. pos[t] \in 0..Len(Found(t))
      BY <3>2 DEF Progress, VisitState, SearchState
    <3>5. c.op \in Visits => Len(accum[t]) = 1
      BY <3>2, LenOfOption DEF Progress, VisitState
    <3>6. pos[t] \in 0..Len(db)
      BY <2>1, <3>2, <3>4
    <3>7. Len(call[t]) <= 1
      BY <3>1, LenOfOption
    <3>8. QED
      <4> HIDE DEF c
      <4>1. QED
        BY <2>2, <3>1, <3>3, <3>5, <3>6, <3>7 DEF c
  <2>5. QED
    BY <2>1, <2>3, <2>4
<1>2. QED
  BY <1>1, QueriesInvariant, PTL
=============================================================================
