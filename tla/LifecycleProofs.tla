-------------------------- MODULE LifecycleProofs --------------------------
(***************************************************************************)
(* Proofs about Lifecycle, for any number of threads, map sizes and        *)
(* limits: a clone keeps the database open, and the writer finds its       *)
(* callback's box.                                                         *)
(***************************************************************************)
EXTENDS Lifecycle, FiniteSetTheorems, TLAPS

\* The retry loop halves a size that is positive and configured.
LEMMA HalfSize ==
    ASSUME NEW a \in Nat, NEW n \in 0..a
    PROVE  n \div 2 \in 0..a
  OBVIOUS

\* Types and the inductive invariant hold in the beginning.
LEMMA LifeInit == Init => LifecycleTypeOK /\ LifeInv
  BY LifecycleAssumption DEF Init, LifecycleTypeOK, LifeInv, Holders

\* Every variable keeps to its type: one step.
LEMMA TypeStep == LifecycleTypeOK /\ LifeInv /\ [Next]_vars => LifecycleTypeOK'
  <1> SUFFICES ASSUME LifecycleTypeOK, LifeInv, [Next]_vars PROVE LifecycleTypeOK'
    OBVIOUS
  <1> USE LifecycleAssumption DEF LifecycleTypeOK, openVars, runVars
  <1>1. CASE New
    BY <1>1 DEF New
  <1>2. CASE InitFails
    BY <1>2, asked \in Nat \ {0}, HalfSize DEF InitFails, LifeInv
  <1>3. CASE WriterCalls
    BY <1>3 DEF WriterCalls
  <1>4. CASE CallbackLocks
    BY <1>4 DEF CallbackLocks
  <1>5. CASE CallbackReturns
    BY <1>5 DEF CallbackReturns
  <1>6. ASSUME NEW t \in Threads, InitOk(t) PROVE LifecycleTypeOK'
    BY <1>6 DEF InitOk, LifeInv
  <1>7. ASSUME NEW t \in Threads, NEW u \in Threads, CloneTo(t, u) PROVE LifecycleTypeOK'
    BY <1>7 DEF CloneTo
  <1>8. ASSUME NEW t \in Threads, CallC(t) \/ ReturnC(t) PROVE LifecycleTypeOK'
    <2>1. CASE CallC(t)
      BY <2>1 DEF CallC, Move
    <2>2. CASE ReturnC(t)
      BY <2>2 DEF ReturnC, Move
    <2> QED
      BY <1>8, <2>1, <2>2
  <1>9. ASSUME NEW t \in Threads, LockMap(t) PROVE LifecycleTypeOK'
    BY <1>9 DEF LockMap, Move
  <1>10. ASSUME NEW t \in Threads, UnlockMap(t) PROVE LifecycleTypeOK'
    BY <1>10 DEF UnlockMap, Move
  <1>11. ASSUME NEW t \in Threads, DropClone(t) PROVE LifecycleTypeOK'
    BY <1>11 DEF DropClone, Move
  <1>12. ASSUME NEW t \in Threads, Destroy(t) PROVE LifecycleTypeOK'
    BY <1>12 DEF Destroy, Move
  <1>13. ASSUME NEW t \in Threads, FreeBox(t) PROVE LifecycleTypeOK'
    BY <1>13 DEF FreeBox, Move
  <1>14. ASSUME NEW t \in Threads, BeginTxn(t) \/ EndTxn(t) \/ EndReturns(t)
         PROVE  LifecycleTypeOK'
    <2>1. /\ UNCHANGED <<opening, asked, mapsize, fits, tried, box, db, wpc, at, mutex>>
          /\ txn' \in [Threads -> {"none", "open", "ending"}]
      BY <1>14 DEF BeginTxn, EndTxn, EndReturns
    <2> QED
      BY <2>1
  <1>15. CASE UNCHANGED vars
    BY <1>15 DEF vars
  <1> QED
    BY <1>1, <1>2, <1>3, <1>4, <1>5, <1>6, <1>7, <1>8, <1>9, <1>10, <1>11,
       <1>12, <1>13, <1>14, <1>15 DEF Next, Writer, Thread, WithClone

\* A thread that moves only between the places of a clone in use leaves what is
\* known of holders and of closing threads as it was.
LEMMA HolderMoves ==
    ASSUME LifecycleTypeOK, LifeInv,
           NEW t \in Threads, at[t] \in {"holding", "inC", "locked"},
           NEW to \in {"holding", "inC", "locked"}, at' = [at EXCEPT ![t] = to],
           UNCHANGED <<openVars, box, db, wpc>>
    PROVE  LifeInv'
  BY DEF LifecycleTypeOK, LifeInv, Holders, openVars

\* The inductive invariant is inductive, with the types.
LEMMA LifeInvStep == LifecycleTypeOK /\ LifeInv /\ [Next]_vars => LifeInv'
  <1> SUFFICES ASSUME LifecycleTypeOK, LifeInv, [Next]_vars PROVE LifeInv'
    OBVIOUS
  <1> USE DEF LifeInv, Holders, LifecycleTypeOK, openVars, runVars
  <1>1. CASE New
    BY <1>1 DEF New
  <1>2. CASE InitFails
    BY <1>2, LifecycleAssumption, HalfSize, asked \in Nat \ {0} DEF InitFails, GoesOn
  <1>3. CASE WriterCalls
    BY <1>3 DEF WriterCalls
  <1>4. CASE CallbackLocks
    BY <1>4 DEF CallbackLocks
  <1>5. CASE CallbackReturns
    BY <1>5 DEF CallbackReturns
  <1>6. ASSUME NEW t \in Threads, InitOk(t) PROVE LifeInv'
    BY <1>6 DEF InitOk
  <1>7. ASSUME NEW t \in Threads, NEW u \in Threads, CloneTo(t, u) PROVE LifeInv'
    BY <1>7 DEF CloneTo
  <1>8. ASSUME NEW t \in Threads, CallC(t) \/ ReturnC(t) PROVE LifeInv'
    BY <1>8, HolderMoves DEF CallC, ReturnC, Move
  <1>9. ASSUME NEW t \in Threads, LockMap(t) PROVE LifeInv'
    BY <1>9, HolderMoves DEF LockMap, Move
  <1>10. ASSUME NEW t \in Threads, UnlockMap(t) PROVE LifeInv'
    BY <1>10, HolderMoves DEF UnlockMap, Move
  <1>11. ASSUME NEW t \in Threads, DropClone(t) PROVE LifeInv'
    <2>1. CASE Holders = {t}
      BY <1>11, <2>1 DEF DropClone, Move
    <2>2. CASE Holders # {t}
      BY <1>11, <2>2 DEF DropClone, Move
    <2> QED
      BY <2>1, <2>2
  <1>12. ASSUME NEW t \in Threads, Destroy(t) PROVE LifeInv'
    BY <1>12 DEF Destroy, Move
  <1>13. ASSUME NEW t \in Threads, FreeBox(t) PROVE LifeInv'
    BY <1>13 DEF FreeBox, Move
  <1>14. ASSUME NEW t \in Threads, BeginTxn(t) \/ EndTxn(t) \/ EndReturns(t) PROVE LifeInv'
    BY <1>14 DEF BeginTxn, EndTxn, EndReturns
  <1>15. CASE UNCHANGED vars
    BY <1>15 DEF vars
  <1> QED
    BY <1>1, <1>2, <1>3, <1>4, <1>5, <1>6, <1>7, <1>8, <1>9, <1>10, <1>11,
       <1>12, <1>13, <1>14, <1>15 DEF Next, Writer, Thread, WithClone

\* Every variable of the handle's life keeps to its type.
THEOREM LifecycleTypeCorrect == Spec => []LifecycleTypeOK
  <1>1. LifecycleTypeOK /\ LifeInv /\ [Next]_vars => (LifecycleTypeOK /\ LifeInv)'
    BY TypeStep, LifeInvStep
  <1> QED
    BY LifeInit, <1>1, PTL DEF Spec

\* For any number of threads: whoever holds a clone, in a call through it or
\* between calls, has a running database, and one thread at most closes it.
THEOREM CloneKeepsDatabaseOpen == Spec => []ClonesKeepOpen
  <1>1. LifecycleTypeOK /\ LifeInv => ClonesKeepOpen
    <2> SUFFICES ASSUME LifecycleTypeOK, LifeInv PROVE ClonesKeepOpen
      OBVIOUS
    <2> DEFINE Closing == {t \in Threads : at[t] \in {"destroying", "freeing"}}
    <2>1. Cardinality(Closing) <= 1
      <3>1. CASE Closing = {}
        BY <3>1, FS_EmptySet
      <3>2. ASSUME NEW t \in Closing PROVE Cardinality(Closing) <= 1
        <4>1. ASSUME NEW u \in Closing PROVE u = t
          <5>1. at[t] \in {"destroying", "freeing"} /\ at[u] # "none"
            BY <3>2, <4>1
          <5> QED
            BY <5>1 DEF LifeInv
        <4>2. Closing = {t}
          BY <3>2, <4>1
        <4>3. Cardinality({t}) = 1
          BY FS_Singleton
        <4> HIDE DEF Closing
        <4> QED
          BY <4>2, <4>3
      <3> QED
        BY <3>1, <3>2
    <2> QED
      BY <2>1 DEF ClonesKeepOpen, LifeInv
  <1>2. LifecycleTypeOK /\ LifeInv /\ [Next]_vars => (LifecycleTypeOK /\ LifeInv)'
    BY TypeStep, LifeInvStep
  <1> QED
    BY LifeInit, <1>1, <1>2, PTL DEF Spec

\* The writer never runs a closure whose box has been freed.
THEOREM WriterFindsBox == Spec => []CallbackFindsBox
  <1>1. LifeInv => CallbackFindsBox
    BY DEF LifeInv, CallbackFindsBox
  <1>2. LifecycleTypeOK /\ LifeInv /\ [Next]_vars => (LifecycleTypeOK /\ LifeInv)'
    BY TypeStep, LifeInvStep
  <1> QED
    BY LifeInit, <1>1, <1>2, PTL DEF Spec

-----------------------------------------------------------------------------
(* The retry loop.  Induction over sizes goes by the least counterexample: *)
(* the library's induction theorems take an operator, WFMin takes a set.   *)

Below == {p \in Nat \X Nat : p[1] < p[2]}

LEMMA BelowWellFounded == IsWellFoundedOn(Below, Nat)
  BY NatLessThanWellFounded DEF OpToRel, Below

\* What halving can get to from n, stated without recursion.
Reached(n) ==
    {m \in Nat : \A T \in SUBSET Nat : n \in T /\ (\A k \in T : k \div 2 \in T) => m \in T}

LEMMA ReachedNext ==
    ASSUME NEW n \in Nat
    PROVE  Reached(n) = {n} \cup Reached(n \div 2)
  <1>1. n \div 2 \in Nat
    OBVIOUS
  <1>2. n \in Reached(n)
    BY DEF Reached
  <1>3. ASSUME NEW m \in Reached(n \div 2) PROVE m \in Reached(n)
    BY <1>3 DEF Reached
  <1>4. ASSUME NEW m \in Reached(n) PROVE m \in {n} \cup Reached(n \div 2)
    <2> DEFINE T == {n} \cup Reached(n \div 2)
    <2>1. T \in SUBSET Nat /\ n \in T
      BY DEF Reached
    <2>2. ASSUME NEW k \in T PROVE k \div 2 \in T
      <3>1. CASE k = n
        BY <3>1, <1>1 DEF Reached
      <3>2. CASE k \in Reached(n \div 2)
        <4>1. k \div 2 \in Nat
          BY <3>2 DEF Reached
        <4>2. QED
          BY <3>2, <4>1 DEF Reached
      <3> QED
        BY <3>1, <3>2
    <2> HIDE DEF T
    <2>3. m \in T
      BY <1>4, <2>1, <2>2 DEF Reached
    <2> QED
      BY <2>3 DEF T
  <1> QED
    BY <1>2, <1>3, <1>4

LEMMA ReachedIsSmaller ==
    ASSUME NEW n \in Nat
    PROVE  Reached(n) \subseteq 0..n
  <1>1. 0..n \in SUBSET Nat /\ n \in 0..n
    OBVIOUS
  <1>2. \A k \in 0..n : k \div 2 \in 0..n
    BY HalfSize
  <1> QED
    BY <1>1, <1>2 DEF Reached

\* The recursive definition of Halves has a solution, so that its equation holds.
LEMMA HalvesDef ==
    ASSUME NEW n \in Nat
    PROVE  Halves[n] = IF n > MinMapSize THEN {n} \cup Halves[n \div 2] ELSE {}
  <1> DEFINE H(h) == [size \in Nat |->
                        IF size > MinMapSize THEN {size} \cup h[size \div 2] ELSE {}]
             h0 == [size \in Nat |-> {m \in Reached(size) : m > MinMapSize}]
  <1>1. Halves = CHOOSE h : h = H(h)
    BY DEF Halves
  <1>2. h0 = H(h0)
    <2>1. ASSUME NEW size \in Nat PROVE h0[size] = H(h0)[size]
      <3>1. size \div 2 \in Nat
        OBVIOUS
      <3>2. CASE size > MinMapSize
        BY <3>1, <3>2, ReachedNext
      <3>3. CASE ~ (size > MinMapSize)
        <4>1. \A m \in Reached(size) : ~ (m > MinMapSize)
          BY <3>3, ReachedIsSmaller, LifecycleAssumption
        <4> QED
          BY <3>3, <4>1
      <3> QED
        BY <3>2, <3>3
    <2> QED
      BY <2>1
  <1> HIDE DEF H, h0
  <1>3. Halves = H(Halves)
    BY <1>1, <1>2
  <1> QED
    BY <1>3 DEF H

\* The halves of a size are no larger than it.
LEMMA HalvesAreSmaller ==
    ASSUME NEW n \in Nat
    PROVE  Halves[n] \subseteq 0..n
  <1> DEFINE Bad == {k \in Nat : ~ (Halves[k] \subseteq 0..k)}
  <1>1. SUFFICES ASSUME Bad # {} PROVE FALSE
    OBVIOUS
  <1>2. PICK k \in Bad : \A j \in Bad : ~ (<<j, k>> \in Below)
    <2>1. Bad \subseteq Nat
      OBVIOUS
    <2> HIDE DEF Bad
    <2> QED
      BY <1>1, <2>1, BelowWellFounded, WFMin
  <1>3. k > MinMapSize /\ Halves[k] = {k} \cup Halves[k \div 2]
    BY HalvesDef
  <1>4. k \div 2 \in Nat /\ k \div 2 < k
    BY <1>3, LifecycleAssumption
  <1>5. <<k \div 2, k>> \in Below
    BY <1>4 DEF Below
  <1>6. Halves[k \div 2] \subseteq 0..(k \div 2)
    BY <1>2, <1>4, <1>5
  <1>7. 0..(k \div 2) \subseteq 0..k /\ k \in 0..k
    BY <1>4
  <1> QED
    BY <1>3, <1>6, <1>7

\* While Ndb::new tries, what is left to try is mapsize and its halves, and
\* nothing it has tried fits.
OpenInv ==
    /\ opening = "start" => mapsize = asked /\ tried = {}
    /\ opening = "try" =>
        /\ Sizes(asked) = tried \cup Sizes(mapsize)
        /\ \A size \in tried : size > fits
    /\ OpensIfItCan

LEMMA OpenStep == LifecycleTypeOK /\ OpenInv /\ [Next]_vars => OpenInv'
  <1> SUFFICES ASSUME LifecycleTypeOK, OpenInv, [Next]_vars PROVE OpenInv'
    OBVIOUS
  <1>1. mapsize \in Nat /\ mapsize \div 2 \in Nat /\ fits \in Nat
    BY LifecycleAssumption DEF LifecycleTypeOK
  <1>2. CASE New
    BY <1>2 DEF New, OpenInv, OpensIfItCan
  <1>3. CASE InitFails
    <2>1. /\ opening = "try" /\ mapsize > fits /\ tried' = tried \cup {mapsize}
          /\ mapsize' = mapsize \div 2 /\ asked' = asked /\ fits' = fits
          /\ opening' = IF mapsize \div 2 > MinMapSize THEN "try" ELSE "failed"
      BY <1>3 DEF InitFails, GoesOn
    <2>2. /\ Sizes(asked) = tried' \cup Halves[mapsize \div 2]
          /\ \A size \in tried' : size > fits
      BY <2>1 DEF OpenInv, Sizes
    <2>3. CASE mapsize \div 2 > MinMapSize
      <3>1. Halves[mapsize \div 2] = Sizes(mapsize')
        BY <1>1, <2>1, <2>3, HalvesDef DEF Sizes
      <3> QED
        BY <2>1, <2>2, <2>3, <3>1 DEF OpenInv, OpensIfItCan
    <2>4. CASE ~ (mapsize \div 2 > MinMapSize)
      <3>1. Halves[mapsize \div 2] = {}
        BY <1>1, <2>4, HalvesDef
      <3> QED
        BY <2>1, <2>2, <2>4, <3>1 DEF OpenInv, OpensIfItCan
    <2> QED
      BY <2>3, <2>4
  <1>4. ASSUME NEW t \in Threads, InitOk(t) PROVE OpenInv'
    <2>1. /\ opening = "try" /\ mapsize <= fits /\ opening' = "opened"
          /\ tried' = tried \cup {mapsize} /\ UNCHANGED <<asked, mapsize, fits>>
      BY <1>4 DEF InitOk
    <2>2. Sizes(asked) = tried \cup Sizes(mapsize) /\ \A size \in tried : size > fits
      BY <2>1 DEF OpenInv
    <2>3. \A size \in Sizes(mapsize) : size \in Nat /\ size <= mapsize
      <3>1. Halves[mapsize \div 2] \subseteq 0..(mapsize \div 2) /\ mapsize \div 2 <= mapsize
        BY <1>1, HalvesAreSmaller
      <3> QED
        BY <1>1, <3>1 DEF Sizes
    <2>4. tried' \subseteq Sizes(asked)
      BY <2>1, <2>2 DEF Sizes
    <2>5. \A size \in tried : size \in Nat
      BY LifecycleAssumption DEF LifecycleTypeOK
    <2>6. \A size \in Sizes(asked) : size <= fits <=> size <= mapsize
      BY <1>1, <2>1, <2>2, <2>3, <2>5
    <2> QED
      BY <2>1, <2>4, <2>6 DEF OpenInv, OpensIfItCan
  <1>5. CASE UNCHANGED openVars
    BY <1>5 DEF openVars, OpenInv, OpensIfItCan
  <1>6. ASSUME NEW t \in Threads, Thread(t), ~ InitOk(t) PROVE UNCHANGED openVars
    BY <1>6 DEF Thread, WithClone, CloneTo, CallC, ReturnC, BeginTxn, EndTxn, EndReturns,
                LockMap, UnlockMap, DropClone, Destroy, FreeBox
  <1>7. CASE Writer
    BY <1>7, <1>5 DEF Writer, WriterCalls, CallbackLocks, CallbackReturns
  <1> QED
    BY <1>2, <1>3, <1>4, <1>5, <1>6, <1>7 DEF Next, vars

\* Whatever the configured size, the minimum and the largest size that fits:
\* Ndb::new opens with the first of its sizes that does, and fails only when
\* none does.
THEOREM OpensWhenItCan == Spec => []OpensIfItCan
  <1>1. Init => OpenInv
    BY DEF Init, OpenInv, OpensIfItCan
  <1>2. OpenInv => OpensIfItCan
    BY DEF OpenInv
  <1> QED
    BY <1>1, <1>2, OpenStep, LifecycleTypeCorrect, PTL DEF Spec
=============================================================================
