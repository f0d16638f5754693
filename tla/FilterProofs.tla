---------------------------- MODULE FilterProofs ----------------------------
(***************************************************************************)
(* Proofs about Filters and FilterMemory.                                  *)
(*                                                                         *)
(* Filters, for any elements, types, capacities and number of fields: what *)
(* is set in a filter is what is read, the setters change nothing else and *)
(* do not panic on what they can read and copy.  The proofs rest on what a *)
(* copy holds (CopyHolds, CopyTwice, SoundCopy), shown by induction over   *)
(* the fields, and on the invariant FieldInv: the open field is one that   *)
(* may be ended, and what was asked for is all that a field holds.         *)
(*                                                                         *)
(* FilterMemory, for any number of builders, filters and closures: nothing *)
(* is freed twice, nothing a live filter uses is freed, and no closure     *)
(* leaks but the known ones.  They are about builders that are built once: *)
(* BufferInv says that no two owners share their buffers.                  *)
(***************************************************************************)
EXTENDS Filters, FilterMemory, FiniteSetTheorems, TLAPS

-----------------------------------------------------------------------------
(* Induction over the fields of a filter, by the least counterexample: the *)
(* library's induction theorems take an operator, WFMin takes a set.       *)

Below == {p \in Nat \X Nat : p[1] < p[2]}

LEMMA BelowWellFounded == IsWellFoundedOn(Below, Nat)
  BY NatLessThanWellFounded DEF OpToRel, Below

LEMMA UpTo ==
    ASSUME NEW m \in Nat, NEW T, 0 \in T,
           \A n \in 1..m : n - 1 \in T => n \in T
    PROVE  0..m \subseteq T
  <1>1. SUFFICES ASSUME (0..m) \ T # {} PROVE FALSE
    OBVIOUS
  <1>2. PICK n \in (0..m) \ T : \A k \in (0..m) \ T : ~ (<<k, n>> \in Below)
    <2>1. (0..m) \ T \subseteq Nat
      OBVIOUS
    <2> QED
      BY <1>1, <2>1, BelowWellFounded, WFMin
  <1>3. n \in 1..m /\ n - 1 \in 0..m
    BY <1>2
  <1>4. <<n - 1, n>> \in Below
    BY <1>3 DEF Below
  <1>5. n - 1 \in T
    BY <1>2, <1>3, <1>4
  <1> QED
    BY <1>2, <1>3, <1>5

-----------------------------------------------------------------------------
(* Copies and Used                                                         *)

FieldSet == [type : Types, elems : Seq(Elements)]

CopyStep(copies, f, omitted) ==
    IF f.type \in omitted THEN copies ELSE Append(copies, Copied(f))

\* The equations of Copies, as far as m.
CopyEq(fs, omitted, m, g) ==
    g[0] = <<>> /\ \A n \in 1..m : g[n] = CopyStep(g[n - 1], fs[n], omitted)

SumEq(fs, m, g) ==
    g[0] = 0 /\ \A n \in 1..m : g[n] = g[n - 1] + Len(fs[n].elems)

\* Two functions that satisfy the equations as far as m agree as far as m.
LEMMA CopyUnique ==
    ASSUME NEW fs, NEW omitted, NEW m \in Nat, NEW g, NEW h,
           CopyEq(fs, omitted, m, g), CopyEq(fs, omitted, m, h)
    PROVE  \A n \in 0..m : g[n] = h[n]
  <1> DEFINE T == {n \in 0..m : g[n] = h[n]}
  <1>1. 0 \in T
    BY DEF CopyEq
  <1>2. ASSUME NEW n \in 1..m, n - 1 \in T PROVE n \in T
    BY <1>2 DEF CopyEq
  <1>3. 0..m \subseteq T
    <2> HIDE DEF T
    <2> QED
      BY <1>1, <1>2, UpTo
  <1> QED
    BY <1>3

LEMMA CopyExists ==
    ASSUME NEW fs, NEW omitted, NEW l \in Nat
    PROVE  \E g : g = [n \in 0..l |-> g[n]] /\ CopyEq(fs, omitted, l, g)
  <1> DEFINE P(m, g) == g = [n \in 0..m |-> g[n]] /\ CopyEq(fs, omitted, m, g)
             T == {m \in 0..l : \E g : P(m, g)}
  <1>1. 0 \in T
    <2>1. P(0, [n \in 0..0 |-> <<>>])
      BY DEF CopyEq
    <2> QED
      BY <2>1
  <1>2. ASSUME NEW m \in 1..l, m - 1 \in T PROVE m \in T
    <2>1. PICK g : P(m - 1, g)
      BY <1>2
    <2> DEFINE h == [n \in 0..m |-> IF n = m THEN CopyStep(g[m - 1], fs[m], omitted) ELSE g[n]]
    <2>2. h[0] = <<>>
      BY <2>1 DEF CopyEq
    <2>3. ASSUME NEW n \in 1..m PROVE h[n] = CopyStep(h[n - 1], fs[n], omitted)
      <3>1. CASE n = m
        BY <3>1
      <3>2. CASE n # m
        <4>1. n \in 1..(m - 1) /\ n - 1 \in 0..m /\ n - 1 # m
          BY <3>2
        <4>2. h[n] = g[n] /\ h[n - 1] = g[n - 1]
          BY <4>1
        <4> QED
          BY <4>1, <4>2, <2>1 DEF CopyEq
      <3> QED
        BY <3>1, <3>2
    <2>4. P(m, h)
      BY <2>2, <2>3 DEF CopyEq
    <2> QED
      BY <2>4
  <1>3. 0..l \subseteq T
    <2> HIDE DEF T
    <2> QED
      BY <1>1, <1>2, UpTo
  <1> QED
    BY <1>3

\* Copies satisfies its equations.
LEMMA CopiesDef ==
    ASSUME NEW fs, NEW omitted, Len(fs) \in Nat
    PROVE  CopyEq(fs, omitted, Len(fs), Copies(fs, omitted))
  <1> DEFINE F(g) == [n \in 0..Len(fs) |->
                        IF n = 0 THEN <<>>
                        ELSE IF fs[n].type \in omitted THEN g[n - 1]
                        ELSE Append(g[n - 1], Copied(fs[n]))]
  <1>1. Copies(fs, omitted) = CHOOSE g : g = F(g)
    BY DEF Copies
  <1>2. PICK g : g = [n \in 0..Len(fs) |-> g[n]] /\ CopyEq(fs, omitted, Len(fs), g)
    BY CopyExists
  <1>3. g = F(g)
    <2>1. ASSUME NEW n \in 0..Len(fs) PROVE g[n] = F(g)[n]
      <3>1. CASE n = 0
        BY <3>1, <1>2 DEF CopyEq
      <3>2. CASE n # 0
        <4>1. n \in 1..Len(fs)
          BY <3>2
        <4> QED
          BY <4>1, <1>2 DEF CopyEq, CopyStep
      <3> QED
        BY <3>1, <3>2
    <2> QED
      BY <1>2, <2>1
  <1> HIDE DEF F
  <1>4. Copies(fs, omitted) = F(Copies(fs, omitted))
    BY <1>1, <1>3
  <1> DEFINE K == Copies(fs, omitted)
  <1>5. K[0] = <<>>
    BY <1>4 DEF F
  <1>6. ASSUME NEW n \in 1..Len(fs) PROVE K[n] = CopyStep(K[n - 1], fs[n], omitted)
    <2>1. n \in 0..Len(fs) /\ n # 0
      OBVIOUS
    <2> QED
      BY <1>4, <2>1 DEF F, CopyStep
  <1> QED
    BY <1>5, <1>6 DEF CopyEq

\* The same for UsedBy.
LEMMA SumUnique ==
    ASSUME NEW fs, NEW m \in Nat, NEW g, NEW h, SumEq(fs, m, g), SumEq(fs, m, h)
    PROVE  \A n \in 0..m : g[n] = h[n]
  <1> DEFINE T == {n \in 0..m : g[n] = h[n]}
  <1>1. 0 \in T
    BY DEF SumEq
  <1>2. ASSUME NEW n \in 1..m, n - 1 \in T PROVE n \in T
    BY <1>2 DEF SumEq
  <1>3. 0..m \subseteq T
    <2> HIDE DEF T
    <2> QED
      BY <1>1, <1>2, UpTo
  <1> QED
    BY <1>3

LEMMA SumExists ==
    ASSUME NEW fs, NEW l \in Nat
    PROVE  \E g : g = [n \in 0..l |-> g[n]] /\ SumEq(fs, l, g)
  <1> DEFINE P(m, g) == g = [n \in 0..m |-> g[n]] /\ SumEq(fs, m, g)
             T == {m \in 0..l : \E g : P(m, g)}
  <1>1. 0 \in T
    <2>1. P(0, [n \in 0..0 |-> 0])
      BY DEF SumEq
    <2> QED
      BY <2>1
  <1>2. ASSUME NEW m \in 1..l, m - 1 \in T PROVE m \in T
    <2>1. PICK g : P(m - 1, g)
      BY <1>2
    <2> DEFINE h == [n \in 0..m |-> IF n = m THEN g[m - 1] + Len(fs[m].elems) ELSE g[n]]
    <2>2. h[0] = 0
      BY <2>1 DEF SumEq
    <2>3. ASSUME NEW n \in 1..m PROVE h[n] = h[n - 1] + Len(fs[n].elems)
      <3>1. CASE n = m
        BY <3>1
      <3>2. CASE n # m
        <4>1. n \in 1..(m - 1) /\ n - 1 \in 0..m /\ n - 1 # m
          BY <3>2
        <4>2. h[n] = g[n] /\ h[n - 1] = g[n - 1]
          BY <4>1
        <4> QED
          BY <4>1, <4>2, <2>1 DEF SumEq
      <3> QED
        BY <3>1, <3>2
    <2>4. P(m, h)
      BY <2>2, <2>3 DEF SumEq
    <2> QED
      BY <2>4
  <1>3. 0..l \subseteq T
    <2> HIDE DEF T
    <2> QED
      BY <1>1, <1>2, UpTo
  <1> QED
    BY <1>3

LEMMA UsedByDef ==
    ASSUME NEW fs, Len(fs) \in Nat
    PROVE  SumEq(fs, Len(fs), UsedBy(fs))
  <1> DEFINE F(g) == [n \in 0..Len(fs) |-> IF n = 0 THEN 0 ELSE g[n - 1] + Len(fs[n].elems)]
  <1>1. UsedBy(fs) = CHOOSE g : g = F(g)
    BY DEF UsedBy
  <1>2. PICK g : g = [n \in 0..Len(fs) |-> g[n]] /\ SumEq(fs, Len(fs), g)
    BY SumExists
  <1>3. g = F(g)
    <2>1. ASSUME NEW n \in 0..Len(fs) PROVE g[n] = F(g)[n]
      <3>1. CASE n = 0
        BY <3>1, <1>2 DEF SumEq
      <3>2. CASE n # 0
        <4>1. n \in 1..Len(fs)
          BY <3>2
        <4> QED
          BY <4>1, <1>2 DEF SumEq
      <3> QED
        BY <3>1, <3>2
    <2> QED
      BY <1>2, <2>1
  <1> HIDE DEF F
  <1>4. UsedBy(fs) = F(UsedBy(fs))
    BY <1>1, <1>3
  <1>5. UsedBy(fs)[0] = 0
    BY <1>4 DEF F
  <1>6. ASSUME NEW n \in 1..Len(fs) PROVE UsedBy(fs)[n] = UsedBy(fs)[n - 1] + Len(fs[n].elems)
    <2>1. n \in 0..Len(fs) /\ n # 0
      OBVIOUS
    <2> QED
      BY <1>4, <2>1 DEF F
  <1> QED
    BY <1>5, <1>6 DEF SumEq

-----------------------------------------------------------------------------
(* Copies and Used, field by field                                         *)

\* Induction over sequences, for a set of them.
LEMMA SeqInduction ==
    ASSUME NEW S, NEW T, <<>> \in T,
           \A s \in Seq(S) : \A x \in S : s \in T => Append(s, x) \in T
    PROVE  Seq(S) \subseteq T
  <1> SUFFICES ASSUME NEW t \in Seq(S) PROVE t \in T
    OBVIOUS
  <1> DEFINE U == {n \in 0..Len(t) : [i \in 1..n |-> t[i]] \in T}
  <1>1. 0 \in U
    <2>1. [i \in 1..0 |-> t[i]] = <<>>
      OBVIOUS
    <2> QED
      BY <2>1
  <1>2. ASSUME NEW n \in 1..Len(t), n - 1 \in U PROVE n \in U
    <2> DEFINE s == [i \in 1..(n - 1) |-> t[i]]
    <2>1. s \in Seq(S) /\ Len(s) = n - 1 /\ t[n] \in S
      OBVIOUS
    <2>2. [i \in 1..n |-> t[i]] = Append(s, t[n])
      BY <2>1
    <2>3. Append(s, t[n]) \in T
      <3> HIDE DEF s
      <3>1. s \in T
        BY <1>2 DEF s
      <3> QED
        BY <3>1, <2>1
    <2>4. n \in 0..Len(t)
      OBVIOUS
    <2> HIDE DEF s
    <2> QED
      BY <2>2, <2>3, <2>4
  <1>3. 0..Len(t) \subseteq U
    <2>1. Len(t) \in Nat
      OBVIOUS
    <2> HIDE DEF U
    <2> QED
      BY <1>1, <1>2, <2>1, UpTo
  <1>4. [i \in 1..Len(t) |-> t[i]] = t
    OBVIOUS
  <1> QED
    BY <1>3, <1>4

CopyOf(fs, omitted) == Copies(fs, omitted)[Len(fs)]

LEMMA CopyEmpty ==
    ASSUME NEW omitted
    PROVE  CopyOf(<<>>, omitted) = <<>>
  BY CopiesDef DEF CopyEq, CopyOf

LEMMA CopyAppend ==
    ASSUME NEW S, NEW fs \in Seq(S), NEW f \in S, NEW omitted
    PROVE  CopyOf(Append(fs, f), omitted) = CopyStep(CopyOf(fs, omitted), f, omitted)
  <1> DEFINE l == Len(fs)
             gs == Append(fs, f)
  <1>1. l \in Nat /\ Len(gs) = l + 1 /\ gs[l + 1] = f /\ \A n \in 1..l : gs[n] = fs[n]
    OBVIOUS
  <1>2. CopyEq(gs, omitted, l + 1, Copies(gs, omitted))
    <2>1. CopyEq(gs, omitted, Len(gs), Copies(gs, omitted))
      <3>1. Len(gs) \in Nat
        OBVIOUS
      <3> HIDE DEF gs
      <3> QED
        BY <3>1, CopiesDef
    <2> QED
      BY <1>1, <2>1
  <1>3. CopyEq(fs, omitted, l, Copies(fs, omitted))
    BY <1>1, CopiesDef
  <1> HIDE DEF l, gs
  <1>4. CopyEq(fs, omitted, l, Copies(gs, omitted))
    <2>1. \A n \in 1..l : n \in 1..(l + 1) /\ gs[n] = fs[n]
      BY <1>1
    <2> QED
      BY <1>2, <2>1 DEF CopyEq
  <1>5. Copies(gs, omitted)[l] = Copies(fs, omitted)[l]
    <2>1. l \in 0..l
      BY <1>1
    <2> QED
      BY <1>1, <1>3, <1>4, <2>1, CopyUnique
  <1>6. Copies(gs, omitted)[l + 1] = CopyStep(Copies(gs, omitted)[l], f, omitted)
    <2>1. l + 1 \in 1..(l + 1) /\ (l + 1) - 1 = l
      BY <1>1
    <2> QED
      BY <1>1, <1>2, <2>1 DEF CopyEq
  <1> QED
    BY <1>1, <1>5, <1>6 DEF CopyOf, l, gs

LEMMA UsedEmpty == Used(<<>>) = 0
  BY UsedByDef DEF SumEq, Used

LEMMA UsedAppend ==
    ASSUME NEW S, NEW fs \in Seq(S), NEW f \in S
    PROVE  Used(Append(fs, f)) = Used(fs) + Len(f.elems)
  <1> DEFINE l == Len(fs)
             gs == Append(fs, f)
  <1>1. l \in Nat /\ Len(gs) = l + 1 /\ gs[l + 1] = f /\ \A n \in 1..l : gs[n] = fs[n]
    OBVIOUS
  <1>2. SumEq(gs, l + 1, UsedBy(gs))
    <2>1. SumEq(gs, Len(gs), UsedBy(gs))
      <3>1. Len(gs) \in Nat
        OBVIOUS
      <3> HIDE DEF gs
      <3> QED
        BY <3>1, UsedByDef
    <2> QED
      BY <1>1, <2>1
  <1>3. SumEq(fs, l, UsedBy(fs))
    BY <1>1, UsedByDef
  <1> HIDE DEF l, gs
  <1>4. SumEq(fs, l, UsedBy(gs))
    <2>1. \A n \in 1..l : n \in 1..(l + 1) /\ gs[n] = fs[n]
      BY <1>1
    <2> QED
      BY <1>2, <2>1 DEF SumEq
  <1>5. UsedBy(gs)[l] = UsedBy(fs)[l]
    <2>1. l \in 0..l
      BY <1>1
    <2> QED
      BY <1>1, <1>3, <1>4, <2>1, SumUnique
  <1>6. UsedBy(gs)[l + 1] = UsedBy(gs)[l] + Len(f.elems)
    <2>1. l + 1 \in 1..(l + 1) /\ (l + 1) - 1 = l
      BY <1>1
    <2> QED
      BY <1>1, <1>2, <2>1 DEF SumEq
  <1> QED
    BY <1>1, <1>5, <1>6 DEF Used, l, gs

-----------------------------------------------------------------------------
(* What a copy holds                                                       *)

LEMMA CopiedIsAField ==
    ASSUME NEW f \in FieldSet
    PROVE  /\ Copied(f) \in FieldSet /\ Copied(f).type = f.type
           /\ \A i \in DOMAIN Copied(f).elems :
                i \in DOMAIN f.elems /\ Copied(f).elems[i] = f.elems[i]
           /\ Len(Copied(f).elems) <= Len(f.elems)
           /\ Copied(Copied(f)) = Copied(f)
  BY DEF FieldSet, Copied, Field, First

\* A copy holds the fields that are not omitted, no others, and fits where the
\* filter fits.
LEMMA CopyHolds ==
    ASSUME NEW fs \in Seq(FieldSet), NEW omitted
    PROVE  /\ CopyOf(fs, omitted) \in Seq(FieldSet)
           /\ \A j \in DOMAIN CopyOf(fs, omitted) : \E i \in DOMAIN fs :
                fs[i].type \notin omitted /\ CopyOf(fs, omitted)[j] = Copied(fs[i])
           /\ \A i \in DOMAIN fs : fs[i].type \notin omitted =>
                \E j \in DOMAIN CopyOf(fs, omitted) : CopyOf(fs, omitted)[j] = Copied(fs[i])
           /\ Used(fs) \in Nat /\ Used(CopyOf(fs, omitted)) \in 0..Used(fs)
  <1> DEFINE Typed(s) == CopyOf(s, omitted) \in Seq(FieldSet)
             From(s) == \A j \in DOMAIN CopyOf(s, omitted) : \E i \in DOMAIN s :
                s[i].type \notin omitted /\ CopyOf(s, omitted)[j] = Copied(s[i])
             Onto(s) == \A i \in DOMAIN s : s[i].type \notin omitted =>
                \E j \in DOMAIN CopyOf(s, omitted) : CopyOf(s, omitted)[j] = Copied(s[i])
             Less(s) == Used(s) \in Nat /\ Used(CopyOf(s, omitted)) \in 0..Used(s)
             T == {s \in Seq(FieldSet) : Typed(s) /\ From(s) /\ Onto(s) /\ Less(s)}
  <1>1. <<>> \in T
    <2>1. CopyOf(<<>>, omitted) = <<>> /\ Used(<<>>) = 0
      BY CopyEmpty, UsedEmpty
    <2>2. <<>> \in Seq(FieldSet) /\ DOMAIN <<>> = {}
      OBVIOUS
    <2>3. Typed(<<>>)
      BY <2>1, <2>2
    <2>4. From(<<>>)
      BY <2>1, <2>2
    <2>5. Onto(<<>>)
      BY <2>2
    <2>6. Less(<<>>)
      BY <2>1
    <2> HIDE DEF Typed, From, Onto, Less
    <2> QED
      BY <2>2, <2>3, <2>4, <2>5, <2>6
  <1>2. ASSUME NEW s \in Seq(FieldSet), NEW f \in FieldSet, s \in T
        PROVE  Append(s, f) \in T
    <2> DEFINE K == CopyOf(s, omitted)
               L == CopyOf(Append(s, f), omitted)
    <2>1. K \in Seq(FieldSet) /\ Copied(f) \in FieldSet
      BY <1>2, CopiedIsAField
    <2>2. L = CopyStep(K, f, omitted)
      BY CopyAppend
    <2>3. Append(s, f) \in Seq(FieldSet) /\ Len(Append(s, f)) = Len(s) + 1
      OBVIOUS
    <2>4. Append(s, f)[Len(s) + 1] = f /\ \A i \in DOMAIN s :
            i \in DOMAIN Append(s, f) /\ Append(s, f)[i] = s[i]
      OBVIOUS
    <2>5. Used(Append(s, f)) = Used(s) + Len(f.elems) /\ Len(f.elems) \in Nat
      <3>1. Used(Append(s, f)) = Used(s) + Len(f.elems)
        BY UsedAppend
      <3>2. f.elems \in Seq(Elements)
        BY DEF FieldSet
      <3> QED
        BY <3>1, <3>2
    <2>6. From(s) /\ Onto(s) /\ Less(s)
      BY <1>2
    <2> HIDE DEF K, L
    <2>7. CASE f.type \in omitted
      <3>1. L = K
        BY <2>2, <2>7 DEF CopyStep
      <3>2. Typed(Append(s, f))
        BY <2>1, <3>1 DEF K, L
      <3>3. From(Append(s, f))
        BY <2>4, <2>6, <3>1 DEF K, L
      <3>4. Onto(Append(s, f))
        BY <2>3, <2>4, <2>6, <2>7, <3>1 DEF K, L
      <3>5. Less(Append(s, f))
        BY <2>5, <2>6, <3>1 DEF K, L
      <3> QED
        BY <2>3, <3>2, <3>3, <3>4, <3>5
    <2>8. CASE f.type \notin omitted
      <3>1. L = Append(K, Copied(f))
        BY <2>2, <2>8 DEF CopyStep
      <3>2. L \in Seq(FieldSet) /\ Len(L) = Len(K) + 1 /\ L[Len(K) + 1] = Copied(f)
            /\ \A j \in DOMAIN K : j \in DOMAIN L /\ L[j] = K[j]
        BY <2>1, <3>1
      <3>3. Typed(Append(s, f))
        BY <3>2 DEF L
      <3>4. From(Append(s, f))
        <4> SUFFICES ASSUME NEW j \in DOMAIN L
                     PROVE  \E i \in DOMAIN Append(s, f) :
                              /\ Append(s, f)[i].type \notin omitted
                              /\ L[j] = Copied(Append(s, f)[i])
          BY DEF L
        <4>1. CASE j \in DOMAIN K
          BY <4>1, <2>4, <2>6, <3>2 DEF K
        <4>2. CASE j \notin DOMAIN K
          <5>1. j = Len(K) + 1
            BY <4>2, <3>2, <2>1
          <5>2. Len(s) + 1 \in DOMAIN Append(s, f)
            BY <2>3
          <5> QED
            BY <5>1, <5>2, <2>4, <2>8, <3>2
        <4> QED
          BY <4>1, <4>2
      <3>5. Onto(Append(s, f))
        <4> SUFFICES ASSUME NEW i \in DOMAIN Append(s, f),
                            Append(s, f)[i].type \notin omitted
                     PROVE  \E j \in DOMAIN L : L[j] = Copied(Append(s, f)[i])
          BY DEF L
        <4>1. CASE i \in DOMAIN s
          BY <4>1, <2>4, <2>6, <3>2 DEF K
        <4>2. CASE i \notin DOMAIN s
          <5>1. i = Len(s) + 1
            BY <4>2, <2>3
          <5>2. Len(K) + 1 \in DOMAIN L
            BY <3>2, <2>1
          <5> QED
            BY <5>1, <5>2, <2>4, <3>2
        <4> QED
          BY <4>1, <4>2
      <3>6. Less(Append(s, f))
        <4>1. Used(L) = Used(K) + Len(Copied(f).elems)
          BY <2>1, <3>1, UsedAppend
        <4>2. Len(Copied(f).elems) \in 0..Len(f.elems)
          <5>1. Copied(f).elems \in Seq(Elements)
            BY <2>1 DEF FieldSet
          <5>2. Len(Copied(f).elems) \in Nat
            BY <5>1
          <5> QED
            BY <5>2, <2>5, CopiedIsAField
        <4>3. Used(s) \in Nat /\ Used(K) \in 0..Used(s)
          BY <2>6 DEF K
        <4> QED
          BY <2>5, <4>1, <4>2, <4>3 DEF L
      <3> QED
        BY <2>3, <3>3, <3>4, <3>5, <3>6
    <2> QED
      BY <2>7, <2>8
  <1>3. Seq(FieldSet) \subseteq T
    <2> HIDE DEF T
    <2> QED
      BY <1>1, <1>2, SeqInduction
  <1> QED
    BY <1>3

\* What a type reads in a copy is what it reads in the filter.
LEMMA CopyTwice ==
    ASSUME NEW fs \in Seq(FieldSet), NEW some, NEW more, some \subseteq more
    PROVE  CopyOf(CopyOf(fs, some), more) = CopyOf(fs, more)
  <1> DEFINE T == {s \in Seq(FieldSet) :
                     CopyOf(CopyOf(s, some), more) = CopyOf(s, more)}
  <1>1. <<>> \in T
    BY CopyEmpty
  <1>2. ASSUME NEW s \in Seq(FieldSet), NEW f \in FieldSet, s \in T
        PROVE  Append(s, f) \in T
    <2>1. CopyOf(Append(s, f), some) = CopyStep(CopyOf(s, some), f, some)
      BY CopyAppend
    <2>2. CopyOf(Append(s, f), more) = CopyStep(CopyOf(s, more), f, more)
      BY CopyAppend
    <2>3. CopyOf(s, some) \in Seq(FieldSet)
      BY CopyHolds
    <2>4. Append(s, f) \in Seq(FieldSet)
      OBVIOUS
    <2>5. CASE f.type \in some
      BY <1>2, <2>1, <2>2, <2>4, <2>5 DEF CopyStep
    <2>6. CASE f.type \notin some
      <3>1. Copied(f) \in FieldSet /\ Copied(f).type = f.type /\ Copied(Copied(f)) = Copied(f)
        BY CopiedIsAField
      <3>2. CopyOf(Append(CopyOf(s, some), Copied(f)), more) =
              CopyStep(CopyOf(CopyOf(s, some), more), Copied(f), more)
        BY <2>3, <3>1, CopyAppend
      <3>3. CopyStep(CopyOf(s, more), Copied(f), more) = CopyStep(CopyOf(s, more), f, more)
        BY <3>1 DEF CopyStep
      <3> QED
        BY <1>2, <2>1, <2>2, <2>4, <2>6, <3>2, <3>3 DEF CopyStep
    <2> QED
      BY <2>5, <2>6
  <1>3. Seq(FieldSet) \subseteq T
    <2> HIDE DEF T
    <2> QED
      BY <1>1, <1>2, SeqInduction
  <1> QED
    BY <1>3

-----------------------------------------------------------------------------
(* Putting since, until or limit                                           *)

LEMMA MinIsIn ==
    ASSUME NEW S, S \subseteq Nat, S # {}
    PROVE  Min(S) \in S
  <1>1. PICK n \in S : \A k \in S : ~ (<<k, n>> \in Below)
    BY BelowWellFounded, WFMin
  <1>2. ASSUME NEW k \in S PROVE n =< k
    <2>1. n \in Nat /\ k \in Nat
      OBVIOUS
    <2>2. k < n => <<k, n>> \in Below
      BY <2>1 DEF Below
    <2> QED
      BY <1>1, <2>1, <2>2
  <1> QED
    BY <1>2 DEF Min

\* The fields but those of one type read the same, where only they differ.
LEMMA CopySame ==
    ASSUME NEW fs \in Seq(FieldSet), NEW gs \in Seq(FieldSet), NEW omitted,
           Len(fs) = Len(gs),
           \A n \in DOMAIN fs : /\ fs[n].type = gs[n].type
                                /\ fs[n].type \notin omitted => fs[n] = gs[n]
    PROVE  CopyOf(fs, omitted) = CopyOf(gs, omitted)
  <1>1. Len(fs) \in Nat /\ DOMAIN fs = 1..Len(fs) /\ Len(fs) \in 0..Len(fs)
    OBVIOUS
  <1>2. CopyEq(fs, omitted, Len(fs), Copies(fs, omitted))
    BY <1>1, CopiesDef
  <1>3. CopyEq(gs, omitted, Len(fs), Copies(gs, omitted))
    BY <1>1, CopiesDef
  <1>4. CopyEq(fs, omitted, Len(fs), Copies(gs, omitted))
    BY <1>1, <1>3 DEF CopyEq, CopyStep
  <1>5. Copies(fs, omitted)[Len(fs)] = Copies(gs, omitted)[Len(fs)]
    <2>1. \A n \in 0..Len(fs) : Copies(fs, omitted)[n] = Copies(gs, omitted)[n]
      BY <1>1, <1>2, <1>4, CopyUnique
    <2> QED
      BY <1>1, <2>1
  <1> QED
    BY <1>5 DEF CopyOf

\* The fields a builder makes: their elements suit them and are of one kind,
\* and only tags occur twice.
SoundField(f) ==
    /\ \A j \in DOMAIN f.elems : f.elems[j] \in Suits(f.type)
    /\ OneKind(f.elems)

Unique(fs) ==
    \A i, k \in DOMAIN fs : fs[i].type = fs[k].type => i = k \/ fs[i].type = "tags"

SoundFields(fs) == Unique(fs) /\ \A i \in DOMAIN fs : SoundField(fs[i])

LEMMA SoundAppend ==
    ASSUME NEW fs \in Seq(FieldSet), NEW f \in FieldSet,
           SoundFields(fs), SoundField(f), CanStart(fs, f.type)
    PROVE  SoundFields(Append(fs, f))
  <1> DEFINE gs == Append(fs, f)
  <1>1. DOMAIN gs = 1..(Len(fs) + 1) /\ gs[Len(fs) + 1] = f
        /\ DOMAIN fs = 1..Len(fs) /\ Len(fs) \in Nat /\ \A i \in DOMAIN fs : gs[i] = fs[i]
    OBVIOUS
  <1> HIDE DEF gs
  <1>2. Unique(gs)
    <2>1. \A i \in DOMAIN fs : fs[i].type = f.type => f.type = "tags"
      BY DEF CanStart, HasField
    <2> QED
      BY <1>1, <2>1 DEF SoundFields, Unique
  <1>3. \A i \in DOMAIN gs : SoundField(gs[i])
    BY <1>1 DEF SoundFields
  <1> QED
    BY <1>2, <1>3 DEF SoundFields, gs

LEMMA SoundCopied ==
    ASSUME NEW f \in FieldSet, SoundField(f)
    PROVE  SoundField(Copied(f))
  BY CopiedIsAField DEF SoundField, OneKind

LEMMA SoundCopy ==
    ASSUME NEW fs \in Seq(FieldSet), SoundFields(fs), NEW omitted
    PROVE  SoundFields(CopyOf(fs, omitted))
  <1> DEFINE T == {s \in Seq(FieldSet) : Unique(s) => Unique(CopyOf(s, omitted))}
  <1>1. <<>> \in T
    BY CopyEmpty DEF Unique
  <1>2. ASSUME NEW s \in Seq(FieldSet), NEW f \in FieldSet, s \in T
        PROVE  Append(s, f) \in T
    <2> DEFINE K == CopyOf(s, omitted)
               gs == Append(s, f)
    <2>1. gs \in Seq(FieldSet) /\ DOMAIN gs = 1..(Len(s) + 1) /\ gs[Len(s) + 1] = f
          /\ DOMAIN s = 1..Len(s) /\ Len(s) \in Nat /\ \A i \in DOMAIN s : gs[i] = s[i]
      OBVIOUS
    <2>2. CopyOf(gs, omitted) = CopyStep(K, f, omitted)
      BY CopyAppend
    <2>3. K \in Seq(FieldSet) /\ \A j \in DOMAIN K : \E i \in DOMAIN s : K[j] = Copied(s[i])
      BY CopyHolds
    <2>4. ASSUME Unique(gs) PROVE Unique(CopyOf(gs, omitted))
      <3>0. Copied(f) \in FieldSet /\ Copied(f).type = f.type
        BY CopiedIsAField
      <3> HIDE DEF K, gs
      <3>1. Unique(s)
        BY <2>1, <2>4 DEF Unique
      <3>2. Unique(K)
        BY <1>2, <3>1 DEF K
      <3>3. ASSUME NEW i \in DOMAIN s, s[i].type = f.type PROVE f.type = "tags"
        BY <2>1, <2>4, <3>3 DEF Unique
      <3>4. ASSUME NEW j \in DOMAIN K, K[j].type = f.type PROVE f.type = "tags"
        <4>1. PICK i \in DOMAIN s : K[j] = Copied(s[i])
          BY <2>3
        <4>2. s[i] \in FieldSet
          OBVIOUS
        <4>3. s[i].type = f.type
          BY <3>4, <4>1, <4>2, CopiedIsAField
        <4> QED
          BY <3>3, <4>3
      <3>5. CASE f.type \in omitted
        BY <2>2, <3>2, <3>5 DEF CopyStep
      <3>6. CASE f.type \notin omitted
        <4> DEFINE L == Append(K, Copied(f))
        <4>1. DOMAIN L = 1..(Len(K) + 1) /\ L[Len(K) + 1] = Copied(f)
              /\ DOMAIN K = 1..Len(K) /\ Len(K) \in Nat /\ \A i \in DOMAIN K : L[i] = K[i]
          BY <2>3, <3>0
        <4>2. CopyOf(gs, omitted) = L
          BY <2>2, <3>6 DEF CopyStep
        <4> HIDE DEF L
        <4>3. Unique(L)
          BY <3>0, <3>2, <3>4, <4>1 DEF Unique
        <4> QED
          BY <4>2, <4>3
      <3> QED
        BY <3>5, <3>6
    <2> QED
      BY <2>1, <2>4
  <1>3. Seq(FieldSet) \subseteq T
    <2> HIDE DEF T
    <2> QED
      BY <1>1, <1>2, SeqInduction
  <1>4. Unique(CopyOf(fs, omitted))
    BY <1>3 DEF SoundFields
  <1>5. ASSUME NEW j \in DOMAIN CopyOf(fs, omitted) PROVE SoundField(CopyOf(fs, omitted)[j])
    <2>1. PICK i \in DOMAIN fs : CopyOf(fs, omitted)[j] = Copied(fs[i])
      BY CopyHolds
    <2>2. fs[i] \in FieldSet /\ SoundField(fs[i])
      BY DEF SoundFields
    <2> QED
      BY <2>1, <2>2, SoundCopied
  <1> QED
    BY <1>4, <1>5 DEF SoundFields

\* gs is fs with type set to v: sound, and nothing else has changed.
SetTo(fs, gs, type, v) ==
    /\ gs \in Seq(FieldSet) /\ SoundFields(gs)
    /\ \E i \in DOMAIN gs : gs[i].type = type /\ gs[i].elems = <<v>>
    /\ \A i \in DOMAIN fs : fs[i].type # type => \E j \in DOMAIN gs : gs[j] = fs[i]
    /\ CopyOf(gs, {type, "custom"}) = CopyOf(fs, {type, "custom"})

LEMMA OverwriteSets ==
    ASSUME NEW fs \in Seq(FieldSet), SoundFields(fs), NEW type \in Types \cap Single,
           NEW v \in Ints, Slots(fs, type) # {}
    PROVE  /\ SetTo(fs, Overwrite(fs, type, v), type, v)
           /\ \A ty : HasField(Overwrite(fs, type, v), ty) <=> HasField(fs, ty)
  <1> DEFINE m == Min(Slots(fs, type))
             gs == Overwrite(fs, type, v)
  <1>1. m \in DOMAIN fs /\ fs[m].type = type
    <2>1. Slots(fs, type) \subseteq Nat
      BY DEF Slots
    <2>2. m \in Slots(fs, type)
      BY <2>1, MinIsIn
    <2> QED
      BY <2>2 DEF Slots
  <1>2. gs = [fs EXCEPT ![m].elems = <<v>>]
    BY DEF Overwrite
  <1> HIDE DEF m, gs
  <1>3. <<v>> \in Seq(Elements) /\ Field(type, <<v>>) \in FieldSet
    BY DEF Elements, Field, FieldSet
  <1>4. DOMAIN gs = DOMAIN fs /\ gs[m] = Field(type, <<v>>)
        /\ \A i \in DOMAIN fs : i # m => gs[i] = fs[i]
    <2>1. fs[m] \in FieldSet
      BY <1>1
    <2>2. [fs[m] EXCEPT !.elems = <<v>>] = Field(type, <<v>>)
      BY <1>1, <2>1 DEF FieldSet, Field
    <2> QED
      BY <1>1, <1>2, <2>2
  <1>5. gs \in Seq(FieldSet) /\ Len(gs) = Len(fs)
    BY <1>1, <1>2, <1>3, <1>4
  <1>6. \A i \in DOMAIN fs : gs[i].type = fs[i].type
    BY <1>1, <1>4 DEF Field
  <1>7. SoundField(Field(type, <<v>>))
    BY DEF SoundField, Field, OneKind, Suits, Single
  <1>8. SoundFields(gs)
    <2>1. Unique(gs)
      BY <1>4, <1>6 DEF SoundFields, Unique
    <2>2. \A i \in DOMAIN gs : SoundField(gs[i])
      BY <1>4, <1>7 DEF SoundFields
    <2> QED
      BY <2>1, <2>2 DEF SoundFields
  <1>9. \A i \in DOMAIN fs : fs[i].type # type => \E j \in DOMAIN gs : gs[j] = fs[i]
    BY <1>1, <1>4
  <1>10. CopyOf(gs, {type, "custom"}) = CopyOf(fs, {type, "custom"})
    <2>1. \A n \in DOMAIN gs : /\ gs[n].type = fs[n].type
                               /\ gs[n].type \notin {type, "custom"} => gs[n] = fs[n]
      BY <1>1, <1>4, <1>6
    <2> QED
      BY <1>5, <2>1, CopySame
  <1>11. \E i \in DOMAIN gs : gs[i].type = type /\ gs[i].elems = <<v>>
    BY <1>1, <1>4 DEF Field
  <1>12. \A ty : HasField(gs, ty) <=> HasField(fs, ty)
    BY <1>4, <1>6 DEF HasField
  <1> QED
    BY <1>5, <1>8, <1>9, <1>10, <1>11, <1>12 DEF SetTo, gs

LEMMA AppendSets ==
    ASSUME NEW fs \in Seq(FieldSet), SoundFields(fs), NEW type \in Types \cap Single,
           NEW v \in Ints, CanStart(fs, type)
    PROVE  SetTo(fs, Append(fs, Field(type, <<v>>)), type, v)
  <1> DEFINE f == Field(type, <<v>>)
             gs == Append(fs, f)
  <1>1. f \in FieldSet /\ f.type = type /\ f.elems = <<v>>
    BY DEF Elements, Field, FieldSet
  <1>2. SoundField(f)
    BY DEF SoundField, Field, OneKind, Suits, Single
  <1> HIDE DEF f
  <1>3. gs \in Seq(FieldSet) /\ DOMAIN gs = 1..(Len(fs) + 1) /\ gs[Len(fs) + 1] = f
        /\ DOMAIN fs = 1..Len(fs) /\ Len(fs) \in Nat /\ \A i \in DOMAIN fs : gs[i] = fs[i]
    BY <1>1
  <1>4. SoundFields(gs)
    BY <1>1, <1>2, SoundAppend
  <1>5. CopyOf(gs, {type, "custom"}) = CopyOf(fs, {type, "custom"})
    <2>1. CopyOf(gs, {type, "custom"}) = CopyStep(CopyOf(fs, {type, "custom"}), f, {type, "custom"})
      BY <1>1, CopyAppend
    <2> QED
      BY <1>1, <2>1 DEF CopyStep
  <1> HIDE DEF gs
  <1>6. Len(fs) + 1 \in DOMAIN gs
    BY <1>3
  <1>7. \A i \in DOMAIN fs : i \in DOMAIN gs
    BY <1>3
  <1> QED
    BY <1>1, <1>3, <1>4, <1>5, <1>6, <1>7 DEF SetTo, gs, f

\* What since, until and limit do to fields fs when they do not panic.
LEMMA PutSets ==
    ASSUME NEW fs \in Seq(FieldSet), SoundFields(fs), NEW type \in Types \cap Single,
           NEW v \in Ints, NEW busy, NEW room, Put(fs, busy, type, v, room) # <<>>
    PROVE  /\ SetTo(fs, Put(fs, busy, type, v, room)[1], type, v)
           /\ busy => \A ty : HasField(Put(fs, busy, type, v, room)[1], ty) <=> HasField(fs, ty)
  <1>1. CASE Slots(fs, type) # {}
    <2>1. Put(fs, busy, type, v, room)[1] = Overwrite(fs, type, v)
      BY <1>1 DEF Put
    <2> QED
      BY <1>1, <2>1, OverwriteSets
  <1>2. CASE Slots(fs, type) = {}
    <2>1. ~busy /\ CanStart(fs, type)
      BY <1>2 DEF Put
    <2>2. Put(fs, busy, type, v, room)[1] = Append(fs, Field(type, <<v>>))
      BY <1>2 DEF Put
    <2> QED
      BY <2>1, <2>2, AppendSets
  <1> QED
    BY <1>1, <1>2

-----------------------------------------------------------------------------
(* The inductive invariant                                                 *)

Asked == {<<>>} \cup {<<v>> : v \in Ints}

VarsTyped ==
    /\ phase \in {"builder", "filter", "panicked"}
    /\ cap \in Caps
    /\ fields \in Seq(FieldSet)
    /\ asked \in [Single -> Asked]

\* The open field suits its type, and may be ended: no finished field has it.
OpenSound ==
    /\ open = <<>> \/ open = <<open[1]>>
    /\ open # <<>> => /\ open[1] \in FieldSet
                      /\ SoundField(open[1])
                      /\ CanStart(fields, open[1].type)
    /\ phase = "filter" => open = <<>>

\* What was asked for is all that a field of the type holds.
AskedHeld(fs, wanted) ==
    \A type \in Single : wanted[type] # <<>> =>
        \E i \in DOMAIN fs : fs[i].type = type /\ fs[i].elems = wanted[type]

FieldInv == VarsTyped /\ SoundFields(fields) /\ OpenSound /\ AskedHeld(fields, asked)

LEMMA FieldInitInv == FieldInit => FieldInv
  <1> SUFFICES ASSUME FieldInit PROVE FieldInv
    OBVIOUS
  <1> USE DEF FieldInit
  <1>1. VarsTyped
    BY DEF VarsTyped, Asked
  <1>2. SoundFields(fields)
    BY DEF SoundFields, Unique
  <1>3. OpenSound
    BY DEF OpenSound
  <1>4. AskedHeld(fields, asked)
    BY DEF AskedHeld
  <1> QED
    BY <1>1, <1>2, <1>3, <1>4 DEF FieldInv

LEMMA SuitsElements ==
    ASSUME NEW type \in Types
    PROVE  Suits(type) \subseteq Elements
  <1>1. type \in {"ids", "authors", "kinds", "since", "until", "limit",
                  "search", "relays", "tags", "custom"}
    BY FiltersAssumption
  <1> QED
    BY <1>1 DEF Suits, Elements, Single

LEMMA PanicKeeps == FieldInv /\ Panic => FieldInv'
  BY DEF FieldInv, Panic, VarsTyped, SoundFields, Unique, OpenSound, AskedHeld,
         CanStart, HasField

\* A finished field is added.
LEMMA GrowKeeps ==
    ASSUME FieldInv, NEW f \in FieldSet, SoundField(f), CanStart(fields, f.type),
           fields' = Append(fields, f), open' = <<>>,
           UNCHANGED <<phase, cap, asked>>
    PROVE  FieldInv'
  <1>1. fields' \in Seq(FieldSet)
        /\ \A i \in DOMAIN fields : i \in DOMAIN fields' /\ fields'[i] = fields[i]
    BY DEF FieldInv, VarsTyped
  <1>2. VarsTyped'
    BY <1>1 DEF FieldInv, VarsTyped
  <1>3. SoundFields(fields')
    BY SoundAppend DEF FieldInv, VarsTyped
  <1>4. OpenSound'
    BY DEF OpenSound
  <1>5. AskedHeld(fields', asked')
    BY <1>1 DEF FieldInv, AskedHeld
  <1> QED
    BY <1>2, <1>3, <1>4, <1>5 DEF FieldInv

\* since, until or limit is set to v in the fields fs, which are the fields or
\* a copy of them.
LEMMA SetKeeps ==
    ASSUME FieldInv, NEW fs, AskedHeld(fs, asked),
           NEW type \in Types \cap Single, NEW v \in Ints,
           SetTo(fs, fields', type, v),
           open # <<>> => \A ty : HasField(fields', ty) <=> HasField(fields, ty),
           asked' = [asked EXCEPT ![type] = <<v>>], UNCHANGED <<phase, open, cap>>
    PROVE  FieldInv'
  <1>1. VarsTyped'
    BY DEF FieldInv, VarsTyped, SetTo, Asked
  <1>2. SoundFields(fields')
    BY DEF SetTo
  <1>3. OpenSound'
    BY DEF FieldInv, OpenSound, CanStart
  <1>4. AskedHeld(fields', asked')
    <2> SUFFICES ASSUME NEW ty \in Single, asked'[ty] # <<>>
                 PROVE  \E i \in DOMAIN fields' :
                          fields'[i].type = ty /\ fields'[i].elems = asked'[ty]
      BY DEF AskedHeld
    <2>1. CASE ty = type
      BY <2>1 DEF FieldInv, VarsTyped, SetTo
    <2>2. CASE ty # type
      <3>1. asked'[ty] = asked[ty]
        BY <2>2 DEF FieldInv, VarsTyped
      <3>2. PICK i \in DOMAIN fs : fs[i].type = ty /\ fs[i].elems = asked[ty]
        BY <3>1 DEF AskedHeld
      <3>3. \E j \in DOMAIN fields' : fields'[j] = fs[i]
        BY <2>2, <3>2 DEF SetTo
      <3> QED
        BY <3>1, <3>2, <3>3
    <2> QED
      BY <2>1, <2>2
  <1> QED
    BY <1>1, <1>2, <1>3, <1>4 DEF FieldInv

\* A copy holds the numbers that were asked for.
LEMMA CopyHoldsAsked ==
    ASSUME FieldInv
    PROVE  AskedHeld(CopyFrom(fields), asked)
  <1> SUFFICES ASSUME NEW type \in Single, asked[type] # <<>>
               PROVE  \E j \in DOMAIN CopyFrom(fields) :
                        /\ CopyFrom(fields)[j].type = type
                        /\ CopyFrom(fields)[j].elems = asked[type]
    BY DEF AskedHeld
  <1>1. PICK i \in DOMAIN fields : fields[i].type = type /\ fields[i].elems = asked[type]
    BY DEF FieldInv, AskedHeld
  <1>2. fields \in Seq(FieldSet) /\ CopyFrom(fields) = CopyOf(fields, {"custom"})
    BY DEF FieldInv, VarsTyped, CopyFrom, CopyOf
  <1>3. PICK v \in Ints : asked[type] = <<v>>
    BY DEF FieldInv, VarsTyped, Asked
  <1>4. Copied(fields[i]).type = type /\ Copied(fields[i]).elems = asked[type]
    BY <1>1, <1>3 DEF Copied, Field, First
  <1>5. fields[i].type \notin {"custom"}
    BY <1>1 DEF Single
  <1> QED
    BY <1>2, <1>4, <1>5, CopyHolds

LEMMA OutcomeKeeps ==
    ASSUME FieldInv, NEW fs \in Seq(FieldSet), SoundFields(fs), AskedHeld(fs, asked),
           NEW type \in Types \cap Single, NEW v \in Ints, NEW busy, NEW room,
           open # <<>> => busy /\ fs = fields,
           Outcome(Put(fs, busy, type, v, room), type, v)
    PROVE  FieldInv'
  <1>1. CASE Put(fs, busy, type, v, room) = <<>>
    BY <1>1, PanicKeeps DEF Outcome
  <1>2. CASE Put(fs, busy, type, v, room) # <<>>
    <2>1. /\ fields' = Put(fs, busy, type, v, room)[1]
          /\ asked' = [asked EXCEPT ![type] = <<v>>]
          /\ UNCHANGED <<phase, open, cap>>
      BY <1>2 DEF Outcome
    <2>2. /\ SetTo(fs, fields', type, v)
          /\ busy => \A ty : HasField(fields', ty) <=> HasField(fs, ty)
      BY <1>2, <2>1, PutSets
    <2>3. open # <<>> => \A ty : HasField(fields', ty) <=> HasField(fields, ty)
      BY <2>2
    <2> QED
      BY <2>1, <2>2, <2>3, SetKeeps
  <1> QED
    BY <1>1, <1>2

\* SetInFilter is Put on the fields, if they have a slot, or on their copy.
LEMMA SetInFilterCases ==
    ASSUME FieldInv, NEW type \in Types \cap Single, NEW v \in Ints, SetInFilter(type, v)
    PROVE  /\ phase = "filter"
           /\ \/ /\ Slots(fields, type) # {}
                 /\ Outcome(Put(fields, FALSE, type, v, DefaultCap), type, v)
              \/ CopyPanics(fields) /\ Panic
              \/ /\ ~CopyPanics(fields)
                 /\ Outcome(Put(CopyFrom(fields), FALSE, type, v, DefaultCap), type, v)
  BY DEF SetInFilter, Put

LEMMA FieldStep == FieldInv /\ [FieldNext]_fieldVars => FieldInv'
  <1> SUFFICES ASSUME FieldInv, [FieldNext]_fieldVars PROVE FieldInv'
    OBVIOUS
  <1>0. fields \in Seq(FieldSet) /\ SoundFields(fields) /\ OpenSound /\ AskedHeld(fields, asked)
    BY DEF FieldInv, VarsTyped
  <1>1. ASSUME NEW type \in Types, StartField(type) PROVE FieldInv'
    <2> DEFINE f == Field(type, <<>>)
    <2>1. f \in FieldSet /\ SoundField(f) /\ f.type = type
      BY DEF Field, FieldSet, SoundField, OneKind
    <2> HIDE DEF f
    <2>2. /\ phase = "builder" /\ CanStart(fields, type) /\ open' = <<f>>
          /\ UNCHANGED <<phase, fields, cap, asked>>
      BY <1>1 DEF StartField, f
    <2>3. VarsTyped'
      BY <2>2 DEF FieldInv, VarsTyped
    <2>4. OpenSound'
      BY <2>1, <2>2 DEF OpenSound
    <2> QED
      BY <1>0, <2>2, <2>3, <2>4 DEF FieldInv
  <1>2. ASSUME NEW e \in Elements, AddElement(e) PROVE FieldInv'
    <2> DEFINE f == [open[1] EXCEPT !.elems = Append(@, e)]
    <2>1. /\ phase = "builder" /\ open # <<>> /\ e \in Suits(open[1].type)
          /\ OneKind(Append(open[1].elems, e)) /\ open' = <<f>>
          /\ UNCHANGED <<phase, fields, cap, asked>>
      BY <1>2 DEF AddElement
    <2>2. open[1] \in FieldSet /\ SoundField(open[1]) /\ CanStart(fields, open[1].type)
      BY <1>0, <2>1 DEF OpenSound
    <2>3. f \in FieldSet /\ f.type = open[1].type /\ f.elems = Append(open[1].elems, e)
      <3>1. Append(open[1].elems, e) \in Seq(Elements)
        BY <2>2 DEF FieldSet
      <3> QED
        BY <2>2, <3>1 DEF FieldSet
    <2>4. SoundField(f)
      <3>1. open[1].elems \in Seq(Elements)
        BY <2>2 DEF FieldSet
      <3> HIDE DEF f
      <3>2. \A j \in DOMAIN f.elems : f.elems[j] \in Suits(f.type)
        BY <2>1, <2>2, <2>3, <3>1 DEF SoundField
      <3> QED
        BY <2>1, <2>3, <3>2 DEF SoundField
    <2> HIDE DEF f
    <2>5. VarsTyped'
      BY <2>1 DEF FieldInv, VarsTyped
    <2>6. OpenSound'
      BY <2>1, <2>2, <2>3, <2>4 DEF OpenSound
    <2> QED
      BY <1>0, <2>1, <2>5, <2>6 DEF FieldInv
  <1>3. ASSUME EndField PROVE FieldInv'
    <2>1. /\ open # <<>> /\ fields' = Append(fields, open[1]) /\ open' = <<>>
          /\ UNCHANGED <<phase, cap, asked>>
      BY <1>3 DEF EndField
    <2>2. open[1] \in FieldSet /\ SoundField(open[1]) /\ CanStart(fields, open[1].type)
      BY <1>0, <2>1 DEF OpenSound
    <2> QED
      BY <2>1, <2>2, GrowKeeps
  <1>4. ASSUME NEW type \in Types \ Single, NEW elems \in BoundedSeq(Suits(type), 2),
               Method(type, elems)
        PROVE  FieldInv'
    <2>1. CASE Panic
      BY <2>1, PanicKeeps
    <2>2. CASE ~Panic
      <3>1. /\ open = <<>> /\ CanStart(fields, type) /\ OneKind(elems)
            /\ fields' = Append(fields, Field(type, elems))
            /\ UNCHANGED <<phase, open, cap, asked>>
        BY <1>4, <2>2 DEF Method, Fits
      <3>2. elems \in Seq(Suits(type)) /\ elems \in Seq(Elements)
        <4>1. PICK m \in 0..2 : elems \in [1..m -> Suits(type)]
          BY DEF BoundedSeq, SeqOf
        <4> QED
          BY <4>1, SuitsElements
      <3>3. Field(type, elems) \in FieldSet /\ SoundField(Field(type, elems))
            /\ Field(type, elems).type = type
        BY <3>1, <3>2 DEF Field, FieldSet, SoundField
      <3> QED
        BY <3>1, <3>3, GrowKeeps
    <2> QED
      BY <2>1, <2>2
  <1>5. ASSUME NEW type \in Types \cap Single, NEW v \in Ints, SetInBuilder(type, v)
        PROVE  FieldInv'
    BY <1>0, <1>5, OutcomeKeeps DEF SetInBuilder
  <1>6. ASSUME BuildFilter PROVE FieldInv'
    <2>1. VarsTyped' /\ OpenSound'
      BY <1>6 DEF BuildFilter, FieldInv, VarsTyped, OpenSound
    <2> QED
      BY <1>0, <1>6, <2>1 DEF BuildFilter, FieldInv
  <1>7. ASSUME NEW type \in Types \cap Single, NEW v \in Ints, SetInFilter(type, v)
        PROVE  FieldInv'
    <2>1. open = <<>>
      BY <1>0, <1>7, SetInFilterCases DEF OpenSound
    <2>2. CopyFrom(fields) \in Seq(FieldSet) /\ SoundFields(CopyFrom(fields))
      BY <1>0, CopyHolds, SoundCopy DEF CopyFrom, CopyOf
    <2>3. CASE Outcome(Put(fields, FALSE, type, v, DefaultCap), type, v)
      BY <1>0, <2>1, <2>3, OutcomeKeeps
    <2>4. CASE Panic
      BY <2>4, PanicKeeps
    <2>5. CASE Outcome(Put(CopyFrom(fields), FALSE, type, v, DefaultCap), type, v)
      BY <2>1, <2>2, <2>5, CopyHoldsAsked, OutcomeKeeps
    <2> QED
      BY <1>7, <2>3, <2>4, <2>5, SetInFilterCases
  <1>8. CASE UNCHANGED fieldVars
    BY <1>8 DEF fieldVars, FieldInv, VarsTyped, OpenSound
  <1> QED
    BY <1>1, <1>2, <1>3, <1>4, <1>5, <1>6, <1>7, <1>8 DEF FieldNext, LowLevel, Chained

-----------------------------------------------------------------------------
(* The theorems                                                            *)

LEMMA FieldInvariant == FieldSpec => []FieldInv
  BY FieldInitInv, FieldStep, PTL DEF FieldSpec

\* However a filter is built and set, its fields hold elements that suit them,
\* of one kind, and only tags occur twice.
THEOREM FieldTypesCorrect == FieldSpec => []FilterTypeOK
  <1>1. FieldInv => FilterTypeOK
    <2> SUFFICES ASSUME FieldInv PROVE FilterTypeOK
      OBVIOUS
    <2>1. Len(open) <= 1
      <3>1. CASE open = <<>>
        BY <3>1
      <3>2. CASE open = <<open[1]>>
        BY <3>2
      <3> QED
        BY <3>1, <3>2 DEF FieldInv, OpenSound
    <2> QED
      BY <2>1 DEF FieldInv, VarsTyped, SoundFields, SoundField, Unique, OpenSound, FilterTypeOK
  <1> QED
    BY FieldInvariant, <1>1, PTL

\* since, until and limit read back what was last set: in a builder, in a built
\* filter, in place or through a copy.
THEOREM GettersReadWhatWasSet == FieldSpec => []GettersAgree
  <1>1. FieldInv => GettersAgree
    <2> SUFFICES ASSUME FieldInv, NEW type \in Single, asked[type] # <<>>
                 PROVE  Get(fields, type) = asked[type]
      BY DEF GettersAgree
    <2> DEFINE at == {i \in DOMAIN fields : fields[i].type = type}
    <2>1. PICK i \in DOMAIN fields : fields[i].type = type /\ fields[i].elems = asked[type]
      BY DEF FieldInv, AskedHeld
    <2>2. at = {i}
      <3>1. type # "tags"
        BY DEF Single
      <3> QED
        BY <2>1, <3>1 DEF FieldInv, SoundFields, Unique
    <2>3. Min(at) = i
      <3>1. i \in Nat
        BY DEF FieldInv, VarsTyped
      <3>2. Min(at) \in at
        BY <2>2, <3>1, MinIsIn
      <3> QED
        BY <2>2, <3>2
    <2>4. PICK v \in Ints : asked[type] = <<v>>
      BY DEF FieldInv, VarsTyped, Asked
    <2>5. Get(fields, type) = IF at = {} THEN <<>> ELSE First(fields[Min(at)].elems)
      BY DEF Get
    <2> HIDE DEF at
    <2>6. at # {} /\ First(asked[type]) = asked[type]
      BY <2>2, <2>4 DEF First
    <2> QED
      BY <2>1, <2>3, <2>5, <2>6
  <1> QED
    BY FieldInvariant, <1>1, PTL

\* Setting one field of a built filter leaves the others, but for the custom
\* ones, as they were read, in place or through a copy.
THEOREM SettersKeepOthers == FieldSpec => SettersKeepTheRest
  <1> DEFINE Kept == phase = "filter" /\ phase' = "filter" =>
                        \E type \in Types \cap Single :
                            ReadOthers(fields', type) = ReadOthers(fields, type)
  <1>1. FieldInv /\ [FieldNext]_fieldVars => [Kept]_fieldVars
    <2> SUFFICES ASSUME FieldInv, FieldNext, phase = "filter", phase' = "filter"
                 PROVE  \E type \in Types \cap Single :
                            ReadOthers(fields', type) = ReadOthers(fields, type)
      OBVIOUS
    <2>1. PICK type \in Types \cap Single, v \in Ints : SetInFilter(type, v)
      BY DEF FieldNext, LowLevel, Chained, StartField, AddElement, EndField, Method,
             SetInBuilder, BuildFilter
    <2>2. fields \in Seq(FieldSet) /\ SoundFields(fields)
      BY DEF FieldInv, VarsTyped
    <2>3. CopyFrom(fields) = CopyOf(fields, {"custom"})
          /\ CopyFrom(fields) \in Seq(FieldSet) /\ SoundFields(CopyFrom(fields))
      BY <2>2, CopyHolds, SoundCopy DEF CopyFrom, CopyOf
    <2>4. ~Panic
      BY DEF Panic
    <2>5. ASSUME NEW fs \in Seq(FieldSet), SoundFields(fs),
                 Outcome(Put(fs, FALSE, type, v, DefaultCap), type, v)
          PROVE  CopyOf(fields', {type, "custom"}) = CopyOf(fs, {type, "custom"})
      <3>1. Put(fs, FALSE, type, v, DefaultCap) # <<>>
            /\ fields' = Put(fs, FALSE, type, v, DefaultCap)[1]
        BY <2>4, <2>5 DEF Outcome
      <3>2. SetTo(fs, fields', type, v)
        BY <2>5, <3>1, PutSets
      <3> QED
        BY <3>2 DEF SetTo
    <2>6. CopyOf(CopyFrom(fields), {type, "custom"}) = CopyOf(fields, {type, "custom"})
      BY <2>2, <2>3, CopyTwice
    <2>7. CopyOf(fields', {type, "custom"}) = CopyOf(fields, {type, "custom"})
      BY <2>1, <2>2, <2>3, <2>4, <2>5, <2>6, SetInFilterCases
    <2> QED
      BY <2>7 DEF ReadOthers, CopyOf
  <1> QED
    BY FieldInvariant, <1>1, PTL DEF FieldSpec, SettersKeepTheRest

\* The setters of a built filter do not panic, if its fields can be read and
\* leave room for one more element in the buffer of Filter::new.
THEOREM SettersDoNotPanic == FieldSpec => SettersNeverPanic
  <1> DEFINE Calm == /\ phase = "filter"
                     /\ \A i \in DOMAIN fields : Readable(fields[i]) /\ StrElementsRead(fields[i])
                     /\ Used(fields) < DefaultCap
                     => phase' # "panicked"
  <1>1. FieldInv /\ [FieldNext]_fieldVars => [Calm]_fieldVars
    <2> SUFFICES ASSUME FieldInv, FieldNext, phase = "filter",
                        \A i \in DOMAIN fields : Readable(fields[i]) /\ StrElementsRead(fields[i]),
                        Used(fields) < DefaultCap, phase' = "panicked"
                 PROVE  FALSE
      OBVIOUS
    <2>1. PICK type \in Types \cap Single, v \in Ints : SetInFilter(type, v)
      BY DEF FieldNext, LowLevel, Chained, StartField, AddElement, EndField, Method,
             SetInBuilder, BuildFilter
    <2> DEFINE K == CopyOf(fields, {"custom"})
    <2>2. fields \in Seq(FieldSet) /\ CopyFrom(fields) = K
      BY DEF FieldInv, VarsTyped, CopyFrom, CopyOf
    <2>3. K \in Seq(FieldSet) /\ Used(fields) \in Nat /\ Used(K) \in 0..Used(fields)
      BY <2>2, CopyHolds
    <2> HIDE DEF K
    <2>4. DefaultCap \in Nat /\ Used(K) + 1 <= DefaultCap
      BY <2>3, FiltersAssumption
    <2>5. ~CopyPanics(fields)
      BY <2>2, <2>3, <2>4 DEF CopyPanics
    <2>6. Slots(fields, type) = {} /\ Put(K, FALSE, type, v, DefaultCap) = <<>>
      BY <2>1, <2>2, <2>5 DEF SetInFilter, Outcome
    <2>7. Slots(K, type) = {} /\ ~ (CanStart(K, type) /\ Fits(K, <<v>>, DefaultCap))
      BY <2>6 DEF Put
    <2>8. Fits(K, <<v>>, DefaultCap)
      BY <2>4 DEF Fits, OneKind
    <2>9. PICK j \in DOMAIN K : K[j].type = type
      BY <2>7, <2>8 DEF CanStart, HasField
    <2>10. PICK i \in DOMAIN fields : K[j] = Copied(fields[i])
      BY <2>2, CopyHolds DEF K
    <2>11. fields[i] \in FieldSet /\ fields[i].type = type
      BY <2>2, <2>9, <2>10, CopiedIsAField
    <2>12. fields[i].elems # <<>>
      BY <2>11 DEF Readable
    <2>13. Len(K[j].elems) = 1
      BY <2>10, <2>11, <2>12 DEF Copied, Field, First
    <2> QED
      BY <2>7, <2>9, <2>13 DEF Slots
  <1> QED
    BY FieldInvariant, <1>1, PTL DEF FieldSpec, SettersNeverPanic

-----------------------------------------------------------------------------
(* FilterMemory                                                            *)

Inv == MemoryTypeOK /\ BufferInv /\ BoxInv

-----------------------------------------------------------------------------
(* Arc::strong_count                                                       *)

\* A count of one means that the filter is alone with its Arc, and any other
\* count that it is not.
LEMMA CountIsOne ==
    ASSUME MemoryTypeOK, NEW g \in Handles, kind[g] = "filter"
    PROVE  StrongCount(g) = 1 <=>
             \A h \in Handles : kind[h] = "filter" /\ arc[h] = arc[g] => h = g
  <1> DEFINE Sharers == {h \in Handles : kind[h] = "filter" /\ arc[h] = arc[g]}
  <1>1. IsFiniteSet(Sharers) /\ g \in Sharers
    BY FS_Subset, FilterMemoryAssumption
  <1>2. StrongCount(g) = Cardinality(Sharers)
    BY DEF StrongCount
  <1>3. Cardinality(Sharers) = 1 <=> \E x : Sharers = {x}
    <2> HIDE DEF Sharers
    <2> QED
      BY <1>1, FS_Singleton
  <1>4. (\E x : Sharers = {x}) <=> \A h \in Sharers : h = g
    <2> HIDE DEF Sharers
    <2> QED
      BY <1>1
  <1> QED
    BY <1>2, <1>3, <1>4

\* What Free does to the counters.
LEMMA FreeEffect ==
    ASSUME MemoryTypeOK, NEW g \in Handles, kind[g] = "filter", Free(g)
    PROVE  /\ bufFrees' = [bufFrees EXCEPT ![buf[g]] = @ + 1]
           /\ boxFrees' \in [Boxes -> Nat]
           /\ \A c \in Boxes :
                boxFrees'[c] = IF c = ctx[g] /\ StrongCount(g) = 1
                               THEN boxFrees[c] + 1 ELSE boxFrees[c]
  BY DEF Free, MemoryTypeOK

-----------------------------------------------------------------------------
(* The invariants hold in the beginning and are kept                       *)

LEMMA MemoryInit == Init => Inv
  BY FilterMemoryAssumption DEF Init, Inv, MemoryTypeOK, BufferInv, BoxInv, Live

\* One step keeps every variable to its type.
LEMMA TypeStep == Inv /\ [Next]_vars => MemoryTypeOK'
  <1> SUFFICES ASSUME Inv, [Next]_vars PROVE MemoryTypeOK'
    OBVIOUS
  <1> USE DEF Inv, MemoryTypeOK
  <1>1. ASSUME NEW h \in Handles, NewBuilder(h) PROVE MemoryTypeOK'
    BY <1>1 DEF NewBuilder
  <1>2. ASSUME NEW h \in Handles, NEW c \in Boxes, AddCustom(h, c) PROVE MemoryTypeOK'
    BY <1>2 DEF AddCustom
  <1>3. ASSUME NEW h \in Handles, NEW g \in Handles, Build(h, g) PROVE MemoryTypeOK'
    BY <1>3 DEF Build, BuildFrom
  <1>4. ASSUME NEW h \in Handles, DropBuilder(h) PROVE MemoryTypeOK'
    BY <1>4 DEF DropBuilder
  <1>5. ASSUME NEW g \in Handles, NEW h \in Handles, Clone(g, h) PROVE MemoryTypeOK'
    BY <1>5 DEF Clone
  <1>6. ASSUME NEW g \in Handles, DropFilter(g) PROVE MemoryTypeOK'
    BY <1>6, FreeEffect DEF DropFilter
  <1>7. ASSUME NEW g \in Handles, NEW h \in Handles, SetByCopy(g, h) PROVE MemoryTypeOK'
    BY <1>7, FreeEffect DEF SetByCopy
  <1>8. ASSUME NEW g \in Handles, Subscribe(g) PROVE MemoryTypeOK'
    BY <1>8 DEF Subscribe
  <1>9. ASSUME NEW c \in Boxes, Unsubscribe(c) PROVE MemoryTypeOK'
    BY <1>9 DEF Unsubscribe
  <1>10. CASE UNCHANGED vars
    BY <1>10 DEF vars
  <1> QED
    BY <1>1, <1>2, <1>3, <1>4, <1>5, <1>6, <1>7, <1>8, <1>9, <1>10 DEF Next

\* One step keeps the buffers with one owner each.
LEMMA BufferStep == Inv /\ [Next]_vars => BufferInv'
  <1> SUFFICES ASSUME Inv, [Next]_vars PROVE BufferInv'
    OBVIOUS
  <1> USE DEF Inv, MemoryTypeOK, BufferInv
  <1>1. ASSUME NEW h \in Handles, NewBuilder(h) PROVE BufferInv'
    BY <1>1 DEF NewBuilder
  <1>2. ASSUME NEW h \in Handles, NEW c \in Boxes, AddCustom(h, c) PROVE BufferInv'
    BY <1>2 DEF AddCustom
  <1>3. ASSUME NEW h \in Handles, NEW g \in Handles, Build(h, g) PROVE BufferInv'
    BY <1>3 DEF Build, BuildFrom
  <1>4. ASSUME NEW h \in Handles, DropBuilder(h) PROVE BufferInv'
    BY <1>4 DEF DropBuilder
  <1>5. ASSUME NEW g \in Handles, NEW h \in Handles, Clone(g, h) PROVE BufferInv'
    BY <1>5 DEF Clone
  <1>6. ASSUME NEW g \in Handles, DropFilter(g) PROVE BufferInv'
    BY <1>6, FreeEffect DEF DropFilter
  <1>7. ASSUME NEW g \in Handles, NEW h \in Handles, SetByCopy(g, h) PROVE BufferInv'
    BY <1>7, FreeEffect DEF SetByCopy
  <1>8. ASSUME NEW g \in Handles, Subscribe(g) PROVE BufferInv'
    BY <1>8 DEF Subscribe
  <1>9. ASSUME NEW c \in Boxes, Unsubscribe(c) PROVE BufferInv'
    BY <1>9 DEF Unsubscribe
  <1>10. CASE UNCHANGED vars
    BY <1>10 DEF vars
  <1> QED
    BY <1>1, <1>2, <1>3, <1>4, <1>5, <1>6, <1>7, <1>8, <1>9, <1>10 DEF Next

\* After Free(g), no owner but g has a freed closure, and the counters are as
\* BoxInv wants them.
LEMMA FreeKeepsBoxes ==
    ASSUME Inv, NEW g \in Handles, kind[g] = "filter", Free(g)
    PROVE  /\ \A h \in Live \ {g} : ctx[h] # NoBox => boxFrees'[ctx[h]] = 0
           /\ \A c \in Boxes : boxFrees'[c] <= 1
           /\ \A c \in Boxes \ made : boxFrees'[c] = 0
           /\ \A c \in Boxes \cap lost : boxFrees'[c] = 0
  <1> USE FreeEffect DEF Inv
  <1>1. g \in Live
    BY DEF Live
  <1>2. ASSUME NEW h \in Live \ {g}, ctx[h] # NoBox
        PROVE  boxFrees'[ctx[h]] = 0
    <2>1. ctx[h] \in Boxes /\ boxFrees[ctx[h]] = 0 /\ h \in Handles
      BY <1>2 DEF BoxInv, MemoryTypeOK, Live
    <2>2. CASE ctx[h] = ctx[g]
      <3>1. kind[h] = "filter" /\ arc[h] = arc[g] /\ h # g
        BY <1>1, <1>2, <2>2 DEF BoxInv
      <3>2. StrongCount(g) # 1
        BY <2>1, <3>1, CountIsOne
      <3> QED
        BY <2>1, <3>2
    <2> QED
      BY <2>1, <2>2
  <1>3. ASSUME NEW c \in Boxes PROVE boxFrees'[c] <= 1
    <2>1. boxFrees[c] \in Nat /\ boxFrees[c] <= 1
      BY DEF MemoryTypeOK, BoxInv
    <2>2. c = ctx[g] => boxFrees[c] = 0
      BY <1>1, FilterMemoryAssumption DEF BoxInv
    <2> QED
      BY <2>1, <2>2
  <1>4. \A c \in Boxes \ made : boxFrees'[c] = 0
    BY FilterMemoryAssumption DEF BoxInv
  <1>5. \A c \in Boxes \cap lost : boxFrees'[c] = 0
    BY <1>1 DEF BoxInv
  <1> QED
    BY <1>2, <1>3, <1>4, <1>5

\* One step keeps the owners of closures right.
LEMMA BoxStep == Inv /\ [Next]_vars => BoxInv'
  <1> SUFFICES ASSUME Inv, [Next]_vars PROVE BoxInv'
    OBVIOUS
  <1>0. \A h \in Handles : kind[h] = "none" =>
            arc[h] = h /\ ctx[h] = NoBox /\ calls[h] = {}
    BY DEF Inv, BufferInv
  <1> USE DEF Inv, MemoryTypeOK, BoxInv, Live
  <1>1. ASSUME NEW h \in Handles, NewBuilder(h) PROVE BoxInv'
    BY <1>0, <1>1, FilterMemoryAssumption DEF NewBuilder
  <1>2. ASSUME NEW h \in Handles, NEW c \in Boxes, AddCustom(h, c) PROVE BoxInv'
    BY <1>2, FilterMemoryAssumption DEF AddCustom
  <1>3. ASSUME NEW h \in Handles, NEW g \in Handles, Build(h, g) PROVE BoxInv'
    BY <1>0, <1>3 DEF Build, BuildFrom
  <1>4. ASSUME NEW h \in Handles, DropBuilder(h) PROVE BoxInv'
    BY <1>4, FilterMemoryAssumption DEF DropBuilder
  <1>5. ASSUME NEW g \in Handles, NEW h \in Handles, Clone(g, h) PROVE BoxInv'
    BY <1>0, <1>5 DEF Clone
  <1>6. ASSUME NEW g \in Handles, DropFilter(g) PROVE BoxInv'
    BY <1>6, FreeKeepsBoxes DEF DropFilter
  <1>7. ASSUME NEW g \in Handles, NEW h \in Handles, SetByCopy(g, h) PROVE BoxInv'
    BY <1>0, <1>7, FreeKeepsBoxes, FilterMemoryAssumption, SMTT(40) DEF SetByCopy
  <1>8. ASSUME NEW g \in Handles, Subscribe(g) PROVE BoxInv'
    BY <1>8 DEF Subscribe
  <1>9. ASSUME NEW c \in Boxes, Unsubscribe(c) PROVE BoxInv'
    BY <1>9 DEF Unsubscribe
  <1>10. CASE UNCHANGED vars
    BY <1>10 DEF vars
  <1> QED
    BY <1>1, <1>2, <1>3, <1>4, <1>5, <1>6, <1>7, <1>8, <1>9, <1>10 DEF Next

\* One step loses no closure: a last drop frees it, and any other drop leaves
\* a filter with the same Arc.
LEMMA AccountStep ==
    Inv /\ ClosuresAccountedFor /\ [Next]_vars => ClosuresAccountedFor'
  <1> SUFFICES ASSUME Inv, ClosuresAccountedFor, [Next]_vars
               PROVE  ClosuresAccountedFor'
    OBVIOUS
  <1> USE DEF ClosuresAccountedFor
  <1>1. ASSUME NEW h \in Handles, NewBuilder(h) PROVE ClosuresAccountedFor'
    BY <1>1 DEF NewBuilder, Inv, MemoryTypeOK
  <1>2. ASSUME NEW h \in Handles, NEW c \in Boxes, AddCustom(h, c)
        PROVE  ClosuresAccountedFor'
    BY <1>2, FilterMemoryAssumption DEF AddCustom, Inv, MemoryTypeOK
  <1>3. ASSUME NEW h \in Handles, NEW g \in Handles, Build(h, g)
        PROVE  ClosuresAccountedFor'
    BY <1>3 DEF Build, BuildFrom, Inv, MemoryTypeOK
  <1>4. ASSUME NEW h \in Handles, DropBuilder(h) PROVE ClosuresAccountedFor'
    BY <1>4, FilterMemoryAssumption DEF DropBuilder, Inv, MemoryTypeOK
  <1>5. ASSUME NEW g \in Handles, NEW h \in Handles, Clone(g, h)
        PROVE  ClosuresAccountedFor'
    BY <1>5 DEF Clone, Inv, MemoryTypeOK, BufferInv
  <1>6. ASSUME NEW g \in Handles, kind[g] = "filter", Free(g), NEW c \in Boxes,
               c \in made, c \notin lost
        PROVE  \/ boxFrees'[c] > 0
               \/ \E h \in Live \ {g} : ctx[h] = c
    <2>1. boxFrees[c] \in Nat
      BY DEF Inv, MemoryTypeOK
    <2>2. CASE boxFrees[c] > 0
      BY <1>6, <2>1, <2>2, FreeEffect DEF Inv
    <2>3. CASE ctx[g] = c
      <3>1. CASE StrongCount(g) = 1
        BY <1>6, <2>1, <2>3, <3>1, FreeEffect DEF Inv
      <3>2. CASE StrongCount(g) # 1
        <4>1. PICK h \in Handles : kind[h] = "filter" /\ arc[h] = arc[g] /\ h # g
          BY <1>6, <3>2, CountIsOne DEF Inv
        <4> QED
          BY <1>6, <2>3, <4>1 DEF Inv, BoxInv, Live
      <3> QED
        BY <3>1, <3>2
    <2> QED
      BY <1>6, <2>2, <2>3 DEF Live
  <1>7. ASSUME NEW g \in Handles, DropFilter(g) PROVE ClosuresAccountedFor'
    BY <1>6, <1>7 DEF DropFilter, Inv, MemoryTypeOK, Live
  <1>8. ASSUME NEW g \in Handles, NEW h \in Handles, SetByCopy(g, h)
        PROVE  ClosuresAccountedFor'
    BY <1>6, <1>8 DEF SetByCopy, Inv, MemoryTypeOK, Live
  <1>9. ASSUME NEW g \in Handles, Subscribe(g) PROVE ClosuresAccountedFor'
    BY <1>9 DEF Subscribe
  <1>10. ASSUME NEW c \in Boxes, Unsubscribe(c) PROVE ClosuresAccountedFor'
    BY <1>10 DEF Unsubscribe
  <1>11. CASE UNCHANGED vars
    BY <1>11 DEF vars
  <1> QED
    BY <1>1, <1>2, <1>3, <1>4, <1>5, <1>7, <1>8, <1>9, <1>10, <1>11 DEF Next

-----------------------------------------------------------------------------
(* The theorems                                                            *)

LEMMA MemoryInvariant == Spec => []Inv
  <1>1. Inv /\ [Next]_vars => Inv'
    BY TypeStep, BufferStep, BoxStep DEF Inv
  <1> QED
    BY MemoryInit, <1>1, PTL DEF Spec

\* Every variable keeps to its type, and who has C elements that call a closure
\* has one to free.
THEOREM MemoryTypeCorrect == Spec => []MemoryTypeOK
  <1>1. Inv => MemoryTypeOK
    BY DEF Inv
  <1> QED
    BY MemoryInvariant, <1>1, PTL

\* Through any builds, clones, setters and drops of filter.rs, no buffer and no
\* closure is freed twice.
THEOREM NothingFreedTwice == Spec => []NoDoubleFree
  <1>1. Inv => NoDoubleFree
    BY DEF Inv, BufferInv, BoxInv, NoDoubleFree
  <1> QED
    BY MemoryInvariant, <1>1, PTL

\* The drop of a filter frees nothing that another filter uses.
THEOREM FiltersStayIntact == Spec => []LiveFiltersIntact
  <1>1. Inv => LiveFiltersIntact
    <2> SUFFICES ASSUME Inv, NEW g \in Handles, kind[g] = "filter"
                 PROVE  /\ bufFrees[buf[g]] = 0
                        /\ \A c \in calls[g] : boxFrees[c] = 0
      BY DEF LiveFiltersIntact
    <2>1. bufFrees[buf[g]] = 0
      BY DEF Inv, BufferInv
    <2>2. ASSUME NEW c \in calls[g] PROVE boxFrees[c] = 0
      <3>1. c \in Boxes /\ g \in Live
        BY <2>2 DEF Inv, MemoryTypeOK, Live
      <3>2. c = ctx[g] \/ c \in lost
        BY <2>2, <3>1 DEF Inv, BoxInv
      <3> QED
        BY <3>1, <3>2, FilterMemoryAssumption DEF Inv, BoxInv
    <2> QED
      BY <2>1, <2>2
  <1> QED
    BY MemoryInvariant, <1>1, PTL

\* A closure that was made has been freed, has an owner left, or was lost with
\* a builder: dropped unbuilt, or given another closure.
THEOREM NoOtherLeaks == Spec => []ClosuresAccountedFor
  <1>1. Init => ClosuresAccountedFor
    BY DEF Init, ClosuresAccountedFor
  <1> QED
    BY MemoryInvariant, AccountStep, <1>1, PTL DEF Spec
=============================================================================
