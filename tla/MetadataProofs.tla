--------------------------- MODULE MetadataProofs ---------------------------
(* Theorems about Metadata: a builder never writes outside of its Vec, and    *)
(* what a capacity holds.                                                     *)
EXTENDS Metadata, SequenceTheorems, FiniteSetTheorems, TLAPS

\* The steps that leave the Vec, the cursor and the history alone: those of the
\* readers, which at most make entry_at panic.
LEMMA ReadsLeaveBuilder ==
    ASSUME [MetaNext]_metaVars, \A n \in Capacities : ~WithCapacity(n),
           \A t \in Types : ~AddEntry(t), ~BuildMetadata, ~BuildUndefined
    PROVE  /\ UNCHANGED <<asked, cap, len, pos, end, count, added>>
           /\ UNCHANGED status \/ (status = "built" /\ status' = "overflowed")
BY DEF MetaNext, IterNext, EntryAt, metaVars

-----------------------------------------------------------------------------
(* Types                                                                   *)

LEMMA AddEntryTypes ==
    ASSUME MetaTypeOK, NEW t \in Types, AddEntry(t)
    PROVE  MetaTypeOK'
<1> USE MetadataAssumption DEF MetadataAssumption, MetaTypeOK
<1>1. cap' \in Nat /\ end' \in Nat
  <2>1. IsShort \/ ~IsShort
    OBVIOUS
  <2>2. QED
    BY <2>1 DEF AddEntry
<1>2. status = "building" /\ UNCHANGED <<asked, meta, iterIndex, seen, read>>
  BY DEF AddEntry
<1>3. CASE Fits(end')
  <2>1. pos' \in Nat /\ len' \in Nat /\ added' \in Seq(Types) /\ status' = status
    BY <1>3, SMTT(30) DEF AddEntry
  <2>2. count' \in 0..(CountBound - 1)
    BY <1>3 DEF AddEntry, CountUp, HasHeader
  <2>3. QED
    BY <1>1, <1>2, <2>1, <2>2
<1>4. CASE ~Fits(end')
  BY <1>1, <1>2, <1>4 DEF AddEntry
<1>5. QED
  BY <1>3, <1>4

LEMMA BeginTypes ==
    ASSUME MetaTypeOK, NEW n \in Capacities, WithCapacity(n)
    PROVE  MetaTypeOK'
<1> USE MetadataAssumption DEF MetadataAssumption, MetaTypeOK
<1>1. cap' \in Nat /\ pos' \in Nat /\ end' \in Nat
  <2>1. n \in Nat /\ (n = 0 \/ n # 0)
    OBVIOUS
  <2>2. QED
    BY <2>1 DEF WithCapacity
<1>2. QED
  BY <1>1 DEF WithCapacity

\* The length of an undefined build is at least a number.
LEMMA UndefinedTypes ==
    ASSUME MetaTypeOK, BuildUndefined
    PROVE  MetaTypeOK'
<1>1. count' \in 0..(CountBound - 1) /\ len' \in Nat
  <2>1. count' \in 0..(CountBound - 1)
    BY DEF BuildUndefined
  <2>2. count' \in Nat
    BY <2>1, MetadataAssumption DEF MetadataAssumption
  <2>3. len' = count' + 1 /\ \A c \in Nat : c + 1 \in Nat
    BY DEF BuildUndefined
  <2>4. len' \in Nat
    BY <2>2, <2>3, Zenon
  <2>5. QED
    BY <2>1, <2>4
<1> USE DEF MetaTypeOK
<1>2. /\ status = "building" /\ Len(meta) = 0 /\ status' = "undefined"
      /\ UNCHANGED <<asked, cap, pos, end, added, meta, iterIndex, seen, read>>
  BY DEF BuildUndefined
<1>3. QED
  BY <1>1, <1>2

LEMMA BuildTypes ==
    ASSUME MetaTypeOK, BuildMetadata
    PROVE  MetaTypeOK'
<1> USE MetadataAssumption DEF MetadataAssumption, MetaTypeOK
<1>1. PICK from \in Injection(1..count, DOMAIN added) :
            meta' = [i \in 1..count |-> added[from[i]]]
  BY DEF BuildMetadata
<1>2. \A i \in 1..count : from[i] \in DOMAIN added
  BY DEF Injection
<1>3. meta' \in [1..count -> Types] /\ count \in Nat
  BY <1>1, <1>2
<1>4. meta' \in Seq(Types) /\ Len(meta') = count
  BY <1>3, SeqDef
<1>5. QED
  BY <1>4 DEF BuildMetadata

\* The iterator and entry_at, which leave the built entries alone.
LEMMA ReadTypes ==
    ASSUME MetaTypeOK, IterNext \/ \E i \in 0..(CountBound - 1) : EntryAt(i)
    PROVE  MetaTypeOK'
<1> USE MetadataAssumption DEF MetadataAssumption, MetaTypeOK
<1>1. CASE IterNext
  <2>1. meta[iterIndex + 1] \in Types /\ iterIndex + 1 \in 0..Len(meta)
    BY <1>1, ElementOfSeq DEF IterNext, Done
  <2>2. Variant(meta[iterIndex + 1]) \in Known \cup {"Unknown"}
    BY DEF Variant
  <2>3. seen' \in Seq(Known \cup {"Unknown"}) /\ Len(seen') = iterIndex'
    BY <1>1, <2>2 DEF IterNext
  <2>4. QED
    BY <1>1, <2>1, <2>3 DEF IterNext
<1>2. ASSUME NEW i \in 0..(CountBound - 1), EntryAt(i) PROVE MetaTypeOK'
  BY <1>2 DEF EntryAt
<1>3. QED
  BY <1>1, <1>2

\* Types are kept by every operation of the builder and of the readers.
THEOREM MetaTypeCorrect == MetaSpec => []MetaTypeOK
<1>1. MetaInit => MetaTypeOK
  BY MetadataAssumption DEF MetadataAssumption, MetaInit, MetaTypeOK
<1>2. MetaTypeOK /\ UNCHANGED metaVars => MetaTypeOK'
  BY DEF metaVars, MetaTypeOK
<1>3. MetaTypeOK /\ MetaNext => MetaTypeOK'
  BY BeginTypes, AddEntryTypes, BuildTypes, UndefinedTypes, ReadTypes DEF MetaNext
<1>4. QED
  BY <1>1, <1>2, <1>3, PTL DEF MetaSpec

-----------------------------------------------------------------------------
(* The builder                                                             *)

\* A Vec is made with the room it was asked for, and the header in it.
LEMMA BeginBuilder ==
    ASSUME MetaTypeOK, BuilderInv, NEW n \in Capacities, WithCapacity(n)
    PROVE  BuilderInv'
<1> USE MetadataAssumption DEF MetadataAssumption, MetaTypeOK, BuilderInv, HoldsOneLess, HasHeader
<1>1. n \in Nat /\ len' = 0 /\ added' = added /\ Len(added) = 0 /\ count' = count
  BY DEF WithCapacity
<1>2. status' = "building" /\ asked' = n /\ end' = n /\ added = <<>>
  BY <1>1 DEF WithCapacity
<1>3. CASE n = 0
  BY <1>1, <1>2, <1>3 DEF WithCapacity
<1>4. CASE n # 0
  <2>1. cap' \in Nat /\ cap' >= n /\ pos' = 1
    BY <1>1, <1>4 DEF WithCapacity
  <2>2. pos' = Len(added') + 1 /\ pos' <= end' /\ end' <= cap' /\ len' <= cap'
    BY <1>1, <1>2, <1>4, <2>1
  <2>3. Len(added') < asked' /\ status' # "panicked" /\ end' = asked'
    BY <1>1, <1>2, <1>4
  <2>4. status = "none" /\ count' <= Len(added')
    BY <1>1 DEF WithCapacity
  <2>5. QED
    BY <1>1, <1>2, <2>2, <2>3, <2>4
<1>5. QED
  BY <1>3, <1>4

\* An entry moves the cursor, the Vec's length and the history by one, if the
\* cursor has room for it.  Only without a header is the Vec ever short of room
\* before the cursor is; then it moves, and the cursor's end with it.
LEMMA AddEntryKeepsBuilder ==
    ASSUME MetaTypeOK, BuilderInv, NEW t \in Types, AddEntry(t)
    PROVE  BuilderInv'
<1> USE MetadataAssumption DEF MetadataAssumption, BuilderInv, HoldsOneLess, HasHeader
<1>1. /\ cap \in Nat /\ len \in Nat /\ pos \in Nat /\ end \in Nat /\ asked \in Nat
      /\ added \in Seq(Types) /\ count \in Nat /\ CountBound \in Nat
  BY DEF MetaTypeOK
<1>2. status = "building" /\ asked' = asked /\ len = Len(added)
  BY DEF AddEntry
<1>3. /\ cap' \in Nat /\ end' \in Nat /\ end' <= cap' /\ len < cap' /\ end <= end'
      /\ HasHeader => end' = end
  <2>1. CASE IsShort
    <3>1. cap' \in Nat /\ cap' >= len + 1 /\ end' = cap' /\ cap - len < 1
      BY <1>1, <2>1 DEF AddEntry, IsShort
    <3>2. QED
      BY <1>1, <1>2, <3>1
  <2>2. CASE ~IsShort
    BY <1>1, <2>2 DEF AddEntry, IsShort
  <2>3. QED
    BY <2>1, <2>2
<1>4. CASE Fits(end')
  <2>1. /\ added' = Append(added, t) /\ Len(added') = Len(added) + 1 /\ added' # <<>>
        /\ pos' = pos + 1 /\ len' = len + 1 /\ count' = CountUp /\ status' = "building"
    BY <1>1, <1>2, <1>4 DEF AddEntry
  <2>2. count' <= Len(added')
    BY <1>1, <1>2, <2>1 DEF CountUp
  <2>3. pos' <= end' /\ len' <= cap' /\ len' = Len(added')
    BY <1>1, <1>2, <1>3, <1>4, <2>1 DEF Fits
  <2>4. pos' \in {Len(added'), Len(added') + 1} /\ (asked > 0 => pos' = Len(added') + 1)
    BY <1>1, <2>1
  <2>5. asked > 0 => end' = asked /\ Len(added') < asked
    BY <1>1, <1>3, <2>3, <2>4
  <2>6. QED
    BY <1>2, <1>3, <2>1, <2>2, <2>3, <2>4, <2>5, SMTT(30)
<1>5. CASE ~Fits(end')
  <2>1. UNCHANGED <<pos, len, count, added>> /\ status' = "panicked"
    BY <1>5 DEF AddEntry
  <2>2. HasHeader => Len(added) = asked - 1
    BY <1>1, <1>2, <1>3, <1>5 DEF Fits
  <2>3. HasHeader \/ added # <<>> => pos <= end'
    BY <1>1, <1>3
  <2>4. QED
    BY <1>1, <1>2, <1>3, <2>1, <2>2, <2>3
<1>6. QED
  BY <1>4, <1>5

\* Whatever a capacity, 0 included: a builder keeps to its Vec.
LEMMA BuilderInvariant == MetaSpec => []BuilderInv
<1>1. MetaInit => BuilderInv
  BY DEF MetaInit, BuilderInv, HoldsOneLess, HasHeader
<1>2. MetaTypeOK /\ BuilderInv /\ [MetaNext]_metaVars => BuilderInv'
  <2> SUFFICES ASSUME MetaTypeOK, BuilderInv, [MetaNext]_metaVars
               PROVE  BuilderInv'
    OBVIOUS
  <2>1. CASE BuildMetadata
    BY <2>1, MetadataAssumption
       DEF MetadataAssumption, BuildMetadata, MetaTypeOK, BuilderInv, HoldsOneLess, HasHeader
  <2>2. CASE BuildUndefined
    BY <2>2, MetadataAssumption
       DEF MetadataAssumption, BuildUndefined, MetaTypeOK, BuilderInv, HoldsOneLess, HasHeader
  <2>3. CASE /\ ~BuildMetadata /\ ~BuildUndefined
             /\ \A n \in Capacities : ~WithCapacity(n)
             /\ \A t \in Types : ~AddEntry(t)
    BY <2>3, ReadsLeaveBuilder DEF BuilderInv, HoldsOneLess, HasHeader
  <2>4. QED
    BY <2>1, <2>2, <2>3, BeginBuilder, AddEntryKeepsBuilder
<1>3. QED
  BY <1>1, <1>2, MetaTypeCorrect, PTL DEF MetaSpec

\* For every capacity, 0 included, and however the Vec is moved: no header, no
\* memcpy of an entry and no set_len goes beyond the allocation, unless a
\* builder without a header is built.
THEOREM BuilderStaysWithin == MetaSpec => []WithinBuffer
<1>1. BuilderInv => WithinBuffer
  BY DEF BuilderInv, WithinBuffer
<1>2. QED
  BY <1>1, BuilderInvariant, PTL

\* with_capacity(n) holds n - 1 entries and the n-th panics, for every n but 0,
\* where there is no header: the finding of AddEntryNeverPanics, for all n.
THEOREM CapacityIsOneShort == MetaSpec => []HoldsOneLess
<1>1. BuilderInv => HoldsOneLess
  BY DEF BuilderInv
<1>2. QED
  BY <1>1, BuilderInvariant, PTL

-----------------------------------------------------------------------------
\* entry_at hands out entries of the metadata only, but when there are none.
THEOREM EntryAtStaysWithin == MetaSpec => []EntryAtInBounds
<1>1. MetaInit => EntryAtInBounds
  BY DEF MetaInit, EntryAtInBounds
<1>2. MetaInit => (status \in {"none", "building"} => read = NoIndex)
  BY DEF MetaInit
<1>3. (status \in {"none", "building"} => read = NoIndex) /\ [MetaNext]_metaVars
        => (status \in {"none", "building"} => read = NoIndex)'
  BY DEF MetaNext, WithCapacity, AddEntry, BuildMetadata, BuildUndefined, IterNext, EntryAt,
         metaVars
<1>4. MetaTypeOK /\ EntryAtInBounds /\ (status \in {"none", "building"} => read = NoIndex)
        /\ [MetaNext]_metaVars => EntryAtInBounds'
  <2> SUFFICES ASSUME MetaTypeOK, EntryAtInBounds, [MetaNext]_metaVars,
                      status \in {"none", "building"} => read = NoIndex
               PROVE  EntryAtInBounds'
    OBVIOUS
  <2> USE MetadataAssumption DEF MetadataAssumption, EntryAtInBounds
  <2>1. ASSUME NEW i \in 0..(CountBound - 1), EntryAt(i)
        PROVE  EntryAtInBounds'
    BY <2>1 DEF EntryAt, IsPastEnd, MetaTypeOK
  <2>2. CASE status \in {"none", "building"} /\ UNCHANGED read
    BY <2>2
  <2>3. CASE UNCHANGED <<count, read>>
    BY <2>3
  <2>4. QED
    BY <2>1, <2>2, <2>3
       DEF MetaNext, WithCapacity, AddEntry, BuildMetadata, BuildUndefined, IterNext, metaVars
<1>5. QED
  BY <1>1, <1>2, <1>3, <1>4, MetaTypeCorrect, PTL DEF MetaSpec

-----------------------------------------------------------------------------
\* One step of the builder or the iterator keeps IterInv.
LEMMA IterStep ==
    MetaTypeOK /\ BuilderInv /\ IterInv /\ [MetaNext]_metaVars => IterInv'
<1> SUFFICES ASSUME MetaTypeOK, BuilderInv, IterInv, [MetaNext]_metaVars
             PROVE  IterInv'
  OBVIOUS
<1>1. added \in Seq(Types) /\ Len(added) \in Nat /\ CountBound \in Nat \ {0} /\ count \in Nat
  BY MetadataAssumption DEF MetadataAssumption, MetaTypeOK
<1>2. ASSUME NEW t \in Types, AddEntry(t)
      PROVE  IterInv'
  <2>1. asked' = asked /\ status = "building" /\ status' \in {"building", "panicked"} /\ iterIndex = 0 /\ iterIndex' = 0
    BY <1>2 DEF AddEntry, MetaTypeOK
  <2>2. HasHeader /\ Len(added') < CountBound => count' = Len(added')
    <3>1. CASE Fits(end')
      <4>1. Len(added') = Len(added) + 1 /\ count' = CountUp
        BY <1>1, <1>2, <3>1 DEF AddEntry
      <4>2. QED
        BY <1>1, <4>1 DEF IterInv, CountUp
    <3>2. CASE ~Fits(end')
      BY <1>2, <3>2 DEF AddEntry, IterInv
    <3>3. QED
      BY <3>1, <3>2
  <2>3. QED
    BY <2>1, <2>2 DEF IterInv, HasHeader
<1>3. CASE BuildMetadata
  <2>1. iterIndex' = 0 /\ UNCHANGED <<asked, count, added>> /\ status' = "built"
    BY <1>3 DEF BuildMetadata, MetaTypeOK
  <2>2. \E from \in Injection(1..count, DOMAIN added) :
            meta' = [i \in 1..count |-> added[from[i]]]
    BY <1>3 DEF BuildMetadata
  <2>3. QED
    BY <2>1, <2>2 DEF IterInv, HasHeader
<1>4. CASE IterNext
  <2>1. /\ seen' = Append(seen, Variant(meta[iterIndex + 1])) /\ iterIndex' = iterIndex + 1
        /\ UNCHANGED <<asked, count, added, status, meta>>
    BY <1>4 DEF IterNext
  <2>2. seen \in Seq(Known \cup {"Unknown"}) /\ Len(seen) = iterIndex /\ iterIndex \in Nat
    BY DEF MetaTypeOK
  <2>3. ASSUME NEW i \in 1..(iterIndex + 1)
        PROVE  seen'[i] = Variant(meta[i])
    <3>1. CASE i = iterIndex + 1
      BY <2>1, <2>2, <3>1
    <3>2. CASE i # iterIndex + 1
      <4>1. i \in 1..iterIndex
        BY <2>2, <3>2
      <4>2. seen'[i] = seen[i]
        BY <2>1, <2>2, <4>1
      <4>3. QED
        BY <4>1, <4>2 DEF IterInv
    <3>3. QED
      BY <3>1, <3>2
  <2>4. \A i \in 1..iterIndex' : seen'[i] = Variant(meta'[i])
    BY <2>1, <2>3
  <2>5. status' \in {"built", "overflowed"} =>
          \E from \in Injection(1..count', DOMAIN added') :
              meta' = [i \in 1..count' |-> added'[from[i]]]
    <3> DEFINE Permuted(n, of, m) ==
            \E from \in Injection(1..n, DOMAIN of) : m = [i \in 1..n |-> of[from[i]]]
    <3>1. status \in {"built", "overflowed"} => Permuted(count, added, meta)
      BY DEF IterInv
    <3> HIDE DEF Permuted
    <3>2. status' \in {"built", "overflowed"} => Permuted(count', added', meta')
      BY <2>1, <3>1
    <3>3. QED
      BY <3>2 DEF Permuted
  <2>6. QED
    BY <2>1, <2>4, <2>5 DEF IterInv, HasHeader
<1>5. ASSUME NEW i \in 0..(CountBound - 1), EntryAt(i)
      PROVE  IterInv'
  <2>1. status = "built" /\ UNCHANGED <<asked, count, added, meta, iterIndex, seen>>
    BY <1>5 DEF EntryAt
  <2>2. QED
    BY <2>1 DEF IterInv, HasHeader
<1>6. ASSUME NEW n \in Capacities, WithCapacity(n)
      PROVE  IterInv'
  <2>1. status' = "building" /\ UNCHANGED <<count, added, iterIndex>> /\ iterIndex = 0
    BY <1>6 DEF WithCapacity, MetaTypeOK
  <2>2. count = Len(added)
    BY <1>1, <1>6 DEF WithCapacity, BuilderInv
  <2>3. QED
    BY <2>1, <2>2 DEF IterInv
<1>7. CASE BuildUndefined
  <2>1. status' = "undefined" /\ ~HasHeader' /\ iterIndex' = 0
    BY <1>7 DEF BuildUndefined, MetaTypeOK, HasHeader
  <2>2. QED
    BY <2>1 DEF IterInv
<1>8. CASE UNCHANGED metaVars
  BY <1>8 DEF metaVars, IterInv, HasHeader
<1>9. QED
  BY <1>2, <1>3, <1>4, <1>5, <1>6, <1>7, <1>8 DEF MetaNext

\* An injection of a finite set into itself leaves out nothing.
LEMMA InjectionIsOnto ==
    ASSUME NEW n \in Nat, NEW f \in Injection(1..n, 1..n)
    PROVE  f \in Surjection(1..n, 1..n)
<1>1. IsFiniteSet(1..n)
  BY FS_Interval
<1>2. QED
  BY <1>1, FS_Injection

\* Counting is indifferent to the order.
LEMMA SameCounts ==
    ASSUME NEW n \in Nat, NEW f \in Injection(1..n, 1..n), NEW a, NEW b, NEW v,
           DOMAIN a = 1..n, DOMAIN b = 1..n, \A i \in 1..n : b[i] = a[f[i]]
    PROVE  Count(b, v) = Count(a, v)
<1> DEFINE A == {i \in 1..n : a[i] = v}
           B == {i \in 1..n : b[i] = v}
           g == [i \in B |-> f[i]]
<1>1. f \in [1..n -> 1..n] /\ \A i, j \in 1..n : f[i] = f[j] => i = j
  BY DEF Injection, IsInjective
<1>2. \A j \in 1..n : \E i \in 1..n : f[i] = j
  BY InjectionIsOnto DEF Surjection
<1>3. g \in [B -> A] /\ \A i, j \in B : g[i] = g[j] => i = j
  BY <1>1
<1>4. \A j \in A : \E i \in B : g[i] = j
  BY <1>1, <1>2
<1>5. IsFiniteSet(B)
  <2>1. IsFiniteSet(1..n) /\ B \subseteq 1..n
    BY FS_Interval
  <2> HIDE DEF B
  <2>2. QED
    BY <2>1, FS_Subset
<1>6. Cardinality(A) = Cardinality(B)
  <2> HIDE DEF A, B, g
  <2>1. g \in Bijection(B, A)
    BY <1>3, <1>4 DEF Bijection, Injection, IsInjective, Surjection
  <2>2. ExistsBijection(B, A)
    BY <2>1 DEF ExistsBijection
  <2>3. QED
    BY <1>5, <2>2, FS_Bijection
<1>7. QED
  BY <1>6 DEF Count

\* For every capacity up to that of the count: iterating over built metadata
\* returns each entry that was added, as its variant, as often as it was added.
THEOREM IterationIsComplete == MetaSpec => []IterationComplete
<1>1. MetaInit => IterInv
  BY DEF MetaInit, IterInv
<1>2. MetaTypeOK /\ BuilderInv /\ IterInv => IterationComplete
  <2> SUFFICES ASSUME MetaTypeOK, BuilderInv, IterInv,
                      status = "built", Done, asked <= CountBound,
                      NEW v \in Known \cup {"Unknown"}
               PROVE  Count(seen, v)
                        = Count([i \in DOMAIN added |-> Variant(added[i])], v)
    BY DEF IterationComplete
  <2> DEFINE variants == [i \in DOMAIN added |-> Variant(added[i])]
             n == Len(added)
  <2>1. n \in Nat /\ DOMAIN added = 1..n /\ CountBound \in Nat /\ asked \in Nat
    BY MetadataAssumption DEF MetadataAssumption, MetaTypeOK
  <2>2. count = n
    <3>1. HasHeader /\ n < asked
      BY DEF BuilderInv, HoldsOneLess
    <3>2. QED
      BY <2>1, <3>1 DEF IterInv
  <2>3. iterIndex = n /\ Len(seen) = n /\ DOMAIN seen = 1..n
    BY <2>1, <2>2 DEF MetaTypeOK, Done
  <2>4. PICK from \in Injection(1..n, 1..n) : meta = [i \in 1..n |-> added[from[i]]]
    BY <2>1, <2>2 DEF IterInv
  <2>5. from \in [1..n -> 1..n]
    BY <2>4 DEF Injection
  <2>6. \A i \in 1..n : seen[i] = variants[from[i]]
    BY <2>1, <2>3, <2>4, <2>5 DEF IterInv
  <2>7. DOMAIN variants = 1..n
    BY <2>1
  <2> HIDE DEF variants, n
  <2>8. Count(seen, v) = Count(variants, v)
    BY <2>1, <2>3, <2>4, <2>6, <2>7, SameCounts
  <2>9. QED
    BY <2>8 DEF variants
<1>3. QED
  BY <1>1, <1>2, IterStep, BuilderInvariant, MetaTypeCorrect, PTL DEF MetaSpec
=============================================================================
