---------------------------- MODULE Nip10Proofs ----------------------------
(* Theorems about Nip10: for any notes, the scan finds the roles the tags    *)
(* define, no tag has two, and the stored indices lead back to them.         *)
EXTENDS Nip10, SequenceTheorems, TLAPS

LEMMA TagTypes ==
    ASSUME NEW tag \in Tag
    PROVE  /\ tag.count \in Nat /\ tag.e \in BOOLEAN /\ tag.id \in Ids \cup {NoRef}
           /\ tag.relay \in {"url", "empty", "none"}
           /\ tag.marker \in Markers \cup {"none"}
           /\ tag.count < 2 => tag.id = NoRef
BY DEF Tag

LEMMA RefType ==
    ASSUME NEW tag \in Tag, IsNoteRef(tag), NEW i \in Nat
    PROVE  /\ Ref(tag, i) \in {r \in NoteIdRef : r.relay # "empty"}
           /\ Ref(tag, i).index = i /\ Ref(tag, i).id = tag.id
           /\ Ref(tag, i).marker = tag.marker
           /\ Ref(tag, i).relay =
                IF tag.relay = "empty" THEN "none" ELSE tag.relay
           /\ Ref(tag, i) # NoRef
<1>1. Ref(tag, i) \in {r \in NoteIdRef : r.relay # "empty"}
  BY TagTypes DEF IsNoteRef, Ref, NoteIdRef
<1>2. QED
  BY <1>1, Nip10Assumption DEF Nip10Assumption, Ref

-----------------------------------------------------------------------------
(* Types, and what a reference that was found says                         *)

\* Every reference found is that of a tag that has been passed.
FoundInv ==
    /\ tags \in Seq(Tag) /\ note \in Seq(Tag)
    /\ pc = "scan" => index \in 0..Len(tags)
    /\ \A k \in Markers :
        found[k] # NoRef =>
            \E i \in 0..(Len(tags) - 1) :
                /\ pc = "scan" => i < index
                /\ IsNoteRef(tags[i + 1]) /\ found[k] = Ref(tags[i + 1], i)
    /\ pc \in {"scan", "parsed"} => back = Nothing /\ buf = Nothing /\ note = <<>>
    /\ pc \notin {"scan", "parsed"} => buf = ToOwned(found)
    /\ pc = "lookup" => index \in 0..Len(note)

LEMMA FoundAgainType ==
    ASSUME Nip10TypeOK, NEW k \in Markers, Wanted(k), NEW tag \in Tag,
           NEW id \in IdRead(tag), id # NoRef
    PROVE  FoundAgain(tag, id, k) \in NoteIdRef
<1>1. buf[k] \in NoteIdRefBuf /\ index \in Nat
  BY DEF Nip10TypeOK, Wanted
<1>2. id \in Ids
  BY TagTypes DEF IdRead
<1>3. QED
  BY <1>1, <1>2, TagTypes DEF FoundAgain, NoteIdRef, NoteIdRefBuf

LEMMA Nip10Invariant == ScanSpec => [](Nip10TypeOK /\ FoundInv)
<1> USE Nip10Assumption DEF Nip10Assumption
<1>1. ScanInit => Nip10TypeOK /\ FoundInv
  <2> SUFFICES ASSUME ScanInit PROVE Nip10TypeOK /\ FoundInv
    OBVIOUS
  <2>1. Nip10TypeOK
    BY DEF ScanInit, Nip10TypeOK, Nothing
  <2>2. tags \in Seq(Tag) /\ note \in Seq(Tag) /\ index \in 0..Len(tags)
    BY DEF ScanInit
  <2>3. QED
    BY <2>1, <2>2 DEF ScanInit, FoundInv, Nothing
<1>2. Nip10TypeOK /\ FoundInv /\ [ScanNext]_scanVars => Nip10TypeOK' /\ FoundInv'
  <2> SUFFICES ASSUME Nip10TypeOK, FoundInv, [ScanNext]_scanVars
               PROVE  Nip10TypeOK' /\ FoundInv'
    OBVIOUS
  <2>1. CASE Scan
    <3> DEFINE tag == tags[index + 1]
    <3>1. /\ index \in Nat /\ index < Len(tags) /\ index' = index + 1 /\ tag \in Tag
          /\ UNCHANGED <<tags, pc, note, buf, back>> /\ pc = "scan"
      BY <2>1, ElementOfSeq DEF Scan, FoundInv
    <3>2. CASE IsNoteRef(tag)
      <4>1. /\ found' = [k \in Markers |->
                            IF Takes(tag, k) THEN Ref(tag, index) ELSE found[k]]
            /\ first' \in BOOLEAN /\ anyMarker' \in BOOLEAN
        BY <2>1, <3>2 DEF Scan, Nip10TypeOK
      <4>2. Nip10TypeOK'
        BY <3>1, <3>2, <4>1, RefType DEF Nip10TypeOK
      <4>3. FoundInv'
        BY <3>1, <3>2, <4>1 DEF FoundInv
      <4>4. QED
        BY <4>2, <4>3
    <3>3. CASE ~IsNoteRef(tag)
      BY <2>1, <3>1, <3>3 DEF Scan, Nip10TypeOK, FoundInv
    <3>4. QED
      BY <3>2, <3>3
  <2>2. CASE ScanEnds
    BY <2>2 DEF ScanEnds, Nip10TypeOK, FoundInv
  <2>3. ASSUME NEW tagsGiven \in {tags} \cup Others, BorrowReply(tagsGiven)
        PROVE  Nip10TypeOK' /\ FoundInv'
    <3>1. buf' \in [Markers -> NoteIdRefBuf \cup {NoRef}]
      BY <2>3 DEF BorrowReply, ToOwned, Nip10TypeOK, NoteIdRef, NoteIdRefBuf
    <3>2. tagsGiven \in Seq(Tag) /\ Len(tagsGiven) \in Nat
      BY <2>3 DEF FoundInv
    <3>3. FoundInv'
      BY <2>3, <3>2 DEF BorrowReply, FoundInv, ToOwned
    <3>4. QED
      BY <2>3, <3>1, <3>3 DEF BorrowReply, Nip10TypeOK
  <2>4. CASE Lookup
    <3>1. /\ index \in Nat /\ index < Len(note) /\ index' = index + 1
          /\ note[index + 1] \in Tag /\ pc = "lookup"
          /\ UNCHANGED <<tags, found, first, anyMarker, note, buf>>
      BY <2>4, ElementOfSeq DEF Lookup, FoundInv
    <3>2. back' \in [Markers -> NoteIdRef \cup {NoRef}] /\ pc' \in {"lookup", "panicked"}
      BY <2>4, <3>1, FoundAgainType DEF Lookup, Nip10TypeOK
    <3>3. QED
      BY <3>1, <3>2 DEF Nip10TypeOK, FoundInv, ToOwned
  <2>5. CASE LookupEnds
    BY <2>5 DEF LookupEnds, Nip10TypeOK, FoundInv, ToOwned
  <2>6. CASE UNCHANGED scanVars
    BY <2>6 DEF scanVars, Nip10TypeOK, FoundInv, ToOwned
  <2>7. QED
    BY <2>1, <2>2, <2>3, <2>4, <2>5, <2>6 DEF ScanNext
<1>3. QED
  BY <1>1, <1>2, PTL DEF ScanSpec

\* Every variable keeps to its type, whatever tags borrow is given.
THEOREM Nip10TypeCorrect == ScanSpec => []Nip10TypeOK
BY Nip10Invariant, PTL

-----------------------------------------------------------------------------
(* No tag has two roles                                                    *)

LEMMA TakesOne ==
    ASSUME NEW tag, NEW h \in Markers, NEW k \in Markers, Takes(tag, h), Takes(tag, k)
    PROVE  h = k
BY DEF Takes, Markers

\* borrow can tell the references apart by their indices.
THEOREM OneRole == ScanSpec => []OneRolePerTag
<1>1. ScanInit => OneRolePerTag
  BY DEF ScanInit, Nothing, OneRolePerTag
<1>2. Nip10TypeOK /\ FoundInv /\ OneRolePerTag /\ [ScanNext]_scanVars => OneRolePerTag'
  <2> SUFFICES ASSUME Nip10TypeOK, FoundInv, OneRolePerTag, [ScanNext]_scanVars
               PROVE  OneRolePerTag'
    OBVIOUS
  <2>1. CASE Scan
    <3> DEFINE tag == tags[index + 1]
    <3>1. CASE IsNoteRef(tag)
      <4>1. /\ index \in Nat /\ tag \in Tag
            /\ found' = [k \in Markers |->
                            IF Takes(tag, k) THEN Ref(tag, index) ELSE found[k]]
        BY <2>1, <3>1, ElementOfSeq DEF Scan, FoundInv
      <4>2. ASSUME NEW k \in Markers, found[k] # NoRef
            PROVE  found[k].index \in Nat /\ found[k].index < index
        <5>1. PICK i \in 0..(Len(tags) - 1) :
                i < index /\ IsNoteRef(tags[i + 1]) /\ found[k] = Ref(tags[i + 1], i)
          BY <2>1, <4>2 DEF FoundInv, Scan
        <5>2. QED
          BY <5>1 DEF Ref
      <4>3. Ref(tag, index).index = index
        BY DEF Ref
      <4>4. QED
        BY <4>1, <4>2, <4>3, TakesOne DEF OneRolePerTag
    <3>2. CASE ~IsNoteRef(tag)
      BY <2>1, <3>2 DEF Scan, OneRolePerTag
    <3>3. QED
      BY <3>1, <3>2
  <2>2. CASE ScanEnds \/ Lookup \/ LookupEnds \/ UNCHANGED scanVars
    BY <2>2 DEF ScanEnds, Lookup, LookupEnds, scanVars, OneRolePerTag
  <2>3. ASSUME NEW tagsGiven \in {tags} \cup Others, BorrowReply(tagsGiven)
        PROVE  OneRolePerTag'
    BY <2>3 DEF BorrowReply, OneRolePerTag
  <2>4. QED
    BY <2>1, <2>2, <2>3 DEF ScanNext
<1>3. QED
  BY <1>1, <1>2, Nip10Invariant, PTL DEF ScanSpec

-----------------------------------------------------------------------------
(* The stored indices lead back to the references                          *)

\* With the tags that were scanned, what borrow has found again so far.
BackInv ==
    note = tags =>
        /\ pc # "panicked"
        /\ pc \in {"lookup", "back"} =>
            \A k \in Markers :
                IF found[k] # NoRef /\ (pc = "back" \/ found[k].index < index)
                THEN back[k] = [found[k] EXCEPT
                                    !.relay = tags[found[k].index + 1].relay]
                ELSE back[k] = NoRef

\* borrow(to_owned) gives back every reference that was found, as its tag has
\* it, and panics only over the tags of another note.
THEOREM RoundTripHolds == ScanSpec => []RoundTrip
<1>1. ScanInit => BackInv
  BY DEF ScanInit, BackInv
<1>2. Nip10TypeOK /\ FoundInv /\ OneRolePerTag /\ BackInv /\ [ScanNext]_scanVars => BackInv'
  <2> SUFFICES ASSUME Nip10TypeOK, FoundInv, OneRolePerTag, BackInv, [ScanNext]_scanVars
               PROVE  BackInv'
    OBVIOUS
  <2> DEFINE Again(k) == [found[k] EXCEPT !.relay = tags[found[k].index + 1].relay]
  <2>0. ASSUME NEW k \in Markers, found[k] # NoRef
        PROVE  \E i \in 0..(Len(tags) - 1) :
                 /\ tags[i + 1] \in Tag /\ IsNoteRef(tags[i + 1])
                 /\ found[k] = Ref(tags[i + 1], i) /\ found[k].index = i
    <3>1. PICK i \in 0..(Len(tags) - 1) :
            IsNoteRef(tags[i + 1]) /\ found[k] = Ref(tags[i + 1], i)
      BY <2>0 DEF FoundInv
    <3>2. tags[i + 1] \in Tag
      BY ElementOfSeq DEF FoundInv
    <3>3. QED
      BY <3>1, <3>2, RefType
  <2>1. CASE Scan \/ ScanEnds
    BY <2>1 DEF Scan, ScanEnds, BackInv, FoundInv
  <2>2. ASSUME NEW tagsGiven \in {tags} \cup Others, BorrowReply(tagsGiven)
        PROVE  BackInv'
    <3>1. back = Nothing /\ pc' = "lookup" /\ index' = 0 /\ UNCHANGED <<found, back, tags>>
      BY <2>2 DEF BorrowReply, FoundInv
    <3>2. ASSUME NEW k \in Markers, found[k] # NoRef
          PROVE  ~(found[k].index < 0)
      BY <2>0, <3>2
    <3>3. QED
      BY <3>1, <3>2 DEF BackInv, Nothing
  <2>3. CASE Lookup
    <3> SUFFICES ASSUME note = tags PROVE BackInv'
      BY <2>3 DEF Lookup, BackInv
    <3> DEFINE tag == tags[index + 1]
    <3>1. /\ index \in Nat /\ index < Len(tags) /\ index' = index + 1 /\ tag \in Tag
          /\ pc = "lookup" /\ UNCHANGED <<tags, found, note, buf>>
      BY <2>3, ElementOfSeq DEF Lookup, FoundInv
    <3>2. \A k \in Markers : Wanted(k) <=> found[k] # NoRef /\ found[k].index = index
      <4>1. buf = ToOwned(found)
        BY <3>1 DEF FoundInv
      <4>2. \A k \in Markers : /\ buf[k] # NoRef <=> found[k] # NoRef
                               /\ buf[k] # NoRef => buf[k].index = found[k].index
        BY <4>1, Nip10Assumption DEF ToOwned, Nip10Assumption, Nip10TypeOK, NoteIdRef, NoteIdRefBuf
      <4>3. QED
        BY <4>2 DEF Wanted, OneRolePerTag
    <3>3. ASSUME NEW k \in Markers, Wanted(k)
          PROVE  /\ LookedAt(tag) = {TRUE} /\ IdRead(tag) = {tag.id} /\ tag.id # NoRef
                 /\ FoundAgain(tag, tag.id, k) = Again(k)
      <4>1. PICK i \in 0..(Len(tags) - 1) :
                 /\ tags[i + 1] \in Tag /\ IsNoteRef(tags[i + 1])
                 /\ found[k] = Ref(tags[i + 1], i) /\ found[k].index = i
        BY <2>0, <3>2, <3>3
      <4>2. i = index
        BY <3>2, <3>3, <4>1
      <4>3. tag.count >= 2 /\ tag.id # NoRef /\ found[k] = Ref(tag, index)
        BY <4>1, <4>2 DEF IsNoteRef
      <4>4. buf[k].marker = tag.marker
        BY <3>1, <3>2, <3>3, <4>3 DEF FoundInv, ToOwned, Ref
      <4>5. Again(k) = [Ref(tag, index) EXCEPT !.relay = tag.relay]
        BY <4>1, <4>2, <4>3
      <4>6. LookedAt(tag) = {TRUE} /\ IdRead(tag) = {tag.id}
        BY <4>3 DEF LookedAt, IdRead
      <4>7. Again(k) = [index |-> index, id |-> tag.id, relay |-> tag.relay,
                        marker |-> tag.marker]
        BY <4>5 DEF Ref
      <4>8. FoundAgain(tag, tag.id, k) = Again(k)
        BY <4>4, <4>7 DEF FoundAgain
      <4>9. QED
        BY <4>3, <4>6, <4>8
    <3>4. CASE \E k \in Markers : Wanted(k)
      <4>0. PICK looks \in {TRUE}, id \in {tag.id} :
               /\ pc' = IF id = NoRef THEN "panicked" ELSE pc
               /\ back' = [k \in Markers |->
                              IF Wanted(k) /\ id # NoRef
                              THEN FoundAgain(tag, id, k) ELSE back[k]]
        BY <2>3, <3>3, <3>4 DEF Lookup
      <4>1. /\ pc' = pc
            /\ back' = [k \in Markers |-> IF Wanted(k) THEN Again(k) ELSE back[k]]
        BY <3>3, <3>4, <4>0
      <4>2. QED
        BY <2>0, <3>1, <3>2, <4>1 DEF BackInv
    <3>5. CASE ~\E k \in Markers : Wanted(k)
      <4>1. pc' = pc /\ back' = back
        BY <2>3, <3>5 DEF Lookup
      <4>2. QED
        BY <2>0, <3>1, <3>2, <3>5, <4>1 DEF BackInv
    <3>6. QED
      BY <3>4, <3>5
  <2>4. CASE LookupEnds \/ UNCHANGED scanVars
    BY <2>0, <2>4 DEF LookupEnds, scanVars, BackInv, FoundInv
  <2>5. QED
    BY <2>1, <2>2, <2>3, <2>4 DEF ScanNext
<1>3. BackInv => RoundTrip
  BY DEF BackInv, RoundTrip
<1>4. QED
  BY <1>1, <1>2, <1>3, Nip10Invariant, OneRole, PTL DEF ScanSpec

-----------------------------------------------------------------------------
(* The scan finds the roles the tags define                                *)

Marked(n) == \E j \in Refs : j < n /\ tags[j + 1].marker # "none"

\* One more tag: a reference joins those of its marker, or the unmarked ones as
\* long as there is no marker.
LEMMA OneMore ==
    ASSUME tags \in Seq(Tag), NEW n \in 0..(Len(tags) - 1)
    PROVE  /\ IsNoteRef(tags[n + 1]) =>
                /\ \A k \in Markers : MarkedIn(n + 1, k) =
                     IF tags[n + 1].marker = k THEN MarkedIn(n, k) \cup {n} ELSE MarkedIn(n, k)
                /\ UnmarkedIn(n + 1) =
                     IF tags[n + 1].marker = "none" /\ ~Marked(n)
                     THEN UnmarkedIn(n) \cup {n} ELSE UnmarkedIn(n)
                /\ Marked(n + 1) <=> Marked(n) \/ tags[n + 1].marker # "none"
           /\ ~IsNoteRef(tags[n + 1]) =>
                /\ \A k \in Markers : MarkedIn(n + 1, k) = MarkedIn(n, k)
                /\ UnmarkedIn(n + 1) = UnmarkedIn(n)
                /\ Marked(n + 1) <=> Marked(n)
<1> USE DEF Refs
<1>1. n \in Nat /\ Len(tags) \in Nat
  OBVIOUS
<1>2. \A j \in Refs : j < n + 1 <=> j < n \/ j = n
  BY <1>1
<1>3. n \in Refs <=> IsNoteRef(tags[n + 1])
  BY <1>1
<1>4. \A k \in Markers : MarkedIn(n + 1, k) =
        IF n \in Refs /\ tags[n + 1].marker = k THEN MarkedIn(n, k) \cup {n} ELSE MarkedIn(n, k)
  BY <1>1, <1>2 DEF MarkedIn
<1>5. Marked(n + 1) <=> Marked(n) \/ (n \in Refs /\ tags[n + 1].marker # "none")
  BY <1>1, <1>2 DEF Marked
<1>6. n \in UnmarkedIn(n + 1) <=> n \in Refs /\ tags[n + 1].marker = "none" /\ ~Marked(n)
  BY <1>1, <1>2 DEF UnmarkedIn, Marked
<1>7. \A j \in Refs : j # n => (j \in UnmarkedIn(n + 1) <=> j \in UnmarkedIn(n))
  BY <1>1, <1>2 DEF UnmarkedIn
<1>8. n \notin UnmarkedIn(n) /\ UnmarkedIn(n) \subseteq Refs /\ UnmarkedIn(n + 1) \subseteq Refs
  BY <1>1 DEF UnmarkedIn
<1> HIDE DEF Refs
<1>9. UnmarkedIn(n + 1) = IF n \in Refs /\ tags[n + 1].marker = "none" /\ ~Marked(n)
                          THEN UnmarkedIn(n) \cup {n} ELSE UnmarkedIn(n)
  <2>1. CASE n \in UnmarkedIn(n + 1)
    <3>1. UnmarkedIn(n + 1) = UnmarkedIn(n) \cup {n}
      BY <1>7, <1>8, <2>1
    <3>2. QED
      BY <1>6, <2>1, <3>1
  <2>2. CASE n \notin UnmarkedIn(n + 1)
    <3>1. UnmarkedIn(n + 1) = UnmarkedIn(n)
      BY <1>7, <1>8, <2>2
    <3>2. QED
      BY <1>6, <2>2, <3>1
  <2>3. QED
    BY <2>1, <2>2
<1>10. QED
  BY <1>3, <1>4, <1>5, <1>9

LEMMA NoMarker ==
    ASSUME NEW n \in Nat, ~Marked(n), NEW k \in Markers
    PROVE  MarkedIn(n, k) = {}
BY DEF Marked, MarkedIn, Markers

LEMMA SameTags ==
    ASSUME UNCHANGED tags
    PROVE  /\ \A n, k, r : IsRoleIn(n, k, r)' <=> IsRoleIn(n, k, r)
           /\ \A n : UnmarkedIn(n)' = UnmarkedIn(n) /\ Marked(n)' = Marked(n)
BY DEF IsRoleIn, MarkedIn, UnmarkedIn, Marked, Refs

\* Where the scan is: its flags say whether there was a marked reference, and
\* an unmarked one that counted; before, one role at least was open.
ScanInv ==
    pc = "scan" =>
        /\ \A k \in Markers : IsRoleIn(index, k, found[k])
        /\ anyMarker <=> Marked(index)
        /\ first <=> UnmarkedIn(index) = {}
        /\ \A m \in 0..(index - 1) : \E k \in Markers : IsRoleIn(m, k, NoRef)

LEMMA ScanStep ==
    ASSUME Nip10TypeOK, FoundInv, ScanInv, Scan
    PROVE  ScanInv'
<1> USE DEF ScanInv
<1> DEFINE tag == tags[index + 1]
<1>1. /\ index \in 0..(Len(tags) - 1) /\ index' = index + 1 /\ tag \in Tag
      /\ pc = "scan" /\ pc' = "scan" /\ tags' = tags /\ tags \in Seq(Tag)
  BY ElementOfSeq DEF Scan, FoundInv
<1>2. \A m, k, r : IsRoleIn(m, k, r)' <=> IsRoleIn(m, k, r')
  BY <1>1 DEF IsRoleIn, MarkedIn, UnmarkedIn, Refs
<1>3. \A m \in 0..(index' - 1) : \E k \in Markers : IsRoleIn(m, k, NoRef)
  <2>1. PICK k \in Markers : found[k] = NoRef
    BY DEF Scan, AllFound
  <2>2. IsRoleIn(index, k, NoRef)
    BY <1>1, <2>1
  <2>3. QED
    BY <1>1, <2>2
<1>4. CASE ~IsNoteRef(tag)
  <2>1. UNCHANGED <<found, anyMarker, first>>
    BY <1>4 DEF Scan
  <2>2. \A k \in Markers : IsRoleIn(index + 1, k, found[k])
    BY <1>1, <1>4, OneMore DEF IsRoleIn
  <2>3. QED
    BY <1>1, <1>2, <1>3, <1>4, <2>1, <2>2, OneMore DEF UnmarkedIn, Marked, Refs
<1>5. CASE IsNoteRef(tag)
  <2>1. /\ found' = [k \in Markers |->
                        IF Takes(tag, k) THEN Ref(tag, index) ELSE found[k]]
        /\ anyMarker' = (anyMarker \/ tag.marker # "none")
        /\ first' = (first /\ (tag.marker # "none" \/ anyMarker))
    BY <1>5 DEF Scan
  <2>2. /\ anyMarker <=> Marked(index)
        /\ first <=> UnmarkedIn(index) = {}
        /\ \A k \in Markers : IsRoleIn(index, k, found[k])
    BY <1>1
  <2>3. index \in Nat /\ \A k \in Markers : MarkedIn(index, k) \subseteq 0..(index - 1)
    BY <1>1 DEF MarkedIn, Refs
  <2>4. UnmarkedIn(index) \subseteq 0..(index - 1)
    BY <1>1 DEF UnmarkedIn, Refs
  <2>5. \A i \in UnmarkedIn(index) : Ref(tags[i + 1], i) # NoRef
    <3>1. \A i \in Refs : tags[i + 1] \in Tag /\ IsNoteRef(tags[i + 1]) /\ i \in Nat
      BY <1>1, ElementOfSeq DEF Refs
    <3>2. QED
      BY <3>1, RefType DEF UnmarkedIn
  <2>6. /\ \A k \in Markers : IsRoleIn(index + 1, k, found'[k])
        /\ anyMarker' <=> Marked(index + 1)
        /\ first' <=> UnmarkedIn(index + 1) = {}
    <3>1. CASE tag.marker # "none"
      <4>1. /\ \A k \in Markers : MarkedIn(index + 1, k) =
                 IF k = tag.marker THEN MarkedIn(index, k) \cup {index} ELSE MarkedIn(index, k)
            /\ UnmarkedIn(index + 1) = UnmarkedIn(index)
            /\ Marked(index + 1)
        BY <1>1, <1>5, <3>1, OneMore
      <4>2. \A k \in Markers : found'[k] = IF k = tag.marker THEN Ref(tag, index) ELSE found[k]
        BY <2>1, <3>1 DEF Takes
      <4>3. ASSUME NEW k \in Markers, k = tag.marker
            PROVE  IsRoleIn(index + 1, k, found'[k])
        <5>1. index \in MarkedIn(index + 1, k) /\ found'[k] = Ref(tags[index + 1], index)
          BY <4>1, <4>2, <4>3
        <5>2. ASSUME NEW j \in MarkedIn(index + 1, k)
              PROVE  j <= index
          <6>1. j \in MarkedIn(index, k) \/ j = index
            BY <4>1, <4>3
          <6>2. QED
            BY <2>3, <6>1
        <5>3. QED
          BY <5>1, <5>2 DEF IsRoleIn
      <4>4. ASSUME NEW k \in Markers, k # tag.marker
            PROVE  IsRoleIn(index + 1, k, found'[k])
        BY <2>2, <4>1, <4>2, <4>4 DEF IsRoleIn
      <4>5. QED
        BY <2>1, <2>2, <3>1, <4>1, <4>3, <4>4
    <3>2. CASE tag.marker = "none" /\ anyMarker
      <4>1. found' = found /\ anyMarker' = anyMarker /\ first' = first
        BY <2>1, <3>2 DEF Takes, Nip10TypeOK
      <4>2. /\ \A k \in Markers : MarkedIn(index + 1, k) = MarkedIn(index, k)
            /\ UnmarkedIn(index + 1) = UnmarkedIn(index)
            /\ Marked(index + 1) <=> Marked(index)
        BY <1>1, <1>5, <2>2, <3>2, OneMore DEF Markers
      <4>3. QED
        BY <2>2, <4>1, <4>2 DEF IsRoleIn
    <3>3. CASE tag.marker = "none" /\ ~anyMarker
      <4>1. /\ UnmarkedIn(index + 1) = UnmarkedIn(index) \cup {index}
            /\ ~Marked(index) /\ ~Marked(index + 1)
        BY <1>1, <1>5, <2>2, <3>3, OneMore
      <4>2. \A k \in Markers : MarkedIn(index, k) = {} /\ MarkedIn(index + 1, k) = {}
        BY <2>3, <4>1, NoMarker
      <4>3. /\ found'["root"] = IF first THEN Ref(tag, index) ELSE found["root"]
            /\ found'["reply"] = IF ~first /\ found["reply"] = NoRef
                                 THEN Ref(tag, index) ELSE found["reply"]
            /\ found'["mention"] = found["mention"]
        BY <2>1, <3>3 DEF Takes, Markers
      <4>4. /\ IsRoleIn(index, "root", found["root"])
            /\ IsRoleIn(index, "reply", found["reply"])
            /\ IsRoleIn(index, "mention", found["mention"])
        BY <2>2 DEF Markers
      <4>5. IsRoleIn(index + 1, "mention", found'["mention"])
        BY <4>2, <4>3, <4>4 DEF IsRoleIn, Markers
      <4>6. IsRoleIn(index + 1, "root", found'["root"])
        <5>1. CASE first
          <6>1. UnmarkedIn(index + 1) = {index}
            BY <2>2, <4>1, <5>1
          <6>2. QED
            BY <2>3, <4>2, <4>3, <5>1, <6>1 DEF IsRoleIn, Markers
        <5>2. CASE ~first
          <6>1. PICK i \in UnmarkedIn(index) :
                  found["root"] = Ref(tags[i + 1], i) /\ \A j \in UnmarkedIn(index) : i <= j
            BY <2>2, <4>2, <4>4, <5>2 DEF IsRoleIn, Markers
          <6>2. \A j \in UnmarkedIn(index + 1) : i <= j
            BY <2>3, <2>4, <4>1, <6>1
          <6>3. QED
            BY <4>1, <4>2, <4>3, <5>2, <6>1, <6>2 DEF IsRoleIn, Markers
        <5>3. QED
          BY <5>1, <5>2
      <4>7. IsRoleIn(index + 1, "reply", found'["reply"])
        <5>1. CASE first
          BY <2>2, <4>1, <4>2, <4>3, <4>4, <5>1 DEF IsRoleIn, Markers
        <5>2. CASE ~first /\ found["reply"] = NoRef
          <6>1. \A h, i \in UnmarkedIn(index) : h = i
            BY <2>5, <4>2, <4>4, <5>2 DEF IsRoleIn, Markers
          <6>2. PICK h \in UnmarkedIn(index) : TRUE
            BY <2>2, <5>2
          <6>3. /\ h \in UnmarkedIn(index + 1) /\ index \in UnmarkedIn(index + 1) /\ h < index
                /\ \A j \in UnmarkedIn(index + 1) : j = h \/ index <= j
            BY <2>3, <2>4, <4>1, <6>1, <6>2
          <6>4. QED
            BY <4>2, <4>3, <5>2, <6>3 DEF IsRoleIn, Markers
        <5>3. CASE ~first /\ found["reply"] # NoRef
          <6>1. PICK h \in UnmarkedIn(index), i \in UnmarkedIn(index) :
                  /\ h < i /\ \A j \in UnmarkedIn(index) : j = h \/ i <= j
                  /\ found["reply"] = Ref(tags[i + 1], i)
            BY <4>2, <4>4, <5>3 DEF IsRoleIn, Markers
          <6>2. \A j \in UnmarkedIn(index + 1) : j = h \/ i <= j
            BY <2>3, <2>4, <4>1, <6>1
          <6>3. QED
            BY <4>1, <4>2, <4>3, <5>3, <6>1, <6>2 DEF IsRoleIn, Markers
        <5>4. QED
          BY <5>1, <5>2, <5>3
      <4>8. QED
        BY <2>1, <3>3, <4>1, <4>5, <4>6, <4>7 DEF Markers
    <3>4. QED
      BY <3>1, <3>2, <3>3
  <2>7. QED
    BY <1>1, <1>2, <1>3, <2>6 DEF UnmarkedIn, Marked, Refs
<1>6. QED
  BY <1>4, <1>5

LEMMA ScanInvariant == ScanSpec => []ScanInv
<1>1. ScanInit => ScanInv
  BY DEF ScanInit, ScanInv, Nothing, IsRoleIn, MarkedIn, UnmarkedIn, Marked, Refs
<1>2. Nip10TypeOK /\ FoundInv /\ ScanInv /\ [ScanNext]_scanVars => ScanInv'
  <2> SUFFICES ASSUME Nip10TypeOK, FoundInv, ScanInv, [ScanNext]_scanVars
               PROVE  ScanInv'
    OBVIOUS
  <2>1. CASE pc' # "scan"
    BY <2>1 DEF ScanInv
  <2>2. CASE Scan
    BY <2>2, ScanStep
  <2>3. CASE UNCHANGED scanVars
    BY <2>3, SameTags DEF scanVars, ScanInv
  <2>4. QED
    BY <2>1, <2>2, <2>3 DEF ScanNext, ScanEnds, BorrowReply, Lookup, LookupEnds
<1>3. QED
  BY <1>1, <1>2, Nip10Invariant, PTL DEF ScanSpec

\* At every point of the scan the roles are those of the tags so far.
THEOREM RolesSoFarHold == ScanSpec => []RolesSoFar
<1>1. ScanInv => RolesSoFar
  BY DEF ScanInv, RolesSoFar
<1>2. QED
  BY <1>1, ScanInvariant, PTL

\* What NoteReply::new answers is what the tags define, up to the one that
\* completes all three roles.
THEOREM RolesRight == ScanSpec => []RolesAreRight
<1>a. AccessorsAgree /\ AccessorsAgree'
  BY DEF AccessorsAgree, IsReplyToRoot, Reply, Root
<1>1. ScanInit => RolesAreRight
  BY <1>a DEF ScanInit, RolesAreRight
<1>2. Nip10TypeOK /\ FoundInv /\ ScanInv /\ RolesAreRight /\ [ScanNext]_scanVars => RolesAreRight'
  <2> SUFFICES ASSUME Nip10TypeOK, FoundInv, ScanInv, RolesAreRight, [ScanNext]_scanVars
               PROVE  RolesAreRight'
    OBVIOUS
  <2>1. CASE ScanEnds
    <3>1. index \in 0..Len(tags) /\ UNCHANGED <<tags, found>>
      BY <2>1 DEF ScanEnds, FoundInv
    <3>2. /\ \A k \in Markers : IsRoleIn(index, k, found[k])
          /\ index = Len(tags) \/ NoRef \notin {found[k] : k \in Markers}
          /\ \A m \in 0..(index - 1) : \E k \in Markers : IsRoleIn(m, k, NoRef)
      BY <2>1 DEF ScanEnds, ScanInv, AllFound
    <3>3. QED
      BY <1>a, <3>1, <3>2, SameTags DEF RolesAreRight
  <2>2. CASE Scan
    BY <1>a, <2>2 DEF Scan, RolesAreRight
  <2>3. CASE pc # "scan" /\ UNCHANGED <<tags, found>>
    BY <1>a, <2>3, SameTags DEF RolesAreRight
  <2>4. CASE UNCHANGED scanVars
    BY <1>a, <2>4, SameTags DEF scanVars, RolesAreRight
  <2>5. QED
    BY <2>1, <2>2, <2>3, <2>4 DEF ScanNext, BorrowReply, Lookup, LookupEnds
<1>3. QED
  BY <1>1, <1>2, Nip10Invariant, ScanInvariant, PTL DEF ScanSpec
=============================================================================
